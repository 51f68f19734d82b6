-------------------------- MODULE StreamSupervisor --------------------------
(***************************************************************************)
(* The Yellowstone client (crates/stream) between the server and the two    *)
(* tasks that live off it: connect, subscribe, forward, reconnect; the      *)
(* bounded event channel with its asymmetric backpressure; the fan-out task *)
(* at its other end; and the task that runs a reconcile pass per reconnect  *)
(* signal (app.rs).                                                         *)
(*                                                                          *)
(* An update about a transaction is its kind and the transaction; in the    *)
(* event channel a status is its transaction and a slot update just "slot"  *)
(* (what the fan-out does with its number is in module LeaderWindows); a    *)
(* reconcile pass is the set of landings that preceded it.  What is external *)
(* is the cluster, the server and the wire.  The consumers live as long as   *)
(* the process, so the shutdown on a closed channel never happens.           *)
(***************************************************************************)
EXTENDS Integers, Sequences

CONSTANTS
  Txs,        \* the transactions of the run's bundles
  TxUpdates,  \* kinds of update the server sends for the transactions filter
  EventCap,   \* EVENT_CHANNEL_CAPACITY
  SignalCap   \* capacity of the reconnect channel

ASSUME CapacityAssumption == EventCap \in Nat \ {0} /\ SignalCap \in Nat \ {0}

(* What a subscription can yield about a transaction.  The request sets the *)
(* filter `transactions` and leaves `transactions_status` out: which of the *)
(* two kinds comes of that is up to the server.                             *)
UpdateKinds == {"transaction", "status"}
ASSUME TxUpdatesAssumption == TxUpdates \subseteq UpdateKinds /\ TxUpdates # {}

SlotEvent == "slot"
ASSUME SlotEventAssumption == SlotEvent \notin Txs

VARIABLES
  conn,        \* "connecting", "up" or "backoff"
  attempt,     \* connection attempt: 1, or 2 for any later one
  wire,        \* updates the server has sent on this connection (external)
  blocked,     \* {} or the status whose send().await waits for room
  queue,       \* the event channel
  signals,     \* messages in the reconnect channel
  reconciling, \* a reconcile pass is running
  started,     \* the fan-out has seen a slot: from here on bundles are sent
  landed,      \* transactions that have landed (external)
  heard,       \* statuses the client received
  ignored,     \* transactions of which the client ignored an update
  delivered,   \* statuses the fan-out handed to the lifecycle tracker
  asked,       \* landings that preceded the start of a reconcile pass
  learned      \* landings a reconcile pass has marked

channelVars == <<blocked, queue, heard, ignored>>
reconcileVars == <<reconciling, asked, learned>>
consumerVars == <<signals, started, delivered, reconcileVars>>
streamVars == <<conn, attempt, wire, landed, channelVars, consumerVars>>

Queued == {queue[i] : i \in DOMAIN queue} \ {SlotEvent}

StreamInit ==
  /\ conn = "connecting" /\ attempt = 1
  /\ wire = {} /\ blocked = {} /\ queue = <<>> /\ signals = 0
  /\ reconciling = FALSE /\ started = FALSE
  /\ landed = {} /\ heard = {} /\ ignored = {} /\ delivered = {}
  /\ asked = {} /\ learned = {}

----------------------------------------------------------------------------
(* run_inner and run_connection.                                            *)

(* Connected and subscribed: every connection but that of the first attempt *)
(* is signalled, unless the reconnect channel is full.                      *)
Connects ==
  /\ conn = "connecting"
  /\ conn' = "up"
  /\ signals' = IF attempt > 1 /\ signals < SignalCap THEN signals + 1 ELSE signals
  /\ UNCHANGED <<attempt, wire, landed, channelVars, started, delivered, reconcileVars>>

(* The connect or the subscription fails; or the stream ends while the      *)
(* client waits for the next update, and what was on the wire is lost.      *)
ConnectionEnds ==
  /\ conn \in {"connecting", "up"} /\ blocked = {}
  /\ conn' = "backoff" /\ wire' = {}
  /\ UNCHANGED <<attempt, landed, channelVars, consumerVars>>

Reconnects_CountsAnew ==  \* mutant
  /\ conn = "backoff"
  /\ conn' = "connecting" /\ attempt' = 1
  /\ UNCHANGED <<wire, landed, channelVars, consumerVars>>

(* The backoff delay is over.                                               *)
Reconnects ==
  /\ conn = "backoff"
  /\ conn' = "connecting" /\ attempt' = 2
  /\ UNCHANGED <<wire, landed, channelVars, consumerVars>>

----------------------------------------------------------------------------
(* forward.                                                                 *)

HasRoom == Len(queue) < EventCap
Receiving == conn = "up" /\ blocked = {}

ForwardSlot_Unbounded ==  \* mutant
  /\ Receiving
  /\ queue' = Append(queue, SlotEvent)
  /\ UNCHANGED <<conn, attempt, wire, landed, blocked, heard, ignored, consumerVars>>

(* A slot update is dropped when the channel is full.                       *)
ForwardSlot ==
  /\ Receiving
  /\ queue' = IF HasRoom THEN Append(queue, SlotEvent) ELSE queue
  /\ UNCHANGED <<conn, attempt, wire, landed, blocked, heard, ignored, consumerVars>>

Receives(kind, t) ==
  /\ Receiving /\ <<kind, t>> \in wire
  /\ wire' = wire \ {<<kind, t>>}

ForwardStatus_TrySend(t) ==  \* mutant
  /\ Receives("status", t)
  /\ heard' = heard \cup {t}
  /\ queue' = IF HasRoom THEN Append(queue, t) ELSE queue
  /\ UNCHANGED <<conn, attempt, landed, blocked, ignored, consumerVars>>

(* A transaction status waits for room, and everything behind it with it.   *)
ForwardStatus(t) ==
  /\ Receives("status", t)
  /\ heard' = heard \cup {t}
  /\ IF HasRoom THEN queue' = Append(queue, t) /\ blocked' = {}
                ELSE queue' = queue /\ blocked' = {t}
  /\ UNCHANGED <<conn, attempt, landed, ignored, consumerVars>>

(* An update of any other kind, a whole transaction included, is ignored.   *)
ForwardOther(t) ==
  /\ Receives("transaction", t)
  /\ ignored' = ignored \cup {t}
  /\ UNCHANGED <<conn, attempt, landed, blocked, queue, heard, consumerVars>>

Unblocks ==
  /\ HasRoom
  /\ \E t \in blocked : queue' = Append(queue, t)
  /\ blocked' = {}
  /\ UNCHANGED <<conn, attempt, wire, landed, heard, ignored, consumerVars>>

----------------------------------------------------------------------------
(* The consumers.                                                           *)

FanOut ==
  /\ queue # <<>>
  /\ queue' = Tail(queue)
  /\ IF Head(queue) = SlotEvent
       THEN started' = TRUE /\ UNCHANGED delivered
       ELSE delivered' = delivered \cup {Head(queue)} /\ UNCHANGED started
  /\ UNCHANGED <<conn, attempt, wire, landed, blocked, heard, ignored, signals, reconcileVars>>

(* One pass per signal; it asks for every open row, so for all that landed  *)
(* before it.                                                               *)
ReconcileStarts ==
  /\ ~reconciling /\ signals > 0
  /\ signals' = signals - 1
  /\ reconciling' = TRUE
  /\ asked' = landed
  /\ UNCHANGED <<conn, attempt, wire, landed, channelVars, started, delivered, learned>>

ReconcileEnds_Drains(marked) ==  \* mutant
  /\ reconciling
  /\ reconciling' = FALSE /\ signals' = 0
  /\ learned' = learned \cup marked
  /\ UNCHANGED <<conn, attempt, wire, landed, channelVars, started, delivered, asked>>

ReconcileEnds(marked) ==
  /\ reconciling
  /\ reconciling' = FALSE
  /\ learned' = learned \cup marked
  /\ UNCHANGED <<conn, attempt, wire, landed, channelVars, signals, started, delivered, asked>>

ReconcileSucceeds == ReconcileEnds(asked)

(* The RPC call fails, and nothing is learned, or an UPDATE does, and what  *)
(* was to be marked after it is not.  The task logs the error and waits for *)
(* the next signal.                                                         *)
ReconcileFails == \E marked \in SUBSET asked : ReconcileEnds(marked)

(* A bundle of this run lands; the server tells whoever is connected.       *)
Lands(t) ==
  /\ started /\ t \notin landed
  /\ landed' = landed \cup {t}
  /\ IF conn = "up" THEN \E kind \in TxUpdates : wire' = wire \cup {<<kind, t>>}
                    ELSE wire' = wire
  /\ UNCHANGED <<conn, attempt, channelVars, consumerVars>>

StreamNext ==
  \/ Connects \/ ConnectionEnds \/ Reconnects
  \/ ForwardSlot \/ Unblocks \/ FanOut
  \/ ReconcileStarts \/ ReconcileSucceeds \/ ReconcileFails
  \/ \E t \in Txs : ForwardStatus(t) \/ ForwardOther(t) \/ Lands(t)

StreamSpec == StreamInit /\ [][StreamNext]_streamVars

(* The tasks run and the wire delivers; a server that is tried for ever     *)
(* lets the client in at last, and reconcile passes that are made again and *)
(* again do not all fail.                                                   *)
StreamFairness ==
  /\ SF_streamVars(Connects) /\ WF_streamVars(Reconnects)
  /\ WF_streamVars(FanOut) /\ WF_streamVars(Unblocks)
  /\ WF_streamVars(ReconcileStarts) /\ SF_streamVars(ReconcileSucceeds)
  /\ \A t \in Txs : WF_streamVars(ForwardStatus(t)) /\ WF_streamVars(ForwardOther(t))
=============================================================================
