------------------------------ MODULE Lifecycle ------------------------------
(***************************************************************************)
(* The lifecycle tracker at work: the in-memory state of TrackerState, the *)
(* bundle_submissions table it is written through to, and every task that  *)
(* touches either of them: the submitting task, the stream fan-out and the *)
(* writes it spawns, the timeout sweeper, the reconcile task and the Jito  *)
(* status pollers. An await is the boundary of a step: what a task holds   *)
(* across it is a variable. The cluster and the stream connection are the  *)
(* environment; a landing is reported as a transaction status, which the   *)
(* stream client passes on (what it ignores is in StreamSupervisor).       *)
(***************************************************************************)
EXTENDS TrackerState, Sequences, FiniteSets

CONSTANTS
  TimeoutSlots,   \* LifecycleConfig::timeout_slots
  BlockhashLife,  \* slots after its recorded slot in which a bundle may land
  StreamLag,      \* how far slot updates may run ahead of a landing's status
  AwaitWrites,    \* TRUE: ingest_and_persist, FALSE: ingest
  LandsEarly,     \* may a bundle land before record_submission has returned?
  FaultKinds,     \* which faults the environment may inject
  MaxFaults       \* bound: how many in a behaviour

Faults == {"gap", "crash", "write", "rpc", "fork"}

ASSUME LifecycleAssumption ==
  /\ TimeoutSlots \in Nat /\ BlockhashLife \in Nat /\ StreamLag \in Nat
  /\ AwaitWrites \in BOOLEAN /\ LandsEarly \in BOOLEAN
  /\ FaultKinds \subseteq Faults /\ MaxFaults \in Nat
  /\ Verdicts \cap {"off", "idle", NoVerdict} = {}  \* names of no verdict

VARIABLES
  head, confirmed, finalized,  \* the cluster's commitment levels
  landed, errored,             \* where a bundle landed, and with an error
  connected, heard,            \* the stream; landings whose status is through
  reconnects,                  \* a reconnect signal waits for the reconcile task
  phase, base, refused,        \* the submitting task of each bundle
  inner,                       \* the tracker's memory (TrackerState)
  db,                          \* the rows of bundle_submissions
  spawned,                     \* writes ingest has spawned
  sweep, retried,              \* the sweeper; the rows it handed to the agent
  rec,                         \* the reconcile task
  polled,                      \* each bundle's Jito poller: off, idle, or with
                               \* a verdict it has yet to persist
  faults

cluster == <<head, confirmed, finalized, landed, errored>>
link == <<connected, heard, reconnects>>
client == <<phase, base, refused>>
sweeper == <<sweep, retried>>
vars == <<cluster, link, client, inner, db, spawned, sweeper, rec, polled, faults>>

Causes == {"none", "Rejected", "OnChain", "NeverLanded"}

Row == [status : OpenStages \cup TerminalStages \cup {"Absent"},
        landed : Slot \cup {NoSlot},
        cause : Causes,
        jito : Verdicts \cup {NoVerdict}]

Write == {w \in [row : Bundles,
                 to : {"Processed", "Confirmed", "Finalized", "Failed"},
                 slot : Slot \cup {NoSlot},
                 cause : Causes] : w.to = "Processed" => w.slot # NoSlot}

Levels == {"Processed", "Confirmed", "Finalized"}
NoAnswer == [level |-> "none", slot |-> NoSlot, err |-> FALSE]
Answer == [level : Levels \cup {"none"}, slot : Slot \cup {NoSlot}, err : BOOLEAN]

NewRow(status) == [status |-> status, landed |-> NoSlot, cause |-> "none",
                   jito |-> NoVerdict]

NoRow == "none"
IdleRec == [pc |-> "idle", snap |-> [b \in Bundles |-> NoRow],
            answer |-> [b \in Bundles |-> NoAnswer], writes |-> <<>>]

Phases == {"new", "sent", "inserted", "tracked", "rejecting", "done"}

TypeOK ==
  /\ head \in Slot /\ confirmed \in Nat /\ finalized \in Nat
  /\ landed \in [Bundles -> Slot \cup {NoSlot}] /\ errored \subseteq Bundles
  /\ connected \in BOOLEAN /\ heard \subseteq Bundles /\ reconnects \in BOOLEAN
  /\ phase \in [Bundles -> Phases] /\ base \in [Bundles -> Nat]
  /\ refused \subseteq Bundles
  /\ inner \in Inner
  /\ db \in [Bundles -> Row]
  /\ spawned \subseteq Write
  /\ sweep \in [todo : SUBSET Bundles, ids : SUBSET Bundles]
  /\ retried \subseteq Bundles
  /\ rec \in [pc : {"idle", "asked", "applying"},
              snap : [Bundles -> OpenStages \cup {NoRow}],
              answer : [Bundles -> Answer],
              writes : Seq(Write)]
  /\ polled \in [Bundles -> Verdicts \cup {"off", "idle"}]
  /\ faults \in Nat

Init ==
  /\ head = 1 /\ confirmed = 0 /\ finalized = 0
  /\ landed = [b \in Bundles |-> NoSlot] /\ errored = {}
  /\ connected = TRUE /\ heard = {} /\ reconnects = FALSE
  /\ phase = [b \in Bundles |-> "new"] /\ base = [b \in Bundles |-> 0]
  /\ refused = {}
  /\ inner = [EmptyInner EXCEPT !.lastObserved = 1]  \* await_ready has returned
  /\ db = [b \in Bundles |-> NewRow("Absent")]
  /\ spawned = {}
  /\ sweep = [todo |-> {}, ids |-> {}] /\ retried = {}
  /\ rec = IdleRec
  /\ polled = [b \in Bundles |-> "off"]
  /\ faults = 0

Inject(kind) ==
  /\ kind \in FaultKinds
  /\ faults < MaxFaults
  /\ faults' = faults + 1

-----------------------------------------------------------------------------
(* The cluster and the connection.                                         *)

AdvanceHead ==
  /\ head < MaxSlot
  /\ head' = head + 1
  /\ UNCHANGED <<confirmed, finalized, landed, errored, link, client, inner, db,
                 spawned, sweeper, rec, polled, faults>>

ConfirmSlots ==
  /\ \E n \in Slot : confirmed < n /\ n <= head /\ confirmed' = n
  /\ UNCHANGED <<head, finalized, landed, errored, link, client, inner, db,
                 spawned, sweeper, rec, polled, faults>>

FinalizeSlots ==
  /\ \E n \in Slot : finalized < n /\ n <= confirmed /\ finalized' = n
  /\ UNCHANGED <<head, confirmed, landed, errored, link, client, inner, db,
                 spawned, sweeper, rec, polled, faults>>

(* An accepted bundle lands in the slot being produced, while its          *)
(* blockhash lives.                                                        *)
Land(b) ==
  /\ phase[b] # "new" /\ b \notin refused
  /\ LandsEarly \/ phase[b] = "done"
  /\ landed[b] = NoSlot
  /\ head > confirmed /\ head <= base[b] + BlockhashLife
  /\ landed' = [landed EXCEPT ![b] = head]
  /\ errored' \in {errored, errored \cup {b}}
  /\ UNCHANGED <<head, confirmed, finalized, link, client, inner, db, spawned,
                 sweeper, rec, polled, faults>>

(* The fork an unconfirmed landing is on loses.                            *)
Fork(b) ==
  /\ landed[b] > confirmed
  /\ Inject("fork")
  /\ landed' = [landed EXCEPT ![b] = NoSlot]
  /\ errored' = errored \ {b}
  /\ heard' = heard \ {b}
  /\ UNCHANGED <<head, confirmed, finalized, connected, reconnects, client, inner,
                 db, spawned, sweeper, rec, polled>>

Disconnect ==
  /\ connected
  /\ Inject("gap")
  /\ connected' = FALSE
  /\ UNCHANGED <<cluster, heard, reconnects, client, inner, db, spawned, sweeper,
                 rec, polled>>

Unheard == {b \in Bundles : landed[b] # NoSlot /\ b \notin heard}

(* The new connection carries nothing of what it missed; the supervisor    *)
(* signals the reconcile task.                                             *)
Reconnect ==
  /\ ~connected
  /\ connected' = TRUE
  /\ \E missed \in SUBSET Unheard : heard' = heard \cup missed
  /\ reconnects' = TRUE
  /\ UNCHANGED <<cluster, client, inner, db, spawned, sweeper, rec, polled, faults>>

-----------------------------------------------------------------------------
(* The submitting task: sendBundle, then record_submission's INSERT and    *)
(* in-memory insertion, and for a refused bundle (whose row carries a      *)
(* synthetic signature) record_rejection.                                  *)

Send(b) ==
  /\ phase[b] = "new"
  /\ inner.lastObserved > 0
  /\ inner.lastObserved + TimeoutSlots < MaxSlot  \* bound: room for the timeout
  /\ phase' = [phase EXCEPT ![b] = "sent"]
  /\ base' = [base EXCEPT ![b] = inner.lastObserved]
  /\ refused' \in {refused, refused \cup {b}}
  /\ UNCHANGED <<cluster, link, inner, db, spawned, sweeper, rec, polled, faults>>

InsertRow(b) ==
  /\ phase[b] = "sent"
  /\ phase' = [phase EXCEPT ![b] = "inserted"]
  /\ db' = [db EXCEPT ![b] = NewRow("Submitted")]
  /\ UNCHANGED <<cluster, link, base, refused, inner, spawned, sweeper, rec, polled,
                 faults>>

InsertRowFails(b) ==
  /\ phase[b] = "sent"
  /\ Inject("write")
  /\ phase' = [phase EXCEPT ![b] = "done"]
  /\ UNCHANGED <<cluster, link, base, refused, inner, db, spawned, sweeper, rec, polled>>

Track(b) ==
  /\ phase[b] = "inserted"
  /\ inner' = Insert(inner, b)
  /\ phase' = [phase EXCEPT ![b] = IF b \in refused THEN "tracked" ELSE "done"]
  /\ polled' = IF b \in refused THEN polled ELSE [polled EXCEPT ![b] = "idle"]
  /\ UNCHANGED <<cluster, link, base, refused, db, spawned, sweeper, rec, faults>>

RecordRejection(b) ==
  /\ phase[b] = "tracked"
  /\ inner' = Forget(inner, {b})
  /\ phase' = [phase EXCEPT ![b] = "rejecting"]
  /\ UNCHANGED <<cluster, link, base, refused, db, spawned, sweeper, rec, polled, faults>>

(* persist: an UPDATE by id, whatever the row holds by then. Only a failed *)
(* write may carry no landed slot, and then keeps the stored one.          *)
Apply(row, w) ==
  [status |-> w.to,
   landed |-> IF w.slot = NoSlot THEN row.landed ELSE w.slot,
   cause |-> IF w.to = "Failed" THEN w.cause ELSE row.cause,
   jito |-> row.jito]

Persist(w) == db' = [db EXCEPT ![w.row] = Apply(@, w)]

Marks(to, rows, s) ==
  {[row |-> b, to |-> to, slot |-> s, cause |-> "none"] : b \in rows}

FailedWrite(b, s, cause) ==
  [row |-> b, to |-> "Failed", slot |-> s, cause |-> cause]

PersistRejection(b) ==
  /\ phase[b] = "rejecting"
  /\ Persist(FailedWrite(b, NoSlot, "Rejected"))
  /\ phase' = [phase EXCEPT ![b] = "done"]
  /\ UNCHANGED <<cluster, link, base, refused, inner, spawned, sweeper, rec, polled,
                 faults>>

PersistRejectionFails(b) ==
  /\ phase[b] = "rejecting"
  /\ Inject("write")
  /\ phase' = [phase EXCEPT ![b] = "done"]
  /\ UNCHANGED <<cluster, link, base, refused, inner, db, spawned, sweeper, rec, polled>>

-----------------------------------------------------------------------------
(* record_jito_status, called by an accepted bundle's poller: the pending  *)
(* record if there is one, then the row. The poller stops after a terminal *)
(* verdict or when its budget is spent.                                    *)

RecordJito_RowOnly(b, v) ==  \* mutant
  /\ polled[b] = "idle"
  /\ polled' = [polled EXCEPT ![b] = v]
  /\ UNCHANGED <<cluster, link, client, inner, db, spawned, sweeper, rec, faults>>

RecordJito(b, v) ==
  /\ polled[b] = "idle"
  /\ inner' = IF inner.stage[b] = "Untracked" THEN inner
              ELSE [inner EXCEPT !.jito = Stamp(@, {b}, v)]
  /\ polled' = [polled EXCEPT ![b] = v]
  /\ UNCHANGED <<cluster, link, client, db, spawned, sweeper, rec, faults>>

PersistJito(b) ==
  /\ polled[b] \in Verdicts
  /\ db' = [db EXCEPT ![b].jito = polled[b]]
  /\ \E next \in {"idle", "off"} : polled' = [polled EXCEPT ![b] = next]
  /\ UNCHANGED <<cluster, link, client, inner, spawned, sweeper, rec, faults>>

PersistJitoFails(b) ==
  /\ polled[b] \in Verdicts
  /\ Inject("write")
  /\ \E next \in {"idle", "off"} : polled' = [polled EXCEPT ![b] = next]
  /\ UNCHANGED <<cluster, link, client, inner, db, spawned, sweeper, rec>>

-----------------------------------------------------------------------------
(* The stream fan-out: apply_event under the mutex, the writes spawned.    *)
(* With ingest_and_persist the next event waits for them.                  *)

StreamReady_NoWait == connected  \* mutant
StreamReady == connected /\ (AwaitWrites => spawned = {})

InStep(n) == \A b \in Unheard : n <= landed[b] + StreamLag

IngestProcessedSlot(n) ==
  /\ StreamReady
  /\ n <= head /\ InStep(n)
  /\ inner' = Observe(inner, n)
  /\ UNCHANGED <<cluster, link, client, db, spawned, sweeper, rec, polled, faults>>

IngestConfirmedSlot(n) ==
  /\ StreamReady
  /\ n <= confirmed /\ InStep(n)
  /\ inner' = OnConfirmed(Observe(inner, n), n)
  /\ spawned' = spawned \cup Marks("Confirmed", Confirmable(inner, n), NoSlot)
  /\ UNCHANGED <<cluster, link, client, db, sweeper, rec, polled, faults>>

IngestFinalizedSlot(n) ==
  /\ StreamReady
  /\ n <= finalized /\ InStep(n)
  /\ inner' = OnFinalized(Observe(inner, n), n)
  /\ spawned' = spawned \cup Marks("Finalized", Finalizable(inner, n), NoSlot)
  /\ UNCHANGED <<cluster, link, client, db, sweeper, rec, polled, faults>>

(* A landing's status, possibly a second time. A row that is not tracked   *)
(* (yet, or any more) ignores it.                                          *)
LandsNow_Unguarded(b) ==  \* mutant
  /\ b \in inner.bySig /\ b \notin errored
  /\ inner' = MarkProcessed(inner, b, landed[b])
  /\ spawned' = spawned \cup Marks("Processed", {b}, landed[b])

LandsNow(b) ==
  /\ b \in inner.bySig /\ b \notin errored
  /\ inner.stage[b] = "Submitted"
  /\ inner' = MarkProcessed(inner, b, landed[b])
  /\ spawned' = spawned \cup Marks("Processed", {b}, landed[b])

FailsNow_KeepsTracking(b) ==  \* mutant
  /\ b \in inner.bySig /\ b \in errored
  /\ spawned' = spawned \cup {FailedWrite(b, landed[b], "OnChain")}
  /\ UNCHANGED inner

FailsNow(b) ==
  /\ b \in inner.bySig /\ b \in errored
  /\ inner.stage[b] \in {"Submitted", "Processed"}
  /\ inner' = Forget(inner, {b})
  /\ spawned' = spawned \cup {FailedWrite(b, landed[b], "OnChain")}

Ignored(b) ==
  /\ \/ b \notin inner.bySig
     \/ b \notin errored /\ inner.stage[b] # "Submitted"
     \/ b \in errored /\ inner.stage[b] \notin {"Submitted", "Processed"}
  /\ UNCHANGED <<inner, spawned>>

IngestTx(b) ==
  /\ StreamReady
  /\ landed[b] # NoSlot
  /\ heard' = heard \cup {b}
  /\ LandsNow(b) \/ FailsNow(b) \/ Ignored(b)
  /\ UNCHANGED <<cluster, connected, reconnects, client, db, sweeper, rec, polled,
                 faults>>

(* The spawned writes reach SQLite in any order; a failure is only logged. *)
PersistSpawned(w) ==
  /\ w \in spawned
  /\ Persist(w)
  /\ spawned' = spawned \ {w}
  /\ UNCHANGED <<cluster, link, client, inner, sweeper, rec, polled, faults>>

LoseSpawned(w) ==
  /\ w \in spawned
  /\ Inject("write")
  /\ spawned' = spawned \ {w}
  /\ UNCHANGED <<cluster, link, client, inner, db, sweeper, rec, polled>>

-----------------------------------------------------------------------------
(* The timeout sweeper. check_timeouts decides and forgets under the       *)
(* mutex, then persists row by row (in HashMap order); only when every     *)
(* write has succeeded do the rows reach the agent.                        *)

CheckTimeouts ==
  LET ids == TimedOut(inner, base, TimeoutSlots) IN
  /\ sweep.todo = {} /\ ids # {}
  /\ inner' = Forget(inner, ids)
  /\ sweep' = [todo |-> ids, ids |-> ids]
  /\ UNCHANGED <<cluster, link, client, db, spawned, retried, rec, polled, faults>>

PersistTimeout(b) ==
  /\ b \in sweep.todo
  /\ Persist(FailedWrite(b, NoSlot, "NeverLanded"))
  /\ IF sweep.todo = {b}
     THEN /\ retried' = retried \cup sweep.ids
          /\ sweep' = [todo |-> {}, ids |-> {}]
     ELSE /\ retried' = retried
          /\ sweep' = [sweep EXCEPT !.todo = @ \ {b}]
  /\ UNCHANGED <<cluster, link, client, inner, spawned, rec, polled, faults>>

PersistTimeoutFails_HandsOver ==  \* mutant
  /\ sweep.todo # {}
  /\ Inject("write")
  /\ retried' = retried \cup sweep.ids
  /\ sweep' = [todo |-> {}, ids |-> {}]
  /\ UNCHANGED <<cluster, link, client, inner, db, spawned, rec, polled>>

PersistTimeoutFails ==
  /\ sweep.todo # {}
  /\ Inject("write")
  /\ sweep' = [todo |-> {}, ids |-> {}]
  /\ UNCHANGED <<cluster, link, client, inner, db, spawned, retried, rec, polled>>

-----------------------------------------------------------------------------
(* The reconcile task: SELECT the open rows, ask the RPC for their         *)
(* statuses, then row by row mark under the mutex and await the writes.    *)

OpenRows == {b \in Bundles : db[b].status \in OpenStages}

ReconcileSelect ==
  /\ reconnects /\ rec.pc = "idle"
  /\ reconnects' = FALSE
  /\ rec' = IF OpenRows = {} THEN rec
            ELSE [rec EXCEPT !.pc = "asked",
                             !.snap = [b \in Bundles |->
                                         IF b \in OpenRows THEN db[b].status ELSE NoRow]]
  /\ UNCHANGED <<cluster, connected, heard, client, inner, db, spawned, sweeper,
                 polled, faults>>

Asked == {b \in Bundles : rec.snap[b] # NoRow}

Level(s) == IF s <= finalized THEN "Finalized"
            ELSE IF s <= confirmed THEN "Confirmed" ELSE "Processed"

(* One signature that does not parse (a synthetic one) fails the request.  *)
ReconcileAnswered ==
  /\ rec.pc = "asked"
  /\ Asked \cap refused = {}
  /\ rec' = [rec EXCEPT !.pc = "applying",
                        !.answer = [b \in Bundles |->
                           IF b \in Asked /\ landed[b] # NoSlot
                           THEN [level |-> Level(landed[b]), slot |-> landed[b],
                                 err |-> b \in errored]
                           ELSE NoAnswer]]
  /\ UNCHANGED <<cluster, link, client, inner, db, spawned, sweeper, polled, faults>>

ReconcileUnparsable ==
  /\ rec.pc = "asked"
  /\ Asked \cap refused # {}
  /\ rec' = IdleRec
  /\ UNCHANGED <<cluster, link, client, inner, db, spawned, sweeper, polled, faults>>

ReconcileRpcFails ==
  /\ rec.pc = "asked"
  /\ Inject("rpc")
  /\ rec' = IdleRec
  /\ UNCHANGED <<cluster, link, client, inner, db, spawned, sweeper, polled>>

Answers == {b \in Bundles : rec.answer[b] # NoAnswer}

(* A landed-but-errored row is failed whatever memory says of it.          *)
ReconcileErrored(b) ==
  /\ rec.pc = "applying" /\ rec.writes = <<>>
  /\ b \in Answers /\ rec.answer[b].err
  /\ inner' = Forget(inner, {b})
  /\ rec' = [rec EXCEPT !.answer[b] = NoAnswer,
                        !.writes = <<FailedWrite(b, rec.answer[b].slot, "OnChain")>>]
  /\ UNCHANGED <<cluster, link, client, db, spawned, sweeper, polled, faults>>

(* The marks missing between the status the SELECT read and the level the  *)
(* RPC reported, each only from the state memory is in by then.            *)
MissedProcessed(b) == rec.snap[b] = "Submitted" /\ inner.stage[b] = "Submitted"

MissedConfirmed(b, m) ==
  /\ rec.answer[b].level \in {"Confirmed", "Finalized"}
  /\ rec.snap[b] \in {"Submitted", "Processed"}
  /\ m.stage[b] = "Processed"

MissedFinalized(b, m) ==
  rec.answer[b].level = "Finalized" /\ m.stage[b] \in {"Processed", "Confirmed"}

IfMissed(missed, b, to, s) ==
  IF missed THEN <<[row |-> b, to |-> to, slot |-> s, cause |-> "none"]>> ELSE <<>>

ReconcileMarked(b) ==
  LET s == rec.answer[b].slot
      p == MissedProcessed(b)
      m1 == IF p THEN MarkProcessed(inner, b, s) ELSE inner
      c == MissedConfirmed(b, m1)
      m2 == IF c THEN MarkConfirmed(m1, {b}) ELSE m1
      f == MissedFinalized(b, m2)
  IN
  /\ rec.pc = "applying" /\ rec.writes = <<>>
  /\ b \in Answers /\ ~rec.answer[b].err
  /\ inner' = IF f THEN Forget(m2, {b}) ELSE m2
  /\ rec' = [rec EXCEPT !.answer[b] = NoAnswer,
                        !.writes = IfMissed(p, b, "Processed", s)
                                   \o IfMissed(c, b, "Confirmed", NoSlot)
                                   \o IfMissed(f, b, "Finalized", NoSlot)]
  /\ UNCHANGED <<cluster, link, client, db, spawned, sweeper, polled, faults>>

ReconcilePersist ==
  /\ rec.writes # <<>>
  /\ Persist(Head(rec.writes))
  /\ rec' = [rec EXCEPT !.writes = Tail(@)]
  /\ UNCHANGED <<cluster, link, client, inner, spawned, sweeper, polled, faults>>

ReconcilePersistFails ==
  /\ rec.writes # <<>>
  /\ Inject("write")
  /\ rec' = IdleRec
  /\ UNCHANGED <<cluster, link, client, inner, db, spawned, sweeper, polled>>

ReconcileDone ==
  /\ rec.pc = "applying" /\ rec.writes = <<>> /\ Answers = {}
  /\ rec' = IdleRec
  /\ UNCHANGED <<cluster, link, client, inner, db, spawned, sweeper, polled, faults>>

-----------------------------------------------------------------------------
(* The process dies, losing every task and event it held, and starts       *)
(* again: hydrate rebuilds memory from the open rows. The first connection *)
(* is not signalled, unless an attempt before it failed.                   *)

Seen == {0} \cup {db[b].landed : b \in OpenRows} \cup {base[b] : b \in OpenRows}

Hydrated(newest) ==
  LET slotOf == [b \in Bundles |-> IF b \in OpenRows THEN db[b].landed ELSE NoSlot]
      Keyed(stage) == {e \in Slot \X Bundles :
                         db[e[2]].status = stage /\ db[e[2]].landed = e[1]}
  IN
  [stage |-> [b \in Bundles |-> IF b \in OpenRows THEN db[b].status ELSE "Untracked"],
   slot |-> slotOf,
   jito |-> [b \in Bundles |-> IF b \in OpenRows THEN db[b].jito ELSE NoVerdict],
   bySig |-> OpenRows,
   confirmIdx |-> Keyed("Processed"),
   finalizeIdx |-> Keyed("Confirmed"),
   lastObserved |-> newest]

Restart ==
  /\ Inject("crash")
  /\ \E n \in Seen : (\A k \in Seen : k <= n) /\ inner' = Hydrated(n)
  /\ connected' = TRUE
  /\ heard' = heard \cup Unheard
  /\ reconnects' \in BOOLEAN
  /\ phase' = [b \in Bundles |-> IF phase[b] = "new" THEN "new" ELSE "done"]
  /\ spawned' = {}
  /\ sweep' = [todo |-> {}, ids |-> {}]
  /\ rec' = IdleRec
  /\ polled' = [b \in Bundles |-> "off"]
  /\ UNCHANGED <<cluster, base, refused, db, retried>>

-----------------------------------------------------------------------------
Cluster ==
  \/ AdvanceHead \/ ConfirmSlots \/ FinalizeSlots
  \/ \E b \in Bundles : Land(b) \/ Fork(b)

Connection == Disconnect \/ Reconnect

Submission ==
  \E b \in Bundles :
    \/ Send(b) \/ InsertRow(b) \/ InsertRowFails(b) \/ Track(b)
    \/ RecordRejection(b) \/ PersistRejection(b) \/ PersistRejectionFails(b)

JitoPollers ==
  \E b \in Bundles :
    \/ \E v \in Verdicts : RecordJito(b, v)
    \/ PersistJito(b) \/ PersistJitoFails(b)

Ingest ==
  \/ \E n \in Slot : \/ IngestProcessedSlot(n)
                     \/ IngestConfirmedSlot(n)
                     \/ IngestFinalizedSlot(n)
  \/ \E b \in Bundles : IngestTx(b)

WriteThrough == \E w \in spawned : PersistSpawned(w) \/ LoseSpawned(w)

Sweeper ==
  \/ CheckTimeouts \/ PersistTimeoutFails
  \/ \E b \in Bundles : PersistTimeout(b)

Reconcile ==
  \/ ReconcileSelect \/ ReconcileAnswered \/ ReconcileUnparsable \/ ReconcileRpcFails
  \/ \E b \in Bundles : ReconcileErrored(b) \/ ReconcileMarked(b)
  \/ ReconcilePersist \/ ReconcilePersistFails \/ ReconcileDone

Next ==
  \/ Cluster \/ Connection \/ Submission \/ JitoPollers \/ Ingest
  \/ WriteThrough \/ Sweeper \/ Reconcile \/ Restart

Spec == Init /\ [][Next]_vars

(* The cluster keeps producing, confirming and finalizing slots, the       *)
(* supervisor reconnects, the stream delivers every landing it still owes  *)
(* and in the end the newest slot of each level, and the Tokio tasks run.  *)
(* Nothing is assumed of submissions, verdicts or faults.                  *)
Fairness ==
  /\ WF_vars(AdvanceHead) /\ WF_vars(ConfirmSlots) /\ WF_vars(FinalizeSlots)
  /\ WF_vars(Reconnect)
  /\ WF_vars(\E b \in Unheard : IngestTx(b))
  /\ WF_vars(IngestProcessedSlot(head))
  /\ WF_vars(IngestFinalizedSlot(finalized))
  /\ WF_vars(\E w \in spawned : PersistSpawned(w))
  /\ \A b \in Bundles :
        WF_vars(InsertRow(b) \/ Track(b) \/ RecordRejection(b) \/ PersistRejection(b))
  /\ WF_vars(CheckTimeouts \/ \E b \in Bundles : PersistTimeout(b))
  /\ WF_vars(ReconcileSelect \/ ReconcileAnswered \/ ReconcileUnparsable
             \/ (\E b \in Bundles : ReconcileErrored(b) \/ ReconcileMarked(b))
             \/ ReconcilePersist \/ ReconcileDone)

FairSpec == Spec /\ Fairness
=============================================================================
