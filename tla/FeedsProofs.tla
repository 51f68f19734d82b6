---------------------------- MODULE FeedsProofs ----------------------------
(***************************************************************************)
(* Theorems about the feeds, for every number of transactions and every     *)
(* capacity of the two channels.                                            *)
(***************************************************************************)
EXTENDS Feeds, TLAPS

(* What the channel holds, after a send and after a receive.                *)
Held(q) == {q[i] : i \in DOMAIN q}

LEMMA HeldAfterSend ==
  ASSUME NEW S, NEW q \in Seq(S), NEW e \in S
  PROVE  /\ Append(q, e) \in Seq(S) /\ Len(Append(q, e)) = Len(q) + 1
         /\ Held(Append(q, e)) = Held(q) \cup {e}
<1>1. DOMAIN Append(q, e) = DOMAIN q \cup {Len(q) + 1} /\ Append(q, e) \in Seq(S)
      /\ Len(Append(q, e)) = Len(q) + 1
  OBVIOUS
<1>2. \A i \in DOMAIN q : Append(q, e)[i] = q[i]
  OBVIOUS
<1>3. Append(q, e)[Len(q) + 1] = e
  OBVIOUS
<1> QED BY <1>1, <1>2, <1>3 DEF Held

LEMMA HeldAfterReceive ==
  ASSUME NEW S, NEW q \in Seq(S), q # <<>>
  PROVE  /\ Tail(q) \in Seq(S) /\ Len(Tail(q)) = Len(q) - 1
         /\ Head(q) \in S
         /\ Held(q) = Held(Tail(q)) \cup {Head(q)}
<1>1. Len(q) \in Nat \ {0} /\ Tail(q) \in Seq(S) /\ Len(Tail(q)) = Len(q) - 1 /\ Head(q) = q[1]
  OBVIOUS
<1>2. Head(q) \in S
  BY <1>1
<1>3. \A i \in 1 .. Len(q) - 1 : Tail(q)[i] = q[i + 1]
  OBVIOUS
<1>4. DOMAIN Tail(q) = 1 .. Len(q) - 1 /\ DOMAIN q = 1 .. Len(q)
  BY <1>1
<1>5. ASSUME NEW x \in Held(q)  PROVE x \in Held(Tail(q)) \cup {Head(q)}
  <2>1. PICK i \in 1 .. Len(q) : x = q[i]
    BY <1>4, <1>5 DEF Held
  <2>2. CASE i = 1
    BY <2>1, <2>2, <1>1
  <2>3. CASE i # 1
    <3>1. i - 1 \in 1 .. Len(q) - 1 /\ (i - 1) + 1 = i
      BY <2>3, <1>1
    <3>2. Tail(q)[i - 1] = x
      BY <3>1, <1>3, <2>1
    <3> QED BY <3>1, <3>2, <1>4 DEF Held
  <2> QED BY <2>2, <2>3
<1>6. ASSUME NEW x \in Held(Tail(q)) \cup {Head(q)}  PROVE x \in Held(q)
  <2>1. CASE x = Head(q)
    <3>1. 1 \in DOMAIN q
      BY <1>1, <1>4
    <3> QED BY <2>1, <3>1, <1>1 DEF Held
  <2>2. CASE x \in Held(Tail(q))
    <3>1. PICK i \in 1 .. Len(q) - 1 : x = Tail(q)[i]
      BY <2>2, <1>4 DEF Held
    <3>2. i + 1 \in 1 .. Len(q) /\ x = q[i + 1]
      BY <3>1, <1>3, <1>1
    <3> QED BY <3>2, <1>4 DEF Held
  <2> QED BY <1>6, <2>1, <2>2
<1> QED BY <1>1, <1>2, <1>5, <1>6

----------------------------------------------------------------------------
(* The inductive invariant.  What is on the wire dies with its connection;  *)
(* nothing has happened before the first connection, so only later ones     *)
(* have a gap behind them; and one status at most waits for room.           *)
Quiet ==
  /\ conn # "up" => wire = {} /\ blocked = {}
  /\ attempt = 1 /\ conn = "connecting" => queue = <<>> /\ ~started /\ landed = {}
  /\ \A s, t \in blocked : s = t

FeedsInv == FeedsTypeOK /\ StatusesAreKept /\ MissedAreSignalled /\ Quiet

LEMMA FeedsInit == Init => FeedsInv
<1> SUFFICES ASSUME Init  PROVE FeedsInv
  OBVIOUS
<1> USE CapacityAssumption DEF Init, StreamInit, TipInit
<1>1. FeedsTypeOK
  <2>1. queue \in Seq(Txs \cup {SlotEvent}) /\ Len(queue) = 0
    OBVIOUS
  <2>2. /\ wire = {} /\ blocked = {} /\ landed = {} /\ heard = {} /\ ignored = {}
        /\ delivered = {} /\ asked = {} /\ learned = {}
    OBVIOUS
  <2>3. /\ wire \subseteq UpdateKinds \X Txs
        /\ {blocked, landed, heard, ignored, delivered, asked, learned} \subseteq SUBSET Txs
    BY <2>2
  <2>4. conn \in {"connecting", "up", "backoff"} /\ attempt \in 1 .. 2
    OBVIOUS
  <2>5. signals \in 0 .. SignalCap /\ Len(queue) <= EventCap
    BY <2>1
  <2>6. reconciling \in BOOLEAN /\ started \in BOOLEAN
    OBVIOUS
  <2>7. socket \in {"open", "polling", "napping"} /\ tips \in {"none", "fresh", "old"}
    OBVIOUS
  <2> QED BY <2>1, <2>3, <2>4, <2>5, <2>6, <2>7 DEF FeedsTypeOK
<1>2. Queued = {}
  BY DEF Queued
<1>3. StatusesAreKept /\ MissedAreSignalled /\ Quiet
  BY <1>2 DEF StatusesAreKept, MissedAreSignalled, Missed, OnWire, Quiet
<1> QED BY <1>1, <1>3 DEF FeedsInv

(* The steps of the connection leave the channel alone.                     *)
LEMMA ConnectionKeeps ==
  ASSUME FeedsInv, UNCHANGED tipVars, Connects \/ ConnectionEnds \/ Reconnects
  PROVE  FeedsInv'
<1> USE CapacityAssumption
    DEF FeedsInv, FeedsTypeOK, channelVars, consumerVars, reconcileVars, tipVars
<1>1. FeedsTypeOK'
  BY DEF Connects, ConnectionEnds, Reconnects
<1>2. Queued' = Queued /\ heard' = heard /\ delivered' = delivered /\ blocked' = blocked
  BY DEF Queued, Connects, ConnectionEnds, Reconnects
<1>3. StatusesAreKept'
  BY <1>2 DEF StatusesAreKept
<1>4. Quiet'
  BY DEF Quiet, Connects, ConnectionEnds, Reconnects
<1>5. MissedAreSignalled'
  <2>1. CASE Connects /\ attempt > 1
    BY <2>1 DEF Connects, MissedAreSignalled
  <2>2. CASE Connects /\ attempt = 1
    <3>1. landed' = {}
      BY <2>2 DEF Connects, Quiet
    <3> QED BY <3>1 DEF Missed, OnWire, MissedAreSignalled
  <2>3. CASE ConnectionEnds \/ Reconnects
    BY <2>3 DEF ConnectionEnds, Reconnects, MissedAreSignalled
  <2> QED BY <2>1, <2>2, <2>3
<1> QED BY <1>1, <1>3, <1>4, <1>5

LEMMA ForwardSlotKeeps ==
  ASSUME FeedsInv, UNCHANGED tipVars, ForwardSlot
  PROVE  FeedsInv'
<1> USE DEF FeedsInv, channelVars, consumerVars, reconcileVars, tipVars
<1>1. queue \in Seq(Txs \cup {SlotEvent}) /\ SlotEvent \in Txs \cup {SlotEvent}
  BY DEF FeedsTypeOK
<1>2. queue' \in Seq(Txs \cup {SlotEvent}) /\ Len(queue') <= EventCap
  BY <1>1, HeldAfterSend, CapacityAssumption DEF ForwardSlot, HasRoom, FeedsTypeOK
<1>3. FeedsTypeOK'
  BY <1>2 DEF ForwardSlot, FeedsTypeOK
<1>4. Queued' = Queued
  <2>1. CASE HasRoom
    <3>1. Held(queue') = Held(queue) \cup {SlotEvent}
      BY <2>1, <1>1, HeldAfterSend DEF ForwardSlot
    <3> QED BY <3>1 DEF Queued, Held
  <2>2. CASE ~HasRoom
    BY <2>2 DEF ForwardSlot, Queued
  <2> QED BY <2>1, <2>2
<1>5. StatusesAreKept'
  BY <1>4 DEF ForwardSlot, StatusesAreKept
<1>6. MissedAreSignalled' /\ Quiet'
  BY DEF ForwardSlot, Receiving, MissedAreSignalled, Missed, OnWire, Quiet
<1> QED BY <1>3, <1>5, <1>6

LEMMA ForwardStatusKeeps ==
  ASSUME FeedsInv, UNCHANGED tipVars, NEW t \in Txs, ForwardStatus(t)
  PROVE  FeedsInv'
<1> USE DEF FeedsInv, channelVars, consumerVars, reconcileVars, tipVars
<1>1. queue \in Seq(Txs \cup {SlotEvent}) /\ t \in Txs \cup {SlotEvent} /\ t # SlotEvent
  BY SlotEventAssumption DEF FeedsTypeOK
<1>2. queue' \in Seq(Txs \cup {SlotEvent}) /\ Len(queue') <= EventCap
  BY <1>1, HeldAfterSend, CapacityAssumption DEF ForwardStatus, Receives, HasRoom, FeedsTypeOK
<1>3. FeedsTypeOK'
  BY <1>2 DEF ForwardStatus, Receives, FeedsTypeOK
<1>4. Queued' \cup blocked' = Queued \cup blocked \cup {t}
  <2>1. CASE HasRoom
    <3>1. Held(Append(queue, t)) = Held(queue) \cup {t}
      BY <1>1, HeldAfterSend
    <3>2. queue' = Append(queue, t) /\ blocked' = {}
      BY <2>1 DEF ForwardStatus
    <3> QED BY <3>1, <3>2, <1>1 DEF Queued, Held, ForwardStatus, Receives, Receiving
  <2>2. CASE ~HasRoom
    BY <2>2 DEF ForwardStatus, Receives, Queued, Receiving
  <2> QED BY <2>1, <2>2
<1>5. StatusesAreKept'
  BY <1>4 DEF ForwardStatus, StatusesAreKept
<1>6. Missed' \subseteq Missed
  BY DEF ForwardStatus, Receives, Missed, OnWire, UpdateKinds
<1>7. MissedAreSignalled' /\ Quiet'
  BY <1>6 DEF ForwardStatus, Receives, Receiving, MissedAreSignalled, Quiet
<1> QED BY <1>3, <1>5, <1>7

LEMMA ForwardOtherKeeps ==
  ASSUME FeedsInv, UNCHANGED tipVars, NEW t \in Txs, ForwardOther(t)
  PROVE  FeedsInv'
<1> USE DEF FeedsInv, channelVars, consumerVars, reconcileVars, tipVars
<1>1. FeedsTypeOK'
  BY DEF ForwardOther, Receives, FeedsTypeOK
<1>2. StatusesAreKept'
  BY DEF ForwardOther, StatusesAreKept, Queued
<1>3. Missed' \subseteq Missed
  BY DEF ForwardOther, Receives, Missed, OnWire, UpdateKinds
<1>4. MissedAreSignalled' /\ Quiet'
  BY <1>3 DEF ForwardOther, Receives, Receiving, MissedAreSignalled, Quiet
<1> QED BY <1>1, <1>2, <1>4

LEMMA UnblocksKeeps ==
  ASSUME FeedsInv, UNCHANGED tipVars, Unblocks
  PROVE  FeedsInv'
<1> USE DEF FeedsInv, channelVars, consumerVars, reconcileVars, tipVars
<1>1. PICK t \in blocked : queue' = Append(queue, t)
  BY DEF Unblocks
<1>2. queue \in Seq(Txs \cup {SlotEvent}) /\ t \in Txs \cup {SlotEvent} /\ t # SlotEvent
  BY SlotEventAssumption DEF FeedsTypeOK
<1>3. queue' \in Seq(Txs \cup {SlotEvent}) /\ Len(queue') <= EventCap
      /\ Held(queue') = Held(queue) \cup {t}
  BY <1>1, <1>2, HeldAfterSend, CapacityAssumption DEF Unblocks, HasRoom, FeedsTypeOK
<1>4. FeedsTypeOK'
  BY <1>3 DEF Unblocks, FeedsTypeOK
<1>5. blocked = {t} /\ blocked' = {}
  BY DEF Unblocks, Quiet
<1>6. Queued' = Queued \cup {t}
  BY <1>2, <1>3 DEF Queued, Held
<1>7. StatusesAreKept'
  BY <1>5, <1>6 DEF Unblocks, StatusesAreKept
<1>8. MissedAreSignalled'
  BY DEF Unblocks, MissedAreSignalled, Missed, OnWire
<1>9. Quiet'
  BY <1>1, <1>5 DEF Unblocks, Quiet
<1> QED BY <1>4, <1>7, <1>8, <1>9

LEMMA FanOutKeeps ==
  ASSUME FeedsInv, UNCHANGED tipVars, FanOut
  PROVE  FeedsInv'
<1> USE DEF FeedsInv, channelVars, consumerVars, reconcileVars, tipVars
<1>1. queue \in Seq(Txs \cup {SlotEvent}) /\ queue # <<>> /\ queue' = Tail(queue)
  BY DEF FeedsTypeOK, FanOut
<1>2. /\ queue' \in Seq(Txs \cup {SlotEvent}) /\ Len(queue') = Len(queue) - 1
      /\ Head(queue) \in Txs \cup {SlotEvent}
      /\ Held(queue) = Held(queue') \cup {Head(queue)}
  BY <1>1, HeldAfterReceive
<1>3. FeedsTypeOK'
  <2>1. {blocked, landed, heard, ignored, delivered, asked, learned} \subseteq SUBSET Txs
    BY DEF FeedsTypeOK
  <2>2. delivered' \subseteq Txs /\ started' \in BOOLEAN
    BY <1>2, <2>1 DEF FanOut, FeedsTypeOK
  <2>3. Len(queue') <= EventCap
    BY <1>1, <1>2, CapacityAssumption DEF FeedsTypeOK
  <2> QED BY <1>2, <2>1, <2>2, <2>3 DEF FanOut, FeedsTypeOK
<1>4. delivered' \cup Queued' = delivered \cup Queued
  <2>1. CASE Head(queue) = SlotEvent
    BY <2>1, <1>2 DEF FanOut, Queued, Held
  <2>2. CASE Head(queue) # SlotEvent
    BY <2>2, <1>2 DEF FanOut, Queued, Held
  <2> QED BY <2>1, <2>2
<1>5. StatusesAreKept'
  BY <1>4 DEF FanOut, StatusesAreKept
<1>6. MissedAreSignalled' /\ Quiet'
  BY DEF FanOut, MissedAreSignalled, Missed, OnWire, Quiet
<1> QED BY <1>3, <1>5, <1>6

LEMMA ReconcileStartsKeeps ==
  ASSUME FeedsInv, UNCHANGED tipVars, ReconcileStarts
  PROVE  FeedsInv'
<1> USE DEF FeedsInv, channelVars, consumerVars, reconcileVars, tipVars
<1>1. FeedsTypeOK'
  BY CapacityAssumption DEF FeedsTypeOK, ReconcileStarts
<1>2. StatusesAreKept' /\ Quiet'
  BY DEF ReconcileStarts, StatusesAreKept, Quiet, Queued
<1>3. Missed' = {}
  BY DEF ReconcileStarts, Missed
<1> QED BY <1>1, <1>2, <1>3 DEF MissedAreSignalled

(* However the pass ends: what it asked about stays asked about.            *)
LEMMA ReconcileEndsKeeps ==
  ASSUME FeedsInv, UNCHANGED tipVars, ReconcileSucceeds \/ ReconcileFails
  PROVE  FeedsInv'
<1> USE DEF FeedsInv, channelVars, consumerVars, reconcileVars, tipVars
<1>1. PICK marked \in SUBSET asked : ReconcileEnds(marked)
  BY DEF ReconcileSucceeds, ReconcileFails
<1>2. FeedsTypeOK'
  <2>1. learned' \subseteq Txs
    BY <1>1 DEF ReconcileEnds, FeedsTypeOK
  <2> QED BY <1>1, <2>1 DEF ReconcileEnds, FeedsTypeOK
<1>3. StatusesAreKept' /\ MissedAreSignalled' /\ Quiet'
  BY <1>1 DEF ReconcileEnds, StatusesAreKept, MissedAreSignalled, Missed, OnWire, Quiet, Queued
<1> QED BY <1>2, <1>3

LEMMA LandsKeeps ==
  ASSUME FeedsInv, UNCHANGED tipVars, NEW t \in Txs, Lands(t)
  PROVE  FeedsInv'
<1> USE DEF FeedsInv, channelVars, consumerVars, reconcileVars, tipVars
<1>1. CASE conn = "up"
  <2>1. PICK kind \in TxUpdates : wire' = wire \cup {<<kind, t>>}
    BY <1>1 DEF Lands
  <2>2. kind \in UpdateKinds
    BY TxUpdatesAssumption
  <2>3. wire' \subseteq UpdateKinds \X Txs
    BY <2>1, <2>2 DEF FeedsTypeOK
  <2>4. FeedsTypeOK'
    BY <2>3 DEF FeedsTypeOK, Lands
  <2>5. OnWire' = OnWire \cup {t}
    BY <2>1, <2>2 DEF OnWire
  <2>6. Missed' \subseteq Missed
    BY <2>5 DEF Lands, Missed
  <2>7. StatusesAreKept' /\ MissedAreSignalled' /\ Quiet'
    BY <1>1, <2>6 DEF Lands, StatusesAreKept, MissedAreSignalled, Quiet, Queued
  <2> QED BY <2>4, <2>7
<1>2. CASE conn # "up"
  <2>1. FeedsTypeOK'
    BY <1>2 DEF FeedsTypeOK, Lands
  <2>2. StatusesAreKept' /\ MissedAreSignalled' /\ Quiet'
    BY <1>2 DEF Lands, StatusesAreKept, MissedAreSignalled, Quiet, Queued
  <2> QED BY <2>1, <2>2
<1> QED BY <1>1, <1>2

LEMMA FeedsStep == FeedsInv /\ [Next]_feedVars => FeedsInv'
<1> SUFFICES ASSUME FeedsInv, [Next]_feedVars  PROVE FeedsInv'
  OBVIOUS
<1>1. CASE StreamNext /\ UNCHANGED tipVars
  BY <1>1, ConnectionKeeps, ForwardSlotKeeps, ForwardStatusKeeps, ForwardOtherKeeps,
     UnblocksKeeps, FanOutKeeps, ReconcileStartsKeeps, ReconcileEndsKeeps, LandsKeeps
     DEF StreamNext
<1>2. CASE TipNext /\ UNCHANGED streamVars
  <2> USE <1>2 DEF streamVars, channelVars, consumerVars, reconcileVars, FeedsInv
  <2>1. FeedsTypeOK'
    BY DEF FeedsTypeOK, TipNext, SocketText, SocketEnds, RestAnswers, RestFails,
           PollAgain, BackToSocket, TipsAge
  <2>2. StatusesAreKept' /\ MissedAreSignalled' /\ Quiet'
    BY DEF StatusesAreKept, MissedAreSignalled, Missed, OnWire, Quiet, Queued
  <2> QED BY <2>1, <2>2
<1>3. CASE UNCHANGED feedVars
  BY <1>3 DEF feedVars, streamVars, tipVars, channelVars, consumerVars, reconcileVars, FeedsInv,
     FeedsTypeOK, StatusesAreKept, MissedAreSignalled, Missed, OnWire, Quiet, Queued
<1> QED BY <1>1, <1>2, <1>3 DEF Next

LEMMA FeedsInvariant == Spec => []FeedsInv
BY FeedsInit, FeedsStep, PTL DEF Spec

(* Both channels stay within their capacities and every variable keeps its  *)
(* type.                                                                    *)
THEOREM FeedsTypeCorrect == Spec => []FeedsTypeOK
BY FeedsInvariant, PTL DEF FeedsInv

(* Backpressure loses no transaction status, whatever the capacity.         *)
THEOREM NoStatusLost == Spec => []StatusesAreKept
BY FeedsInvariant, PTL DEF FeedsInv

(* No gap goes unsignalled, whatever the capacity of the reconnect channel  *)
(* and however long a pass takes.                                           *)
THEOREM NoGapUnsignalled == Spec => []MissedAreSignalled
BY FeedsInvariant, PTL DEF FeedsInv
=============================================================================
