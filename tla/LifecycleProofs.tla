--------------------------- MODULE LifecycleProofs ---------------------------
(***************************************************************************)
(* Proofs about Lifecycle, for every set of bundles, every slot bound and  *)
(* every choice of its other constants.                                    *)
(***************************************************************************)
EXTENDS LifecycleProperties, TrackerProofs, SequenceTheorems

-----------------------------------------------------------------------------
(* The inductive invariant.                                                *)

(* A row is only Submitted before a landed slot was ever written to it,    *)
(* and has one when it is Processed: what hydrate relies on.               *)
RowsSound ==
  \A b \in Bundles :
    /\ db[b].status = "Submitted" => db[b].landed = NoSlot
    /\ db[b].status = "Processed" => db[b].landed # NoSlot

(* Nothing is known of a bundle before it was sent, and memory holds       *)
(* nothing of it before its INSERT has returned: what makes the insertion  *)
(* of record_submission one of a row that is not tracked.                  *)
Known == {b \in Bundles : phase[b] # "new"}
KnownWrites == {w \in Write : w.row \in Known}

Provenance ==
  /\ \A b \in Bundles : phase[b] \in {"new", "sent", "inserted"}
                           => inner.stage[b] = "Untracked"
  /\ \A b \in Bundles : db[b].status # "Absent" => b \in Known
  /\ spawned \subseteq KnownWrites
  /\ sweep.todo \subseteq Known
  /\ \A b \in Bundles : rec.snap[b] # NoRow => b \in Known
  /\ \A b \in Bundles : rec.answer[b] # NoAnswer
                           => b \in Known /\ rec.answer[b].slot \in Slot
  /\ rec.writes \in Seq(KnownWrites)

IInv == TypeOK /\ IndicesAgree(inner) /\ RowsSound /\ Provenance

Advance == Restart \/ \A b \in Bundles : StageStep(b)

-----------------------------------------------------------------------------
(* The initial states.                                                     *)
LEMMA InitSound == Init => IInv
<1> SUFFICES ASSUME Init PROVE IInv
  OBVIOUS
<1>1. inner \in Inner /\ IndicesAgree(inner) /\ inner.stage = [b \in Bundles |-> "Untracked"]
  <2>1. inner = Observe(EmptyInner, 1)
    BY DEF Init, Observe, EmptyInner, Later
  <2> QED BY <2>1, EmptySound, ObserveSound DEF Sound, EmptyInner
<1>2. TypeOK
  <2>1. db \in [Bundles -> Row]
    BY DEF Init, Row, NewRow, Causes
  <2>2. rec \in [pc : {"idle", "asked", "applying"},
                snap : [Bundles -> OpenStages \cup {NoRow}],
                answer : [Bundles -> Answer],
                writes : Seq(Write)]
    BY EmptySeq DEF Init, IdleRec, NoAnswer, Answer
  <2>3. connected \in BOOLEAN /\ reconnects \in BOOLEAN
    BY Zenon DEF Init
  <2>4. /\ head \in Slot /\ confirmed \in Nat /\ finalized \in Nat /\ faults \in Nat
    BY SlotBound DEF Init, Slot
  <2>5. sweep \in [todo : SUBSET Bundles, ids : SUBSET Bundles]
    BY DEF Init
  <2>6. /\ landed \in [Bundles -> Slot \cup {NoSlot}] /\ base \in [Bundles -> Nat]
        /\ phase \in [Bundles -> Phases]
        /\ polled \in [Bundles -> Verdicts \cup {"off", "idle"}]
    BY DEF Init, Phases
  <2> QED BY <1>1, <2>1, <2>2, <2>3, <2>4, <2>5, <2>6 DEF TypeOK, Init
<1>3. RowsSound
  BY DEF RowsSound, Init, NewRow
<1>4. Provenance
  BY <1>1, EmptySeq DEF Provenance, Init, NewRow, IdleRec
<1> QED BY <1>1, <1>2, <1>3, <1>4 DEF IInv

-----------------------------------------------------------------------------
(* The environment changes nothing the tracker holds.                      *)
LEMMA ClusterStep == IInv /\ Cluster => IInv' /\ Advance
<1> SUFFICES ASSUME IInv, Cluster PROVE IInv' /\ Advance
  OBVIOUS
<1> USE DEF IInv, TypeOK, RowsSound, Provenance, Known, KnownWrites, Advance, StageStep,
            link, client, sweeper, cluster, Inject
<1>1. CASE AdvanceHead
  BY <1>1, SlotBound DEF AdvanceHead, Slot
<1>2. CASE ConfirmSlots
  BY <1>2 DEF ConfirmSlots, Slot
<1>3. CASE FinalizeSlots
  BY <1>3 DEF FinalizeSlots, Slot
<1>4. ASSUME NEW b \in Bundles, Land(b) PROVE IInv' /\ Advance
  BY <1>4 DEF Land
<1>5. ASSUME NEW b \in Bundles, Fork(b) PROVE IInv' /\ Advance
  BY <1>5 DEF Fork
<1> QED BY <1>1, <1>2, <1>3, <1>4, <1>5 DEF Cluster

LEMMA ConnectionStep == IInv /\ Connection => IInv' /\ Advance
<1> SUFFICES ASSUME IInv, Connection PROVE IInv' /\ Advance
  OBVIOUS
<1> USE DEF IInv, TypeOK, RowsSound, Provenance, Known, KnownWrites, Advance, StageStep,
            link, client, sweeper, cluster, Inject
<1>1. CASE Disconnect
  <2>1. connected' \in BOOLEAN
    BY <1>1, Zenon DEF Disconnect
  <2> QED BY <1>1, <2>1 DEF Disconnect
<1>2. CASE Reconnect
  BY <1>2 DEF Reconnect, Unheard
<1> QED BY <1>1, <1>2 DEF Connection

-----------------------------------------------------------------------------
(* persist keeps the rows sound, and touches the row of its write only.    *)
LEMMA PersistSound ==
  ASSUME TypeOK, RowsSound, NEW w \in Write, Persist(w)
  PROVE  /\ db' \in [Bundles -> Row]
         /\ RowsSound'
         /\ \A b \in Bundles : b # w.row => db'[b] = db[b]
<1>1. /\ w.row \in Bundles /\ w.to \in {"Processed", "Confirmed", "Finalized", "Failed"}
      /\ w.slot \in Slot \cup {NoSlot} /\ w.cause \in Causes
      /\ w.to = "Processed" => w.slot # NoSlot
  BY DEF Write
<1>2. db' = [db EXCEPT ![w.row] = Apply(db[w.row], w)] /\ db \in [Bundles -> Row]
  BY DEF Persist, TypeOK
<1>3. Apply(db[w.row], w) \in Row
  <2>1. db[w.row] \in Row
    BY <1>1, <1>2
  <2> QED BY <1>1, <2>1 DEF Apply, Row, TerminalStages, OpenStages
<1>4. /\ Apply(db[w.row], w).status # "Submitted"
      /\ Apply(db[w.row], w).status = "Processed" => Apply(db[w.row], w).landed # NoSlot
  BY <1>1, <1>2 DEF Apply, Row
<1> QED BY <1>1, <1>2, <1>3, <1>4 DEF RowsSound

(* The failed writes of the sweeper, the rejection and reconcile.          *)
LEMMA FailedWriteTyped ==
  ASSUME NEW b \in Bundles, NEW s \in Slot \cup {NoSlot}, NEW c \in Causes
  PROVE  FailedWrite(b, s, c) \in Write /\ FailedWrite(b, s, c).row = b
BY DEF FailedWrite, Write

(* The writes of a marked set of rows.                                     *)
LEMMA MarksTyped ==
  ASSUME NEW rows \in SUBSET Bundles, NEW s \in Slot \cup {NoSlot},
         NEW to \in {"Processed", "Confirmed", "Finalized"},
         to = "Processed" => s # NoSlot
  PROVE  Marks(to, rows, s) \subseteq {w \in Write : w.row \in rows}
BY DEF Marks, Write, Causes

(* Dropping rows from memory, or stamping rows with a later stage, only    *)
(* moves them forward.                                                     *)
LEMMA ForgetStep ==
  ASSUME TypeOK, NEW rows, inner'.stage = Stamp(inner.stage, rows, "Untracked")
  PROVE  \A b \in Bundles : StageStep(b)
<1> SUFFICES ASSUME NEW b \in Bundles PROVE StageStep(b)
  OBVIOUS
<1>1. inner.stage[b] \in OpenStages \cup {"Untracked"}
  BY DEF TypeOK, Inner
<1>2. inner'.stage[b] \in {inner.stage[b], "Untracked"}
  BY DEF Stamp
<1> QED BY <1>1, <1>2 DEF StageStep, MayBecome, OpenStages

LEMMA StampStep ==
  ASSUME TypeOK, NEW rows, NEW v, inner'.stage = Stamp(inner.stage, rows, v),
         \A b \in rows : b \in Bundles => v \in MayBecome(inner.stage[b])
  PROVE  \A b \in Bundles : StageStep(b)
BY DEF StageStep, Stamp

-----------------------------------------------------------------------------
(* The submitting task.                                                    *)
LEMMA SubmissionStep == IInv /\ Submission => IInv' /\ Advance
<1> SUFFICES ASSUME IInv, NEW b \in Bundles,
                    \/ Send(b) \/ InsertRow(b) \/ InsertRowFails(b) \/ Track(b)
                    \/ RecordRejection(b) \/ PersistRejection(b)
                    \/ PersistRejectionFails(b)
             PROVE IInv' /\ Advance
  BY DEF Submission
<1> USE DEF link, client, sweeper, cluster, Inject
<1>a. \A x \in Known : x \in Bundles /\ phase[x] # "new"
  BY DEF Known
<1>w. Known \subseteq Known' => rec.writes \in Seq(KnownWrites')
  <2> SUFFICES ASSUME Known \subseteq Known' PROVE rec.writes \in Seq(KnownWrites')
    OBVIOUS
  <2>1. KnownWrites \subseteq KnownWrites'
    BY DEF KnownWrites
  <2> QED BY <2>1, SeqMonotonic DEF IInv, Provenance
<1>1. CASE Send(b)
  <2>1. TypeOK'
    BY <1>1 DEF IInv, TypeOK, Send, Phases, Inner
  <2>2. Known \subseteq Known'
    BY <1>1 DEF Known, Send, IInv, TypeOK
  <2>3. Provenance'
    BY <1>1, <1>w, <2>2 DEF IInv, TypeOK, Provenance, Send, KnownWrites
  <2> QED BY <1>1, <2>1, <2>3 DEF IInv, Send, RowsSound, Advance, StageStep
<1>2. CASE InsertRow(b)
  <2>1. NewRow("Submitted") \in Row
    BY DEF NewRow, Row, OpenStages, Causes
  <2>2. TypeOK'
    BY <1>2, <2>1 DEF IInv, TypeOK, InsertRow, Phases
  <2>3. Known \subseteq Known'
    BY <1>2 DEF Known, InsertRow, IInv, TypeOK
  <2>4. Provenance'
    BY <1>2, <1>w, <2>3 DEF IInv, TypeOK, Provenance, InsertRow, KnownWrites, Known
  <2>5. RowsSound'
    BY <1>2 DEF IInv, TypeOK, RowsSound, InsertRow, NewRow
  <2> QED BY <1>2, <2>2, <2>4, <2>5 DEF IInv, InsertRow, Advance, StageStep
<1>3. CASE InsertRowFails(b)
  <2>1. TypeOK'
    BY <1>3 DEF IInv, TypeOK, InsertRowFails, Phases
  <2>2. Known \subseteq Known'
    BY <1>3 DEF Known, InsertRowFails, IInv, TypeOK
  <2>3. Provenance'
    BY <1>3, <1>w, <2>2 DEF IInv, TypeOK, Provenance, InsertRowFails, KnownWrites
  <2> QED BY <1>3, <2>1, <2>3 DEF IInv, InsertRowFails, RowsSound, Advance, StageStep
<1>4. CASE Track(b)
  <2>1. inner.stage[b] = "Untracked"
    BY <1>4 DEF IInv, Provenance, Track
  <2>2. /\ inner' \in Inner /\ IndicesAgree(inner')
        /\ inner'.stage = Stamp(inner.stage, {b}, "Submitted")
    BY <1>4, <2>1, InsertSound DEF Sound, IInv, TypeOK, Track
  <2>3. TypeOK'
    BY <1>4, <2>2 DEF IInv, TypeOK, Track, Phases
  <2>4. Known \subseteq Known'
    BY <1>4 DEF Known, Track, IInv, TypeOK
  <2>5. Provenance'
    BY <1>4, <1>w, <2>2, <2>4 DEF IInv, TypeOK, Provenance, Track, KnownWrites, Stamp
  <2>6. Advance
    BY <1>4, <2>1, <2>2 DEF Advance, StageStep, Stamp, Track
  <2> QED BY <1>4, <2>2, <2>3, <2>5, <2>6 DEF IInv, Track, RowsSound
<1>5. CASE RecordRejection(b)
  <2>1. /\ inner' \in Inner /\ IndicesAgree(inner')
        /\ inner'.stage = Stamp(inner.stage, {b}, "Untracked")
    BY <1>5, ForgetSound DEF Sound, IInv, TypeOK, RecordRejection
  <2>2. TypeOK'
    BY <1>5, <2>1 DEF IInv, TypeOK, RecordRejection, Phases
  <2>3. Known \subseteq Known'
    BY <1>5 DEF Known, RecordRejection, IInv, TypeOK
  <2>4. Provenance'
    BY <1>5, <1>w, <2>1, <2>3
       DEF IInv, TypeOK, Provenance, RecordRejection, KnownWrites, Stamp
  <2>5. Advance
    BY <1>5, <2>1, ForgetStep DEF Advance, IInv, TypeOK
  <2> QED BY <1>5, <2>1, <2>2, <2>4, <2>5 DEF IInv, RecordRejection, RowsSound
<1>6. CASE PersistRejection(b)
  <2>1. FailedWrite(b, NoSlot, "Rejected") \in Write /\ FailedWrite(b, NoSlot, "Rejected").row = b
    BY FailedWriteTyped DEF Causes
  <2>2. db' \in [Bundles -> Row] /\ RowsSound' /\ \A x \in Bundles : x # b => db'[x] = db[x]
    BY <1>6, <2>1, PersistSound DEF IInv, PersistRejection
  <2>3. TypeOK'
    BY <1>6, <2>2 DEF IInv, TypeOK, PersistRejection, Phases
  <2>4. Known \subseteq Known'
    BY <1>6 DEF Known, PersistRejection, IInv, TypeOK
  <2>5. Provenance'
    BY <1>6, <1>w, <2>2, <2>4
       DEF IInv, TypeOK, Provenance, PersistRejection, KnownWrites, Known
  <2> QED BY <1>6, <2>2, <2>3, <2>5 DEF IInv, PersistRejection, Advance, StageStep
<1>7. CASE PersistRejectionFails(b)
  <2>1. TypeOK'
    BY <1>7 DEF IInv, TypeOK, PersistRejectionFails, Phases
  <2>2. Known \subseteq Known'
    BY <1>7 DEF Known, PersistRejectionFails, IInv, TypeOK
  <2>3. Provenance'
    BY <1>7, <1>w, <2>2 DEF IInv, TypeOK, Provenance, PersistRejectionFails, KnownWrites
  <2> QED BY <1>7, <2>1, <2>3 DEF IInv, PersistRejectionFails, RowsSound, Advance, StageStep
<1> QED BY <1>1, <1>2, <1>3, <1>4, <1>5, <1>6, <1>7

-----------------------------------------------------------------------------
(* The Jito pollers.                                                       *)
LEMMA JitoStep == IInv /\ JitoPollers => IInv' /\ Advance
<1> SUFFICES ASSUME IInv, NEW b \in Bundles,
                    \/ \E v \in Verdicts : RecordJito(b, v)
                    \/ PersistJito(b) \/ PersistJitoFails(b)
             PROVE IInv' /\ Advance
  BY DEF JitoPollers
<1> USE DEF link, client, sweeper, cluster, Inject
<1>1. ASSUME NEW v \in Verdicts, RecordJito(b, v) PROVE IInv' /\ Advance
  <2>1. /\ inner' \in Inner /\ IndicesAgree(inner') /\ inner'.stage = inner.stage
    BY <1>1 DEF RecordJito, IInv, TypeOK, Inner, IndicesAgree, Indexed, Stamp
  <2>2. TypeOK'
    BY <1>1, <2>1 DEF IInv, TypeOK, RecordJito
  <2>3. Provenance'
    BY <1>1, <2>1 DEF IInv, Provenance, RecordJito, Known, KnownWrites
  <2> QED BY <1>1, <2>1, <2>2, <2>3
          DEF IInv, RecordJito, RowsSound, Advance, StageStep
<1>2. CASE PersistJito(b)
  <2>1. polled[b] \in Verdicts /\ db' = [db EXCEPT ![b] = [db[b] EXCEPT !.jito = polled[b]]]
    BY <1>2 DEF PersistJito
  <2>2. /\ db' \in [Bundles -> Row]
        /\ \A x \in Bundles : db'[x].status = db[x].status /\ db'[x].landed = db[x].landed
    <3>1. db \in [Bundles -> Row] /\ db[b] \in Row
      BY DEF IInv, TypeOK
    <3>2. /\ [db[b] EXCEPT !.jito = polled[b]] \in Row
          /\ [db[b] EXCEPT !.jito = polled[b]].status = db[b].status
          /\ [db[b] EXCEPT !.jito = polled[b]].landed = db[b].landed
      BY <2>1, <3>1 DEF Row
    <3> QED BY <2>1, <3>1, <3>2
  <2>3. polled' \in [Bundles -> Verdicts \cup {"off", "idle"}]
    BY <1>2 DEF PersistJito, IInv, TypeOK
  <2>4. TypeOK'
    BY <1>2, <2>2, <2>3 DEF IInv, TypeOK, PersistJito
  <2>5. Provenance'
    BY <1>2, <2>2 DEF IInv, Provenance, PersistJito, Known, KnownWrites
  <2> QED BY <1>2, <2>2, <2>4, <2>5 DEF IInv, PersistJito, RowsSound, Advance, StageStep
<1>3. CASE PersistJitoFails(b)
  <2>1. polled' \in [Bundles -> Verdicts \cup {"off", "idle"}]
    BY <1>3 DEF PersistJitoFails, IInv, TypeOK
  <2>2. TypeOK'
    BY <1>3, <2>1 DEF IInv, TypeOK, PersistJitoFails
  <2>3. Provenance'
    BY <1>3 DEF IInv, Provenance, PersistJitoFails, Known, KnownWrites
  <2> QED BY <1>3, <2>2, <2>3 DEF IInv, PersistJitoFails, RowsSound, Advance, StageStep
<1> QED BY <1>1, <1>2, <1>3

-----------------------------------------------------------------------------
(* The stream fan-out, and the writes it spawned.                          *)
LEMMA IngestStep == IInv /\ Ingest => IInv' /\ Advance
<1> SUFFICES ASSUME IInv, Ingest PROVE IInv' /\ Advance
  OBVIOUS
<1> USE DEF link, client, sweeper, cluster
<1>s. Sound(inner)
  BY DEF IInv, TypeOK, Sound
<1>n. \A n \in Slot : n \in Nat
  BY DEF Slot
<1>1. ASSUME NEW n \in Slot, IngestProcessedSlot(n) PROVE IInv' /\ Advance
  <2>1. Sound(inner') /\ inner'.stage = inner.stage
    BY <1>1, <1>s, <1>n, ObserveSound DEF IngestProcessedSlot
  <2>2. TypeOK'
    BY <1>1, <2>1 DEF IInv, TypeOK, IngestProcessedSlot, Sound
  <2>3. Provenance'
    BY <1>1, <2>1 DEF IInv, Provenance, IngestProcessedSlot, Known, KnownWrites
  <2> QED BY <1>1, <2>1, <2>2, <2>3
          DEF IInv, IngestProcessedSlot, RowsSound, Advance, StageStep, Sound
<1>2. ASSUME NEW n \in Slot, IngestConfirmedSlot(n) PROVE IInv' /\ Advance
  <2> DEFINE m == Observe(inner, n)
             rows == Confirmable(inner, n)
  <2>1. Sound(m) /\ m.stage = inner.stage
    BY <1>s, <1>n, ObserveSound
  <2>2. rows = Confirmable(m, n)
    BY <1>s, <2>1 DEF Confirmable, Observe, Sound, Inner
  <2>3. Sound(inner') /\ inner'.stage = Stamp(inner.stage, rows, "Confirmed")
    BY <1>2, <1>n, <2>1, <2>2, OnConfirmedSound DEF IngestConfirmedSlot
  <2>4. rows \in SUBSET Bundles /\ \A b \in rows : inner.stage[b] = "Processed"
    BY DEF Confirmable, Drained
  <2>5. rows \subseteq Known
    BY <2>4 DEF IInv, Provenance, Known
  <2>6. Marks("Confirmed", rows, NoSlot) \subseteq KnownWrites
    BY <2>4, <2>5, MarksTyped DEF KnownWrites
  <2> HIDE DEF rows
  <2>7. spawned' \subseteq KnownWrites
    BY <1>2, <2>6 DEF IngestConfirmedSlot, IInv, Provenance, rows
  <2>8. TypeOK'
    BY <1>2, <2>3, <2>7 DEF IInv, TypeOK, IngestConfirmedSlot, Sound, KnownWrites
  <2>9. Provenance'
    BY <1>2, <2>3, <2>4, <2>7
       DEF IInv, Provenance, IngestConfirmedSlot, Known, KnownWrites, Stamp
  <2>10. Advance
    BY <2>3, <2>4, StampStep DEF IInv, Advance, MayBecome
  <2> QED BY <1>2, <2>3, <2>8, <2>9, <2>10 DEF IInv, IngestConfirmedSlot, RowsSound, Sound
<1>3. ASSUME NEW n \in Slot, IngestFinalizedSlot(n) PROVE IInv' /\ Advance
  <2> DEFINE m == Observe(inner, n)
             rows == Finalizable(inner, n)
  <2>1. Sound(m) /\ m.stage = inner.stage
    BY <1>s, <1>n, ObserveSound
  <2>2. rows = Finalizable(m, n)
    BY <1>s, <2>1 DEF Finalizable, Observe, Sound, Inner
  <2>3. Sound(inner') /\ inner'.stage = Stamp(inner.stage, rows, "Untracked")
    BY <1>3, <1>n, <2>1, <2>2, OnFinalizedSound DEF IngestFinalizedSlot
  <2>4. rows \in SUBSET Bundles
        /\ \A b \in rows : inner.stage[b] \in {"Processed", "Confirmed"}
    BY DEF Finalizable, Drained
  <2>5. rows \subseteq Known
    BY <2>4 DEF IInv, Provenance, Known
  <2>6. Marks("Finalized", rows, NoSlot) \subseteq KnownWrites
    BY <2>4, <2>5, MarksTyped DEF KnownWrites
  <2> HIDE DEF rows
  <2>7. spawned' \subseteq KnownWrites
    BY <1>3, <2>6 DEF IngestFinalizedSlot, IInv, Provenance, rows
  <2>8. TypeOK'
    BY <1>3, <2>3, <2>7 DEF IInv, TypeOK, IngestFinalizedSlot, Sound, KnownWrites
  <2>9. Provenance'
    BY <1>3, <2>3, <2>4, <2>7
       DEF IInv, Provenance, IngestFinalizedSlot, Known, KnownWrites, Stamp
  <2>10. Advance
    BY <2>3, ForgetStep DEF IInv, Advance
  <2> QED BY <1>3, <2>3, <2>8, <2>9, <2>10 DEF IInv, IngestFinalizedSlot, RowsSound, Sound
<1>4. ASSUME NEW b \in Bundles, IngestTx(b) PROVE IInv' /\ Advance
  <2>1. landed[b] \in Slot
    BY <1>4 DEF IngestTx, IInv, TypeOK
  <2>2. /\ Sound(inner') /\ spawned' \subseteq KnownWrites /\ Advance
        /\ \A x \in Bundles : inner'.stage[x] # "Untracked" => inner.stage[x] # "Untracked"
    <3>1. CASE LandsNow(b)
      <4>1. inner.stage[b] = "Submitted" /\ b \in Known
        BY <3>1 DEF LandsNow, IInv, Provenance, Known
      <4>2. Sound(inner') /\ inner'.stage = Stamp(inner.stage, {b}, "Processed")
        BY <3>1, <1>s, <2>1, <4>1, MarkProcessedSound DEF LandsNow
      <4>3. landed[b] # NoSlot
        BY <1>4 DEF IngestTx
      <4>4. Marks("Processed", {b}, landed[b]) \subseteq KnownWrites
        BY <2>1, <4>1, <4>3, MarksTyped DEF KnownWrites
      <4>5. Advance
        BY <4>1, <4>2, StampStep DEF IInv, Advance, MayBecome
      <4> QED BY <3>1, <4>1, <4>2, <4>4, <4>5 DEF LandsNow, IInv, Provenance, Stamp
    <3>2. CASE FailsNow(b)
      <4>1. b \in Known
        BY <3>2 DEF FailsNow, IInv, Provenance, Known
      <4>2. Sound(inner') /\ inner'.stage = Stamp(inner.stage, {b}, "Untracked")
        BY <3>2, <1>s, ForgetSound DEF FailsNow
      <4>3. FailedWrite(b, landed[b], "OnChain") \in KnownWrites
        BY <2>1, <4>1, FailedWriteTyped DEF KnownWrites, Causes
      <4>4. Advance
        BY <4>2, ForgetStep DEF IInv, Advance
      <4> QED BY <3>2, <4>2, <4>3, <4>4 DEF FailsNow, IInv, Provenance, Stamp
    <3>3. CASE Ignored(b)
      BY <3>3, <1>s DEF Ignored, IInv, Provenance, Advance, StageStep
    <3> QED BY <1>4, <3>1, <3>2, <3>3 DEF IngestTx
  <2>3. TypeOK'
    BY <1>4, <2>2 DEF IInv, TypeOK, IngestTx, Sound, KnownWrites
  <2>4. Provenance'
    BY <1>4, <2>2 DEF IInv, Provenance, IngestTx, Known, KnownWrites
  <2> QED BY <1>4, <2>2, <2>3, <2>4 DEF IInv, IngestTx, RowsSound, Sound
<1> QED BY <1>1, <1>2, <1>3, <1>4 DEF Ingest

LEMMA WriteThroughStep == IInv /\ WriteThrough => IInv' /\ Advance
<1> SUFFICES ASSUME IInv, NEW w \in spawned, PersistSpawned(w) \/ LoseSpawned(w)
             PROVE  IInv' /\ Advance
  BY DEF WriteThrough
<1> USE DEF link, client, sweeper, cluster, Inject
<1>1. w \in Write /\ w.row \in Known
  BY DEF IInv, Provenance, KnownWrites
<1>2. CASE PersistSpawned(w)
  <2>1. /\ db' \in [Bundles -> Row] /\ RowsSound'
        /\ \A b \in Bundles : b # w.row => db'[b] = db[b]
    BY <1>1, <1>2, PersistSound DEF IInv, PersistSpawned
  <2>2. TypeOK'
    BY <1>2, <2>1 DEF IInv, TypeOK, PersistSpawned
  <2>3. Provenance'
    BY <1>1, <1>2, <2>1 DEF IInv, Provenance, PersistSpawned, Known, KnownWrites
  <2> QED BY <1>2, <2>1, <2>2, <2>3 DEF IInv, PersistSpawned, Advance, StageStep
<1>3. CASE LoseSpawned(w)
  <2>1. TypeOK'
    BY <1>3 DEF IInv, TypeOK, LoseSpawned
  <2>2. Provenance'
    BY <1>3 DEF IInv, Provenance, LoseSpawned, Known, KnownWrites
  <2> QED BY <1>3, <2>1, <2>2 DEF IInv, LoseSpawned, RowsSound, Advance, StageStep
<1> QED BY <1>2, <1>3

-----------------------------------------------------------------------------
(* The sweeper.                                                            *)
LEMMA SweeperStep == IInv /\ Sweeper => IInv' /\ Advance
<1> SUFFICES ASSUME IInv, Sweeper PROVE IInv' /\ Advance
  OBVIOUS
<1> USE DEF link, client, sweeper, cluster, Inject
<1>1. CASE CheckTimeouts
  <2> DEFINE ids == TimedOut(inner, base, TimeoutSlots)
  <2>1. ids \in SUBSET Bundles /\ \A b \in ids : inner.stage[b] = "Submitted"
    BY DEF TimedOut
  <2>2. ids \subseteq Known
    BY <2>1 DEF IInv, Provenance, Known
  <2> HIDE DEF ids
  <2>3. inner' = Forget(inner, ids) /\ sweep' = [todo |-> ids, ids |-> ids]
    BY <1>1 DEF CheckTimeouts, ids
  <2>4. Sound(inner') /\ inner'.stage = Stamp(inner.stage, ids, "Untracked")
    BY <2>1, <2>3, ForgetSound DEF IInv, TypeOK, Sound
  <2>5. TypeOK'
    BY <1>1, <2>1, <2>3, <2>4 DEF IInv, TypeOK, CheckTimeouts, Sound
  <2>6. Provenance'
    BY <1>1, <2>2, <2>3, <2>4 DEF IInv, Provenance, CheckTimeouts, Known, KnownWrites, Stamp
  <2>7. Advance
    BY <2>4, ForgetStep DEF IInv, Advance
  <2> QED BY <1>1, <2>4, <2>5, <2>6, <2>7 DEF IInv, CheckTimeouts, RowsSound, Sound
<1>2. ASSUME NEW b \in Bundles, PersistTimeout(b) PROVE IInv' /\ Advance
  <2>1. FailedWrite(b, NoSlot, "NeverLanded") \in Write
        /\ FailedWrite(b, NoSlot, "NeverLanded").row = b
    BY FailedWriteTyped DEF Causes
  <2>2. db' \in [Bundles -> Row] /\ RowsSound' /\ \A x \in Bundles : x # b => db'[x] = db[x]
    BY <1>2, <2>1, PersistSound DEF IInv, PersistTimeout
  <2>3. /\ sweep' \in [todo : SUBSET Bundles, ids : SUBSET Bundles]
        /\ sweep'.todo \subseteq sweep.todo /\ retried' \subseteq Bundles
    <3>1. CASE sweep.todo = {b}
      BY <1>2, <3>1 DEF PersistTimeout, IInv, TypeOK
    <3>2. CASE sweep.todo # {b}
      <4>1. sweep' = [sweep EXCEPT !.todo = sweep.todo \ {b}] /\ retried' = retried
        BY <1>2, <3>2 DEF PersistTimeout
      <4> QED BY <4>1 DEF IInv, TypeOK
    <3> QED BY <3>1, <3>2
  <2>4. TypeOK'
    BY <1>2, <2>2, <2>3 DEF IInv, TypeOK, PersistTimeout
  <2>5. Provenance'
    BY <1>2, <2>2, <2>3 DEF IInv, Provenance, PersistTimeout, Known, KnownWrites
  <2> QED BY <1>2, <2>2, <2>4, <2>5 DEF IInv, PersistTimeout, Advance, StageStep
<1>3. CASE PersistTimeoutFails
  <2>1. TypeOK'
    BY <1>3 DEF IInv, TypeOK, PersistTimeoutFails
  <2>2. Provenance'
    BY <1>3 DEF IInv, Provenance, PersistTimeoutFails, Known, KnownWrites
  <2> QED BY <1>3, <2>1, <2>2 DEF IInv, PersistTimeoutFails, RowsSound, Advance, StageStep
<1> QED BY <1>1, <1>2, <1>3 DEF Sweeper

-----------------------------------------------------------------------------
(* The reconcile task.                                                     *)
RecType == [pc : {"idle", "asked", "applying"},
            snap : [Bundles -> OpenStages \cup {NoRow}],
            answer : [Bundles -> Answer],
            writes : Seq(Write)]

(* Steps that leave memory and table alone: only what reconcile holds has  *)
(* to stay sound.                                                          *)
LEMMA RecOnly ==
  ASSUME IInv, rec' \in RecType, rec'.writes \in Seq(KnownWrites),
         \A b \in Bundles : rec'.snap[b] # NoRow => b \in Known,
         \A b \in Bundles : rec'.answer[b] # NoAnswer
            => b \in Known /\ rec'.answer[b].slot \in Slot,
         reconnects' \in BOOLEAN, faults' \in Nat,
         UNCHANGED <<cluster, connected, heard, client, inner, db, spawned, sweeper, polled>>
  PROVE  IInv' /\ Advance
<1> USE DEF client, sweeper, cluster
<1>1. TypeOK'
  BY DEF IInv, TypeOK, RecType
<1>2. Provenance'
  BY DEF IInv, Provenance, Known, KnownWrites
<1> QED BY <1>1, <1>2 DEF IInv, RowsSound, Advance, StageStep

(* A row handled: memory moves the row on, its answer is used up and its   *)
(* writes are queued.                                                      *)
LEMMA RecMarks ==
  ASSUME IInv, NEW b \in Bundles, NEW writes \in Seq(KnownWrites), writes \in Seq(Write),
         rec' = [rec EXCEPT !.answer = [rec.answer EXCEPT ![b] = NoAnswer],
                            !.writes = writes],
         Sound(inner'), Advance,
         \A x \in Bundles : inner'.stage[x] # "Untracked" => inner.stage[x] # "Untracked",
         UNCHANGED <<cluster, link, client, db, spawned, sweeper, polled, faults>>
  PROVE  IInv' /\ Advance
<1> USE DEF client, sweeper, cluster, link
<1>1. NoAnswer \in Answer
  BY DEF NoAnswer, Answer
<1>2. /\ rec' \in RecType /\ rec'.writes = writes /\ rec'.snap = rec.snap
      /\ rec'.answer = [rec.answer EXCEPT ![b] = NoAnswer]
  BY <1>1 DEF IInv, TypeOK, RecType
<1>3. TypeOK'
  BY <1>2 DEF IInv, TypeOK, RecType, Sound
<1>4. Provenance'
  BY <1>2 DEF IInv, Provenance, TypeOK, Known, KnownWrites
<1> QED BY <1>3, <1>4 DEF IInv, RowsSound, Sound

LEMMA IdleRecSound ==
  /\ IdleRec \in RecType /\ IdleRec.writes \in Seq(KnownWrites)
  /\ \A b \in Bundles : IdleRec.snap[b] = NoRow /\ IdleRec.answer[b] = NoAnswer
BY EmptySeq DEF IdleRec, RecType, NoAnswer, Answer

LEMMA IfMissedTyped ==
  ASSUME NEW missed, NEW b \in Known, NEW s \in Slot \cup {NoSlot},
         NEW to \in {"Processed", "Confirmed", "Finalized"},
         to = "Processed" => s # NoSlot
  PROVE  IfMissed(missed, b, to, s) \in Seq(KnownWrites)
<1> DEFINE w == [row |-> b, to |-> to, slot |-> s, cause |-> "none"]
<1>1. w \in KnownWrites
  BY DEF KnownWrites, Known, Write, Causes
<1> HIDE DEF w
<1>2. <<w>> \in Seq(KnownWrites) /\ <<>> \in Seq(KnownWrites)
  BY <1>1, EmptySeq
<1>3. CASE missed
  BY <1>2, <1>3 DEF IfMissed, w
<1>4. CASE ~missed
  BY <1>2, <1>4 DEF IfMissed
<1> QED BY <1>3, <1>4

LEMMA ReconcileStep == IInv /\ Reconcile => IInv' /\ Advance
<1> SUFFICES ASSUME IInv, Reconcile PROVE IInv' /\ Advance
  OBVIOUS
<1> USE DEF link, Inject
<1>t. /\ rec \in RecType /\ rec.writes \in Seq(KnownWrites) /\ Sound(inner)
      /\ reconnects \in BOOLEAN /\ faults \in Nat /\ faults + 1 \in Nat
  BY DEF IInv, TypeOK, Provenance, RecType, Sound
<1>1. CASE ReconcileSelect
  <2>1. CASE OpenRows = {}
    <3>1. rec' = rec /\ reconnects' \in BOOLEAN
      BY <1>1, <2>1, Zenon DEF ReconcileSelect
    <3> QED BY <1>1, <1>t, <3>1, RecOnly DEF ReconcileSelect, IInv, Provenance
  <2>2. CASE OpenRows # {}
    <3> DEFINE snap == [b \in Bundles |-> IF b \in OpenRows THEN db[b].status ELSE NoRow]
    <3>1. rec' = [rec EXCEPT !.pc = "asked", !.snap = snap]
      BY <1>1, <2>2 DEF ReconcileSelect
    <3>2. snap \in [Bundles -> OpenStages \cup {NoRow}]
      BY DEF OpenRows
    <3>3. \A b \in Bundles : snap[b] # NoRow => b \in Known
      BY DEF OpenRows, OpenStages, IInv, Provenance
    <3> HIDE DEF snap
    <3>4. rec' \in RecType /\ rec'.writes = rec.writes /\ rec'.snap = snap /\ rec'.answer = rec.answer
      BY <1>t, <3>1, <3>2 DEF RecType
    <3>5. reconnects' \in BOOLEAN
      BY <1>1, Zenon DEF ReconcileSelect
    <3> QED BY <1>1, <1>t, <3>3, <3>4, <3>5, RecOnly DEF ReconcileSelect, IInv, Provenance
  <2> QED BY <2>1, <2>2
<1>2. CASE ReconcileAnswered
  <2> DEFINE answer == [b \in Bundles |->
                          IF b \in Asked /\ landed[b] # NoSlot
                          THEN [level |-> Level(landed[b]), slot |-> landed[b],
                                err |-> b \in errored]
                          ELSE NoAnswer]
  <2>1. rec' = [rec EXCEPT !.pc = "applying", !.answer = answer]
    BY <1>2 DEF ReconcileAnswered
  <2>2. answer \in [Bundles -> Answer]
    <3>1. NoAnswer \in Answer
      BY DEF NoAnswer, Answer
    <3>2. ASSUME NEW b \in Bundles
          PROVE  [level |-> Level(landed[b]), slot |-> landed[b], err |-> b \in errored] \in Answer
      <4>1. landed[b] \in Slot \cup {NoSlot} /\ Level(landed[b]) \in Levels \cup {"none"}
        BY DEF IInv, TypeOK, Level, Levels
      <4> QED BY <4>1 DEF Answer
    <3> QED BY <3>1, <3>2
  <2>3. \A b \in Bundles : answer[b] # NoAnswer => b \in Known /\ answer[b].slot \in Slot
    BY DEF Asked, IInv, Provenance, TypeOK
  <2> HIDE DEF answer
  <2>4. rec' \in RecType /\ rec'.writes = rec.writes /\ rec'.snap = rec.snap /\ rec'.answer = answer
    BY <1>t, <2>1, <2>2 DEF RecType
  <2> QED BY <1>2, <1>t, <2>3, <2>4, RecOnly DEF ReconcileAnswered, IInv, Provenance
<1>3. CASE ReconcileUnparsable \/ ReconcileRpcFails \/ ReconcileDone \/ ReconcilePersistFails
  BY <1>3, <1>t, IdleRecSound, RecOnly
     DEF ReconcileUnparsable, ReconcileRpcFails, ReconcileDone, ReconcilePersistFails
<1>4. ASSUME NEW b \in Bundles, ReconcileErrored(b) PROVE IInv' /\ Advance
  <2> DEFINE w == FailedWrite(b, rec.answer[b].slot, "OnChain")
  <2>1. b \in Known /\ rec.answer[b].slot \in Slot
    BY <1>4 DEF ReconcileErrored, Answers, IInv, Provenance
  <2>2. w \in KnownWrites
    BY <2>1, FailedWriteTyped DEF KnownWrites, Causes
  <2> HIDE DEF w
  <2>3. <<w>> \in Seq(KnownWrites) /\ <<w>> \in Seq(Write)
    BY <2>2 DEF KnownWrites
  <2>4. rec' = [rec EXCEPT !.answer = [rec.answer EXCEPT ![b] = NoAnswer], !.writes = <<w>>]
    BY <1>4 DEF ReconcileErrored, w
  <2>5. Sound(inner') /\ inner'.stage = Stamp(inner.stage, {b}, "Untracked")
    BY <1>4, <1>t, ForgetSound DEF ReconcileErrored
  <2>6. Advance
    BY <2>5, ForgetStep DEF IInv, Advance
  <2> QED BY <1>4, <2>3, <2>4, <2>5, <2>6, RecMarks DEF ReconcileErrored, Stamp
<1>5. ASSUME NEW b \in Bundles, ReconcileMarked(b) PROVE IInv' /\ Advance
  <2> DEFINE s == rec.answer[b].slot
             p == MissedProcessed(b)
             m1 == IF p THEN MarkProcessed(inner, b, s) ELSE inner
             c == MissedConfirmed(b, m1)
             m2 == IF c THEN MarkConfirmed(m1, {b}) ELSE m1
             f == MissedFinalized(b, m2)
             m3 == IF f THEN Forget(m2, {b}) ELSE m2
             writes == IfMissed(p, b, "Processed", s)
                       \o IfMissed(c, b, "Confirmed", NoSlot)
                       \o IfMissed(f, b, "Finalized", NoSlot)
  <2>1. b \in Known /\ s \in Slot /\ s # NoSlot
    BY <1>5 DEF ReconcileMarked, Answers, IInv, Provenance, Slot, NoSlot
  <2>2. /\ inner' = m3
        /\ rec' = [rec EXCEPT !.answer = [rec.answer EXCEPT ![b] = NoAnswer],
                              !.writes = writes]
    BY <1>5 DEF ReconcileMarked
  <2>3. writes \in Seq(KnownWrites) /\ writes \in Seq(Write)
    <3>1. /\ IfMissed(p, b, "Processed", s) \in Seq(KnownWrites)
          /\ IfMissed(c, b, "Confirmed", NoSlot) \in Seq(KnownWrites)
          /\ IfMissed(f, b, "Finalized", NoSlot) \in Seq(KnownWrites)
      BY <2>1, IfMissedTyped
    <3>2. KnownWrites \subseteq Write
      BY DEF KnownWrites
    <3> HIDE DEF p, c, f, s
    <3>3. writes \in Seq(KnownWrites)
      BY <3>1, ConcatProperties
    <3> QED BY <3>2, <3>3, SeqMonotonic
  <2>4. /\ Sound(m1)
        /\ m1.stage = inner.stage
           \/ /\ inner.stage[b] = "Submitted"
              /\ m1.stage = Stamp(inner.stage, {b}, "Processed")
    <3>1. CASE p
      <4>1. inner.stage[b] = "Submitted"
        BY <3>1 DEF MissedProcessed
      <4>2. m1 = MarkProcessed(inner, b, s)
        BY <3>1
      <4> QED BY <1>t, <2>1, <4>1, <4>2, MarkProcessedSound
    <3>2. CASE ~p
      BY <1>t, <3>2
    <3> QED BY <3>1, <3>2
  <2>5. /\ Sound(m2)
        /\ m2.stage = m1.stage
           \/ /\ m1.stage[b] = "Processed"
              /\ m2.stage = Stamp(m1.stage, {b}, "Confirmed")
    <3> HIDE DEF m1
    <3>1. CASE c
      <4>1. m1.stage[b] = "Processed"
        BY <3>1 DEF MissedConfirmed
      <4>2. m2 = MarkConfirmed(m1, {b})
        BY <3>1
      <4> QED BY <2>4, <4>1, <4>2, MarkConfirmedSound
    <3>2. CASE ~c
      BY <2>4, <3>2
    <3> QED BY <3>1, <3>2
  <2>6. /\ Sound(m3)
        /\ m3.stage = m2.stage
           \/ /\ m2.stage[b] \in {"Processed", "Confirmed"}
              /\ m3.stage = Stamp(m2.stage, {b}, "Untracked")
    <3> HIDE DEF m2
    <3>1. CASE f
      <4>1. m2.stage[b] \in {"Processed", "Confirmed"}
        BY <3>1 DEF MissedFinalized
      <4>2. m3 = Forget(m2, {b})
        BY <3>1
      <4> QED BY <2>5, <4>1, <4>2, ForgetSound
    <3>2. CASE ~f
      BY <2>5, <3>2
    <3> QED BY <3>1, <3>2
  <2> HIDE DEF s, p, m1, c, m2, f, m3, writes
  <2>7. inner.stage \in [Bundles -> OpenStages \cup {"Untracked"}]
    BY <1>t DEF Sound, Inner
  <2>8. \A x \in Bundles : x # b => m3.stage[x] = inner.stage[x]
    BY <2>4, <2>5, <2>6, <2>7 DEF Stamp
  <2>9. m3.stage[b] = inner.stage[b] \/ m3.stage[b] \in MayBecome(inner.stage[b])
    BY <2>4, <2>5, <2>6, <2>7 DEF Stamp, MayBecome, OpenStages
  <2>10. Advance
    BY <2>2, <2>8, <2>9 DEF Advance, StageStep
  <2>11. \A x \in Bundles : m3.stage[x] # "Untracked" => inner.stage[x] # "Untracked"
    BY <2>8, <2>9 DEF MayBecome
  <2>12. UNCHANGED <<cluster, link, client, db, spawned, sweeper, polled, faults>>
    BY <1>5 DEF ReconcileMarked
  <2>13. Sound(inner') /\ \A x \in Bundles : inner'.stage[x] # "Untracked"
                                            => inner.stage[x] # "Untracked"
    BY <2>2, <2>6, <2>11
  <2> QED BY <2>2, <2>3, <2>10, <2>12, <2>13, RecMarks
<1>6. CASE ReconcilePersist
  <2> DEFINE w == Head(rec.writes)
             rest == Tail(rec.writes)
  <2>1. w \in KnownWrites /\ rest \in Seq(KnownWrites) /\ rest \in Seq(Write)
    <3>1. rec.writes # <<>> /\ rec.writes \in Seq(Write)
      BY <1>6, <1>t DEF ReconcilePersist, RecType
    <3> QED BY <1>t, <3>1, HeadTailProperties
  <2>2. Persist(w) /\ rec' = [rec EXCEPT !.writes = rest]
    BY <1>6 DEF ReconcilePersist
  <2> HIDE DEF w, rest
  <2>3. w \in Write /\ w.row \in Known
    BY <2>1 DEF KnownWrites
  <2>4. /\ db' \in [Bundles -> Row] /\ RowsSound'
        /\ \A x \in Bundles : x # w.row => db'[x] = db[x]
    BY <2>2, <2>3, PersistSound DEF IInv
  <2>5. /\ rec' \in RecType /\ rec'.writes = rest
        /\ rec'.snap = rec.snap /\ rec'.answer = rec.answer
    BY <1>t, <2>1, <2>2 DEF RecType
  <2> USE DEF cluster, client, sweeper
  <2>6. TypeOK'
    BY <1>6, <2>4, <2>5 DEF IInv, TypeOK, ReconcilePersist, RecType
  <2>7. Provenance'
    BY <1>6, <2>1, <2>3, <2>4, <2>5
       DEF IInv, Provenance, ReconcilePersist, Known, KnownWrites
  <2> QED BY <1>6, <2>4, <2>6, <2>7 DEF IInv, ReconcilePersist, Advance, StageStep
<1> QED BY <1>1, <1>2, <1>3, <1>4, <1>5, <1>6 DEF Reconcile

-----------------------------------------------------------------------------
(* A restart: hydrate builds a sound memory from sound rows.               *)
LEMMA HydratedSound ==
  ASSUME db \in [Bundles -> Row], RowsSound, NEW n \in Nat
  PROVE  Sound(Hydrated(n))
<1> DEFINE m == Hydrated(n)
<1>1. m \in Inner
  BY DEF Hydrated, Inner, OpenRows, Row, OpenStages
<1>2. ASSUME NEW b \in Bundles PROVE Indexed(m, b)
  BY <1>2 DEF Indexed, Hydrated, OpenRows, Row, OpenStages, RowsSound
<1> QED BY <1>1, <1>2 DEF Sound, IndicesAgree

LEMMA RestartStep == IInv /\ Restart => IInv' /\ Advance
<1> SUFFICES ASSUME IInv, Restart PROVE IInv'
  BY DEF Advance
<1> USE DEF cluster, Inject
<1>1. Seen \subseteq Nat
  BY DEF Seen, OpenRows, IInv, TypeOK, Row, Slot, NoSlot
<1>2. PICK n \in Nat : inner' = Hydrated(n)
  BY <1>1 DEF Restart
<1>3. Sound(inner')
  BY <1>2, HydratedSound DEF IInv, TypeOK
<1>4. connected' \in BOOLEAN /\ reconnects' \in BOOLEAN
  BY Zenon DEF Restart
<1>5. phase' \in [Bundles -> Phases] /\ Known' = Known
  BY DEF Restart, IInv, TypeOK, Known, Phases
<1>6. \A b \in Bundles : inner'.stage[b] # "Untracked" => b \in Known
  BY <1>2 DEF Hydrated, OpenRows, OpenStages, IInv, Provenance
<1>7. /\ rec' \in RecType /\ rec'.writes \in Seq(KnownWrites')
      /\ \A b \in Bundles : rec'.snap[b] = NoRow /\ rec'.answer[b] = NoAnswer
  BY IdleRecSound, EmptySeq DEF Restart, IdleRec
<1>8. /\ spawned' = {} /\ sweep' = [todo |-> {}, ids |-> {}]
      /\ polled' = [b \in Bundles |-> "off"]
      /\ heard' \subseteq Bundles /\ faults' \in Nat
  BY DEF Restart, Unheard, IInv, TypeOK
<1>9. TypeOK'
  BY <1>3, <1>4, <1>5, <1>7, <1>8 DEF Restart, IInv, TypeOK, RecType, Sound
<1>10. Provenance'
  <2>1. \A b \in Bundles : phase'[b] \in {"new", "sent", "inserted"} => b \notin Known
    BY DEF Restart, Known
  <2> QED BY <1>5, <1>6, <1>7, <1>8, <2>1 DEF Restart, IInv, Provenance
<1> QED BY <1>3, <1>9, <1>10 DEF Restart, IInv, RowsSound, Sound

-----------------------------------------------------------------------------
(* The invariant, and what follows from it.                                *)
LEMMA Inductive == IInv /\ [Next]_vars => IInv' /\ [Advance]_vars
<1> SUFFICES ASSUME IInv, [Next]_vars PROVE IInv' /\ [Advance]_vars
  OBVIOUS
<1>1. CASE Next
  BY <1>1, ClusterStep, ConnectionStep, SubmissionStep, JitoStep, IngestStep,
     WriteThroughStep, SweeperStep, ReconcileStep, RestartStep DEF Next
<1>2. CASE UNCHANGED vars
  BY <1>2 DEF vars, cluster, link, client, sweeper, IInv, TypeOK, RowsSound, Provenance,
              Known, KnownWrites
<1> QED BY <1>1, <1>2

LEMMA Invariance == Spec => []IInv
<1>1. IInv /\ [Next]_vars => IInv'
  BY Inductive
<1> QED BY <1>1, InitSound, PTL DEF Spec

(* Every variable keeps its type, for any instance.                        *)
THEOREM TypeCorrect == Spec => []TypeOK
<1>1. IInv => TypeOK
  BY DEF IInv
<1> QED BY <1>1, Invariance, PTL

(* The indices, the signature map and the pending records agree whatever   *)
(* the order of stream events, sweeps, reconcile marks, rejections, faults *)
(* and restarts (mark_*, forget, drain_le, hydrate).                       *)
THEOREM IndicesAlwaysConsistent == Spec => []IndicesConsistent
<1>1. IInv => IndicesConsistent
  BY DEF IInv, IndicesConsistent
<1> QED BY <1>1, Invariance, PTL

(* Between restarts a row's in-memory stage only moves forward, whichever  *)
(* task moves it.                                                          *)
THEOREM StagesAdvance == Spec => StagesOnlyAdvance
<1>1. IInv /\ [Next]_vars => [Advance]_vars
  BY Inductive
<1> QED BY <1>1, Invariance, PTL DEF Spec, StagesOnlyAdvance, Advance
=============================================================================
