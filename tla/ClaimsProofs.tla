----------------------------- MODULE ClaimsProofs -----------------------------
(***************************************************************************)
(* What the lifecycle tracker claims of a bundle, keeps for the sweep and  *)
(* hands to the agent: proofs of the safety invariants of                  *)
(* LifecycleProperties, and that the table implements Commitment.          *)
(***************************************************************************)
EXTENDS LifecycleProofs

-----------------------------------------------------------------------------
(* The writes that memory has decided on and the table has yet to see.     *)
Pending == spawned \cup Range(rec.writes)

LEMMA PendingTyped == ASSUME IInv PROVE Pending \subseteq Write
<1>1. Range(rec.writes) \in SUBSET Write
  BY RangeOfSeq DEF IInv, TypeOK
<1> QED BY <1>1 DEF Pending, IInv, TypeOK

LEMMA RangeOfNone == Range(<<>>) = {}
BY DEF Range

LEMMA RangeOfOne == ASSUME NEW w PROVE Range(<<w>>) = {w}
BY DEF Range

(* Taking the next of reconcile's writes.                                  *)
LEMMA NextWrite ==
  ASSUME IInv, rec.writes # <<>>
  PROVE  /\ Head(rec.writes) \in Range(rec.writes)
         /\ Range(Tail(rec.writes)) \subseteq Range(rec.writes)
<1> DEFINE s == rec.writes
<1>1. s \in Seq(Write) /\ s # <<>>
  BY DEF IInv, TypeOK
<1> HIDE DEF s
<1>2. Len(s) \in Nat \ {0} /\ Range(s) = {s[i] : i \in 1 .. Len(s)}
  BY <1>1, EmptySeq, RangeEquality
<1>3. /\ Tail(s) \in Seq(Write) /\ Len(Tail(s)) = Len(s) - 1
      /\ \A i \in 1 .. Len(Tail(s)) : Tail(s)[i] = s[i + 1]
  BY <1>1, HeadTailProperties
<1>4. Range(Tail(s)) = {Tail(s)[i] : i \in 1 .. Len(Tail(s))}
  BY <1>3, RangeEquality
<1>5. Head(s) = s[1]
  BY <1>1
<1> QED BY <1>2, <1>3, <1>4, <1>5 DEF s

-----------------------------------------------------------------------------
(* What each operation of TrackerState does to a pending record.           *)
Fields(m, rows, stage, slot, jito) ==
  \A b \in Bundles :
    /\ m.stage[b] = IF b \in rows THEN stage ELSE inner.stage[b]
    /\ m.slot[b] = IF b \in rows THEN slot ELSE inner.slot[b]
    /\ m.jito[b] = IF b \in rows THEN jito ELSE inner.jito[b]

LEMMA ForgetFields ==
  ASSUME IInv, NEW rows \in SUBSET Bundles
  PROVE  Fields(Forget(inner, rows), rows, "Untracked", NoSlot, NoVerdict)
BY DEF Fields, Forget, Stamp, IInv, TypeOK, Inner

LEMMA InsertFields ==
  ASSUME IInv, NEW b \in Bundles
  PROVE  Fields(Insert(inner, b), {b}, "Submitted", NoSlot, NoVerdict)
BY DEF Fields, Insert, Stamp, IInv, TypeOK, Inner

LEMMA ProcessedFields ==
  ASSUME IInv, NEW b \in Bundles, NEW s \in Slot
  PROVE  Fields(MarkProcessed(inner, b, s), {b}, "Processed", s, inner.jito[b])
BY DEF Fields, MarkProcessed, Stamp, IInv, TypeOK, Inner

(* The rows a Confirmed and a Finalized slot close are rows that landed at *)
(* or below it, each by the slot it is keyed at.                           *)
LEMMA DrainedLanded ==
  ASSUME IInv, NEW n \in Slot, NEW b \in Bundles
  PROVE  /\ b \in Drained(inner.confirmIdx, n) => inner.slot[b] \in 1 .. n
         /\ b \in Drained(inner.finalizeIdx, n) => inner.slot[b] \in 1 .. n
<1>1. Indexed(inner, b)
  BY DEF IInv, IndicesAgree
<1>2. \A s \in Slot : s <= n => s \in 1 .. n
  BY DEF Slot
<1> QED BY <1>1, <1>2 DEF Drained, Indexed

LEMMA ConfirmedEffect ==
  ASSUME IInv, NEW n \in Slot, IngestConfirmedSlot(n)
  PROVE  \E rows \in SUBSET Bundles :
           /\ \A b \in rows : inner.stage[b] = "Processed" /\ inner.slot[b] \in 1 .. n
           /\ \A b \in Bundles :
                inner'.stage[b] = IF b \in rows THEN "Confirmed" ELSE inner.stage[b]
           /\ inner'.slot = inner.slot /\ inner'.jito = inner.jito
           /\ spawned' = spawned \cup Marks("Confirmed", rows, NoSlot)
<1> DEFINE rows == Confirmable(inner, n)
           m == Observe(inner, n)
<1>1. inner \in Inner /\ Sound(inner) /\ n \in Nat
  BY DEF IInv, TypeOK, Sound, Slot
<1>2. /\ m \in Inner /\ m.stage = inner.stage /\ m.slot = inner.slot
      /\ m.jito = inner.jito /\ m.confirmIdx = inner.confirmIdx
  BY <1>1 DEF Observe, Later, Inner
<1>3. Confirmable(m, n) = rows
  BY <1>2 DEF Confirmable
<1>4. /\ inner' = MarkConfirmed([m EXCEPT !.confirmIdx = Undrained(@, n)], rows)
      /\ spawned' = spawned \cup Marks("Confirmed", rows, NoSlot)
  BY <1>3 DEF IngestConfirmedSlot, OnConfirmed
<1>5. rows \in SUBSET Bundles
      /\ \A b \in rows : inner.stage[b] = "Processed" /\ inner.slot[b] \in 1 .. n
  BY DrainedLanded DEF Confirmable, Drained
<1> HIDE DEF rows, m
<1>6. /\ inner'.stage = Stamp(m.stage, rows, "Confirmed")
      /\ inner'.slot = m.slot /\ inner'.jito = m.jito
  BY <1>2, <1>4 DEF MarkConfirmed, Inner
<1> QED BY <1>2, <1>4, <1>5, <1>6 DEF Stamp

LEMMA FinalizedEffect ==
  ASSUME IInv, NEW n \in Slot, IngestFinalizedSlot(n)
  PROVE  \E rows \in SUBSET Bundles :
           /\ \A b \in rows : /\ inner.stage[b] \in {"Processed", "Confirmed"}
                              /\ inner.slot[b] \in 1 .. n
           /\ Fields(inner', rows, "Untracked", NoSlot, NoVerdict)
           /\ spawned' = spawned \cup Marks("Finalized", rows, NoSlot)
<1> DEFINE rows == Finalizable(inner, n)
           m == Observe(inner, n)
           d == [m EXCEPT !.confirmIdx = Undrained(@, n),
                          !.finalizeIdx = Undrained(@, n)]
<1>1. inner \in Inner /\ n \in Nat
  BY DEF IInv, TypeOK, Slot
<1>2. /\ m \in Inner /\ m.stage = inner.stage /\ m.slot = inner.slot
      /\ m.jito = inner.jito /\ m.confirmIdx = inner.confirmIdx
      /\ m.finalizeIdx = inner.finalizeIdx
  BY <1>1 DEF Observe, Later, Inner
<1>3. Finalizable(m, n) = rows
  BY <1>2 DEF Finalizable
<1>4. inner' = Forget(d, rows) /\ spawned' = spawned \cup Marks("Finalized", rows, NoSlot)
  BY <1>3 DEF IngestFinalizedSlot, OnFinalized
<1>5. rows \in SUBSET Bundles
      /\ \A b \in rows : /\ inner.stage[b] \in {"Processed", "Confirmed"}
                         /\ inner.slot[b] \in 1 .. n
  BY DrainedLanded DEF Finalizable, Drained
<1>6. /\ d.stage = inner.stage /\ d.slot = inner.slot /\ d.jito = inner.jito
      /\ DOMAIN d = DOMAIN m
  BY <1>2 DEF Inner
<1> HIDE DEF rows, m, d
<1>7. /\ inner'.stage = Stamp(inner.stage, rows, "Untracked")
      /\ inner'.slot = Stamp(inner.slot, rows, NoSlot)
      /\ inner'.jito = Stamp(inner.jito, rows, NoVerdict)
  BY <1>2, <1>4, <1>6 DEF Forget, Inner
<1>8. Fields(inner', rows, "Untracked", NoSlot, NoVerdict)
  BY <1>7 DEF Fields, Stamp
<1> QED BY <1>4, <1>5, <1>8

(* The writes of the rows a slot closes.                                   *)
LEMMA MarksMembers ==
  ASSUME NEW rows \in SUBSET Bundles, NEW to, NEW s, NEW w \in Marks(to, rows, s)
  PROVE  w.row \in rows /\ w.to = to /\ w.slot = s /\ w.cause = "none"
BY DEF Marks

(* What the reconcile task makes of an answer without an error: memory     *)
(* moves on no further than the answer says, and the writes it queues are  *)
(* of that row and no further either.                                      *)
Reached(a, to) ==
  /\ to = "Confirmed" => a.level \in {"Confirmed", "Finalized"}
  /\ to = "Finalized" => a.level = "Finalized"

MarkedRow(b, a) ==
  /\ \A x \in Bundles \ {b} : /\ inner'.stage[x] = inner.stage[x]
                             /\ inner'.slot[x] = inner.slot[x]
                             /\ inner'.jito[x] = inner.jito[x]
  /\ inner'.stage[b] = inner.stage[b] \/ inner'.stage[b] \in MayBecome(inner.stage[b])
  /\ inner'.slot[b] \in {inner.slot[b], a.slot, NoSlot}
  /\ inner'.stage[b] # "Untracked" => inner'.jito[b] = inner.jito[b]
  /\ inner'.stage[b] = inner.stage[b] \/ Reached(a, inner'.stage[b])

MarkedWrite(w, b, a) ==
  /\ w.row = b /\ w.to \in Levels /\ w.slot \in {a.slot, NoSlot}
  /\ Reached(a, w.to)
  /\ w.to = "Finalized" => inner'.stage[b] = "Untracked"
  /\ inner.stage[b] # "Untracked" /\ inner'.stage[b] # "Submitted"

LEMMA IfMissedRange ==
  ASSUME NEW missed, NEW b, NEW to, NEW s, NEW w \in Range(IfMissed(missed, b, to, s))
  PROVE  missed /\ w.row = b /\ w.to = to /\ w.slot = s
<1> DEFINE v == [row |-> b, to |-> to, slot |-> s, cause |-> "none"]
<1>1. CASE missed
  <2>1. IfMissed(missed, b, to, s) = <<v>>
    BY <1>1 DEF IfMissed
  <2>2. w = v
    BY <2>1, RangeOfOne
  <2> QED BY <1>1, <2>2
<1>2. CASE ~missed
  BY <1>2, RangeOfNone DEF IfMissed
<1> QED BY <1>1, <1>2

LEMMA MarkedEffect ==
  ASSUME IInv, NEW b \in Bundles, ReconcileMarked(b)
  PROVE  LET a == rec.answer[b] IN
         /\ a # NoAnswer /\ ~a.err /\ rec.writes = <<>>
         /\ rec'.snap = rec.snap
         /\ rec'.answer = [rec.answer EXCEPT ![b] = NoAnswer]
         /\ MarkedRow(b, a)
         /\ \A w \in Range(rec'.writes) : MarkedWrite(w, b, a)
<1> DEFINE a == rec.answer[b]
           s == a.slot
           p == MissedProcessed(b)
           m1 == IF p THEN MarkProcessed(inner, b, s) ELSE inner
           c == MissedConfirmed(b, m1)
           m2 == IF c THEN MarkConfirmed(m1, {b}) ELSE m1
           f == MissedFinalized(b, m2)
           m3 == IF f THEN Forget(m2, {b}) ELSE m2
           w1 == IfMissed(p, b, "Processed", s)
           w2 == IfMissed(c, b, "Confirmed", NoSlot)
           w3 == IfMissed(f, b, "Finalized", NoSlot)
<1>1. a # NoAnswer /\ ~a.err /\ rec.writes = <<>> /\ b \in Known /\ s \in Slot /\ s # NoSlot
  BY DEF ReconcileMarked, Answers, IInv, Provenance, Slot, NoSlot
<1>2. /\ inner' = m3
      /\ rec' = [rec EXCEPT !.answer = [rec.answer EXCEPT ![b] = NoAnswer],
                            !.writes = w1 \o w2 \o w3]
  BY DEF ReconcileMarked
<1>3. w1 \in Seq(KnownWrites) /\ w2 \in Seq(KnownWrites) /\ w3 \in Seq(KnownWrites)
  BY <1>1, IfMissedTyped
<1>4. p => inner.stage[b] = "Submitted"
  BY DEF MissedProcessed
<1>5. c => a.level \in {"Confirmed", "Finalized"} /\ m1.stage[b] = "Processed"
  BY DEF MissedConfirmed
<1>6. f => a.level = "Finalized" /\ m2.stage[b] \in {"Processed", "Confirmed"}
  BY DEF MissedFinalized
<1>7. inner \in Inner /\ rec \in RecType
  BY DEF IInv, TypeOK, RecType
<1> HIDE DEF p, c, f, s
<1>8. /\ m1 \in Inner /\ m1.jito = inner.jito
      /\ m1.stage = IF p THEN Stamp(inner.stage, {b}, "Processed") ELSE inner.stage
      /\ m1.slot = IF p THEN Stamp(inner.slot, {b}, s) ELSE inner.slot
  <2>1. <<s, b>> \in Slot \X Bundles
    BY <1>1
  <2> QED BY <1>1, <1>7, <2>1 DEF MarkProcessed, Inner, Stamp, OpenStages
<1> HIDE DEF m1
<1>9. /\ m2 \in Inner /\ m2.jito = m1.jito /\ m2.slot = m1.slot
      /\ m2.stage = IF c THEN Stamp(m1.stage, {b}, "Confirmed") ELSE m1.stage
  BY <1>8 DEF MarkConfirmed, Inner, Stamp, OpenStages, AtOwnSlot
<1> HIDE DEF m2
<1>10. /\ m3.stage = IF f THEN Stamp(m2.stage, {b}, "Untracked") ELSE m2.stage
       /\ m3.slot = IF f THEN Stamp(m2.slot, {b}, NoSlot) ELSE m2.slot
       /\ m3.jito = IF f THEN Stamp(m2.jito, {b}, NoVerdict) ELSE m2.jito
  BY <1>9 DEF Forget, Inner
<1> HIDE DEF m3, w1, w2, w3
<1>11. inner.stage[b] \in OpenStages \cup {"Untracked"}
  BY <1>7 DEF Inner
<1>12. /\ rec'.snap = rec.snap /\ rec'.writes = w1 \o w2 \o w3
       /\ rec'.answer = [rec.answer EXCEPT ![b] = NoAnswer]
  BY <1>2, <1>7 DEF RecType
<1>13. MarkedRow(b, a)
  <2>1. \A x \in Bundles \ {b} : /\ m3.stage[x] = inner.stage[x]
                               /\ m3.slot[x] = inner.slot[x]
                               /\ m3.jito[x] = inner.jito[x]
    BY <1>7, <1>8, <1>9, <1>10 DEF Stamp, Inner
  <2>2. m3.slot[b] \in {inner.slot[b], s, NoSlot}
    BY <1>8, <1>9, <1>10 DEF Stamp
  <2>3. m3.stage[b] = inner.stage[b] \/ m3.stage[b] \in MayBecome(inner.stage[b])
    BY <1>4, <1>5, <1>6, <1>8, <1>9, <1>10, <1>11 DEF Stamp, MayBecome, OpenStages
  <2>4. m3.stage[b] # "Untracked" => m3.jito[b] = inner.jito[b]
    BY <1>8, <1>9, <1>10 DEF Stamp
  <2>5. m3.stage[b] = inner.stage[b] \/ Reached(a, m3.stage[b])
    BY <1>4, <1>5, <1>6, <1>8, <1>9, <1>10, <1>11 DEF Stamp, OpenStages, Reached
  <2> QED BY <1>2, <2>1, <2>2, <2>3, <2>4, <2>5 DEF MarkedRow, s
<1>14. ASSUME NEW w \in Range(rec'.writes) PROVE MarkedWrite(w, b, a)
  <2>1. w \in Range(w1) \cup Range(w2) \cup Range(w3)
    <3> DEFINE w12 == w1 \o w2
    <3>1. w12 \in Seq(KnownWrites)
      BY <1>3, ConcatProperties
    <3> HIDE DEF w12
    <3>a. Range(w12 \o w3) = Range(w12) \cup Range(w3)
      BY <1>3, <3>1, RangeConcatenation
    <3>2. Range(w1 \o w2 \o w3) = Range(w1 \o w2) \cup Range(w3)
      BY <3>a DEF w12
    <3>3. Range(w1 \o w2) = Range(w1) \cup Range(w2)
      BY <1>3, RangeConcatenation
    <3> QED BY <1>12, <1>14, <3>2, <3>3
  <2>2. CASE w \in Range(w1)
    <3>1. p /\ w.row = b /\ w.to = "Processed" /\ w.slot = s
      BY <2>2, IfMissedRange DEF w1
    <3> QED BY <1>2, <1>4, <1>8, <1>9, <1>10, <3>1 DEF MarkedWrite, Reached, Levels, Stamp, s
  <2>3. CASE w \in Range(w2)
    <3>1. c /\ w.row = b /\ w.to = "Confirmed" /\ w.slot = NoSlot
      BY <2>3, IfMissedRange DEF w2
    <3> QED BY <1>2, <1>4, <1>5, <1>8, <1>9, <1>10, <3>1 DEF MarkedWrite, Reached, Levels, Stamp
  <2>4. CASE w \in Range(w3)
    <3>1. f /\ w.row = b /\ w.to = "Finalized" /\ w.slot = NoSlot
      BY <2>4, IfMissedRange DEF w3
    <3> QED BY <1>2, <1>4, <1>5, <1>6, <1>8, <1>9, <1>10, <3>1
            DEF MarkedWrite, Reached, Levels, Stamp
  <2> QED BY <2>1, <2>2, <2>3, <2>4
<1> QED BY <1>1, <1>12, <1>13, <1>14

(* An UPDATE touches its own row, by what Apply makes of it.               *)
LEMMA PersistEffect ==
  ASSUME IInv, NEW w \in Write, Persist(w)
  PROVE  /\ w.row \in Bundles
         /\ db'[w.row].status = w.to
         /\ db'[w.row].landed = IF w.slot = NoSlot THEN db[w.row].landed ELSE w.slot
         /\ db'[w.row].cause = IF w.to = "Failed" THEN w.cause ELSE db[w.row].cause
         /\ db'[w.row].jito = db[w.row].jito
         /\ \A b \in Bundles : b # w.row => db'[b] = db[b]
<1>1. w.row \in Bundles
  BY DEF Write
<1>2. db' = [db EXCEPT ![w.row] = Apply(db[w.row], w)] /\ db \in [Bundles -> Row]
  BY DEF Persist, IInv, TypeOK
<1> QED BY <1>1, <1>2 DEF Apply

(* hydrate: memory is what the open rows say.                              *)
LEMMA HydratedEffect ==
  ASSUME IInv, Restart
  PROVE  \A b \in Bundles :
           /\ db[b].status \in OpenStages
                => /\ inner'.stage[b] = db[b].status
                   /\ inner'.slot[b] = db[b].landed
                   /\ inner'.jito[b] = db[b].jito
           /\ db[b].status \notin OpenStages
                => inner'.stage[b] = "Untracked" /\ inner'.slot[b] = NoSlot
<1>1. PICK n \in Seen : inner' = Hydrated(n)
  BY DEF Restart
<1> QED BY <1>1 DEF Hydrated, OpenRows

(* Between restarts every step moves the stages forward.                   *)
LEMMA Forward == ASSUME IInv, [Next]_vars, ~Restart PROVE \A b \in Bundles : StageStep(b)
<1>1. CASE Advance
  BY <1>1 DEF Advance
<1>2. CASE UNCHANGED vars
  BY <1>2 DEF vars, StageStep
<1> QED BY <1>1, <1>2, Inductive

(* A submitting task is early until the row it inserted is tracked, and    *)
(* never comes back to that.                                               *)
Early == {"new", "sent", "inserted"}

LEMMA OnceTracked ==
  ASSUME IInv, [Next]_vars
  PROVE  \A b \in Bundles : /\ phase[b] \notin Early => phase'[b] \notin Early
                            /\ phase[b] = "done" => phase'[b] = "done"
<1> USE DEF client, cluster, link, sweeper, Early
<1>0. phase \in [Bundles -> Phases]
  BY DEF IInv, TypeOK
<1>1. CASE Submission
  BY <1>0, <1>1 DEF Submission, Send, InsertRow, InsertRowFails, Track, RecordRejection,
                    PersistRejection, PersistRejectionFails
<1>2. CASE Restart
  BY <1>2 DEF Restart
<1>3. CASE Cluster \/ Connection \/ JitoPollers
  BY <1>3 DEF Cluster, AdvanceHead, ConfirmSlots, FinalizeSlots, Land, Fork, Connection,
              Disconnect, Reconnect, JitoPollers, RecordJito, PersistJito, PersistJitoFails
<1>4. CASE Ingest \/ WriteThrough \/ Sweeper
  BY <1>4 DEF Ingest, IngestProcessedSlot, IngestConfirmedSlot, IngestFinalizedSlot, IngestTx,
              WriteThrough, PersistSpawned, LoseSpawned, Sweeper, CheckTimeouts,
              PersistTimeout, PersistTimeoutFails
<1>5. CASE Reconcile
  BY <1>5 DEF Reconcile, ReconcileSelect, ReconcileAnswered, ReconcileUnparsable,
              ReconcileRpcFails, ReconcileErrored, ReconcileMarked, ReconcilePersist,
              ReconcilePersistFails, ReconcileDone
<1>6. CASE UNCHANGED vars
  BY <1>6 DEF vars
<1> QED BY <1>1, <1>2, <1>3, <1>4, <1>5, <1>6 DEF Next

-----------------------------------------------------------------------------
(* Verdicts: what the poller is about to write to the row, memory has      *)
(* already; and no verdict is there before the row is tracked.             *)
VerdictsHeard ==
  /\ VerdictsReachMemory
  /\ \A b \in Bundles : inner.stage[b] # "Untracked" /\ polled[b] \in Verdicts
                           => inner.jito[b] # NoVerdict
  /\ \A b \in Bundles : phase[b] \in Early => polled[b] = "off" /\ db[b].jito = NoVerdict

(* Steps that leave the verdicts as they are and track no new row.         *)
LEMMA VerdictsKept ==
  ASSUME IInv, VerdictsHeard, [Next]_vars, polled' = polled,
         \A b \in Bundles : db'[b].jito = db[b].jito,
         \A b \in Bundles : inner'.stage[b] # "Untracked"
            => inner.stage[b] # "Untracked" /\ inner'.jito[b] = inner.jito[b]
  PROVE  VerdictsHeard'
BY OnceTracked DEF VerdictsHeard, VerdictsReachMemory

LEMMA PersistKeepsVerdicts ==
  ASSUME IInv, NEW w \in Write, Persist(w)
  PROVE  \A b \in Bundles : db'[b].jito = db[b].jito
BY PersistEffect

LEMMA SubmissionVerdicts ==
  ASSUME IInv, VerdictsHeard, [Next]_vars, Submission
  PROVE  VerdictsHeard'
<1> USE DEF client, cluster, link, sweeper
<1> SUFFICES ASSUME NEW b \in Bundles,
                    \/ Send(b) \/ InsertRow(b) \/ InsertRowFails(b) \/ Track(b)
                    \/ RecordRejection(b) \/ PersistRejection(b)
                    \/ PersistRejectionFails(b)
             PROVE VerdictsHeard'
  BY DEF Submission
<1>0. /\ phase \in [Bundles -> Phases] /\ db \in [Bundles -> Row]
      /\ polled \in [Bundles -> Verdicts \cup {"off", "idle"}]
  BY DEF IInv, TypeOK
<1>1. CASE Send(b) \/ InsertRowFails(b) \/ PersistRejectionFails(b)
  BY <1>1, VerdictsKept DEF Send, InsertRowFails, PersistRejectionFails
<1>2. CASE InsertRow(b)
  <2>1. \A x \in Bundles : db'[x].jito = IF x = b THEN NoVerdict ELSE db[x].jito
    BY <1>0, <1>2 DEF InsertRow, NewRow
  <2>2. db[b].jito = NoVerdict
    BY <1>2 DEF InsertRow, VerdictsHeard, Early
  <2> QED BY <1>2, <2>1, <2>2, VerdictsKept DEF InsertRow
<1>3. CASE Track(b)
  <2>1. db[b].jito = NoVerdict /\ polled[b] = "off" /\ phase[b] = "inserted"
    BY <1>3 DEF Track, VerdictsHeard, Early
  <2>2. Fields(inner', {b}, "Submitted", NoSlot, NoVerdict)
    BY <1>3, InsertFields DEF Track
  <2>3. polled'[b] \notin Verdicts /\ \A x \in Bundles : x # b => polled'[x] = polled[x]
    BY <1>0, <1>3, <2>1, LifecycleAssumption DEF Track
  <2>4. phase'[b] \notin Early /\ \A x \in Bundles : x # b => phase'[x] = phase[x]
    BY <1>0, <1>3 DEF Track, Early
  <2>5. db' = db
    BY <1>3 DEF Track
  <2> QED BY <2>1, <2>2, <2>3, <2>4, <2>5 DEF VerdictsHeard, VerdictsReachMemory, Fields
<1>4. CASE RecordRejection(b)
  <2>1. Fields(inner', {b}, "Untracked", NoSlot, NoVerdict)
    BY <1>4, ForgetFields DEF RecordRejection
  <2> QED BY <1>4, <2>1, VerdictsKept DEF RecordRejection, Fields
<1>5. CASE PersistRejection(b)
  BY <1>5, FailedWriteTyped, PersistKeepsVerdicts, VerdictsKept DEF PersistRejection, Causes
<1> QED BY <1>1, <1>2, <1>3, <1>4, <1>5

LEMMA JitoVerdicts ==
  ASSUME IInv, VerdictsHeard, [Next]_vars, JitoPollers
  PROVE  VerdictsHeard'
<1> USE DEF client
<1> SUFFICES ASSUME NEW b \in Bundles,
                    \/ \E v \in Verdicts : RecordJito(b, v)
                    \/ PersistJito(b) \/ PersistJitoFails(b)
             PROVE VerdictsHeard'
  BY DEF JitoPollers
<1>0. /\ polled \in [Bundles -> Verdicts \cup {"off", "idle"}] /\ db \in [Bundles -> Row]
      /\ inner \in Inner
  BY DEF IInv, TypeOK
<1>1. ASSUME NEW v \in Verdicts, RecordJito(b, v) PROVE VerdictsHeard'
  <2>1. polled[b] = "idle" /\ phase[b] \notin Early /\ phase' = phase /\ db' = db
    BY <1>1 DEF RecordJito, VerdictsHeard
  <2>2. v # NoVerdict /\ \A x \in Bundles : x # b => polled'[x] = polled[x]
    BY <1>0, <1>1, LifecycleAssumption DEF RecordJito
  <2>3. \A x \in Bundles : /\ inner'.stage[x] = inner.stage[x]
                           /\ x # b => inner'.jito[x] = inner.jito[x]
                           /\ x = b /\ inner.stage[x] # "Untracked" => inner'.jito[x] = v
    BY <1>0, <1>1 DEF RecordJito, Inner, Stamp
  <2> QED BY <2>1, <2>2, <2>3 DEF VerdictsHeard, VerdictsReachMemory
<1>2. CASE PersistJito(b)
  <2>1. phase[b] \notin Early /\ phase' = phase /\ inner' = inner /\ polled[b] \in Verdicts
    BY <1>2, LifecycleAssumption DEF PersistJito, VerdictsHeard
  <2>2. db'[b].jito = polled[b] /\ \A x \in Bundles : x # b => db'[x] = db[x]
    <3>1. db' = [db EXCEPT ![b] = [db[b] EXCEPT !.jito = polled[b]]] /\ db[b] \in Row
      BY <1>0, <1>2 DEF PersistJito
    <3> QED BY <1>0, <3>1 DEF Row
  <2>3. polled'[b] \notin Verdicts /\ \A x \in Bundles : x # b => polled'[x] = polled[x]
    BY <1>0, <1>2, LifecycleAssumption DEF PersistJito
  <2> QED BY <2>1, <2>2, <2>3 DEF VerdictsHeard, VerdictsReachMemory
<1>3. CASE PersistJitoFails(b)
  <2>1. phase[b] \notin Early /\ phase' = phase /\ inner' = inner /\ db' = db
    BY <1>3, LifecycleAssumption DEF PersistJitoFails, VerdictsHeard
  <2>2. polled'[b] \notin Verdicts /\ \A x \in Bundles : x # b => polled'[x] = polled[x]
    BY <1>0, <1>3, LifecycleAssumption DEF PersistJitoFails
  <2> QED BY <2>1, <2>2 DEF VerdictsHeard, VerdictsReachMemory
<1> QED BY <1>1, <1>2, <1>3

LEMMA IngestVerdicts ==
  ASSUME IInv, VerdictsHeard, [Next]_vars, Ingest
  PROVE  VerdictsHeard'
<1>1. ASSUME NEW n \in Slot, IngestProcessedSlot(n) PROVE VerdictsHeard'
  <2>1. inner'.stage = inner.stage /\ inner'.jito = inner.jito
    BY <1>1 DEF IngestProcessedSlot, Observe, IInv, TypeOK, Inner
  <2> QED BY <1>1, <2>1, VerdictsKept DEF IngestProcessedSlot
<1>2. ASSUME NEW n \in Slot, IngestConfirmedSlot(n) PROVE VerdictsHeard'
  BY <1>2, ConfirmedEffect, VerdictsKept DEF IngestConfirmedSlot
<1>3. ASSUME NEW n \in Slot, IngestFinalizedSlot(n) PROVE VerdictsHeard'
  BY <1>3, FinalizedEffect, VerdictsKept DEF IngestFinalizedSlot, Fields
<1>4. ASSUME NEW b \in Bundles, IngestTx(b) PROVE VerdictsHeard'
  <2>1. CASE LandsNow(b)
    <3>1. Fields(inner', {b}, "Processed", landed[b], inner.jito[b])
      BY <1>4, <2>1, ProcessedFields DEF LandsNow, IngestTx, IInv, TypeOK
    <3>2. inner.stage[b] = "Submitted"
      BY <2>1 DEF LandsNow
    <3> QED BY <1>4, <3>1, <3>2, VerdictsKept DEF IngestTx, Fields
  <2>2. CASE FailsNow(b)
    <3>1. Fields(inner', {b}, "Untracked", NoSlot, NoVerdict)
      BY <2>2, ForgetFields DEF FailsNow
    <3> QED BY <1>4, <3>1, VerdictsKept DEF IngestTx, Fields
  <2>3. CASE Ignored(b)
    BY <1>4, <2>3, VerdictsKept DEF IngestTx, Ignored
  <2> QED BY <1>4, <2>1, <2>2, <2>3 DEF IngestTx
<1> QED BY <1>1, <1>2, <1>3, <1>4 DEF Ingest

LEMMA TaskVerdicts ==
  ASSUME IInv, VerdictsHeard, [Next]_vars, WriteThrough \/ Sweeper \/ Reconcile
  PROVE  VerdictsHeard'
<1> USE DEF client, cluster, link, sweeper
<1>0. Pending \subseteq Write
  BY PendingTyped
<1>1. ASSUME NEW w \in spawned, PersistSpawned(w) \/ LoseSpawned(w) PROVE VerdictsHeard'
  BY <1>0, <1>1, PersistKeepsVerdicts, VerdictsKept DEF PersistSpawned, LoseSpawned, Pending
<1>2. CASE CheckTimeouts
  <2>1. \E ids \in SUBSET Bundles : Fields(inner', ids, "Untracked", NoSlot, NoVerdict)
    BY <1>2, ForgetFields DEF CheckTimeouts, TimedOut
  <2> QED BY <1>2, <2>1, VerdictsKept DEF CheckTimeouts, Fields
<1>3. ASSUME NEW b \in Bundles, PersistTimeout(b) PROVE VerdictsHeard'
  BY <1>3, FailedWriteTyped, PersistKeepsVerdicts, VerdictsKept DEF PersistTimeout, Causes
<1>4. CASE PersistTimeoutFails
  BY <1>4, VerdictsKept DEF PersistTimeoutFails
<1>5. CASE \/ ReconcileSelect \/ ReconcileAnswered \/ ReconcileUnparsable
           \/ ReconcileRpcFails \/ ReconcilePersistFails \/ ReconcileDone
  BY <1>5, VerdictsKept
     DEF ReconcileSelect, ReconcileAnswered, ReconcileUnparsable, ReconcileRpcFails,
         ReconcilePersistFails, ReconcileDone
<1>6. ASSUME NEW b \in Bundles, ReconcileErrored(b) PROVE VerdictsHeard'
  <2>1. Fields(inner', {b}, "Untracked", NoSlot, NoVerdict)
    BY <1>6, ForgetFields DEF ReconcileErrored
  <2> QED BY <1>6, <2>1, VerdictsKept DEF ReconcileErrored, Fields
<1>7. ASSUME NEW b \in Bundles, ReconcileMarked(b) PROVE VerdictsHeard'
  <2>1. \A x \in Bundles : inner'.stage[x] # "Untracked"
          => inner.stage[x] # "Untracked" /\ inner'.jito[x] = inner.jito[x]
    BY <1>7, MarkedEffect DEF MarkedRow, MayBecome
  <2>2. polled' = polled /\ db' = db
    BY <1>7 DEF ReconcileMarked
  <2> QED BY <2>1, <2>2, VerdictsKept
<1>8. CASE ReconcilePersist
  BY <1>0, <1>8, NextWrite, PersistKeepsVerdicts, VerdictsKept DEF ReconcilePersist, Pending
<1> QED BY <1>1, <1>2, <1>3, <1>4, <1>5, <1>6, <1>7, <1>8 DEF WriteThrough, Sweeper, Reconcile

LEMMA StepVerdicts == IInv /\ VerdictsHeard /\ [Next]_vars => VerdictsHeard'
<1> SUFFICES ASSUME IInv, VerdictsHeard, [Next]_vars PROVE VerdictsHeard'
  OBVIOUS
<1> USE DEF client, cluster, link, sweeper
<1>1. CASE Cluster \/ Connection
  BY <1>1, VerdictsKept
     DEF Cluster, AdvanceHead, ConfirmSlots, FinalizeSlots, Land, Fork, Connection,
         Disconnect, Reconnect
<1>2. CASE Restart
  <2>1. polled' = [b \in Bundles |-> "off"] /\ db' = db
    BY <1>2 DEF Restart
  <2>2. \A b \in Bundles : phase'[b] \in Early => phase[b] \in Early
    BY OnceTracked
  <2>3. \A b \in Bundles : inner'.stage[b] # "Untracked" => inner'.jito[b] = db[b].jito
    BY <1>2, HydratedEffect
  <2>4. \A b \in Bundles : polled'[b] \notin Verdicts
    BY <2>1, LifecycleAssumption
  <2> QED BY <2>1, <2>2, <2>3, <2>4 DEF VerdictsHeard, VerdictsReachMemory
<1>3. CASE UNCHANGED vars
  BY <1>3, VerdictsKept DEF vars
<1> QED BY <1>1, <1>2, <1>3, SubmissionVerdicts, JitoVerdicts, IngestVerdicts, TaskVerdicts
        DEF Next

(* A verdict the agent would read from a tracked row is one the sweep      *)
(* classifies by, for every number of bundles, faults and restarts         *)
(* (record_jito_status, hydrate).                                          *)
THEOREM VerdictsAlwaysReachMemory == Spec => []VerdictsReachMemory
<1>1. Init => VerdictsHeard
  BY DEF Init, EmptyInner, NewRow, VerdictsHeard, VerdictsReachMemory
<1>2. VerdictsHeard => VerdictsReachMemory
  BY DEF VerdictsHeard
<1> QED BY <1>1, <1>2, Invariance, StepVerdicts, PTL DEF Spec

-----------------------------------------------------------------------------
(* Handing rows to the agent: a row the sweeper took is out of memory for  *)
(* good, and no write on its way would open it again. That is so because a *)
(* row is still Submitted when it times out, and only a row that memory    *)
(* has moved past Submitted has a write other than a failed one pending.   *)
Dead(b) ==
  /\ inner.stage[b] = "Untracked" /\ phase[b] \notin Early
  /\ \A w \in Pending : w.row = b => w.to = "Failed"

WritesFollowMarks ==
  \A w \in Pending : w.to # "Failed"
     => inner.stage[w.row] # "Submitted" /\ phase[w.row] \notin Early

HandedOver ==
  /\ WritesFollowMarks
  /\ \A b \in sweep.ids \cup retried : Dead(b)
  /\ sweep.todo \subseteq sweep.ids
  /\ \A b \in (sweep.ids \ sweep.todo) \cup retried : db[b].status = "Failed"

(* The writes a step may add.                                              *)
NewWritesMarked ==
  \A w \in Pending' : \/ w \in Pending
                      \/ w.to = "Failed"
                      \/ /\ inner.stage[w.row] # "Untracked"
                         /\ inner'.stage[w.row] # "Submitted"

(* Steps that fail what is dead leave it so.                               *)
FailedStayFailed ==
  \A b \in Bundles : Dead(b) /\ db[b].status = "Failed" => db'[b].status = "Failed"

LEMMA PendingTypedNext == ASSUME IInv, [Next]_vars PROVE Pending' \subseteq Write
<1>1. IInv'
  BY Inductive
<1>2. Range(rec'.writes) \in SUBSET Write
  BY <1>1, RangeOfSeq DEF IInv, TypeOK
<1> QED BY <1>1, <1>2 DEF Pending, IInv, TypeOK

LEMMA WritesStillFollow ==
  ASSUME IInv, WritesFollowMarks, [Next]_vars, ~Restart, NewWritesMarked
  PROVE  WritesFollowMarks'
<1> SUFFICES ASSUME NEW w \in Pending', w.to # "Failed"
             PROVE  inner'.stage[w.row] # "Submitted" /\ phase'[w.row] \notin Early
  BY DEF WritesFollowMarks
<1>1. w.row \in Bundles
  BY PendingTypedNext DEF Write
<1>2. StageStep(w.row)
  BY <1>1, Forward
<1>3. CASE w \in Pending
  <2>1. inner.stage[w.row] # "Submitted" /\ phase[w.row] \notin Early
    BY <1>3 DEF WritesFollowMarks
  <2> QED BY <1>1, <1>2, <2>1, OnceTracked DEF StageStep, MayBecome, Early
<1>4. CASE inner.stage[w.row] # "Untracked" /\ inner'.stage[w.row] # "Submitted"
  BY <1>1, <1>4, OnceTracked DEF IInv, Provenance, Early
<1> QED BY <1>3, <1>4 DEF NewWritesMarked

LEMMA DeadStays ==
  ASSUME IInv, [Next]_vars, ~Restart, NewWritesMarked, NEW b \in Bundles, Dead(b)
  PROVE  Dead(b)'
<1>1. phase'[b] \notin Early
  BY OnceTracked DEF Dead
<1>2. inner'.stage[b] = "Untracked"
  BY Forward DEF Dead, StageStep, MayBecome, Early
<1>3. \A w \in Pending' : w.row = b => w.to = "Failed"
  BY DEF Dead, NewWritesMarked
<1> QED BY <1>1, <1>2, <1>3 DEF Dead

LEMMA HandedKept ==
  ASSUME IInv, HandedOver, [Next]_vars, ~Restart, NewWritesMarked, FailedStayFailed,
         sweep' = sweep, retried' = retried
  PROVE  HandedOver'
<1>1. sweep.ids \cup retried \subseteq Bundles
  BY DEF IInv, TypeOK
<1> QED BY <1>1, WritesStillFollow, DeadStays DEF HandedOver, FailedStayFailed

(* A pending write fails the dead row it is about; so does any other.      *)
LEMMA PersistKeepsFailed ==
  ASSUME IInv, NEW w \in Write, Persist(w), w \in Pending \/ w.to = "Failed"
  PROVE  FailedStayFailed
BY PersistEffect DEF FailedStayFailed, Dead

LEMMA SubmissionHanded ==
  ASSUME IInv, HandedOver, [Next]_vars, ~Restart, Submission
  PROVE  HandedOver'
<1> USE DEF sweeper
<1> SUFFICES ASSUME NEW b \in Bundles,
                    \/ Send(b) \/ InsertRow(b) \/ InsertRowFails(b) \/ Track(b)
                    \/ RecordRejection(b) \/ PersistRejection(b)
                    \/ PersistRejectionFails(b)
             PROVE HandedOver'
  BY DEF Submission
<1>1. /\ spawned' = spawned /\ rec' = rec /\ sweep' = sweep /\ retried' = retried
  BY DEF Send, InsertRow, InsertRowFails, Track, RecordRejection, PersistRejection,
         PersistRejectionFails
<1>2. NewWritesMarked
  BY <1>1 DEF NewWritesMarked, Pending
<1>3. CASE InsertRow(b)
  <2>1. ~Dead(b)
    BY <1>3 DEF InsertRow, Dead, Early
  <2>2. FailedStayFailed
    BY <1>3, <2>1 DEF InsertRow, FailedStayFailed, IInv, TypeOK
  <2> QED BY <1>1, <1>2, <2>2, HandedKept
<1>4. CASE PersistRejection(b)
  <2>1. FailedStayFailed
    BY <1>4, FailedWriteTyped, PersistKeepsFailed DEF PersistRejection, Causes, FailedWrite
  <2> QED BY <1>1, <1>2, <2>1, HandedKept
<1>5. CASE db' = db
  BY <1>1, <1>2, <1>5, HandedKept DEF FailedStayFailed
<1> QED BY <1>3, <1>4, <1>5
        DEF Send, InsertRowFails, Track, RecordRejection, PersistRejectionFails

LEMMA IngestHanded ==
  ASSUME IInv, HandedOver, [Next]_vars, ~Restart, Ingest
  PROVE  HandedOver'
<1> USE DEF sweeper
<1>1. rec' = rec /\ db' = db /\ sweep' = sweep /\ retried' = retried
  BY DEF Ingest, IngestProcessedSlot, IngestConfirmedSlot, IngestFinalizedSlot, IngestTx
<1>2. ASSUME NEW n \in Slot, IngestProcessedSlot(n) PROVE NewWritesMarked
  BY <1>1, <1>2 DEF IngestProcessedSlot, NewWritesMarked, Pending
<1>3. ASSUME NEW n \in Slot, IngestConfirmedSlot(n) PROVE NewWritesMarked
  BY <1>1, <1>3, ConfirmedEffect, MarksMembers DEF NewWritesMarked, Pending
<1>4. ASSUME NEW n \in Slot, IngestFinalizedSlot(n) PROVE NewWritesMarked
  BY <1>1, <1>4, FinalizedEffect, MarksMembers DEF NewWritesMarked, Pending, Fields
<1>5. ASSUME NEW b \in Bundles, IngestTx(b) PROVE NewWritesMarked
  <2>1. CASE LandsNow(b)
    <3>1. Fields(inner', {b}, "Processed", landed[b], inner.jito[b])
      BY <1>5, <2>1, ProcessedFields DEF LandsNow, IngestTx, IInv, TypeOK
    <3>2. \A w \in spawned' : w \in spawned \/ w.row = b
      BY <2>1, MarksMembers DEF LandsNow
    <3>3. inner.stage[b] # "Untracked" /\ inner'.stage[b] # "Submitted"
      BY <2>1, <3>1 DEF LandsNow, Fields
    <3> QED BY <1>1, <3>2, <3>3 DEF NewWritesMarked, Pending
  <2>2. CASE FailsNow(b)
    <3>1. FailedWrite(b, landed[b], "OnChain").to = "Failed"
      BY DEF FailedWrite
    <3> QED BY <1>1, <2>2, <3>1 DEF FailsNow, NewWritesMarked, Pending
  <2>3. CASE Ignored(b)
    BY <1>1, <2>3 DEF Ignored, NewWritesMarked, Pending
  <2> QED BY <1>5, <2>1, <2>2, <2>3 DEF IngestTx
<1>6. NewWritesMarked
  BY <1>2, <1>3, <1>4, <1>5 DEF Ingest
<1> QED BY <1>1, <1>6, HandedKept DEF FailedStayFailed

LEMMA WriteThroughHanded ==
  ASSUME IInv, HandedOver, [Next]_vars, ~Restart, WriteThrough
  PROVE  HandedOver'
<1> USE DEF sweeper
<1> SUFFICES ASSUME NEW w \in spawned, PersistSpawned(w) \/ LoseSpawned(w)
             PROVE  HandedOver'
  BY DEF WriteThrough
<1>1. rec' = rec /\ spawned' \subseteq spawned /\ sweep' = sweep /\ retried' = retried
  BY DEF PersistSpawned, LoseSpawned
<1>2. NewWritesMarked
  BY <1>1 DEF NewWritesMarked, Pending
<1>3. w \in Write /\ w \in Pending
  BY PendingTyped DEF Pending
<1>4. FailedStayFailed
  BY <1>3, PersistKeepsFailed DEF PersistSpawned, LoseSpawned, FailedStayFailed
<1> QED BY <1>1, <1>2, <1>4, HandedKept

LEMMA SweeperHanded ==
  ASSUME IInv, HandedOver, [Next]_vars, ~Restart, Sweeper
  PROVE  HandedOver'
<1>0. /\ sweep.ids \cup retried \subseteq Bundles
      /\ sweep \in [todo : SUBSET Bundles, ids : SUBSET Bundles]
  BY DEF IInv, TypeOK
<1>1. rec' = rec /\ spawned' = spawned
  BY DEF Sweeper, CheckTimeouts, PersistTimeout, PersistTimeoutFails
<1>2. NewWritesMarked
  BY <1>1 DEF NewWritesMarked, Pending
<1>3. WritesFollowMarks' /\ \A b \in sweep.ids \cup retried : Dead(b)'
  BY <1>0, <1>2, WritesStillFollow, DeadStays DEF HandedOver
<1>4. CASE CheckTimeouts
  <2> DEFINE ids == TimedOut(inner, base, TimeoutSlots)
  <2>1. ids \in SUBSET Bundles /\ \A b \in ids : inner.stage[b] = "Submitted"
    BY DEF TimedOut
  <2> HIDE DEF ids
  <2>2. /\ inner' = Forget(inner, ids) /\ sweep' = [todo |-> ids, ids |-> ids]
        /\ retried' = retried /\ db' = db
    BY <1>4 DEF CheckTimeouts, ids
  <2>3. ASSUME NEW b \in ids PROVE Dead(b)'
    <3>1. inner'.stage[b] = "Untracked"
      BY <2>1, <2>2, ForgetFields DEF Fields
    <3>2. phase'[b] \notin Early
      BY <2>1, OnceTracked DEF IInv, Provenance, Early
    <3>3. \A w \in Pending' : w.row = b => w.to = "Failed"
      BY <1>1, <2>1 DEF HandedOver, WritesFollowMarks, Pending
    <3> QED BY <3>1, <3>2, <3>3 DEF Dead
  <2> QED BY <1>3, <2>2, <2>3 DEF HandedOver
<1>5. ASSUME NEW b \in Bundles, PersistTimeout(b) PROVE HandedOver'
  <2>1. b \in sweep.todo /\ Persist(FailedWrite(b, NoSlot, "NeverLanded"))
    BY <1>5 DEF PersistTimeout
  <2>2. db'[b].status = "Failed" /\ \A x \in Bundles : x # b => db'[x] = db[x]
    <3> DEFINE w == FailedWrite(b, NoSlot, "NeverLanded")
    <3>1. w \in Write /\ w.row = b /\ w.to = "Failed"
      BY FailedWriteTyped DEF Causes, FailedWrite
    <3> HIDE DEF w
    <3>2. Persist(w)
      BY <2>1 DEF w
    <3> QED BY <3>1, <3>2, PersistEffect
  <2>3. CASE sweep.todo = {b}
    BY <1>0, <1>3, <1>5, <2>2, <2>3 DEF PersistTimeout, HandedOver
  <2>4. CASE sweep.todo # {b}
    <3>1. /\ sweep'.todo = sweep.todo \ {b} /\ sweep'.ids = sweep.ids /\ retried' = retried
      BY <1>0, <1>5, <2>4 DEF PersistTimeout
    <3> QED BY <1>0, <1>3, <2>2, <3>1 DEF HandedOver
  <2> QED BY <2>3, <2>4
<1>6. CASE PersistTimeoutFails
  BY <1>3, <1>6 DEF PersistTimeoutFails, HandedOver
<1> QED BY <1>4, <1>5, <1>6 DEF Sweeper

LEMMA ReconcileHanded ==
  ASSUME IInv, HandedOver, [Next]_vars, ~Restart, Reconcile
  PROVE  HandedOver'
<1> USE DEF sweeper
<1>0. spawned' = spawned /\ sweep' = sweep /\ retried' = retried
  BY DEF Reconcile, ReconcileSelect, ReconcileAnswered, ReconcileUnparsable,
         ReconcileRpcFails, ReconcileErrored, ReconcileMarked, ReconcilePersist,
         ReconcilePersistFails, ReconcileDone
<1>t. rec \in RecType
  BY DEF IInv, TypeOK, RecType
<1>1. CASE \/ ReconcileUnparsable \/ ReconcileRpcFails \/ ReconcilePersistFails
           \/ ReconcileDone
  <2>1. rec'.writes = <<>> /\ db' = db
    BY <1>1 DEF ReconcileUnparsable, ReconcileRpcFails, ReconcilePersistFails,
                ReconcileDone, IdleRec
  <2>2. NewWritesMarked
    BY <1>0, <2>1, RangeOfNone DEF NewWritesMarked, Pending
  <2> QED BY <1>0, <2>1, <2>2, HandedKept DEF FailedStayFailed
<1>2. CASE ReconcileSelect \/ ReconcileAnswered
  <2>1. rec'.writes = rec.writes /\ db' = db
    BY <1>t, <1>2 DEF ReconcileSelect, ReconcileAnswered, RecType
  <2>2. NewWritesMarked
    BY <1>0, <2>1 DEF NewWritesMarked, Pending
  <2> QED BY <1>0, <2>1, <2>2, HandedKept DEF FailedStayFailed
<1>3. ASSUME NEW b \in Bundles, ReconcileErrored(b) PROVE HandedOver'
  <2>1. rec'.writes = <<FailedWrite(b, rec.answer[b].slot, "OnChain")>> /\ db' = db
    BY <1>t, <1>3 DEF ReconcileErrored, RecType
  <2>2. NewWritesMarked
    BY <1>0, <2>1, RangeOfOne DEF NewWritesMarked, Pending, FailedWrite
  <2> QED BY <1>0, <2>1, <2>2, HandedKept DEF FailedStayFailed
<1>4. ASSUME NEW b \in Bundles, ReconcileMarked(b) PROVE HandedOver'
  <2>1. db' = db
    BY <1>4 DEF ReconcileMarked
  <2>2. NewWritesMarked
    BY <1>0, <1>4, MarkedEffect DEF NewWritesMarked, Pending, MarkedWrite
  <2> QED BY <1>0, <2>1, <2>2, HandedKept DEF FailedStayFailed
<1>5. CASE ReconcilePersist
  <2>1. /\ rec.writes # <<>> /\ Persist(Head(rec.writes))
        /\ rec'.writes = Tail(rec.writes)
    BY <1>t, <1>5 DEF ReconcilePersist, RecType
  <2>2. NewWritesMarked
    BY <1>0, <2>1, NextWrite DEF NewWritesMarked, Pending
  <2>3. Head(rec.writes) \in Pending
    BY <2>1, NextWrite DEF Pending
  <2>4. FailedStayFailed
    BY <2>1, <2>3, PendingTyped, PersistKeepsFailed
  <2> QED BY <1>0, <2>2, <2>4, HandedKept
<1> QED BY <1>1, <1>2, <1>3, <1>4, <1>5 DEF Reconcile

LEMMA StepHanded == IInv /\ HandedOver /\ [Next]_vars => HandedOver'
<1> SUFFICES ASSUME IInv, HandedOver, [Next]_vars PROVE HandedOver'
  OBVIOUS
<1>1. CASE Restart
  <2>1. /\ Pending' = {} /\ sweep' = [todo |-> {}, ids |-> {}]
        /\ retried' = retried /\ db' = db
    BY <1>1, RangeOfNone DEF Restart, IdleRec, Pending
  <2>2. ASSUME NEW b \in retried PROVE Dead(b)'
    <3>1. b \in Bundles /\ db[b].status = "Failed" /\ phase[b] \notin Early
      BY DEF HandedOver, Dead, IInv, TypeOK
    <3>2. inner'.stage[b] = "Untracked"
      BY <1>1, <3>1, HydratedEffect DEF OpenStages
    <3> QED BY <2>1, <3>1, <3>2, OnceTracked DEF Dead
  <2> QED BY <2>1, <2>2 DEF HandedOver, WritesFollowMarks
<1>2. CASE ~Restart /\ (Cluster \/ Connection \/ UNCHANGED vars)
  <2> USE DEF client, sweeper
  <2>1. /\ spawned' = spawned /\ rec' = rec /\ db' = db /\ sweep' = sweep
        /\ retried' = retried
    BY <1>2 DEF vars, Cluster, AdvanceHead, ConfirmSlots, FinalizeSlots, Land, Fork,
                Connection, Disconnect, Reconnect
  <2>2. NewWritesMarked /\ FailedStayFailed
    BY <2>1 DEF NewWritesMarked, Pending, FailedStayFailed
  <2> QED BY <1>2, <2>1, <2>2, HandedKept
<1>3. CASE ~Restart /\ JitoPollers
  <2> USE DEF client, sweeper
  <2>1. /\ spawned' = spawned /\ rec' = rec /\ sweep' = sweep /\ retried' = retried
    BY <1>3 DEF JitoPollers, RecordJito, PersistJito, PersistJitoFails
  <2>2. NewWritesMarked
    BY <2>1 DEF NewWritesMarked, Pending
  <2>3. db \in [Bundles -> Row]
    BY DEF IInv, TypeOK
  <2>4. \A b \in Bundles : db'[b].status = db[b].status
    BY <1>3, <2>3 DEF JitoPollers, RecordJito, PersistJito, PersistJitoFails, Row
  <2> QED BY <1>3, <2>1, <2>2, <2>4, HandedKept DEF FailedStayFailed
<1> QED BY <1>1, <1>2, <1>3, SubmissionHanded, IngestHanded, WriteThroughHanded,
           SweeperHanded, ReconcileHanded DEF Next

(* Whatever the order of sweeps, stream events, late writes, reconcile     *)
(* passes, failed writes and restarts, a row handed to the agent is failed *)
(* in the table, and stays so (check_timeouts, persist).                   *)
THEOREM RetriedRowsStayFailed == Spec => []RetriedRowsAreFailed
<1>1. Init => HandedOver
  BY RangeOfNone DEF Init, IdleRec, HandedOver, WritesFollowMarks, Pending
<1>2. HandedOver => RetriedRowsAreFailed
  BY DEF HandedOver, RetriedRowsAreFailed
<1> QED BY <1>1, <1>2, Invariance, StepHanded, PTL DEF Spec

(* A sweep takes rows that are tracked, and a row handed over is dead.     *)
LEMMA StepHandsOnce ==
  ASSUME HandedOver, HandedOverOnce, [Next]_vars
  PROVE  HandedOverOnce'
<1> USE DEF sweeper
<1>1. CASE UNCHANGED sweeper
  BY <1>1 DEF HandedOverOnce
<1>2. CASE CheckTimeouts
  <2> DEFINE ids == TimedOut(inner, base, TimeoutSlots)
  <2>1. sweep'.ids = ids /\ retried' = retried
    BY <1>2 DEF CheckTimeouts
  <2>2. \A b \in ids : inner.stage[b] # "Untracked"
    BY DEF TimedOut
  <2>3. \A b \in retried : inner.stage[b] = "Untracked"
    BY DEF HandedOver, Dead
  <2> HIDE DEF ids
  <2> QED BY <2>1, <2>2, <2>3 DEF HandedOverOnce
<1>3. ASSUME NEW b \in Bundles, PersistTimeout(b) PROVE HandedOverOnce'
  <2>1. CASE sweep.todo = {b}
    BY <1>3, <2>1 DEF PersistTimeout, HandedOverOnce
  <2>2. CASE sweep.todo # {b}
    <3>1. retried' = retried /\ sweep' = [sweep EXCEPT !.todo = @ \ {b}]
      BY <1>3, <2>2 DEF PersistTimeout
    <3>2. sweep'.ids = sweep.ids
      BY <3>1
    <3> QED BY <3>1, <3>2 DEF HandedOverOnce
  <2> QED BY <2>1, <2>2
<1>4. CASE PersistTimeoutFails \/ Restart
  <2>1. sweep'.ids = {}
    BY <1>4 DEF PersistTimeoutFails, Restart
  <2> QED BY <2>1 DEF HandedOverOnce
<1>5. CASE Cluster \/ Connection \/ Submission
  <2>1. UNCHANGED sweeper
    BY <1>5 DEF Cluster, AdvanceHead, ConfirmSlots, FinalizeSlots, Land, Fork, Connection,
                Disconnect, Reconnect, Submission, Send, InsertRow, InsertRowFails, Track,
                RecordRejection, PersistRejection, PersistRejectionFails, client
  <2> QED BY <1>1, <2>1
<1>6. CASE JitoPollers \/ Ingest \/ WriteThrough \/ UNCHANGED vars
  <2>1. UNCHANGED sweeper
    BY <1>6 DEF JitoPollers, RecordJito, PersistJito, PersistJitoFails, Ingest,
                IngestProcessedSlot, IngestConfirmedSlot, IngestFinalizedSlot, IngestTx,
                WriteThrough, PersistSpawned, LoseSpawned, vars
  <2> QED BY <1>1, <2>1
<1>7. CASE Reconcile
  <2>1. UNCHANGED sweeper
    BY <1>7 DEF Reconcile, ReconcileSelect, ReconcileAnswered, ReconcileUnparsable,
                ReconcileRpcFails, ReconcileErrored, ReconcileMarked, ReconcilePersist,
                ReconcilePersistFails, ReconcileDone
  <2> QED BY <1>1, <2>1
<1> QED BY <1>2, <1>3, <1>4, <1>5, <1>6, <1>7 DEF Next, Sweeper

(* No row is handed to the agent twice, under every fault and in every     *)
(* order of sweeps, stream events, reconcile passes, writes and restarts:  *)
(* what was handed over is closed in the table before, so that no restart  *)
(* tracks it again (check_timeouts, hydrate).                              *)
THEOREM HandedOverOnlyOnce == Spec => []HandedOverOnce
<1>1. Init => HandedOver /\ HandedOverOnce
  BY RangeOfNone DEF Init, IdleRec, HandedOver, WritesFollowMarks, Pending, HandedOverOnce
<1>2. IInv /\ HandedOver /\ HandedOverOnce /\ [Next]_vars => (HandedOver /\ HandedOverOnce)'
  BY StepHanded, StepHandsOnce
<1> QED BY <1>1, <1>2, Invariance, PTL DEF Spec

-----------------------------------------------------------------------------
(* Claims about the chain. Every place a claim can come from is true, not  *)
(* only memory and table: the writes on their way, and the answers the     *)
(* reconcile task still holds. What is true of a landing stays true as     *)
(* long as no landing is undone.                                           *)
MemoryClaim(b) ==
  /\ inner.slot[b] # NoSlot => inner.slot[b] = landed[b] /\ b \notin errored
  /\ inner.stage[b] = "Confirmed" => landed[b] \in 1 .. confirmed /\ b \notin errored

RowClaim(b) ==
  /\ db[b].landed # NoSlot => db[b].landed = landed[b]
  /\ db[b].status \in OpenStages /\ db[b].landed # NoSlot => b \notin errored
  /\ db[b].status = "Confirmed" => landed[b] \in 1 .. confirmed /\ b \notin errored
  /\ db[b].status = "Finalized" => landed[b] \in 1 .. finalized /\ b \notin errored
  /\ db[b].status = "Failed" /\ db[b].cause = "OnChain" => b \in errored
  /\ db[b].status = "Failed" /\ db[b].cause = "Rejected" => b \in refused

TrueWrite(w) ==
  /\ w.slot # NoSlot => w.slot = landed[w.row]
  /\ w.to = "Processed" => w.row \notin errored
  /\ w.to = "Confirmed" => landed[w.row] \in 1 .. confirmed /\ w.row \notin errored
  /\ w.to = "Finalized" => landed[w.row] \in 1 .. finalized /\ w.row \notin errored
  /\ w.to = "Failed" /\ w.cause = "OnChain" => w.row \in errored
  /\ w.to = "Failed" /\ w.cause = "Rejected" => w.row \in refused

TrueAnswer(a, b) ==
  /\ a.slot = landed[b] /\ (a.err <=> b \in errored)
  /\ a.level = "Confirmed" => landed[b] <= confirmed
  /\ a.level = "Finalized" => landed[b] <= finalized

RefusalsTrue == \A b \in Bundles : phase[b] \in {"tracked", "rejecting"} => b \in refused

ClaimsHold ==
  /\ finalized <= confirmed
  /\ \A b \in errored : landed[b] # NoSlot
  /\ \A b \in Bundles : MemoryClaim(b) /\ RowClaim(b)
  /\ \A w \in Pending : TrueWrite(w)
  /\ \A b \in Bundles : rec.answer[b] # NoAnswer => TrueAnswer(rec.answer[b], b)
  /\ RefusalsTrue

(* The chain moves on: what landed stays as it landed.                     *)
LEMMA ChainMoves ==
  ASSUME IInv, ClaimsHold,
         confirmed' \in Nat, finalized' \in Nat, confirmed <= confirmed',
         finalized <= finalized', finalized' <= confirmed',
         \A b \in Bundles : landed[b] # NoSlot
            => landed'[b] = landed[b] /\ (b \in errored' <=> b \in errored),
         \A b \in errored' : landed'[b] # NoSlot,
         UNCHANGED <<inner, db, spawned, rec, client>>
  PROVE  ClaimsHold'
<1> USE DEF client
<1>0. /\ confirmed \in Nat /\ finalized \in Nat
      /\ \A b \in Bundles : landed[b] \in Slot \cup {NoSlot} /\ 0 \notin Slot /\ NoSlot = 0
      /\ errored \subseteq Bundles
  BY DEF IInv, TypeOK, Slot, NoSlot
<1>1. Pending' = Pending /\ Pending \subseteq Write
  BY PendingTyped DEF Pending
<1>2. ASSUME NEW b \in Bundles PROVE MemoryClaim(b)' /\ RowClaim(b)'
  <2>1. MemoryClaim(b)'
    BY <1>0 DEF ClaimsHold, MemoryClaim
  <2>2. RowClaim(b)'
    BY <1>0 DEF ClaimsHold, RowClaim
  <2> QED BY <2>1, <2>2
<1>3. ASSUME NEW w \in Pending PROVE TrueWrite(w)'
  <2>1. w.row \in Bundles /\ (w.to = "Processed" => w.slot # NoSlot) /\ TrueWrite(w)
    BY <1>1 DEF Write, ClaimsHold
  <2> QED BY <1>0, <2>1 DEF ClaimsHold, TrueWrite
<1>4. ASSUME NEW b \in Bundles, rec.answer[b] # NoAnswer
      PROVE  TrueAnswer(rec.answer[b], b)'
  <2>1. TrueAnswer(rec.answer[b], b) /\ rec.answer[b].slot \in Slot
    BY <1>4 DEF ClaimsHold, IInv, Provenance
  <2>2. landed[b] \in Nat /\ landed'[b] = landed[b] /\ (b \in errored' <=> b \in errored)
    BY <1>0, <2>1 DEF TrueAnswer, Slot
  <2> QED BY <1>0, <2>1, <2>2 DEF TrueAnswer
<1>5. RefusalsTrue'
  BY DEF ClaimsHold, RefusalsTrue
<1> QED BY <1>1, <1>2, <1>3, <1>4, <1>5 DEF ClaimsHold

(* The program moves on, on a chain that stands still.                     *)
LEMMA ClaimsKept ==
  ASSUME IInv, ClaimsHold, cluster' = cluster, refused \subseteq refused',
         \A b \in Bundles : MemoryClaim(b)', \A b \in Bundles : RowClaim(b)',
         \A w \in Pending' : w \in Pending \/ TrueWrite(w),
         \A b \in Bundles : \/ rec'.answer[b] \in {rec.answer[b], NoAnswer}
                            \/ TrueAnswer(rec'.answer[b], b),
         RefusalsTrue'
  PROVE  ClaimsHold'
<1> USE DEF cluster
<1>1. ASSUME NEW w \in Pending' PROVE TrueWrite(w)'
  <2>1. TrueWrite(w)
    BY DEF ClaimsHold
  <2> QED BY <2>1 DEF TrueWrite
<1>2. ASSUME NEW b \in Bundles, rec'.answer[b] # NoAnswer
      PROVE  TrueAnswer(rec'.answer[b], b) /\ landed'[b] = landed[b]
  BY <1>2 DEF ClaimsHold
<1>3. \A b \in Bundles : rec'.answer[b] # NoAnswer => TrueAnswer(rec.answer[b], b)'
  BY <1>2 DEF TrueAnswer
<1> QED BY <1>1, <1>3 DEF ClaimsHold

LEMMA MemoryKept ==
  ASSUME ClaimsHold, cluster' = cluster, NEW b \in Bundles,
         \/ inner'.slot[b] \in {inner.slot[b], NoSlot}
         \/ inner'.slot[b] = landed[b] /\ b \notin errored,
         inner'.stage[b] = "Confirmed"
           => \/ inner.stage[b] = "Confirmed"
              \/ landed[b] \in 1 .. confirmed /\ b \notin errored
  PROVE  MemoryClaim(b)'
BY DEF ClaimsHold, MemoryClaim, cluster

LEMMA RowKept ==
  ASSUME ClaimsHold, cluster' = cluster, refused \subseteq refused', NEW b \in Bundles,
         db'[b].status = db[b].status, db'[b].landed = db[b].landed,
         db'[b].cause = db[b].cause
  PROVE  RowClaim(b)'
BY DEF ClaimsHold, RowClaim, cluster

LEMMA PersistClaims ==
  ASSUME IInv, ClaimsHold, cluster' = cluster, refused' = refused,
         NEW w \in Write, TrueWrite(w), Persist(w), NEW b \in Bundles
  PROVE  RowClaim(b)'
<1> USE DEF cluster
<1>1. CASE b = w.row
  <2>1. w.to \in {"Processed", "Confirmed", "Finalized", "Failed"}
    BY DEF Write
  <2>2. RowClaim(b)
    BY DEF ClaimsHold
  <2> QED BY <1>1, <2>1, <2>2, PersistEffect DEF RowClaim, TrueWrite, OpenStages
<1>2. CASE b # w.row
  BY <1>2, PersistEffect, RowKept
<1> QED BY <1>1, <1>2

LEMMA ClusterClaims ==
  ASSUME IInv, ClaimsHold, "fork" \notin FaultKinds, Cluster
  PROVE  ClaimsHold'
<1> USE DEF link, client, sweeper
<1>0. /\ confirmed \in Nat /\ finalized \in Nat /\ finalized <= confirmed
      /\ \A n \in Slot : n \in Nat /\ n # NoSlot
      /\ landed \in [Bundles -> Slot \cup {NoSlot}] /\ errored \subseteq Bundles
      /\ \A b \in errored : landed[b] # NoSlot
      /\ head \in Slot
  BY DEF IInv, TypeOK, Slot, NoSlot, ClaimsHold
<1>1. CASE AdvanceHead
  BY <1>0, <1>1, ChainMoves DEF AdvanceHead
<1>2. CASE ConfirmSlots
  BY <1>0, <1>2, ChainMoves DEF ConfirmSlots
<1>3. CASE FinalizeSlots
  BY <1>0, <1>3, ChainMoves DEF FinalizeSlots
<1>4. ASSUME NEW b \in Bundles, Land(b) PROVE ClaimsHold'
  <2>1. /\ landed[b] = NoSlot /\ landed' = [landed EXCEPT ![b] = head]
        /\ errored' \in {errored, errored \cup {b}}
        /\ UNCHANGED <<confirmed, finalized, inner, db, spawned, rec, client>>
    BY <1>4 DEF Land
  <2>2. \A x \in Bundles : landed[x] # NoSlot
          => landed'[x] = landed[x] /\ (x \in errored' <=> x \in errored)
    BY <1>0, <2>1
  <2>3. \A x \in errored' : landed'[x] # NoSlot
    BY <1>0, <2>1
  <2> QED BY <1>0, <2>1, <2>2, <2>3, ChainMoves
<1>5. ~ \E b \in Bundles : Fork(b)
  BY DEF Fork, Inject
<1> QED BY <1>1, <1>2, <1>3, <1>4, <1>5 DEF Cluster

LEMMA SubmissionClaims ==
  ASSUME IInv, ClaimsHold, Submission
  PROVE  ClaimsHold'
<1> SUFFICES ASSUME NEW b \in Bundles,
                    \/ Send(b) \/ InsertRow(b) \/ InsertRowFails(b) \/ Track(b)
                    \/ RecordRejection(b) \/ PersistRejection(b)
                    \/ PersistRejectionFails(b)
             PROVE ClaimsHold'
  BY DEF Submission
<1>0. /\ cluster' = cluster /\ spawned' = spawned /\ rec' = rec /\ refused \subseteq refused'
      /\ Pending' = Pending
  BY DEF Send, InsertRow, InsertRowFails, Track, RecordRejection, PersistRejection,
         PersistRejectionFails, Pending
<1>1. RefusalsTrue'
  <2>1. phase \in [Bundles -> Phases] /\ RefusalsTrue
    BY DEF IInv, TypeOK, ClaimsHold
  <2> QED BY <2>1
          DEF RefusalsTrue, Send, InsertRow, InsertRowFails, Track, RecordRejection,
              PersistRejection, PersistRejectionFails
<1>2. \A x \in Bundles : MemoryClaim(x)'
  <2>1. CASE inner' = inner
    BY <1>0, <2>1, MemoryKept DEF ClaimsHold, MemoryClaim
  <2>2. CASE Track(b)
    <3>1. Fields(inner', {b}, "Submitted", NoSlot, NoVerdict)
      BY <2>2, InsertFields DEF Track
    <3> QED BY <1>0, <3>1, MemoryKept DEF Fields
  <2>3. CASE RecordRejection(b)
    <3>1. Fields(inner', {b}, "Untracked", NoSlot, NoVerdict)
      BY <2>3, ForgetFields DEF RecordRejection
    <3> QED BY <1>0, <3>1, MemoryKept DEF Fields
  <2> QED BY <2>1, <2>2, <2>3
          DEF Send, InsertRow, InsertRowFails, PersistRejection, PersistRejectionFails
<1>3. \A x \in Bundles : RowClaim(x)'
  <2>1. CASE db' = db
    BY <1>0, <2>1, RowKept
  <2>2. CASE InsertRow(b)
    <3>1. db'[b] = NewRow("Submitted") /\ \A x \in Bundles : x # b => db'[x] = db[x]
      BY <2>2 DEF InsertRow, IInv, TypeOK
    <3>2. RowClaim(b)'
      BY <3>1 DEF RowClaim, NewRow
    <3> QED BY <1>0, <3>1, <3>2, RowKept
  <2>3. CASE PersistRejection(b)
    <3> DEFINE w == FailedWrite(b, NoSlot, "Rejected")
    <3>1. w \in Write /\ w.row = b /\ w.to = "Failed" /\ w.slot = NoSlot /\ w.cause = "Rejected"
      BY FailedWriteTyped DEF Causes, FailedWrite
    <3> HIDE DEF w
    <3>2. Persist(w) /\ b \in refused /\ refused' = refused
      BY <2>3 DEF PersistRejection, ClaimsHold, RefusalsTrue, w
    <3>3. TrueWrite(w)
      BY <3>1, <3>2 DEF TrueWrite
    <3> QED BY <1>0, <3>1, <3>2, <3>3, PersistClaims
  <2> QED BY <2>1, <2>2, <2>3
          DEF Send, InsertRowFails, Track, RecordRejection, PersistRejectionFails
<1> QED BY <1>0, <1>1, <1>2, <1>3, ClaimsKept

LEMMA JitoClaims ==
  ASSUME IInv, ClaimsHold, JitoPollers
  PROVE  ClaimsHold'
<1>1. /\ cluster' = cluster /\ spawned' = spawned /\ rec' = rec /\ phase' = phase
      /\ refused' = refused
  BY DEF JitoPollers, RecordJito, PersistJito, PersistJitoFails, client
<1>2. db \in [Bundles -> Row] /\ inner \in Inner
  BY DEF IInv, TypeOK
<1>3. inner'.stage = inner.stage /\ inner'.slot = inner.slot
  BY <1>2 DEF JitoPollers, RecordJito, PersistJito, PersistJitoFails, Inner
<1>4. \A b \in Bundles : /\ db'[b].status = db[b].status /\ db'[b].landed = db[b].landed
                         /\ db'[b].cause = db[b].cause
  BY <1>2 DEF JitoPollers, RecordJito, PersistJito, PersistJitoFails, Row
<1>5. \A b \in Bundles : MemoryClaim(b)'
  BY <1>1, <1>3, MemoryKept
<1>6. \A b \in Bundles : RowClaim(b)'
  BY <1>1, <1>4, RowKept
<1>7. RefusalsTrue' /\ Pending' = Pending
  BY <1>1 DEF ClaimsHold, RefusalsTrue, Pending
<1> QED BY <1>1, <1>5, <1>6, <1>7, ClaimsKept

(* What the stream says of a landing, and of the slots it landed at or     *)
(* below.                                                                  *)
LEMMA IngestClaims ==
  ASSUME IInv, ClaimsHold, Ingest
  PROVE  ClaimsHold'
<1>0. /\ cluster' = cluster /\ db' = db /\ rec' = rec /\ phase' = phase
      /\ refused' = refused
  BY DEF Ingest, IngestProcessedSlot, IngestConfirmedSlot, IngestFinalizedSlot, IngestTx,
         client
<1>1. (\A b \in Bundles : RowClaim(b)') /\ RefusalsTrue'
  BY <1>0, RowKept DEF ClaimsHold, RefusalsTrue
<1>2. /\ confirmed \in Nat /\ finalized \in Nat /\ finalized <= confirmed
      /\ \A n \in Slot : n \in Nat /\ n # NoSlot
      /\ landed \in [Bundles -> Slot \cup {NoSlot}] /\ inner \in Inner
      /\ \A b \in Bundles : MemoryClaim(b)
  BY DEF IInv, TypeOK, Slot, NoSlot, ClaimsHold
<1>3. ASSUME \A b \in Bundles : MemoryClaim(b)',
             \A w \in spawned' : w \in spawned \/ TrueWrite(w)
      PROVE  ClaimsHold'
  <2>1. \A w \in Pending' : w \in Pending \/ TrueWrite(w)
    BY <1>0, <1>3 DEF Pending
  <2> QED BY <1>0, <1>1, <1>3, <2>1, ClaimsKept
<1>4. ASSUME NEW n \in Slot, IngestProcessedSlot(n) PROVE ClaimsHold'
  <2>1. inner'.stage = inner.stage /\ inner'.slot = inner.slot /\ spawned' = spawned
    BY <1>2, <1>4 DEF IngestProcessedSlot, Observe, Inner
  <2> QED BY <1>0, <1>3, <2>1, MemoryKept
<1>5. ASSUME NEW n \in Slot, IngestConfirmedSlot(n) PROVE ClaimsHold'
  <2>1. PICK rows \in SUBSET Bundles :
           /\ \A b \in rows : inner.stage[b] = "Processed" /\ inner.slot[b] \in 1 .. n
           /\ \A b \in Bundles :
                inner'.stage[b] = IF b \in rows THEN "Confirmed" ELSE inner.stage[b]
           /\ inner'.slot = inner.slot
           /\ spawned' = spawned \cup Marks("Confirmed", rows, NoSlot)
    BY <1>5, ConfirmedEffect
  <2>2. n <= confirmed
    BY <1>5 DEF IngestConfirmedSlot
  <2>3. \A b \in rows : landed[b] \in 1 .. confirmed /\ b \notin errored
    BY <1>2, <2>1, <2>2 DEF MemoryClaim, NoSlot
  <2>4. \A b \in Bundles : MemoryClaim(b)'
    BY <1>0, <2>1, <2>3, MemoryKept
  <2>5. \A w \in Marks("Confirmed", rows, NoSlot) : TrueWrite(w)
    BY <2>3, MarksMembers DEF TrueWrite
  <2> QED BY <1>3, <2>1, <2>4, <2>5
<1>6. ASSUME NEW n \in Slot, IngestFinalizedSlot(n) PROVE ClaimsHold'
  <2>1. PICK rows \in SUBSET Bundles :
           /\ \A b \in rows : inner.slot[b] \in 1 .. n
           /\ Fields(inner', rows, "Untracked", NoSlot, NoVerdict)
           /\ spawned' = spawned \cup Marks("Finalized", rows, NoSlot)
    BY <1>6, FinalizedEffect
  <2>2. n <= finalized
    BY <1>6 DEF IngestFinalizedSlot
  <2>3. \A b \in rows : landed[b] \in 1 .. finalized /\ b \notin errored
    BY <1>2, <2>1, <2>2 DEF MemoryClaim, NoSlot
  <2>4. \A b \in Bundles : MemoryClaim(b)'
    BY <1>0, <2>1, MemoryKept DEF Fields
  <2>5. \A w \in Marks("Finalized", rows, NoSlot) : TrueWrite(w)
    BY <2>3, MarksMembers DEF TrueWrite
  <2> QED BY <1>3, <2>1, <2>4, <2>5
<1>7. ASSUME NEW b \in Bundles, IngestTx(b) PROVE ClaimsHold'
  <2>1. landed[b] \in Slot
    BY <1>2, <1>7 DEF IngestTx
  <2>2. CASE LandsNow(b)
    <3>1. Fields(inner', {b}, "Processed", landed[b], inner.jito[b]) /\ b \notin errored
      BY <2>1, <2>2, ProcessedFields DEF LandsNow
    <3>2. \A x \in Bundles : MemoryClaim(x)'
      BY <1>0, <3>1, MemoryKept DEF Fields
    <3>3. \A w \in Marks("Processed", {b}, landed[b]) : TrueWrite(w)
      BY <3>1, MarksMembers DEF TrueWrite
    <3> QED BY <1>3, <2>2, <3>2, <3>3 DEF LandsNow
  <2>3. CASE FailsNow(b)
    <3>1. Fields(inner', {b}, "Untracked", NoSlot, NoVerdict) /\ b \in errored
      BY <2>3, ForgetFields DEF FailsNow
    <3>2. \A x \in Bundles : MemoryClaim(x)'
      BY <1>0, <3>1, MemoryKept DEF Fields
    <3>3. TrueWrite(FailedWrite(b, landed[b], "OnChain"))
      BY <3>1 DEF TrueWrite, FailedWrite
    <3> QED BY <1>3, <2>3, <3>2, <3>3 DEF FailsNow
  <2>4. CASE Ignored(b)
    BY <1>0, <1>3, <2>4, MemoryKept DEF Ignored
  <2> QED BY <1>7, <2>2, <2>3, <2>4 DEF IngestTx
<1> QED BY <1>4, <1>5, <1>6, <1>7 DEF Ingest

LEMMA TaskClaims ==
  ASSUME IInv, ClaimsHold, Connection \/ WriteThrough \/ Sweeper
  PROVE  ClaimsHold'
<1>0. /\ cluster' = cluster /\ rec' = rec /\ phase' = phase /\ refused' = refused
      /\ spawned' \subseteq spawned
  BY DEF Connection, Disconnect, Reconnect, WriteThrough, PersistSpawned, LoseSpawned,
         Sweeper, CheckTimeouts, PersistTimeout, PersistTimeoutFails, client
<1>1. RefusalsTrue' /\ Pending' \subseteq Pending
  BY <1>0 DEF ClaimsHold, RefusalsTrue, Pending
<1>2. \A b \in Bundles : MemoryClaim(b)'
  <2>1. CASE inner' = inner
    BY <1>0, <2>1, MemoryKept
  <2>2. CASE CheckTimeouts
    <3>1. \E ids \in SUBSET Bundles : Fields(inner', ids, "Untracked", NoSlot, NoVerdict)
      BY <2>2, ForgetFields DEF CheckTimeouts, TimedOut
    <3> QED BY <1>0, <3>1, MemoryKept DEF Fields
  <2> QED BY <2>1, <2>2
          DEF Connection, Disconnect, Reconnect, WriteThrough, PersistSpawned, LoseSpawned,
              Sweeper, PersistTimeout, PersistTimeoutFails
<1>3. ASSUME NEW w \in Write, TrueWrite(w), Persist(w)
      PROVE  \A b \in Bundles : RowClaim(b)'
  BY <1>0, <1>3, PersistClaims
<1>4. \A b \in Bundles : RowClaim(b)'
  <2>1. CASE db' = db
    BY <1>0, <2>1, RowKept
  <2>2. ASSUME NEW w \in spawned, PersistSpawned(w) PROVE \A b \in Bundles : RowClaim(b)'
    <3>1. w \in Write /\ TrueWrite(w)
      BY PendingTyped DEF Pending, ClaimsHold
    <3> QED BY <1>3, <2>2, <3>1 DEF PersistSpawned
  <2>3. ASSUME NEW b \in Bundles, PersistTimeout(b) PROVE \A x \in Bundles : RowClaim(x)'
    <3> DEFINE w == FailedWrite(b, NoSlot, "NeverLanded")
    <3>1. w \in Write /\ TrueWrite(w)
      BY FailedWriteTyped DEF Causes, FailedWrite, TrueWrite
    <3>2. Persist(w)
      BY <2>3 DEF PersistTimeout
    <3> QED BY <1>3, <3>1, <3>2
  <2> QED BY <2>1, <2>2, <2>3
          DEF Connection, Disconnect, Reconnect, WriteThrough, LoseSpawned,
              Sweeper, CheckTimeouts, PersistTimeoutFails
<1> QED BY <1>0, <1>1, <1>2, <1>4, ClaimsKept

LEMMA ReconcileClaims ==
  ASSUME IInv, ClaimsHold, Reconcile
  PROVE  ClaimsHold'
<1>0. /\ cluster' = cluster /\ phase' = phase /\ refused' = refused /\ spawned' = spawned
  BY DEF Reconcile, ReconcileSelect, ReconcileAnswered, ReconcileUnparsable,
         ReconcileRpcFails, ReconcileErrored, ReconcileMarked, ReconcilePersist,
         ReconcilePersistFails, ReconcileDone, client
<1>1. RefusalsTrue' /\ rec \in RecType
  BY <1>0 DEF ClaimsHold, RefusalsTrue, RecType, IInv, TypeOK
<1>2. ASSUME inner' = inner, db' = db, Range(rec'.writes) \subseteq Range(rec.writes),
             \A b \in Bundles : \/ rec'.answer[b] \in {rec.answer[b], NoAnswer}
                                \/ TrueAnswer(rec'.answer[b], b)
      PROVE  ClaimsHold'
  <2>1. /\ \A b \in Bundles : MemoryClaim(b)'
        /\ \A b \in Bundles : RowClaim(b)'
    BY <1>0, <1>2, MemoryKept, RowKept
  <2>2. Pending' \subseteq Pending
    BY <1>0, <1>2 DEF Pending
  <2> QED BY <1>0, <1>1, <1>2, <2>1, <2>2, ClaimsKept
<1>3. CASE \/ ReconcileUnparsable \/ ReconcileRpcFails \/ ReconcilePersistFails
           \/ ReconcileDone
  BY <1>2, <1>3, RangeOfNone
     DEF ReconcileUnparsable, ReconcileRpcFails, ReconcilePersistFails, ReconcileDone, IdleRec
<1>4. CASE ReconcileSelect
  BY <1>1, <1>2, <1>4 DEF ReconcileSelect, RecType
<1>5. CASE ReconcileAnswered
  <2>1. /\ rec'.writes = rec.writes /\ inner' = inner /\ db' = db
        /\ rec'.answer = [b \in Bundles |->
                           IF b \in Asked /\ landed[b] # NoSlot
                           THEN [level |-> Level(landed[b]), slot |-> landed[b],
                                 err |-> b \in errored]
                           ELSE NoAnswer]
    BY <1>1, <1>5 DEF ReconcileAnswered, RecType
  <2>2. ASSUME NEW b \in Bundles
        PROVE  TrueAnswer([level |-> Level(landed[b]), slot |-> landed[b],
                           err |-> b \in errored], b)
    <3>1. /\ Level(landed[b]) = "Confirmed" => landed[b] <= confirmed
          /\ Level(landed[b]) = "Finalized" => landed[b] <= finalized
      BY DEF Level
    <3> QED BY <3>1 DEF TrueAnswer
  <2> QED BY <1>2, <2>1, <2>2
<1>6. ASSUME NEW b \in Bundles, ReconcileErrored(b) PROVE ClaimsHold'
  <2> DEFINE w == FailedWrite(b, rec.answer[b].slot, "OnChain")
  <2>1. /\ rec'.writes = <<w>> /\ rec'.answer = [rec.answer EXCEPT ![b] = NoAnswer]
        /\ db' = db /\ inner' = Forget(inner, {b})
    BY <1>1, <1>6 DEF ReconcileErrored, RecType
  <2>2. rec.answer[b].slot = landed[b] /\ b \in errored
    BY <1>6 DEF ReconcileErrored, Answers, ClaimsHold, TrueAnswer
  <2>3. TrueWrite(w)
    BY <2>2 DEF TrueWrite, FailedWrite
  <2> HIDE DEF w
  <2>4. \A x \in Pending' : x \in Pending \/ TrueWrite(x)
    BY <1>0, <2>1, <2>3, RangeOfOne DEF Pending
  <2>5. \A x \in Bundles : MemoryClaim(x)'
    BY <1>0, <2>1, ForgetFields, MemoryKept DEF Fields
  <2>6. \A x \in Bundles : RowClaim(x)'
    BY <1>0, <2>1, RowKept
  <2>7. \A x \in Bundles : rec'.answer[x] \in {rec.answer[x], NoAnswer}
    BY <1>1, <2>1 DEF RecType
  <2> QED BY <1>0, <1>1, <2>4, <2>5, <2>6, <2>7, ClaimsKept
<1>7. ASSUME NEW b \in Bundles, ReconcileMarked(b) PROVE ClaimsHold'
  <2> DEFINE a == rec.answer[b]
  <2>1. /\ a # NoAnswer /\ ~a.err
        /\ rec'.answer = [rec.answer EXCEPT ![b] = NoAnswer]
        /\ MarkedRow(b, a)
        /\ \A w \in Range(rec'.writes) : MarkedWrite(w, b, a)
    BY <1>7, MarkedEffect
  <2>2. TrueAnswer(a, b) /\ a.slot \in Slot
    BY <2>1 DEF ClaimsHold, IInv, Provenance
  <2>3. /\ a.slot = landed[b] /\ b \notin errored
        /\ a.level \in {"Confirmed", "Finalized"} => landed[b] \in 1 .. confirmed
        /\ a.level = "Finalized" => landed[b] \in 1 .. finalized
    <3>1. /\ confirmed \in Nat /\ finalized \in Nat /\ finalized <= confirmed
          /\ landed[b] \in Nat /\ landed[b] >= 1
      BY <2>2 DEF IInv, TypeOK, ClaimsHold, TrueAnswer, Slot
    <3> QED BY <2>1, <2>2, <3>1 DEF TrueAnswer
  <2> HIDE DEF a
  <2>4. \A w \in Range(rec'.writes) : TrueWrite(w)
    <3> SUFFICES ASSUME NEW w \in Range(rec'.writes) PROVE TrueWrite(w)
      OBVIOUS
    <3>1. w.row = b /\ w.to \in Levels /\ w.slot \in {a.slot, NoSlot} /\ Reached(a, w.to)
      BY <2>1 DEF MarkedWrite
    <3> QED BY <2>3, <3>1 DEF TrueWrite, Reached, Levels
  <2>5. \A x \in Bundles : MemoryClaim(x)'
    <3>1. ASSUME NEW x \in Bundles, x # b PROVE MemoryClaim(x)'
      BY <1>0, <2>1, <3>1, MemoryKept DEF MarkedRow
    <3>2. MemoryClaim(b)'
      BY <1>0, <2>1, <2>3, MemoryKept DEF MarkedRow, Reached
    <3> QED BY <3>1, <3>2
  <2>6. \A x \in Bundles : RowClaim(x)'
    BY <1>0, <1>7, RowKept DEF ReconcileMarked
  <2>7. \A x \in Bundles : rec'.answer[x] \in {rec.answer[x], NoAnswer}
    BY <1>1, <2>1 DEF RecType
  <2>8. \A w \in Pending' : w \in Pending \/ TrueWrite(w)
    BY <1>0, <2>4 DEF Pending
  <2> QED BY <1>0, <1>1, <2>5, <2>6, <2>7, <2>8, ClaimsKept
<1>8. CASE ReconcilePersist
  <2> DEFINE w == Head(rec.writes)
  <2>1. /\ rec.writes # <<>> /\ Persist(w) /\ inner' = inner
        /\ rec'.writes = Tail(rec.writes) /\ rec'.answer = rec.answer
    BY <1>1, <1>8 DEF ReconcilePersist, RecType
  <2> HIDE DEF w
  <2>2. w \in Pending /\ Pending' \subseteq Pending
    BY <1>0, <2>1, NextWrite DEF Pending, w
  <2>3. w \in Write /\ TrueWrite(w)
    BY <2>2, PendingTyped DEF ClaimsHold
  <2>4. \A b \in Bundles : RowClaim(b)'
    BY <1>0, <2>1, <2>3, PersistClaims
  <2>5. \A b \in Bundles : MemoryClaim(b)'
    BY <1>0, <2>1, MemoryKept
  <2> QED BY <1>0, <1>1, <2>1, <2>2, <2>4, <2>5, ClaimsKept
<1> QED BY <1>3, <1>4, <1>5, <1>6, <1>7, <1>8 DEF Reconcile

LEMMA RestartClaims ==
  ASSUME IInv, ClaimsHold, Restart
  PROVE  ClaimsHold'
<1>1. /\ cluster' = cluster /\ refused' = refused /\ db' = db
      /\ Pending' = {} /\ rec'.answer = [b \in Bundles |-> NoAnswer]
  BY RangeOfNone DEF Restart, IdleRec, Pending
<1>2. \A b \in Bundles : MemoryClaim(b)'
  <2> SUFFICES ASSUME NEW b \in Bundles PROVE MemoryClaim(b)'
    OBVIOUS
  <2>1. RowClaim(b)
    BY DEF ClaimsHold
  <2>2. CASE db[b].status \in OpenStages
    <3>1. inner'.stage[b] = db[b].status /\ inner'.slot[b] = db[b].landed
      BY <2>2, HydratedEffect
    <3> QED BY <1>1, <2>1, <2>2, <3>1, MemoryKept DEF RowClaim
  <2>3. CASE db[b].status \notin OpenStages
    <3>1. inner'.stage[b] = "Untracked" /\ inner'.slot[b] = NoSlot
      BY <2>3, HydratedEffect
    <3> QED BY <1>1, <3>1, MemoryKept
  <2> QED BY <2>2, <2>3
<1>3. \A b \in Bundles : RowClaim(b)'
  BY <1>1, RowKept
<1>4. RefusalsTrue'
  BY DEF Restart, RefusalsTrue
<1> QED BY <1>1, <1>2, <1>3, <1>4, ClaimsKept

LEMMA StepClaims ==
  "fork" \notin FaultKinds => (IInv /\ ClaimsHold /\ [Next]_vars => ClaimsHold')
<1> SUFFICES ASSUME "fork" \notin FaultKinds, IInv, ClaimsHold, [Next]_vars
             PROVE  ClaimsHold'
  OBVIOUS
<1>1. CASE UNCHANGED vars
  <2>1. UNCHANGED <<cluster, client, inner, db, spawned, rec>> /\ Pending' = Pending
    BY <1>1 DEF vars, Pending
  <2>2. refused' = refused /\ RefusalsTrue'
    BY <2>1 DEF client, ClaimsHold, RefusalsTrue
  <2>3. \A b \in Bundles : MemoryClaim(b)'
    BY <2>1, MemoryKept
  <2>4. \A b \in Bundles : RowClaim(b)'
    BY <2>1, <2>2, RowKept
  <2> QED BY <2>1, <2>2, <2>3, <2>4, ClaimsKept
<1> QED BY <1>1, ClusterClaims, SubmissionClaims, JitoClaims, IngestClaims, TaskClaims,
           ReconcileClaims, RestartClaims DEF Next

(* As long as no block that was heard of is dropped by the cluster, what   *)
(* memory and table say of a bundle is what happened to it on chain: in    *)
(* every order of statuses, slots, late or lost writes, gaps, reconcile    *)
(* passes and restarts (apply_event, reconcile, persist, hydrate).         *)
THEOREM ClaimsAlwaysTrue ==
  ASSUME "fork" \notin FaultKinds
  PROVE  Spec => []ClaimsAreTrue
<1>1. Init => ClaimsHold
  <2> SUFFICES ASSUME Init PROVE ClaimsHold
    OBVIOUS
  <2>1. Pending = {}
    BY RangeOfNone DEF Init, IdleRec, Pending
  <2> QED BY <2>1 DEF Init, EmptyInner, NewRow, IdleRec, ClaimsHold, MemoryClaim, RowClaim,
                      RefusalsTrue, OpenStages
<1>2. ClaimsHold => ClaimsAreTrue
  BY DEF ClaimsHold, MemoryClaim, RowClaim, ClaimsAreTrue
<1>3. IInv /\ ClaimsHold /\ [Next]_vars => ClaimsHold'
  BY StepClaims
<1> QED BY <1>1, <1>2, <1>3, Invariance, PTL DEF Spec

-----------------------------------------------------------------------------
(* Rows that are tracked are open in the table. Every path that closes a   *)
(* row has dropped it from memory first, and from then on nothing tracks   *)
(* it again. The one way round is a reconcile pass that fails a row        *)
(* between its INSERT and its tracking: it takes a landing that early, and *)
(* the hypothesis leaves those out.                                        *)
OpenWhileTracked ==
  /\ TrackedRowsAreOpen
  /\ \A b \in Bundles : landed[b] # NoSlot => phase[b] = "done"
  /\ \A b \in Bundles : rec.answer[b] # NoAnswer => phase[b] = "done"
  /\ \A b \in Bundles : phase[b] = "inserted" => db[b].status = "Submitted"
  /\ \A b \in Bundles : phase[b] = "rejecting" => inner.stage[b] = "Untracked"
  /\ \A w \in Pending : /\ phase[w.row] \notin Early
                        /\ w.to \in TerminalStages => inner.stage[w.row] = "Untracked"
  /\ \A b \in sweep.todo : phase[b] \notin Early /\ inner.stage[b] = "Untracked"

(* Writes a step adds: of tracked rows, which a closing one has dropped.   *)
NewWritesClose ==
  \A w \in Pending' :
    \/ w \in Pending
    \/ /\ phase[w.row] \notin Early
       /\ w.to \in TerminalStages => inner'.stage[w.row] = "Untracked"

(* Rows a step closes are dropped, and rows that wait for tracking stay.   *)
RowsCloseDropped ==
  \A b \in Bundles :
    \/ db'[b].status = db[b].status
    \/ phase[b] \notin Early /\ db'[b].status \in OpenStages
    \/ phase[b] \notin Early /\ inner'.stage[b] = "Untracked"

LEMMA StaysDropped ==
  ASSUME IInv, [Next]_vars, ~Restart, NEW b \in Bundles,
         phase[b] \notin Early, inner.stage[b] = "Untracked"
  PROVE  phase'[b] \notin Early /\ inner'.stage[b] = "Untracked"
BY Forward, OnceTracked DEF StageStep, MayBecome, Early

LEMMA OpenKept ==
  ASSUME IInv, OpenWhileTracked, [Next]_vars, ~Restart,
         NewWritesClose, RowsCloseDropped,
         \A b \in Bundles : landed'[b] # NoSlot => landed[b] # NoSlot \/ phase[b] = "done",
         \A b \in Bundles : rec'.answer[b] # NoAnswer
                               => rec.answer[b] # NoAnswer \/ phase[b] = "done",
         \A b \in Bundles : phase'[b] = "inserted" => phase[b] = "inserted",
         \A b \in Bundles : phase'[b] = "rejecting"
                               => phase[b] = "rejecting" \/ inner'.stage[b] = "Untracked",
         \A b \in sweep'.todo : \/ b \in sweep.todo
                                \/ phase[b] \notin Early /\ inner'.stage[b] = "Untracked"
  PROVE  OpenWhileTracked'
<1>1. TrackedRowsAreOpen'
  <2> SUFFICES ASSUME NEW b \in Bundles, inner'.stage[b] # "Untracked"
               PROVE  db'[b].status \in OpenStages
    BY DEF TrackedRowsAreOpen
  <2>1. db[b].status \in OpenStages
    <3>1. CASE inner.stage[b] # "Untracked"
      BY <3>1 DEF OpenWhileTracked, TrackedRowsAreOpen
    <3>2. CASE inner.stage[b] = "Untracked"
      BY <3>2, Forward DEF StageStep, MayBecome, OpenWhileTracked, OpenStages
    <3> QED BY <3>1, <3>2
  <2> QED BY <2>1 DEF RowsCloseDropped
<1>2. \A b \in Bundles : /\ landed'[b] # NoSlot => phase'[b] = "done"
                         /\ rec'.answer[b] # NoAnswer => phase'[b] = "done"
  BY OnceTracked DEF OpenWhileTracked
<1>3. \A b \in Bundles : phase'[b] = "inserted" => db'[b].status = "Submitted"
  BY DEF OpenWhileTracked, RowsCloseDropped, Early
<1>4. \A b \in Bundles : phase'[b] = "rejecting" => inner'.stage[b] = "Untracked"
  BY StaysDropped DEF OpenWhileTracked, Early
<1>5. ASSUME NEW w \in Pending'
      PROVE  /\ phase'[w.row] \notin Early
             /\ w.to \in TerminalStages => inner'.stage[w.row] = "Untracked"
  <2>1. w.row \in Bundles
    BY PendingTypedNext DEF Write
  <2> QED BY <2>1, OnceTracked, StaysDropped DEF NewWritesClose, OpenWhileTracked
<1>6. \A b \in sweep'.todo : phase'[b] \notin Early /\ inner'.stage[b] = "Untracked"
  <2>1. sweep'.todo \subseteq Bundles
    <3>1. IInv'
      BY Inductive
    <3> QED BY <3>1 DEF IInv, TypeOK
  <2> QED BY <2>1, OnceTracked, StaysDropped DEF OpenWhileTracked
<1> QED BY <1>1, <1>2, <1>3, <1>4, <1>5, <1>6 DEF OpenWhileTracked

LEMMA SubmissionOpen ==
  ASSUME IInv, OpenWhileTracked, [Next]_vars, ~Restart, Submission
  PROVE  OpenWhileTracked'
<1> SUFFICES ASSUME NEW b \in Bundles,
                    \/ Send(b) \/ InsertRow(b) \/ InsertRowFails(b) \/ Track(b)
                    \/ RecordRejection(b) \/ PersistRejection(b)
                    \/ PersistRejectionFails(b)
             PROVE OpenWhileTracked'
  BY DEF Submission
<1>0. /\ landed' = landed /\ spawned' = spawned /\ rec' = rec /\ sweep' = sweep
      /\ Pending' = Pending
  BY DEF Send, InsertRow, InsertRowFails, Track, RecordRejection, PersistRejection,
         PersistRejectionFails, cluster, sweeper, Pending
<1>1. phase \in [Bundles -> Phases] /\ db \in [Bundles -> Row]
  BY DEF IInv, TypeOK
<1>2. CASE InsertRow(b)
  <2>1. /\ db'[b].status = "Submitted" /\ inner' = inner
        /\ \A x \in Bundles : x # b => db'[x] = db[x] /\ phase'[x] = phase[x]
        /\ phase[b] = "sent" /\ phase'[b] = "inserted"
    BY <1>1, <1>2 DEF InsertRow, NewRow
  <2>2. inner.stage[b] = "Untracked"
    BY <2>1 DEF IInv, Provenance
  <2>3. sweep.todo \subseteq Bundles /\ \A w \in Pending : w.row \in Bundles
    BY PendingTyped DEF IInv, TypeOK, Write
  <2>4. TrackedRowsAreOpen'
    BY <2>1, <2>2 DEF OpenWhileTracked, TrackedRowsAreOpen
  <2>5. \A x \in Bundles : /\ landed'[x] # NoSlot => phase'[x] = "done"
                           /\ rec'.answer[x] # NoAnswer => phase'[x] = "done"
                           /\ phase'[x] = "inserted" => db'[x].status = "Submitted"
                           /\ phase'[x] = "rejecting" => inner'.stage[x] = "Untracked"
    BY <1>0, <2>1 DEF OpenWhileTracked
  <2>6. \A w \in Pending' : /\ phase'[w.row] \notin Early
                            /\ w.to \in TerminalStages => inner'.stage[w.row] = "Untracked"
    BY <1>0, <2>1, <2>3 DEF OpenWhileTracked, Early
  <2>7. \A x \in sweep'.todo : phase'[x] \notin Early /\ inner'.stage[x] = "Untracked"
    BY <1>0, <2>1, <2>3 DEF OpenWhileTracked, Early
  <2> QED BY <2>4, <2>5, <2>6, <2>7 DEF OpenWhileTracked
<1>3. CASE PersistRejection(b)
  <2> DEFINE w == FailedWrite(b, NoSlot, "Rejected")
  <2>1. w \in Write /\ w.row = b
    BY FailedWriteTyped DEF Causes
  <2> HIDE DEF w
  <2>2. Persist(w) /\ phase[b] = "rejecting" /\ inner' = inner
    BY <1>3 DEF PersistRejection, w
  <2>3. RowsCloseDropped
    BY <2>1, <2>2, PersistEffect DEF RowsCloseDropped, OpenWhileTracked, Early
  <2>4. \A x \in Bundles : /\ phase'[x] = "inserted" => phase[x] = "inserted"
                           /\ phase'[x] = "rejecting" => phase[x] = "rejecting"
    BY <1>1, <1>3 DEF PersistRejection
  <2> QED BY <1>0, <2>3, <2>4, OpenKept DEF NewWritesClose
<1>4. CASE db' = db /\ ~InsertRow(b)
  <2>1. \A x \in Bundles : phase'[x] = "inserted" => phase[x] = "inserted"
    BY <1>1, <1>4 DEF Send, InsertRowFails, Track, RecordRejection, PersistRejection,
                      PersistRejectionFails
  <2>2. \A x \in Bundles : phase'[x] = "rejecting"
                               => phase[x] = "rejecting" \/ inner'.stage[x] = "Untracked"
    <3>1. CASE RecordRejection(b)
      <4>1. Fields(inner', {b}, "Untracked", NoSlot, NoVerdict)
        BY <3>1, ForgetFields DEF RecordRejection
      <4> QED BY <1>1, <3>1, <4>1 DEF RecordRejection, Fields
    <3>2. CASE ~RecordRejection(b)
      BY <1>1, <1>4, <3>2 DEF Send, InsertRowFails, Track, PersistRejection,
                              PersistRejectionFails
    <3> QED BY <3>1, <3>2
  <2> QED BY <1>0, <1>4, <2>1, <2>2, OpenKept DEF NewWritesClose, RowsCloseDropped
<1> QED BY <1>2, <1>3, <1>4
        DEF Send, InsertRowFails, Track, RecordRejection, PersistRejectionFails

LEMMA IngestOpen ==
  ASSUME IInv, OpenWhileTracked, [Next]_vars, ~Restart, Ingest
  PROVE  OpenWhileTracked'
<1>0. /\ landed' = landed /\ rec' = rec /\ sweep' = sweep /\ phase' = phase /\ db' = db
  BY DEF Ingest, IngestProcessedSlot, IngestConfirmedSlot, IngestFinalizedSlot, IngestTx,
         cluster, sweeper, client
<1>1. \A b \in Bundles : inner.stage[b] # "Untracked" => phase[b] \notin Early
  BY DEF IInv, Provenance, Early
<1>2. ASSUME NEW n \in Slot, IngestProcessedSlot(n) PROVE NewWritesClose
  BY <1>0, <1>2 DEF IngestProcessedSlot, NewWritesClose, Pending
<1>3. ASSUME NEW n \in Slot, IngestConfirmedSlot(n) PROVE NewWritesClose
  BY <1>0, <1>1, <1>3, ConfirmedEffect, MarksMembers
     DEF NewWritesClose, Pending, TerminalStages
<1>4. ASSUME NEW n \in Slot, IngestFinalizedSlot(n) PROVE NewWritesClose
  BY <1>0, <1>1, <1>4, FinalizedEffect, MarksMembers DEF NewWritesClose, Pending, Fields
<1>5. ASSUME NEW b \in Bundles, IngestTx(b) PROVE NewWritesClose
  <2>1. CASE LandsNow(b)
    <3>1. \A w \in spawned' : w \in spawned \/ (w.row = b /\ w.to = "Processed")
      BY <2>1, MarksMembers DEF LandsNow
    <3>2. phase[b] \notin Early
      BY <1>1, <2>1 DEF LandsNow
    <3> QED BY <1>0, <3>1, <3>2 DEF NewWritesClose, Pending, TerminalStages
  <2>2. CASE FailsNow(b)
    <3>1. Fields(inner', {b}, "Untracked", NoSlot, NoVerdict)
      BY <2>2, ForgetFields DEF FailsNow
    <3>2. phase[b] \notin Early
      BY <1>1, <2>2 DEF FailsNow
    <3>3. \A w \in spawned' : w \in spawned \/ w.row = b
      BY <2>2 DEF FailsNow, FailedWrite
    <3> QED BY <1>0, <3>1, <3>2, <3>3 DEF NewWritesClose, Pending, Fields
  <2>3. CASE Ignored(b)
    BY <1>0, <2>3 DEF Ignored, NewWritesClose, Pending
  <2> QED BY <1>5, <2>1, <2>2, <2>3 DEF IngestTx
<1>6. NewWritesClose
  BY <1>2, <1>3, <1>4, <1>5 DEF Ingest
<1> QED BY <1>0, <1>6, OpenKept DEF RowsCloseDropped

LEMMA PersistCloses ==
  ASSUME IInv, OpenWhileTracked, NEW w \in Pending, Persist(w), inner' = inner
  PROVE  RowsCloseDropped
<1>1. w \in Write
  BY PendingTyped
<1>2. w.to \in OpenStages \cup TerminalStages
  BY <1>1 DEF Write, OpenStages, TerminalStages
<1> QED BY <1>1, <1>2, PersistEffect DEF RowsCloseDropped, OpenWhileTracked

LEMMA TaskOpen ==
  ASSUME IInv, OpenWhileTracked, [Next]_vars, ~Restart, WriteThrough \/ Sweeper
  PROVE  OpenWhileTracked'
<1>0. /\ landed' = landed /\ rec' = rec /\ phase' = phase /\ spawned' \subseteq spawned
  BY DEF WriteThrough, PersistSpawned, LoseSpawned, Sweeper, CheckTimeouts,
         PersistTimeout, PersistTimeoutFails, cluster, client
<1>1. NewWritesClose
  BY <1>0 DEF NewWritesClose, Pending
<1>2. ASSUME NEW w \in spawned, PersistSpawned(w) \/ LoseSpawned(w) PROVE OpenWhileTracked'
  <2>1. sweep' = sweep
    BY <1>2 DEF PersistSpawned, LoseSpawned, sweeper
  <2>2. RowsCloseDropped
    BY <1>2, PersistCloses DEF PersistSpawned, LoseSpawned, Pending, RowsCloseDropped
  <2> QED BY <1>0, <1>1, <2>1, <2>2, OpenKept
<1>3. CASE CheckTimeouts
  <2> DEFINE ids == TimedOut(inner, base, TimeoutSlots)
  <2>1. ids \in SUBSET Bundles /\ \A b \in ids : inner.stage[b] = "Submitted"
    BY DEF TimedOut
  <2> HIDE DEF ids
  <2>2. inner' = Forget(inner, ids) /\ sweep' = [todo |-> ids, ids |-> ids] /\ db' = db
    BY <1>3 DEF CheckTimeouts, ids
  <2>3. \A b \in ids : phase[b] \notin Early /\ inner'.stage[b] = "Untracked"
    BY <2>1, <2>2, ForgetFields DEF Fields, IInv, Provenance, Early
  <2> QED BY <1>0, <1>1, <2>2, <2>3, OpenKept DEF RowsCloseDropped
<1>4. ASSUME NEW b \in Bundles, PersistTimeout(b) PROVE OpenWhileTracked'
  <2> DEFINE w == FailedWrite(b, NoSlot, "NeverLanded")
  <2>1. w \in Write /\ w.row = b
    BY FailedWriteTyped DEF Causes
  <2> HIDE DEF w
  <2>2. Persist(w) /\ b \in sweep.todo /\ inner' = inner
    BY <1>4 DEF PersistTimeout, w
  <2>3. RowsCloseDropped
    BY <2>1, <2>2, PersistEffect DEF RowsCloseDropped, OpenWhileTracked
  <2>4. sweep'.todo \subseteq sweep.todo
    <3>1. sweep \in [todo : SUBSET Bundles, ids : SUBSET Bundles]
      BY DEF IInv, TypeOK
    <3> QED BY <1>4, <3>1 DEF PersistTimeout
  <2> QED BY <1>0, <1>1, <2>3, <2>4, OpenKept
<1>5. CASE PersistTimeoutFails
  BY <1>0, <1>1, <1>5, OpenKept DEF PersistTimeoutFails, RowsCloseDropped
<1> QED BY <1>2, <1>3, <1>4, <1>5 DEF WriteThrough, Sweeper

LEMMA ReconcileOpen ==
  ASSUME IInv, OpenWhileTracked, [Next]_vars, ~Restart, Reconcile
  PROVE  OpenWhileTracked'
<1>0. /\ landed' = landed /\ phase' = phase /\ spawned' = spawned /\ sweep' = sweep
  BY DEF Reconcile, ReconcileSelect, ReconcileAnswered, ReconcileUnparsable,
         ReconcileRpcFails, ReconcileErrored, ReconcileMarked, ReconcilePersist,
         ReconcilePersistFails, ReconcileDone, cluster, client, sweeper
<1>t. rec \in RecType
  BY DEF IInv, TypeOK, RecType
<1>1. CASE \/ ReconcileUnparsable \/ ReconcileRpcFails \/ ReconcilePersistFails
           \/ ReconcileDone
  <2>1. rec'.writes = <<>> /\ db' = db /\ \A b \in Bundles : rec'.answer[b] = NoAnswer
    BY <1>1 DEF ReconcileUnparsable, ReconcileRpcFails, ReconcilePersistFails,
                ReconcileDone, IdleRec
  <2>2. NewWritesClose
    BY <1>0, <2>1, RangeOfNone DEF NewWritesClose, Pending
  <2> QED BY <1>0, <2>1, <2>2, OpenKept DEF RowsCloseDropped
<1>2. CASE ReconcileSelect
  <2>1. rec'.writes = rec.writes /\ rec'.answer = rec.answer /\ db' = db
    BY <1>t, <1>2 DEF ReconcileSelect, RecType
  <2>2. NewWritesClose
    BY <1>0, <2>1 DEF NewWritesClose, Pending
  <2> QED BY <1>0, <2>1, <2>2, OpenKept DEF RowsCloseDropped
<1>3. CASE ReconcileAnswered
  <2>1. /\ rec'.writes = rec.writes /\ db' = db
        /\ \A b \in Bundles : rec'.answer[b] # NoAnswer => landed[b] # NoSlot
    BY <1>t, <1>3 DEF ReconcileAnswered, RecType
  <2>2. NewWritesClose
    BY <1>0, <2>1 DEF NewWritesClose, Pending
  <2>3. \A b \in Bundles : rec'.answer[b] # NoAnswer => phase[b] = "done"
    BY <2>1 DEF OpenWhileTracked
  <2> QED BY <1>0, <2>1, <2>2, <2>3, OpenKept DEF RowsCloseDropped
<1>4. ASSUME NEW b \in Bundles, ReconcileErrored(b) PROVE OpenWhileTracked'
  <2>1. /\ rec'.writes = <<FailedWrite(b, rec.answer[b].slot, "OnChain")>> /\ db' = db
        /\ rec'.answer = [rec.answer EXCEPT ![b] = NoAnswer]
        /\ inner' = Forget(inner, {b}) /\ rec.answer[b] # NoAnswer
    BY <1>t, <1>4 DEF ReconcileErrored, RecType, Answers
  <2>2. phase[b] \notin Early /\ inner'.stage[b] = "Untracked"
    BY <2>1, ForgetFields DEF OpenWhileTracked, Fields, Early
  <2>3. NewWritesClose
    BY <1>0, <2>1, <2>2, RangeOfOne DEF NewWritesClose, Pending, FailedWrite
  <2>4. \A x \in Bundles : rec'.answer[x] \in {rec.answer[x], NoAnswer}
    BY <1>t, <2>1 DEF RecType
  <2> QED BY <1>0, <2>1, <2>3, <2>4, OpenKept DEF RowsCloseDropped
<1>5. ASSUME NEW b \in Bundles, ReconcileMarked(b) PROVE OpenWhileTracked'
  <2>1. /\ rec'.answer = [rec.answer EXCEPT ![b] = NoAnswer]
        /\ \A w \in Range(rec'.writes) : MarkedWrite(w, b, rec.answer[b])
    BY <1>5, MarkedEffect
  <2>2. NewWritesClose
    <3>1. inner.stage[b] # "Untracked" => phase[b] \notin Early
      BY DEF IInv, Provenance, Early
    <3> QED BY <1>0, <2>1, <3>1 DEF NewWritesClose, Pending, MarkedWrite, TerminalStages, Levels
  <2>3. \A x \in Bundles : rec'.answer[x] \in {rec.answer[x], NoAnswer}
    BY <1>t, <2>1 DEF RecType
  <2>4. db' = db
    BY <1>5 DEF ReconcileMarked
  <2> QED BY <1>0, <2>2, <2>3, <2>4, OpenKept DEF RowsCloseDropped
<1>6. CASE ReconcilePersist
  <2>1. /\ rec.writes # <<>> /\ Persist(Head(rec.writes)) /\ inner' = inner
        /\ rec'.writes = Tail(rec.writes) /\ rec'.answer = rec.answer
    BY <1>t, <1>6 DEF ReconcilePersist, RecType
  <2>2. NewWritesClose
    BY <1>0, <2>1, NextWrite DEF NewWritesClose, Pending
  <2>3. RowsCloseDropped
    BY <2>1, NextWrite, PersistCloses DEF Pending
  <2> QED BY <1>0, <2>1, <2>2, <2>3, OpenKept
<1> QED BY <1>1, <1>2, <1>3, <1>4, <1>5, <1>6 DEF Reconcile

LEMMA OtherOpen ==
  ASSUME ~LandsEarly, IInv, OpenWhileTracked, [Next]_vars, ~Restart,
         Cluster \/ Connection \/ JitoPollers \/ UNCHANGED vars
  PROVE  OpenWhileTracked'
<1>0. /\ spawned' = spawned /\ rec' = rec /\ sweep' = sweep /\ phase' = phase
      /\ Pending' = Pending
  BY DEF vars, Cluster, AdvanceHead, ConfirmSlots, FinalizeSlots, Land, Fork, Connection,
         Disconnect, Reconnect, JitoPollers, RecordJito, PersistJito, PersistJitoFails,
         client, sweeper, Pending
<1>1. db \in [Bundles -> Row] /\ landed \in [Bundles -> Slot \cup {NoSlot}]
  BY DEF IInv, TypeOK
<1>2. \A b \in Bundles : db'[b].status = db[b].status
  <2>1. CASE JitoPollers
    BY <1>1, <2>1 DEF JitoPollers, RecordJito, PersistJito, PersistJitoFails, Row
  <2>2. CASE Cluster \/ Connection \/ UNCHANGED vars
    BY <2>2 DEF vars, Cluster, AdvanceHead, ConfirmSlots, FinalizeSlots, Land, Fork,
                Connection, Disconnect, Reconnect
  <2> QED BY <2>1, <2>2
<1>3. \A b \in Bundles : landed'[b] # NoSlot => landed[b] # NoSlot \/ phase[b] = "done"
  <2>1. ASSUME NEW b \in Bundles, Land(b) \/ Fork(b)
        PROVE  \A x \in Bundles : landed'[x] # NoSlot => landed[x] # NoSlot \/ phase[x] = "done"
    BY <1>1, <2>1 DEF Land, Fork
  <2>2. CASE landed' = landed
    BY <2>2
  <2> QED BY <2>1, <2>2
          DEF vars, Cluster, AdvanceHead, ConfirmSlots, FinalizeSlots, Connection,
              Disconnect, Reconnect, JitoPollers, RecordJito, PersistJito,
              PersistJitoFails, cluster
<1> QED BY <1>0, <1>2, <1>3, OpenKept DEF NewWritesClose, RowsCloseDropped

LEMMA RestartOpen ==
  ASSUME IInv, OpenWhileTracked, [Next]_vars, Restart
  PROVE  OpenWhileTracked'
<1>1. /\ Pending' = {} /\ sweep'.todo = {} /\ db' = db /\ landed' = landed
      /\ \A b \in Bundles : rec'.answer[b] = NoAnswer
      /\ \A b \in Bundles : phase'[b] \in {"new", "done"}
  BY RangeOfNone DEF Restart, IdleRec, Pending, cluster
<1>2. TrackedRowsAreOpen'
  BY <1>1, HydratedEffect DEF TrackedRowsAreOpen
<1> QED BY <1>1, <1>2, OnceTracked DEF OpenWhileTracked

LEMMA StepOpen == ~LandsEarly => (IInv /\ OpenWhileTracked /\ [Next]_vars => OpenWhileTracked')
<1> SUFFICES ASSUME ~LandsEarly, IInv, OpenWhileTracked, [Next]_vars PROVE OpenWhileTracked'
  OBVIOUS
<1>1. CASE Restart
  BY <1>1, RestartOpen
<1>2. CASE ~Restart
  BY <1>2, SubmissionOpen, IngestOpen, TaskOpen, ReconcileOpen, OtherOpen DEF Next
<1> QED BY <1>1, <1>2

LEMMA OpenInvariance == ~LandsEarly => (Spec => []OpenWhileTracked)
<1> SUFFICES ASSUME ~LandsEarly PROVE Spec => []OpenWhileTracked
  OBVIOUS
<1>1. Init => OpenWhileTracked
  <2> SUFFICES ASSUME Init PROVE OpenWhileTracked
    OBVIOUS
  <2>1. Pending = {}
    BY RangeOfNone DEF Init, IdleRec, Pending
  <2> QED BY <2>1 DEF Init, EmptyInner, IdleRec, OpenWhileTracked, TrackedRowsAreOpen
<1>2. IInv /\ OpenWhileTracked /\ [Next]_vars => OpenWhileTracked'
  BY StepOpen
<1> QED BY <1>1, <1>2, Invariance, PTL DEF Spec

(* If bundles land after record_submission has returned, a row still       *)
(* tracked is open in the table, through late and lost writes, forks,      *)
(* reconcile passes, sweeps and restarts: whatever closes a row drops it   *)
(* first (forget before persist in every caller).                          *)
THEOREM TrackedRowsStayOpen ==
  ASSUME ~LandsEarly
  PROVE  Spec => []TrackedRowsAreOpen
<1>1. OpenWhileTracked => TrackedRowsAreOpen
  BY DEF OpenWhileTracked
<1>2. Spec => []OpenWhileTracked
  BY OpenInvariance
<1> QED BY <1>1, <1>2, PTL

-----------------------------------------------------------------------------
(* A sweep never takes a row that landed. While the stream has no gap, the *)
(* clock runs at most StreamLag ahead of a landing whose status is still   *)
(* to come; and a landing is in the life of its blockhash. So a row that   *)
(* is still Submitted when the clock has passed the timeout has not        *)
(* landed, and the chain is past the slots it could land in.               *)
Behind(b) == landed[b] = NoSlot /\ head > base[b] + BlockhashLife

InTime(b) ==
  landed[b] # NoSlot
    => /\ landed[b] <= base[b] + BlockhashLife
       /\ b \notin heard => inner.lastObserved <= landed[b] + StreamLag

StatusesInTime ==
  /\ connected
  /\ finalized <= confirmed /\ confirmed <= head /\ inner.lastObserved <= head
  /\ \A b \in Bundles : InTime(b)
  /\ \A b \in heard : landed[b] # NoSlot /\ inner.stage[b] # "Submitted"
  /\ \A b \in sweep.ids \cup retried : Behind(b) /\ phase[b] \notin Early

(* The clock moves by slot updates only.                                   *)
LEMMA MarkedClock ==
  ASSUME IInv, NEW b \in Bundles, ReconcileMarked(b)
  PROVE  inner'.lastObserved = inner.lastObserved
<1> DEFINE s == rec.answer[b].slot
           m1 == IF MissedProcessed(b) THEN MarkProcessed(inner, b, s) ELSE inner
           m2 == IF MissedConfirmed(b, m1) THEN MarkConfirmed(m1, {b}) ELSE m1
           m3 == IF MissedFinalized(b, m2) THEN Forget(m2, {b}) ELSE m2
<1>1. inner' = m3
  BY DEF ReconcileMarked
<1>2. m1.lastObserved = inner.lastObserved /\ DOMAIN m1 = DOMAIN inner
  BY DEF MarkProcessed, IInv, TypeOK, Inner
<1> HIDE DEF m1
<1>3. m2.lastObserved = m1.lastObserved /\ DOMAIN m2 = DOMAIN m1
  BY <1>2 DEF MarkConfirmed, IInv, TypeOK, Inner
<1> HIDE DEF m2
<1>4. m3.lastObserved = m2.lastObserved
  BY <1>2, <1>3 DEF Forget, IInv, TypeOK, Inner
<1> QED BY <1>1, <1>2, <1>3, <1>4

LEMMA SlotClock ==
  ASSUME IInv, NEW n \in Slot,
         IngestProcessedSlot(n) \/ IngestConfirmedSlot(n) \/ IngestFinalizedSlot(n)
  PROVE  inner'.lastObserved = Later(inner.lastObserved, n)
<1>1. inner \in Inner
  BY DEF IInv, TypeOK
<1> QED BY <1>1 DEF IngestProcessedSlot, IngestConfirmedSlot, IngestFinalizedSlot, Observe,
              OnConfirmed, OnFinalized, MarkConfirmed, Forget, Inner

(* Steps that leave chain, stream and clock alone.                         *)
LEMMA InTimeKept ==
  ASSUME IInv, StatusesInTime, OpenWhileTracked, [Next]_vars, ~Restart,
         UNCHANGED <<head, confirmed, finalized, landed, connected, heard, base>>,
         inner'.lastObserved = inner.lastObserved,
         sweep'.ids \cup retried' \subseteq sweep.ids \cup retried
  PROVE  StatusesInTime'
<1>1. /\ heard \subseteq Bundles /\ sweep.ids \cup retried \subseteq Bundles
  BY DEF IInv, TypeOK
<1>2. \A b \in heard : inner'.stage[b] # "Submitted"
  BY <1>1, Forward DEF StatusesInTime, OpenWhileTracked, StageStep, MayBecome
<1>3. \A b \in sweep.ids \cup retried : phase'[b] \notin Early
  BY <1>1, OnceTracked DEF StatusesInTime
<1> QED BY <1>2, <1>3 DEF StatusesInTime, InTime, Behind

LEMMA ClusterInTime ==
  ASSUME ~LandsEarly, IInv, StatusesInTime, OpenWhileTracked, Cluster
  PROVE  StatusesInTime'
<1> USE DEF link, client, sweeper
<1>0. /\ head \in Nat /\ confirmed \in Nat /\ finalized \in Nat /\ inner.lastObserved \in Nat
      /\ landed \in [Bundles -> Slot \cup {NoSlot}] /\ base \in [Bundles -> Nat]
      /\ \A n \in Slot : n \in Nat /\ n # NoSlot
      /\ heard \subseteq Bundles /\ sweep.ids \cup retried \subseteq Bundles
      /\ head \in Slot
      /\ BlockhashLife \in Nat /\ StreamLag \in Nat
  BY LifecycleAssumption DEF IInv, TypeOK, Slot, NoSlot, Inner
<1>1. CASE AdvanceHead
  BY <1>0, <1>1 DEF AdvanceHead, StatusesInTime, InTime, Behind
<1>2. CASE ConfirmSlots
  BY <1>0, <1>2 DEF ConfirmSlots, StatusesInTime, InTime, Behind
<1>3. CASE FinalizeSlots
  BY <1>0, <1>3 DEF FinalizeSlots, StatusesInTime, InTime, Behind
<1>4. ASSUME NEW b \in Bundles, Land(b) PROVE StatusesInTime'
  <2>1. /\ landed[b] = NoSlot /\ head <= base[b] + BlockhashLife
        /\ landed' = [landed EXCEPT ![b] = head]
        /\ UNCHANGED <<head, confirmed, finalized, connected, heard, base, phase, inner,
                       sweep, retried>>
    BY <1>4 DEF Land
  <2>2. b \notin sweep.ids \cup retried /\ b \notin heard
    BY <1>0, <2>1 DEF StatusesInTime, Behind
  <2>3. InTime(b)'
    BY <1>0, <2>1 DEF StatusesInTime, InTime
  <2>4. \A x \in Bundles : x # b => InTime(x)'
    BY <1>0, <2>1 DEF StatusesInTime, InTime
  <2>5. \A x \in heard : landed'[x] # NoSlot /\ inner'.stage[x] # "Submitted"
    BY <1>0, <2>1, <2>2 DEF StatusesInTime
  <2>6. \A x \in sweep.ids \cup retried : Behind(x)'
    BY <1>0, <2>1, <2>2 DEF StatusesInTime, Behind
  <2> QED BY <2>1, <2>3, <2>4, <2>5, <2>6 DEF StatusesInTime
<1>5. ASSUME NEW b \in Bundles, Fork(b) PROVE StatusesInTime'
  <2>1. /\ landed' = [landed EXCEPT ![b] = NoSlot] /\ heard' = heard \ {b}
        /\ UNCHANGED <<head, confirmed, finalized, connected, base, phase, inner,
                       sweep, retried>>
    BY <1>5 DEF Fork
  <2>2. \A x \in Bundles : InTime(x)'
    BY <1>0, <2>1 DEF StatusesInTime, InTime
  <2>3. \A x \in heard' : landed'[x] # NoSlot /\ inner'.stage[x] # "Submitted"
    BY <1>0, <2>1 DEF StatusesInTime
  <2>4. \A x \in sweep.ids \cup retried : Behind(x)'
    BY <1>0, <2>1 DEF StatusesInTime, Behind
  <2> QED BY <2>1, <2>2, <2>3, <2>4 DEF StatusesInTime
<1> QED BY <1>1, <1>2, <1>3, <1>4, <1>5 DEF Cluster

LEMMA SubmissionInTime ==
  ASSUME IInv, StatusesInTime, OpenWhileTracked, [Next]_vars, ~Restart, Submission
  PROVE  StatusesInTime'
<1> USE DEF cluster, link, client, sweeper
<1> SUFFICES ASSUME NEW b \in Bundles,
                    \/ Send(b) \/ InsertRow(b) \/ InsertRowFails(b) \/ Track(b)
                    \/ RecordRejection(b) \/ PersistRejection(b)
                    \/ PersistRejectionFails(b)
             PROVE StatusesInTime'
  BY DEF Submission
<1>0. inner \in Inner /\ base \in [Bundles -> Nat] /\ phase \in [Bundles -> Phases]
      /\ sweep.ids \cup retried \subseteq Bundles
  BY DEF IInv, TypeOK
<1>1. CASE Send(b)
  <2>1. /\ phase[b] = "new" /\ phase' = [phase EXCEPT ![b] = "sent"]
        /\ base' = [base EXCEPT ![b] = inner.lastObserved]
        /\ UNCHANGED <<head, confirmed, finalized, landed, connected, heard, inner,
                       sweep, retried>>
    BY <1>1 DEF Send
  <2>2. landed[b] = NoSlot /\ b \notin sweep.ids \cup retried
    BY <2>1 DEF OpenWhileTracked, StatusesInTime, Early
  <2>3. \A x \in Bundles : InTime(x)'
    BY <1>0, <2>1, <2>2 DEF StatusesInTime, InTime
  <2>4. \A x \in sweep.ids \cup retried : Behind(x)' /\ phase'[x] \notin Early
    BY <1>0, <2>1, <2>2 DEF StatusesInTime, Behind
  <2> QED BY <2>1, <2>3, <2>4 DEF StatusesInTime
<1>2. CASE ~Send(b)
  <2>1. inner'.lastObserved = inner.lastObserved
    BY <1>0, <1>2 DEF InsertRow, InsertRowFails, Track, RecordRejection, PersistRejection,
                PersistRejectionFails, Insert, Forget, Inner
  <2>2. UNCHANGED <<cluster, connected, heard, base, sweep, retried>>
    BY <1>2 DEF InsertRow, InsertRowFails, Track, RecordRejection, PersistRejection,
                PersistRejectionFails
  <2> QED BY <2>1, <2>2, InTimeKept
<1> QED BY <1>1, <1>2

LEMMA IngestInTime ==
  ASSUME IInv, StatusesInTime, OpenWhileTracked, [Next]_vars, ~Restart, Ingest
  PROVE  StatusesInTime'
<1> USE DEF cluster, link, client, sweeper
<1>0. /\ head \in Nat /\ confirmed \in Nat /\ finalized \in Nat /\ inner.lastObserved \in Nat
      /\ \A n \in Slot : n \in Nat
      /\ heard \subseteq Bundles /\ sweep.ids \cup retried \subseteq Bundles /\ inner \in Inner
      /\ landed \in [Bundles -> Slot \cup {NoSlot}]
  BY DEF IInv, TypeOK, Slot, Inner
<1>1. ASSUME NEW n \in Slot,
             IngestProcessedSlot(n) \/ IngestConfirmedSlot(n) \/ IngestFinalizedSlot(n)
      PROVE  StatusesInTime'
  <2>1. /\ UNCHANGED <<cluster, link, client, sweeper>> /\ InStep(n)
        /\ n <= head \/ n <= confirmed \/ n <= finalized
    BY <1>1 DEF IngestProcessedSlot, IngestConfirmedSlot, IngestFinalizedSlot
  <2>2. n <= head
    BY <1>0, <2>1 DEF StatusesInTime
  <2>3. inner'.lastObserved \in {inner.lastObserved, n}
    BY <1>1, SlotClock DEF Later
  <2>4. \A b \in heard : inner'.stage[b] # "Submitted"
    BY <1>0, Forward DEF StatusesInTime, OpenWhileTracked, StageStep, MayBecome
  <2>5. \A b \in Bundles : InTime(b)'
    BY <2>1, <2>3 DEF StatusesInTime, InTime, InStep, Unheard
  <2> QED BY <2>1, <2>2, <2>3, <2>4, <2>5 DEF StatusesInTime, Behind
<1>2. ASSUME NEW b \in Bundles, IngestTx(b) PROVE StatusesInTime'
  <2>1. /\ UNCHANGED <<cluster, connected, client, sweeper>> /\ heard' = heard \cup {b}
        /\ landed[b] # NoSlot
    BY <1>2 DEF IngestTx
  <2>2. inner'.lastObserved = inner.lastObserved
    BY <1>0, <1>2 DEF IngestTx, LandsNow, FailsNow, Ignored, MarkProcessed, Forget, Inner
  <2>3. inner'.stage[b] # "Submitted"
    <3>1. CASE LandsNow(b)
      BY <1>0, <2>1, <3>1, ProcessedFields DEF LandsNow, Fields
    <3>2. CASE FailsNow(b)
      BY <3>2, ForgetFields DEF FailsNow, Fields
    <3>3. CASE Ignored(b)
      BY <3>3 DEF Ignored, IInv, IndicesAgree, Indexed
    <3> QED BY <1>2, <3>1, <3>2, <3>3 DEF IngestTx
  <2>4. \A x \in heard : inner'.stage[x] # "Submitted"
    BY <1>0, Forward DEF StatusesInTime, OpenWhileTracked, StageStep, MayBecome
  <2>5. \A x \in Bundles : InTime(x)'
    BY <2>1, <2>2 DEF StatusesInTime, InTime
  <2> QED BY <2>1, <2>2, <2>3, <2>4, <2>5 DEF StatusesInTime, Behind
<1> QED BY <1>1, <1>2 DEF Ingest

LEMMA SweeperInTime ==
  ASSUME BlockhashLife + StreamLag <= TimeoutSlots,
         IInv, StatusesInTime, OpenWhileTracked, [Next]_vars, ~Restart, Sweeper
  PROVE  StatusesInTime'
<1> USE DEF cluster, link, client, sweeper
<1>0. inner \in Inner /\ sweep \in [todo : SUBSET Bundles, ids : SUBSET Bundles]
  BY DEF IInv, TypeOK
<1>1. CASE CheckTimeouts
  <2> DEFINE ids == TimedOut(inner, base, TimeoutSlots)
  <2>1. /\ sweep' = [todo |-> ids, ids |-> ids] /\ inner' = Forget(inner, ids)
        /\ UNCHANGED <<cluster, link, client, retried>>
    BY <1>1 DEF CheckTimeouts
  <2>2. ASSUME NEW b \in ids PROVE b \in Bundles /\ Behind(b) /\ phase[b] \notin Early
    <3>1. /\ b \in Bundles /\ inner.stage[b] = "Submitted"
          /\ inner.lastObserved > base[b] + TimeoutSlots
      BY DEF TimedOut
    <3>2. /\ head \in Nat /\ inner.lastObserved \in Nat /\ base[b] \in Nat
          /\ landed[b] \in Nat
          /\ BlockhashLife \in Nat /\ StreamLag \in Nat /\ TimeoutSlots \in Nat
      BY <3>1, LifecycleAssumption DEF IInv, TypeOK, Slot, NoSlot, Inner
    <3>3. landed[b] = NoSlot
      <4> SUFFICES ASSUME landed[b] # NoSlot PROVE FALSE
        OBVIOUS
      <4>1. b \notin heard /\ InTime(b)
        BY <3>1 DEF StatusesInTime
      <4>2. /\ landed[b] <= base[b] + BlockhashLife
            /\ inner.lastObserved <= landed[b] + StreamLag
        BY <4>1 DEF InTime
      <4> QED BY <3>1, <3>2, <4>2
    <3>4. head > base[b] + BlockhashLife
      BY <3>1, <3>2 DEF StatusesInTime
    <3>5. phase[b] \notin Early
      BY <3>1 DEF IInv, Provenance, Early
    <3> QED BY <3>1, <3>3, <3>4, <3>5 DEF Behind
  <2> HIDE DEF ids
  <2>3. inner'.lastObserved = inner.lastObserved
    BY <1>0, <2>1 DEF Forget, Inner
  <2>4. \A b \in heard : inner'.stage[b] # "Submitted"
    <3>1. heard \subseteq Bundles
      BY DEF IInv, TypeOK
    <3> QED BY <3>1, Forward DEF StatusesInTime, OpenWhileTracked, StageStep, MayBecome
  <2>5. \A b \in ids \cup retried : Behind(b)' /\ phase'[b] \notin Early
    BY <2>1, <2>2 DEF StatusesInTime, Behind
  <2> QED BY <2>1, <2>3, <2>4, <2>5 DEF StatusesInTime, InTime
<1>2. ASSUME NEW b \in Bundles, PersistTimeout(b) PROVE StatusesInTime'
  <2>1. sweep'.ids \cup retried' \subseteq sweep.ids \cup retried
    BY <1>0, <1>2 DEF PersistTimeout
  <2> QED BY <1>2, <2>1, InTimeKept DEF PersistTimeout
<1>3. CASE PersistTimeoutFails
  BY <1>3, InTimeKept DEF PersistTimeoutFails
<1> QED BY <1>1, <1>2, <1>3 DEF Sweeper

LEMMA OtherInTime ==
  ASSUME IInv, StatusesInTime, OpenWhileTracked, [Next]_vars, ~Restart,
         JitoPollers \/ WriteThrough \/ Reconcile \/ UNCHANGED vars
  PROVE  StatusesInTime'
<1> USE DEF cluster, link, client, sweeper
<1>0. inner \in Inner
  BY DEF IInv, TypeOK
<1>1. UNCHANGED <<cluster, connected, heard, base, sweep, retried>>
  BY DEF JitoPollers, RecordJito, PersistJito, PersistJitoFails, WriteThrough,
         PersistSpawned, LoseSpawned, Reconcile, ReconcileSelect, ReconcileAnswered,
         ReconcileUnparsable, ReconcileRpcFails, ReconcileErrored, ReconcileMarked,
         ReconcilePersist, ReconcilePersistFails, ReconcileDone, vars
<1>2. inner'.lastObserved = inner.lastObserved
  <2>1. CASE JitoPollers
    BY <1>0, <2>1 DEF JitoPollers, RecordJito, PersistJito, PersistJitoFails, Inner
  <2>2. CASE Reconcile
    <3>1. ASSUME NEW b \in Bundles, ReconcileMarked(b)
          PROVE  inner'.lastObserved = inner.lastObserved
      BY <1>0, <3>1, MarkedClock
    <3>2. ASSUME NEW b \in Bundles, ReconcileErrored(b)
          PROVE  inner'.lastObserved = inner.lastObserved
      <4>1. inner' = Forget(inner, {b})
        BY <3>2 DEF ReconcileErrored
      <4> QED BY <1>0, <4>1 DEF Forget, Inner
    <3>3. CASE ReconcileSelect
      <4>1. UNCHANGED inner
        BY <3>3 DEF ReconcileSelect
      <4> QED BY <4>1
    <3>4. CASE ReconcilePersist \/ ReconcilePersistFails \/ ReconcileDone
      <4>1. UNCHANGED inner
        BY <3>4 DEF ReconcilePersist, ReconcilePersistFails, ReconcileDone
      <4> QED BY <4>1
    <3>5. CASE ReconcileAnswered \/ ReconcileUnparsable \/ ReconcileRpcFails
      <4>1. UNCHANGED inner
        BY <3>5 DEF ReconcileAnswered, ReconcileUnparsable, ReconcileRpcFails
      <4> QED BY <4>1
    <3> QED BY <2>2, <3>1, <3>2, <3>3, <3>4, <3>5 DEF Reconcile
  <2> QED BY <2>1, <2>2 DEF WriteThrough, PersistSpawned, LoseSpawned, vars
<1> QED BY <1>1, <1>2, InTimeKept

LEMMA StepInTime ==
  ASSUME ~LandsEarly, {"gap", "crash"} \cap FaultKinds = {},
         BlockhashLife + StreamLag <= TimeoutSlots
  PROVE  IInv /\ StatusesInTime /\ OpenWhileTracked /\ [Next]_vars => StatusesInTime'
<1> SUFFICES ASSUME IInv, StatusesInTime, OpenWhileTracked, [Next]_vars PROVE StatusesInTime'
  OBVIOUS
<1>1. ~Restart /\ ~Connection
  BY DEF Restart, Inject, Connection, Disconnect, Reconnect, StatusesInTime
<1> QED BY <1>1, ClusterInTime, SubmissionInTime, IngestInTime, SweeperInTime, OtherInTime
        DEF Next

(* What the sweep says never landed has not landed and no longer can, so   *)
(* its retry cannot land the same intent twice: if the stream keeps its    *)
(* connection, the process its memory, and timeout_slots covers the life   *)
(* of a blockhash and the lag of the statuses; through lost writes, failed *)
(* RPCs and forks (check_timeouts, apply_event). Each of the hypotheses is *)
(* needed: the gap is the one the run lifecycle_gap shows.                 *)
THEOREM SweptNeverLanded ==
  ASSUME ~LandsEarly, {"gap", "crash"} \cap FaultKinds = {},
         BlockhashLife + StreamLag <= TimeoutSlots
  PROVE  Spec => []RetriedNeverLanded
<1>1. Init => StatusesInTime
  BY DEF Init, EmptyInner, StatusesInTime, InTime
<1>2. StatusesInTime => RetriedNeverLanded
  BY DEF StatusesInTime, Behind, RetriedNeverLanded
<1>3. IInv /\ StatusesInTime /\ OpenWhileTracked /\ [Next]_vars => StatusesInTime'
  BY StepInTime
<1>4. Spec => []OpenWhileTracked
  BY OpenInvariance
<1> QED BY <1>1, <1>2, <1>3, <1>4, Invariance, PTL DEF Spec

-----------------------------------------------------------------------------
(* The table implements Commitment when the stream waits for its writes    *)
(* and no write fails: then a row has at most one write under way, the     *)
(* next of its lifecycle, and is otherwise where memory has it. Without a  *)
(* gap or a crash the reconcile task is never woken.                       *)
Due(w) ==
  LET b == w.row IN
  /\ phase[b] \notin Early /\ b \notin refused /\ b \notin sweep.todo
  /\ w.to = "Processed" => db[b].status = "Submitted" /\ inner.stage[b] = "Processed"
  /\ w.to = "Confirmed" => db[b].status = "Processed" /\ inner.stage[b] = "Confirmed"
  /\ w.to = "Finalized" => /\ db[b].status \in {"Processed", "Confirmed"}
                           /\ inner.stage[b] = "Untracked"
  /\ w.to = "Failed" => /\ db[b].status \in {"Submitted", "Processed"}
                        /\ inner.stage[b] = "Untracked"

Settled(b) == \A w \in spawned : w.row # b

RowInStep(b) ==
  /\ phase[b] \in {"new", "sent"} => db[b].status = "Absent"
  /\ phase[b] = "new" => landed[b] = NoSlot /\ b \notin refused
  /\ phase[b] = "inserted" => db[b].status = "Submitted"
  /\ phase[b] \in {"tracked", "rejecting"}
       => b \in refused /\ db[b].status \in {"Submitted", "Failed"}
  /\ phase[b] = "rejecting" => inner.stage[b] = "Untracked"
  /\ b \in refused => landed[b] = NoSlot /\ inner.stage[b] \in {"Submitted", "Untracked"}
  /\ b \in sweep.todo => /\ phase[b] \notin Early /\ inner.stage[b] = "Untracked"
                         /\ db[b].status \in {"Submitted", "Failed"}
  /\ inner.stage[b] # "Untracked" /\ Settled(b) => db[b].status = inner.stage[b]

Undisturbed == connected /\ ~reconnects /\ rec.pc = "idle" /\ rec.writes = <<>>

WritesInTurn ==
  /\ Undisturbed
  /\ \A v, w \in spawned : v.row = w.row => v = w
  /\ \A w \in spawned : Due(w)
  /\ \A b \in Bundles : RowInStep(b)

(* A step of the table: of at most one row, to what may follow.            *)
StatusKept(b) == db'[b].status = db[b].status

TableStep ==
  \/ \A b \in Bundles : StatusKept(b)
  \/ \E b \in Bundles : /\ db'[b].status \in Stored!After(db[b].status)
                        /\ \A x \in Bundles \ {b} : StatusKept(x)

LEMMA TableStepImplements ==
  TableStep => Stored!Next \/ UNCHANGED [b \in Bundles |-> db[b].status]
<1> SUFFICES ASSUME TableStep
             PROVE  Stored!Next \/ UNCHANGED [b \in Bundles |-> db[b].status]
  OBVIOUS
<1>1. CASE \A b \in Bundles : StatusKept(b)
  BY <1>1 DEF StatusKept
<1>2. ASSUME NEW b \in Bundles, db'[b].status \in Stored!After(db[b].status),
             \A x \in Bundles \ {b} : StatusKept(x)
      PROVE  Stored!Next
  <2>1. [x \in Bundles |-> db'[x].status]
          = [[x \in Bundles |-> db[x].status] EXCEPT ![b] = db'[b].status]
    BY <1>2 DEF StatusKept
  <2>2. Stored!After([x \in Bundles |-> db[x].status][b]) = Stored!After(db[b].status)
    OBVIOUS
  <2> QED BY <1>2, <2>1, <2>2 DEF Stored!Next, Stored!Move
<1> QED BY <1>1, <1>2 DEF TableStep

(* What a step leaves alone stays in step.                                 *)
SameRow(b) ==
  /\ phase'[b] = phase[b] /\ StatusKept(b) /\ inner'.stage[b] = inner.stage[b]
  /\ b \in refused' <=> b \in refused
  /\ b \in sweep'.todo <=> b \in sweep.todo

LEMMA RowStaysInStep ==
  ASSUME NEW b \in Bundles, RowInStep(b), SameRow(b),
         landed'[b] # NoSlot => landed[b] # NoSlot \/ (phase[b] # "new" /\ b \notin refused),
         Settled(b)' => Settled(b)
  PROVE  RowInStep(b)'
BY DEF RowInStep, SameRow, StatusKept, Early

LEMMA DueStays ==
  ASSUME NEW w \in spawned, Due(w), SameRow(w.row)
  PROVE  Due(w)'
BY DEF Due, SameRow, StatusKept, Early

(* The steps that touch neither the table nor what decides on it.          *)
LEMMA OtherInTurn ==
  ASSUME IInv, WritesInTurn, Cluster \/ JitoPollers \/ UNCHANGED vars
  PROVE  WritesInTurn' /\ TableStep
<1>0. /\ UNCHANGED <<phase, refused, spawned, sweep, rec, connected, reconnects>>
      /\ db \in [Bundles -> Row] /\ landed \in [Bundles -> Slot \cup {NoSlot}]
  BY DEF IInv, TypeOK, vars, Cluster, AdvanceHead, ConfirmSlots, FinalizeSlots, Land, Fork,
         JitoPollers, RecordJito, PersistJito, PersistJitoFails, client, sweeper, link
<1>1. inner'.stage = inner.stage
  <2>1. inner \in Inner
    BY DEF IInv, TypeOK
  <2> QED BY <2>1 DEF vars, Cluster, AdvanceHead, ConfirmSlots, FinalizeSlots, Land, Fork,
                      JitoPollers, RecordJito, PersistJito, PersistJitoFails, Inner
<1>2. \A b \in Bundles : StatusKept(b)
  <2>1. CASE JitoPollers
    BY <1>0, <2>1 DEF JitoPollers, RecordJito, PersistJito, PersistJitoFails, StatusKept, Row
  <2>2. CASE Cluster \/ UNCHANGED vars
    BY <2>2 DEF vars, Cluster, AdvanceHead, ConfirmSlots, FinalizeSlots, Land, Fork, StatusKept
  <2> QED BY <2>1, <2>2
<1>3. \A b \in Bundles :
        landed'[b] # NoSlot => landed[b] # NoSlot \/ (phase[b] # "new" /\ b \notin refused)
  <2>1. ASSUME NEW x \in Bundles, Land(x) \/ Fork(x)
        PROVE  \A b \in Bundles :
                 landed'[b] # NoSlot => landed[b] # NoSlot \/ (phase[b] # "new" /\ b \notin refused)
    BY <1>0, <2>1 DEF Land, Fork
  <2>2. CASE landed' = landed
    BY <2>2
  <2> QED BY <2>1, <2>2 DEF vars, Cluster, AdvanceHead, ConfirmSlots, FinalizeSlots,
                            JitoPollers, RecordJito, PersistJito, PersistJitoFails, cluster
<1>4. \A b \in Bundles : SameRow(b) /\ (Settled(b)' => Settled(b))
  BY <1>0, <1>1, <1>2 DEF SameRow, Settled
<1>5. \A b \in Bundles : RowInStep(b)'
  BY <1>3, <1>4, RowStaysInStep DEF WritesInTurn
<1>6. \A w \in spawned' : Due(w)'
  <2>1. \A w \in spawned : w.row \in Bundles
    BY DEF IInv, TypeOK, Write
  <2> QED BY <1>0, <1>4, <2>1, DueStays DEF WritesInTurn
<1> QED BY <1>0, <1>2, <1>5, <1>6 DEF WritesInTurn, Undisturbed, TableStep

(* A step of one row of the submitting task or the sweeper.                *)
LEMMA OneRow ==
  ASSUME IInv, WritesInTurn, NEW b \in Bundles,
         spawned' = spawned, landed' = landed, UNCHANGED <<connected, reconnects, rec>>,
         Settled(b), RowInStep(b)',
         StatusKept(b) \/ db'[b].status \in Stored!After(db[b].status),
         \A x \in Bundles \ {b} : SameRow(x)
  PROVE  WritesInTurn' /\ TableStep
<1>1. \A x \in Bundles : RowInStep(x)'
  BY RowStaysInStep DEF WritesInTurn, Settled
<1>2. \A w \in spawned' : Due(w)'
  <2>1. \A w \in spawned : w.row \in Bundles \ {b}
    BY DEF IInv, TypeOK, Write, Settled
  <2> QED BY <2>1, DueStays DEF WritesInTurn
<1>3. TableStep
  BY DEF TableStep, SameRow
<1> QED BY <1>1, <1>2, <1>3 DEF WritesInTurn, Undisturbed

LEMMA SubmissionInTurn ==
  ASSUME "write" \notin FaultKinds, IInv, WritesInTurn, Submission
  PROVE  WritesInTurn' /\ TableStep
<1> SUFFICES ASSUME NEW b \in Bundles,
                    \/ Send(b) \/ InsertRow(b) \/ Track(b)
                    \/ RecordRejection(b) \/ PersistRejection(b)
             PROVE WritesInTurn' /\ TableStep
  BY DEF Submission, InsertRowFails, PersistRejectionFails, Inject
<1>0. /\ spawned' = spawned /\ landed' = landed /\ UNCHANGED <<connected, reconnects, rec>>
      /\ sweep' = sweep
  BY DEF Send, InsertRow, Track, RecordRejection, PersistRejection, cluster, link, sweeper
<1>t. /\ phase \in [Bundles -> Phases] /\ db \in [Bundles -> Row]
      /\ refused \subseteq Bundles
  BY DEF IInv, TypeOK
<1>r. /\ RowInStep(b)
      /\ phase[b] \in {"new", "sent", "inserted"} => inner.stage[b] = "Untracked"
      /\ phase[b] \in Early \/ b \in refused => Settled(b)
  BY DEF WritesInTurn, IInv, Provenance, Due, Settled
<1>1. CASE Send(b)
  <2>1. /\ phase'[b] = "sent" /\ phase[b] = "new" /\ inner' = inner /\ db' = db
        /\ \A x \in Bundles \ {b} : phase'[x] = phase[x] /\ (x \in refused' <=> x \in refused)
    BY <1>t, <1>1 DEF Send
  <2>2. \A x \in Bundles \ {b} : SameRow(x)
    BY <1>0, <2>1 DEF SameRow, StatusKept
  <2>3. RowInStep(b)'
    BY <1>0, <1>r, <2>1 DEF RowInStep, Early
  <2>4. Settled(b)
    BY <1>r, <2>1 DEF Early
  <2> QED BY <1>0, <2>1, <2>2, <2>3, <2>4, OneRow DEF StatusKept
<1>2. CASE InsertRow(b)
  <2>1. /\ phase'[b] = "inserted" /\ phase[b] = "sent" /\ inner' = inner
        /\ refused' = refused /\ db'[b].status = "Submitted"
        /\ \A x \in Bundles \ {b} : phase'[x] = phase[x] /\ db'[x] = db[x]
    BY <1>t, <1>2 DEF InsertRow, NewRow
  <2>2. \A x \in Bundles \ {b} : SameRow(x)
    BY <1>0, <2>1 DEF SameRow, StatusKept
  <2>3. RowInStep(b)'
    BY <1>0, <1>r, <2>1 DEF RowInStep, Early
  <2>4. Settled(b)
    BY <1>r, <2>1 DEF Early
  <2>5. db'[b].status \in Stored!After(db[b].status)
    BY <1>r, <2>1 DEF RowInStep, Stored!After
  <2> QED BY <1>0, <2>2, <2>3, <2>4, <2>5, OneRow
<1>3. CASE Track(b)
  <2>1. /\ phase'[b] = (IF b \in refused THEN "tracked" ELSE "done") /\ phase[b] = "inserted"
        /\ refused' = refused /\ db' = db /\ inner' = Insert(inner, b)
        /\ \A x \in Bundles \ {b} : phase'[x] = phase[x]
    BY <1>t, <1>3 DEF Track
  <2>2. Fields(inner', {b}, "Submitted", NoSlot, NoVerdict)
    BY <2>1, InsertFields
  <2>3. \A x \in Bundles \ {b} : SameRow(x)
    BY <1>0, <2>1, <2>2 DEF SameRow, StatusKept, Fields
  <2>4. RowInStep(b)'
    BY <1>0, <1>r, <2>1, <2>2 DEF RowInStep, Fields, Early
  <2>5. Settled(b)
    BY <1>r, <2>1 DEF Early
  <2> QED BY <1>0, <2>1, <2>3, <2>4, <2>5, OneRow DEF StatusKept
<1>4. CASE RecordRejection(b)
  <2>1. /\ phase'[b] = "rejecting" /\ phase[b] = "tracked"
        /\ refused' = refused /\ db' = db /\ inner' = Forget(inner, {b})
        /\ \A x \in Bundles \ {b} : phase'[x] = phase[x]
    BY <1>t, <1>4 DEF RecordRejection
  <2>2. Fields(inner', {b}, "Untracked", NoSlot, NoVerdict)
    BY <2>1, ForgetFields
  <2>3. \A x \in Bundles \ {b} : SameRow(x)
    BY <1>0, <2>1, <2>2 DEF SameRow, StatusKept, Fields
  <2>4. RowInStep(b)'
    BY <1>0, <1>r, <2>1, <2>2 DEF RowInStep, Fields, Early
  <2>5. Settled(b)
    BY <1>r, <2>1 DEF RowInStep
  <2> QED BY <1>0, <2>1, <2>3, <2>4, <2>5, OneRow DEF StatusKept
<1>5. CASE PersistRejection(b)
  <2> DEFINE w == FailedWrite(b, NoSlot, "Rejected")
  <2>1. w \in Write /\ w.row = b /\ w.to = "Failed"
    BY FailedWriteTyped DEF Causes, FailedWrite
  <2> HIDE DEF w
  <2>2. /\ Persist(w) /\ phase[b] = "rejecting" /\ phase'[b] = "done" /\ inner' = inner
        /\ refused' = refused /\ \A x \in Bundles \ {b} : phase'[x] = phase[x]
    BY <1>t, <1>5 DEF PersistRejection, w
  <2>3. db'[b].status = "Failed" /\ \A x \in Bundles \ {b} : db'[x] = db[x]
    BY <2>1, <2>2, PersistEffect
  <2>4. \A x \in Bundles \ {b} : SameRow(x)
    BY <1>0, <2>2, <2>3 DEF SameRow, StatusKept
  <2>5. RowInStep(b)'
    BY <1>0, <1>r, <2>2, <2>3 DEF RowInStep, Early
  <2>6. Settled(b)
    BY <1>r, <2>2 DEF RowInStep
  <2>7. StatusKept(b) \/ db'[b].status \in Stored!After(db[b].status)
    BY <1>r, <2>2, <2>3 DEF RowInStep, StatusKept, Stored!After
  <2> QED BY <1>0, <2>4, <2>5, <2>6, <2>7, OneRow
<1> QED BY <1>1, <1>2, <1>3, <1>4, <1>5

(* An event is taken up when nothing is under way, so each of the writes   *)
(* it spawns is the next of its row.                                       *)
LEMMA MarksMember ==
  ASSUME NEW rows \in SUBSET Bundles, NEW to, NEW s, NEW b \in rows
  PROVE  \E w \in Marks(to, rows, s) : w.row = b
<1> DEFINE w == [row |-> b, to |-> to, slot |-> s, cause |-> "none"]
<1>1. w \in Marks(to, rows, s) /\ w.row = b
  BY DEF Marks
<1> QED BY <1>1

LEMMA EventInTurn ==
  ASSUME IInv, WritesInTurn, spawned = {}, NEW rows \in SUBSET Bundles,
         UNCHANGED <<connected, reconnects, rec, phase, refused, landed, db, sweep>>,
         \A w \in spawned' : w.row \in rows /\ Due(w)',
         \A v, w \in spawned' : v.row = w.row => v = w,
         \A b \in rows : ~Settled(b)' /\ b \notin refused /\ inner.stage[b] # "Untracked",
         \A b \in Bundles \ rows : inner'.stage[b] = inner.stage[b]
  PROVE  WritesInTurn' /\ TableStep
<1>1. \A b \in Bundles \ rows : RowInStep(b)'
  <2>1. \A b \in Bundles \ rows : SameRow(b) /\ Settled(b)
    BY DEF SameRow, StatusKept, Settled
  <2> QED BY <2>1, RowStaysInStep DEF WritesInTurn
<1>2. \A b \in rows : RowInStep(b)'
  BY DEF WritesInTurn, RowInStep
<1> QED BY <1>1, <1>2 DEF WritesInTurn, Undisturbed, TableStep, StatusKept

LEMMA RowEventInTurn ==
  ASSUME IInv, WritesInTurn, spawned = {}, NEW b \in Bundles,
         UNCHANGED <<connected, reconnects, rec, phase, refused, landed, db, sweep>>,
         \A w \in spawned' : w.row = b /\ Due(w)',
         \A v, w \in spawned' : v = w,
         ~Settled(b)', b \notin refused, inner.stage[b] # "Untracked",
         \A x \in Bundles \ {b} : inner'.stage[x] = inner.stage[x]
  PROVE  WritesInTurn' /\ TableStep
<1> DEFINE rows == {b}
<1>1. rows \in SUBSET Bundles
  OBVIOUS
<1>2. /\ \A w \in spawned' : w.row \in rows /\ Due(w)'
      /\ \A v, w \in spawned' : v.row = w.row => v = w
  OBVIOUS
<1>3. /\ \A x \in rows : ~Settled(x)' /\ x \notin refused /\ inner.stage[x] # "Untracked"
      /\ \A x \in Bundles \ rows : inner'.stage[x] = inner.stage[x]
  OBVIOUS
<1> HIDE DEF rows
<1> QED BY <1>1, <1>2, <1>3, EventInTurn

LEMMA IngestInTurn ==
  ASSUME AwaitWrites, IInv, WritesInTurn, Ingest
  PROVE  WritesInTurn' /\ TableStep
<1>0. /\ UNCHANGED <<connected, reconnects, rec, phase, refused, landed, db, sweep>>
      /\ spawned = {}
  BY DEF Ingest, IngestProcessedSlot, IngestConfirmedSlot, IngestFinalizedSlot, IngestTx,
         StreamReady, cluster, client, sweeper, link
<1>1. \A b \in Bundles : inner.stage[b] # "Untracked"
        => /\ db[b].status = inner.stage[b] /\ b \notin sweep.todo /\ phase[b] \notin Early
           /\ b \in refused => inner.stage[b] = "Submitted" /\ landed[b] = NoSlot
  BY <1>0 DEF WritesInTurn, RowInStep, Settled, IInv, Provenance, Early
<1>2. ASSUME NEW n \in Slot, IngestProcessedSlot(n) PROVE WritesInTurn' /\ TableStep
  <2>1. spawned' = {} /\ inner'.stage = inner.stage
    BY <1>0, <1>2 DEF IngestProcessedSlot, Observe, IInv, TypeOK, Inner
  <2> QED BY <1>0, <2>1, EventInTurn
<1>3. ASSUME NEW n \in Slot, IngestConfirmedSlot(n) PROVE WritesInTurn' /\ TableStep
  <2>1. PICK rows \in SUBSET Bundles :
           /\ \A b \in rows : inner.stage[b] = "Processed"
           /\ \A b \in Bundles :
                inner'.stage[b] = IF b \in rows THEN "Confirmed" ELSE inner.stage[b]
           /\ spawned' = Marks("Confirmed", rows, NoSlot)
    BY <1>0, <1>3, ConfirmedEffect
  <2>2. \A w \in spawned' : w.row \in rows /\ Due(w)'
    BY <1>0, <1>1, <2>1, MarksMembers DEF Due
  <2>3. \A v, w \in spawned' : v.row = w.row => v = w
    BY <2>1 DEF Marks
  <2>4. \A b \in rows : ~Settled(b)'
    BY <2>1, MarksMember DEF Settled
  <2> QED BY <1>0, <1>1, <2>1, <2>2, <2>3, <2>4, EventInTurn
<1>4. ASSUME NEW n \in Slot, IngestFinalizedSlot(n) PROVE WritesInTurn' /\ TableStep
  <2>1. PICK rows \in SUBSET Bundles :
           /\ \A b \in rows : inner.stage[b] \in {"Processed", "Confirmed"}
           /\ Fields(inner', rows, "Untracked", NoSlot, NoVerdict)
           /\ spawned' = Marks("Finalized", rows, NoSlot)
    BY <1>0, <1>4, FinalizedEffect
  <2>2. \A w \in spawned' : w.row \in rows /\ Due(w)'
    BY <1>0, <1>1, <2>1, MarksMembers DEF Due, Fields
  <2>3. \A v, w \in spawned' : v.row = w.row => v = w
    BY <2>1 DEF Marks
  <2>4. \A b \in rows : ~Settled(b)'
    BY <2>1, MarksMember DEF Settled
  <2>5. \A b \in Bundles \ rows : inner'.stage[b] = inner.stage[b]
    BY <2>1 DEF Fields
  <2> QED BY <1>0, <1>1, <2>1, <2>2, <2>3, <2>4, <2>5, EventInTurn
<1>5. ASSUME NEW b \in Bundles, IngestTx(b) PROVE WritesInTurn' /\ TableStep
  <2>0. landed[b] \in Slot /\ landed[b] # NoSlot
    BY <1>5 DEF IngestTx, IInv, TypeOK
  <2>1. CASE LandsNow(b)
    <3>1. Fields(inner', {b}, "Processed", landed[b], inner.jito[b])
      BY <2>0, <2>1, ProcessedFields DEF LandsNow
    <3>2. spawned' = Marks("Processed", {b}, landed[b]) /\ inner.stage[b] = "Submitted"
      BY <1>0, <2>1 DEF LandsNow
    <3>3. /\ \A w \in spawned' : w.row = b /\ w.to = "Processed" /\ w.slot = landed[b]
          /\ \A v, w \in spawned' : v = w
          /\ \E w \in spawned' : w.row = b
      <4> DEFINE m == [row |-> b, to |-> "Processed", slot |-> landed[b], cause |-> "none"]
      <4>1. spawned' = {m} /\ m.row = b /\ m.to = "Processed" /\ m.slot = landed[b]
        BY <3>2 DEF Marks
      <4> HIDE DEF m
      <4> QED BY <4>1
    <3>a. inner'.stage[b] = "Processed" /\ db'[b].status = "Submitted"
      BY <1>0, <1>1, <3>1, <3>2 DEF Fields
    <3>b. phase'[b] \notin Early /\ b \notin refused' /\ b \notin sweep'.todo
      BY <1>0, <1>1, <2>0, <3>2
    <3>4. \A w \in spawned' : w.row = b /\ Due(w)'
      BY <3>3, <3>a, <3>b DEF Due
    <3>5. ~Settled(b)'
      BY <3>3 DEF Settled
    <3>6. \A x \in Bundles \ {b} : inner'.stage[x] = inner.stage[x]
      BY <3>1 DEF Fields
    <3>7. b \notin refused /\ inner.stage[b] # "Untracked"
      BY <1>1, <2>0, <3>2
    <3> QED BY <1>0, <3>3, <3>4, <3>5, <3>6, <3>7, RowEventInTurn
  <2>2. CASE FailsNow(b)
    <3>1. Fields(inner', {b}, "Untracked", NoSlot, NoVerdict)
      BY <2>2, ForgetFields DEF FailsNow
    <3>2. /\ spawned' = {FailedWrite(b, landed[b], "OnChain")}
          /\ inner.stage[b] \in {"Submitted", "Processed"}
      BY <1>0, <2>2 DEF FailsNow
    <3>3. /\ \A w \in spawned' : w.row = b /\ w.to = "Failed"
          /\ \A v, w \in spawned' : v = w
          /\ \E w \in spawned' : w.row = b
      BY <3>2 DEF FailedWrite
    <3>a. inner'.stage[b] = "Untracked" /\ db'[b].status \in {"Submitted", "Processed"}
      BY <1>0, <1>1, <3>1, <3>2 DEF Fields
    <3>b. phase'[b] \notin Early /\ b \notin refused' /\ b \notin sweep'.todo
      BY <1>0, <1>1, <2>0, <3>2
    <3>4. \A w \in spawned' : w.row = b /\ Due(w)'
      BY <3>3, <3>a, <3>b DEF Due
    <3>5. ~Settled(b)'
      BY <3>3 DEF Settled
    <3>6. \A x \in Bundles \ {b} : inner'.stage[x] = inner.stage[x]
      BY <3>1 DEF Fields
    <3>7. b \notin refused /\ inner.stage[b] # "Untracked"
      BY <1>1, <2>0, <3>2
    <3> QED BY <1>0, <3>3, <3>4, <3>5, <3>6, <3>7, RowEventInTurn
  <2>3. CASE Ignored(b)
    BY <1>0, <2>3, EventInTurn DEF Ignored
  <2> QED BY <1>5, <2>1, <2>2, <2>3 DEF IngestTx
<1> QED BY <1>2, <1>3, <1>4, <1>5 DEF Ingest

LEMMA WriteThroughInTurn ==
  ASSUME "write" \notin FaultKinds, IInv, WritesInTurn, WriteThrough
  PROVE  WritesInTurn' /\ TableStep
<1> SUFFICES ASSUME NEW w \in spawned, PersistSpawned(w)
             PROVE  WritesInTurn' /\ TableStep
  BY DEF WriteThrough, LoseSpawned, Inject
<1> DEFINE b == w.row
<1>0. /\ UNCHANGED <<connected, reconnects, rec, phase, refused, landed, inner, sweep>>
      /\ spawned' = spawned \ {w} /\ Persist(w)
  BY DEF PersistSpawned, cluster, client, sweeper, link
<1>1. w \in Write /\ b \in Bundles
  BY DEF IInv, TypeOK, Write
<1>2. db'[b].status = w.to /\ \A x \in Bundles \ {b} : db'[x] = db[x]
  BY <1>0, <1>1, PersistEffect
<1>3. Due(w) /\ w.to \in {"Processed", "Confirmed", "Finalized", "Failed"}
  BY <1>1 DEF WritesInTurn, Write
<1>4. db'[b].status \in Stored!After(db[b].status)
  BY <1>2, <1>3 DEF Due, Stored!After
<1>5. \A x \in Bundles \ {b} : SameRow(x) /\ (Settled(x)' => Settled(x))
  BY <1>0, <1>2 DEF SameRow, StatusKept, Settled
<1>6. RowInStep(b)'
  BY <1>0, <1>1, <1>2, <1>3 DEF Due, RowInStep, WritesInTurn, Early
<1>7. \A x \in Bundles : RowInStep(x)'
  BY <1>0, <1>5, <1>6, RowStaysInStep DEF WritesInTurn
<1>8. \A v \in spawned' : Due(v)'
  <2>1. \A v \in spawned' : v.row \in Bundles \ {b}
    BY <1>0 DEF WritesInTurn, IInv, TypeOK, Write
  <2> QED BY <1>0, <1>5, <2>1, DueStays DEF WritesInTurn
<1>9. TableStep
  BY <1>1, <1>4, <1>5 DEF TableStep, SameRow
<1> QED BY <1>0, <1>7, <1>8, <1>9 DEF WritesInTurn, Undisturbed

LEMMA SweeperInTurn ==
  ASSUME "write" \notin FaultKinds, IInv, WritesInTurn, Sweeper
  PROVE  WritesInTurn' /\ TableStep
<1>0. /\ UNCHANGED <<connected, reconnects, rec, phase, refused, landed, spawned>>
      /\ \A w \in spawned : Due(w) /\ w.row \in Bundles /\ w.to \in
            {"Processed", "Confirmed", "Finalized", "Failed"}
  BY DEF Sweeper, CheckTimeouts, PersistTimeout, PersistTimeoutFails, cluster, client, link,
         WritesInTurn, IInv, TypeOK, Write
<1>1. CASE CheckTimeouts
  <2> DEFINE ids == TimedOut(inner, base, TimeoutSlots)
  <2>1. ids \in SUBSET Bundles /\ \A b \in ids : inner.stage[b] = "Submitted"
    BY DEF TimedOut
  <2> HIDE DEF ids
  <2>2. /\ inner' = Forget(inner, ids) /\ sweep'.todo = ids /\ db' = db
        /\ sweep.todo = {}
    BY <1>1 DEF CheckTimeouts, ids
  <2>3. Fields(inner', ids, "Untracked", NoSlot, NoVerdict)
    BY <2>1, <2>2, ForgetFields
  <2>4. \A b \in ids : Settled(b)
    BY <1>0, <2>1 DEF Settled, Due
  <2>5. \A b \in Bundles \ ids : SameRow(b) /\ (Settled(b)' => Settled(b))
    BY <1>0, <2>2, <2>3 DEF SameRow, StatusKept, Settled, Fields
  <2>6. ASSUME NEW b \in ids PROVE RowInStep(b)'
    <3>1. RowInStep(b) /\ Settled(b) /\ inner.stage[b] = "Submitted" /\ phase[b] \notin Early
      BY <2>1, <2>4 DEF WritesInTurn, IInv, Provenance, Early
    <3>2. inner'.stage[b] = "Untracked" /\ b \in sweep'.todo
      BY <2>1, <2>2, <2>3 DEF Fields
    <3> QED BY <1>0, <2>2, <3>1, <3>2 DEF RowInStep, Early
  <2>7. \A b \in Bundles : RowInStep(b)'
    BY <1>0, <2>5, <2>6, RowStaysInStep DEF WritesInTurn
  <2>8. \A w \in spawned : Due(w)'
    BY <1>0, <2>4, <2>5, DueStays DEF Settled
  <2> QED BY <1>0, <2>2, <2>7, <2>8 DEF WritesInTurn, Undisturbed, TableStep, StatusKept
<1>2. ASSUME NEW b \in Bundles, PersistTimeout(b) PROVE WritesInTurn' /\ TableStep
  <2> DEFINE w == FailedWrite(b, NoSlot, "NeverLanded")
  <2>1. w \in Write /\ w.row = b /\ w.to = "Failed"
    BY FailedWriteTyped DEF Causes, FailedWrite
  <2> HIDE DEF w
  <2>2. /\ Persist(w) /\ b \in sweep.todo /\ inner' = inner
        /\ sweep'.todo = sweep.todo \ {b}
    <3>1. sweep \in [todo : SUBSET Bundles, ids : SUBSET Bundles]
      BY DEF IInv, TypeOK
    <3> QED BY <1>2, <3>1 DEF PersistTimeout, w
  <2>3. db'[b].status = "Failed" /\ \A x \in Bundles \ {b} : db'[x] = db[x]
    BY <2>1, <2>2, PersistEffect
  <2>4. \A x \in Bundles \ {b} : SameRow(x)
    BY <1>0, <2>2, <2>3 DEF SameRow, StatusKept
  <2>5. RowInStep(b) /\ Settled(b)
    BY <1>0, <2>2 DEF WritesInTurn, Settled, Due
  <2>6. RowInStep(b)'
    BY <1>0, <2>2, <2>3, <2>5 DEF RowInStep, Early
  <2>7. StatusKept(b) \/ db'[b].status \in Stored!After(db[b].status)
    BY <2>2, <2>3, <2>5 DEF RowInStep, StatusKept, Stored!After
  <2> QED BY <1>0, <2>4, <2>5, <2>6, <2>7, OneRow
<1> QED BY <1>1, <1>2 DEF Sweeper, PersistTimeoutFails, Inject

LEMMA StepInTurn ==
  ASSUME AwaitWrites, {"gap", "crash", "write"} \cap FaultKinds = {}
  PROVE  IInv /\ WritesInTurn /\ [Next]_vars => WritesInTurn' /\ TableStep
<1> SUFFICES ASSUME IInv, WritesInTurn, [Next]_vars PROVE WritesInTurn' /\ TableStep
  OBVIOUS
<1>1. ~Restart /\ ~Connection
  BY DEF Restart, Inject, Connection, Disconnect, Reconnect, WritesInTurn, Undisturbed
<1>2. ~Reconcile
  BY DEF Reconcile, ReconcileSelect, ReconcileAnswered, ReconcileUnparsable,
         ReconcileRpcFails, ReconcileErrored, ReconcileMarked, ReconcilePersist,
         ReconcilePersistFails, ReconcileDone, WritesInTurn, Undisturbed
<1> QED BY <1>1, <1>2, OtherInTurn, SubmissionInTurn, IngestInTurn, WriteThroughInTurn,
           SweeperInTurn DEF Next

(* Every row of the table goes through the states the tracker's            *)
(* documentation allows, in their order and one at a time, when the stream *)
(* waits for its writes (ingest_and_persist), none of them fails, and      *)
(* neither a gap nor a crash wakes the reconcile task; through forks, and  *)
(* landings before a row is tracked. The run lifecycle_order shows that    *)
(* the waiting is needed.                                                  *)
THEOREM RowsImplementCommitment ==
  ASSUME AwaitWrites, {"gap", "crash", "write"} \cap FaultKinds = {}
  PROVE  Spec => RowsFollowCommitment
<1> DEFINE status == [b \in Bundles |-> db[b].status]
<1>1. Init => WritesInTurn
  BY DEF Init, EmptyInner, IdleRec, NewRow, WritesInTurn, Undisturbed, RowInStep
<1>2. Init => Stored!Init
  BY DEF Init, NewRow, Stored!Init
<1>3. IInv /\ WritesInTurn /\ [Next]_vars => WritesInTurn' /\ [Stored!Next]_status
  BY StepInTurn, TableStepImplements
<1> QED BY <1>1, <1>2, <1>3, Invariance, PTL DEF Spec, RowsFollowCommitment, Stored!Spec
=============================================================================
