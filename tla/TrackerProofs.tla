---------------------------- MODULE TrackerProofs ----------------------------
(***************************************************************************)
(* What each operation of TrackerState does to a well-formed memory: it    *)
(* stays well formed, and its stages change as the operation says. The     *)
(* facts the proofs about Lifecycle rest on.                               *)
(***************************************************************************)
EXTENDS TrackerState, TLAPS

Sound(m) == m \in Inner /\ IndicesAgree(m)

(* The memory a fresh tracker starts with.                                 *)
LEMMA EmptySound == Sound(EmptyInner)
BY SlotBound DEF Sound, EmptyInner, Inner, IndicesAgree, Indexed, NoSlot, NoVerdict, OpenStages

(* A slot observation moves the clock only.                                *)
LEMMA ObserveSound ==
  ASSUME NEW m, Sound(m), NEW n \in Nat
  PROVE  Sound(Observe(m, n)) /\ Observe(m, n).stage = m.stage
BY DEF Sound, Observe, Later, Inner, IndicesAgree, Indexed

(* Tracking a row that is not tracked.                                     *)
LEMMA InsertSound ==
  ASSUME NEW m, Sound(m), NEW b \in Bundles, m.stage[b] = "Untracked"
  PROVE  /\ Sound(Insert(m, b))
         /\ Insert(m, b).stage = Stamp(m.stage, {b}, "Submitted")
<1> DEFINE x == Insert(m, b)
<1>1. x \in Inner
  BY DEF Sound, Insert, Inner, Stamp, OpenStages
<1>2. IndicesAgree(x)
  BY DEF Sound, Insert, Inner, Stamp, OpenStages, IndicesAgree, Indexed
<1>3. x.stage = Stamp(m.stage, {b}, "Submitted")
  BY DEF Sound, Insert, Inner
<1> QED BY <1>1, <1>2, <1>3 DEF Sound

(* A landing of a Submitted row.                                           *)
LEMMA MarkProcessedSound ==
  ASSUME NEW m, Sound(m), NEW b \in Bundles, m.stage[b] = "Submitted",
         NEW s \in Slot
  PROVE  /\ Sound(MarkProcessed(m, b, s))
         /\ MarkProcessed(m, b, s).stage = Stamp(m.stage, {b}, "Processed")
         /\ MarkProcessed(m, b, s).slot = Stamp(m.slot, {b}, s)
<1> DEFINE x == MarkProcessed(m, b, s)
<1>1. x \in Inner
  <2>1. <<s, b>> \in Slot \X Bundles
    OBVIOUS
  <2> QED BY <2>1 DEF Sound, MarkProcessed, Inner, Stamp, OpenStages
<1>2. IndicesAgree(x)
  BY DEF Sound, MarkProcessed, Inner, Stamp, OpenStages, IndicesAgree, Indexed
<1>3. x.stage = Stamp(m.stage, {b}, "Processed") /\ x.slot = Stamp(m.slot, {b}, s)
  BY DEF Sound, MarkProcessed, Inner
<1> QED BY <1>1, <1>2, <1>3 DEF Sound

(* Confirming Processed rows.                                              *)
LEMMA MarkConfirmedSound ==
  ASSUME NEW m, Sound(m), NEW rows \in SUBSET Bundles,
         \A b \in rows : m.stage[b] = "Processed"
  PROVE  /\ Sound(MarkConfirmed(m, rows))
         /\ MarkConfirmed(m, rows).stage = Stamp(m.stage, rows, "Confirmed")
<1> DEFINE x == MarkConfirmed(m, rows)
<1>1. x \in Inner
  BY DEF Sound, MarkConfirmed, Inner, Stamp, OpenStages, AtOwnSlot
<1>2. IndicesAgree(x)
  BY DEF Sound, MarkConfirmed, Inner, Stamp, OpenStages, IndicesAgree, Indexed, AtOwnSlot, NoSlot
<1>3. x.stage = Stamp(m.stage, rows, "Confirmed")
  BY DEF Sound, MarkConfirmed, Inner
<1> QED BY <1>1, <1>2, <1>3 DEF Sound

(* Forgetting any rows.                                                    *)
LEMMA ForgetSound ==
  ASSUME NEW m, Sound(m), NEW rows \in SUBSET Bundles
  PROVE  /\ Sound(Forget(m, rows))
         /\ Forget(m, rows).stage = Stamp(m.stage, rows, "Untracked")
<1> DEFINE x == Forget(m, rows)
<1>0. /\ x.stage = Stamp(m.stage, rows, "Untracked")
      /\ x.slot = Stamp(m.slot, rows, NoSlot) /\ x.bySig = m.bySig \ rows
      /\ x.confirmIdx = m.confirmIdx \ AtOwnSlot(m, rows)
      /\ x.finalizeIdx = m.finalizeIdx \ AtOwnSlot(m, rows)
  BY DEF Sound, Inner, Forget
<1>1. x \in Inner
  BY DEF Sound, Forget, Inner, Stamp, OpenStages, AtOwnSlot
<1>2. IndicesAgree(x)
  <2> SUFFICES ASSUME NEW b \in Bundles PROVE Indexed(x, b)
    BY DEF IndicesAgree
  <2> HIDE DEF x
  <2> QED BY <1>0 DEF Sound, Inner, Stamp, OpenStages, AtOwnSlot, IndicesAgree, Indexed
<1>3. x.stage = Stamp(m.stage, rows, "Untracked")
  BY DEF Sound, Forget, Inner
<1> QED BY <1>1, <1>2, <1>3 DEF Sound

(* drain_le: an entry is kept exactly when it is later, and its row drained *)
(* when it is not.                                                         *)
LEMMA DrainSplits ==
  ASSUME NEW idx, NEW n \in Nat, NEW s \in Slot, NEW b \in Bundles
  PROVE  /\ <<s, b>> \in Undrained(idx, n) <=> <<s, b>> \in idx /\ s > n
         /\ <<s, b>> \in idx /\ ~(s > n) => b \in Drained(idx, n)
BY SlotBound DEF Undrained, Drained, Slot

(* A Confirmed slot: draining the index and confirming what was drained.   *)
LEMMA OnConfirmedSound ==
  ASSUME NEW m, Sound(m), NEW n \in Nat
  PROVE  /\ Sound(OnConfirmed(m, n))
         /\ OnConfirmed(m, n).stage = Stamp(m.stage, Confirmable(m, n), "Confirmed")
<1> DEFINE rows == Confirmable(m, n)
           d == [m EXCEPT !.confirmIdx = Undrained(@, n)]
           x == MarkConfirmed(d, rows)
<1>1. x \in Inner
  BY DEF Sound, MarkConfirmed, Inner, Stamp, OpenStages, AtOwnSlot, Confirmable, Drained, Undrained
<1>2. IndicesAgree(x)
  <2>2. \A b \in rows : m.stage[b] = "Processed"
    BY DEF Confirmable
  <2>3. \A b \in Bundles : m.stage[b] = "Processed" /\ b \notin rows
          => <<m.slot[b], b>> \in Undrained(m.confirmIdx, n)
    <3> SUFFICES ASSUME NEW b \in Bundles, m.stage[b] = "Processed", b \notin rows
                 PROVE  <<m.slot[b], b>> \in Undrained(m.confirmIdx, n)
      OBVIOUS
    <3>1. m.slot[b] \in Slot /\ <<m.slot[b], b>> \in m.confirmIdx
      BY DEF Sound, IndicesAgree, Indexed, Inner
    <3> QED BY <3>1, DrainSplits DEF Confirmable
  <2>4. \A b \in Bundles, s \in Slot :
          <<s, b>> \in Undrained(m.confirmIdx, n) => <<s, b>> \in m.confirmIdx
    BY DrainSplits
  <2>5. /\ x.stage = Stamp(m.stage, rows, "Confirmed")
        /\ x.slot = m.slot /\ x.bySig = m.bySig
        /\ x.confirmIdx = Undrained(m.confirmIdx, n)
        /\ x.finalizeIdx = m.finalizeIdx \cup AtOwnSlot(m, rows)
    BY DEF Sound, Inner, MarkConfirmed, AtOwnSlot
  <2> SUFFICES ASSUME NEW b \in Bundles PROVE Indexed(x, b)
    BY DEF IndicesAgree
  <2> HIDE DEF rows, x, d
  <2> QED BY <2>2, <2>3, <2>4, <2>5
          DEF Sound, Inner, Stamp, OpenStages, AtOwnSlot, IndicesAgree, Indexed
<1>3. x.stage = Stamp(m.stage, rows, "Confirmed")
  BY DEF Sound, MarkConfirmed, Inner
<1> QED BY <1>1, <1>2, <1>3 DEF Sound, OnConfirmed

(* A Finalized slot: draining both and forgetting what was drained.        *)
LEMMA OnFinalizedSound ==
  ASSUME NEW m, Sound(m), NEW n \in Nat
  PROVE  /\ Sound(OnFinalized(m, n))
         /\ OnFinalized(m, n).stage = Stamp(m.stage, Finalizable(m, n), "Untracked")
<1> DEFINE rows == Finalizable(m, n)
           d == [m EXCEPT !.confirmIdx = Undrained(@, n),
                          !.finalizeIdx = Undrained(@, n)]
           x == Forget(d, rows)
<1>1. x \in Inner
  <2>1. rows \subseteq Bundles /\ d \in Inner
    BY DEF Sound, Inner, Finalizable, Drained, Undrained
  <2> HIDE DEF rows, d
  <2> QED BY <2>1 DEF Forget, Inner, Stamp, OpenStages, AtOwnSlot
<1>2. IndicesAgree(x)
  <2>2. \A b \in rows : m.stage[b] \in {"Processed", "Confirmed"}
    BY DEF Finalizable
  <2>3. \A b \in Bundles : b \notin rows =>
          /\ m.stage[b] = "Processed"
               => <<m.slot[b], b>> \in Undrained(m.confirmIdx, n)
          /\ m.stage[b] = "Confirmed" /\ m.slot[b] # NoSlot
               => <<m.slot[b], b>> \in Undrained(m.finalizeIdx, n)
    <3> SUFFICES ASSUME NEW b \in Bundles, b \notin rows
                 PROVE  /\ m.stage[b] = "Processed"
                             => <<m.slot[b], b>> \in Undrained(m.confirmIdx, n)
                        /\ m.stage[b] = "Confirmed" /\ m.slot[b] # NoSlot
                             => <<m.slot[b], b>> \in Undrained(m.finalizeIdx, n)
      OBVIOUS
    <3>1. m.stage[b] = "Processed"
            => m.slot[b] \in Slot /\ <<m.slot[b], b>> \in m.confirmIdx
      BY DEF Sound, IndicesAgree, Indexed, Inner
    <3>2. m.stage[b] = "Confirmed" /\ m.slot[b] # NoSlot
            => m.slot[b] \in Slot /\ <<m.slot[b], b>> \in m.finalizeIdx
      BY DEF Sound, IndicesAgree, Indexed, Inner
    <3> QED BY <3>1, <3>2, DrainSplits DEF Finalizable
  <2>4. \A b \in Bundles, s \in Slot :
          /\ <<s, b>> \in Undrained(m.confirmIdx, n) => <<s, b>> \in m.confirmIdx
          /\ <<s, b>> \in Undrained(m.finalizeIdx, n) => <<s, b>> \in m.finalizeIdx
    BY DrainSplits
  <2>5. /\ x.stage = Stamp(m.stage, rows, "Untracked")
        /\ x.slot = Stamp(m.slot, rows, NoSlot) /\ x.bySig = m.bySig \ rows
        /\ x.confirmIdx = Undrained(m.confirmIdx, n) \ AtOwnSlot(m, rows)
        /\ x.finalizeIdx = Undrained(m.finalizeIdx, n) \ AtOwnSlot(m, rows)
    BY DEF Sound, Inner, Forget, AtOwnSlot
  <2> SUFFICES ASSUME NEW b \in Bundles PROVE Indexed(x, b)
    BY DEF IndicesAgree
  <2> HIDE DEF rows, x, d
  <2> QED BY <2>2, <2>3, <2>4, <2>5
          DEF Sound, Inner, Stamp, OpenStages, AtOwnSlot, IndicesAgree, Indexed
<1>3. x.stage = Stamp(m.stage, rows, "Untracked")
  BY DEF Sound, Forget, Inner
<1> QED BY <1>1, <1>2, <1>3 DEF Sound, OnFinalized
=============================================================================
