---------------------------- MODULE TrackerState ----------------------------
(***************************************************************************)
(* The in-memory half of the lifecycle tracker (crates/lifecycle): the     *)
(* struct Inner and the pure functions that update it under its mutex.     *)
(* Inner is a record:                                                      *)
(*   stage, slot    pending: row id -> state and landed_slot; a row that   *)
(*                  is not pending is "Untracked"                          *)
(*   jito           pending: the last Jito verdict recorded                *)
(*   bySig          the rows whose memo signature is looked up             *)
(*   confirmIdx,    the two reverse indices, as sets of <<landed slot,     *)
(*   finalizeIdx    row>> pairs                                            *)
(*   lastObserved   the lifecycle clock                                    *)
(***************************************************************************)
EXTENDS Naturals

CONSTANTS
  Bundles,     \* submissions; each has its own row and memo signature
  MaxSlot,     \* bound: the highest slot of the chain
  Verdicts     \* the Jito verdicts the status poller may record

ASSUME SlotBound == MaxSlot \in Nat \ {0}

NoSlot == 0                          \* landed_slot = None
Slot == 1 .. MaxSlot
NoVerdict == "NotPolled"

OpenStages == {"Submitted", "Processed", "Confirmed"}
TerminalStages == {"Finalized", "Failed"}

Inner == [stage : [Bundles -> OpenStages \cup {"Untracked"}],
          slot : [Bundles -> Slot \cup {NoSlot}],
          jito : [Bundles -> Verdicts \cup {NoVerdict}],
          bySig : SUBSET Bundles,
          confirmIdx : SUBSET (Slot \X Bundles),
          finalizeIdx : SUBSET (Slot \X Bundles),
          lastObserved : Nat]

EmptyInner == [stage |-> [b \in Bundles |-> "Untracked"],
               slot |-> [b \in Bundles |-> NoSlot],
               jito |-> [b \in Bundles |-> NoVerdict],
               bySig |-> {}, confirmIdx |-> {}, finalizeIdx |-> {},
               lastObserved |-> 0]

Later(m, n) == IF n > m THEN n ELSE m

(* drain_le: the rows keyed at slots <= n, and what is left of the index.  *)
Drained_OffByOne(idx, n) ==  \* mutant
  {b \in Bundles : \E s \in Slot : s <= n + 1 /\ <<s, b>> \in idx}
Drained(idx, n) == {b \in Bundles : \E s \in Slot : s <= n /\ <<s, b>> \in idx}
Undrained(idx, n) == {e \in idx : e[1] > n}

Stamp(f, rows, v) == [b \in Bundles |-> IF b \in rows THEN v ELSE f[b]]

(* The insertion record_submission makes after its INSERT has returned.    *)
Insert(m, b) ==
  [m EXCEPT !.stage = Stamp(@, {b}, "Submitted"),
            !.slot = Stamp(@, {b}, NoSlot),
            !.jito = Stamp(@, {b}, NoVerdict),
            !.bySig = @ \cup {b}]

(* The three marks and forget, for a set of rows. The callers pass rows in *)
(* the state the mark asks for; the code skips any other row.              *)
MarkProcessed(m, b, s) ==
  [m EXCEPT !.stage = Stamp(@, {b}, "Processed"),
            !.slot = Stamp(@, {b}, s),
            !.confirmIdx = @ \cup {<<s, b>>}]

AtOwnSlot(m, rows) ==
  {e \in Slot \X Bundles : e[2] \in rows /\ m.slot[e[2]] = e[1]}

MarkConfirmed_Unindexed(m, rows) ==  \* mutant
  [m EXCEPT !.stage = Stamp(@, rows, "Confirmed")]

MarkConfirmed(m, rows) ==
  [m EXCEPT !.stage = Stamp(@, rows, "Confirmed"),
            !.finalizeIdx = @ \cup AtOwnSlot(m, rows)]

Forget_KeptAsFailed(m, rows) ==  \* mutant
  [m EXCEPT !.stage = Stamp(@, rows, "Failed"), !.bySig = @ \ rows]

Forget_KeptInIndex(m, rows) ==  \* mutant
  [m EXCEPT !.stage = Stamp(@, rows, "Untracked"),
            !.slot = Stamp(@, rows, NoSlot),
            !.bySig = @ \ rows]

Forget(m, rows) ==
  [m EXCEPT !.stage = Stamp(@, rows, "Untracked"),
            !.slot = Stamp(@, rows, NoSlot),
            !.jito = Stamp(@, rows, NoVerdict),
            !.bySig = @ \ rows,
            !.confirmIdx = @ \ AtOwnSlot(m, rows),
            !.finalizeIdx = @ \ AtOwnSlot(m, rows)]

Observe(m, n) == [m EXCEPT !.lastObserved = Later(@, n)]

(* apply_event on a Confirmed and on a Finalized slot n: which rows are    *)
(* marked, and what the state becomes. Drained rows in any other state     *)
(* leave the index all the same.                                           *)
Confirmable(m, n) ==
  {b \in Drained(m.confirmIdx, n) : m.stage[b] = "Processed"}

OnConfirmed(m, n) ==
  MarkConfirmed([m EXCEPT !.confirmIdx = Undrained(@, n)], Confirmable(m, n))

Finalizable_OnlyConfirmed(m, n) ==  \* mutant
  {b \in Drained(m.finalizeIdx, n) : m.stage[b] = "Confirmed"}

Finalizable(m, n) ==
  {b \in Drained(m.confirmIdx, n) \cup Drained(m.finalizeIdx, n) :
      m.stage[b] \in {"Processed", "Confirmed"}}

OnFinalized(m, n) ==
  Forget([m EXCEPT !.confirmIdx = Undrained(@, n),
                   !.finalizeIdx = Undrained(@, n)], Finalizable(m, n))

(* check_timeouts: still Submitted and older than the threshold.           *)
TimedOut_AtThreshold(m, base, threshold) ==  \* mutant
  {b \in Bundles : m.stage[b] = "Submitted" /\ m.lastObserved >= base[b] + threshold}

TimedOut(m, base, threshold) ==
  {b \in Bundles : m.stage[b] = "Submitted" /\ m.lastObserved > base[b] + threshold}

-----------------------------------------------------------------------------
(* The indices agree with the pending records: an entry is always keyed by *)
(* its row's landed slot and names a row still waiting for that            *)
(* commitment, every Processed row can be found by the next Confirmed or   *)
(* Finalized slot, every Confirmed row with a slot by the next Finalized   *)
(* one, and the signatures looked up are those of the pending rows.        *)
Indexed(m, b) ==
  /\ \A s \in Slot :
       /\ <<s, b>> \in m.confirmIdx
            => m.slot[b] = s /\ m.stage[b] \in {"Processed", "Confirmed"}
       /\ <<s, b>> \in m.finalizeIdx
            => m.slot[b] = s /\ m.stage[b] = "Confirmed"
  /\ m.stage[b] = "Processed" => <<m.slot[b], b>> \in m.confirmIdx
  /\ m.stage[b] = "Confirmed" /\ m.slot[b] # NoSlot
       => <<m.slot[b], b>> \in m.finalizeIdx
  /\ m.stage[b] \in {"Submitted", "Untracked"} => m.slot[b] = NoSlot
  /\ b \in m.bySig <=> m.stage[b] # "Untracked"

IndicesAgree(m) == \A b \in Bundles : Indexed(m, b)
=============================================================================
