----------------------------- MODULE Commitment -----------------------------
(***************************************************************************)
(* What the lifecycle of a bundle promises, as the tracker's documentation *)
(* has it: Submitted, Processed, Confirmed, Finalized, in that order (a    *)
(* Finalized slot also finalizes what was never seen Confirmed), with      *)
(* Failed reachable from Submitted or from a landing that errored. A       *)
(* terminal state is final.                                                *)
(***************************************************************************)
CONSTANT Bundles

VARIABLE status

States == {"Absent", "Submitted", "Processed", "Confirmed", "Finalized", "Failed"}

Init == status = [b \in Bundles |-> "Absent"]

After(s) ==
  CASE s = "Absent" -> {"Submitted"}
    [] s = "Submitted" -> {"Processed", "Failed"}
    [] s = "Processed" -> {"Confirmed", "Finalized", "Failed"}
    [] s = "Confirmed" -> {"Finalized"}
    [] OTHER -> {}

Move(b) == \E s \in After(status[b]) : status' = [status EXCEPT ![b] = s]

Next == \E b \in Bundles : Move(b)

Spec == Init /\ [][Next]_status
=============================================================================
