--------------------------- MODULE MCOrchestrator ---------------------------
(* Instances of the orchestrator for TLC.                                  *)
EXTENDS OrchestratorProperties

(* What the model may reply: give up, or a tip above the cap with a hold   *)
(* and a second terminal action after the first; and what of its answers   *)
(* is no decision, though one comes with a decision in its body.           *)
Answer(http, text, actions) == [http |-> http, text |-> text, actions |-> actions]
SomeReplies ==
  {Answer("ok", "decision", <<Abandon>>),
   Answer("ok", "decision", <<SetTip(9), Hold(1), Resubmit, Abandon>>),
   Answer("none", "missing", <<>>), Answer("error", "decision", <<Resubmit>>),
   Answer("ok", "missing", <<>>), Answer("ok", "prose", <<>>)}

Congestion == {"transport", "low tip"}
Underbid == {"low tip"}
SomeRejections == {Congestion, Underbid}
=============================================================================
