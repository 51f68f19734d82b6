------------------------- MODULE LifecycleProperties -------------------------
(***************************************************************************)
(* What the lifecycle tracker is for, stated over module Lifecycle.        *)
(***************************************************************************)
EXTENDS Lifecycle

(* The reverse indices, the signature map and the pending records of Inner *)
(* stay in agreement whatever the order of stream events, sweeps,          *)
(* reconcile marks, rejections and restarts: no entry outlives its row and *)
(* no landed row drops out of the index its next commitment looks in       *)
(* (mark_*, forget, drain_le and hydrate).                                 *)
IndicesConsistent == IndicesAgree(inner)

(* Every commitment claimed is real: a row Confirmed in memory or in the   *)
(* table landed without error in a slot the cluster has confirmed, a       *)
(* Finalized row in a finalized slot, a row failed on chain did land with  *)
(* an error, a row failed as rejected was refused, and every landed slot   *)
(* recorded is the slot of the landing.                                    *)
ClaimsAreTrue ==
  \A b \in Bundles :
    /\ inner.slot[b] # NoSlot => inner.slot[b] = landed[b] /\ b \notin errored
    /\ db[b].landed # NoSlot => db[b].landed = landed[b]
    /\ inner.stage[b] = "Confirmed" \/ db[b].status = "Confirmed"
         => landed[b] \in 1 .. confirmed /\ b \notin errored
    /\ db[b].status = "Finalized" => landed[b] \in 1 .. finalized /\ b \notin errored
    /\ db[b].status = "Failed" /\ db[b].cause = "OnChain" => b \in errored
    /\ db[b].status = "Failed" /\ db[b].cause = "Rejected" => b \in refused

(* A row reaches the agent (and so a new submission) only once its own     *)
(* failure is in the table: no bundle is retried while its row is open, so *)
(* a restart in between can neither resume nor retry it a second time.     *)
RetriedRowsAreFailed == \A b \in retried : db[b].status = "Failed"

(* A row reaches the agent at most once: what a sweep is about to hand     *)
(* over was in no earlier one, through failed and late writes, a reconcile *)
(* pass that looked before the sweep, and restarts that track the open     *)
(* rows again (check_timeouts drops the row and decides under one lock).   *)
HandedOverOnce == sweep.ids \cap retried = {}

(* A row still tracked in memory is open in the table: nothing marks a row *)
(* terminal behind the back of the in-memory state machine.                *)
TrackedRowsAreOpen ==
  \A b \in Bundles : inner.stage[b] # "Untracked" => db[b].status \in OpenStages

(* NeverLanded is only said of a bundle that has not landed, and that can  *)
(* no longer land: retrying it cannot land the same intent twice           *)
(* (check_timeouts, and the margin between timeout_slots and the life of a *)
(* blockhash).                                                             *)
RetriedNeverLanded == \A b \in retried : landed[b] = NoSlot

(* What a row's in-memory stage may become in a step.                      *)
MayBecome(s) ==
  CASE s = "Submitted" -> {"Processed", "Confirmed", "Untracked"}
    [] s = "Processed" -> {"Confirmed", "Untracked"}
    [] s = "Confirmed" -> {"Untracked"}
    [] OTHER -> {}

StageStep(b) ==
  \/ inner'.stage[b] = inner.stage[b]
  \/ inner'.stage[b] \in MayBecome(inner.stage[b])
  \/ /\ inner.stage[b] = "Untracked" /\ phase[b] = "inserted"
     /\ inner'.stage[b] = "Submitted"

(* Until a restart, a row's in-memory stage only moves forward, and a row  *)
(* that was dropped is never tracked again: whichever of the stream, the   *)
(* reconcile task, the sweeper and the rejection comes first, the later    *)
(* one is a no-op.                                                         *)
StagesOnlyAdvance == [][Restart \/ \A b \in Bundles : StageStep(b)]_vars

(* The table goes through the states the abstract lifecycle allows, one    *)
(* step at a time.                                                         *)
Stored == INSTANCE Commitment WITH status <- [b \in Bundles |-> db[b].status]

RowsFollowCommitment == Stored!Spec

(* A verdict of the block engine that the agent would read from the row is *)
(* one the sweep classifies by: as long as the row is tracked, memory has  *)
(* heard of it too, through failed writes, reconnects and restarts         *)
(* (record_jito_status updates memory first, hydrate reads it back).       *)
VerdictsReachMemory ==
  \A b \in Bundles :
    inner.stage[b] # "Untracked" /\ db[b].jito # NoVerdict => inner.jito[b] # NoVerdict

(* Every tracked row is eventually dropped from memory as finalized or     *)
(* failed: an index entry it needs is there when the slot that closes it   *)
(* arrives, or the sweeper takes it.                                       *)
TrackedRowsClose ==
  \A b \in Bundles : inner.stage[b] # "Untracked" ~> inner.stage[b] = "Untracked"

(* Every row of the table eventually reaches, and stays in, a terminal     *)
(* state: what draining a run waits for.                                   *)
RowsReachTerminal ==
  \A b \in Bundles : db[b].status \in OpenStages ~> [](db[b].status \in TerminalStages)
=============================================================================
