------------------------------- MODULE Feeds -------------------------------
(***************************************************************************)
(* The two feeds the program keeps alive for as long as it runs, side by    *)
(* side, and what they promise.                                             *)
(***************************************************************************)
EXTENDS StreamSupervisor, TipFeed

feedVars == <<streamVars, tipVars>>

Init == StreamInit /\ TipInit

Next == \/ StreamNext /\ UNCHANGED tipVars
        \/ TipNext /\ UNCHANGED streamVars

Spec == Init /\ [][Next]_feedVars /\ StreamFairness /\ TipFairness

FeedsTypeOK ==
  /\ conn \in {"connecting", "up", "backoff"} /\ attempt \in 1 .. 2
  /\ queue \in Seq(Txs \cup {SlotEvent}) /\ Len(queue) <= EventCap
  /\ signals \in 0 .. SignalCap
  /\ reconciling \in BOOLEAN /\ started \in BOOLEAN
  /\ wire \subseteq UpdateKinds \X Txs
  /\ {blocked, landed, heard, ignored, delivered, asked, learned} \subseteq SUBSET Txs
  /\ socket \in {"open", "polling", "napping"} /\ tips \in {"none", "fresh", "old"}

(* The channel to the fan-out loses no transaction status, however full it  *)
(* is: what the client has heard is queued, waiting for room, or delivered, *)
(* whatever becomes of the connection (forward's send().await).             *)
StatusesAreKept == heard = delivered \cup Queued \cup blocked

(* A landing no update of which reached the client always has a reconcile   *)
(* pass coming or behind it: once the client is connected again, a signal   *)
(* sent after the gap is still in the channel, although it is only tried to *)
(* be sent and the task may be in the middle of an earlier pass             *)
(* (run_connection, the reconcile task).                                    *)
OnWire == {t \in Txs : \E kind \in UpdateKinds : <<kind, t>> \in wire}
Missed == landed \ (OnWire \cup heard \cup ignored \cup asked)
MissedAreSignalled == conn = "up" /\ Missed # {} => signals > 0

(* As long as the connection breaks again and again, every landing is       *)
(* learned of in the end, by a status on the stream or by a reconcile pass: *)
(* also one whose only update the client ignored, or one that an earlier    *)
(* pass asked about and failed.  Nothing is promised of a connection that   *)
(* stays up, nor of rows the sweeper closes first (module Lifecycle).       *)
LandingsAreLearned ==
  []<>(conn = "backoff") => \A t \in Txs : t \in landed ~> t \in delivered \cup learned

(* As long as the socket keeps failing, the REST polls keep the tips fresh  *)
(* (run, rest_poll_during); nothing is promised of a socket that stays open *)
(* and silent.                                                              *)
TipsRecover == []<>(socket # "open") => []<>(tips = "fresh")
=============================================================================
