----------------------- MODULE OrchestratorProperties -----------------------
(***************************************************************************)
(* What a run of the orchestrator is for, stated over module Orchestrator. *)
(***************************************************************************)
EXTENDS Orchestrator

(* What was asked for once lands once, as far as the program can tell: of   *)
(* all the submissions made for one bundle, whoever made them, at most one *)
(* was landed or still may, and one more for each row that had landed when *)
(* the sweep took it for lost, before the tracker heard of the landing.    *)
(* Nothing else leads to a second one: no retry of a row that is in flight *)
(* or known to have landed, no two retries of one row, no failed INSERT,   *)
(* and no restart between an acceptance and its row.                       *)
Claimed(b) ==
  Cardinality({id \in Ids :
                 /\ rows[id].bundle = b /\ rows[id].accepted
                 /\ rows[id].landed \/ rows[id].status = "Submitted"})
  + AwaitingInsert(b)

Issued(b) == Claimed(b) + orphans[b]

Overlooked(b) ==
  {id \in Ids : /\ rows[id].bundle = b /\ rows[id].status = "Failed"
                /\ rows[id].landed /\ ~rows[id].learned}

AtMostOnce == \A b \in Bundles : Issued(b) <= 1 + Cardinality(Overlooked(b))

(* Even when answers of the engine are lost, this holds of the submissions *)
(* the program knows to be accepted: any further landing is of one it took *)
(* for refused or could not record, or of one it retried without having    *)
(* heard that it had landed.                                               *)
KnownAtMostOnce == \A b \in Bundles : Claimed(b) <= 1 + Cardinality(Overlooked(b))

(* The audit trail explains every retry: the executed decisions about a    *)
(* row are those for attempts 2, 3, ... up to max_attempts, each logged    *)
(* once; a row that retries another was preceded by a decision about it    *)
(* that does not abandon it, as the last one; no row is retried twice.     *)
RetriesAreDecided ==
  /\ \A id \in Ids :
        LET log == rows[id].decided IN
        /\ Len(log) < MaxAttempts
        /\ \A i \in DOMAIN log : log[i].attempt = i + 1
        /\ \A i \in DOMAIN log : log[i].terminal = "Abandon" => i = Len(log)
  /\ \A id \in Ids : rows[id].from # 0 =>
        LET log == rows[rows[id].from].decided IN
        /\ log # <<>> /\ log[Len(log)].terminal # "Abandon"
        /\ rows[rows[id].from].status = "Failed"
        /\ \A other \in Ids \ {id} : rows[other].from # rows[id].from

(* Whatever the market, the model or a doubling baseline asks for, no      *)
(* bundle tips more than max_tip_lamports (normal_tip_policy and           *)
(* clamp_actions are the only two sources of a tip).                       *)
TipsAreCapped == \A id \in Ids : rows[id].tip <= MaxTip

(* The baseline pays more only for having been outbid: a failure of the    *)
(* infrastructure, or a bundle lost for no known reason, leaves the tip of *)
(* the retry as it was.                                                    *)
LastDecision(id) == rows[id].decided[Len(rows[id].decided)]
Outbid(evidence) ==
  "transport" \notin evidence /\ evidence \cap {"low tip", "outbid"} # {}

BaselineRaisesOnlyWhenOutbid ==
  [][\A o \in Owners :
       loop[o].pc = "decide" /\ loop'[o].pc # "off" /\ loop'[o].tip # loop[o].tip
         => Outbid(loop[o].evidence) \/ LastDecision(loop[o].row)'.agent = "llm"]_vars

(* Every run ends: neither the retry loop of a refused bundle nor the      *)
(* drain keeps it for ever.                                                *)
RunEnds == <>(driver.pc = "exited")

(* The driver never comes back to where it was, whatever the model, the    *)
(* engine or a fault answers: each of its steps leads to a later bundle,   *)
(* or on within the bundle it is at: up the attempts of its retry loop,    *)
(* out of it, into the drain and to the exit. With the bound on attempts   *)
(* it has finitely many steps to take.                                     *)
LoopStages == [decide |-> 0, hold |-> 1, execute |-> 2, record |-> 3]
LastStage == 4 * MaxAttempts + 5
DriverStage ==
  CASE driver.pc = "warmup" -> 0
    [] driver.pc = "submit" -> 1
    [] driver.pc = "record" -> 2
    [] driver.pc = "retry" -> 4 * loop["driver"].attempt + LoopStages[loop["driver"].pc]
    [] driver.pc = "drain" -> LastStage - 1
    [] driver.pc = "exited" -> LastStage

DriverGoesOn ==
  [][\/ UNCHANGED <<driver.bundle, driver.pc, loop["driver"].pc>>
     \/ driver'.bundle > driver.bundle
     \/ driver'.bundle = driver.bundle /\ DriverStage' > DriverStage]_vars

(* No failure is dropped: as long as the run lasts and no database call    *)
(* fails, a failed row nobody has decided about yet waits in the sweeper's *)
(* queue or at the head of a retry loop, however many rows one sweep found *)
(* and however long the sweeper is held up by the row before.              *)
FailuresAreDecided ==
  Running => \A id \in Ids :
    rows[id].status = "Failed" /\ rows[id].decided = <<>>
      => id \in queue \/ \E o \in Owners : loop[o].row = id /\ loop[o].pc = "decide"

(* The response to a failed bundle is bounded by max_attempts: a bundle is *)
(* resubmitted at most max_attempts - 1 times, whatever failed each time.  *)
Resubmissions(b) == {id \in Ids : rows[id].bundle = b /\ rows[id].from # 0}

RetriesAreBounded == \A b \in Bundles : Cardinality(Resubmissions(b)) < MaxAttempts

(* A run that did not hit its drain deadline leaves no bundle in flight.   *)
DrainedMeansSettled ==
  driver.pc = "exited" /\ ~driver.deadline =>
    /\ \A b \in Bundles : AwaitingInsert(b) = 0
    /\ NonTerminal = {}
=============================================================================
