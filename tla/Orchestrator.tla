---------------------------- MODULE Orchestrator ----------------------------
(***************************************************************************)
(* The control loop (crates/orchestrator): the driver that submits the     *)
(* bundles of a run and then drains it, the sweeper that takes timed-out   *)
(* bundles to the agent one after the other, and the agent retry loop both *)
(* of them run. The lifecycle tracker is reduced to what it does to a row  *)
(* here: Submitted, Processed, then Finalized or Failed (Errored stands    *)
(* for Failed with an error on chain, which the agent never hears of). It  *)
(* may learn of a landing at any time after it, or never.                  *)
(***************************************************************************)
EXTENDS Decisions

CONSTANTS
  Count,         \* bundles the run submits
  MaxAttempts,   \* Config::max_attempts
  MaxTimeouts,   \* bound: timeouts in a behaviour
  Feeds,         \* states the tip feed may be read in
  Rejections,    \* what a refusal's text may look like (sets of Patterns)
  LlmReplies,    \* what the model's API may answer
  FaultKinds,    \* which faults may strike
  MaxFaults      \* bound: how many in a behaviour

Faults == {"db", "query", "reply", "crash"}

ASSUME OrchestratorAssumption ==
  /\ Count \in Nat \ {0} /\ MaxAttempts \in Nat \ {0} /\ MaxTimeouts \in Nat
  /\ Feeds \subseteq {"live", "stale", "absent"}
  /\ Rejections \subseteq SUBSET Patterns
  /\ LlmReplies \subseteq Reply
  /\ FaultKinds \subseteq Faults /\ MaxFaults \in Nat

VARIABLES
  rows,      \* bundle_submissions, in id order, with the decisions on each
  driver,    \* submit_one for bundle after bundle, then drain_to_terminal
  loop,      \* the retry loop the driver and the sweeper may be in
  queue,     \* timed-out rows the sweeper has yet to handle
  orphans,   \* per bundle, accepted submissions no row stands for
  timeouts, faults

vars == <<rows, driver, loop, queue, orphans, timeouts, faults>>

Bundles == 1 .. Count
Ids == DOMAIN rows
Open == {"Submitted", "Processed"}

(* A row: its bundle, the row it retries (0: none), whether the engine     *)
(* accepted it, whether it landed, whether the tracker learned of that     *)
(* (landed_slot is stamped), and the executed decisions about it.          *)
NewRow(b, from, tip, p50, accepted) ==
  [status |-> "Submitted", bundle |-> b, from |-> from, tip |-> tip, p50 |-> p50,
   accepted |-> accepted, landed |-> FALSE, learned |-> FALSE, decided |-> <<>>]

Row == [status : Open \cup {"Finalized", "Failed", "Errored"}, bundle : Bundles,
        from : Nat, tip : Nat, p50 : {{}, {P50}},
        accepted : BOOLEAN, landed : BOOLEAN, learned : BOOLEAN,
        decided : Seq([attempt : 2 .. MaxAttempts, agent : {"llm", "baseline"},
                       terminal : {"None", "Resubmit", "Abandon"}])]

Owners == {"driver", "sweeper"}
Off == [pc |-> "off", row |-> 0, attempt |-> 1, evidence |-> {"lost"}, tip |-> 0,
        p50 |-> {}, terminal |-> "None"]

Loop == [pc : {"off", "decide", "hold", "execute", "record"}, row : Nat,
         attempt : 1 .. MaxAttempts, evidence : Evidence, tip : Nat,
         p50 : {{}, {P50}}, terminal : {"None", "Resubmit", "Abandon"}]

Started(id, evidence, tip) ==
  [Off EXCEPT !.pc = "decide", !.row = id, !.evidence = evidence, !.tip = tip]

TypeOK ==
  /\ rows \in Seq(Row)
  /\ driver \in [pc : {"warmup", "submit", "record", "retry", "drain", "exited"},
                 bundle : Bundles, tip : Nat, p50 : {{}, {P50}},
                 deadline : BOOLEAN, baseline : Nat]
  /\ loop \in [Owners -> Loop]
  /\ \A o \in Owners : loop[o].pc # "off" => loop[o].row \in Ids
  /\ queue \subseteq Ids
  /\ orphans \in [Bundles -> Nat] /\ timeouts \in Nat /\ faults \in Nat

Init ==
  /\ rows = <<>>
  /\ driver = [pc |-> "warmup", bundle |-> 1, tip |-> 0, p50 |-> {},
               deadline |-> FALSE, baseline |-> 0]
  /\ loop = [o \in Owners |-> Off]
  /\ queue = {} /\ orphans = [b \in Bundles |-> 0]
  /\ timeouts = 0 /\ faults = 0

Running == driver.pc # "exited"

Inject(kind) ==
  /\ kind \in FaultKinds
  /\ faults < MaxFaults
  /\ faults' = faults + 1

Orphan(b) == orphans' = [orphans EXCEPT ![b] = @ + 1]

-----------------------------------------------------------------------------
(* await_ready, then submit_one for bundle after bundle: skip it when no   *)
(* leader window comes, else price it, submit it, and record the accepted  *)
(* bundle, or a synthetic Failed row for a refused one. An error ends the  *)
(* submission phase.                                                       *)
NextSubmission ==
  IF driver.bundle = Count THEN [driver EXCEPT !.pc = "drain"]
  ELSE [driver EXCEPT !.pc = "submit", !.bundle = @ + 1]

EndSubmissions == [driver EXCEPT !.pc = "drain"]

AwaitReady ==
  /\ driver.pc = "warmup"
  /\ \/ driver' = [driver EXCEPT !.pc = "submit"]
     \/ driver' = EndSubmissions
  /\ UNCHANGED <<rows, loop, queue, orphans, timeouts, faults>>

SkipWindow ==
  /\ driver.pc = "submit"
  /\ driver' = NextSubmission
  /\ UNCHANGED <<rows, loop, queue, orphans, timeouts, faults>>

Accept(feed) ==
  /\ driver.pc = "submit"
  /\ driver' = [driver EXCEPT !.pc = "record", !.tip = NormalTip(feed),
                              !.p50 = Known(feed, P50)]
  /\ UNCHANGED <<rows, loop, queue, orphans, timeouts, faults>>

RecordAccepted ==
  /\ driver.pc = "record"
  /\ rows' = Append(rows, NewRow(driver.bundle, 0, driver.tip, driver.p50, TRUE))
  /\ driver' = NextSubmission
  /\ UNCHANGED <<loop, queue, orphans, timeouts, faults>>

RecordAcceptedFails ==
  /\ driver.pc = "record"
  /\ Inject("db")
  /\ Orphan(driver.bundle)
  /\ driver' = EndSubmissions
  /\ UNCHANGED <<rows, loop, queue, timeouts>>

Reject(feed, marks) ==
  LET row == NewRow(driver.bundle, 0, NormalTip(feed), Known(feed, P50), FALSE) IN
  /\ driver.pc = "submit"
  /\ rows' = Append(rows, [row EXCEPT !.status = "Failed"])
  /\ loop' = [loop EXCEPT !["driver"] = Started(Len(rows'), marks, row.tip)]
  /\ driver' = [driver EXCEPT !.pc = "retry"]
  /\ UNCHANGED <<queue, orphans, timeouts, faults>>

(* The INSERT of the synthetic row fails, or the UPDATE after it: then the *)
(* row stays Submitted.                                                    *)
RejectUnrecorded(feed) ==
  LET row == NewRow(driver.bundle, 0, NormalTip(feed), Known(feed, P50), FALSE) IN
  /\ driver.pc = "submit"
  /\ Inject("db")
  /\ rows' \in {rows, Append(rows, row)}
  /\ driver' = EndSubmissions
  /\ UNCHANGED <<loop, queue, orphans, timeouts>>

(* sendBundle's answer is lost: to the program a transport rejection.      *)
ReplyLost(feed) ==
  /\ Inject("reply")
  /\ driver.pc = "submit"
  /\ LET row == NewRow(driver.bundle, 0, NormalTip(feed), Known(feed, P50), FALSE) IN
     /\ rows' = Append(rows, [row EXCEPT !.status = "Failed"])
     /\ loop' = [loop EXCEPT !["driver"] = Started(Len(rows'), {"transport"}, row.tip)]
  /\ Orphan(driver.bundle)
  /\ driver' = [driver EXCEPT !.pc = "retry"]
  /\ UNCHANGED <<queue, timeouts>>

-----------------------------------------------------------------------------
(* agent_retry_loop. A loop that ends well lets its owner go on to the     *)
(* next bundle or row; an error in the driver's ends the submission phase. *)
Finish(o, ok) ==
  /\ loop' = [loop EXCEPT ![o] = Off]
  /\ driver' = IF o = "sweeper" THEN driver
               ELSE IF ok THEN NextSubmission ELSE EndSubmissions

Exhausted_OffByOne(o) == loop[o].attempt > MaxAttempts  \* mutant

Exhausted(o) == loop[o].attempt >= MaxAttempts

GiveUp(o) ==
  /\ Running /\ loop[o].pc = "decide"
  /\ Exhausted(o)
  /\ Finish(o, TRUE)
  /\ UNCHANGED <<rows, queue, orphans, timeouts, faults>>

(* The model decides, or the baseline when its call fails; the decision is *)
(* logged as it came, then clamped and planned.                            *)
Logged(o, agent, terminal) ==
  [rows EXCEPT ![loop[o].row].decided =
     Append(@, [attempt |-> loop[o].attempt + 1, agent |-> agent, terminal |-> terminal])]

Deciding(o) == Running /\ loop[o].pc = "decide" /\ ~Exhausted(o)

Decide(o, agent, actions, feed) ==
  LET plan == Plan(Clamped(actions), loop[o].tip) IN
  /\ Deciding(o)
  /\ rows' = Logged(o, agent, plan.terminal)
  /\ loop' = [loop EXCEPT ![o] =
                [@ EXCEPT !.pc = IF plan.holds THEN "hold" ELSE "execute",
                          !.tip = plan.tip,
                          !.p50 = Known(feed, P50),
                          !.terminal = plan.terminal]]
  /\ UNCHANGED <<driver, queue, orphans, timeouts, faults>>

Decided == {reply.actions : reply \in {r \in LlmReplies : Understood(r)}}

LlmDecides(o, feed) == \E actions \in Decided : Decide(o, "llm", actions, feed)

BaselineDecides(o, feed) ==
  /\ \E reply \in LlmReplies : ~Understood(reply)
  /\ Decide(o, "baseline",
            Baseline(Kind(loop[o].evidence), loop[o].attempt + 1, loop[o].tip,
                     Known(feed, P75)),
            feed)

(* Reading the earlier attempts fails, or logging the decision, or, after  *)
(* that, logging the baseline's as the model's shadow.                     *)
DecideFails(o) ==
  /\ Deciding(o)
  /\ Inject("db")
  /\ rows' \in {rows} \cup {Logged(o, "llm", Plan(Clamped(actions), 0).terminal) :
                            actions \in Decided}
  /\ Finish(o, FALSE)
  /\ UNCHANGED <<queue, orphans, timeouts>>

HoldOver(o) ==
  /\ Running /\ loop[o].pc = "hold"
  /\ loop' = [loop EXCEPT ![o].pc = "execute"]
  /\ UNCHANGED <<rows, driver, queue, orphans, timeouts, faults>>

GaveUp_LeavesDriver(o) ==  \* mutant
  /\ Running /\ loop[o].pc = "execute" /\ loop[o].terminal = "Abandon"
  /\ loop' = [loop EXCEPT ![o] = Off]
  /\ UNCHANGED <<rows, driver, queue, orphans, timeouts, faults>>

GaveUp(o) ==
  /\ Running /\ loop[o].pc = "execute" /\ loop[o].terminal = "Abandon"
  /\ Finish(o, TRUE)
  /\ UNCHANGED <<rows, queue, orphans, timeouts, faults>>

Resubmits(o) == Running /\ loop[o].pc = "execute" /\ loop[o].terminal # "Abandon"

ResubmissionAccepted(o) ==
  /\ Resubmits(o)
  /\ loop' = [loop EXCEPT ![o].pc = "record", ![o].attempt = @ + 1]
  /\ UNCHANGED <<rows, driver, queue, orphans, timeouts, faults>>

ResubmissionRejected_SameAttempt(o, marks) ==  \* mutant
  /\ Resubmits(o)
  /\ loop' = [loop EXCEPT ![o] = [@ EXCEPT !.pc = "decide", !.evidence = marks]]
  /\ UNCHANGED <<rows, driver, queue, orphans, timeouts, faults>>

ResubmissionRejected(o, marks) ==
  /\ Resubmits(o)
  /\ loop' = [loop EXCEPT ![o].pc = "decide", ![o].attempt = @ + 1,
                          ![o].evidence = marks]
  /\ UNCHANGED <<rows, driver, queue, orphans, timeouts, faults>>

ResubmissionReplyLost(o) ==
  /\ Inject("reply")
  /\ Resubmits(o)
  /\ Orphan(rows[loop[o].row].bundle)
  /\ loop' = [loop EXCEPT ![o].pc = "decide", ![o].attempt = @ + 1,
                          ![o].evidence = {"transport"}]
  /\ UNCHANGED <<rows, driver, queue, timeouts>>

RecordResubmission(o) ==
  /\ Running /\ loop[o].pc = "record"
  /\ rows' = Append(rows, NewRow(rows[loop[o].row].bundle, loop[o].row, loop[o].tip,
                                 loop[o].p50, TRUE))
  /\ Finish(o, TRUE)
  /\ UNCHANGED <<queue, orphans, timeouts, faults>>

RecordResubmissionFails(o) ==
  /\ Running /\ loop[o].pc = "record"
  /\ Inject("db")
  /\ Orphan(rows[loop[o].row].bundle)
  /\ Finish(o, FALSE)
  /\ UNCHANGED <<rows, queue, timeouts>>

-----------------------------------------------------------------------------
(* The sweeper: a sweep fails the rows it finds timed out (a row that      *)
(* memory lost track of only after a restart), then handles them in turn.  *)
(* A row that cannot be loaded is skipped. Timed out is what has stayed    *)
(* Submitted too long: also a row whose landing the tracker missed (in a   *)
(* gap of the stream, ahead of its track call, or with a restart).         *)
TimedOutRows_AnyOpen(ids) ==  \* mutant
  \A id \in ids : /\ rows[id].status \in Open
                  /\ rows[id].accepted \/ id <= driver.baseline

TimedOutRows(ids) ==
  \A id \in ids : /\ rows[id].status = "Submitted"
                  /\ rows[id].accepted \/ id <= driver.baseline

Sweep(ids) ==
  /\ Running /\ loop["sweeper"] = Off /\ queue = {}
  /\ ids # {} /\ TimedOutRows(ids)
  /\ timeouts + Cardinality(ids) <= MaxTimeouts
  /\ rows' = [id \in Ids |-> IF id \in ids THEN [rows[id] EXCEPT !.status = "Failed"]
                             ELSE rows[id]]
  /\ queue' = ids
  /\ timeouts' = timeouts + Cardinality(ids)
  /\ UNCHANGED <<driver, loop, orphans, faults>>

(* A row's blockhash was fetched, as far as the row says, in the slot the  *)
(* bundle was submitted in: its age at submission is always 0.             *)
NotLanding(id) == NeverLanded(0, rows[id].tip, rows[id].p50)

HandleTimedOut_DropsRest(id) ==  \* mutant
  /\ Running /\ loop["sweeper"] = Off /\ id \in queue
  /\ loop' = [loop EXCEPT !["sweeper"] =
                Started(id, NotLanding(id), rows[id].tip)]
  /\ queue' = {}
  /\ UNCHANGED <<rows, driver, orphans, timeouts, faults>>

HandleTimedOut(id) ==
  /\ Running /\ loop["sweeper"] = Off /\ id \in queue
  /\ loop' = [loop EXCEPT !["sweeper"] =
                Started(id, NotLanding(id), rows[id].tip)]
  /\ queue' = queue \ {id}
  /\ UNCHANGED <<rows, driver, orphans, timeouts, faults>>

HandleFails(id) ==
  /\ Running /\ loop["sweeper"] = Off /\ id \in queue
  /\ Inject("db")
  /\ queue' = queue \ {id}
  /\ UNCHANGED <<rows, driver, loop, orphans, timeouts>>

-----------------------------------------------------------------------------
(* drain_to_terminal: until no row of this run is open, or the deadline. A *)
(* failed query counts as no rows at all.                                  *)
Exit(late) == driver' = [driver EXCEPT !.pc = "exited", !.deadline = late]

RunRows == {id \in Ids : id > driver.baseline}

NonTerminal == {id \in RunRows : rows[id].status \in Open}

Drained ==
  /\ driver.pc = "drain" /\ NonTerminal = {}
  /\ Exit(FALSE)
  /\ UNCHANGED <<rows, loop, queue, orphans, timeouts, faults>>

DrainQueryFails ==
  /\ driver.pc = "drain"
  /\ Inject("query")
  /\ Exit(FALSE)
  /\ UNCHANGED <<rows, loop, queue, orphans, timeouts>>

DrainTimesOut ==
  /\ driver.pc = "drain" /\ NonTerminal # {}
  /\ Exit(TRUE)
  /\ UNCHANGED <<rows, loop, queue, orphans, timeouts, faults>>

-----------------------------------------------------------------------------
(* The environment: an accepted bundle lands, or lands with an error (and  *)
(* then does nothing); the tracker learns of it, from the stream or from   *)
(* reconcile, and of its finality; the process dies (or is interrupted)    *)
(* and the next run takes over what is left to submit and hydrates the     *)
(* open rows. A row that timed out lands no more: its blockhash is too old *)
(* (module Lifecycle).                                                     *)
Lands(id) ==
  /\ Running /\ rows[id].accepted /\ rows[id].status = "Submitted" /\ ~rows[id].landed
  /\ rows' = [rows EXCEPT ![id].landed = TRUE]
  /\ UNCHANGED <<driver, loop, queue, orphans, timeouts, faults>>

Advance(id, from, to) ==
  /\ Running /\ rows[id].accepted /\ rows[id].status = from
  /\ rows' = [rows EXCEPT ![id].status = to, ![id].learned = to # "Errored"]
  /\ UNCHANGED <<driver, loop, queue, orphans, timeouts, faults>>

Learns(id) == rows[id].landed /\ Advance(id, "Submitted", "Processed")
Finalizes(id) == Advance(id, "Processed", "Finalized")
ErrorsOnChain(id) == ~rows[id].landed /\ Advance(id, "Submitted", "Errored")

Outcome(id) == Lands(id) \/ Learns(id) \/ Finalizes(id) \/ ErrorsOnChain(id)

AwaitingInsert(b) ==
  (IF driver.pc = "record" /\ driver.bundle = b THEN 1 ELSE 0)
  + Cardinality({o \in Owners : loop[o].pc = "record" /\ rows[loop[o].row].bundle = b})

NextRun ==
  IF driver.pc \in {"warmup", "drain"} THEN driver
  ELSE IF driver.bundle = Count THEN EndSubmissions
  ELSE [driver EXCEPT !.pc = "warmup", !.bundle = @ + 1]

Crash ==
  /\ Running
  /\ Inject("crash")
  /\ orphans' = [b \in Bundles |-> orphans[b] + AwaitingInsert(b)]
  /\ loop' = [o \in Owners |-> Off]
  /\ queue' = {}
  /\ driver' = [NextRun EXCEPT !.baseline = Len(rows)]
  /\ UNCHANGED <<rows, timeouts>>

-----------------------------------------------------------------------------
Submit ==
  \/ AwaitReady \/ SkipWindow
  \/ \E feed \in Feeds : Accept(feed) \/ \E marks \in Rejections : Reject(feed, marks)

Retry(o) ==
  \/ GiveUp(o) \/ HoldOver(o) \/ GaveUp(o) \/ RecordResubmission(o)
  \/ \E feed \in Feeds : LlmDecides(o, feed) \/ BaselineDecides(o, feed)
  \/ ResubmissionAccepted(o)
  \/ \E marks \in Rejections : ResubmissionRejected(o, marks)

Drain == Drained \/ DrainTimesOut

Fault ==
  \/ \E feed \in Feeds : RejectUnrecorded(feed) \/ ReplyLost(feed)
  \/ RecordAcceptedFails \/ DrainQueryFails \/ Crash
  \/ \E o \in Owners : \/ DecideFails(o) \/ ResubmissionReplyLost(o)
                       \/ RecordResubmissionFails(o)
  \/ \E id \in queue : HandleFails(id)

Next ==
  \/ Submit \/ RecordAccepted \/ Drain \/ Fault
  \/ \E o \in Owners : Retry(o)
  \/ \E ids \in SUBSET Ids : Sweep(ids)
  \/ \E id \in queue : HandleTimedOut(id)
  \/ \E id \in Ids : Outcome(id)

Spec == Init /\ [][Next]_vars

(* The Tokio tasks run: an agent or engine call returns, a hold ends (the  *)
(* slot clock ticks), the drain's deadline comes. Nothing is assumed of    *)
(* what the model or the engine answers, nor that a bundle lands.          *)
Fairness ==
  /\ WF_vars(Submit \/ RecordAccepted)
  /\ WF_vars(Drain)
  /\ \A o \in Owners : WF_vars(Retry(o))
  /\ WF_vars(\E id \in queue : HandleTimedOut(id))

FairSpec == Spec /\ Fairness
=============================================================================
