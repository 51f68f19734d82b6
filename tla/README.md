# TLA+ models of the Smart Transaction Stack

This directory models the control logic of the Rust workspace in `src/`: a
service that submits Solana transactions as Jito bundles, follows each bundle
through the cluster's commitment levels, classifies the ones that do not land
and lets an agent decide what to do about them. The modules are checked by TLC
on small instances (`*.cfg`) and, where a `*Proofs` module exists, proved by
TLAPS for every value of their constants. `PROJECT.json` maps each definition to
the lines it models. Paths below are relative to `src/crates/`.

## 1. Inventory

### Components, their state and operations

| Component | State | Operations | What makes it correct |
|---|---|---|---|
| lifecycle tracker (`lifecycle`) | `Inner` (pending records, signature map, two reverse indices, last observed slot) under a mutex; the SQLite table `bundle_submissions` as a write-through mirror | `record_submission`, `record_rejection`, `record_jito_status`, `ingest`, `ingest_and_persist`, `check_timeouts`, `reconcile`, `hydrate` | the indices agree with the records; a claimed commitment is real; a stage only advances; every row becomes terminal; nothing is retried that has landed |
| orchestrator (`orchestrator`) | background tasks, the driver of a run, slot clock, sweep queue | `await_ready`, `submit_one`, `agent_retry_loop`, `handle_timed_out`, `drain_to_terminal`, status poller | nothing in flight, or known to have landed, is asked for again; every retry was decided and is bounded; tips are capped; a run ends and leaves nothing in flight |
| agent (`agent`) | decision log (`agent_decisions`) | LLM decision, baseline decision, `clamp_actions` | the guardrail holds for any reply; the baseline reprices for the right reason |
| failure classifier (`failure`) | none | `classify` | the cause is named, not its symptom; infrastructure never looks like a low tip |
| stream client (`stream`) | subscription, backoff, attempt number, reconnect channel | connect, forward, reconnect | received statuses are not dropped, every gap is signalled |
| submitter (`submitter`) | blockhash cache, tip-account cache, rate limiter | `submit`, `send_bundle`, `poll_bundle_status`, refreshers | a live submission never starves; freshness of what a bundle is built from |
| leader windows (`leader`) | slot, leader schedule, Jito set | refresh, `next_jito_leader`, `wait_for_window` | the window ahead is one of a Jito leader, and where its group begins |
| tip feed (`tips`) | latest snapshot, bounded history | websocket run, REST poll, `is_stale` | a stale price is not used as a live one |
| swap prefetch (`orchestrator`) | one staged swap with its slot | prefetch, take | no stale and no twice-used swap |

### How they interact

- The **stream** sends slot updates (lossy) and transaction statuses (blocking)
  over a channel to a fan-out task, which updates the slot clock and calls
  `LifecycleTracker::ingest`. On a reconnect it signals the reconcile task.
- The **driver** (`run_count`) waits for a leader window, prices the tip from
  the tip feed, submits, and records the row; an accepted bundle gets a Jito
  status poller, a refused one goes through the agent retry loop.
- The **sweeper** calls `check_timeouts` and takes each timed-out row through a
  retry loop of its own, one after the other, at the same time as the driver.
- The tracker's memory is shared by all of these under a mutex that is never
  held across an `await`; SQLite is shared by everyone and is what the retry
  loop, the drain and a restart read.

### Hard behaviours

Ordering of spawned writes; reconcile's stale view; the sweeper racing the
reconcile pass after a gap; two-step updates of memory and row; failed database
calls between two steps; restarts at any await; a lost answer of the block
engine; two retry loops side by side; a drain that sees only rows; a window put
together from a clock and caches read one after the other; updates the stream
client does not listen to; reconcile passes that fail. `hazards` in
`PROJECT.json` lists them at their lines, with the properties aimed at them.

## 2. Plan

Order: the tracker is the record of truth every other part reads, so it comes
first; the control loop, where money can be spent twice, second.

| # | Modules | Composes | Abstract specification | State |
|---|---|---|---|---|
| 1 | `TrackerState`, `Lifecycle`, `LifecycleProperties`, `MCLifecycle` | stream gap environment, sweeper, reconcile, pollers, table | `Commitment` (the documented order of states) | done |
| 2 | `TrackerProofs`, `LifecycleProofs`, `ClaimsProofs` | | `Commitment` | every safety property of the tracker and the refinement proved |
| 3 | `Decisions`, `Orchestrator`, `OrchestratorProperties`, `MCOrchestrator`, `OrchestratorProofs`, `RetryProofs` | classifier, agent and tip policy as pure operators | | done; every safety property proved |
| 4 | `RateLimiter`, `JitoCalls`, `MCJitoCalls`, `RateLimiterProofs` | submissions of driver and sweeper, blockhash and tip-account caches, warmer, status pollers | | done; every safety property proved |
| 5 | `LeaderWindows`, `SubmissionPath`, `PathProperties`, `MCPath`, `PathProofs` | slot clock, refresh loops, swap pre-fetcher, driver | the network's schedule (`TrueWindow`, `AimedWindow`) | done; window and swap-age theorems done |
| 6 | `StreamSupervisor`, `TipFeed`, `Feeds`, `MCFeeds`, `FeedsProofs` | event queue, fan-out, reconnect channel, reconcile task; tip feed | what has landed is learned of | done; status and gap theorems done |

Every safety property a passing run checks is now a theorem. What would say more
is a composition: of the submission path with the limiter and the stream, which
would let one run ask how long after its window a bundle can be sent (nothing in
the code bounds it), and of the tracker with the orchestrator, whose row is an
abstraction of the tracker's that section 4 states in words; and of the stream
with the tracker, whose landings are all reported as transaction statuses.

## 3. The lifecycle tracker

`TrackerState` holds `Inner` as a record (`stage`, `slot`, `jito`, `bySig`,
`confirmIdx`, `finalizeIdx`, `lastObserved`) and the functions of the code that
edit it: `Insert`, `MarkProcessed`, `MarkConfirmed`, `Forget`, `Drained`
(`drain_le`), `OnConfirmed` and `OnFinalized` (the two slot arms of
`apply_event`), `TimedOut`. A row missing from `pending` is "Untracked".

`Lifecycle` runs them. A step ends at an `await`, so `record_submission` is
`Send`, `InsertRow`, `Track`; `record_rejection` is memory first and the UPDATE
second; `check_timeouts` takes all the timed-out rows out of memory and then
persists them one by one; `reconcile` selects the open rows, asks the RPC node
(the answer may fail, or the whole call, and may be older than what memory
already knows), marks, and persists. `ingest` puts its writes into the set
`spawned`, from which SQLite applies them in any order; with `AwaitWrites` the
stream waits for them (`ingest_and_persist`). The cluster (slots become
confirmed and finalized, bundles land, with or without an error, unconfirmed
blocks may be dropped) and the connection (statuses of a gap are lost) are the
environment; a landing is reported as a `TransactionStatus` update, the only kind
the client passes on (section 7 has what happens otherwise). Faults, each from `FaultKinds` and at most `MaxFaults` in a
behaviour: `gap`, `write` (an UPDATE or INSERT fails), `rpc` (reconcile's call
fails), `crash` (all tasks die, `hydrate` rebuilds memory), `fork`.

Runs:

| Run | Shows |
|---|---|
| `lifecycle_faults` | one bundle, three faults of any kind but forks, landings possibly before the row is tracked: indices consistent, claims about the chain true, the verdicts in the table known to memory, stages only advance, no row is handed to the agent twice (`HandedOverOnce`) |
| `lifecycle_close` | under fairness every tracked row leaves memory, through gaps, failed writes, failed RPCs and dropped blocks; a row handed to the agent is failed in the table |
| `lifecycle_terminal` | with awaited writes and no faults the table implements `Commitment`, every row stays terminal in the end, no tracked row is closed in the table, and no retried bundle has landed |
| `lifecycle_order` (violation) | with spawned writes the table leaves `Commitment`: Confirmed may be overwritten by a late Processed |
| `lifecycle_gap` (violation) | after a gap, the sweeper overtakes the reconcile pass and retries a bundle that landed |

Bounds. `MaxSlot` 3 or 4 gives slot numbers for a landing, its confirmation, its
finality and a timeout on either side of each; `TimeoutSlots` 1 or 2 against
`BlockhashLife` 1 keeps the margin the configuration has (a bundle cannot land
any more when it times out), except where landings before tracking are allowed.
One bundle is enough for the faults runs, since rows meet only in the indices
and in reconcile's batch. `StreamLag`
lets slot updates run ahead of the status of a landing by that many slots.

Fairness (`FairSpec`): slots advance, the stream reconnects and delivers what it
holds, spawned tasks run, SQLite applies writes, the submitting task, the
sweeper and the reconcile task get on. These are Tokio tasks in loops with
timers and a channel that blocks its sender, so each enabled step is eventually
taken. Nothing is assumed of landings, verdicts or faults.

## 4. The orchestrator

`Decisions` holds the pure half: the tip policy, the classifier's verdict (a
rejection text is the set of pattern groups it matches; an on-chain error is the
one decoded off the stream; a bundle that never landed has the ages and tips of
its row), the baseline rule for each of the six kinds of failure, which answers
of the model's API count as a decision, the guardrail and `plan_actions`. Errors
on chain are classified for the record only: no retry loop starts from one,
so two kinds of failure reach the baseline in no run (`ExpiredBlockhash`,
`ComputeExceeded`), and only the theorems of section 8 quantify over them.
`Orchestrator` has the driver (`driver`: warm-up, submission, INSERT, retry,
drain, exited), one retry loop for the driver and one for the sweeper (`loop`),
the rows a sweep has found and not yet handled (`queue`) and the rows with the
executed decisions on each. `orphans` counts accepted submissions no row stands
for. The tracker is reduced to what it does to a row: Submitted, Processed,
Finalized or Failed. Landing and hearing of it are two steps: a bundle lands
(`Lands`), and the tracker may learn of that at any time after (`Learns`), or
never, be it for a gap of the stream, a status ahead of `track`, or a restart. A
row the sweep finds still Submitted may thus have landed, and is failed and
retried all the same. That it does not land after that is assumed: the timeout
covers the life of its blockhash (`BlockhashLife` and `TimeoutSlots` in section 3).

So a landed bundle may be retried, and `AtMostOnce` does not deny it: it counts
such rows (`Overlooked`: Failed, landed, not learned of) and says that nothing
else makes a second submission of a bundle landed or pending. That leaves
something to go wrong in every other way: a retry of a row that is in flight or
known to have landed, two retries of one row by two loops, a second submission
after a failed INSERT or a restart. `lifecycle_gap` shows an overlooked landing
come about.

Faults: `db` (an INSERT, a SELECT or the UPDATE of a refused bundle fails, with
what the code had done before it kept; the UPDATE of the sweep never fails here,
module `Lifecycle` has that), `query` (the drain's), `reply` (the answer of
`sendBundle` is lost), `crash` (the next run hydrates the open rows and goes on
with the bundles that are left).

| Run | Shows |
|---|---|
| `retry_safety` | two bundles, the driver's and the sweeper's loops side by side, landings heard of late or never, one fault: `AtMostOnce`, `RetriesAreDecided`, `TipsAreCapped`, `BaselineRaisesOnlyWhenOutbid`, and the driver never comes back to a stage it has left (`DriverGoesOn`) |
| `retry_ends` | under fairness a run ends; until it does, no failed row is dropped before its decision, with a lost answer and up to two rows in a sweep; the same of the submissions the program knows to be accepted, lost answers or not (`KnownAtMostOnce`); `BaselineRaisesOnlyWhenOutbid` again, with a live market |
| `retry_bound` (violation) | retries that are accepted and time out restart at attempt 1: one bundle is resubmitted without a bound |
| `retry_drain` (violation) | the run reports all bundles terminal and exits while a retry is being submitted |

Bounds. `Count` 2 puts a refused bundle and a timed-out one side by side;
`MaxAttempts` 3 makes the baseline reprice twice, past the cap (`MaxTip` 5,
market 2 and 3, fallback 1: below the market, so that with the stale feed
of `retry_safety` a lost bundle looks outbid; `retry_ends` reads a live one);
the rejection texts are a low tip, and congestion that reads like one; the model
replies Abandon, or a tip above the cap with a hold and a second terminal
action, or with something that is no decision: nothing, an HTTP error, an empty
text, prose (the baseline then decides). `MaxTimeouts` bounds the
sweeps; `retry_ends` has two, which may come from one sweep. CHECK_DEADLOCK is
off in these runs because the program exits.

Fairness: agent and engine calls return, holds end (the slot clock ticks), the
drain's deadline comes, the sweeper's task runs. Nothing is assumed of what the
model or the engine answers, or that anything lands.

## 5. The rate limiter and its callers

`RateLimiter` is `JitoRateLimiter::acquire`, a step per shared access: `Arrive`
(`fetch_add`, or the start of a Low caller's loop), `Look` (the load) and
`LookAgain` after a sleep of one interval, `Reserve` (the critical section that
moves `next_at`), `Release` (`fetch_sub`) and `Granted` (the sleep is over).
`next_at` and the sleeps are kept as the time that is left, so `Tick` counts
them down and the state space is finite without a bound on time. The mutex is
taken in any order, which includes Tokio's. `Tick` waits for a caller between
`Reserve` and `Release`, as nothing is awaited there; `Paced` is therefore about
the instants booked, not about how late a task wakes up after them.

`JitoCalls` adds the tasks: a sender takes its blockhash from the cache, or
from the RPC node while the refresher has not filled it; then its tip account
from the cache, or it asks for the accounts as a Low caller; then it sends its
bundle as a High one. The warmer fetches accounts; the driver's accepted bundles
are polled. Both caches start empty, and the tip accounts may expire whenever
they are held, since refreshes may fail or lag (a refresh is due every 120 s,
accounts are held for 300 s). Requests are answered or fail. The age of a cached
blockhash is not kept: no code reads it.

| Run | Shows |
|---|---|
| `limiter` | tokens are an interval apart (`Paced`); a new token is at most one interval per waiting request away, and one more, so back-offs cost nothing (`WaitIsBounded`); no Low caller passes the check while a High one waits to book (`LowsYield`); every submission gets out (`SubmissionsAreAnswered`) |

Bounds: driver and sweeper with a submission each, warmer and one poller, which
makes up to two High callers and two Low ones, or four Low ones, meet in any
order; `Interval` 3 ticks, so that callers arrive between two tokens; two polls stand for the six or
seven of `BUNDLE_STATUS_BUDGET`. Fairness: time passes, tasks that can run do, requests
are answered or fail. Nobody has to submit, warm or poll.

The priority is one of order at the check: a Low caller past it, or one that has
booked its token, still goes before a submission that arrives later, and
`WaitIsBounded` says what that can cost.

## 6. The way to a window

`LeaderWindows` is the leader tracker. The fan-out gives every slot update to
two clocks: the orchestrator's own (`slotClock`, any status) and the tracker's
(`clock`, processed updates only). Two loops refresh the schedule and the
validator set; a refresh reads the clock, asks (`AskSchedule`), and stores what
it got when the clock has moved on (`StoreSchedule`), or fails. Of the ages of
clock, schedule and set only a flag is kept, raised by time and cleared by a
refresh. `CurrentWindow(now)` is the rest of `current_window`, with
`next_jito_leader`, for a slot `now` read from the clock: the first group start
ahead of `now`, or ahead of it from the schedule's first slot if that is later,
whose leader is in the cached set; empty stands for its errors. `NoSlot` is a clock that has not ticked
yet. What the network does is in `LeaderOf` and `Responses`: the schedule every
RPC answer is a stretch of, and what the validator API may answer, from which
`RunningJito` filters as `fetch_validator_sets` does.

`SubmissionPath` adds the driver (warm up, wait, in swap mode fetch, send,
space) and the swap pre-fetcher, which share one staged swap. A call of
`current_window` is two steps of its task: `ReadsClock` takes the slot and lets
go of the clock's mutex (`seen` keeps it), and a later step reads schedule and
set and acts on the answer; anything may move in between. The schedule stays
locked while the set is read, and the step takes both at once: what is stored
for one of them meanwhile does not depend on the other. A swap keeps the slot
it is stamped with (`fetchedAt`) and the slot it was really asked for in
(`quoted`), so that a stamp that lies is seen. The retry loop of a refused
bundle is module `Orchestrator`'s.

| Run | Shows |
|---|---|
| `path` | the windows driver and pre-fetcher find are the network's, though clock, schedule and validator set moved while they were put together (`WindowsAreTrue`); a swap goes into its first window young, by the slot it was asked for in (`SwapsAreYoung`); a silent stream keeps nobody waiting (`WaitersAreAnswered`) |

`WindowsAreTrue` has two parts. Always, the window is ahead of the slot the call
read, and the leader it names leads the whole group it lies in and runs the
Block Engine. That it is the beginning of its group, and that no group of a
certain Block Engine leader was skipped, holds as long as the clock has not
passed the next group's first slot since the call read it: once it has, the
schedule in use may start after that slot, and the search starts at the
schedule's own first slot, which may lie inside a group. Such windows are reached
in `path`: the call reads slot 3, the clock goes on to 5, the schedule is
refreshed from there, and the driver takes the window at 5. In the code it takes
a thread stopped between the two reads for as long as a refresh lasts.

Bounds. `FirstSlot` 3 to `MaxSlot` 6 has a group boundary and leaves the clock
room to pass it by two slots; `Lookahead` 5 reaches into the group after it, and
not from every start, so that a search may run off the end of the schedule.
There are windows at both boundaries, 4 and 8, and inside the group; the group
in between has a leader that comes and goes, so it is skipped in some states and
must not be in others. `SwapMode` is TRUE: memo mode is the same driver without
the pre-fetcher, and the theorems of section 8 are about both. `MaxLag` 1 makes
slot updates late and the clocks differ; the four leaders, group by group, are one that always runs the Block Engine, one that comes and goes, one that may
run BAM, and one that never does, beside a validator whose identity does not
parse. `PrefetchAhead` 1, `RefreshAge` 0 and `MaxAge` 1 keep the order of the
constants they stand for; two bundles, an interval of 1 apart. Fairness is
of the polls alone: `await_ready` and `wait_for_window` look again on a timer.
Nothing is assumed of the stream, of the RPC node or of the refreshes.
CHECK_DEADLOCK is off as a behaviour ends with the submission phase.

## 7. The feeds

`StreamSupervisor` is the Yellowstone client and the tasks that live off it. A
connection is made, forwards, and ends at any time; what the server had sent and
the client had not read is lost with it. A slot update is dropped when the event
channel is full, a transaction status waits for room (`blocked`) and holds back
everything behind it, an update of any other kind is ignored (`ForwardOther`). A
connection after the first attempt tries to signal the reconcile task, and gives
up when its channel is full.

The subscription sets a `transactions` filter and leaves `transactions_status`
empty (`build_subscribe_request`), while `forward` makes events of
`TransactionStatus` updates only. What a server sends for that filter is not in
this repository, so the kind of an update about a landing is the server's choice
from the constant `TxUpdates`, and `feeds` lets it choose each time. If whole
`Transaction` updates are what it sends, the client ignores every landing, and only
reconcile passes learn of one.

A reconcile pass asks about the landings before its start (`asked`), and has
learned of them when it succeeds (`ReconcileSucceeds`). When it fails
(`ReconcileFails`), it has marked some of them or none; the task logs the error
and waits for the next signal. `TipFeed` is the tip tracker: websocket, REST
polls during a back-off, and whether the latest snapshot is stale. `Feeds` runs
the two side by side; they share nothing but the process.

| Run | Shows |
|---|---|
| `feeds` | no status the client received is lost (`StatusesAreKept`, which says nothing of the updates it ignores); a landing no update of which reached the client has a signal in the channel, unless a pass has asked about it (`MissedAreSignalled`); as long as the connection breaks again and again, every landing is learned of, be its update ignored or a pass about it failed (`LandingsAreLearned`); as long as the socket fails again and again the polls keep the tips fresh (`TipsRecover`) |

Nothing is promised of a connection that stays up: a landing whose update was
ignored, or whose pass failed, is then left to the sweeper, which takes the row
for lost (section 3). That is why `LandingsAreLearned` supposes a connection
that breaks again and again.

Bounds: two transactions, an event channel of 2 and a reconnect channel of 2
(1024 and 8 in the code): both fill up. Fairness: the tasks run and the wire
delivers (weak); a server that is tried for ever lets the client in at last
(strong, as a connection may be refused any number of times in between);
reconcile passes made again and again do not all fail (strong); a REST
poll that is tried again and again succeeds at last. A landing counts from the
first slot update on (`started`), since the driver sends nothing before: what
landed while the process was down is outside the model, and is not signalled by
the code either.

## 8. What is proved

The tracker. `LifecycleProofs` proves, for every set of bundles, every `MaxSlot`, timeout,
lag and fault budget (under `LifecycleAssumption` and the assumptions of
`TrackerState`, which only type the constants):

- `TypeCorrect`: `Spec => []TypeOK`;
- `IndicesAlwaysConsistent`: `Spec => []IndicesConsistent`;
- `StagesAdvance`: `Spec => StagesOnlyAdvance`.

The inductive invariant is
`IInv == TypeOK /\ IndicesAgree(inner) /\ RowsSound /\ Provenance`. The indices
alone are not inductive: a restart rebuilds them from the table, so a Processed
row must have a landed slot and a Submitted row none (`RowsSound`), and
`record_submission` overwrites whatever memory holds under its row id, so nothing
may be tracked, queued or snapshotted for a bundle before its row is known
(`Provenance`). `TrackerProofs` has one lemma per function of `TrackerState`:
it keeps `Sound` (typed and indexed) and says what it does to the stage. Then
there is a lemma per group of actions, `Inductive` combines them and PTL closes
the theorems.

`ClaimsProofs` builds on it, with the other safety properties of the tracker and
the refinement. Where a theorem has a hypothesis, TLC has a counterexample
without it, part for part. `TimeoutSlots`, `BlockhashLife`, `StreamLag`,
`AwaitWrites` and `LandsEarly` are constants, so the hypotheses are about the
environment and the configuration.

| Theorem | Hypotheses | Property | Invariant, and why the property alone is not inductive |
|---|---|---|---|
| `VerdictsAlwaysReachMemory` | none | `VerdictsReachMemory` | `VerdictsHeard`: a poller has told memory before its UPDATE, and polls nothing before the row is tracked; the UPDATE would otherwise bring a verdict nobody heard |
| `RetriedRowsStayFailed` | none | `RetriedRowsAreFailed` | `HandedOver`: a row the sweep took is `Dead` (not tracked, never to be again, and every write still pending for it fails it), because only a row still Submitted is swept and a pending write of another kind is of a row that has moved on (`WritesFollowMarks`) |
| `HandedOverOnlyOnce` | none | `HandedOverOnce` | `HandedOver` again: the rows a sweep has just drained were tracked, those handed over earlier are `Dead`, so the two have no row in common (`StepHandsOnce`) |
| `ClaimsAlwaysTrue` | no fork | `ClaimsAreTrue` | `ClaimsHold`: the claim is true already of what memory holds, of each write on its way (spawned, or queued by reconcile) and of each answer the reconcile task has not applied |
| `TrackedRowsStayOpen` | no landing before tracking | `TrackedRowsAreOpen` | `OpenWhileTracked`: a closing write, a row in the sweep and a rejection about to be written are of rows memory has dropped, and a dropped row does not come back |
| `SweptNeverLanded` | the same; neither gap nor crash; `BlockhashLife + StreamLag <= TimeoutSlots` | `RetriedNeverLanded` | `StatusesInTime`: the tracker's clock is not past the cluster's head, nor more than `StreamLag` past a landing whose status is still due, so a row that times out is `Behind`: not landed, its blockhash dead |
| `RowsImplementCommitment` | `AwaitWrites`; no gap, crash or failed write | `RowsFollowCommitment` | `WritesInTurn`: a row has at most one write under way, the next one its lifecycle allows (`Due`), and is else where memory has it; reconcile sleeps (`Undisturbed`) |

The refinement maps `status` to the states of the table's rows. `TableStep` says
that a step changes at most one of them, to one of `After`;
`TableStepImplements` makes that a step of `Commitment` or a stutter, and a
lemma per group of actions shows it with `WritesInTurn`. `LifecycleAssumption`
says of `Verdicts` that none of them is a name the poller's state uses.

The orchestrator. `OrchestratorProofs` proves, for every number of bundles,
attempts and timeouts, every cap and market, every set of replies of the model
(any sequences of actions) and every fault budget, under `TipAssumption` and
`OrchestratorAssumption`, which only type the constants:

- `TypeCorrect`: `Spec => []TypeOK`, where the type of a row says that a
  decision is for an attempt in `2 .. MaxAttempts`;
- `TipsNeverExceedCap`: `Spec => []TipsAreCapped`;
- `RaisedOnlyWhenOutbid`: `Spec => BaselineRaisesOnlyWhenOutbid`, for every piece
  of evidence the classifier knows;
- `RunOnlyGoesOn`: `Spec => DriverGoesOn /\ [](DriverStage \in 0 .. LastStage)`, the
  half of `RunEnds` that does not depend on the scheduler: with at most `Count`
  bundles and so many stages in each, the driver has finitely many steps to take.

Its inductive invariant is `IInv == TypeOK /\ Capped /\ AttemptLeft` of both
loops. That the rows are capped is not inductive: a retry's tip starts from the
one its loop carries, which comes from a row or from a refused submission of the
driver, so `Capped` says it of rows, driver and loops together. A decision is
numbered one above the loop's attempt, and a resubmission increments it after
the check against `max_attempts`, so the type needs that a loop past the check
still has an attempt left. The lemmas about `Decisions` come first
(`ClampedCapped`: clamping any sequence of actions leaves only capped SetTips;
`PlanSound`: a plan takes its tip from one of them or from the row), then one
lemma per group of actions, with `Parts` as the form of the invariant that the
steps establish. The third theorem adds `DriverLoop` (the driver starts a loop
only when it has none, so no step but its own decision touches a loop that is
deciding; the lemmas named `...Tells`), `OnlyOutbidIsPriced` (of the kinds, only
`FeeTooLow` is priced, and only an outbid bundle is of that kind) and
`UnpricedPlanKeepsTip`. The fourth needs both directions, `DriverAtLoop`: a
driver in its retry phase without a loop would stand still. Each group of actions
either leaves the driver where it is (`Stays`) or moves it to a later bundle,
phase or point of its loop (`Moves`, the lemmas named `...GoesOn`); the check
against `max_attempts` keeps the loop's stages below the drain's (`StagedSound`).

`RetryProofs` proves, on top of these, what the retry loops owe the audit trail
and the user. Here too TLC refutes each theorem that has hypotheses without them.

- `EveryRetryIsDecided`: `Spec => []RetriesAreDecided`, under every fault. The
  invariant `Trail` places each loop in the log of its row (`Progress`: a loop
  that has decided has logged, one that has not is one decision behind), keeps
  the two loops and the queue on rows that differ, are Failed and are not
  retried yet, and says of a retried row that it has one retry and a last
  decision other than Abandon.
- `NoFailureIsDropped`: `Spec => []FailuresAreDecided`, if no call to the
  database fails, the process does not crash and `MaxAttempts > 1`. A failed row
  without a decision is in the queue or in a loop about to decide
  (`NoneDropped`); it takes `Trail` to know that the loop which leaves it has
  logged.
- `LandsAtMostOnce`: `Spec => []AtMostOnce`, if no answer of the engine is lost,
  and `KnownLandsAtMostOnce`: `Spec => []KnownAtMostOnce`, under every fault, lost
  answers included. Neither says that a bundle lands only once: a landing the
  sweep came before is counted beside (`Overlooked`), and they say that such
  landings are the only further ones. One invariant serves both, `OneClaim`: a
  landing the tracker learned of settles its row (`LearnedSettled`), so a row that
  has landed is live or overlooked (`ClaimedOnce`); the rows of a bundle
  form one chain, of which only the head is not retried (`OneHead`), the driver
  has made nothing of the bundles ahead of it, and, as long as answers arrive, an
  accepted submission whose INSERT failed leaves a bundle whose rows are all
  failed and that nobody holds (`OrphansSettled`). So at most one submission of
  a bundle is live (`LiveOnce`). Without the last part the recorded ones are
  still one at most, as a loop that resubmits holds the head of a chain of
  failed rows: what can land twice besides is then an orphan and a claim, or two
  orphans.

The rate limiter. `RateLimiterProofs` proves, for every finite set of callers
and every interval (`LimiterAssumption`):

- `TypeCorrect`: `Spec => []TypeOK`, so `high_pending` never goes below zero;
- `AlwaysPaced`: `Spec => []Paced`;
- `LowsAlwaysYield`: `Spec => LowsYield`;
- `WaitStaysBounded`: `Spec => []WaitIsBounded`;
- `CallersImplementLimiter`: `CallsSpec => Spec`, under `CallsAssumption`: each
  action of `JitoCalls` is an action of the limiter or leaves it alone;
- `CallsArePaced`: `CallsSpec => []Paced /\ LowsYield /\ []WaitIsBounded`, from it;
- `CallsTypeCorrect`: `CallsSpec => []CallsTypeOK`.

The invariant behind the first and the third is `HighsCounted`: `high_pending`
is the number of High callers between `fetch_add` and `fetch_sub`. `Paced` is
inductive with the types: a token is booked at `next_at`, which is an interval
after all others. The bound of the wait is not: when the oldest token goes out,
one waiting request less must account for the same `next_at`. `WaitIsPacked`
says it of every delay: beyond any instant, `next_at` is no further than one
interval for each token booked after it, and one more.

The way to a window. `PathProofs` proves, for every schedule, every set of API
answers and every value of the thresholds (`BoundsAssumption`,
`LeadersAssumption`: leaders come in groups of four, `ResponsesAssumption`,
`PathAssumption`):

- `PathTypeCorrect`: `Spec => []PathTypeOK`;
- `WindowsAlwaysTrue`: `Spec => []WindowsAreTrue`;
- `SwapsAlwaysYoung`: `Spec => []SwapsAreYoung`.

The invariant is `PathInv == PathTypeOK /\ Told /\ Read /\ DriverWindows /\
Stamped /\ Carried`: the cached schedule is a stretch of the network's that does
not start after the clock (`Told`), nor is a slot some task has read ahead of it
(`Read`), though the schedule may start after that slot; a swap's stamp is not
after the slot it was asked for in, as the leader clock is never ahead of the
orchestrator's (`Stamped`), and the swap the driver carries was fresh at its
window or asked for after it (`Carried`). The clock does not go back, so a window
the driver has taken stays right (`DriverWindows`). Lemma `WindowIsRight` is about
the search, with the schedule anywhere between the slot read and the clock; the
least fitting slot exists by the well-ordering of the naturals. That the window
begins its group does not hold without the condition on the clock: the window at
5 of section 6 is the counterexample.

The feeds. `FeedsProofs` proves, for every set of transactions and all
capacities, whichever kinds of update the server sends (`CapacityAssumption`,
`SlotEventAssumption`, `TxUpdatesAssumption`), without fairness:

- `FeedsTypeCorrect`: `Spec => []FeedsTypeOK`;
- `NoStatusLost`: `Spec => []StatusesAreKept`;
- `NoGapUnsignalled`: `Spec => []MissedAreSignalled`.

The invariant adds `Quiet`: before the first connection nothing has landed,
which is what makes it harmless that the first attempt is not signalled; a full
reconnect channel already holds a signal that was not taken up yet.

Only model-checked: liveness (`TrackedRowsClose`, `RowsReachTerminal`, `RunEnds`,
`SubmissionsAreAnswered` and those of sections 6 and 7), which is out of the
prover's reach, as is ENABLED; and the four violations, which are
counterexamples.

## 9. Findings

Four runs end in a violation; `findings` in `PROJECT.json` quotes the line of
the documentation each one contradicts: spawned writes reorder
(`lifecycle_order`), a sweep before reconcile retries a landed bundle
(`lifecycle_gap`), attempts are counted per row and not per bundle (`retry_bound`), the drain does not see a
retry in flight (`retry_drain`).

Met while modelling, and kept as hazards with notes: a Confirmed slot update
confirms rows on a lost fork; a Confirmed row hydrated without its slot waits
for a reconnect; a lost `sendBundle` answer is classified as a bundle that never
reached the auction, and is submitted again; a failed status query ends the
drain (`retry_drain` does without it, and no property covers it); a hold waits for
the slot clock without a deadline (`RunEnds` supposes that it ticks); a reconcile
pass that fails is not tried again before the next gap; the subscription filters
transactions (`stream/src/lib.rs:292`) and leaves `transactions_status` out, while
`forward` passes on `TransactionStatus` updates only (`:583`), so if the server sends
what the filter names, the tracker hears of a landing from reconcile alone; a call of
`current_window` held up between its two reads may return a window inside a leader
group (`leader/src/lib.rs:515`), where `ARCHITECTURE.md:155` has the start of one; the blockhash is stamped with the submission slot, which makes
`ExpiredBlockhash` unreachable for a live row; one failed UPDATE in a sweep
leaves the rows of its batch Submitted in the table and in no index, for good; a
window's fetch or limiter wait may outlive the window, which nobody checks again
before sending; a new price may be asked about and an old one used, as the two
reads of the tip feed are apart; the retry loop resends a swap transaction at any
age, and the sweeper retries a swap as a memo bundle.

Words that lag behind the code: `stream/src/lib.rs:370` says the first successful
connection is not signalled (it is, if it took more than one attempt); the
comment at `leader/src/lib.rs:330` says the search may return the current slot
(it looks strictly ahead); `orchestrator/src/app.rs:74` says a pre-fetched swap is stamped
by the orchestrator's slot clock (it is the leader tracker's).

## 10. Not modelled

HTTP, gRPC and websocket encodings, transaction building, signing, simulation
and diagnostics, the prompt and the context sent to the model, the confidence
and rationale of a classification (and the Jito verdict, which colours only
these), the shadow decisions logged for comparison, timestamps and latency
deltas, log export and status rendering, configuration parsing, URL redaction:
data or I/O no property tells apart. Delays (back-off, polling and refresh
intervals, the drain's deadline) are kept as orders of events, never as lengths.
The history and trend of the tip feed and the BAM priority fee reach only the
model's context and the bytes of a transaction. The fault-injection modes are a
test harness. The stream client's shutdown on a closed event channel cannot
happen here, as the fan-out lives as long as the process.
