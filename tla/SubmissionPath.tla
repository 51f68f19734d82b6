--------------------------- MODULE SubmissionPath ---------------------------
(***************************************************************************)
(* The way of a submission to its window: the run's driver warms up, waits   *)
(* for a Jito window, in swap mode takes the swap the background task keeps  *)
(* warm (or fetches one on the spot), and sends, while the leader tracker of *)
(* module LeaderWindows moves on behind it.                                  *)
(*                                                                          *)
(* Of a Jupiter swap transaction two slots are kept: the one it is stamped   *)
(* with and the one it was asked for in, which bounds the age of the         *)
(* blockhash it carries.                                                     *)
(***************************************************************************)
EXTENDS LeaderWindows

CONSTANTS
  SwapMode,       \* Config::payload is a swap, not a memo
  Count,          \* bundles the run submits
  Interval,       \* interval_slots between two submissions
  PrefetchAhead,  \* SWAP_PREFETCH_AHEAD_SLOTS
  RefreshAge,     \* SWAP_PREFETCH_REFRESH_SLOTS
  MaxAge          \* SWAP_PREFETCH_MAX_AGE_SLOTS

ASSUME PathAssumption ==
  /\ SwapMode \in BOOLEAN /\ Count \in Nat \ {0}
  /\ {Interval, PrefetchAhead, RefreshAge, MaxAge} \subseteq Nat

VARIABLES
  driver,    \* [pc, left, target, window, swap]: the driver inside run_count
  staged,    \* {} or {swap}: swap_prefetch, the warm swap
  fetching,  \* {} or {swap}: the pre-fetch under way
  seen       \* per task: {} or {slot}, the clock it has read in current_window

pathVars == <<driver, staged, fetching, seen>>
vars == <<leaderVars, pathVars>>

Tasks == {"driver", "prefetcher"}

Stages == {"warming", "waiting", "fetching", "sending", "spacing", "done"}

(* A swap asked for now, and stamped with a slot.                           *)
NewSwap(stamp) == [fetchedAt |-> stamp, quoted |-> slotClock]

Init ==
  /\ LeaderInit
  /\ driver = [pc |-> "warming", left |-> Count, target |-> 0,
               window |-> {}, swap |-> {}]
  /\ staged = {} /\ fetching = {} /\ seen = [task \in Tasks |-> {}]

----------------------------------------------------------------------------
(* A call of current_window: the clock is read in one step, the rest in the *)
(* one that acts on the answer.                                             *)
ReadsClock(task) ==
  /\ seen[task] = {} /\ ClockReady
  /\ seen' = [seen EXCEPT ![task] = {clock}]
  /\ UNCHANGED <<leaderVars, driver, staged, fetching>>

Found(task) == UNION {CurrentWindow(now) : now \in seen[task]}
Unavailable(task) == IF seen[task] = {} THEN ~ClockReady ELSE Found(task) = {}
Answered(task) == seen' = [seen EXCEPT ![task] = {}]

----------------------------------------------------------------------------
(* The swap pre-fetcher.                                                    *)

(* It peeks at the window without waiting for it, and asks for a swap when  *)
(* a window is near and the warm one is missing or older than RefreshAge.   *)
Peeks == SwapMode /\ fetching = {} /\ ReadsClock("prefetcher")

NeedFetch(now) == \A s \in staged : now - s.fetchedAt > RefreshAge

FetchFor(w) == SlotsUntil(w) <= Threshold + PrefetchAhead /\ NeedFetch(w.current)

StartPrefetch ==
  /\ \E w \in Found("prefetcher") :
       FetchFor(w) /\ fetching' = {NewSwap(w.current)}
  /\ Answered("prefetcher")
  /\ UNCHANGED <<leaderVars, driver, staged>>

NoPrefetch ==
  /\ seen["prefetcher"] # {}
  /\ \A w \in Found("prefetcher") : ~FetchFor(w)
  /\ Answered("prefetcher")
  /\ UNCHANGED <<leaderVars, driver, staged, fetching>>

StorePrefetch_StampedLate ==  \* mutant
  /\ fetching # {}
  /\ staged' = {[s EXCEPT !.fetchedAt = clock] : s \in fetching}
  /\ fetching' = {}
  /\ UNCHANGED <<leaderVars, driver, seen>>

(* The swap is stamped with the slot read before the fetch.                 *)
StorePrefetch ==
  /\ fetching # {}
  /\ staged' = fetching /\ fetching' = {}
  /\ UNCHANGED <<leaderVars, driver, seen>>

PrefetchFails ==
  /\ fetching # {}
  /\ fetching' = {}
  /\ UNCHANGED <<leaderVars, driver, staged, seen>>

----------------------------------------------------------------------------
(* The driver.                                                              *)

Looks == driver.pc \in {"warming", "waiting"} /\ ReadsClock("driver")

(* await_ready retries once a second until there is a window, near or not,  *)
(* and ends the run when its deadline has passed at a failure.              *)
Ready ==
  /\ driver.pc = "warming" /\ Found("driver") # {}
  /\ driver' = [driver EXCEPT !.pc = "waiting"]
  /\ Answered("driver")
  /\ UNCHANGED <<leaderVars, staged, fetching>>

NotReady ==
  /\ driver.pc = "warming" /\ Unavailable("driver")
  /\ driver' = [driver EXCEPT !.pc = "done"]
  /\ Answered("driver")
  /\ UNCHANGED <<leaderVars, staged, fetching>>

(* Before that deadline, or with the window still far, it looks again.      *)
LooksAgain ==
  /\ seen["driver"] # {}
  /\ \/ driver.pc = "warming" /\ Unavailable("driver")
     \/ driver.pc = "waiting" /\ \E w \in Found("driver") : ~Open(w)
  /\ Answered("driver")
  /\ UNCHANGED <<leaderVars, driver, staged, fetching>>

SubmitOneEnds_OneMore ==  \* mutant
  driver' = [pc |-> IF driver.left = 0 THEN "done" ELSE "spacing",
             left |-> driver.left - 1,
             target |-> IF driver.left = 0 THEN 0 ELSE slotClock + Interval,
             window |-> {}, swap |-> {}]

(* The end of submit_one, however it ended: the next bundle after the       *)
(* interval, or the end of the submission phase.                            *)
SubmitOneEnds ==
  driver' = [pc |-> IF driver.left = 1 THEN "done" ELSE "spacing",
             left |-> driver.left - 1,
             target |-> IF driver.left = 1 THEN 0 ELSE slotClock + Interval,
             window |-> {}, swap |-> {}]

(* wait_for_window returns a near window, and submit_one takes the staged   *)
(* swap with it (nothing but the pre-fetcher's store can come between, and  *)
(* that does as well before): a fresh one is sent, a stale one is gone.     *)
Fresh(s, now) == now - s.fetchedAt <= MaxAge

SwapFor(w) == {s \in staged : Fresh(s, w.current)}

WindowOpens ==
  /\ driver.pc = "waiting"
  /\ \E w \in Found("driver") :
       /\ Open(w)
       /\ driver' =
            IF SwapMode /\ SwapFor(w) = {}
            THEN [driver EXCEPT !.pc = "fetching", !.window = {w}, !.swap = {NewSwap(slotClock)}]
            ELSE [driver EXCEPT !.pc = "sending", !.window = {w}, !.swap = SwapFor(w)]
  /\ staged' = {}
  /\ Answered("driver")
  /\ UNCHANGED <<leaderVars, fetching>>

(* A health error skips the submission.                                     *)
WindowUnavailable ==
  /\ driver.pc = "waiting" /\ Unavailable("driver")
  /\ SubmitOneEnds
  /\ Answered("driver")
  /\ UNCHANGED <<leaderVars, staged, fetching>>

InWindowFetch ==
  /\ driver.pc = "fetching"
  /\ \/ driver' = [driver EXCEPT !.pc = "sending"]
     \/ SubmitOneEnds
  /\ UNCHANGED <<leaderVars, staged, fetching, seen>>

(* submit_bundle; what follows it, the retry loop of a refused bundle       *)
(* included, is module Orchestrator's.                                      *)
Send ==
  /\ driver.pc = "sending"
  /\ SubmitOneEnds
  /\ UNCHANGED <<leaderVars, staged, fetching, seen>>

(* wait_slots.                                                              *)
Spaced ==
  /\ driver.pc = "spacing" /\ slotClock >= driver.target
  /\ driver' = [driver EXCEPT !.pc = "waiting", !.target = 0]
  /\ UNCHANGED <<leaderVars, staged, fetching, seen>>

DriverNext ==
  \/ Looks \/ Ready \/ NotReady \/ LooksAgain \/ WindowOpens \/ WindowUnavailable
  \/ InWindowFetch \/ Send \/ Spaced

PrefetcherNext == Peeks \/ StartPrefetch \/ NoPrefetch \/ StorePrefetch \/ PrefetchFails

(* The behaviour ends with the submission phase.                            *)
Next ==
  /\ driver.pc # "done"
  /\ \/ LeaderNext /\ UNCHANGED pathVars
     \/ PrefetcherNext
     \/ DriverNext

Spec == Init /\ [][Next]_vars

(* await_ready and wait_for_window look again at least once a second or     *)
(* four times a second.  Neither the stream nor an RPC owes an answer.      *)
Polls == Looks \/ Ready \/ NotReady \/ LooksAgain \/ WindowOpens \/ WindowUnavailable

Fairness == WF_vars(Polls)

FairSpec == Spec /\ Fairness
=============================================================================
