----------------------------- MODULE JitoCalls -----------------------------
(***************************************************************************)
(* Who calls the block engine through the rate limiter, and for what: the  *)
(* driver and the sweeper send bundles (High), each with a blockhash from  *)
(* the cache, or from the RPC node while the cache is empty, and with a    *)
(* tip account from the cache, or by a request of their own when it is     *)
(* cold (Low, as the same call serves the warmer); the warmer fetches the  *)
(* tip accounts in the background; a poller asks for the status of each    *)
(* bundle the driver got accepted (Low).                                   *)
(***************************************************************************)
EXTENDS RateLimiter

CONSTANTS
  Senders, Driver,  \* tasks that submit; the one whose bundles are polled
  Warmer, Pollers,
  MaxSubmissions,   \* bound: submissions of each sender
  PollBudget        \* polls of one bundle: BUNDLE_STATUS_BUDGET over BUNDLE_STATUS_POLL

ASSUME CallsAssumption ==
  /\ Callers = Senders \cup {Warmer} \cup Pollers /\ Driver \in Senders
  /\ Warmer \notin Senders \cup Pollers /\ Senders \cap Pollers = {}
  /\ MaxSubmissions \in Nat /\ PollBudget \in Nat \ {0}

VARIABLES
  step,     \* what each task is doing, or waiting for a token or an answer to
  left,     \* submissions, or polls, it still has
  hashed,   \* the blockhash cache holds a blockhash
  fresh     \* the tip-account cache holds accounts younger than TIP_ACCOUNTS_TTL

vars == <<limiterVars, step, left, hashed, fresh>>

Asking == [accounts |-> "accounts asked", send |-> "bundle sent",
           status |-> "status asked", detail |-> "detail asked"]
Waiting == DOMAIN Asking

CallsTypeOK ==
  /\ TypeOK
  /\ step \in [Callers -> {"idle", "ready", "blockhash asked"}
                         \cup Waiting \cup {Asking[w] : w \in Waiting}]
  /\ left \in [Callers -> Nat]
  /\ hashed \in BOOLEAN /\ fresh \in BOOLEAN

CallsInit ==
  /\ Init
  /\ step = [t \in Callers |-> "idle"]
  /\ left = [t \in Callers |-> IF t \in Senders THEN MaxSubmissions ELSE 0]
  /\ hashed = FALSE /\ fresh = FALSE

(* A task asks for a token for its next request.                           *)
Request(t, what, high) ==
  /\ Arrive(t, high)
  /\ step' = [step EXCEPT ![t] = what]

(* A bundle has its blockhash: next, a tip account.                        *)
Prepare(s) == IF fresh THEN Request(s, "send", TRUE) ELSE Request(s, "accounts", FALSE)

Submit(s) ==
  /\ step[s] = "idle" /\ left[s] > 0
  /\ left' = [left EXCEPT ![s] = @ - 1]
  /\ IF hashed THEN Prepare(s)
     ELSE step' = [step EXCEPT ![s] = "blockhash asked"] /\ UNCHANGED limiterVars
  /\ UNCHANGED <<hashed, fresh>>

(* The RPC node answers, or fails and with it the submission.              *)
BlockhashAnswered(s) ==
  /\ step[s] = "blockhash asked"
  /\ Prepare(s) \/ (step' = [step EXCEPT ![s] = "idle"] /\ UNCHANGED limiterVars)
  /\ UNCHANGED <<left, hashed, fresh>>

(* The refresher's first blockhash; a failed refresh keeps the one held.   *)
RefreshBlockhash ==
  /\ ~hashed
  /\ hashed' = TRUE
  /\ UNCHANGED <<limiterVars, step, left, fresh>>

Warm ==
  /\ step[Warmer] = "idle"
  /\ Request(Warmer, "accounts", FALSE)
  /\ UNCHANGED <<left, hashed, fresh>>

Poll(p) ==
  /\ step[p] = "ready"
  /\ left' = [left EXCEPT ![p] = @ - 1]
  /\ Request(p, "status", FALSE)
  /\ UNCHANGED <<hashed, fresh>>

(* acquire returned: the request is on its way.                            *)
Send(t) ==
  /\ Granted(t)
  /\ step' = [step EXCEPT ![t] = Asking[@]]
  /\ UNCHANGED <<left, hashed, fresh>>

(* The tip accounts arrive: a sender goes on to send its bundle.           *)
AccountsArrive(t) ==
  /\ step[t] = "accounts asked"
  /\ fresh' = TRUE
  /\ IF t = Warmer
     THEN step' = [step EXCEPT ![t] = "idle"] /\ UNCHANGED limiterVars
     ELSE Request(t, "send", TRUE)
  /\ UNCHANGED <<left, hashed>>

(* The request fails, or the list is empty: the warmer tries again later,  *)
(* a submission fails.                                                     *)
AccountsFail(t) ==
  /\ step[t] = "accounts asked"
  /\ step' = [step EXCEPT ![t] = "idle"]
  /\ UNCHANGED <<limiterVars, left, hashed, fresh>>

(* TIP_ACCOUNTS_TTL runs out, as no refresh came through in time.          *)
Expire ==
  /\ fresh
  /\ fresh' = FALSE
  /\ UNCHANGED <<limiterVars, step, left, hashed>>

(* sendBundle is answered: an accepted bundle of submit_one is polled.     *)
BundleAnswered(s) ==
  /\ step[s] = "bundle sent"
  /\ \/ step' = [step EXCEPT ![s] = "idle"] /\ UNCHANGED left
     \/ /\ s = Driver
        /\ \E p \in Pollers :
             /\ step[p] = "idle"
             /\ step' = [step EXCEPT ![s] = "idle", ![p] = "ready"]
             /\ left' = [left EXCEPT ![p] = PollBudget]
  /\ UNCHANGED <<limiterVars, hashed, fresh>>

(* A status: terminal ends the polls, Landed after one more request; the   *)
(* poll may fail, or the bundle be undecided still, until the budget is    *)
(* spent.                                                                  *)
StatusAnswered(p) ==
  /\ step[p] = "status asked"
  /\ \/ /\ step' = [step EXCEPT ![p] = IF left[p] > 0 THEN "ready" ELSE "idle"]
        /\ UNCHANGED limiterVars
     \/ step' = [step EXCEPT ![p] = "idle"] /\ UNCHANGED limiterVars
     \/ Request(p, "detail", FALSE)
  /\ UNCHANGED <<left, hashed, fresh>>

DetailAnswered(p) ==
  /\ step[p] = "detail asked"
  /\ step' = [step EXCEPT ![p] = "idle"]
  /\ UNCHANGED <<limiterVars, left, hashed, fresh>>

Limiter == (Tick \/ \E t \in Callers : Acquiring(t)) /\ UNCHANGED <<step, left, hashed, fresh>>

Answered(t) ==
  \/ BlockhashAnswered(t) \/ AccountsArrive(t) \/ AccountsFail(t)
  \/ BundleAnswered(t) \/ StatusAnswered(t) \/ DetailAnswered(t)

CallsNext ==
  \/ Limiter \/ Warm \/ Expire \/ RefreshBlockhash
  \/ \E s \in Senders : Submit(s)
  \/ \E p \in Pollers : Poll(p)
  \/ \E t \in Callers : Send(t) \/ Answered(t)

CallsSpec == CallsInit /\ [][CallsNext]_vars

(* Time passes, tasks that can run do, and requests are answered or fail:  *)
(* an assumption on the block engine, as the HTTP client has no time-out.  *)
(* Nobody has to submit, warm, refresh or poll.                            *)
CallsFairness ==
  /\ WF_vars(Tick /\ UNCHANGED <<step, left, hashed, fresh>>)
  /\ \A t \in Callers :
       WF_vars(\/ Acquiring(t) /\ UNCHANGED <<step, left, hashed, fresh>>
               \/ Send(t) \/ Answered(t))

FairCallsSpec == CallsSpec /\ CallsFairness

(* A submission is never starved: whatever the warmer and the pollers do,  *)
(* and even when it must first ask for a blockhash, and for tip accounts   *)
(* as a Low caller, it is sent and answered, or fails, in the end.         *)
SubmissionsAreAnswered == \A s \in Senders : step[s] # "idle" ~> step[s] = "idle"
=============================================================================
