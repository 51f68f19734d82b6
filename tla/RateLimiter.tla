---------------------------- MODULE RateLimiter ----------------------------
(***************************************************************************)
(* JitoRateLimiter (crates/submitter): one token per interval for every    *)
(* request to the block engine. A caller books a start time by moving      *)
(* next_at under a mutex and sleeps until then; a Low caller first backs   *)
(* off, an interval at a time, while a High one is registered in           *)
(* high_pending. Instants only matter against the present, so they are     *)
(* kept as the time that is left: 0 once past.                             *)
(***************************************************************************)
EXTENDS Integers, FiniteSets

CONSTANTS
  Callers,    \* tasks that send requests
  Interval    \* ticks between two tokens

ASSUME LimiterAssumption == IsFiniteSet(Callers) /\ Interval \in Nat \ {0}

VARIABLES
  nextIn,       \* how far next_at is ahead
  highPending,  \* high_pending
  call          \* where each caller is in acquire, and how long it sleeps

limiterVars == <<nextIn, highPending, call>>

Steps == {"idle", "look", "backoff", "reserve", "release", "wait"}
Idle == [pc |-> "idle", high |-> FALSE, due |-> 0]

TypeOK ==
  /\ nextIn \in Nat /\ highPending \in Nat
  /\ call \in [Callers -> [pc : Steps, high : BOOLEAN, due : Nat]]

Init == nextIn = 0 /\ highPending = 0 /\ call = [c \in Callers |-> Idle]

Arrived(high) == [pc |-> IF high THEN "reserve" ELSE "look", high |-> high, due |-> 0]

(* A High caller registers, a Low one goes to look for such callers.       *)
Arrive_Store(c, high) ==  \* mutant
  /\ call[c].pc = "idle"
  /\ call' = [call EXCEPT ![c] = Arrived(high)]
  /\ highPending' = IF high THEN 1 ELSE highPending
  /\ UNCHANGED nextIn

Arrive(c, high) ==
  /\ call[c].pc = "idle"
  /\ call' = [call EXCEPT ![c] = Arrived(high)]
  /\ highPending' = IF high THEN highPending + 1 ELSE highPending
  /\ UNCHANGED nextIn

Look_BooksFirst(c) ==  \* mutant
  /\ call[c].pc = "look"
  /\ call' = [call EXCEPT ![c] =
       IF highPending > 0 THEN [@ EXCEPT !.pc = "backoff", !.due = Interval]
       ELSE [@ EXCEPT !.pc = "reserve"]]
  /\ nextIn' = IF highPending > 0 THEN nextIn + Interval ELSE nextIn
  /\ UNCHANGED highPending

Look(c) ==
  /\ call[c].pc = "look"
  /\ call' = [call EXCEPT ![c] =
       IF highPending > 0 THEN [@ EXCEPT !.pc = "backoff", !.due = Interval]
       ELSE [@ EXCEPT !.pc = "reserve"]]
  /\ UNCHANGED <<nextIn, highPending>>

LookAgain(c) ==
  /\ call[c].pc = "backoff" /\ call[c].due = 0
  /\ call' = [call EXCEPT ![c].pc = "look"]
  /\ UNCHANGED <<nextIn, highPending>>

Reserve_FromNow(c) ==  \* mutant
  /\ call[c].pc = "reserve"
  /\ call' = [call EXCEPT ![c].pc = IF call[c].high THEN "release" ELSE "wait",
                          ![c].due = nextIn]
  /\ nextIn' = Interval
  /\ UNCHANGED highPending

Reserve(c) ==
  /\ call[c].pc = "reserve"
  /\ call' = [call EXCEPT ![c].pc = IF call[c].high THEN "release" ELSE "wait",
                          ![c].due = nextIn]
  /\ nextIn' = nextIn + Interval
  /\ UNCHANGED highPending

Release_Leaks(c) ==  \* mutant
  /\ call[c].pc = "release"
  /\ call' = [call EXCEPT ![c].pc = "wait"]
  /\ UNCHANGED <<nextIn, highPending>>

Release(c) ==
  /\ call[c].pc = "release"
  /\ call' = [call EXCEPT ![c].pc = "wait"]
  /\ highPending' = highPending - 1
  /\ UNCHANGED nextIn

(* acquire returns: the request may go out.                                *)
Granted(c) ==
  /\ call[c].pc = "wait" /\ call[c].due = 0
  /\ call' = [call EXCEPT ![c] = Idle]
  /\ UNCHANGED <<nextIn, highPending>>

Sooner(n) == IF n > 0 THEN n - 1 ELSE 0

(* Time passes. Between booking a token and falling asleep for it nothing  *)
(* is awaited: that takes no time.                                         *)
Tick ==
  /\ \A c \in Callers : call[c].pc # "release"
  /\ nextIn' = Sooner(nextIn)
  /\ call' = [c \in Callers |-> [call[c] EXCEPT !.due = Sooner(@)]]
  /\ UNCHANGED highPending

Acquiring(c) == Look(c) \/ LookAgain(c) \/ Reserve(c) \/ Release(c)

Next ==
  \/ Tick
  \/ \E c \in Callers : \/ \E high \in BOOLEAN : Arrive(c, high)
                        \/ Acquiring(c) \/ Granted(c)

Spec == Init /\ [][Next]_limiterVars

-----------------------------------------------------------------------------
(* The tokens booked and not yet due.                                      *)
Queued == {c \in Callers : call[c].pc \in {"release", "wait"} /\ call[c].due > 0}

(* No two tokens fall within one interval, and the next one to be booked   *)
(* is an interval after every one that is: the budget of the block engine  *)
(* is kept whoever calls, in whatever order callers reach the mutex.       *)
Paced ==
  \A c \in Queued :
    /\ call[c].due + Interval <= nextIn
    /\ \A d \in Queued \ {c} : call[c].due + Interval <= call[d].due
                               \/ call[d].due + Interval <= call[c].due

(* The token a submission would get now is no further away than one        *)
(* interval for each request waiting to go out, and one more: back-offs    *)
(* and callers that look in vain cost it nothing.                          *)
WaitIsBounded == nextIn <= Interval * (Cardinality(Queued) + 1)

(* While a submission is registered and has not booked its token, no Low   *)
(* caller gets past the check: the only ones that can still book before it *)
(* were past the check when it registered.                                 *)
LowsYield ==
  [][(\E h \in Callers : call[h].pc = "reserve" /\ call[h].high)
       => \A c \in Callers : ~(call[c].pc = "look" /\ call'[c].pc = "reserve")]_limiterVars
=============================================================================
