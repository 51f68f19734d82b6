------------------------- MODULE RateLimiterProofs -------------------------
(***************************************************************************)
(* Proofs about RateLimiter, for every finite set of callers and every     *)
(* interval, and about its callers in JitoCalls, whose behaviours are      *)
(* behaviours of the limiter.                                              *)
(***************************************************************************)
EXTENDS JitoCalls, FiniteSetTheorems, TLAPS

-----------------------------------------------------------------------------
(* high_pending counts the High callers between fetch_add and fetch_sub.   *)
Registered == {c \in Callers : call[c].high /\ call[c].pc \in {"reserve", "release"}}

HighsCounted ==
  /\ highPending = Cardinality(Registered)
  /\ \A c \in Callers : /\ call[c].pc = "release" => call[c].high
                        /\ call[c].pc \in {"look", "backoff"} => ~call[c].high

LEMMA RegisteredIsFinite == IsFiniteSet(Registered)
  BY FS_Subset, LimiterAssumption DEF Registered

LEMMA InitCounted == Init => TypeOK /\ HighsCounted
<1> SUFFICES ASSUME Init PROVE TypeOK /\ HighsCounted
  OBVIOUS
<1>1. TypeOK
  BY DEF Init, TypeOK, Idle, Steps
<1>2. Registered = {}
  BY DEF Init, Registered, Idle
<1>3. HighsCounted
  BY <1>2, FS_EmptySet DEF Init, HighsCounted, Idle
<1> QED BY <1>1, <1>3

LEMMA StepCounted == TypeOK /\ HighsCounted /\ [Next]_limiterVars => (TypeOK /\ HighsCounted)'
<1> SUFFICES ASSUME TypeOK, HighsCounted, [Next]_limiterVars
             PROVE  TypeOK' /\ HighsCounted'
  OBVIOUS
<1> USE DEF TypeOK, HighsCounted, Steps
<1>0. IsFiniteSet(Registered)
  BY RegisteredIsFinite
<1>1. ASSUME NEW c \in Callers, NEW high \in BOOLEAN, Arrive(c, high)
      PROVE  TypeOK' /\ HighsCounted'
  <2>a. Arrived(high) \in [pc : Steps, high : BOOLEAN, due : Nat]
    BY DEF Arrived
  <2>b. nextIn' \in Nat /\ highPending' \in Nat
    BY <1>1 DEF Arrive
  <2>1. TypeOK'
    BY <1>1, <2>a, <2>b DEF Arrive
  <2>2. Registered' = IF high THEN Registered \cup {c} ELSE Registered
    BY <1>1 DEF Arrive, Arrived, Registered
  <2>3. c \notin Registered
    BY <1>1 DEF Arrive, Registered
  <2>4. highPending' = Cardinality(Registered')
    BY <1>0, <1>1, <2>2, <2>3, FS_AddElement DEF Arrive
  <2> QED BY <1>1, <2>1, <2>4 DEF Arrive, Arrived
<1>2. ASSUME NEW c \in Callers, Look(c)
      PROVE  TypeOK' /\ HighsCounted'
  <2>1. TypeOK'
    BY <1>2, LimiterAssumption DEF Look
  <2>2. Registered' = Registered
    BY <1>2 DEF Look, Registered
  <2> QED BY <1>2, <2>1, <2>2 DEF Look
<1>3. ASSUME NEW c \in Callers, LookAgain(c)
      PROVE  TypeOK' /\ HighsCounted'
  <2>1. TypeOK'
    BY <1>3 DEF LookAgain
  <2>2. Registered' = Registered
    BY <1>3 DEF LookAgain, Registered
  <2> QED BY <1>3, <2>1, <2>2 DEF LookAgain
<1>4. ASSUME NEW c \in Callers, Reserve(c)
      PROVE  TypeOK' /\ HighsCounted'
  <2>a. nextIn' \in Nat /\ highPending' \in Nat
    BY <1>4, LimiterAssumption DEF Reserve
  <2>b. call' \in [Callers -> [pc : Steps, high : BOOLEAN, due : Nat]]
    <3>1. PICK next \in {"release", "wait"} :
             call' = [call EXCEPT ![c].pc = next, ![c].due = nextIn]
      BY <1>4 DEF Reserve
    <3> QED BY <3>1
  <2>1. TypeOK'
    BY <2>a, <2>b
  <2>2. Registered' = Registered
    BY <1>4 DEF Reserve, Registered
  <2> QED BY <1>4, <2>1, <2>2 DEF Reserve
<1>5. ASSUME NEW c \in Callers, Release(c)
      PROVE  TypeOK' /\ HighsCounted'
  <2>1. c \in Registered
    BY <1>5 DEF Release, Registered
  <2>2. Registered' = Registered \ {c}
    BY <1>5 DEF Release, Registered
  <2>3. Cardinality(Registered') = highPending - 1
    BY <1>0, <2>1, <2>2, FS_RemoveElement
  <2>4. IsFiniteSet(Registered')
    BY <1>0, <2>2, FS_RemoveElement
  <2>5. highPending' = Cardinality(Registered') /\ highPending' \in Nat
    BY <1>5, <2>3, <2>4, FS_CardinalityType DEF Release
  <2> QED BY <1>5, <2>5 DEF Release
<1>6. ASSUME NEW c \in Callers, Granted(c)
      PROVE  TypeOK' /\ HighsCounted'
  <2>1. TypeOK'
    BY <1>6 DEF Granted, Idle
  <2>2. Registered' = Registered
    BY <1>6 DEF Granted, Idle, Registered
  <2> QED BY <1>6, <2>1, <2>2 DEF Granted, Idle
<1>7. ASSUME Tick
      PROVE  TypeOK' /\ HighsCounted'
  <2>1. TypeOK'
    BY <1>7 DEF Tick, Sooner
  <2>2. \A c \in Callers : call'[c].pc = call[c].pc /\ call'[c].high = call[c].high
    BY <1>7 DEF Tick
  <2>3. Registered' = Registered
    BY <2>2 DEF Registered
  <2> QED BY <1>7, <2>1, <2>2, <2>3 DEF Tick
<1>8. CASE UNCHANGED limiterVars
  BY <1>8 DEF limiterVars, Registered
<1> QED BY <1>1, <1>2, <1>3, <1>4, <1>5, <1>6, <1>7, <1>8 DEF Next, Acquiring

(* The limiter's state keeps its types: high_pending, an unsigned counter, *)
(* never goes below zero, for every finite set of callers.                 *)
THEOREM TypeCorrect == Spec => []TypeOK
<1>1. Spec => [](TypeOK /\ HighsCounted)
  BY InitCounted, StepCounted, PTL DEF Spec
<1> QED BY <1>1, PTL

-----------------------------------------------------------------------------
(* A step that leaves the tokens booked and next_at as they were.          *)
LEMMA SameTokens ==
  ASSUME Paced, UNCHANGED nextIn,
         \A c \in Queued' : c \in Queued /\ call'[c].due = call[c].due
  PROVE  Paced'
  BY DEF Paced

LEMMA StepPaced == TypeOK /\ Paced /\ [Next]_limiterVars => Paced'
<1> SUFFICES ASSUME TypeOK, Paced, [Next]_limiterVars
             PROVE  Paced'
  OBVIOUS
<1> USE LimiterAssumption DEF TypeOK, Steps
<1>1. ASSUME NEW c \in Callers, NEW high \in BOOLEAN, Arrive(c, high)
      PROVE  Paced'
  BY <1>1, SameTokens DEF Arrive, Arrived, Queued
<1>2. ASSUME NEW c \in Callers, Look(c)
      PROVE  Paced'
  BY <1>2, SameTokens DEF Look, Queued
<1>3. ASSUME NEW c \in Callers, LookAgain(c)
      PROVE  Paced'
  BY <1>3, SameTokens DEF LookAgain, Queued
<1>4. ASSUME NEW c \in Callers, Reserve(c)
      PROVE  Paced'
  <2>1. call'[c].due = nextIn /\ nextIn' = nextIn + Interval
    BY <1>4 DEF Reserve
  <2>2. \A d \in Queued' \ {c} : d \in Queued /\ call'[d].due = call[d].due
    BY <1>4 DEF Reserve, Queued
  <2>3. \A d \in Queued : call[d].due \in Nat /\ call[d].due + Interval <= nextIn
    BY DEF Paced, Queued
  <2>4. \A d \in Queued' : call'[d].due + Interval <= nextIn'
    BY <2>1, <2>2, <2>3
  <2>5. \A d \in Queued', e \in Queued' :
          d # e => \/ call'[d].due + Interval <= call'[e].due
                   \/ call'[e].due + Interval <= call'[d].due
    BY <2>1, <2>2, <2>3 DEF Paced
  <2> QED BY <2>4, <2>5 DEF Paced
<1>5. ASSUME NEW c \in Callers, Release(c)
      PROVE  Paced'
  BY <1>5, SameTokens DEF Release, Queued
<1>6. ASSUME NEW c \in Callers, Granted(c)
      PROVE  Paced'
  BY <1>6, SameTokens DEF Granted, Idle, Queued
<1>7. ASSUME Tick
      PROVE  Paced'
  <2>1. \A c \in Queued' : /\ c \in Queued /\ call[c].due \in Nat
                          /\ call[c].due > 0 /\ call'[c].due = call[c].due - 1
    BY <1>7 DEF Tick, Sooner, Queued
  <2>2. \A c \in Queued' : call[c].due + Interval <= nextIn
    BY <2>1 DEF Paced
  <2>3. ASSUME NEW c \in Queued'
        PROVE  call'[c].due + Interval <= nextIn'
    <3>1. nextIn > 0
      BY <2>1, <2>2
    <3>2. nextIn' = nextIn - 1
      BY <1>7, <3>1 DEF Tick, Sooner
    <3> QED BY <2>1, <2>2, <3>2
  <2>4. \A c \in Queued', d \in Queued' :
          c # d => \/ call'[c].due + Interval <= call'[d].due
                   \/ call'[d].due + Interval <= call'[c].due
    BY <2>1 DEF Paced
  <2> QED BY <2>3, <2>4 DEF Paced
<1>8. CASE UNCHANGED limiterVars
  BY <1>8 DEF limiterVars, Paced, Queued
<1> QED BY <1>1, <1>2, <1>3, <1>4, <1>5, <1>6, <1>7, <1>8 DEF Next, Acquiring

(* No two tokens fall within one interval, for every finite set of callers *)
(* and every interval: what JitoRateLimiter promises the block engine.     *)
THEOREM AlwaysPaced == Spec => []Paced
<1>1. Init => Paced
  BY DEF Init, Idle, Paced, Queued
<1> QED BY <1>1, StepPaced, TypeCorrect, PTL DEF Spec

(* A Low caller never passes the check of acquire while a High one is      *)
(* registered and has not booked its token.                                *)
THEOREM LowsAlwaysYield == Spec => LowsYield
<1> DEFINE Waits == \E h \in Callers : call[h].pc = "reserve" /\ call[h].high
           Passes == \E c \in Callers : call[c].pc = "look" /\ call'[c].pc = "reserve"
<1>1. TypeOK /\ HighsCounted /\ Waits => highPending > 0
  <2> SUFFICES ASSUME TypeOK, HighsCounted, Waits PROVE highPending > 0
    OBVIOUS
  <2>1. Registered # {}
    BY DEF Registered
  <2> QED BY <2>1, RegisteredIsFinite, FS_EmptySet DEF HighsCounted, TypeOK
<1>2. TypeOK /\ [Next]_limiterVars /\ Passes => ~(highPending > 0)
  <2> SUFFICES ASSUME TypeOK, [Next]_limiterVars,
                      NEW c \in Callers, call[c].pc = "look", call'[c].pc = "reserve"
               PROVE  ~(highPending > 0)
    OBVIOUS
  <2>1. Look(c)
    <3> USE DEF TypeOK, Steps
    <3>1. ASSUME NEW d \in Callers,
                 (\E high \in BOOLEAN : Arrive(d, high)) \/ LookAgain(d) \/ Reserve(d)
                   \/ Release(d) \/ Granted(d)
          PROVE  FALSE
      BY <3>1 DEF Arrive, Arrived, LookAgain, Reserve, Release, Granted, Idle
    <3>2. ASSUME NEW d \in Callers, Look(d)
          PROVE  d = c
      BY <3>2 DEF Look
    <3>3. ~Tick /\ ~UNCHANGED limiterVars
      BY DEF Tick, limiterVars
    <3> QED BY <3>1, <3>2, <3>3 DEF Next, Acquiring
  <2> QED BY <2>1 DEF Look, TypeOK
<1>3. TypeOK /\ HighsCounted /\ [Next]_limiterVars
        => [Waits => \A c \in Callers : ~(call[c].pc = "look" /\ call'[c].pc = "reserve")]_limiterVars
  BY <1>1, <1>2
<1>4. Spec => [](TypeOK /\ HighsCounted)
  BY InitCounted, StepCounted, PTL DEF Spec
<1> QED BY <1>3, <1>4, PTL DEF Spec, LowsYield

-----------------------------------------------------------------------------
(* WaitIsBounded says nothing of a token that is not next to come due, so  *)
(* time alone could break it: as the tick passes that ends one wait, the   *)
(* others must bound next_at already. The strengthening bounds what is     *)
(* left of next_at after any delay by the tokens still booked by then.     *)
DueAfter(delay) == {c \in Queued : call[c].due > delay}

WaitIsPacked == \A delay \in Nat : nextIn - delay <= Interval * (Cardinality(DueAfter(delay)) + 1)

LEMMA DueAfterIsFinite ==
  \A delay : IsFiniteSet(DueAfter(delay)) /\ IsFiniteSet(DueAfter(delay)')
<1> SUFFICES ASSUME NEW delay
             PROVE  IsFiniteSet(DueAfter(delay)) /\ IsFiniteSet(DueAfter(delay)')
  OBVIOUS
<1>1. DueAfter(delay) \subseteq Callers /\ DueAfter(delay)' \subseteq Callers
  BY DEF DueAfter, Queued
<1> QED BY <1>1, FS_Subset, LimiterAssumption

LEMMA SamePacking ==
  ASSUME WaitIsPacked, UNCHANGED nextIn, \A delay \in Nat : DueAfter(delay)' = DueAfter(delay)
  PROVE  WaitIsPacked'
  BY DEF WaitIsPacked

LEMMA StepPacked == TypeOK /\ WaitIsPacked /\ [Next]_limiterVars => WaitIsPacked'
<1> SUFFICES ASSUME TypeOK, WaitIsPacked, [Next]_limiterVars
             PROVE  WaitIsPacked'
  OBVIOUS
<1> USE LimiterAssumption DEF TypeOK, Steps
<1>1. ASSUME NEW c \in Callers,
             \/ (\E high \in BOOLEAN : Arrive(c, high)) \/ Look(c) \/ LookAgain(c)
             \/ Release(c) \/ Granted(c)
      PROVE  WaitIsPacked'
  <2>1. UNCHANGED nextIn
    BY <1>1 DEF Arrive, Look, LookAgain, Release, Granted
  <2>2. ASSUME NEW delay \in Nat PROVE DueAfter(delay)' = DueAfter(delay)
    <3> USE DEF DueAfter, Queued
    <3>1. CASE \E high \in BOOLEAN : Arrive(c, high)
      BY <3>1 DEF Arrive, Arrived
    <3>2. CASE Look(c)
      BY <3>2 DEF Look
    <3>5. CASE LookAgain(c)
      BY <3>5 DEF LookAgain
    <3>3. CASE Release(c)
      BY <3>3 DEF Release
    <3>4. CASE Granted(c)
      BY <3>4 DEF Granted, Idle
    <3> QED BY <1>1, <3>1, <3>2, <3>3, <3>4, <3>5
  <2> QED BY <2>1, <2>2, SamePacking
<1>2. ASSUME NEW c \in Callers, Reserve(c), NEW delay \in Nat
      PROVE  nextIn' - delay <= Interval * (Cardinality(DueAfter(delay)') + 1)
  <2> DEFINE n == Cardinality(DueAfter(delay))
  <2>1. /\ n \in Nat /\ Cardinality(DueAfter(delay)') \in Nat
        /\ nextIn - delay <= Interval * (n + 1)
    BY DueAfterIsFinite, FS_CardinalityType DEF WaitIsPacked
  <2>2. nextIn' = nextIn + Interval /\ call'[c].due = nextIn
    BY <1>2 DEF Reserve
  <2>3. CASE delay < nextIn
    <3>1. DueAfter(delay)' = DueAfter(delay) \cup {c} /\ c \notin DueAfter(delay)
      BY <1>2, <2>3 DEF Reserve, DueAfter, Queued
    <3>2. Cardinality(DueAfter(delay)') = n + 1
      BY <3>1, DueAfterIsFinite, FS_AddElement
    <3>3. Interval * ((n + 1) + 1) = Interval * (n + 1) + Interval
      BY <2>1
    <3> QED BY <2>1, <2>2, <3>2, <3>3
  <2>4. CASE ~(delay < nextIn)
    <3> DEFINE m == Cardinality(DueAfter(delay)')
    <3>1. Interval * (m + 1) = Interval * m + Interval /\ Interval * m \in Nat
      BY <2>1
    <3> QED BY <2>1, <2>2, <2>4, <3>1
  <2> QED BY <2>3, <2>4
<1>3. ASSUME Tick, NEW delay \in Nat
      PROVE  nextIn' - delay <= Interval * (Cardinality(DueAfter(delay)') + 1)
  <2>1. CASE nextIn = 0
    <3>1. nextIn' = 0
      BY <1>3, <2>1 DEF Tick, Sooner
    <3> DEFINE m == Cardinality(DueAfter(delay)')
    <3>2. m \in Nat
      BY DueAfterIsFinite, FS_CardinalityType
    <3>3. Interval * (m + 1) \in Nat
      BY <3>2
    <3> QED BY <3>1, <3>3
  <2>2. CASE nextIn > 0
    <3>1. nextIn' = nextIn - 1
      BY <1>3, <2>2 DEF Tick, Sooner
    <3>2. DueAfter(delay)' = DueAfter(delay + 1)
      BY <1>3 DEF Tick, Sooner, DueAfter, Queued
    <3>3. delay + 1 \in Nat /\ nextIn' - delay = nextIn - (delay + 1)
      BY <3>1
    <3> QED BY <3>2, <3>3 DEF WaitIsPacked
  <2> QED BY <2>1, <2>2
<1>4. CASE UNCHANGED limiterVars
  <2>1. \A delay \in Nat : DueAfter(delay)' = DueAfter(delay)
    BY <1>4 DEF limiterVars, DueAfter, Queued
  <2> QED BY <1>4, <2>1, SamePacking DEF limiterVars
<1> QED BY <1>1, <1>2, <1>3, <1>4 DEF Next, Acquiring, WaitIsPacked

(* A caller that books a token now waits no longer than one interval for   *)
(* each request that waits to go out, and one more, for every finite set   *)
(* of callers: back-offs and fruitless looks never push next_at away.      *)
THEOREM WaitStaysBounded == Spec => []WaitIsBounded
<1>1. Init => WaitIsPacked
  <2> SUFFICES ASSUME Init, NEW delay \in Nat
               PROVE  nextIn - delay <= Interval * (Cardinality(DueAfter(delay)) + 1)
    BY DEF WaitIsPacked
  <2>1. Cardinality(DueAfter(delay)) \in Nat
    BY DueAfterIsFinite, FS_CardinalityType
  <2>2. Interval * (Cardinality(DueAfter(delay)) + 1) \in Nat
    BY <2>1, LimiterAssumption
  <2> QED BY <2>2 DEF Init
<1>2. TypeOK /\ WaitIsPacked => WaitIsBounded
  <2> SUFFICES ASSUME TypeOK, WaitIsPacked PROVE WaitIsBounded
    OBVIOUS
  <2>1. DueAfter(0) = Queued
    BY DEF DueAfter, Queued
  <2>2. nextIn - 0 <= Interval * (Cardinality(Queued) + 1)
    BY <2>1 DEF WaitIsPacked
  <2> QED BY <2>2 DEF WaitIsBounded, TypeOK
<1> QED BY <1>1, <1>2, StepPacked, TypeCorrect, PTL DEF Spec

-----------------------------------------------------------------------------
LEMMA CallersFollow == [CallsNext]_vars => [Next]_limiterVars
<1> SUFFICES ASSUME [CallsNext]_vars PROVE [Next]_limiterVars
  OBVIOUS
<1> USE CallsAssumption DEF Next, Request, Prepare
<1>1. CASE Limiter
  BY <1>1 DEF Limiter
<1>2. CASE Warm
  BY <1>2 DEF Warm
<1>3. CASE Expire \/ RefreshBlockhash
  BY <1>3 DEF Expire, RefreshBlockhash
<1>4. ASSUME NEW s \in Senders, Submit(s) PROVE [Next]_limiterVars
  BY <1>4 DEF Submit
<1>5. ASSUME NEW p \in Pollers, Poll(p) PROVE [Next]_limiterVars
  BY <1>5 DEF Poll
<1>6. ASSUME NEW t \in Callers, Send(t) PROVE [Next]_limiterVars
  BY <1>6 DEF Send
<1>7. ASSUME NEW t \in Callers, Answered(t) PROVE [Next]_limiterVars
  BY <1>7 DEF Answered, BlockhashAnswered, AccountsArrive, AccountsFail, BundleAnswered,
              StatusAnswered, DetailAnswered
<1>8. CASE UNCHANGED vars
  BY <1>8 DEF vars
<1> QED BY <1>1, <1>2, <1>3, <1>4, <1>5, <1>6, <1>7, <1>8 DEF CallsNext

(* The block engine's callers are callers of the limiter: whatever they do *)
(* with its tokens, and whenever their caches fill and expire, each of     *)
(* their steps is one of the limiter's or leaves it alone.                 *)
THEOREM CallersImplementLimiter == CallsSpec => Spec
<1> QED BY CallersFollow, PTL DEF CallsSpec, CallsInit, Spec

(* So what holds of the limiter holds of them: their requests are paced,   *)
(* Low ones yield, and no token is further away than the requests that     *)
(* wait to go out account for.                                             *)
THEOREM CallsArePaced == CallsSpec => []Paced /\ LowsYield /\ []WaitIsBounded
<1> QED BY CallersImplementLimiter, AlwaysPaced, LowsAlwaysYield, WaitStaysBounded, PTL

-----------------------------------------------------------------------------
LEMMA AskingTyped ==
  /\ Waiting = {"accounts", "send", "status", "detail"}
  /\ \A w \in Waiting : Asking[w] \in {"accounts asked", "bundle sent", "status asked",
                                        "detail asked"}
  /\ {Asking[w] : w \in Waiting} = {"accounts asked", "bundle sent", "status asked",
                                    "detail asked"}
<1>1. Waiting = {"accounts", "send", "status", "detail"}
  BY DEF Waiting, Asking
<1>2. /\ Asking["accounts"] = "accounts asked" /\ Asking["send"] = "bundle sent"
      /\ Asking["status"] = "status asked" /\ Asking["detail"] = "detail asked"
  BY DEF Asking
<1> QED BY <1>1, <1>2

StepNames == {"idle", "ready", "blockhash asked"} \cup {"accounts", "send", "status", "detail"}
  \cup {"accounts asked", "bundle sent", "status asked", "detail asked"}

(* Beside the types: a task is in acquire exactly while its step says so   *)
(* (or Send would hand a token to a task that asked for none), and a       *)
(* poller about to poll has a poll left (or its count would fall below     *)
(* zero).                                                                  *)
CallsParts ==
  /\ step \in [Callers -> StepNames] /\ left \in [Callers -> Nat]
  /\ hashed \in BOOLEAN /\ fresh \in BOOLEAN
  /\ \A t \in Callers :
       /\ step[t] \in {"accounts", "send", "status", "detail"} <=> call[t].pc # "idle"
       /\ step[t] = "ready" => left[t] > 0

LEMMA CallsTyped == TypeOK /\ CallsParts => CallsTypeOK
<1>1. {"idle", "ready", "blockhash asked"} \cup Waiting \cup {Asking[w] : w \in Waiting} = StepNames
  BY AskingTyped DEF StepNames
<1> QED BY <1>1 DEF CallsTypeOK, CallsParts

LEMMA RequestSound ==
  ASSUME TypeOK, CallsParts, NEW t \in Callers,
         NEW what \in {"accounts", "send", "status", "detail"}, NEW high \in BOOLEAN,
         Request(t, what, high), left' \in [Callers -> Nat],
         \A u \in Callers \ {t} : left'[u] = left[u],
         hashed' \in BOOLEAN, fresh' \in BOOLEAN
  PROVE  CallsParts'
<1>1. step' = [step EXCEPT ![t] = what] /\ call' = [call EXCEPT ![t] = Arrived(high)]
      /\ Arrived(high).pc # "idle"
  BY DEF Request, Arrive, Arrived
<1>2. step' \in [Callers -> StepNames]
  BY <1>1 DEF CallsParts, StepNames
<1>3. ASSUME NEW u \in Callers
      PROVE  /\ step'[u] \in {"accounts", "send", "status", "detail"} <=> call'[u].pc # "idle"
             /\ step'[u] = "ready" => left'[u] > 0
  <2>1. CASE u = t
    BY <1>1, <2>1 DEF CallsParts, TypeOK
  <2>2. CASE u # t
    BY <1>1, <2>2 DEF CallsParts, TypeOK
  <2> QED BY <2>1, <2>2
<1> QED BY <1>2, <1>3 DEF CallsParts

LEMMA PrepareSound ==
  ASSUME TypeOK, CallsParts, NEW t \in Callers, Prepare(t), left' \in [Callers -> Nat],
         \A u \in Callers \ {t} : left'[u] = left[u],
         hashed' \in BOOLEAN, fresh' \in BOOLEAN
  PROVE  CallsParts'
  BY RequestSound DEF Prepare

(* A step of one task outside acquire, to a step outside acquire.          *)
LEMMA MoveSound ==
  ASSUME TypeOK, CallsParts, NEW t \in Callers, NEW to \in StepNames, call' = call,
         step[t] \notin {"accounts", "send", "status", "detail"},
         to \notin {"accounts", "send", "status", "detail"},
         step' = [step EXCEPT ![t] = to], left' \in [Callers -> Nat],
         \A u \in Callers \ {t} : left'[u] = left[u], to = "ready" => left'[t] > 0,
         hashed' \in BOOLEAN, fresh' \in BOOLEAN
  PROVE  CallsParts'
<1>1. ASSUME NEW u \in Callers
      PROVE  /\ step'[u] \in {"accounts", "send", "status", "detail"} <=> call'[u].pc # "idle"
             /\ step'[u] = "ready" => left'[u] > 0
  <2>1. CASE u = t
    BY <2>1 DEF CallsParts
  <2>2. CASE u # t
    BY <2>2 DEF CallsParts
  <2> QED BY <2>1, <2>2
<1> QED BY <1>1 DEF CallsParts

LEMMA AnsweredSound ==
  ASSUME TypeOK, CallsParts, NEW t \in Callers, Answered(t)
  PROVE  CallsParts'
<1> USE DEF StepNames
<1>0. /\ left \in [Callers -> Nat] /\ hashed \in BOOLEAN /\ fresh \in BOOLEAN
      /\ {"idle", "ready"} \subseteq StepNames
  BY DEF CallsParts
<1>1. CASE BlockhashAnswered(t)
  BY <1>0, <1>1, PrepareSound, MoveSound DEF BlockhashAnswered, limiterVars
<1>2. CASE AccountsArrive(t)
  BY <1>0, <1>2, RequestSound, MoveSound DEF AccountsArrive, limiterVars
<1>3. CASE AccountsFail(t) \/ DetailAnswered(t)
  BY <1>0, <1>3, MoveSound DEF AccountsFail, DetailAnswered, limiterVars
<1>4. CASE StatusAnswered(t)
  BY <1>0, <1>4, RequestSound, MoveSound DEF StatusAnswered, limiterVars
<1>5. CASE BundleAnswered(t)
  <2>1. CASE step' = [step EXCEPT ![t] = "idle"] /\ UNCHANGED left
    BY <1>0, <1>5, <2>1, MoveSound DEF BundleAnswered, limiterVars
  <2>2. ASSUME NEW p \in Pollers, step[p] = "idle",
               step' = [step EXCEPT ![t] = "idle", ![p] = "ready"],
               left' = [left EXCEPT ![p] = PollBudget]
        PROVE  CallsParts'
    <3>1. p \in Callers /\ p # t /\ PollBudget \in Nat \ {0} /\ call' = call
          /\ step[t] = "bundle sent" /\ UNCHANGED <<hashed, fresh>>
      BY <1>5, <2>2, CallsAssumption DEF BundleAnswered, limiterVars
    <3>2. step' \in [Callers -> StepNames] /\ left' \in [Callers -> Nat]
      BY <2>2, <3>1 DEF CallsParts
    <3>3. ASSUME NEW u \in Callers
          PROVE  /\ step'[u] \in {"accounts", "send", "status", "detail"} <=> call'[u].pc # "idle"
                 /\ step'[u] = "ready" => left'[u] > 0
      <4>1. CASE u = t
        BY <2>2, <3>1, <4>1 DEF CallsParts
      <4>2. CASE u = p
        <5>1. step \in [Callers -> StepNames] /\ left \in [Callers -> Nat] /\ call[p].pc = "idle"
          BY <2>2, <3>1 DEF CallsParts
        <5>2. step'[p] = "ready"
          BY <2>2, <3>1, <5>1
        <5>3. left'[p] = PollBudget
          BY <2>2, <3>1, <5>1
        <5>4. PollBudget > 0
          BY CallsAssumption
        <5> QED BY <3>1, <4>2, <5>1, <5>2, <5>3, <5>4
      <4>3. CASE u # t /\ u # p
        BY <2>2, <3>1, <4>3 DEF CallsParts
      <4> QED BY <4>1, <4>2, <4>3
    <3> QED BY <1>0, <3>1, <3>2, <3>3 DEF CallsParts
  <2> QED BY <1>5, <2>1, <2>2 DEF BundleAnswered
<1> QED BY <1>1, <1>2, <1>3, <1>4, <1>5 DEF Answered

LEMMA CallsStep == TypeOK /\ CallsParts /\ [CallsNext]_vars => CallsParts'
<1> SUFFICES ASSUME TypeOK, CallsParts, [CallsNext]_vars PROVE CallsParts'
  OBVIOUS
<1>0. /\ left \in [Callers -> Nat] /\ hashed \in BOOLEAN /\ fresh \in BOOLEAN
      /\ Warmer \in Callers /\ Senders \subseteq Callers /\ Pollers \subseteq Callers
  BY CallsAssumption DEF CallsParts
<1>1. CASE Limiter
  <2>1. \A t \in Callers : call'[t].pc = "idle" <=> call[t].pc = "idle"
    <3>1. CASE Tick
      BY <3>1 DEF Tick, TypeOK
    <3>2. ASSUME NEW c \in Callers, Acquiring(c), NEW t \in Callers
          PROVE  call'[t].pc = "idle" <=> call[t].pc = "idle"
      <4>1. CASE Look(c)
        BY <4>1 DEF Look, TypeOK
      <4>2. CASE LookAgain(c) \/ Reserve(c) \/ Release(c)
        BY <4>2 DEF LookAgain, Reserve, Release, TypeOK
      <4> QED BY <3>2, <4>1, <4>2 DEF Acquiring
    <3> QED BY <1>1, <3>1, <3>2 DEF Limiter
  <2> QED BY <1>1, <2>1 DEF Limiter, CallsParts
<1>2. CASE Warm
  BY <1>0, <1>2, RequestSound DEF Warm
<1>3. CASE Expire \/ RefreshBlockhash
  BY <1>3 DEF Expire, RefreshBlockhash, limiterVars, CallsParts
<1>4. ASSUME NEW s \in Senders, Submit(s) PROVE CallsParts'
  <2>1. left' \in [Callers -> Nat] /\ \A u \in Callers \ {s} : left'[u] = left[u]
    <3>1. s \in Callers /\ left[s] > 0 /\ left[s] \in Nat
      BY <1>0, <1>4 DEF Submit
    <3>2. left' = [left EXCEPT ![s] = left[s] - 1]
      BY <1>4 DEF Submit
    <3>3. left[s] - 1 \in Nat
      BY <3>1
    <3> QED BY <1>0, <3>1, <3>2, <3>3
  <2>2. CASE hashed
    BY <1>0, <1>4, <2>1, <2>2, PrepareSound DEF Submit
  <2>3. CASE ~hashed
    <3>1. "blockhash asked" \in StepNames
      BY DEF StepNames
    <3> QED BY <1>0, <1>4, <2>1, <2>3, <3>1, MoveSound DEF Submit, limiterVars
  <2> QED BY <2>2, <2>3
<1>5. ASSUME NEW p \in Pollers, Poll(p) PROVE CallsParts'
  <2>1. p \in Callers /\ left[p] > 0 /\ left[p] \in Nat
    BY <1>0, <1>5 DEF Poll, CallsParts
  <2>2. left' \in [Callers -> Nat] /\ \A u \in Callers \ {p} : left'[u] = left[u]
    BY <1>0, <1>5, <2>1 DEF Poll
  <2> QED BY <1>0, <1>5, <2>1, <2>2, RequestSound DEF Poll
<1>6. ASSUME NEW t \in Callers, Send(t) PROVE CallsParts'
  <2>1. /\ call[t].pc = "wait" /\ call' = [call EXCEPT ![t] = Idle] /\ Idle.pc = "idle"
        /\ step' = [step EXCEPT ![t] = Asking[step[t]]] /\ UNCHANGED <<left, hashed, fresh>>
    BY <1>6 DEF Send, Granted, Idle, CallsParts
  <2>2. step[t] \in {"accounts", "send", "status", "detail"}
    BY <2>1 DEF CallsParts
  <2>3. Asking[step[t]] \in {"accounts asked", "bundle sent", "status asked", "detail asked"}
    BY <2>2, AskingTyped
  <2>4. step' \in [Callers -> StepNames]
    BY <2>1, <2>3 DEF CallsParts, StepNames
  <2>5. ASSUME NEW u \in Callers
        PROVE  /\ step'[u] \in {"accounts", "send", "status", "detail"} <=> call'[u].pc # "idle"
               /\ step'[u] = "ready" => left'[u] > 0
    <3>1. CASE u = t
      BY <2>1, <2>3, <3>1 DEF CallsParts, TypeOK
    <3>2. CASE u # t
      BY <2>1, <3>2 DEF CallsParts, TypeOK
    <3> QED BY <3>1, <3>2
  <2> QED BY <1>0, <2>1, <2>4, <2>5 DEF CallsParts
<1>7. ASSUME NEW t \in Callers, Answered(t) PROVE CallsParts'
  BY <1>7, AnsweredSound
<1>8. CASE UNCHANGED vars
  BY <1>8 DEF vars, limiterVars, CallsParts
<1> QED BY <1>1, <1>2, <1>3, <1>4, <1>5, <1>6, <1>7, <1>8 DEF CallsNext

(* Whoever submits, warms and polls, tokens go to the tasks that asked for *)
(* one and nobody polls a bundle more often than its budget: the counts of *)
(* what is left never fall below zero, for any numbers of tasks.           *)
THEOREM CallsTypeCorrect == CallsSpec => []CallsTypeOK
<1>1. CallsInit => CallsParts
  <2> SUFFICES ASSUME CallsInit PROVE CallsParts
    OBVIOUS
  <2> QED BY CallsAssumption DEF CallsInit, Init, Idle, CallsParts, StepNames
<1>2. TypeOK /\ CallsParts => CallsTypeOK
  BY CallsTyped
<1> QED BY <1>1, <1>2, CallsStep, CallersImplementLimiter, TypeCorrect, PTL DEF CallsSpec
=============================================================================
