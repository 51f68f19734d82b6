----------------------------- MODULE PathProofs -----------------------------
(***************************************************************************)
(* Theorems about the way to a window, for every leader schedule, every     *)
(* validator set and every threshold, lookahead and age limit.              *)
(***************************************************************************)
EXTENDS PathProperties, WellFoundedInduction, TLAPS

(* The arithmetic of the groups.                                            *)
LEMMA GroupFacts ==
  ASSUME NEW n \in Nat
  PROVE  /\ GroupStart(n) \in Nat /\ GroupStart(n) <= n /\ n < GroupStart(n) + 4
         /\ GroupStart(n) % 4 = 0
BY DEF GroupStart, LEADER_SLOTS_PER_GROUP

LEMMA GroupOf ==
  ASSUME NEW g \in Nat, NEW n \in Nat, g % 4 = 0, g <= n, n < g + 4
  PROVE  GroupStart(n) = g
BY DEF GroupStart, LEADER_SLOTS_PER_GROUP

LEMMA GroupSteps ==
  ASSUME NEW g \in Nat, NEW n \in Nat, g % 4 = 0, n >= g + 4, (n - (g + 4)) % 4 = 0
  PROVE  GroupStart(n) = n
BY DEF GroupStart, LEADER_SLOTS_PER_GROUP

LEMMA GroupsApart ==
  ASSUME NEW g \in Nat, NEW h \in Nat, g % 4 = 0, h % 4 = 0, g < h
  PROVE  g + 4 <= h /\ (h - (g + 4)) % 4 = 0
OBVIOUS

LEMMA EarliestIsFirst ==
  ASSUME NEW S, S \subseteq Nat, S # {}
  PROVE  Earliest(S) \in S /\ \A t \in S : Earliest(S) <= t
<1>1. \E s \in S : \A t \in S : ~(<<t, s>> \in OpToRel(<, Nat))
  BY NatLessThanWellFounded, WFMin, Zenon
<1>2. \E s \in S : \A t \in S : s <= t
  <2>1. PICK s \in S : \A t \in S : ~(<<t, s>> \in OpToRel(<, Nat))
    BY <1>1
  <2>2. ASSUME NEW t \in S  PROVE s <= t
    <3>1. ~(t < s)
      BY <2>1 DEF OpToRel
    <3> QED BY <3>1
  <2> QED BY <2>2
<1> QED BY <1>2 DEF Earliest

----------------------------------------------------------------------------
(* The inductive invariant: the caches are truthful about the network and   *)
(* never ahead of the clock; nor is a slot a task has read in               *)
(* current_window, which the caches may however be ahead of; a swap is      *)
(* stamped no later than it was asked for; and what the driver carries is   *)
(* true, and young, from the moment it takes it.                            *)
Told ==
  /\ clock <= slotClock /\ fetchFrom <= clock
  /\ \A c \in schedule : c.start <= clock /\ c.leaders = Stretch(c.start)

Read == \A task \in Tasks : \A now \in seen[task] : now <= clock

Stamped == \A s \in staged \cup fetching : s.fetchedAt <= s.quoted

Carried ==
  /\ \A w \in driver.window, s \in driver.swap : w.current - s.quoted <= MaxAge
  /\ driver.left = 0 => driver.pc = "done"

Right(w) == TrueWindow(w) /\ (clock <= NextGroup(w.current) => AimedWindow(w))

DriverWindows == \A w \in driver.window : Right(w)

PathInv == PathTypeOK /\ Told /\ Read /\ DriverWindows /\ Stamped /\ Carried

(* A stretch of the schedule that starts at a slot of the run.              *)
LEMMA StretchIsTrue ==
  ASSUME NEW from \in Slots
  PROVE  /\ Stretch(from) \in [0 .. Lookahead - 1 -> Identities]
         /\ \A s \in from .. from + Lookahead - 1 :
              s \in DOMAIN LeaderOf /\ Stretch(from)[s - from] = LeaderOf[s]
<1> USE BoundsAssumption, LeadersAssumption DEF Slots
<1>1. \A i \in 0 .. Lookahead - 1 : from + i \in DOMAIN LeaderOf
  OBVIOUS
<1>2. Stretch(from) \in [0 .. Lookahead - 1 -> Identities]
  BY <1>1 DEF Stretch, Identities
<1>3. ASSUME NEW s \in from .. from + Lookahead - 1
      PROVE  s \in DOMAIN LeaderOf /\ Stretch(from)[s - from] = LeaderOf[s]
  <2>1. s - from \in 0 .. Lookahead - 1 /\ from + (s - from) = s
    BY <1>3
  <2> QED BY <2>1, <1>1 DEF Stretch
<1> QED BY <1>2, <1>3

(* What refresh_jito keeps of an answer.                                    *)
LEMMA SetsAreTrue ==
  ASSUME NEW r, NEW id \in Identities
  PROVE  /\ id \in ValidatorSets(r).jito <=> RunsJito(id, r)
         /\ id \in ValidatorSets(r).bam <=> RunsBam(id, r)
<1>1. id # Unparsable
  BY LeadersAssumption
<1> QED BY <1>1 DEF ValidatorSets, RunningJito, RunsJito, RunsBam

(* What current_window computes from a slot it has read is a window of the  *)
(* network, wherever the clock and the caches have got to by then.          *)
LEMMA WindowIsRight ==
  ASSUME PathTypeOK, Told, NEW now \in Slots, now <= clock,
         NEW c \in schedule, NEW j \in jito,
         JitoStarts(now, c.start, c.leaders, j.sets.jito) # {}
  PROVE  /\ WindowFrom(now, c, j) \in WindowType
         /\ WindowFrom(now, c, j).current = now
         /\ Right(WindowFrom(now, c, j))
<1> DEFINE starts == JitoStarts(now, c.start, c.leaders, j.sets.jito)
           g == GroupStart(now)
           first == First(now, c.start)
           next == Earliest(starts)
           leader == c.leaders[next - c.start]
           w == WindowFrom(now, c, j)
<1>1. /\ clock \in Int /\ c.start \in Slots /\ c.start <= clock
      /\ c.leaders = Stretch(c.start) /\ j.sets \in JitoReplies
  BY BoundsAssumption DEF PathTypeOK, Told, Slots, NoSlot
<1>2. /\ g \in Nat /\ g <= now /\ now < g + 4 /\ g % 4 = 0 /\ now \in Nat
      /\ c.start \in Nat
  <2>1. now \in Nat /\ c.start \in Nat
    BY <1>1, BoundsAssumption DEF Slots
  <2> QED BY <2>1, GroupFacts
<1>3. /\ first \in Nat /\ first >= g + 4
      /\ c.start <= g + 4 => first = g + 4
  BY <1>1, <1>2 DEF First, Raise, LEADER_SLOTS_PER_GROUP
<1>4. \A s : s \in starts <=>
        /\ s \in c.start .. c.start + Lookahead - 1
        /\ s >= first /\ (s - first) % 4 = 0
        /\ c.leaders[s - c.start] \in j.sets.jito
  BY DEF JitoStarts, LEADER_SLOTS_PER_GROUP
<1>5. starts \subseteq Nat
  BY <1>2, <1>4, BoundsAssumption
<1>6. next \in starts /\ \A t \in starts : next <= t
  BY <1>5, EarliestIsFirst
<1>7. /\ next \in Nat /\ next \in c.start .. c.start + Lookahead - 1
      /\ next >= first /\ (next - first) % 4 = 0 /\ leader \in j.sets.jito
  BY <1>4, <1>5, <1>6
<1>8. next > now
  BY <1>2, <1>3, <1>7
<1>9. /\ leader = LeaderOf[next] /\ next \in DOMAIN LeaderOf /\ leader \in Identities
      /\ \A s \in c.start .. c.start + Lookahead - 1 :
           s \in DOMAIN LeaderOf /\ c.leaders[s - c.start] = LeaderOf[s]
  BY <1>1, <1>7, StretchIsTrue DEF Identities
<1>10. LedBy(GroupStart(next), leader)
  <2> DEFINE h == GroupStart(next)
  <2>1. h \in Nat /\ h % 4 = 0
    BY <1>7, GroupFacts
  <2>2. ASSUME NEW t \in h .. h + 3, t \in DOMAIN LeaderOf
        PROVE  LeaderOf[t] = leader
    <3>1. t \in Nat /\ h <= t /\ t < h + 4
      BY <2>1, <2>2
    <3>2. GroupStart(t) = h
      <4> HIDE DEF h
      <4> QED BY <2>1, <3>1, GroupOf
    <3> QED BY <2>2, <3>2, <1>9, LeadersAssumption
  <2> QED BY <2>1, <2>2 DEF LedBy, LEADER_SLOTS_PER_GROUP
<1>11. \E r \in Responses :
          RunsJito(leader, r) /\ ((leader \in j.sets.bam) <=> RunsBam(leader, r))
  <2>1. PICK r \in Responses : j.sets = ValidatorSets(r)
    BY <1>1 DEF JitoReplies
  <2>2. leader \in Identities /\ leader \in j.sets.jito
    BY <1>7, <1>9
  <2> HIDE DEF leader
  <2> QED BY <2>1, <2>2, SetsAreTrue
<1>12. ASSUME clock <= g + 4
       PROVE  /\ next = GroupStart(next)
              /\ \A s \in g + 4 .. next - 1 : \E r \in Responses : ~RunsJito(LeaderOf[s], r)
  <2>1. first = g + 4
    BY <1>1, <1>2, <1>3, <1>12
  <2>2. next = GroupStart(next)
    <3> HIDE DEF next, g, first
    <3> QED BY <1>2, <1>7, <2>1, GroupSteps
  <2>3. ASSUME NEW s \in g + 4 .. next - 1,
               \A r \in Responses : RunsJito(LeaderOf[s], r)
        PROVE  FALSE
    <3> DEFINE h == GroupStart(s)
    <3>1. s \in Nat /\ g + 4 <= s /\ s < next
      BY <1>2, <1>7, <2>3
    <3>2. h \in Nat /\ h <= s /\ s < h + 4 /\ h % 4 = 0
      BY <3>1, GroupFacts
    <3>3. g + 4 <= h /\ (h - (g + 4)) % 4 = 0
      BY <3>1, <3>2, <1>2, GroupsApart
    <3>4. h \in c.start .. c.start + Lookahead - 1
          /\ s \in c.start .. c.start + Lookahead - 1
      BY <3>1, <3>2, <3>3, <1>1, <1>2, <1>7, <1>12, BoundsAssumption
    <3>5. LeaderOf[h] = LeaderOf[s]
      BY <3>4, <1>9, LeadersAssumption
    <3>6. c.leaders[h - c.start] \in j.sets.jito
      <4>1. PICK r \in Responses : j.sets = ValidatorSets(r)
        BY <1>1 DEF JitoReplies
      <4>2. c.leaders[h - c.start] = LeaderOf[s] /\ LeaderOf[s] \in Identities
        BY <3>4, <3>5, <1>9 DEF Identities
      <4> QED BY <4>1, <4>2, <2>3, SetsAreTrue
    <3>7. h \in starts
      BY <3>3, <3>4, <3>6, <3>2, <2>1, <1>4
    <3> QED BY <3>7, <3>1, <3>2, <1>6, <1>7
  <2> QED BY <2>2, <2>3
<1>13. w = [current |-> now, next |-> next, leader |-> leader,
            bam |-> leader \in j.sets.bam]
  BY DEF WindowFrom
<1>14. w \in WindowType
  <2>1. next \in Slots \cup MaxSlot + 1 .. MaxSlot + Lookahead
    BY <1>1, <1>7, BoundsAssumption DEF Slots
  <2>2. (leader \in j.sets.bam) \in BOOLEAN
    OBVIOUS
  <2> QED BY <2>1, <2>2, <1>9, <1>13 DEF WindowType
<1>15. w.current = now /\ w.next = next /\ w.leader = leader
       /\ w.bam = (leader \in j.sets.bam)
  BY <1>13
<1>16. NextGroup(now) = g + 4
  BY DEF NextGroup, LEADER_SLOTS_PER_GROUP
<1>17. Right(w)
  <2> HIDE DEF next, leader, g, w
  <2>1. TrueWindow(w)
    BY <1>8, <1>10, <1>11, <1>15 DEF TrueWindow
  <2>2. clock <= NextGroup(w.current) => AimedWindow(w)
    BY <1>12, <1>15, <1>16 DEF AimedWindow
  <2> QED BY <2>1, <2>2 DEF Right
<1> QED BY <1>14, <1>15, <1>17

LEMMA FoundIsRight ==
  ASSUME PathTypeOK, Told, Read, NEW task \in Tasks, NEW w \in Found(task)
  PROVE  /\ w \in WindowType /\ Right(w)
         /\ w.current \in Slots /\ w.current <= clock
<1>1. PICK now \in seen[task] : w \in CurrentWindow(now)
  BY DEF Found
<1>2. PICK p \in UsableSchedule(now) \X UsableJito :
        /\ w = WindowFrom(now, p[1], p[2])
        /\ JitoStarts(now, p[1].start, p[1].leaders, p[2].sets.jito) # {}
  BY <1>1 DEF CurrentWindow
<1>3. p[1] \in schedule /\ p[2] \in jito
  BY <1>2 DEF UsableSchedule, UsableJito
<1>4. now \in Slots /\ now <= clock
  BY DEF PathTypeOK, Read
<1> QED BY <1>2, <1>3, <1>4, WindowIsRight

----------------------------------------------------------------------------
(* The initial states and the steps.                                        *)

Single(S) == \A x, y \in S : x = y

LeaderTypes ==
  /\ slotClock \in Slots /\ clock \in Slots \cup {NoSlot}
  /\ clockOld \in BOOLEAN
  /\ schedule \subseteq [start : Slots, leaders : [0 .. Lookahead - 1 -> Identities], old : BOOLEAN]
  /\ fetchFrom \in Slots \cup {NoSlot}
  /\ jito \subseteq [sets : JitoReplies, old : BOOLEAN]
  /\ Single(schedule) /\ Single(jito)

DriverTypes ==
  /\ driver \in [pc : Stages, left : 0 .. Count, target : Nat,
                 window : SUBSET WindowType, swap : SUBSET SwapType]
  /\ Single(driver.window) /\ Single(driver.swap)

StagedTypes ==
  /\ staged \subseteq SwapType /\ fetching \subseteq SwapType
  /\ Single(staged) /\ Single(fetching)

SeenTypes ==
  /\ seen \in [Tasks -> SUBSET Slots]
  /\ \A task \in Tasks : Single(seen[task])

LEMMA TypesSplit == PathTypeOK <=> LeaderTypes /\ DriverTypes /\ StagedTypes /\ SeenTypes
BY DEF PathTypeOK, LeaderTypes, DriverTypes, StagedTypes, SeenTypes, Single

LEMMA PathInit == Init => PathInv
<1> SUFFICES ASSUME Init  PROVE PathInv
  OBVIOUS
<1> USE BoundsAssumption, PathAssumption DEF Init, LeaderInit
<1>1. LeaderTypes
  <2>1. 0 \in Slots
    BY DEF Slots
  <2>2. schedule = {} /\ jito = {} /\ clock = NoSlot /\ fetchFrom = NoSlot
        /\ clockOld \in BOOLEAN /\ slotClock \in Slots
    BY <2>1
  <2> QED BY <2>2 DEF LeaderTypes, Single
<1>2. driver.window = {} /\ driver.swap = {} /\ driver.left = Count /\ driver.pc = "warming"
  OBVIOUS
<1>3. DriverTypes
  BY <1>2 DEF DriverTypes, Single, Stages
<1>4. StagedTypes
  BY DEF StagedTypes, Single
<1>5. SeenTypes /\ Read
  BY DEF SeenTypes, Read, Single
<1>6. DriverWindows /\ Told /\ Stamped /\ Carried
  BY <1>2 DEF DriverWindows, Told, Stamped, Carried, NoSlot
<1> QED BY <1>1, <1>3, <1>4, <1>5, <1>6, TypesSplit DEF PathInv

(* The clocks and the caches, one step each.                                *)
LEMMA LeaderStep ==
  ASSUME LeaderTypes, Told, LeaderNext
  PROVE  LeaderTypes' /\ Told' /\ clock <= clock'
<1> USE DEF LeaderTypes, Told, Single
<1>0. clock \in Int
  BY BoundsAssumption DEF Slots, NoSlot
<1>1. ASSUME NEW s \in Slots, NEW processed \in BOOLEAN, SlotUpdate(s, processed)
      PROVE  LeaderTypes' /\ Told' /\ clock <= clock'
  <2>1. /\ schedule' = schedule /\ fetchFrom' = fetchFrom /\ jito' = jito
        /\ slotClock' = Raise(slotClock, s)
        /\ clock' = Raise(clock, s) \/ clock' = clock
        /\ clockOld' \in BOOLEAN
    BY <1>1 DEF SlotUpdate
  <2>2. /\ slotClock \in Int /\ clock \in Int /\ s \in Int /\ fetchFrom \in Int
        /\ \A c \in schedule : c.start \in Int
    BY BoundsAssumption DEF Slots, NoSlot
  <2>3. slotClock' \in Slots /\ clock' \in Slots \cup {NoSlot}
    BY <2>1, <2>2 DEF Raise
  <2>4. clock' <= slotClock' /\ clock <= clock'
    BY <2>1, <2>2 DEF Raise
  <2>5. fetchFrom' <= clock' /\ \A c \in schedule' : c.start <= clock'
    BY <2>1, <2>2, <2>3, <2>4, BoundsAssumption DEF Slots, NoSlot
  <2> QED BY <2>1, <2>3, <2>4, <2>5
<1>2. CASE ClockAges
  BY <1>0, <1>2 DEF ClockAges
<1>3. CASE AskSchedule
  BY <1>0, <1>3, BoundsAssumption DEF AskSchedule, Slots, NoSlot
<1>4. CASE StoreSchedule
  <2> DEFINE c == [start |-> fetchFrom, leaders |-> Stretch(fetchFrom), old |-> FALSE]
  <2>1. fetchFrom \in Slots
    BY <1>4 DEF StoreSchedule
  <2>2. c \in [start : Slots, leaders : [0 .. Lookahead - 1 -> Identities], old : BOOLEAN]
    BY <2>1, StretchIsTrue
  <2>3. c.start = fetchFrom /\ c.leaders = Stretch(c.start)
    OBVIOUS
  <2>4. schedule' = {c}
    BY <1>4 DEF StoreSchedule
  <2> HIDE DEF c
  <2> QED BY <1>0, <1>4, <2>1, <2>2, <2>3, <2>4, BoundsAssumption DEF StoreSchedule, Slots, NoSlot
<1>5. CASE ScheduleFails
  BY <1>0, <1>5, BoundsAssumption DEF ScheduleFails, Slots, NoSlot
<1>6. CASE ScheduleAges
  <2>1. \A c \in schedule' : \E d \in schedule : c = [d EXCEPT !.old = TRUE]
    BY <1>6 DEF ScheduleAges
  <2>2. ASSUME NEW d \in schedule
        PROVE  /\ [d EXCEPT !.old = TRUE] \in [start : Slots, leaders : [0 .. Lookahead - 1 -> Identities], old : BOOLEAN]
               /\ [d EXCEPT !.old = TRUE].start = d.start
               /\ [d EXCEPT !.old = TRUE].leaders = d.leaders
    OBVIOUS
  <2> QED BY <1>0, <1>6, <2>1, <2>2 DEF ScheduleAges
<1>7. ASSUME NEW reply \in JitoReplies, StoreJito(reply)
      PROVE  LeaderTypes' /\ Told' /\ clock <= clock'
  BY <1>0, <1>7 DEF StoreJito
<1>8. CASE JitoAges
  <2>1. /\ jito' = {[j EXCEPT !.old = TRUE] : j \in jito}
        /\ UNCHANGED <<slotClock, clock, clockOld, schedule, fetchFrom>>
    BY <1>8 DEF JitoAges
  <2>2. jito' \subseteq [sets : JitoReplies, old : BOOLEAN] /\ Single(jito')
    BY <2>1
  <2> QED BY <1>0, <2>1, <2>2
<1> QED BY <1>1, <1>2, <1>3, <1>4, <1>5, <1>6, <1>7, <1>8 DEF LeaderNext

(* The slots the tasks have read.                                           *)
LEMMA SeenStep ==
  ASSUME SeenTypes, Read, LeaderTypes, UNCHANGED clock, NEW task \in Tasks,
         \/ UNCHANGED seen
         \/ Answered(task)
         \/ ReadsClock(task)
  PROVE  SeenTypes' /\ Read'
<1> USE DEF SeenTypes, Read, Single
<1>1. CASE UNCHANGED seen
  BY <1>1
<1>2. CASE Answered(task)
  BY <1>2 DEF Answered
<1>3. CASE ReadsClock(task)
  <2>1. clock \in Slots /\ clock \in Int
    BY <1>3, BoundsAssumption DEF ReadsClock, ClockReady, LeaderTypes, Slots
  <2>2. seen' = [seen EXCEPT ![task] = {clock}]
    BY <1>3 DEF ReadsClock
  <2> QED BY <2>1, <2>2
<1> QED BY <1>1, <1>2, <1>3

(* The pre-fetcher stamps a swap with the slot it has read, which is never  *)
(* ahead of the slot clock.                                                 *)
LEMMA PrefetchStep ==
  ASSUME PathInv, PrefetcherNext
  PROVE  StagedTypes' /\ Stamped' /\ SeenTypes' /\ Read'
<1> USE DEF PathInv
<1>1. LeaderTypes /\ StagedTypes /\ SeenTypes /\ "prefetcher" \in Tasks
  BY TypesSplit DEF Tasks
<1>2. CASE StartPrefetch
  <2>1. PICK w \in Found("prefetcher") : fetching' = {NewSwap(w.current)} /\ staged' = staged
    BY <1>2 DEF StartPrefetch
  <2>2. /\ w.current \in Slots /\ w.current <= clock
    BY <1>1, <2>1, FoundIsRight
  <2>3. slotClock \in Slots /\ w.current <= slotClock
    BY <1>1, <2>2, BoundsAssumption DEF LeaderTypes, Told, Slots, NoSlot
  <2>4. NewSwap(w.current) \in SwapType /\ NewSwap(w.current).fetchedAt <= NewSwap(w.current).quoted
    BY <2>2, <2>3 DEF NewSwap, SwapType
  <2>5. StagedTypes' /\ Stamped'
    BY <1>1, <2>1, <2>4 DEF StagedTypes, Stamped, Single
  <2> QED BY <1>1, <1>2, <2>5, SeenStep DEF StartPrefetch, leaderVars
<1>3. CASE NoPrefetch \/ Peeks
  <2>1. StagedTypes' /\ Stamped'
    BY <1>1, <1>3 DEF NoPrefetch, Peeks, ReadsClock, StagedTypes, Stamped, Single
  <2>2. UNCHANGED clock /\ (Answered("prefetcher") \/ ReadsClock("prefetcher"))
    BY <1>3 DEF NoPrefetch, Peeks, ReadsClock, leaderVars
  <2> QED BY <1>1, <2>1, <2>2, SeenStep
<1>4. CASE StorePrefetch \/ PrefetchFails
  <2>1. StagedTypes' /\ Stamped'
    BY <1>1, <1>4 DEF StorePrefetch, PrefetchFails, StagedTypes, Stamped, Single
  <2>2. UNCHANGED <<clock, seen>>
    BY <1>4 DEF StorePrefetch, PrefetchFails, leaderVars
  <2> QED BY <1>1, <2>1, <2>2, SeenStep
<1> QED BY <1>2, <1>3, <1>4 DEF PrefetcherNext

DriverInv == DriverTypes /\ DriverWindows /\ Carried

LEMMA SubmitOneEndsKeeps ==
  ASSUME PathInv, driver.pc # "done", SubmitOneEnds
  PROVE  DriverInv'
<1> USE DEF DriverInv, DriverTypes, Single
<1>1. driver.left \in 1 .. Count /\ slotClock \in Nat
  BY TypesSplit, PathAssumption, BoundsAssumption DEF PathInv, Carried, PathTypeOK, Slots
<1>2. /\ driver'.window = {} /\ driver'.swap = {} /\ driver'.left = driver.left - 1
      /\ driver'.pc = IF driver.left = 1 THEN "done" ELSE "spacing"
      /\ driver'.target = IF driver.left = 1 THEN 0 ELSE slotClock + Interval
  BY DEF SubmitOneEnds
<1>3. /\ driver'.pc \in Stages /\ driver'.left \in 0 .. Count /\ driver'.target \in Nat
      /\ driver'.window \in SUBSET WindowType /\ driver'.swap \in SUBSET SwapType
  BY <1>1, <1>2, PathAssumption DEF Stages
<1>4. driver' = [pc |-> driver'.pc, left |-> driver'.left, target |-> driver'.target,
                 window |-> driver'.window, swap |-> driver'.swap]
  BY <1>2 DEF SubmitOneEnds
<1>5. DriverTypes'
  BY <1>2, <1>3, <1>4
<1> QED BY <1>1, <1>2, <1>5 DEF DriverWindows, Carried

LEMMA WindowOpensKeeps ==
  ASSUME PathInv, WindowOpens
  PROVE  DriverInv' /\ StagedTypes' /\ Stamped'
<1> USE DEF PathInv
<1>1. /\ DriverTypes /\ StagedTypes /\ driver.pc = "waiting" /\ "driver" \in Tasks
      /\ slotClock \in Int /\ clock \in Int /\ clock <= slotClock /\ slotClock \in Slots
  BY TypesSplit, BoundsAssumption DEF LeaderTypes, Told, WindowOpens, Tasks, Slots, NoSlot
<1>2. PICK w \in Found("driver") :
        driver' = IF SwapMode /\ SwapFor(w) = {}
                  THEN [driver EXCEPT !.pc = "fetching", !.window = {w}, !.swap = {NewSwap(slotClock)}]
                  ELSE [driver EXCEPT !.pc = "sending", !.window = {w}, !.swap = SwapFor(w)]
  BY DEF WindowOpens
<1>3. /\ w \in WindowType /\ Right(w) /\ w.current \in Slots
      /\ w.current <= clock
  BY <1>1, FoundIsRight
<1>4. PICK swap \in {SwapFor(w), {NewSwap(slotClock)}}, stage \in {"fetching", "sending"} :
        driver' = [driver EXCEPT !.pc = stage, !.window = {w}, !.swap = swap]
  BY <1>2
<1>5. swap \subseteq SwapType /\ Single(swap)
  <2>1. SwapFor(w) \subseteq SwapType /\ Single(SwapFor(w))
    BY <1>1 DEF StagedTypes, Single, SwapFor
  <2>2. NewSwap(slotClock) \in SwapType
    BY <1>1 DEF NewSwap, SwapType
  <2> QED BY <2>1, <2>2, <1>4 DEF Single
<1>6. \A s \in swap : w.current - s.quoted <= MaxAge
  <2>0. w.current \in Int /\ MaxAge \in Nat
    BY <1>3, PathAssumption, BoundsAssumption DEF Slots
  <2>1. CASE swap = {NewSwap(slotClock)}
    <3>1. \A s \in swap : s.quoted = slotClock
      BY <2>1 DEF NewSwap
    <3> QED BY <2>0, <3>1, <1>1, <1>3
  <2>2. CASE swap = SwapFor(w)
    <3>1. ASSUME NEW s \in swap  PROVE w.current - s.quoted <= MaxAge
      <4>1. s \in SwapType /\ s.fetchedAt <= s.quoted /\ w.current - s.fetchedAt <= MaxAge
        BY <2>2, <3>1, <1>1 DEF StagedTypes, Stamped, Fresh, SwapFor
      <4>2. s.fetchedAt \in Int /\ s.quoted \in Int
        BY <4>1, BoundsAssumption DEF SwapType, Slots
      <4> QED BY <2>0, <4>1, <4>2
    <3> QED BY <3>1
  <2> QED BY <1>4, <2>1, <2>2
<1>7. /\ driver'.window = {w} /\ driver'.swap = swap /\ driver'.left = driver.left
      /\ driver'.pc = stage
  BY <1>1, <1>4 DEF DriverTypes
<1>8. DriverTypes'
  BY <1>1, <1>3, <1>4, <1>5 DEF DriverTypes, Single, Stages
<1>9. DriverWindows'
  <2>1. UNCHANGED clock
    BY DEF WindowOpens, leaderVars
  <2> QED BY <1>3, <1>7, <2>1 DEF DriverWindows, Right, TrueWindow, AimedWindow
<1>10. Carried'
  BY <1>1, <1>6, <1>7 DEF Carried
<1>11. StagedTypes' /\ Stamped'
  BY <1>1 DEF WindowOpens, StagedTypes, Stamped, Single
<1> QED BY <1>8, <1>9, <1>10, <1>11 DEF DriverInv

LEMMA DriverMovesKeep ==
  ASSUME PathInv, NEW stage \in Stages \ {"done"}, driver.pc # "done", NEW t \in Nat,
         UNCHANGED clock,
         driver' = [driver EXCEPT !.pc = stage, !.target = t]
  PROVE  DriverInv'
<1>1. DriverTypes
  BY TypesSplit DEF PathInv
<1>2. /\ driver'.window = driver.window /\ driver'.swap = driver.swap
      /\ driver'.left = driver.left /\ driver'.pc = stage
  BY <1>1 DEF DriverTypes
<1>3. DriverTypes'
  BY <1>1 DEF DriverTypes, Single, Stages
<1>4. driver.left # 0
  BY DEF PathInv, Carried
<1>5. DriverWindows'
  BY <1>2 DEF PathInv, DriverWindows, Right, TrueWindow, AimedWindow
<1> QED BY <1>2, <1>3, <1>4, <1>5 DEF DriverInv, Carried, PathInv

LEMMA DriverStep ==
  ASSUME PathInv, driver.pc # "done", DriverNext
  PROVE  DriverInv' /\ StagedTypes' /\ Stamped' /\ SeenTypes' /\ Read'
<1> USE DEF PathInv
<1>1. /\ DriverTypes /\ StagedTypes /\ SeenTypes /\ Stamped /\ LeaderTypes
      /\ "driver" \in Tasks /\ driver.target \in Nat
  BY TypesSplit DEF DriverTypes, Tasks
<1>2. staged' = staged /\ fetching' = fetching => StagedTypes' /\ Stamped'
  BY <1>1 DEF StagedTypes, Stamped, Single
<1>3. UNCHANGED clock /\ driver' = driver => DriverInv'
  BY <1>1 DEF DriverInv, DriverTypes, Single, DriverWindows, Right, TrueWindow,
              AimedWindow, Carried
<1>4. ASSUME NEW stage \in Stages, driver' = [driver EXCEPT !.pc = stage]
      PROVE  driver' = [driver EXCEPT !.pc = stage, !.target = driver.target]
  BY <1>1, <1>4 DEF DriverTypes
<1>5. SeenTypes' /\ Read'
  <2>1. /\ UNCHANGED clock
        /\ UNCHANGED seen \/ Answered("driver") \/ ReadsClock("driver")
    BY DEF DriverNext, Looks, Ready, NotReady, LooksAgain, WindowOpens, WindowUnavailable,
           InWindowFetch, Send, Spaced, ReadsClock, leaderVars
  <2> QED BY <1>1, <2>1, SeenStep
<1>6. UNCHANGED clock
  BY DEF DriverNext, Looks, Ready, NotReady, LooksAgain, WindowOpens, WindowUnavailable,
         InWindowFetch, Send, Spaced, ReadsClock, leaderVars
<1>7. DriverInv' /\ StagedTypes' /\ Stamped'
  <2>1. CASE Looks \/ LooksAgain
    BY <1>2, <1>3, <1>6, <2>1 DEF Looks, LooksAgain, ReadsClock
  <2>2. CASE Ready
    <3>1. driver' = [driver EXCEPT !.pc = "waiting"] /\ "waiting" \in Stages \ {"done"}
      BY <2>2 DEF Ready, Stages
    <3> QED BY <1>1, <1>2, <1>4, <1>6, <2>2, <3>1, DriverMovesKeep DEF Ready
  <2>3. CASE NotReady
    <3>1. driver' = [driver EXCEPT !.pc = "done"]
      BY <2>3 DEF NotReady
    <3>2. /\ driver'.window = driver.window /\ driver'.swap = driver.swap
          /\ driver'.left = driver.left /\ driver'.pc = "done"
      BY <1>1, <3>1 DEF DriverTypes
    <3>3. DriverTypes'
      BY <1>1, <3>1 DEF DriverTypes, Single, Stages
    <3>4. DriverWindows' /\ Carried'
      BY <1>6, <3>2 DEF DriverWindows, Right, TrueWindow, AimedWindow, Carried
    <3> QED BY <1>2, <2>3, <3>3, <3>4 DEF NotReady, DriverInv
  <2>4. CASE WindowUnavailable
    BY <1>2, <2>4, SubmitOneEndsKeeps DEF WindowUnavailable
  <2>5. CASE InWindowFetch
    <3>1. CASE driver' = [driver EXCEPT !.pc = "sending"]
      <4>1. "sending" \in Stages \ {"done"}
        BY DEF Stages
      <4> QED BY <1>1, <1>2, <1>4, <1>6, <2>5, <3>1, <4>1, DriverMovesKeep DEF InWindowFetch
    <3>2. CASE SubmitOneEnds
      BY <1>2, <2>5, <3>2, SubmitOneEndsKeeps DEF InWindowFetch
    <3> QED BY <2>5, <3>1, <3>2 DEF InWindowFetch
  <2>6. CASE Send
    BY <1>2, <2>6, SubmitOneEndsKeeps DEF Send
  <2>7. CASE Spaced
    <3>1. "waiting" \in Stages \ {"done"} /\ 0 \in Nat
      BY DEF Stages
    <3> QED BY <1>2, <1>6, <2>7, <3>1, DriverMovesKeep DEF Spaced
  <2>8. CASE WindowOpens
    BY <2>8, WindowOpensKeeps
  <2> QED BY <2>1, <2>2, <2>3, <2>4, <2>5, <2>6, <2>7, <2>8 DEF DriverNext
<1> QED BY <1>5, <1>7

(* What the driver holds stays right as the clock moves on.                 *)
LEMMA WindowsStayRight ==
  ASSUME DriverWindows, DriverTypes, LeaderTypes, LeaderTypes', clock <= clock',
         UNCHANGED driver
  PROVE  DriverWindows'
<1>1. SUFFICES ASSUME NEW w \in driver.window  PROVE Right(w)'
  BY DEF DriverWindows
<1>2. Right(w) /\ w.current \in Nat
  BY BoundsAssumption DEF DriverWindows, DriverTypes, WindowType, Slots
<1>3. NextGroup(w.current) \in Int /\ clock \in Int /\ clock' \in Int
  <2>1. GroupStart(w.current) \in Nat
    BY <1>2, GroupFacts
  <2>2. clock \in Int /\ clock' \in Int
    BY BoundsAssumption DEF LeaderTypes, Slots, NoSlot
  <2> QED BY <2>1, <2>2 DEF NextGroup, LEADER_SLOTS_PER_GROUP
<1>4. clock' <= NextGroup(w.current) => clock <= NextGroup(w.current)
  BY <1>3
<1> QED BY <1>2, <1>4 DEF Right, TrueWindow, AimedWindow

LEMMA PathStep == PathInv /\ [Next]_vars => PathInv'
<1> SUFFICES ASSUME PathInv, [Next]_vars  PROVE PathInv'
  OBVIOUS
<1>1. /\ LeaderTypes /\ DriverTypes /\ StagedTypes /\ SeenTypes
      /\ Told /\ Read /\ Stamped /\ DriverInv
  BY TypesSplit DEF PathInv, DriverInv
<1>2. UNCHANGED driver => DriverTypes' /\ Carried'
  BY <1>1 DEF DriverInv, DriverTypes, Single, Carried
<1>3. UNCHANGED <<staged, fetching>> => StagedTypes' /\ Stamped'
  BY <1>1 DEF StagedTypes, Stamped, Single
<1>4. UNCHANGED leaderVars => LeaderTypes' /\ Told' /\ clock <= clock'
  BY <1>1, BoundsAssumption DEF leaderVars, LeaderTypes, Told, Single, Slots, NoSlot
<1>5. LeaderTypes' /\ Told' /\ DriverInv' /\ StagedTypes' /\ Stamped' /\ SeenTypes' /\ Read'
  <2>1. CASE LeaderNext /\ UNCHANGED pathVars
    <3>1. LeaderTypes' /\ Told' /\ clock <= clock'
      BY <1>1, <2>1, LeaderStep
    <3>2. DriverInv'
      BY <1>1, <1>2, <2>1, <3>1, WindowsStayRight DEF pathVars, DriverInv
    <3>3. SeenTypes' /\ Read'
      <4>1. \A task \in Tasks : \A now \in seen[task] : now \in Int
        BY <1>1, BoundsAssumption DEF SeenTypes, Slots
      <4>2. clock \in Int /\ clock' \in Int
        BY <1>1, <3>1, BoundsAssumption DEF LeaderTypes, Slots, NoSlot
      <4> QED BY <1>1, <2>1, <3>1, <4>1, <4>2 DEF pathVars, SeenTypes, Read, Single
    <3> QED BY <1>3, <2>1, <3>1, <3>2, <3>3 DEF pathVars
  <2>2. CASE PrefetcherNext
    <3>1. UNCHANGED leaderVars /\ UNCHANGED driver
      BY <2>2 DEF PrefetcherNext, Peeks, ReadsClock, StartPrefetch, NoPrefetch,
                  StorePrefetch, PrefetchFails
    <3>2. DriverInv'
      BY <1>1, <1>2, <1>4, <3>1, WindowsStayRight DEF DriverInv
    <3> QED BY <1>4, <2>2, <3>1, <3>2, PrefetchStep
  <2>3. CASE driver.pc # "done" /\ DriverNext
    <3>1. UNCHANGED leaderVars
      BY <2>3 DEF DriverNext, Looks, Ready, NotReady, LooksAgain, WindowOpens,
                  WindowUnavailable, InWindowFetch, Send, Spaced, ReadsClock
    <3> QED BY <1>4, <2>3, <3>1, DriverStep
  <2>4. CASE UNCHANGED vars
    <3>1. DriverInv'
      BY <1>1, <1>2, <1>4, <2>4, WindowsStayRight DEF DriverInv, vars, pathVars
    <3>2. SeenTypes' /\ Read'
      BY <1>1, <2>4 DEF vars, leaderVars, pathVars, SeenTypes, Read, Single
    <3> QED BY <1>3, <1>4, <2>4, <3>1, <3>2 DEF vars, pathVars
  <2> QED BY <2>1, <2>2, <2>3, <2>4 DEF Next
<1>6. PathTypeOK' <=> LeaderTypes' /\ DriverTypes' /\ StagedTypes' /\ SeenTypes'
  BY DEF PathTypeOK, LeaderTypes, DriverTypes, StagedTypes, SeenTypes, Single
<1> QED BY <1>5, <1>6 DEF PathInv, DriverInv

LEMMA PathInvariant == Spec => []PathInv
BY PathInit, PathStep, PTL DEF Spec

(* Every variable keeps its type and every cache holds one entry at most.   *)
THEOREM PathTypeCorrect == Spec => []PathTypeOK
BY PathInvariant, PTL DEF PathInv

(* Every window current_window would return, and the one the driver holds,  *)
(* is the network's, for every leader schedule, threshold and lookahead,    *)
(* and however far the clock and the caches have moved on since the call    *)
(* read the clock; it begins its group and passes no group of a constant    *)
(* Block Engine leader as long as the clock has not passed the first slot   *)
(* of the next group.                                                       *)
THEOREM WindowsAlwaysTrue == Spec => []WindowsAreTrue
<1>1. ASSUME PathInv  PROVE WindowsAreTrue
  <2>1. "driver" \in Tasks /\ "prefetcher" \in Tasks
    BY DEF Tasks
  <2>2. \A w \in Found("driver") \cup Found("prefetcher") \cup driver.window : Right(w)
    BY <1>1, <2>1, FoundIsRight DEF PathInv, DriverWindows
  <2> QED BY <2>2 DEF WindowsAreTrue, Right
<1> QED BY <1>1, PathInvariant, PTL

(* No swap older than the limit is sent into its first window, for every    *)
(* limit and however long the fetches take.                                 *)
THEOREM SwapsAlwaysYoung == Spec => []SwapsAreYoung
<1>1. PathInv => SwapsAreYoung
  BY DEF PathInv, Carried, SwapsAreYoung
<1> QED BY <1>1, PathInvariant, PTL
=============================================================================
