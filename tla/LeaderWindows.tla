--------------------------- MODULE LeaderWindows ---------------------------
(***************************************************************************)
(* The leader tracker (crates/leader): the slot clock the stream feeds, the *)
(* leader schedule and the Jito validator set two loops refresh behind its  *)
(* back, and the window current_window computes from the three.             *)
(*                                                                          *)
(* Identities are model values; LeaderOf is the schedule the network        *)
(* follows, which getSlotLeaders returns a stretch of.  Of an age only      *)
(* whether it exceeds its limit is kept (a flag that time raises and a      *)
(* refresh clears).  A slot or a record that is not there yet is NoSlot or  *)
(* the empty set.                                                           *)
(***************************************************************************)
EXTENDS Integers

CONSTANTS
  LeaderOf,     \* the network's leader schedule, slot by slot
  Responses,    \* what the validator API may answer: sets of validators
  Threshold,    \* threshold_slots (swap_lead_slots in swap mode)
  Lookahead,    \* lookahead_slots, the length of a fetched schedule
  FirstSlot,    \* bound: no slot update is of an earlier slot
  MaxSlot,      \* bound: nor of a later one
  MaxLag        \* bound: how far behind the newest slot an update may be

LEADER_SLOTS_PER_GROUP == 4
NoSlot == -1
Slots == 0 .. MaxSlot
GroupStart(s) == s - (s % LEADER_SLOTS_PER_GROUP)
Identities == {LeaderOf[s] : s \in DOMAIN LeaderOf}
Unparsable == "unparsable"

ASSUME BoundsAssumption ==
  /\ FirstSlot \in Nat /\ MaxSlot \in Nat /\ MaxLag \in Nat
  /\ Threshold \in Nat \ {0} /\ Lookahead \in Nat \ {0}

(* Leaders rotate by groups of four slots.                                  *)
ASSUME LeadersAssumption ==
  /\ DOMAIN LeaderOf = 0 .. MaxSlot + Lookahead
  /\ \A s \in DOMAIN LeaderOf : LeaderOf[s] = LeaderOf[GroupStart(s)]
  /\ Unparsable \notin Identities

(* The validator API answers with a set of records.                         *)
ASSUME ResponsesAssumption ==
  \A r \in Responses : \A v \in r :
    DOMAIN v = {"identity", "jito", "bam"} /\ v.jito \in BOOLEAN /\ v.bam \in BOOLEAN

(* fetch_validator_sets: an identity that does not parse and a validator    *)
(* without the Block Engine are left out, BAM or not.                       *)
RunningJito(response) == {v \in response : v.jito /\ v.identity # Unparsable}

ValidatorSets(response) ==
  [jito |-> {v.identity : v \in RunningJito(response)},
   bam  |-> {v.identity : v \in {u \in RunningJito(response) : u.bam}}]

JitoReplies == {ValidatorSets(response) : response \in Responses}

VARIABLES
  slotClock,   \* the orchestrator's slot clock: any slot update raises it
  clock,       \* SlotClock.slot: processed updates only
  clockOld,    \* SlotClock.updated_at is older than max_clock_staleness
  schedule,    \* {} or {[start, leaders, old]}: the cached LeaderSchedule
  fetchFrom,   \* start of the schedule being fetched, or NoSlot
  jito         \* {} or {[sets, old]}: the cached JitoSet

leaderVars == <<slotClock, clock, clockOld, schedule, fetchFrom, jito>>

LeaderInit ==
  /\ slotClock = 0 /\ clock = NoSlot /\ clockOld = FALSE
  /\ schedule = {} /\ fetchFrom = NoSlot /\ jito = {}

----------------------------------------------------------------------------
(* The slot clock.                                                          *)

(* The fan-out task hands a slot update on: its own clock takes any status, *)
(* the leader clock the processed ones, and neither goes back on a late     *)
(* one, which still shows that the stream is alive (app.rs, ingest).        *)
(* MaxLag bounds how late an update is, and how far the leader clock falls  *)
(* behind when processed updates are lost.                                  *)
Raise(old, s) == IF s > old THEN s ELSE old

SlotUpdate(s, processed) ==
  /\ s >= FirstSlot /\ s >= slotClock - MaxLag
  /\ processed \/ s <= clock + MaxLag
  /\ slotClock' = Raise(slotClock, s)
  /\ IF processed THEN clock' = Raise(clock, s) /\ clockOld' = FALSE
                  ELSE UNCHANGED <<clock, clockOld>>
  /\ UNCHANGED <<schedule, fetchFrom, jito>>

(* No processed update for max_clock_staleness.                             *)
ClockAges ==
  /\ clock # NoSlot /\ ~clockOld
  /\ clockOld' = TRUE
  /\ UNCHANGED <<slotClock, clock, schedule, fetchFrom, jito>>

----------------------------------------------------------------------------
(* The refresh loops.                                                       *)

(* refresh_schedule reads the clock for the first slot it asks for, and     *)
(* goes on when the RPC answers: the clock has moved by then.               *)
AskSchedule ==
  /\ fetchFrom = NoSlot /\ clock # NoSlot
  /\ fetchFrom' = clock
  /\ UNCHANGED <<slotClock, clock, clockOld, schedule, jito>>

Stretch(from) == [i \in 0 .. Lookahead - 1 |-> LeaderOf[from + i]]

StoreSchedule_StampedLate ==  \* mutant
  /\ fetchFrom # NoSlot
  /\ schedule' = {[start |-> clock, leaders |-> Stretch(fetchFrom), old |-> FALSE]}
  /\ fetchFrom' = NoSlot
  /\ UNCHANGED <<slotClock, clock, clockOld, jito>>

StoreSchedule ==
  /\ fetchFrom # NoSlot
  /\ schedule' = {[start |-> fetchFrom, leaders |-> Stretch(fetchFrom), old |-> FALSE]}
  /\ fetchFrom' = NoSlot
  /\ UNCHANGED <<slotClock, clock, clockOld, jito>>

ScheduleFails ==
  /\ fetchFrom # NoSlot
  /\ fetchFrom' = NoSlot
  /\ UNCHANGED <<slotClock, clock, clockOld, schedule, jito>>

ScheduleAges ==
  /\ schedule' = {[c EXCEPT !.old = TRUE] : c \in schedule}
  /\ schedule' # schedule
  /\ UNCHANGED <<slotClock, clock, clockOld, fetchFrom, jito>>

(* refresh_jito reads nothing before it asks; an error leaves the set as    *)
(* it was.                                                                  *)
StoreJito(reply) ==
  /\ jito' = {[sets |-> reply, old |-> FALSE]}
  /\ UNCHANGED <<slotClock, clock, clockOld, schedule, fetchFrom>>

JitoAges ==
  /\ jito' = {[c EXCEPT !.old = TRUE] : c \in jito}
  /\ jito' # jito
  /\ UNCHANGED <<slotClock, clock, clockOld, schedule, fetchFrom>>

LeaderNext ==
  \/ \E s \in Slots, processed \in BOOLEAN : SlotUpdate(s, processed)
  \/ ClockAges
  \/ AskSchedule \/ StoreSchedule \/ ScheduleFails \/ ScheduleAges
  \/ \E reply \in JitoReplies : StoreJito(reply)
  \/ JitoAges

----------------------------------------------------------------------------
(* The window.                                                              *)

(* next_jito_leader: from the first group boundary after the current slot,  *)
(* or the schedule's first slot if that is later, group by group; the slots *)
(* at which a leader of ids is found there.                                 *)
First(now, start) == Raise(GroupStart(now) + LEADER_SLOTS_PER_GROUP, start)

JitoStarts(now, start, leaders, ids) ==
  {s \in start .. start + Lookahead - 1 :
     /\ s >= First(now, start)
     /\ (s - First(now, start)) % LEADER_SLOTS_PER_GROUP = 0
     /\ leaders[s - start] \in ids}

Earliest(S) == CHOOSE s \in S : \A t \in S : s <= t

(* current_window reads the clock and lets go of it, then it reads the two  *)
(* caches, the schedule locked until it has the set: when it does, the slot *)
(* it has read (now) may be behind the clock, and behind the start of the   *)
(* schedule.  The windows it returns then: none when it answers with a      *)
(* health error (a missing or stale input, or no Jito leader in sight).     *)
ClockReady_AnyAge == clock # NoSlot  \* mutant
ClockReady == clock # NoSlot /\ ~clockOld
UsableSchedule(now) == {c \in schedule : ~c.old /\ now < c.start + Lookahead}
UsableJito == {j \in jito : ~j.old}

WindowFrom(now, c, j) ==
  LET next == Earliest(JitoStarts(now, c.start, c.leaders, j.sets.jito))
      leader == c.leaders[next - c.start]
  IN [current |-> now, next |-> next, leader |-> leader,
      bam |-> leader \in j.sets.bam]

CurrentWindow(now) ==
  {WindowFrom(now, p[1], p[2]) :
     p \in {q \in UsableSchedule(now) \X UsableJito :
              JitoStarts(now, q[1].start, q[1].leaders, q[2].sets.jito) # {}}}

SlotsUntil(w) == w.next - w.current

(* wait_for_window returns the window once it is near enough.               *)
Open(w) == SlotsUntil(w) \in 1 .. Threshold
=============================================================================
