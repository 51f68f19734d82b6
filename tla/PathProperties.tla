--------------------------- MODULE PathProperties ---------------------------
(* What the way to a window promises, stated over module SubmissionPath.     *)
EXTENDS SubmissionPath

SwapType == [fetchedAt : Slots, quoted : Slots]
WindowType ==
  [current : Slots, next : Slots \cup MaxSlot + 1 .. MaxSlot + Lookahead,
   leader : Identities, bam : BOOLEAN]

(* Types, and at most one record in each of the slots that hold one.        *)
PathTypeOK ==
  /\ slotClock \in Slots /\ clock \in Slots \cup {NoSlot}
  /\ clockOld \in BOOLEAN
  /\ schedule \subseteq [start : Slots, leaders : [0 .. Lookahead - 1 -> Identities], old : BOOLEAN]
  /\ fetchFrom \in Slots \cup {NoSlot}
  /\ jito \subseteq [sets : JitoReplies, old : BOOLEAN]
  /\ driver \in [pc : Stages, left : 0 .. Count, target : Nat,
                 window : SUBSET WindowType, swap : SUBSET SwapType]
  /\ staged \subseteq SwapType /\ fetching \subseteq SwapType
  /\ seen \in [Tasks -> SUBSET Slots]
  /\ \A S \in {schedule, jito, staged, fetching, driver.window, driver.swap} :
       \A x, y \in S : x = y
  /\ \A task \in Tasks : \A x, y \in seen[task] : x = y

(* A window current_window returns, and the one the driver holds, is what   *)
(* the network will do, although the clock, the schedule and the validator  *)
(* set each moved on their own while it was put together: it is ahead of    *)
(* the slot it was computed from, the leader named leads the whole group it *)
(* is in, and ran the Block Engine (and BAM, if it says so) in an answer of *)
(* the API.  As long as the clock has not passed the first slot of the next *)
(* group, it is moreover the beginning of its group, and no group of a      *)
(* leader that always runs the Block Engine is skipped on the way; a call   *)
(* held up for longer may use a schedule that begins later, inside a group. *)
LedBy(s, id) == \A t \in s .. s + LEADER_SLOTS_PER_GROUP - 1 :
                  t \in DOMAIN LeaderOf => LeaderOf[t] = id

RunsJito(id, response) == \E v \in response : v.identity = id /\ v.jito
RunsBam(id, response) == \E v \in response : v.identity = id /\ v.jito /\ v.bam

TrueWindow(w) ==
  /\ w.next > w.current
  /\ LedBy(GroupStart(w.next), w.leader)
  /\ \E r \in Responses : RunsJito(w.leader, r) /\ (w.bam <=> RunsBam(w.leader, r))

NextGroup(s) == GroupStart(s) + LEADER_SLOTS_PER_GROUP

AimedWindow(w) ==
  /\ w.next = GroupStart(w.next)
  /\ \A s \in NextGroup(w.current) .. w.next - 1 :
       \E r \in Responses : ~RunsJito(LeaderOf[s], r)

WindowsAreTrue ==
  \A w \in Found("driver") \cup Found("prefetcher") \cup driver.window :
    TrueWindow(w) /\ (clock <= NextGroup(w.current) => AimedWindow(w))

(* A swap sent into a window for the first time is no older than MaxAge at  *)
(* the window's slot, counted from the slot it was really asked for in: a   *)
(* slow pre-fetch does not make it look younger (the stamp is read before   *)
(* the fetch, and from the slower of the two clocks).                       *)
SwapsAreYoung ==
  driver.pc = "sending" =>
    \A w \in driver.window, s \in driver.swap : w.current - s.quoted <= MaxAge

(* A stream that goes silent does not keep the driver waiting: it gets its  *)
(* window or a health error (wait_for_window, current_window).              *)
WaitersAreAnswered ==
  driver.pc \in {"warming", "waiting"} /\ clockOld
    ~> driver.pc \notin {"warming", "waiting"} \/ ~clockOld
=============================================================================
