------------------------- MODULE OrchestratorProofs -------------------------
(***************************************************************************)
(* Proofs about Orchestrator, for every number of bundles, attempts and    *)
(* timeouts, every market and every set of replies the model may give.     *)
(***************************************************************************)
EXTENDS OrchestratorProperties, FiniteSetTheorems, TLAPS

-----------------------------------------------------------------------------
(* The pure half.                                                          *)

Tips == 0 .. MaxTip
CappedAction == {a \in Action : a.type = "SetTip" => a.lamports \in Tips}
Terminals == {"None", "Resubmit", "Abandon"}

LEMMA NormalTipCapped == \A feed : NormalTip(feed) \in Tips
  BY TipAssumption DEF NormalTip, Lower, Higher, Tips

LEMMA KnownTyped == \A feed, p : Known(feed, p) \in {{}, {p}}
  BY DEF Known

LEMMA ClampedCapped ==
  ASSUME NEW actions \in Seq(Action)
  PROVE  Clamped(actions) \in Seq(CappedAction)
<1>1. \A i \in DOMAIN actions : actions[i] \in Action
  OBVIOUS
<1>2. \A a \in Action : a.type = "SetTip" => a.lamports \in Nat
  BY DEF Action
<1>3. SetTip(MaxTip) \in CappedAction
  BY TipAssumption DEF SetTip, CappedAction, Action, Tips
<1>4. \A i \in DOMAIN actions : Clamped(actions)[i] \in CappedAction
  BY <1>1, <1>2, <1>3, TipAssumption DEF Clamped, CappedAction, Tips
<1>5. DOMAIN Clamped(actions) = 1 .. Len(actions)
  BY DEF Clamped
<1> QED BY <1>4, <1>5 DEF Clamped

LEMMA RepricedTyped ==
  ASSUME NEW tip \in Nat, NEW p75 \in {{}, {P75}}
  PROVE  Repriced(tip, p75) \in Nat
<1> DEFINE S == p75 \cup {2 * tip}
<1>1. S \subseteq Nat
  BY TipAssumption
<1>2. \E x \in S : \A y \in S : x >= y
  <2>1. CASE p75 = {}
    BY <2>1
  <2>2. CASE p75 = {P75}
    <3>1. S = {P75, 2 * tip}
      BY <2>2
    <3>2. P75 \in Nat /\ 2 * tip \in Nat
      BY TipAssumption
    <3>3. CASE P75 >= 2 * tip
      BY <3>1, <3>2, <3>3
    <3>4. CASE ~(P75 >= 2 * tip)
      BY <3>1, <3>2, <3>4
    <3> QED BY <3>3, <3>4
  <2> QED BY <2>1, <2>2
<1>3. Max(S) \in S
  BY <1>2 DEF Max
<1> QED BY <1>1, <1>3 DEF Repriced

LEMMA BaselineTyped ==
  ASSUME NEW kind, NEW attempt, NEW tip \in Nat, NEW p75 \in {{}, {P75}}
  PROVE  Baseline(kind, attempt, tip, p75) \in Seq(Action)
<1>1. Repriced(tip, p75) \in Nat
  BY RepricedTyped
<1>2. {Refresh, Resubmit, Abandon, Hold(4), SetTip(Repriced(tip, p75))} \subseteq Action
  BY <1>1 DEF Action, Refresh, Resubmit, Abandon, Hold, SetTip
<1> QED BY <1>2 DEF Baseline

LEMMA DecidedTyped == Decided \subseteq Seq(Action)
  BY OrchestratorAssumption DEF Decided, Reply

LEMMA KindTyped == \A evidence : Kind(evidence) \in FailureKind
  BY DEF Kind, RejectionKind, OnChainKind, FailureKind

(* What a plan made of clamped actions asks for stays under the cap.       *)
LEMMA PlanSound ==
  ASSUME NEW actions \in Seq(CappedAction), NEW tip \in Tips
  PROVE  /\ Plan(actions, tip).tip \in Tips
         /\ Plan(actions, tip).terminal \in Terminals
<1> DEFINE Typed(t) == {i \in DOMAIN actions : actions[i].type = t}
           ends == Typed("Resubmit") \cup Typed("Abandon")
           reached == {i \in DOMAIN actions : \A j \in ends : i <= j}
           tips == Typed("SetTip") \cap reached
           last == {i \in tips : \A j \in tips : j <= i}
           pick == CHOOSE i \in last : TRUE
<1>1. Plan(actions, tip).tip = IF last = {} THEN tip ELSE actions[pick].lamports
  BY DEF Plan
<1>2. Plan(actions, tip).terminal \in Terminals
  BY DEF Plan, Terminals
<1>3. ASSUME last # {} PROVE actions[pick].lamports \in Tips
  <2>1. pick \in last
    BY <1>3
  <2>2. pick \in DOMAIN actions /\ actions[pick].type = "SetTip"
    BY <2>1
  <2>3. actions[pick] \in CappedAction
    BY <2>2
  <2> QED BY <2>2, <2>3 DEF CappedAction
<1> QED BY <1>1, <1>2, <1>3
-----------------------------------------------------------------------------
(* The inductive invariant: beside its type, every tip anyone holds is     *)
(* capped, not only those of the rows (a loop carries its row's tip into   *)
(* the next one), and a loop that has decided still has an attempt left to *)
(* spend (what keeps the attempt numbers within max_attempts).             *)
Capped ==
  /\ \A id \in Ids : rows[id].tip \in Tips
  /\ driver.tip \in Tips
  /\ \A o \in Owners : loop[o].tip \in Tips

AttemptLeft(l) == l.pc \in {"hold", "execute"} => l.attempt < MaxAttempts

IInv == TypeOK /\ Capped /\ \A o \in Owners : AttemptLeft(loop[o])

CappedRow == {r \in Row : r.tip \in Tips}
CappedLoop == {l \in Loop : l.tip \in Tips}
Driver == [pc : {"warmup", "submit", "record", "retry", "drain", "exited"},
           bundle : Bundles, tip : Tips, p50 : {{}, {P50}},
           deadline : BOOLEAN, baseline : Nat]

Fits(l, ids) == (l.pc # "off" => l.row \in ids) /\ AttemptLeft(l)

(* The invariant by its parts, in the form the steps below establish it.   *)
Parts ==
  /\ rows \in Seq(CappedRow)
  /\ driver \in Driver
  /\ loop \in [Owners -> CappedLoop]
  /\ \A o \in Owners : Fits(loop[o], Ids)
  /\ queue \subseteq Ids
  /\ orphans \in [Bundles -> Nat] /\ timeouts \in Nat /\ faults \in Nat

LEMMA ByParts == Parts <=> IInv
<1>1. ASSUME Parts PROVE IInv
  <2>1. rows \in Seq(Row) /\ \A id \in Ids : rows[id].tip \in Tips
    BY <1>1 DEF Parts, CappedRow, Ids
  <2>2. loop \in [Owners -> Loop] /\ \A o \in Owners : loop[o].tip \in Tips
    BY <1>1 DEF Parts, CappedLoop
  <2>3. /\ driver \in [pc : {"warmup", "submit", "record", "retry", "drain", "exited"},
                       bundle : Bundles, tip : Nat, p50 : {{}, {P50}},
                       deadline : BOOLEAN, baseline : Nat]
        /\ driver.tip \in Tips
    BY <1>1, TipAssumption DEF Parts, Driver, Tips
  <2> QED BY <1>1, <2>1, <2>2, <2>3 DEF Parts, IInv, TypeOK, Capped, Fits
<1>2. ASSUME IInv PROVE Parts
  <2>1. rows \in Seq(CappedRow)
    BY <1>2 DEF IInv, TypeOK, Capped, CappedRow, Ids
  <2>2. loop \in [Owners -> CappedLoop]
    BY <1>2 DEF IInv, TypeOK, Capped, CappedLoop
  <2>3. driver \in Driver
    BY <1>2 DEF IInv, TypeOK, Capped, Driver
  <2> QED BY <1>2, <2>1, <2>2, <2>3 DEF IInv, TypeOK, Parts, Fits
<1> QED BY <1>1, <1>2

LEMMA OffSound == Off \in CappedLoop /\ \A ids : Fits(Off, ids)
<1>1. 0 \in Tips /\ 0 \in Nat /\ 1 \in 1 .. MaxAttempts
  BY TipAssumption, OrchestratorAssumption DEF Tips
<1>2. {"lost"} \in Evidence
  BY DEF Evidence, Unlanded
<1> QED BY <1>1, <1>2 DEF Off, CappedLoop, Loop, Fits, AttemptLeft

LEMMA InitSound == Init => Parts
<1> SUFFICES ASSUME Init PROVE Parts
  OBVIOUS
<1>1. rows \in Seq(CappedRow) /\ queue \subseteq Ids
  BY DEF Init
<1>2. driver \in Driver
  BY TipAssumption, OrchestratorAssumption DEF Init, Driver, Tips, Bundles
<1> QED BY <1>1, <1>2, OffSound DEF Init, Parts

(* What a step does to one row or one loop, and to the driver.             *)
LEMMA NewRowSound ==
  ASSUME NEW b \in Bundles, NEW from \in Nat, NEW tip \in Tips, NEW p50 \in {{}, {P50}},
         NEW accepted \in BOOLEAN
  PROVE  /\ NewRow(b, from, tip, p50, accepted) \in CappedRow
         /\ [NewRow(b, from, tip, p50, accepted) EXCEPT !.status = "Failed"] \in CappedRow
<1>1. tip \in Nat
  BY TipAssumption DEF Tips
<1>2. \A S : <<>> \in Seq(S)
  OBVIOUS
<1> QED BY <1>1, <1>2 DEF NewRow, CappedRow, Row, Open

LEMMA AppendSound ==
  ASSUME Parts, NEW r \in CappedRow, rows' = Append(rows, r)
  PROVE  /\ rows' \in Seq(CappedRow) /\ Ids \subseteq Ids' /\ Len(rows') \in Ids'
         /\ Len(rows') \in Nat
  BY DEF Parts, Ids

LEMMA StartedSound ==
  ASSUME NEW id \in Nat, NEW evidence \in Evidence, NEW tip \in Tips
  PROVE  /\ Started(id, evidence, tip) \in CappedLoop
         /\ \A ids : id \in ids => Fits(Started(id, evidence, tip), ids)
<1>1. tip \in Nat /\ 1 \in 1 .. MaxAttempts
  BY TipAssumption, OrchestratorAssumption DEF Tips
<1> QED BY <1>1 DEF Started, Off, CappedLoop, Loop, Fits, AttemptLeft

LEMMA DriverMoves ==
  ASSUME Parts
  PROVE  NextSubmission \in Driver /\ EndSubmissions \in Driver /\ NextRun \in Driver
<1>1. driver \in Driver /\ \A b \in Bundles : b # Count => b + 1 \in Bundles
  BY OrchestratorAssumption DEF Parts, Bundles
<1> QED BY <1>1 DEF NextSubmission, EndSubmissions, NextRun, Driver

LEMMA OrphanSound ==
  ASSUME Parts, NEW b \in Bundles, Orphan(b)
  PROVE  orphans' \in [Bundles -> Nat]
  BY DEF Parts, Orphan

LEMMA InjectSound ==
  ASSUME Parts, NEW kind, Inject(kind)
  PROVE  faults' \in Nat
  BY DEF Parts, Inject

(* A loop of one owner that is off, or on a row there is, is all the       *)
(* invariant asks of it.                                                   *)
LEMMA LoopSound ==
  ASSUME Parts, NEW o \in Owners, NEW l \in CappedLoop,
         loop' = [loop EXCEPT ![o] = l], Ids \subseteq Ids', Fits(l, Ids')
  PROVE  loop' \in [Owners -> CappedLoop] /\ \A p \in Owners : Fits(loop'[p], Ids')
<1>1. loop' \in [Owners -> CappedLoop]
  BY DEF Parts
<1>2. ASSUME NEW p \in Owners PROVE Fits(loop'[p], Ids')
  <2>1. CASE p = o
    BY <2>1 DEF Parts
  <2>2. CASE p # o
    <3>1. loop'[p] = loop[p] /\ Fits(loop[p], Ids)
      BY <2>2 DEF Parts
    <3> QED BY <3>1 DEF Fits
  <2> QED BY <2>1, <2>2
<1> QED BY <1>1, <1>2

LEMMA FinishSound ==
  ASSUME Parts, NEW o \in Owners, NEW ok \in BOOLEAN, Finish(o, ok), Ids \subseteq Ids'
  PROVE  /\ loop' \in [Owners -> CappedLoop] /\ driver' \in Driver
         /\ \A p \in Owners : Fits(loop'[p], Ids')
<1>1. loop' = [loop EXCEPT ![o] = Off]
  BY DEF Finish
<1>2. driver' \in Driver
  BY DriverMoves DEF Finish, Parts
<1> QED BY <1>1, <1>2, OffSound, LoopSound

-----------------------------------------------------------------------------
(* One lemma per group of actions.                                         *)
LEMMA SubmitStep == Parts /\ (Submit \/ RecordAccepted) => Parts'
<1> SUFFICES ASSUME Parts, Submit \/ RecordAccepted PROVE Parts'
  OBVIOUS
<1> USE DriverMoves
<1>1. CASE AwaitReady
  <2>1. driver' \in Driver
    BY <1>1 DEF AwaitReady, Parts, Driver
  <2> QED BY <1>1, <2>1 DEF AwaitReady, Parts, Ids
<1>2. CASE SkipWindow
  BY <1>2 DEF SkipWindow, Parts, Ids
<1>3. ASSUME NEW feed \in Feeds, Accept(feed) PROVE Parts'
  <2>1. driver' \in Driver
    BY <1>3, NormalTipCapped, KnownTyped DEF Accept, Parts, Driver
  <2> QED BY <1>3, <2>1 DEF Accept, Parts, Ids
<1>4. ASSUME NEW feed \in Feeds, NEW marks \in Rejections, Reject(feed, marks) PROVE Parts'
  <2> DEFINE tip == NormalTip(feed)
             row == NewRow(driver.bundle, 0, tip, Known(feed, P50), FALSE)
             failed == [row EXCEPT !.status = "Failed"]
  <2>1. /\ rows' = Append(rows, failed)
        /\ loop' = [loop EXCEPT !["driver"] = Started(Len(rows'), marks, row.tip)]
        /\ driver' = [driver EXCEPT !.pc = "retry"]
        /\ UNCHANGED <<queue, orphans, timeouts, faults>>
    BY <1>4 DEF Reject
  <2>2. tip \in Tips /\ Known(feed, P50) \in {{}, {P50}} /\ driver.bundle \in Bundles
    BY NormalTipCapped, KnownTyped DEF Parts, Driver
  <2>3. failed \in CappedRow /\ row.tip = tip
    BY <2>2, NewRowSound DEF NewRow
  <2>4. rows' \in Seq(CappedRow) /\ Ids \subseteq Ids' /\ Len(rows') \in Ids' /\ Len(rows') \in Nat
    BY <2>1, <2>3, AppendSound
  <2>5. marks \in Evidence
    BY OrchestratorAssumption DEF Evidence
  <2>6. /\ Started(Len(rows'), marks, tip) \in CappedLoop
        /\ Fits(Started(Len(rows'), marks, tip), Ids')
    BY <2>2, <2>4, <2>5, StartedSound
  <2>7. /\ loop' \in [Owners -> CappedLoop]
        /\ \A p \in Owners : Fits(loop'[p], Ids')
    BY <2>1, <2>3, <2>4, <2>6, LoopSound DEF Owners
  <2>8. driver' \in Driver
    BY <2>1 DEF Parts, Driver
  <2> QED BY <2>1, <2>4, <2>7, <2>8 DEF Parts
<1>5. CASE RecordAccepted
  <2>1. NewRow(driver.bundle, 0, driver.tip, driver.p50, TRUE) \in CappedRow
    BY NewRowSound DEF Parts, Driver
  <2>2. rows' \in Seq(CappedRow) /\ Ids \subseteq Ids'
    BY <1>5, <2>1, AppendSound DEF RecordAccepted
  <2>3. driver' \in Driver /\ UNCHANGED <<loop, queue, orphans, timeouts, faults>>
    BY <1>5 DEF RecordAccepted
  <2>4. \A o \in Owners : Fits(loop'[o], Ids')
    BY <2>2, <2>3 DEF Parts, Fits
  <2> QED BY <2>2, <2>3, <2>4 DEF Parts
<1> QED BY <1>1, <1>2, <1>3, <1>4, <1>5 DEF Submit

(* An entry more in the log of a row.                                      *)
LEMMA LoggedSound ==
  ASSUME Parts, NEW o \in Owners, Deciding(o), NEW agent \in {"llm", "baseline"},
         NEW terminal \in Terminals
  PROVE  Logged(o, agent, terminal) \in Seq(CappedRow)
         /\ DOMAIN Logged(o, agent, terminal) = Ids
<1> DEFINE id == loop[o].row
           entry == [attempt |-> loop[o].attempt + 1, agent |-> agent, terminal |-> terminal]
           Entry == [attempt : 2 .. MaxAttempts, agent : {"llm", "baseline"},
                     terminal : {"None", "Resubmit", "Abandon"}]
<1>1. id \in Ids /\ loop[o] \in Loop
  BY DEF Parts, Fits, Deciding, CappedLoop
<1>2. entry \in Entry
  BY <1>1, OrchestratorAssumption DEF Deciding, Exhausted, Loop, Terminals
<1>3. rows[id] \in CappedRow /\ rows[id].decided \in Seq(Entry)
  <2>1. rows[id] \in CappedRow
    BY <1>1 DEF Parts, Ids
  <2> QED BY <2>1 DEF CappedRow, Row
<1>4. Append(rows[id].decided, entry) \in Seq(Entry)
  BY <1>2, <1>3
<1>5. [rows[id] EXCEPT !.decided = Append(@, entry)] \in CappedRow
  BY <1>3, <1>4 DEF CappedRow, Row
<1>6. Logged(o, agent, terminal)
        = [rows EXCEPT ![id] = [rows[id] EXCEPT !.decided = Append(@, entry)]]
  BY DEF Logged
<1> QED BY <1>1, <1>5, <1>6 DEF Parts, Ids

LEMMA DecideStep ==
  ASSUME Parts, NEW o \in Owners, NEW agent \in {"llm", "baseline"},
         NEW actions \in Seq(Action), NEW feed, Decide(o, agent, actions, feed)
  PROVE  Parts'
<1> DEFINE plan == Plan(Clamped(actions), loop[o].tip)
           l == [loop[o] EXCEPT !.pc = IF plan.holds THEN "hold" ELSE "execute",
                                !.tip = plan.tip, !.p50 = Known(feed, P50),
                                !.terminal = plan.terminal]
<1>1. loop[o] \in CappedLoop /\ loop[o].row \in Ids /\ loop[o].attempt < MaxAttempts
  <2>1. Fits(loop[o], Ids) /\ loop[o] \in CappedLoop
    BY DEF Parts
  <2>2. loop[o].pc = "decide" /\ ~(loop[o].attempt >= MaxAttempts)
    BY DEF Decide, Deciding, Exhausted
  <2> QED BY <2>1, <2>2, OrchestratorAssumption DEF Fits, CappedLoop, Loop
<1>2. plan.tip \in Tips /\ plan.terminal \in Terminals
  BY <1>1, ClampedCapped, PlanSound DEF CappedLoop
<1>3. /\ Deciding(o) /\ rows' = Logged(o, agent, plan.terminal)
      /\ loop' = [loop EXCEPT ![o] = l]
      /\ UNCHANGED <<driver, queue, orphans, timeouts, faults>>
  BY DEF Decide
<1>4. rows' \in Seq(CappedRow) /\ Ids' = Ids
  BY <1>2, <1>3, LoggedSound DEF Ids
<1>5. l \in CappedLoop /\ l.row = loop[o].row /\ l.attempt = loop[o].attempt
  <2>1. Known(feed, P50) \in {{}, {P50}} /\ plan.tip \in Nat
    BY <1>2, KnownTyped, TipAssumption DEF Tips
  <2> HIDE DEF plan
  <2> QED BY <1>1, <1>2, <2>1 DEF CappedLoop, Loop, Terminals
<1>6. Fits(l, Ids')
  BY <1>1, <1>4, <1>5 DEF Fits, AttemptLeft
<1>7. loop' \in [Owners -> CappedLoop] /\ \A p \in Owners : Fits(loop'[p], Ids')
  <2> HIDE DEF l
  <2> QED BY <1>3, <1>4, <1>5, <1>6, LoopSound
<1> QED BY <1>3, <1>4, <1>7 DEF Parts

(* A step of one loop that leaves everything but that loop and the count   *)
(* of orphans as it was.                                                   *)
LEMMA OneLoopStep ==
  ASSUME Parts, NEW o \in Owners, NEW l \in CappedLoop, Fits(l, Ids),
         loop' = [loop EXCEPT ![o] = l], UNCHANGED <<rows, driver, queue, timeouts>>,
         orphans' \in [Bundles -> Nat], faults' \in Nat
  PROVE  Parts'
<1>1. Ids' = Ids
  BY DEF Ids
<1>2. loop' \in [Owners -> CappedLoop] /\ \A p \in Owners : Fits(loop'[p], Ids')
  BY <1>1, LoopSound
<1> QED BY <1>1, <1>2 DEF Parts

(* A loop ends, whatever happened to the orphans and the faults.           *)
LEMMA FinishStep ==
  ASSUME Parts, NEW o \in Owners, NEW ok \in BOOLEAN, Finish(o, ok),
         UNCHANGED <<queue, timeouts>>, rows' \in Seq(CappedRow), Ids \subseteq Ids',
         orphans' \in [Bundles -> Nat], faults' \in Nat
  PROVE  Parts'
<1>1. /\ loop' \in [Owners -> CappedLoop] /\ driver' \in Driver
      /\ \A p \in Owners : Fits(loop'[p], Ids')
  BY FinishSound
<1> QED BY <1>1 DEF Parts

(* A resubmission spends an attempt, which the loop had left.              *)
LEMMA SpendSound ==
  ASSUME NEW l \in CappedLoop, NEW ids, Fits(l, ids), l.pc = "execute",
         NEW pc \in {"record", "decide"}, NEW evidence \in Evidence
  PROVE  LET spent == [l EXCEPT !.pc = pc, !.attempt = @ + 1, !.evidence = evidence]
         IN  spent \in CappedLoop /\ Fits(spent, ids)
<1> DEFINE n == l.attempt + 1
           spent == [l EXCEPT !.pc = pc, !.attempt = n, !.evidence = evidence]
<1>1. l \in Loop /\ l.tip \in Tips /\ l.attempt \in 1 .. MaxAttempts
  BY DEF CappedLoop, Loop
<1>2. n \in 1 .. MaxAttempts
  BY <1>1, OrchestratorAssumption DEF Fits, AttemptLeft
<1>3. spent \in CappedLoop
  <2> HIDE DEF n
  <2> QED BY <1>1, <1>2 DEF CappedLoop, Loop
<1>4. spent.pc = pc /\ spent.row = l.row
  BY <1>1 DEF Loop
<1>5. Fits(spent, ids)
  <2> HIDE DEF spent
  <2> QED BY <1>4 DEF Fits, AttemptLeft
<1> QED BY <1>3, <1>5

LEMMA RetryStep == ASSUME NEW o \in Owners PROVE Parts /\ Retry(o) => Parts'
<1> SUFFICES ASSUME Parts, Retry(o) PROVE Parts'
  OBVIOUS
<1> DEFINE L == loop[o]
<1>0. /\ L \in CappedLoop /\ Fits(L, Ids) /\ rows \in Seq(CappedRow)
      /\ orphans \in [Bundles -> Nat] /\ faults \in Nat
  BY DEF Parts
<1>1. CASE GiveUp(o)
  BY <1>0, <1>1, FinishStep DEF GiveUp, Ids
<1>2. CASE HoldOver(o)
  <2> DEFINE l == [L EXCEPT !.pc = "execute"]
  <2>1. loop' = [loop EXCEPT ![o] = l] /\ L.pc = "hold"
        /\ UNCHANGED <<rows, driver, queue, orphans, timeouts, faults>>
    BY <1>2 DEF HoldOver
  <2>2. l \in CappedLoop /\ Fits(l, Ids)
    BY <1>0, <2>1 DEF CappedLoop, Loop, Fits, AttemptLeft
  <2> QED BY <1>0, <2>1, <2>2, OneLoopStep
<1>3. CASE GaveUp(o)
  BY <1>0, <1>3, FinishStep DEF GaveUp, Ids
<1>4. CASE RecordResubmission(o)
  <2> DEFINE r == NewRow(rows[L.row].bundle, L.row, L.tip, L.p50, TRUE)
  <2>1. /\ rows' = Append(rows, r) /\ Finish(o, TRUE) /\ L.pc = "record"
        /\ UNCHANGED <<queue, orphans, timeouts, faults>>
    BY <1>4 DEF RecordResubmission
  <2>2. L.row \in Ids /\ L.row \in Nat /\ L.tip \in Tips /\ L.p50 \in {{}, {P50}}
    BY <1>0, <2>1 DEF Fits, CappedLoop, Loop
  <2>3. rows[L.row].bundle \in Bundles
    BY <1>0, <2>2 DEF Ids, CappedRow, Row
  <2>4. r \in CappedRow
    BY <2>2, <2>3, NewRowSound
  <2>5. rows' \in Seq(CappedRow) /\ Ids \subseteq Ids'
    BY <2>1, <2>4, AppendSound
  <2> QED BY <1>0, <2>1, <2>5, FinishStep
<1>5. ASSUME NEW feed \in Feeds, LlmDecides(o, feed) PROVE Parts'
  BY <1>5, DecidedTyped, DecideStep DEF LlmDecides
<1>6. ASSUME NEW feed \in Feeds, BaselineDecides(o, feed) PROVE Parts'
  <2>1. L.tip \in Nat /\ Known(feed, P75) \in {{}, {P75}}
    BY <1>0, KnownTyped DEF CappedLoop, Loop
  <2>2. Baseline(Kind(L.evidence), L.attempt + 1, L.tip, Known(feed, P75)) \in Seq(Action)
    BY <2>1, BaselineTyped
  <2> QED BY <1>6, <2>2, DecideStep DEF BaselineDecides
<1>7. CASE ResubmissionAccepted(o)
  <2> DEFINE l == [L EXCEPT !.pc = "record", !.attempt = @ + 1]
             m == [L EXCEPT !.pc = "record", !.attempt = @ + 1, !.evidence = L.evidence]
  <2>1. loop' = [loop EXCEPT ![o] = l] /\ L.pc = "execute"
        /\ UNCHANGED <<rows, driver, queue, orphans, timeouts, faults>>
    BY <1>0, <1>7 DEF ResubmissionAccepted, Resubmits
  <2>2. L \in Loop /\ L.evidence \in Evidence
    BY <1>0 DEF CappedLoop, Loop
  <2>3. m \in CappedLoop /\ Fits(m, Ids)
    BY <1>0, <2>1, <2>2, SpendSound
  <2>4. l = m
    BY <2>2 DEF Loop
  <2> HIDE DEF l, m
  <2> QED BY <1>0, <2>1, <2>3, <2>4, OneLoopStep
<1>8. ASSUME NEW marks \in Rejections, ResubmissionRejected(o, marks) PROVE Parts'
  <2> DEFINE l == [L EXCEPT !.pc = "decide", !.attempt = @ + 1, !.evidence = marks]
  <2>1. loop' = [loop EXCEPT ![o] = l] /\ L.pc = "execute"
        /\ UNCHANGED <<rows, driver, queue, orphans, timeouts, faults>>
    BY <1>0, <1>8 DEF ResubmissionRejected, Resubmits
  <2>2. marks \in Evidence
    BY OrchestratorAssumption DEF Evidence
  <2>3. l \in CappedLoop /\ Fits(l, Ids)
    BY <1>0, <2>1, <2>2, SpendSound
  <2> HIDE DEF l
  <2> QED BY <1>0, <2>1, <2>3, OneLoopStep
<1> QED BY <1>1, <1>2, <1>3, <1>4, <1>5, <1>6, <1>7, <1>8 DEF Retry

(* The tracker moves a row on.                                             *)
LEMMA RowSettles ==
  ASSUME NEW r \in CappedRow
  PROVE  /\ [r EXCEPT !.status = "Failed"] \in CappedRow
         /\ \A to \in Open \cup {"Finalized", "Errored"}, landed, learned \in BOOLEAN :
              [r EXCEPT !.status = to, !.landed = landed, !.learned = learned] \in CappedRow
<1> DEFINE Status == Open \cup {"Finalized", "Failed", "Errored"}
           New(to, landed, learned) ==
             [r EXCEPT !.status = to, !.landed = landed, !.learned = learned]
<1>1. r \in Row /\ r.tip \in Tips
  BY DEF CappedRow
<1>2. [r EXCEPT !.status = "Failed"] \in CappedRow
  <2>1. [r EXCEPT !.status = "Failed"] \in Row /\ [r EXCEPT !.status = "Failed"].tip = r.tip
    BY <1>1 DEF Row
  <2> QED BY <1>1, <2>1 DEF CappedRow
<1>3. ASSUME NEW to \in Status, NEW landed \in BOOLEAN, NEW learned \in BOOLEAN
      PROVE  New(to, landed, learned) \in CappedRow
  <2> HIDE DEF Status
  <2>1. New(to, landed, learned) \in Row
    BY <1>1 DEF Row, Status
  <2>2. New(to, landed, learned).tip = r.tip
    BY <1>1 DEF Row
  <2> HIDE DEF New
  <2> QED BY <1>1, <2>1, <2>2 DEF CappedRow
<1> QED BY <1>2, <1>3

LEMMA SweeperStep ==
  Parts /\ ((\E ids \in SUBSET Ids : Sweep(ids)) \/ \E id \in queue : HandleTimedOut(id))
    => Parts'
<1> SUFFICES ASSUME Parts,
                    (\E ids \in SUBSET Ids : Sweep(ids)) \/ \E id \in queue : HandleTimedOut(id)
             PROVE  Parts'
  OBVIOUS
<1>1. ASSUME NEW ids \in SUBSET Ids, Sweep(ids) PROVE Parts'
  <2>1. Cardinality(ids) \in Nat
    <3>1. IsFiniteSet(Ids)
      BY FS_Interval DEF Parts, Ids
    <3> QED BY <3>1, FS_Subset, FS_CardinalityType
  <2>2. \A id \in Ids : /\ rows[id] \in CappedRow
                        /\ [rows[id] EXCEPT !.status = "Failed"] \in CappedRow
    <3>1. \A id \in Ids : rows[id] \in CappedRow
      BY DEF Parts, Ids
    <3> QED BY <3>1, RowSettles
  <2>3. rows' \in Seq(CappedRow) /\ Ids' = Ids
    <3>1. rows' = [id \in Ids |-> IF id \in ids THEN [rows[id] EXCEPT !.status = "Failed"]
                                 ELSE rows[id]]
      BY <1>1 DEF Sweep
    <3>2. Ids = 1 .. Len(rows) /\ Len(rows) \in Nat
      BY DEF Parts, Ids
    <3> QED BY <2>2, <3>1, <3>2 DEF Ids
  <2> QED BY <1>1, <2>1, <2>3 DEF Sweep, Parts
<1>2. ASSUME NEW id \in queue, HandleTimedOut(id) PROVE Parts'
  <2> DEFINE l == Started(id, NotLanding(id), rows[id].tip)
  <2>1. id \in Ids /\ id \in Nat /\ rows[id].tip \in Tips
    BY DEF Parts, Ids, CappedRow
  <2>2. NotLanding(id) \in Evidence
    BY DEF NotLanding, NeverLanded, Evidence, Unlanded
  <2>3. l \in CappedLoop /\ Fits(l, Ids)
    BY <2>1, <2>2, StartedSound
  <2>4. /\ loop' = [loop EXCEPT !["sweeper"] = l] /\ queue' \subseteq Ids /\ Ids' = Ids
        /\ UNCHANGED <<rows, driver, orphans, timeouts, faults>>
    BY <1>2 DEF HandleTimedOut, Parts, Ids
  <2>5. loop' \in [Owners -> CappedLoop] /\ \A p \in Owners : Fits(loop'[p], Ids')
    <3> HIDE DEF l
    <3> QED BY <2>3, <2>4, LoopSound DEF Owners
  <2> QED BY <2>4, <2>5 DEF Parts
<1> QED BY <1>1, <1>2

(* A row takes an outcome, which no failed row does.                       *)
Becomes(id, to, landed, learned) ==
  /\ rows' = [rows EXCEPT ![id] = [rows[id] EXCEPT !.status = to, !.landed = landed,
                                                   !.learned = learned]]
  /\ rows[id].status # "Failed"
  /\ UNCHANGED <<driver, loop, queue, orphans, timeouts, faults>>

LEMMA Advances ==
  ASSUME NEW id \in Ids, rows[id] \in Row, NEW from, NEW to, from # "Failed",
         Advance(id, from, to)
  PROVE  Becomes(id, to, rows[id].landed, to # "Errored")
<1>1. id \in DOMAIN rows
  BY DEF Ids
<1>2. [rows EXCEPT ![id].status = to, ![id].learned = to # "Errored"]
        = [rows EXCEPT ![id] = [rows[id] EXCEPT !.status = to, !.learned = to # "Errored"]]
  BY <1>1
<1>3. [rows[id] EXCEPT !.status = to, !.learned = to # "Errored"]
        = [rows[id] EXCEPT !.status = to, !.landed = rows[id].landed, !.learned = to # "Errored"]
  BY DEF Row
<1> QED BY <1>2, <1>3 DEF Advance, Becomes

(* Whatever comes of a bundle at the cluster, one row takes its outcome; a *)
(* landing the tracker learns of settles the row.                          *)
LEMMA OutcomeTells ==
  ASSUME Parts, NEW id \in Ids, Outcome(id)
  PROVE  \E to \in Open \cup {"Finalized", "Errored"}, landed, learned \in BOOLEAN :
           /\ Becomes(id, to, landed, learned)
           /\ learned => \/ to \in {"Processed", "Finalized"}
                         \/ rows[id].learned /\ to = rows[id].status
<1>0. rows[id] \in Row
  BY DEF Parts, Ids, CappedRow
<1>1. CASE Lands(id)
  <2>1. id \in DOMAIN rows /\ rows[id].learned \in BOOLEAN
    BY <1>0 DEF Ids, Row
  <2>2. [rows EXCEPT ![id].landed = TRUE] = [rows EXCEPT ![id] = [rows[id] EXCEPT !.landed = TRUE]]
    BY <2>1
  <2>3. [rows[id] EXCEPT !.landed = TRUE]
          = [rows[id] EXCEPT !.status = rows[id].status, !.landed = TRUE,
                             !.learned = rows[id].learned]
    BY <1>0 DEF Row
  <2>4. Becomes(id, rows[id].status, TRUE, rows[id].learned) /\ rows[id].status \in Open
    BY <1>1, <2>2, <2>3 DEF Lands, Becomes, Open
  <2> QED BY <2>1, <2>4
<1>2. CASE Learns(id) \/ Finalizes(id) \/ ErrorsOnChain(id)
  <2>1. PICK from \in {"Submitted", "Processed"}, to \in {"Processed", "Finalized", "Errored"} :
           Advance(id, from, to)
    BY <1>2 DEF Learns, Finalizes, ErrorsOnChain
  <2>2. Becomes(id, to, rows[id].landed, to # "Errored")
    BY <1>0, <2>1, Advances
  <2>3. rows[id].landed \in BOOLEAN /\ (to # "Errored") \in BOOLEAN
    BY <1>0 DEF Row
  <2> QED BY <2>2, <2>3 DEF Open
<1> QED BY <1>1, <1>2 DEF Outcome

LEMMA OutcomeStep ==
  Parts /\ (Drain \/ \E id \in Ids : Outcome(id)) => Parts'
<1> SUFFICES ASSUME Parts,
                    Drain \/ \E id \in Ids : Outcome(id)
             PROVE  Parts'
  OBVIOUS
<1>1. CASE Drain
  <2>1. driver' \in Driver
    BY <1>1 DEF Drain, Drained, DrainTimesOut, Exit, Parts, Driver
  <2> QED BY <1>1, <2>1 DEF Drain, Drained, DrainTimesOut, Parts, Ids
<1>2. ASSUME NEW id \in Ids, Outcome(id) PROVE Parts'
  <2>0. PICK to \in Open \cup {"Finalized", "Errored"}, landed \in BOOLEAN, learned \in BOOLEAN :
           Becomes(id, to, landed, learned)
    BY <1>2, OutcomeTells
  <2>1. /\ rows' = [rows EXCEPT ![id] = [rows[id] EXCEPT !.status = to, !.landed = landed,
                                                         !.learned = learned]]
        /\ UNCHANGED <<driver, loop, queue, orphans, timeouts, faults>>
    BY <2>0 DEF Becomes
  <2>2. [rows[id] EXCEPT !.status = to, !.landed = landed, !.learned = learned] \in CappedRow
    <3>1. rows[id] \in CappedRow
      BY DEF Parts, Ids
    <3> QED BY <3>1, RowSettles
  <2>3. rows' \in Seq(CappedRow) /\ Ids' = Ids
    BY <2>1, <2>2 DEF Parts, Ids
  <2> QED BY <2>1, <2>3 DEF Parts
<1> QED BY <1>1, <1>2

(* The faults: a refusal's, the crash, a retry loop's, and the rest.       *)
LEMMA SubmitFaultStep ==
  ASSUME Parts, NEW feed \in Feeds,
         RejectUnrecorded(feed) \/ ReplyLost(feed)
  PROVE  Parts'
<1> DEFINE tip == NormalTip(feed)
           row == NewRow(driver.bundle, 0, tip, Known(feed, P50), FALSE)
           failed == [row EXCEPT !.status = "Failed"]
<1>1. tip \in Tips /\ Known(feed, P50) \in {{}, {P50}} /\ driver.bundle \in Bundles
  BY NormalTipCapped, KnownTyped DEF Parts, Driver
<1>2. row \in CappedRow /\ failed \in CappedRow /\ row.tip = tip
  BY <1>1, NewRowSound DEF NewRow
<1>3. CASE RejectUnrecorded(feed)
  <2>1. rows' \in {rows, Append(rows, row)} /\ driver' = EndSubmissions
        /\ UNCHANGED <<loop, queue, orphans, timeouts>> /\ faults' \in Nat
    BY <1>3, InjectSound DEF RejectUnrecorded
  <2>2. rows' \in Seq(CappedRow) /\ Ids \subseteq Ids'
    <3>1. CASE rows' = rows
      BY <3>1 DEF Parts, Ids
    <3>2. CASE rows' = Append(rows, row)
      BY <1>2, <3>2, AppendSound
    <3> QED BY <2>1, <3>1, <3>2
  <2>3. \A o \in Owners : Fits(loop'[o], Ids')
    BY <2>1, <2>2 DEF Parts, Fits
  <2> QED BY <2>1, <2>2, <2>3, DriverMoves DEF Parts
<1>4. CASE ReplyLost(feed)
  <2>1. /\ rows' = Append(rows, failed)
        /\ loop' = [loop EXCEPT !["driver"] = Started(Len(rows'), {"transport"}, row.tip)]
        /\ driver' = [driver EXCEPT !.pc = "retry"]
        /\ Orphan(driver.bundle) /\ Inject("reply") /\ UNCHANGED <<queue, timeouts>>
    BY <1>4 DEF ReplyLost
  <2>2. rows' \in Seq(CappedRow) /\ Ids \subseteq Ids' /\ Len(rows') \in Ids' /\ Len(rows') \in Nat
    BY <1>2, <2>1, AppendSound
  <2>3. {"transport"} \in Evidence
    BY DEF Evidence, Patterns
  <2>4. /\ Started(Len(rows'), {"transport"}, tip) \in CappedLoop
        /\ Fits(Started(Len(rows'), {"transport"}, tip), Ids')
    BY <1>1, <2>2, <2>3, StartedSound
  <2>5. /\ loop' \in [Owners -> CappedLoop]
        /\ \A p \in Owners : Fits(loop'[p], Ids')
    BY <1>2, <2>1, <2>2, <2>4, LoopSound DEF Owners
  <2>6. driver' \in Driver
    BY <2>1 DEF Parts, Driver
  <2>7. orphans' \in [Bundles -> Nat] /\ faults' \in Nat
    BY <1>1, <2>1, OrphanSound, InjectSound
  <2> QED BY <2>1, <2>2, <2>5, <2>6, <2>7 DEF Parts
<1> QED BY <1>3, <1>4

LEMMA CrashStep == Parts /\ Crash => Parts'
<1> SUFFICES ASSUME Parts, Crash PROVE Parts'
  OBVIOUS
<1>1. ASSUME NEW b \in Bundles PROVE AwaitingInsert(b) \in Nat
  <2> DEFINE S == {o \in Owners : loop[o].pc = "record" /\ rows[loop[o].row].bundle = b}
  <2>1. IsFiniteSet(Owners)
    <3>1. Owners = {"driver"} \cup {"sweeper"}
      BY DEF Owners
    <3> QED BY <3>1, FS_Singleton, FS_Union
  <2>2. Cardinality(S) \in Nat
    BY <2>1, FS_Subset, FS_CardinalityType
  <2> HIDE DEF S
  <2>3. (IF driver.pc = "record" /\ driver.bundle = b THEN 1 ELSE 0) \in Nat
    OBVIOUS
  <2> QED BY <2>2, <2>3 DEF AwaitingInsert, S
<1>2. orphans' \in [Bundles -> Nat]
  <2>1. orphans' = [b \in Bundles |-> orphans[b] + AwaitingInsert(b)]
        /\ orphans \in [Bundles -> Nat]
    BY DEF Crash, Parts
  <2> QED BY <1>1, <2>1
<1>3. loop' = [o \in Owners |-> Off] /\ queue' = {} /\ UNCHANGED <<rows, timeouts>>
      /\ faults' \in Nat
  BY InjectSound DEF Crash
<1>4. driver' \in Driver
  <2>1. NextRun \in Driver /\ Len(rows) \in Nat
    BY DriverMoves DEF Parts
  <2>2. driver' = [NextRun EXCEPT !.baseline = Len(rows)]
    BY DEF Crash
  <2> QED BY <2>1, <2>2 DEF Driver
<1> QED BY <1>2, <1>3, <1>4, OffSound DEF Parts, Ids

LEMMA LoopFaultStep ==
  ASSUME Parts, NEW o \in Owners,
         DecideFails(o) \/ ResubmissionReplyLost(o) \/ RecordResubmissionFails(o)
  PROVE  Parts'
<1> DEFINE L == loop[o]
<1>1. /\ L \in CappedLoop /\ Fits(L, Ids) /\ rows \in Seq(CappedRow)
      /\ orphans \in [Bundles -> Nat] /\ faults \in Nat
  BY DEF Parts
<1>2. ASSUME L.pc # "off" PROVE rows[L.row].bundle \in Bundles
  <2>1. rows[L.row] \in CappedRow
    BY <1>1, <1>2 DEF Fits, Ids
  <2> QED BY <2>1 DEF CappedRow, Row
<1>3. CASE DecideFails(o)
  <2>1. /\ Deciding(o) /\ Finish(o, FALSE) /\ UNCHANGED <<queue, orphans, timeouts>>
        /\ rows' \in {rows} \cup {Logged(o, "llm", Plan(Clamped(actions), 0).terminal) :
                                  actions \in Decided}
        /\ faults' \in Nat
    BY <1>3, InjectSound DEF DecideFails
  <2>2. ASSUME NEW actions \in Decided
        PROVE  /\ Logged(o, "llm", Plan(Clamped(actions), 0).terminal) \in Seq(CappedRow)
               /\ DOMAIN Logged(o, "llm", Plan(Clamped(actions), 0).terminal) = Ids
    <3>1. 0 \in Tips /\ actions \in Seq(Action)
      BY TipAssumption, DecidedTyped DEF Tips
    <3>2. Plan(Clamped(actions), 0).terminal \in Terminals
      BY <3>1, ClampedCapped, PlanSound
    <3> QED BY <2>1, <3>2, LoggedSound
  <2>3. rows' \in Seq(CappedRow) /\ Ids \subseteq Ids'
    BY <1>1, <2>1, <2>2 DEF Ids
  <2> QED BY <1>1, <2>1, <2>3, FinishStep
<1>4. CASE ResubmissionReplyLost(o)
  <2> DEFINE l == [L EXCEPT !.pc = "decide", !.attempt = @ + 1, !.evidence = {"transport"}]
  <2>1. loop' = [loop EXCEPT ![o] = l] /\ L.pc = "execute"
        /\ UNCHANGED <<rows, driver, queue, timeouts>>
    BY <1>1, <1>4 DEF ResubmissionReplyLost, Resubmits
  <2>2. {"transport"} \in Evidence
    BY DEF Evidence, Patterns
  <2>3. l \in CappedLoop /\ Fits(l, Ids)
    BY <1>1, <2>1, <2>2, SpendSound
  <2>4. orphans' \in [Bundles -> Nat] /\ faults' \in Nat
    BY <1>2, <1>4, <2>1, OrphanSound, InjectSound DEF ResubmissionReplyLost
  <2> HIDE DEF l
  <2> QED BY <2>1, <2>3, <2>4, OneLoopStep
<1>5. CASE RecordResubmissionFails(o)
  <2>1. /\ L.pc = "record" /\ Finish(o, FALSE) /\ UNCHANGED <<rows, queue, timeouts>>
        /\ Orphan(rows[L.row].bundle) /\ Inject("db")
    BY <1>5 DEF RecordResubmissionFails
  <2>2. orphans' \in [Bundles -> Nat] /\ faults' \in Nat
    BY <1>2, <2>1, OrphanSound, InjectSound
  <2> QED BY <1>1, <2>1, <2>2, FinishStep DEF Ids
<1> QED BY <1>3, <1>4, <1>5

LEMMA FaultStep == Parts /\ Fault => Parts'
<1> SUFFICES ASSUME Parts, Fault PROVE Parts'
  OBVIOUS
<1>1. CASE RecordAcceptedFails
  <2>1. driver' \in Driver /\ orphans' \in [Bundles -> Nat] /\ faults' \in Nat
    <3>1. driver.bundle \in Bundles
      BY DEF Parts, Driver
    <3> QED BY <1>1, <3>1, DriverMoves, OrphanSound, InjectSound DEF RecordAcceptedFails
  <2> QED BY <1>1, <2>1 DEF RecordAcceptedFails, Parts, Ids
<1>2. CASE DrainQueryFails
  <2>1. driver' \in Driver /\ faults' \in Nat
    BY <1>2, InjectSound DEF DrainQueryFails, Exit, Parts, Driver
  <2> QED BY <1>2, <2>1 DEF DrainQueryFails, Parts, Ids
<1>3. ASSUME NEW id \in queue, HandleFails(id) PROVE Parts'
  BY <1>3, InjectSound DEF HandleFails, Parts, Ids
<1> QED BY <1>1, <1>2, <1>3, SubmitFaultStep, LoopFaultStep, CrashStep DEF Fault

-----------------------------------------------------------------------------
LEMMA Inductive == IInv /\ [Next]_vars => IInv'
<1> SUFFICES ASSUME Parts, [Next]_vars PROVE Parts'
  <2>1. Parts' <=> IInv'
    BY ByParts, PTL
  <2> QED BY <2>1, ByParts
<1>1. CASE UNCHANGED vars
  BY <1>1 DEF vars, Parts, Ids
<1>2. CASE Next
  BY <1>2, SubmitStep, RetryStep, FaultStep, SweeperStep, OutcomeStep DEF Next
<1> QED BY <1>1, <1>2

LEMMA Invariance == Spec => []IInv
<1>1. Init => IInv
  BY InitSound, ByParts
<1> QED BY <1>1, Inductive, PTL DEF Spec

(* Whatever the model replies and whichever fault strikes, rows, loops and *)
(* driver keep their types; in particular no decision is ever logged for   *)
(* an attempt beyond max_attempts, and whatever is queued for the sweeper  *)
(* or being retried is a row there is.                                     *)
THEOREM TypeCorrect == Spec => []TypeOK
<1>1. IInv => TypeOK
  BY DEF IInv
<1> QED BY <1>1, Invariance, PTL

(* No row ever offers a tip above Config::max_tip_lamports: neither the    *)
(* first submission's policy, nor a decision of the model, nor the         *)
(* baseline's doubling escapes the cap, however many retries follow each   *)
(* other.                                                                  *)
THEOREM TipsNeverExceedCap == Spec => []TipsAreCapped
<1>1. IInv => TipsAreCapped
  BY TipAssumption DEF IInv, Capped, TipsAreCapped, Tips
<1> QED BY <1>1, Invariance, PTL
-----------------------------------------------------------------------------
(* What moves the tip of a retry. A loop that waits to decide is touched   *)
(* by its own decision only, as the driver starts a loop only when it has  *)
(* none: that takes one more invariant.                                    *)
DriverLoop == loop["driver"].pc # "off" => driver.pc = "retry"

(* A step leaves the loop of p alone, ends it, or finds it past deciding.  *)
Undisturbed(p) == loop'[p] = loop[p] \/ loop'[p].pc = "off" \/ loop[p].pc # "decide"

LEMMA FinishTells ==
  ASSUME Parts, NEW o \in Owners, NEW ok \in BOOLEAN, Finish(o, ok), DriverLoop
  PROVE  DriverLoop' /\ \A p \in Owners : Undisturbed(p)
<1>1. loop' = [loop EXCEPT ![o] = Off] /\ loop \in [Owners -> CappedLoop] /\ Off.pc = "off"
  BY DEF Finish, Parts, Off
<1>2. \A p \in Owners : loop'[p] = IF p = o THEN Off ELSE loop[p]
  BY <1>1
<1>3. DriverLoop'
  BY <1>1, <1>2 DEF DriverLoop, Finish, Owners
<1> QED BY <1>1, <1>2, <1>3 DEF Undisturbed

(* A step of a loop that is on, and past deciding.                         *)
LEMMA LoopTells ==
  ASSUME Parts, DriverLoop, NEW o \in Owners, NEW l, loop' = [loop EXCEPT ![o] = l],
         loop[o].pc # "off", driver' = driver
  PROVE  DriverLoop' /\ (loop[o].pc # "decide" => \A p \in Owners : Undisturbed(p))
<1>1. \A p \in Owners : loop'[p] = IF p = o THEN l ELSE loop[p]
  BY DEF Parts
<1> QED BY <1>1 DEF DriverLoop, Undisturbed, Owners

LEMMA RetryTells ==
  ASSUME Parts, DriverLoop, NEW o \in Owners,
         Retry(o) \/ DecideFails(o) \/ ResubmissionReplyLost(o) \/ RecordResubmissionFails(o)
  PROVE  /\ DriverLoop'
         /\ \/ \A p \in Owners : Undisturbed(p)
            \/ \E feed \in Feeds : LlmDecides(o, feed) \/ BaselineDecides(o, feed)
<1>1. CASE \E ok \in BOOLEAN : Finish(o, ok)
  BY <1>1, FinishTells
<1>2. CASE HoldOver(o) \/ ResubmissionAccepted(o) \/ ResubmissionReplyLost(o)
           \/ \E marks \in Rejections : ResubmissionRejected(o, marks)
  <2>1. /\ loop[o].pc \in {"hold", "execute"} /\ driver' = driver
        /\ \E l : loop' = [loop EXCEPT ![o] = l]
    BY <1>2 DEF HoldOver, ResubmissionAccepted, ResubmissionReplyLost,
                ResubmissionRejected, Resubmits
  <2> QED BY <2>1, LoopTells
<1>3. ASSUME NEW feed \in Feeds, LlmDecides(o, feed) \/ BaselineDecides(o, feed)
      PROVE  DriverLoop'
  <2>1. /\ loop[o].pc = "decide" /\ driver' = driver
        /\ \E l : loop' = [loop EXCEPT ![o] = l]
    BY <1>3 DEF LlmDecides, BaselineDecides, Decide, Deciding
  <2> QED BY <2>1, LoopTells
<1> QED BY <1>1, <1>2, <1>3 DEF Retry, GiveUp, GaveUp, RecordResubmission, DecideFails,
                                RecordResubmissionFails

(* The loop a step starts was off before.                                  *)
LEMMA StartTells ==
  ASSUME Parts, DriverLoop, NEW o \in Owners, loop[o].pc = "off", NEW l,
         loop' = [loop EXCEPT ![o] = l],
         IF o = "driver" THEN driver'.pc = "retry" ELSE driver' = driver
  PROVE  DriverLoop' /\ \A p \in Owners : Undisturbed(p)
<1>1. \A p \in Owners : loop'[p] = IF p = o THEN l ELSE loop[p]
  BY DEF Parts
<1> QED BY <1>1 DEF DriverLoop, Undisturbed, Owners

LEMMA IdleTells ==
  ASSUME Parts, DriverLoop, loop' = loop,
         driver' = driver \/ driver.pc # "retry"
  PROVE  DriverLoop' /\ \A p \in Owners : Undisturbed(p)
  BY DEF DriverLoop, Undisturbed

LEMMA DriverTells ==
  ASSUME Parts, DriverLoop,
         \/ Submit \/ RecordAccepted \/ Drain \/ RecordAcceptedFails \/ DrainQueryFails \/ Crash
         \/ \E feed \in Feeds : RejectUnrecorded(feed) \/ ReplyLost(feed)
  PROVE  DriverLoop' /\ \A p \in Owners : Undisturbed(p)
<1>1. CASE \/ AwaitReady \/ SkipWindow \/ RecordAccepted \/ Drain
           \/ RecordAcceptedFails \/ DrainQueryFails
           \/ \E feed \in Feeds : Accept(feed) \/ RejectUnrecorded(feed)
  <2>1. loop' = loop /\ driver.pc # "retry"
    BY <1>1 DEF AwaitReady, SkipWindow, RecordAccepted, Drain, Drained, DrainTimesOut,
                RecordAcceptedFails, DrainQueryFails, Accept, RejectUnrecorded
  <2> QED BY <2>1, IdleTells
<1>2. ASSUME NEW feed \in Feeds, ReplyLost(feed) \/ \E marks \in Rejections : Reject(feed, marks)
      PROVE  DriverLoop' /\ \A p \in Owners : Undisturbed(p)
  <2>1. driver.pc = "submit" /\ driver' = [driver EXCEPT !.pc = "retry"]
        /\ \E l : loop' = [loop EXCEPT !["driver"] = l]
    BY <1>2 DEF ReplyLost, Reject
  <2>2. loop["driver"].pc = "off" /\ driver'.pc = "retry" /\ "driver" \in Owners
    BY <2>1 DEF DriverLoop, Parts, Driver, Owners
  <2> QED BY <2>1, <2>2, StartTells
<1>3. CASE Crash
  <2>1. \A p \in Owners : loop'[p].pc = "off"
    BY <1>3 DEF Crash, Off
  <2> QED BY <2>1 DEF DriverLoop, Undisturbed, Owners
<1> QED BY <1>1, <1>2, <1>3 DEF Submit

LEMMA OthersTell ==
  ASSUME Parts, DriverLoop,
         \/ \E ids \in SUBSET Ids : Sweep(ids)
         \/ \E id \in queue : HandleTimedOut(id) \/ HandleFails(id)
         \/ \E id \in Ids : Outcome(id)
  PROVE  DriverLoop' /\ \A p \in Owners : Undisturbed(p)
<1>1. CASE \E id \in queue : HandleTimedOut(id)
  <2>1. PICK id \in queue : HandleTimedOut(id)
    BY <1>1
  <2> DEFINE l == Started(id, NotLanding(id), rows[id].tip)
  <2>2. loop["sweeper"] = Off /\ driver' = driver /\ loop' = [loop EXCEPT !["sweeper"] = l]
    BY <2>1 DEF HandleTimedOut
  <2>3. loop["sweeper"].pc = "off" /\ "sweeper" \in Owners
    BY <2>2 DEF Off, Owners
  <2> HIDE DEF l
  <2> QED BY <2>2, <2>3, StartTells
<1>2. CASE \/ \E ids \in SUBSET Ids : Sweep(ids)
           \/ \E id \in queue : HandleFails(id)
           \/ \E id \in Ids : Outcome(id)
  <2>1. loop' = loop /\ driver' = driver
    BY <1>2 DEF Sweep, HandleFails, Outcome, Lands, Learns, Finalizes, ErrorsOnChain, Advance
  <2> QED BY <2>1, IdleTells
<1> QED BY <1>1, <1>2

LEMMA NextTells ==
  ASSUME Parts, DriverLoop, [Next]_vars
  PROVE  /\ DriverLoop'
         /\ \/ \A p \in Owners : Undisturbed(p)
            \/ \E o \in Owners, feed \in Feeds : LlmDecides(o, feed) \/ BaselineDecides(o, feed)
<1>1. CASE UNCHANGED vars
  BY <1>1, IdleTells DEF vars
<1>2. CASE Next
  BY <1>2, DriverTells, OthersTell, RetryTells DEF Next, Fault
<1> QED BY <1>1, <1>2

(* Of what the baseline decides, only the answer to an outbid bundle has a *)
(* tip in it: the transport patterns come first in a rejection, and no     *)
(* on-chain error and no other way of not landing is priced.               *)
LEMMA OnlyOutbidIsPriced ==
  ASSUME NEW evidence \in Evidence, ~Outbid(evidence), NEW attempt, NEW tip, NEW p75,
         NEW i \in DOMAIN Baseline(Kind(evidence), attempt, tip, p75)
  PROVE  Baseline(Kind(evidence), attempt, tip, p75)[i].type # "SetTip"
<1>1. Kind(evidence) # "FeeTooLow"
  <2>1. CASE evidence \subseteq Patterns
    BY <2>1 DEF Kind, RejectionKind, Outbid
  <2>2. CASE evidence \in OnChain
    BY <2>2 DEF Kind, OnChain, OnChainKind, RejectionKind, Outbid
  <2>3. CASE evidence \in Unlanded
    BY <2>3 DEF Kind, Unlanded, Outbid, RejectionKind, OnChainKind, OnChain, Patterns
  <2> QED BY <2>1, <2>2, <2>3 DEF Evidence
<1> QED BY <1>1 DEF Baseline, Abandon, Hold, Resubmit, Refresh

LEMMA UnpricedPlanKeepsTip ==
  ASSUME NEW actions \in Seq(Action), NEW tip,
         \A i \in DOMAIN actions : actions[i].type # "SetTip"
  PROVE  Plan(Clamped(actions), tip).tip = tip
<1> DEFINE c == Clamped(actions)
<1>1. DOMAIN c = DOMAIN actions /\ \A i \in DOMAIN c : c[i] = actions[i]
  BY DEF Clamped
<1> DEFINE Typed(t) == {i \in DOMAIN c : c[i].type = t}
           ends == Typed("Resubmit") \cup Typed("Abandon")
           reached == {i \in DOMAIN c : \A j \in ends : i <= j}
           tips == Typed("SetTip") \cap reached
           last == {i \in tips : \A j \in tips : j <= i}
<1>2. Plan(c, tip).tip = IF last = {} THEN tip ELSE c[CHOOSE i \in last : TRUE].lamports
  BY DEF Plan
<1>3. last = {}
  BY <1>1
<1> HIDE DEF last
<1> QED BY <1>2, <1>3

(* What a decision does to the loops and to the log.                       *)
LEMMA DecideTells ==
  ASSUME Parts, NEW o \in Owners, NEW agent \in {"llm", "baseline"},
         NEW actions \in Seq(Action), NEW feed, Decide(o, agent, actions, feed)
  PROVE  /\ \A p \in Owners \ {o} : loop'[p] = loop[p]
         /\ loop'[o].tip = Plan(Clamped(actions), loop[o].tip).tip
         /\ LastDecision(loop[o].row)'.agent = agent
<1> DEFINE plan == Plan(Clamped(actions), loop[o].tip)
           id == loop[o].row
           entry == [attempt |-> loop[o].attempt + 1, agent |-> agent, terminal |-> plan.terminal]
<1>1. loop[o] \in CappedLoop /\ id \in Ids /\ rows[id] \in CappedRow
  BY DEF Parts, Decide, Deciding, Fits, Ids
<1>2. loop' = [loop EXCEPT ![o] =
                 [@ EXCEPT !.pc = IF plan.holds THEN "hold" ELSE "execute",
                           !.tip = plan.tip, !.p50 = Known(feed, P50),
                           !.terminal = plan.terminal]]
      /\ rows' = Logged(o, agent, plan.terminal)
  BY DEF Decide
<1>3. loop'[o].tip = plan.tip /\ loop'[o].row = id /\ \A p \in Owners \ {o} : loop'[p] = loop[p]
  <2> HIDE DEF plan
  <2> QED BY <1>1, <1>2 DEF Parts, CappedLoop, Loop
<1>4. rows'[id].decided = Append(rows[id].decided, entry)
  <2> HIDE DEF plan
  <2> QED BY <1>1, <1>2 DEF Logged, Ids, CappedRow, Row
<1>5. LastDecision(id)' = entry
  <2>1. rows[id].decided \in Seq([attempt : 2 .. MaxAttempts, agent : {"llm", "baseline"},
                                  terminal : {"None", "Resubmit", "Abandon"}])
    BY <1>1 DEF CappedRow, Row
  <2> DEFINE log == rows[id].decided
  <2>2. Append(log, entry)[Len(Append(log, entry))] = entry
    <3>1. \E S : log \in Seq(S)
      BY <2>1
    <3> HIDE DEF entry, log
    <3>2. Len(Append(log, entry)) = Len(log) + 1 /\ Append(log, entry)[Len(log) + 1] = entry
      BY <3>1
    <3> QED BY <3>2
  <2>3. LastDecision(id)' = rows'[id'].decided[Len(rows'[id'].decided)]
    BY DEF LastDecision
  <2> QED BY <1>3, <1>4, <2>2, <2>3
<1> QED BY <1>3, <1>5

(* The baseline pays more only for having been outbid, for every market,   *)
(* every refusal and every failure: a tip moves while a loop decides only  *)
(* if the model moved it or the evidence says the tip was too low.         *)
THEOREM RaisedOnlyWhenOutbid == Spec => BaselineRaisesOnlyWhenOutbid
<1>1. Init => DriverLoop
  BY DEF Init, DriverLoop, Off, Owners
<1>2. IInv /\ DriverLoop /\ [Next]_vars => DriverLoop'
  BY NextTells, ByParts
<1>3. IInv /\ DriverLoop /\ [Next]_vars =>
        [\A o \in Owners :
           loop[o].pc = "decide" /\ loop'[o].pc # "off" /\ loop'[o].tip # loop[o].tip
             => Outbid(loop[o].evidence) \/ LastDecision(loop[o].row)'.agent = "llm"]_vars
  <2> SUFFICES ASSUME Parts, DriverLoop, [Next]_vars, NEW p \in Owners,
                      loop[p].pc = "decide", loop'[p].pc # "off",
                      loop'[p].tip # loop[p].tip, ~Outbid(loop[p].evidence)
               PROVE  LastDecision(loop[p].row)'.agent = "llm"
    BY ByParts
  <2>1. ~Undisturbed(p)
    BY DEF Undisturbed
  <2>2. PICK o \in Owners, feed \in Feeds : LlmDecides(o, feed) \/ BaselineDecides(o, feed)
    BY <2>1, NextTells
  <2>3. CASE LlmDecides(o, feed)
    <3>1. PICK actions \in Seq(Action) : Decide(o, "llm", actions, feed)
      BY <2>3, DecidedTyped DEF LlmDecides
    <3>2. p = o
      BY <2>1, <3>1, DecideTells DEF Undisturbed
    <3> QED BY <3>1, <3>2, DecideTells
  <2>4. CASE BaselineDecides(o, feed)
    <3> DEFINE actions == Baseline(Kind(loop[o].evidence), loop[o].attempt + 1,
                                   loop[o].tip, Known(feed, P75))
    <3>1. Decide(o, "baseline", actions, feed)
      BY <2>4 DEF BaselineDecides
    <3>2. loop[o].tip \in Nat /\ loop[o].evidence \in Evidence
      BY DEF Parts, CappedLoop, Loop
    <3>3. actions \in Seq(Action)
      BY <3>2, KnownTyped, BaselineTyped
    <3> HIDE DEF actions
    <3>4. p = o /\ loop'[o].tip = Plan(Clamped(actions), loop[o].tip).tip
      BY <2>1, <3>1, <3>3, DecideTells DEF Undisturbed
    <3>5. \A i \in DOMAIN actions : actions[i].type # "SetTip"
      BY <3>2, <3>4, OnlyOutbidIsPriced DEF actions
    <3> QED BY <3>3, <3>4, <3>5, UnpricedPlanKeepsTip
  <2> QED BY <2>2, <2>3, <2>4
<1> QED BY <1>1, <1>2, <1>3, Invariance, PTL DEF Spec, BaselineRaisesOnlyWhenOutbid

-----------------------------------------------------------------------------
(* The driver's way through a run. It is in its retry loop exactly while   *)
(* that loop is on, and each of its steps that is not lost takes it to a   *)
(* later bundle, to a later phase of the bundle it is at, or to a later    *)
(* point of its loop.                                                      *)
DriverAtLoop == driver.pc = "retry" <=> loop["driver"].pc # "off"

Phases == [warmup |-> 0, submit |-> 1, record |-> 2, retry |-> 3, drain |-> 4, exited |-> 5]

LoopGoesOn(l, m) ==
  \/ m.attempt > l.attempt
  \/ m.attempt = l.attempt /\ LoopStages[m.pc] > LoopStages[l.pc]

Stays == driver'.bundle = driver.bundle /\ driver'.pc = driver.pc
         /\ loop'["driver"].pc = loop["driver"].pc

Moves ==
  \/ driver'.bundle > driver.bundle
  \/ /\ driver'.bundle = driver.bundle
     /\ \/ Phases[driver'.pc] > Phases[driver.pc]
        \/ /\ driver.pc = "retry" /\ driver'.pc = "retry"
           /\ LoopGoesOn(loop["driver"], loop'["driver"])

(* What the stage is worth in each phase.                                  *)
Staged ==
  /\ DriverStage \in 0 .. LastStage
  /\ driver.pc = "warmup" => DriverStage = 0
  /\ driver.pc = "submit" => DriverStage = 1
  /\ driver.pc = "record" => DriverStage = 2
  /\ driver.pc = "retry" =>
       /\ DriverStage = 4 * loop["driver"].attempt + LoopStages[loop["driver"].pc]
       /\ DriverStage \in 4 .. LastStage - 2
  /\ driver.pc = "drain" => DriverStage = LastStage - 1
  /\ driver.pc = "exited" => DriverStage = LastStage

LEMMA StagedSound == Parts /\ DriverAtLoop => Staged
<1> SUFFICES ASSUME Parts, DriverAtLoop PROVE Staged
  OBVIOUS
<1>1. /\ driver.pc \in {"warmup", "submit", "record", "retry", "drain", "exited"}
      /\ loop["driver"].attempt \in 1 .. MaxAttempts
      /\ loop["driver"].pc \in {"off", "decide", "hold", "execute", "record"}
  BY DEF Parts, Driver, CappedLoop, Loop, Owners
<1>2. LastStage = 4 * MaxAttempts + 5 /\ MaxAttempts \in Nat \ {0}
  BY OrchestratorAssumption DEF LastStage
<1>3. CASE driver.pc = "retry"
  <2> DEFINE n == loop["driver"].attempt
             k == LoopStages[loop["driver"].pc]
  <2>1. k \in 0 .. 3
    BY <1>1, <1>3 DEF DriverAtLoop, LoopStages
  <2>2. DriverStage = 4 * n + k
    BY <1>3 DEF DriverStage
  <2>3. n \in 1 .. MaxAttempts
    BY <1>1
  <2> HIDE DEF n, k
  <2>4. 4 * n + k \in 4 .. LastStage - 2 /\ 4 * n + k \in 0 .. LastStage
    BY <1>2, <2>1, <2>3
  <2>5. DriverStage \in 0 .. LastStage /\ DriverStage \in 4 .. LastStage - 2
    BY <2>2, <2>4
  <2> QED BY <1>3, <2>2, <2>5 DEF Staged, n, k
<1>4. CASE driver.pc # "retry"
  <2>1. /\ driver.pc = "warmup" => DriverStage = 0
        /\ driver.pc = "submit" => DriverStage = 1
        /\ driver.pc = "record" => DriverStage = 2
        /\ driver.pc = "drain" => DriverStage = LastStage - 1
        /\ driver.pc = "exited" => DriverStage = LastStage
    BY DEF DriverStage
  <2>2. DriverStage \in 0 .. LastStage
    BY <1>1, <1>2, <1>4, <2>1
  <2> QED BY <1>4, <2>1, <2>2 DEF Staged
<1> QED BY <1>3, <1>4

LEMMA MovesGoOn ==
  ASSUME Parts, Parts', DriverAtLoop, DriverAtLoop', Staged, Staged', Moves
  PROVE  \/ driver'.bundle > driver.bundle
         \/ driver'.bundle = driver.bundle /\ DriverStage' > DriverStage
<1>1. /\ driver.pc \in {"warmup", "submit", "record", "retry", "drain", "exited"}
      /\ driver'.pc \in {"warmup", "submit", "record", "retry", "drain", "exited"}
      /\ loop["driver"] \in Loop /\ loop'["driver"] \in Loop
  <2>1. driver \in Driver /\ driver' \in Driver
    BY DEF Parts
  <2>2. loop \in [Owners -> CappedLoop] /\ loop' \in [Owners -> CappedLoop]
    BY DEF Parts
  <2>3. loop["driver"] \in CappedLoop /\ loop'["driver"] \in CappedLoop
    BY <2>2 DEF Owners
  <2> QED BY <2>1, <2>3 DEF Driver, CappedLoop
<1>2. LastStage \in Nat /\ LastStage > 8
  BY OrchestratorAssumption DEF LastStage
<1>3. ASSUME Phases[driver'.pc] > Phases[driver.pc] PROVE DriverStage' > DriverStage
  <2>1. \/ driver.pc = "warmup" /\ driver'.pc \in {"submit", "record", "retry", "drain", "exited"}
        \/ driver.pc = "submit" /\ driver'.pc \in {"record", "retry", "drain", "exited"}
        \/ driver.pc = "record" /\ driver'.pc \in {"retry", "drain", "exited"}
        \/ driver.pc = "retry" /\ driver'.pc \in {"drain", "exited"}
        \/ driver.pc = "drain" /\ driver'.pc = "exited"
    BY <1>1, <1>3 DEF Phases
  <2>2. /\ driver.pc = "warmup" => DriverStage = 0
        /\ driver.pc = "submit" => DriverStage = 1
        /\ driver.pc = "record" => DriverStage = 2
        /\ driver.pc = "retry" => DriverStage \in 4 .. LastStage - 2
        /\ driver.pc = "drain" => DriverStage = LastStage - 1
    BY DEF Staged
  <2>3. /\ driver'.pc = "submit" => DriverStage' = 1
        /\ driver'.pc = "record" => DriverStage' = 2
        /\ driver'.pc = "retry" => DriverStage' \in 4 .. LastStage - 2
        /\ driver'.pc = "drain" => DriverStage' = LastStage - 1
        /\ driver'.pc = "exited" => DriverStage' = LastStage
    BY DEF Staged, LastStage
  <2> QED BY <1>2, <2>1, <2>2, <2>3
<1>4. ASSUME driver.pc = "retry", driver'.pc = "retry",
             LoopGoesOn(loop["driver"], loop'["driver"])
      PROVE  DriverStage' > DriverStage
  <2> DEFINE n == loop["driver"].attempt
             m == loop'["driver"].attempt
             k == LoopStages[loop["driver"].pc]
             j == LoopStages[loop'["driver"].pc]
  <2>1. DriverStage = 4 * n + k /\ DriverStage' = 4 * m + j
    BY <1>4 DEF Staged
  <2>2. n \in Nat /\ m \in Nat /\ k \in 0 .. 3 /\ j \in 0 .. 3
    <3>1. n \in Nat /\ m \in Nat
      BY <1>1 DEF Loop
    <3>2. /\ loop["driver"].pc \in {"decide", "hold", "execute", "record"}
          /\ loop'["driver"].pc \in {"decide", "hold", "execute", "record"}
      BY <1>1, <1>4 DEF Loop, DriverAtLoop
    <3> QED BY <3>1, <3>2 DEF LoopStages
  <2>3. m > n \/ (m = n /\ j > k)
    BY <1>4 DEF LoopGoesOn
  <2> HIDE DEF n, m, k, j
  <2> QED BY <2>1, <2>2, <2>3
<1> QED BY <1>3, <1>4 DEF Moves

GoesOn == DriverAtLoop' /\ (Stays \/ Moves)

LEMMA UntouchedGoesOn ==
  ASSUME DriverAtLoop, driver' = driver, loop'["driver"] = loop["driver"]
  PROVE  GoesOn
  BY DEF DriverAtLoop, Stays, GoesOn

LEMMA FinishGoesOn ==
  ASSUME Parts, DriverAtLoop, NEW o \in Owners, loop[o].pc # "off", NEW ok \in BOOLEAN,
         Finish(o, ok)
  PROVE  GoesOn
<1>1. \A p \in Owners : loop'[p] = IF p = o THEN Off ELSE loop[p]
  BY DEF Finish, Parts
<1>2. CASE o = "sweeper"
  BY <1>1, <1>2, UntouchedGoesOn DEF Finish, Owners
<1>3. CASE o = "driver"
  <2>1. loop'["driver"].pc = "off" /\ driver.pc = "retry"
    BY <1>1, <1>3 DEF Off, DriverAtLoop
  <2>2. driver' = NextSubmission \/ driver' = EndSubmissions
    BY <1>3 DEF Finish
  <2>3. driver \in Driver /\ driver.bundle \in Nat
    BY DEF Parts, Driver, Bundles
  <2>4. \/ driver'.bundle = driver.bundle + 1 /\ driver'.pc = "submit"
        \/ driver'.bundle = driver.bundle /\ driver'.pc = "drain"
    BY <2>2, <2>3 DEF NextSubmission, EndSubmissions, Driver
  <2>5. DriverAtLoop'
    BY <2>1, <2>4 DEF DriverAtLoop
  <2>6. Moves
    BY <2>1, <2>3, <2>4 DEF Moves, Phases
  <2> QED BY <2>5, <2>6 DEF GoesOn
<1> QED BY <1>2, <1>3 DEF Owners

LEMMA LoopStepGoesOn ==
  ASSUME Parts, DriverAtLoop, NEW o \in Owners, loop[o].pc # "off", driver' = driver,
         NEW l, loop' = [loop EXCEPT ![o] = l], l.pc # "off", LoopGoesOn(loop[o], l)
  PROVE  GoesOn
<1>1. \A p \in Owners : loop'[p] = IF p = o THEN l ELSE loop[p]
  BY DEF Parts
<1>2. CASE o = "sweeper"
  BY <1>1, <1>2, UntouchedGoesOn DEF Owners
<1>3. CASE o = "driver"
  <2>1. loop'["driver"] = l /\ driver.pc = "retry"
    BY <1>1, <1>3 DEF DriverAtLoop
  <2>2. DriverAtLoop' /\ Moves
    BY <1>3, <2>1 DEF DriverAtLoop, Moves
  <2> QED BY <2>2 DEF GoesOn
<1> QED BY <1>2, <1>3 DEF Owners

LEMMA RetryGoesOn ==
  ASSUME Parts, DriverAtLoop, NEW o \in Owners,
         Retry(o) \/ DecideFails(o) \/ ResubmissionReplyLost(o) \/ RecordResubmissionFails(o)
  PROVE  GoesOn
<1> DEFINE L == loop[o]
<1>0. L \in Loop /\ L.attempt \in Nat
  BY DEF Parts, CappedLoop, Loop
<1>1. CASE GiveUp(o) \/ GaveUp(o) \/ RecordResubmission(o) \/ DecideFails(o)
           \/ RecordResubmissionFails(o)
  <2>1. L.pc # "off" /\ \E ok \in BOOLEAN : Finish(o, ok)
    BY <1>1 DEF GiveUp, GaveUp, RecordResubmission, DecideFails, Deciding,
                RecordResubmissionFails
  <2> QED BY <2>1, FinishGoesOn
<1>2. CASE HoldOver(o)
  <2> DEFINE l == [L EXCEPT !.pc = "execute"]
  <2>1. L.pc = "hold" /\ driver' = driver /\ loop' = [loop EXCEPT ![o] = l]
    BY <1>2 DEF HoldOver
  <2>2. l.pc = "execute" /\ l.attempt = L.attempt
    BY <1>0 DEF Loop
  <2> HIDE DEF l
  <2>3. LoopGoesOn(L, l)
    BY <2>1, <2>2 DEF LoopGoesOn, LoopStages
  <2> QED BY <2>1, <2>2, <2>3, LoopStepGoesOn
<1>3. ASSUME NEW pc \in {"record", "decide"}, NEW evidence, L.pc = "execute", driver' = driver,
             loop' = [loop EXCEPT ![o] = [L EXCEPT !.pc = pc, !.attempt = L.attempt + 1,
                                                   !.evidence = evidence]]
      PROVE  GoesOn
  <2> DEFINE l == [L EXCEPT !.pc = pc, !.attempt = L.attempt + 1, !.evidence = evidence]
  <2>1. l.pc = pc /\ l.attempt = L.attempt + 1
    BY <1>0 DEF Loop
  <2>2. loop' = [loop EXCEPT ![o] = l]
    BY <1>3
  <2> HIDE DEF l
  <2>3. LoopGoesOn(L, l)
    BY <1>0, <2>1 DEF LoopGoesOn
  <2> QED BY <1>3, <2>1, <2>2, <2>3, LoopStepGoesOn
<1>4. CASE ResubmissionAccepted(o)
  <2> DEFINE l == [L EXCEPT !.pc = "record", !.attempt = L.attempt + 1]
  <2>1. L.pc = "execute" /\ driver' = driver /\ loop' = [loop EXCEPT ![o] = l]
    BY <1>4 DEF ResubmissionAccepted, Resubmits
  <2>2. l = [L EXCEPT !.pc = "record", !.attempt = L.attempt + 1, !.evidence = L.evidence]
    BY <1>0 DEF Loop
  <2> HIDE DEF l
  <2> QED BY <1>3, <2>1, <2>2
<1>5. CASE ResubmissionReplyLost(o) \/ \E marks \in Rejections : ResubmissionRejected(o, marks)
  <2>1. PICK evidence :
           /\ L.pc = "execute" /\ driver' = driver
           /\ loop' = [loop EXCEPT ![o] = [L EXCEPT !.pc = "decide", !.attempt = L.attempt + 1,
                                                    !.evidence = evidence]]
    BY <1>5 DEF ResubmissionReplyLost, ResubmissionRejected, Resubmits
  <2> QED BY <1>3, <2>1
<1>6. ASSUME NEW feed, NEW agent, NEW actions, Decide(o, agent, actions, feed)
      PROVE  GoesOn
  <2> DEFINE plan == Plan(Clamped(actions), L.tip)
             l == [L EXCEPT !.pc = IF plan.holds THEN "hold" ELSE "execute",
                            !.tip = plan.tip, !.p50 = Known(feed, P50),
                            !.terminal = plan.terminal]
  <2>1. L.pc = "decide" /\ driver' = driver /\ loop' = [loop EXCEPT ![o] = l]
    BY <1>6 DEF Decide, Deciding
  <2> HIDE DEF plan
  <2>2. l.pc \in {"hold", "execute"} /\ l.attempt = L.attempt
    BY <1>0 DEF Loop
  <2> HIDE DEF l
  <2>3. LoopGoesOn(L, l)
    BY <2>1, <2>2 DEF LoopGoesOn, LoopStages
  <2> QED BY <2>1, <2>2, <2>3, LoopStepGoesOn
<1>7. CASE \E feed \in Feeds : LlmDecides(o, feed) \/ BaselineDecides(o, feed)
  BY <1>6, <1>7 DEF LlmDecides, BaselineDecides
<1> QED BY <1>1, <1>2, <1>4, <1>5, <1>7 DEF Retry

LEMMA SubmissionGoesOn ==
  ASSUME Parts, DriverAtLoop,
         \/ Submit \/ RecordAccepted \/ Drain \/ RecordAcceptedFails \/ DrainQueryFails \/ Crash
         \/ \E feed \in Feeds : RejectUnrecorded(feed) \/ ReplyLost(feed)
  PROVE  GoesOn
<1>0. driver \in Driver /\ driver.bundle \in Nat
  BY DEF Parts, Driver, Bundles
<1>1. ASSUME loop' = loop, driver.pc # "retry", driver'.pc # "retry",
             \/ driver'.bundle = driver.bundle + 1
             \/ driver'.bundle = driver.bundle /\ Phases[driver'.pc] > Phases[driver.pc]
      PROVE  GoesOn
  <2>1. DriverAtLoop'
    BY <1>1 DEF DriverAtLoop
  <2>2. Moves
    BY <1>0, <1>1 DEF Moves
  <2> QED BY <2>1, <2>2 DEF GoesOn
<1>2. CASE AwaitReady \/ \E feed \in Feeds : Accept(feed) \/ RejectUnrecorded(feed)
  <2>1. /\ loop' = loop /\ driver'.bundle = driver.bundle
        /\ \/ driver.pc = "warmup" /\ driver'.pc \in {"submit", "drain"}
           \/ driver.pc = "submit" /\ driver'.pc \in {"record", "drain"}
    BY <1>0, <1>2 DEF AwaitReady, Accept, RejectUnrecorded, EndSubmissions, Driver
  <2> QED BY <1>1, <2>1 DEF Phases
<1>3. CASE SkipWindow \/ RecordAccepted \/ RecordAcceptedFails
  <2>1. /\ loop' = loop /\ driver.pc \in {"submit", "record"}
        /\ driver' = NextSubmission \/ driver' = EndSubmissions
    BY <1>3 DEF SkipWindow, RecordAccepted, RecordAcceptedFails
  <2>2. \/ driver'.bundle = driver.bundle + 1 /\ driver'.pc = "submit"
        \/ driver'.bundle = driver.bundle /\ driver'.pc = "drain"
    BY <1>0, <2>1 DEF NextSubmission, EndSubmissions, Driver
  <2> QED BY <1>1, <2>1, <2>2 DEF Phases
<1>4. CASE Drain \/ DrainQueryFails
  <2>1. /\ loop' = loop /\ driver.pc = "drain"
        /\ driver'.pc = "exited" /\ driver'.bundle = driver.bundle
    BY <1>0, <1>4 DEF Drain, Drained, DrainTimesOut, DrainQueryFails, Exit, Driver
  <2> QED BY <1>1, <2>1 DEF Phases
<1>5. ASSUME NEW feed \in Feeds, ReplyLost(feed) \/ \E marks \in Rejections : Reject(feed, marks)
      PROVE  GoesOn
  <2>1. PICK l : /\ driver.pc = "submit" /\ driver' = [driver EXCEPT !.pc = "retry"]
                 /\ loop' = [loop EXCEPT !["driver"] = l] /\ l.pc = "decide"
    <3> DEFINE row == NewRow(driver.bundle, 0, NormalTip(feed), Known(feed, P50), FALSE)
    <3>1. PICK evidence :
             /\ driver.pc = "submit" /\ driver' = [driver EXCEPT !.pc = "retry"]
             /\ loop' = [loop EXCEPT !["driver"] = Started(Len(rows'), evidence, row.tip)]
      BY <1>5 DEF ReplyLost, Reject
    <3>2. Started(Len(rows'), evidence, row.tip).pc = "decide"
      BY DEF Started, Off
    <3> QED BY <3>1, <3>2
  <2>2. driver'.pc = "retry" /\ driver'.bundle = driver.bundle
    BY <1>0, <2>1 DEF Driver
  <2>3. loop'["driver"].pc = "decide"
    BY <2>1 DEF Parts, Owners
  <2>4. DriverAtLoop' /\ Moves
    BY <2>1, <2>2, <2>3 DEF DriverAtLoop, Moves, Phases
  <2> QED BY <2>4 DEF GoesOn
<1>6. CASE Crash
  <2>1. driver' = [NextRun EXCEPT !.baseline = Len(rows)] /\ loop'["driver"].pc = "off"
    BY <1>6 DEF Crash, Off, Owners
  <2>2. driver.pc \in {"warmup", "submit", "record", "retry", "drain"}
    BY <1>0, <1>6 DEF Crash, Running, Driver
  <2>3. \/ /\ driver.pc \in {"warmup", "drain"}
           /\ driver'.bundle = driver.bundle /\ driver'.pc = driver.pc
        \/ driver'.bundle = driver.bundle + 1 /\ driver'.pc = "warmup"
        \/ /\ driver.pc \in {"submit", "record", "retry"}
           /\ driver'.bundle = driver.bundle /\ driver'.pc = "drain"
    BY <1>0, <2>1, <2>2 DEF NextRun, EndSubmissions, Driver
  <2>4. DriverAtLoop'
    BY <2>1, <2>3 DEF DriverAtLoop
  <2>5. CASE driver.pc \in {"warmup", "drain"} /\ driver'.bundle = driver.bundle
             /\ driver'.pc = driver.pc
    <3>1. loop["driver"].pc = "off"
      BY <2>5 DEF DriverAtLoop
    <3> QED BY <2>1, <2>4, <2>5, <3>1 DEF Stays, GoesOn
  <2>6. CASE \/ driver'.bundle = driver.bundle + 1
             \/ /\ driver.pc \in {"submit", "record", "retry"}
                /\ driver'.bundle = driver.bundle /\ driver'.pc = "drain"
    <3>1. Moves
      BY <1>0, <2>6 DEF Moves, Phases
    <3> QED BY <2>4, <3>1 DEF GoesOn
  <2> QED BY <2>3, <2>5, <2>6
<1> QED BY <1>2, <1>3, <1>4, <1>5, <1>6 DEF Submit

LEMMA OthersGoOn ==
  ASSUME Parts, DriverAtLoop,
         \/ \E ids \in SUBSET Ids : Sweep(ids)
         \/ \E id \in queue : HandleTimedOut(id) \/ HandleFails(id)
         \/ \E id \in Ids : Outcome(id)
  PROVE  GoesOn
<1>1. driver' = driver
  BY DEF Sweep, HandleTimedOut, HandleFails, Outcome, Lands, Learns, Finalizes, ErrorsOnChain, Advance
<1>2. loop' = loop \/ \E l : loop' = [loop EXCEPT !["sweeper"] = l]
  BY DEF Sweep, HandleTimedOut, HandleFails, Outcome, Lands, Learns, Finalizes, ErrorsOnChain, Advance
<1>3. loop'["driver"] = loop["driver"]
  BY <1>2 DEF Parts, Owners
<1> QED BY <1>1, <1>3, UntouchedGoesOn

LEMMA StepGoesOn == Parts /\ DriverAtLoop /\ [Next]_vars => GoesOn
<1> SUFFICES ASSUME Parts, DriverAtLoop, [Next]_vars PROVE GoesOn
  OBVIOUS
<1>1. CASE UNCHANGED vars
  BY <1>1, UntouchedGoesOn DEF vars
<1>2. CASE Next
  BY <1>2, SubmissionGoesOn, RetryGoesOn, OthersGoOn DEF Next, Fault
<1> QED BY <1>1, <1>2

(* The run only goes on, for every number of bundles, attempts, timeouts   *)
(* and faults: each step of the driver that changes where it is takes it   *)
(* further, and within a bundle there are only so many stages to pass. It  *)
(* is the half of RunEnds that does not depend on the scheduler.           *)
THEOREM RunOnlyGoesOn == Spec => DriverGoesOn /\ [](DriverStage \in 0 .. LastStage)
<1>1. Init => DriverAtLoop
  BY DEF Init, DriverAtLoop, Off, Owners
<1>2. IInv /\ DriverAtLoop /\ [Next]_vars => DriverAtLoop' /\ (Stays \/ Moves)
  BY StepGoesOn, ByParts DEF GoesOn
<1>3. IInv /\ DriverAtLoop => Parts /\ Staged
  BY ByParts, StagedSound
<1>4. /\ Parts /\ DriverAtLoop /\ Staged /\ (Parts /\ DriverAtLoop /\ Staged)'
      /\ (Stays \/ Moves)
      => [\/ UNCHANGED <<driver.bundle, driver.pc, loop["driver"].pc>>
          \/ driver'.bundle > driver.bundle
          \/ driver'.bundle = driver.bundle /\ DriverStage' > DriverStage]_vars
  BY MovesGoOn DEF Stays
<1>5. Staged => DriverStage \in 0 .. LastStage
  BY DEF Staged
<1> QED BY <1>1, <1>2, <1>3, <1>4, <1>5, Invariance, PTL DEF Spec, DriverGoesOn
=============================================================================
