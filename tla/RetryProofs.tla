---------------------------- MODULE RetryProofs ----------------------------
(***************************************************************************)
(* Proofs about what the retries of Orchestrator leave behind: the audit   *)
(* trail of every retry, that no failure is dropped, and that a bundle     *)
(* lands at most once, for every number of bundles, attempts, timeouts and *)
(* faults.                                                                 *)
(***************************************************************************)
EXTENDS OrchestratorProofs

-----------------------------------------------------------------------------
(* The invariant. A decision is logged before it is executed and a retry   *)
(* recorded after, so the trail is right at rest only because of what      *)
(* holds in between: how far the log of a row has got is how far the loop  *)
(* that holds the row has, and whoever holds a row (a loop, or the queue)  *)
(* holds it alone, and before anyone retried it.                           *)
On(o) == loop[o].pc # "off"
Unretried(id) == \A k \in Ids : rows[k].from # id
StaysUnretried(id) == \A k \in Ids' : rows'[k].from # id  \* of an id of either state

LogSound(log) ==
  /\ Len(log) < MaxAttempts
  /\ \A i \in DOMAIN log : log[i].attempt = i + 1
  /\ \A i \in DOMAIN log : log[i].terminal = "Abandon" => i = Len(log)

NoAbandon(log) == \A i \in DOMAIN log : log[i].terminal # "Abandon"

Progress(l, log) ==
  /\ l.pc \in {"hold", "execute"} => /\ Len(log) = l.attempt
                                     /\ log[Len(log)].terminal = l.terminal
  /\ l.pc \in {"decide", "record"} => Len(log) = l.attempt - 1 /\ NoAbandon(log)
  /\ l.pc = "record" => log # <<>>

RowsExplained ==
  \A id \in Ids : /\ LogSound(rows[id].decided)
                  /\ rows[id].status # "Failed" => rows[id].decided = <<>>

Retryable(r) ==
  r.status = "Failed" /\ r.decided # <<>> /\ r.decided[Len(r.decided)].terminal # "Abandon"

RetriesExplained ==
  \A id \in Ids : rows[id].from # 0 =>
    /\ rows[id].from \in Ids /\ Retryable(rows[rows[id].from])
    /\ \A k \in Ids \ {id} : rows[k].from # rows[id].from

LoopsHold ==
  \A o \in Owners : On(o) =>
    /\ rows[loop[o].row].status = "Failed" /\ Unretried(loop[o].row)
    /\ loop[o].row \notin queue
    /\ Progress(loop[o], rows[loop[o].row].decided)

QueueHolds ==
  \A id \in queue : rows[id].status = "Failed" /\ rows[id].decided = <<>> /\ Unretried(id)

HeldOnce == On("driver") /\ On("sweeper") => loop["driver"].row # loop["sweeper"].row

Trail == RowsExplained /\ RetriesExplained /\ LoopsHold /\ QueueHolds /\ HeldOnce

LEMMA Typed ==
  ASSUME Parts
  PROVE  /\ Ids = 1 .. Len(rows) /\ Len(rows) \in Nat /\ queue \subseteq Ids
         /\ \A id \in Ids : /\ rows[id].status \in Open \cup {"Finalized", "Failed", "Errored"}
                            /\ rows[id].from \in Nat /\ rows[id].bundle \in Bundles
                            /\ rows[id].decided \in Seq([attempt : 2 .. MaxAttempts,
                                                         agent : {"llm", "baseline"},
                                                         terminal : Terminals])
         /\ \A o \in Owners : /\ On(o) => loop[o].row \in Ids
                              /\ loop[o].attempt \in 1 .. MaxAttempts
                              /\ loop[o].terminal \in Terminals
                              /\ loop[o] \in CappedLoop
<1>1. Ids = 1 .. Len(rows) /\ Len(rows) \in Nat
  BY DEF Parts, Ids
<1>2. \A id \in Ids : rows[id] \in Row
  BY DEF Parts, Ids, CappedRow
<1>3. \A o \in Owners : loop[o] \in CappedLoop /\ loop[o] \in Loop /\ Fits(loop[o], Ids)
  BY DEF Parts, CappedLoop
<1> QED BY <1>1, <1>2, <1>3 DEF Row, Loop, Fits, On, Terminals, Parts

-----------------------------------------------------------------------------
(* The steps that leave the rows alone: a loop that was on may go on with  *)
(* its row or end, and rows may leave the queue.                           *)
Carries(o) ==
  \/ loop'[o] = loop[o] \/ loop'[o].pc = "off"
  \/ /\ On(o) /\ loop'[o].row = loop[o].row
     /\ Progress(loop'[o], rows[loop[o].row].decided)

LEMMA CarriesOn ==
  ASSUME Parts, Trail, rows' = rows, queue' \subseteq queue, \A o \in Owners : Carries(o)
  PROVE  Trail'
<1>1. Ids' = Ids /\ \A id : Unretried(id)' <=> Unretried(id)
  BY DEF Ids, Unretried
<1>2. RowsExplained' /\ RetriesExplained'
  BY <1>1 DEF Trail, RowsExplained, RetriesExplained
<1>3. QueueHolds'
  BY <1>1 DEF Trail, QueueHolds
<1>4. ASSUME NEW o \in Owners, On(o)'
      PROVE  On(o) /\ loop'[o].row = loop[o].row
             /\ Progress(loop'[o], rows[loop[o].row].decided)
  BY <1>4 DEF Carries, On, Trail, LoopsHold
<1>5. LoopsHold'
  BY <1>1, <1>4 DEF Trail, LoopsHold
<1>6. HeldOnce'
  BY <1>4 DEF Trail, HeldOnce, Owners
<1> QED BY <1>2, <1>3, <1>5, <1>6 DEF Trail

(* A row is appended: one without decisions, that retries none or the row  *)
(* of the loop that ends with it; a loop may be started on it.             *)
LEMMA Appends ==
  ASSUME Parts, Trail, NEW r, rows' = Append(rows, r), r.decided = <<>>, queue' = queue,
         NEW o \in Owners, NEW l, loop' = [loop EXCEPT ![o] = l],
         \/ r.from = 0 /\ l = loop[o]
         \/ r.from = 0 /\ r.status = "Failed" /\ l.row = Len(rows') /\ l.pc = "decide"
            /\ l.attempt = 1
         \/ l.pc = "off" /\ On(o) /\ r.from = loop[o].row /\ Retryable(rows[r.from])
  PROVE  Trail'
<1> DEFINE new == Len(rows) + 1
<1>1. /\ Ids' = Ids \cup {new} /\ new \notin Ids /\ Len(rows') = new /\ 0 \notin Ids
      /\ rows'[new] = r /\ \A id \in Ids : rows'[id] = rows[id]
  <2>1. rows \in Seq(CappedRow)
    BY DEF Parts
  <2> QED BY <2>1 DEF Ids
<1> HIDE DEF new
<1>2. \A p \in Owners : loop'[p] = IF p = o THEN l ELSE loop[p]
  BY DEF Parts
<1>3. ASSUME NEW id \in Ids, Unretried(id), r.from # id PROVE StaysUnretried(id)
  BY <1>1, <1>3 DEF Unretried, StaysUnretried
<1>4. r.from # 0 => r.from \in Ids /\ Unretried(r.from) /\ r.from \notin queue
  BY Typed DEF Trail, LoopsHold
<1>5. RowsExplained'
  <2>1. LogSound(<<>>)
    BY OrchestratorAssumption DEF LogSound
  <2>2. ASSUME NEW id \in Ids'
        PROVE  /\ LogSound(rows'[id].decided)
               /\ rows'[id].status # "Failed" => rows'[id].decided = <<>>
    BY <1>1, <2>1 DEF Trail, RowsExplained
  <2> QED BY <2>2 DEF RowsExplained, LogSound
<1>6. RetriesExplained'
  <2>1. ASSUME NEW id \in Ids', rows'[id].from # 0
        PROVE  /\ rows'[id].from \in Ids' /\ Retryable(rows'[rows'[id].from])
               /\ \A k \in Ids' \ {id} : rows'[k].from # rows'[id].from
    <3>1. CASE id = new
      <4>1. r.from # 0 /\ Retryable(rows[r.from]) /\ r.from \in Ids /\ Unretried(r.from)
        BY <1>1, <1>4, <2>1, <3>1
      <4> QED BY <1>1, <3>1, <4>1 DEF Unretried
    <3>2. CASE id \in Ids
      <4>1. rows[id].from # 0 /\ rows'[id] = rows[id]
        BY <1>1, <2>1, <3>2
      <4>2. /\ rows[id].from \in Ids /\ Retryable(rows[rows[id].from])
            /\ \A k \in Ids \ {id} : rows[k].from # rows[id].from
        BY <3>2, <4>1 DEF Trail, RetriesExplained
      <4>3. r.from # rows[id].from
        BY <1>4, <3>2, <4>1 DEF Unretried
      <4> QED BY <1>1, <4>1, <4>2, <4>3
    <3> QED BY <1>1, <3>1, <3>2
  <2> QED BY <2>1 DEF RetriesExplained, Retryable
<1>7. QueueHolds'
  <2>1. ASSUME NEW id \in queue
        PROVE  rows'[id].status = "Failed" /\ rows'[id].decided = <<>> /\ StaysUnretried(id)
    BY <1>1, <1>3, <1>4, Typed DEF Trail, QueueHolds
  <2> QED BY <2>1 DEF QueueHolds, Unretried, StaysUnretried
<1>8. ASSUME NEW p \in Owners, On(p)', ~(p = o /\ l.row = new)
      PROVE  On(p) /\ loop'[p] = loop[p] /\ loop[p].row \in Ids /\ r.from # loop[p].row
  <2>1. On(p) /\ loop'[p] = loop[p]
    BY <1>1, <1>2, <1>8 DEF On
  <2>2. r.from # 0 => p # o
    BY <1>2, <1>8 DEF On
  <2>3. loop[p].row \in Ids
    BY <2>1, Typed
  <2>4. r.from # 0 => r.from # loop[p].row
    <3>1. On(p) /\ On(o) /\ p # o => loop[p].row # loop[o].row
      BY DEF Trail, HeldOnce, Owners
    <3> QED BY <2>1, <2>2, <3>1
  <2> QED BY <1>1, <2>1, <2>3, <2>4
<1>9. ASSUME NEW p \in Owners, On(p)'
      PROVE  /\ rows'[loop'[p].row].status = "Failed" /\ StaysUnretried(loop'[p].row)
             /\ loop'[p].row \notin queue'
             /\ Progress(loop'[p], rows'[loop'[p].row].decided)
  <2>1. CASE p = o /\ l.row = new
    <3>1. ~(l = loop[o] /\ On(o)) /\ ~(l.pc = "off")
      BY <1>1, <1>2, <1>9, <2>1, Typed DEF On
    <3>2. r.from = 0 /\ r.status = "Failed" /\ l.pc = "decide" /\ l.attempt = 1 /\ loop'[p] = l
      BY <1>2, <1>9, <2>1, <3>1 DEF On
    <3>3. StaysUnretried(new)
      <4>1. ASSUME NEW k \in Ids' PROVE rows'[k].from # new
        <5>1. CASE k = new
          BY <1>1, <3>2, <5>1, Typed DEF new
        <5>2. CASE k \in Ids
          <6>1. rows'[k] = rows[k] /\ (rows[k].from # 0 => rows[k].from \in Ids)
            BY <1>1, <5>2 DEF Trail, RetriesExplained
          <6>2. new # 0
            BY Typed DEF new
          <6> QED BY <1>1, <6>1, <6>2
        <5> QED BY <1>1, <5>1, <5>2
      <4> QED BY <4>1 DEF StaysUnretried
    <3>4. Progress(l, <<>>)
      BY <3>2 DEF Progress, NoAbandon
    <3> QED BY <1>1, <2>1, <3>2, <3>3, <3>4, Typed
  <2>2. CASE ~(p = o /\ l.row = new)
    <3>1. On(p) /\ loop'[p] = loop[p] /\ loop[p].row \in Ids /\ r.from # loop[p].row
      BY <1>8, <1>9, <2>2
    <3>2. StaysUnretried(loop[p].row)
      BY <1>3, <3>1 DEF Trail, LoopsHold
    <3>3. /\ rows[loop[p].row].status = "Failed" /\ loop[p].row \notin queue
          /\ Progress(loop[p], rows[loop[p].row].decided)
      BY <3>1 DEF Trail, LoopsHold
    <3>4. rows'[loop'[p].row] = rows[loop[p].row]
      BY <1>1, <3>1
    <3>5. StaysUnretried(loop'[p].row)
      BY <3>1, <3>2
    <3>6. Progress(loop'[p], rows'[loop'[p].row].decided)
      BY <3>1, <3>3, <3>4
    <3>7. rows'[loop'[p].row].status = "Failed"
      BY <3>3, <3>4
    <3>8. loop'[p].row \notin queue'
      BY <3>1, <3>3
    <3> QED BY <3>5, <3>6, <3>7, <3>8
  <2> QED BY <2>1, <2>2
<1>10. HeldOnce'
  <2> SUFFICES ASSUME On("driver")', On("sweeper")', loop'["driver"].row = loop'["sweeper"].row
               PROVE  FALSE
    BY DEF HeldOnce
  <2>1. PICK p \in Owners : p # o
    BY DEF Owners
  <2>2. On(p)' /\ On(o)' /\ loop'[p].row = loop'[o].row
    BY <2>1 DEF Owners
  <2>3. On(p) /\ loop'[p] = loop[p] /\ loop[p].row \in Ids
    BY <1>8, <2>1, <2>2
  <2>4. l.row # new
    BY <1>1, <1>2, <2>2, <2>3
  <2>5. On(o) /\ loop'[o] = loop[o]
    BY <1>8, <2>2, <2>4
  <2> QED BY <2>1, <2>2, <2>3, <2>5 DEF Trail, HeldOnce, Owners
<1>11. LoopsHold'
  BY <1>9 DEF LoopsHold, Unretried, StaysUnretried
<1> QED BY <1>5, <1>6, <1>7, <1>10, <1>11 DEF Trail

(* A loop that decides logs its decision, for the next attempt, and goes   *)
(* on to execute it (or ends, when logging something else fails).          *)
LEMMA Logs ==
  ASSUME Parts, Trail, NEW o \in Owners, Deciding(o), NEW agent, NEW terminal,
         rows' = Logged(o, agent, terminal), queue' = queue,
         NEW l, loop' = [loop EXCEPT ![o] = l],
         \/ l.pc = "off"
         \/ /\ l.pc \in {"hold", "execute"} /\ l.row = loop[o].row
            /\ l.attempt = loop[o].attempt /\ l.terminal = terminal
  PROVE  Trail'
<1> DEFINE id == loop[o].row
           n == loop[o].attempt
           entry == [attempt |-> n + 1, agent |-> agent, terminal |-> terminal]
           log == Append(rows[id].decided, entry)
<1>1. On(o) /\ id \in Ids /\ n \in 1 .. MaxAttempts /\ n < MaxAttempts
  BY Typed, OrchestratorAssumption DEF Deciding, Exhausted, On
<1>2. /\ rows[id].status = "Failed" /\ Unretried(id) /\ id \notin queue
      /\ Len(rows[id].decided) = n - 1 /\ NoAbandon(rows[id].decided)
      /\ LogSound(rows[id].decided)
  BY <1>1 DEF Trail, LoopsHold, RowsExplained, Progress, Deciding
<1>3. /\ Ids' = Ids /\ rows'[id] = [rows[id] EXCEPT !.decided = log]
      /\ \A k \in Ids \ {id} : rows'[k] = rows[k]
  <2>1. rows' = [rows EXCEPT ![id] = [rows[id] EXCEPT !.decided = log]]
    BY DEF Logged
  <2> QED BY <1>1, <2>1 DEF Ids
<1>4. /\ rows'[id].decided = log /\ rows'[id].status = "Failed"
      /\ \A k \in Ids : rows'[k].from = rows[k].from
  <2>1. rows[id] \in Row
    BY <1>1 DEF Parts, CappedRow, Ids
  <2> HIDE DEF log, id
  <2> QED BY <1>2, <1>3, <2>1 DEF Row
<1>5. /\ Len(log) = n /\ log # <<>> /\ log[Len(log)] = entry /\ DOMAIN log = 1 .. n
      /\ \A i \in 1 .. n : i # n => log[i] = rows[id].decided[i]
      /\ DOMAIN rows[id].decided = 1 .. (n - 1)
  <2> DEFINE old == rows[id].decided
  <2>1. Len(old) = n - 1 /\ \E S : old \in Seq(S)
    BY <1>1, <1>2, Typed
  <2> HIDE DEF old, entry
  <2>2. PICK S : old \in Seq(S)
    BY <2>1
  <2>3. /\ Append(old, entry) \in Seq(S \cup {entry})
        /\ Len(Append(old, entry)) = Len(old) + 1
        /\ Append(old, entry)[Len(old) + 1] = entry
        /\ \A i \in 1 .. Len(old) : Append(old, entry)[i] = old[i]
    BY <2>2
  <2>4. DOMAIN old = 1 .. (n - 1) /\ DOMAIN Append(old, entry) = 1 .. n
    BY <1>1, <2>1, <2>2, <2>3
  <2>5. Len(Append(old, entry)) = n /\ Append(old, entry)[n] = entry
    BY <1>1, <2>1, <2>3
  <2>6. \A i \in 1 .. n : i # n => Append(old, entry)[i] = old[i]
    BY <1>1, <2>1, <2>3
  <2>7. Append(old, entry) # <<>>
    BY <1>1, <2>5
  <2> QED BY <1>1, <2>4, <2>5, <2>6, <2>7 DEF old
<1>6. LogSound(log)
  <2>1. DOMAIN log = 1 .. n /\ DOMAIN rows[id].decided = 1 .. (n - 1)
    BY <1>5
  <2>2. \A i \in 1 .. n : i # n => i \in 1 .. (n - 1)
    BY <1>1
  <2>3. entry.attempt = n + 1
    OBVIOUS
  <2>4. Len(log) = n /\ log[n] = entry /\ n < MaxAttempts
    BY <1>1, <1>5
  <2>5. \A i \in 1 .. n : i # n => log[i] = rows[id].decided[i]
    BY <1>5
  <2> HIDE DEF log, entry, id, n
  <2>6. \A i \in 1 .. n : i # n => log[i].attempt = i + 1 /\ log[i].terminal # "Abandon"
    BY <1>2, <2>1, <2>2, <2>5 DEF LogSound, NoAbandon
  <2>7. \A i \in 1 .. n : log[i].attempt = i + 1
    BY <2>3, <2>4, <2>6
  <2> QED BY <2>1, <2>4, <2>6, <2>7 DEF LogSound
<1> HIDE DEF log, id, n
<1>7. \A k : Unretried(k)' <=> Unretried(k)
  BY <1>3, <1>4 DEF Unretried
<1>8. RowsExplained'
  <2>1. ASSUME NEW k \in Ids
        PROVE  /\ LogSound(rows'[k].decided)
               /\ rows'[k].status # "Failed" => rows'[k].decided = <<>>
    BY <1>3, <1>4, <1>6 DEF Trail, RowsExplained
  <2> QED BY <1>3, <2>1 DEF RowsExplained, LogSound
<1>9. RetriesExplained'
  <2>1. ASSUME NEW k \in Ids, rows[k].from # 0
        PROVE  /\ rows[k].from \in Ids /\ Retryable(rows'[rows[k].from])
               /\ \A j \in Ids \ {k} : rows[j].from # rows[k].from
    <3>1. rows[k].from # id
      BY <1>2, <2>1 DEF Unretried
    <3> QED BY <1>3, <2>1, <3>1 DEF Trail, RetriesExplained
  <2> QED BY <1>3, <1>4, <2>1 DEF RetriesExplained, Retryable
<1>10. \A p \in Owners : loop'[p] = IF p = o THEN l ELSE loop[p]
  BY DEF Parts
<1>11. ASSUME NEW p \in Owners, p # o, On(p) PROVE loop[p].row \in Ids \ {id}
  BY <1>1, <1>11, Typed DEF Trail, HeldOnce, Owners, id
<1>12. LoopsHold'
  <2>1. ASSUME NEW p \in Owners, On(p)'
        PROVE  /\ loop'[p].row \in Ids
               /\ rows'[loop'[p].row].status = "Failed" /\ Unretried(loop'[p].row)
               /\ loop'[p].row \notin queue
               /\ Progress(loop'[p], rows'[loop'[p].row].decided)
    <3>1. CASE p = o
      <4>1. /\ loop'[p] = l /\ l.pc \in {"hold", "execute"} /\ l.row = id /\ l.attempt = n
            /\ l.terminal = terminal
        BY <1>10, <2>1, <3>1 DEF On, id, n
      <4>2. log[Len(log)].terminal = terminal
        BY <1>5
      <4> QED BY <1>1, <1>2, <1>4, <1>5, <4>1, <4>2 DEF Progress
    <3>2. CASE p # o
      <4>1. loop'[p] = loop[p] /\ On(p)
        BY <1>10, <2>1, <3>2 DEF On
      <4>2. rows'[loop[p].row] = rows[loop[p].row]
        BY <1>3, <1>11, <3>2, <4>1
      <4> QED BY <1>11, <3>2, <4>1, <4>2 DEF Trail, LoopsHold
    <3> QED BY <3>1, <3>2
  <2>2. \A k : StaysUnretried(k) <=> Unretried(k)
    BY <1>3, <1>4 DEF Unretried, StaysUnretried
  <2>3. ASSUME NEW p \in Owners, On(p)'
        PROVE  /\ rows'[loop'[p].row].status = "Failed" /\ StaysUnretried(loop'[p].row)
               /\ loop'[p].row \notin queue'
               /\ Progress(loop'[p], rows'[loop'[p].row].decided)
    BY <2>1, <2>2, <2>3
  <2> QED BY <2>3 DEF LoopsHold, Unretried, StaysUnretried
<1>13. QueueHolds'
  <2>1. ASSUME NEW k \in queue PROVE rows'[k] = rows[k]
    BY <1>2, <1>3, <2>1, Typed
  <2> QED BY <1>7, <2>1 DEF Trail, QueueHolds
<1>14. HeldOnce'
  <2> SUFFICES ASSUME On("driver")', On("sweeper")', loop'["driver"].row = loop'["sweeper"].row
               PROVE  FALSE
    BY DEF HeldOnce
  <2>1. ASSUME NEW p \in Owners, On(p)' PROVE On(p) /\ loop'[p].row = loop[p].row
    BY <1>1, <1>10, <2>1 DEF On
  <2> QED BY <2>1 DEF Trail, HeldOnce, Owners
<1> QED BY <1>8, <1>9, <1>12, <1>13, <1>14 DEF Trail

(* Rows settle: only their outcome changes, and only for rows that had not *)
(* failed; those that now do may join the queue.                           *)
LEMMA Settles ==
  ASSUME Parts, Trail, loop' = loop, Ids' = Ids,
         \A id \in Ids : /\ rows'[id].from = rows[id].from
                         /\ rows'[id].decided = rows[id].decided
                         /\ rows'[id].status = rows[id].status \/ rows[id].status # "Failed",
         \A id \in queue' : \/ id \in queue
                            \/ id \in Ids /\ rows[id].status # "Failed"
                               /\ rows'[id].status = "Failed"
  PROVE  Trail'
<1>1. \A k : Unretried(k)' <=> Unretried(k)
  BY DEF Unretried
<1>2. ASSUME NEW id \in Ids, rows[id].status # "Failed"
      PROVE  rows[id].decided = <<>> /\ Unretried(id)
  <2>1. rows[id].decided = <<>> /\ id # 0
    BY <1>2, Typed DEF Trail, RowsExplained
  <2>2. \A k \in Ids : rows[k].from # 0 => Retryable(rows[rows[k].from])
    BY DEF Trail, RetriesExplained
  <2> QED BY <1>2, <2>1, <2>2 DEF Unretried, Retryable
<1>3. RowsExplained'
  BY <1>2 DEF Trail, RowsExplained, LogSound
<1>4. RetriesExplained'
  <2>1. ASSUME NEW k \in Ids, rows[k].from # 0
        PROVE  /\ rows[k].from \in Ids /\ Retryable(rows'[rows[k].from])
               /\ \A j \in Ids \ {k} : rows[j].from # rows[k].from
    BY <2>1 DEF Trail, RetriesExplained, Retryable
  <2> QED BY <2>1 DEF RetriesExplained, Retryable
<1>5. LoopsHold'
  <2>1. ASSUME NEW o \in Owners, On(o)
        PROVE  /\ loop[o].row \in Ids /\ rows'[loop[o].row].status = "Failed"
               /\ Unretried(loop[o].row) /\ loop[o].row \notin queue'
               /\ Progress(loop[o], rows'[loop[o].row].decided)
    <3>1. /\ loop[o].row \in Ids /\ rows[loop[o].row].status = "Failed"
          /\ Unretried(loop[o].row) /\ loop[o].row \notin queue
          /\ Progress(loop[o], rows[loop[o].row].decided)
      BY <2>1, Typed DEF Trail, LoopsHold
    <3> QED BY <3>1
  <2> QED BY <2>1 DEF LoopsHold, On, Unretried, Progress, NoAbandon
<1>6. QueueHolds'
  <2>1. ASSUME NEW id \in queue'
        PROVE  rows'[id].status = "Failed" /\ rows'[id].decided = <<>> /\ Unretried(id)
    <3>1. CASE id \in queue
      BY <3>1, Typed DEF Trail, QueueHolds
    <3>2. CASE id \notin queue
      BY <1>2, <2>1, <3>2
    <3> QED BY <3>1, <3>2
  <2> QED BY <1>1, <2>1 DEF QueueHolds
<1>7. HeldOnce'
  BY DEF Trail, HeldOnce, On
<1> QED BY <1>3, <1>4, <1>5, <1>6, <1>7 DEF Trail

(* The sweeper takes a row off the queue.                                  *)
LEMMA Takes ==
  ASSUME Parts, Trail, NEW id \in queue, HandleTimedOut(id)
  PROVE  Trail'
<1> DEFINE l == Started(id, NotLanding(id), rows[id].tip)
<1>1. /\ loop' = [loop EXCEPT !["sweeper"] = l] /\ queue' = queue \ {id} /\ rows' = rows
      /\ l.pc = "decide" /\ l.row = id /\ l.attempt = 1 /\ id \in Ids
  BY Typed DEF HandleTimedOut, Started, Off
<1> HIDE DEF l
<1>2. loop'["sweeper"] = l /\ loop'["driver"] = loop["driver"]
  BY <1>1 DEF Parts, Owners
<1>3. rows[id].status = "Failed" /\ rows[id].decided = <<>> /\ Unretried(id)
  BY DEF Trail, QueueHolds
<1>4. On("driver") => loop["driver"].row # id
  BY DEF Trail, LoopsHold, Owners
<1>5. Progress(l, <<>>)
  BY <1>1 DEF Progress, NoAbandon
<1>6. \A k : StaysUnretried(k) <=> Unretried(k)
  BY <1>1 DEF Unretried, StaysUnretried, Ids
<1>7. RowsExplained' /\ RetriesExplained' /\ QueueHolds'
  BY <1>1 DEF Trail, RowsExplained, RetriesExplained, QueueHolds, Unretried, Ids
<1>8. LoopsHold'
  <2>1. ASSUME NEW o \in Owners, On(o)'
        PROVE  /\ rows'[loop'[o].row].status = "Failed" /\ StaysUnretried(loop'[o].row)
               /\ loop'[o].row \notin queue'
               /\ Progress(loop'[o], rows'[loop'[o].row].decided)
    <3>1. CASE o = "sweeper"
      BY <1>1, <1>2, <1>3, <1>5, <1>6, <3>1
    <3>2. CASE o = "driver"
      BY <1>1, <1>2, <1>6, <2>1, <3>2 DEF Trail, LoopsHold, On, Owners
    <3> QED BY <3>1, <3>2 DEF Owners
  <2> QED BY <2>1 DEF LoopsHold, Unretried, StaysUnretried
<1>9. HeldOnce'
  BY <1>1, <1>2, <1>4 DEF HeldOnce, On
<1> QED BY <1>7, <1>8, <1>9 DEF Trail

-----------------------------------------------------------------------------
(* Every step is one of these.                                             *)
LEMMA SpendsAttempt ==
  ASSUME Parts, Trail, NEW o \in Owners, loop[o].pc = "execute", loop[o].terminal # "Abandon",
         NEW pc \in {"record", "decide"}, NEW evidence, NEW l,
         l = [loop[o] EXCEPT !.pc = pc, !.attempt = @ + 1, !.evidence = evidence],
         loop' = [loop EXCEPT ![o] = l], rows' = rows, queue' = queue
  PROVE  Trail'
<1> DEFINE log == rows[loop[o].row].decided
<1>1. /\ On(o) /\ loop[o].row \in Ids /\ loop[o].attempt \in 1 .. MaxAttempts
      /\ loop[o] \in Loop /\ \E S : log \in Seq(S)
  BY Typed DEF On, CappedLoop
<1>2. Len(log) = loop[o].attempt /\ log[Len(log)].terminal # "Abandon" /\ LogSound(log)
  BY <1>1 DEF Trail, LoopsHold, Progress, RowsExplained
<1>3. l.pc = pc /\ l.attempt = loop[o].attempt + 1 /\ l.row = loop[o].row
  BY <1>1 DEF Loop
<1> HIDE DEF log
<1>4. NoAbandon(log) /\ log # <<>> /\ Len(log) = l.attempt - 1
  BY <1>1, <1>2, <1>3 DEF LogSound, NoAbandon
<1>5. Progress(l, log)
  BY <1>3, <1>4 DEF Progress
<1>6. ASSUME NEW p \in Owners PROVE Carries(p)
  <2>1. loop'[p] = IF p = o THEN l ELSE loop[p]
    BY DEF Parts
  <2> QED BY <1>1, <1>3, <1>5, <2>1 DEF Carries, log
<1> QED BY <1>6, CarriesOn

LEMMA EndsLoop ==
  ASSUME Parts, Trail, NEW o \in Owners, NEW ok \in BOOLEAN, Finish(o, ok),
         rows' = rows, queue' = queue
  PROVE  Trail'
<1>1. \A p \in Owners : loop'[p] = loop[p] \/ loop'[p].pc = "off"
  BY DEF Finish, Parts, Off
<1> QED BY <1>1, CarriesOn DEF Carries

LEMMA RetryTrail ==
  ASSUME Parts, Trail, NEW o \in Owners,
         Retry(o) \/ DecideFails(o) \/ ResubmissionReplyLost(o) \/ RecordResubmissionFails(o)
  PROVE  Trail'
<1> DEFINE L == loop[o]
<1>0. L \in Loop /\ \A l : loop' = [loop EXCEPT ![o] = l] => loop'[o] = l
  BY Typed DEF CappedLoop, Parts
<1>1. CASE GiveUp(o) \/ GaveUp(o) \/ RecordResubmissionFails(o)
  BY <1>1, EndsLoop DEF GiveUp, GaveUp, RecordResubmissionFails
<1>2. CASE HoldOver(o)
  <2>1. /\ loop' = [loop EXCEPT ![o] = [L EXCEPT !.pc = "execute"]] /\ L.pc = "hold"
        /\ rows' = rows /\ queue' = queue /\ On(o)
    BY <1>2 DEF HoldOver, On
  <2>2. /\ loop'[o].pc = "execute" /\ loop'[o].row = L.row /\ loop'[o].attempt = L.attempt
        /\ loop'[o].terminal = L.terminal
    <3>1. L \in Loop /\ loop'[o] = [L EXCEPT !.pc = "execute"]
      BY <1>0, <2>1
    <3> QED BY <3>1 DEF Loop
  <2>3. Progress(loop'[o], rows[L.row].decided)
    BY <2>1, <2>2 DEF Progress, Trail, LoopsHold
  <2>4. \A p \in Owners \ {o} : loop'[p] = loop[p]
    BY <2>1 DEF Parts
  <2>5. \A p \in Owners : Carries(p)
    BY <2>1, <2>2, <2>3, <2>4 DEF Carries
  <2> QED BY <2>1, <2>5, CarriesOn
<1>3. CASE RecordResubmission(o)
  <2> DEFINE r == NewRow(rows[L.row].bundle, L.row, L.tip, L.p50, TRUE)
  <2>1. /\ rows' = Append(rows, r) /\ queue' = queue /\ L.pc = "record"
        /\ loop' = [loop EXCEPT ![o] = Off]
    BY <1>3 DEF RecordResubmission, Finish
  <2>2. r.from = L.row /\ r.decided = <<>> /\ Off.pc = "off" /\ On(o)
    BY <2>1 DEF NewRow, Off, On
  <2>3. Retryable(rows[L.row])
    <3> DEFINE log == rows[L.row].decided
    <3>1. rows[L.row].status = "Failed" /\ log # <<>> /\ NoAbandon(log) /\ \E S : log \in Seq(S)
      BY <2>1, <2>2, Typed DEF Trail, LoopsHold, Progress
    <3> HIDE DEF log
    <3>2. Len(log) \in DOMAIN log
      BY <3>1
    <3>3. log[Len(log)].terminal # "Abandon"
      BY <3>1, <3>2 DEF NoAbandon
    <3> QED BY <3>1, <3>3 DEF Retryable, log
  <2> HIDE DEF r
  <2> QED BY <2>1, <2>2, <2>3, Appends
<1>4. ASSUME NEW agent, NEW actions, NEW feed, Decide(o, agent, actions, feed)
      PROVE  Trail'
  <2> DEFINE plan == Plan(Clamped(actions), L.tip)
             l == [L EXCEPT !.pc = IF plan.holds THEN "hold" ELSE "execute",
                            !.tip = plan.tip, !.p50 = Known(feed, P50),
                            !.terminal = plan.terminal]
  <2>1. /\ Deciding(o) /\ rows' = Logged(o, agent, plan.terminal) /\ queue' = queue
        /\ loop' = [loop EXCEPT ![o] = l]
    BY <1>4 DEF Decide
  <2> HIDE DEF plan
  <2>2. /\ l.pc \in {"hold", "execute"} /\ l.row = L.row /\ l.attempt = L.attempt
        /\ l.terminal = plan.terminal
    BY <1>0 DEF Loop
  <2> HIDE DEF l
  <2> QED BY <2>1, <2>2, Logs
<1>5. CASE \E feed \in Feeds : LlmDecides(o, feed) \/ BaselineDecides(o, feed)
  BY <1>4, <1>5 DEF LlmDecides, BaselineDecides
<1>6. CASE ResubmissionAccepted(o)
  <2> DEFINE l == [L EXCEPT !.pc = "record", !.attempt = @ + 1]
             m == [L EXCEPT !.pc = "record", !.attempt = @ + 1, !.evidence = L.evidence]
  <2>1. /\ loop' = [loop EXCEPT ![o] = l] /\ L.pc = "execute" /\ L.terminal # "Abandon"
        /\ rows' = rows /\ queue' = queue
    BY <1>0, <1>6 DEF ResubmissionAccepted, Resubmits
  <2>2. l = m
    BY <1>0 DEF Loop
  <2> QED BY <2>1, <2>2, SpendsAttempt
<1>7. ASSUME NEW marks, ResubmissionRejected(o, marks) PROVE Trail'
  <2>1. /\ loop' = [loop EXCEPT ![o] = [L EXCEPT !.pc = "decide", !.attempt = @ + 1,
                                                 !.evidence = marks]]
        /\ L.pc = "execute" /\ L.terminal # "Abandon" /\ rows' = rows /\ queue' = queue
    BY <1>0, <1>7 DEF ResubmissionRejected, Resubmits
  <2> QED BY <2>1, SpendsAttempt
<1>8. CASE ResubmissionReplyLost(o)
  <2>1. /\ loop' = [loop EXCEPT ![o] = [L EXCEPT !.pc = "decide", !.attempt = @ + 1,
                                                 !.evidence = {"transport"}]]
        /\ L.pc = "execute" /\ L.terminal # "Abandon" /\ rows' = rows /\ queue' = queue
    BY <1>0, <1>8 DEF ResubmissionReplyLost, Resubmits
  <2> QED BY <2>1, SpendsAttempt
<1>9. CASE DecideFails(o)
  <2>1. /\ Deciding(o) /\ Finish(o, FALSE) /\ queue' = queue
        /\ loop' = [loop EXCEPT ![o] = Off] /\ Off.pc = "off"
        /\ rows' = rows \/ \E terminal : rows' = Logged(o, "llm", terminal)
    BY <1>9 DEF DecideFails, Finish, Off
  <2> QED BY <2>1, EndsLoop, Logs
<1> QED BY <1>1, <1>2, <1>3, <1>5, <1>6, <1>7, <1>8, <1>9 DEF Retry

LEMMA SubmitTrail ==
  ASSUME Parts, Trail,
         \/ Submit \/ RecordAccepted
         \/ \E feed \in Feeds : RejectUnrecorded(feed) \/ ReplyLost(feed)
  PROVE  Trail'
<1>0. "driver" \in Owners /\ loop = [loop EXCEPT !["driver"] = loop["driver"]]
  BY DEF Owners, Parts
<1>1. CASE AwaitReady \/ SkipWindow \/ \E feed \in Feeds : Accept(feed)
  <2>1. rows' = rows /\ loop' = loop /\ queue' = queue
    BY <1>1 DEF AwaitReady, SkipWindow, Accept
  <2> QED BY <2>1, CarriesOn DEF Carries
<1>2. ASSUME NEW r, r.from = 0, r.decided = <<>>, rows' \in {rows, Append(rows, r)},
             loop' = loop, queue' = queue
      PROVE  Trail'
  <2>1. CASE rows' = rows
    BY <1>2, <2>1, CarriesOn DEF Carries
  <2>2. CASE rows' = Append(rows, r)
    BY <1>0, <1>2, <2>2, Appends
  <2> QED BY <1>2, <2>1, <2>2
<1>3. \A b, tip, p50, accepted : LET r == NewRow(b, 0, tip, p50, accepted)
                                IN  r.from = 0 /\ r.decided = <<>>
  BY DEF NewRow
<1>a. CASE RecordAccepted
  <2> DEFINE r == NewRow(driver.bundle, 0, driver.tip, driver.p50, TRUE)
  <2>1. r.from = 0 /\ r.decided = <<>>
    BY <1>3
  <2>2. rows' = Append(rows, r) /\ loop' = loop /\ queue' = queue
    BY <1>a DEF RecordAccepted
  <2> HIDE DEF r
  <2> QED BY <1>2, <2>1, <2>2
<1>b. ASSUME NEW feed \in Feeds, RejectUnrecorded(feed) PROVE Trail'
  <2> DEFINE r == NewRow(driver.bundle, 0, NormalTip(feed), Known(feed, P50), FALSE)
  <2>1. r.from = 0 /\ r.decided = <<>>
    BY <1>3
  <2>2. rows' \in {rows, Append(rows, r)} /\ loop' = loop /\ queue' = queue
    BY <1>b DEF RejectUnrecorded
  <2> HIDE DEF r
  <2> QED BY <1>2, <2>1, <2>2
<1>4. ASSUME NEW feed \in Feeds, ReplyLost(feed) \/ \E marks \in Rejections : Reject(feed, marks)
      PROVE  Trail'
  <2> DEFINE row == NewRow(driver.bundle, 0, NormalTip(feed), Known(feed, P50), FALSE)
             r == [row EXCEPT !.status = "Failed"]
  <2>1. PICK evidence : /\ rows' = Append(rows, r) /\ queue' = queue
                        /\ loop' = [loop EXCEPT !["driver"] = Started(Len(rows'), evidence, row.tip)]
    BY <1>4 DEF ReplyLost, Reject
  <2> DEFINE l == Started(Len(rows'), evidence, row.tip)
  <2>2. r.from = 0 /\ r.decided = <<>> /\ r.status = "Failed"
    BY DEF NewRow
  <2>3. l.row = Len(rows') /\ l.pc = "decide" /\ l.attempt = 1
    BY DEF Started, Off
  <2> HIDE DEF r, l
  <2> QED BY <1>0, <2>1, <2>2, <2>3, Appends DEF l
<1> QED BY <1>1, <1>4, <1>a, <1>b DEF Submit

LEMMA OutcomeTrail ==
  ASSUME Parts, Trail,
         \/ \E ids \in SUBSET Ids : Sweep(ids)
         \/ \E id \in Ids : Outcome(id)
  PROVE  Trail'
<1>0. \A id \in Ids : rows[id] \in Row
  BY DEF Parts, Ids, CappedRow
<1>1. ASSUME NEW ids \in SUBSET Ids, Sweep(ids) PROVE Trail'
  <2>1. /\ rows' = [id \in Ids |-> IF id \in ids THEN [rows[id] EXCEPT !.status = "Failed"]
                                   ELSE rows[id]]
        /\ loop' = loop /\ queue' = ids /\ \A id \in ids : rows[id].status = "Submitted"
    BY <1>1 DEF Sweep, TimedOutRows
  <2>2. Ids' = Ids
    BY <2>1, Typed DEF Ids
  <2>3. \A id \in Ids : /\ rows'[id].from = rows[id].from
                         /\ rows'[id].decided = rows[id].decided
                         /\ rows'[id].status = IF id \in ids THEN "Failed" ELSE rows[id].status
    BY <1>0, <2>1 DEF Row
  <2> QED BY <2>1, <2>2, <2>3, Settles
<1>2. ASSUME NEW id \in Ids, Outcome(id) PROVE Trail'
  <2>0. PICK to \in Open \cup {"Finalized", "Errored"}, landed \in BOOLEAN, learned \in BOOLEAN :
           Becomes(id, to, landed, learned)
    BY <1>2, OutcomeTells
  <2>1. /\ rows' = [rows EXCEPT ![id] = [rows[id] EXCEPT !.status = to, !.landed = landed,
                                                         !.learned = learned]]
        /\ loop' = loop /\ queue' = queue /\ rows[id].status # "Failed"
    BY <2>0 DEF Becomes
  <2>2. Ids' = Ids
    BY <2>1 DEF Parts, Ids
  <2>3. \A k \in Ids : /\ rows'[k].from = rows[k].from
                        /\ rows'[k].decided = rows[k].decided
                        /\ k # id => rows'[k].status = rows[k].status
    BY <1>0, <2>1 DEF Row, Ids
  <2> QED BY <2>1, <2>2, <2>3, Settles
<1> QED BY <1>1, <1>2

LEMMA TrailStep == Parts /\ Trail /\ [Next]_vars => Trail'
<1> SUFFICES ASSUME Parts, Trail, [Next]_vars PROVE Trail'
  OBVIOUS
<1>1. CASE \/ UNCHANGED vars \/ Drain \/ RecordAcceptedFails \/ DrainQueryFails
           \/ \E id \in queue : HandleFails(id)
  <2>1. rows' = rows /\ loop' = loop /\ queue' \subseteq queue
    BY <1>1 DEF vars, Drain, Drained, DrainTimesOut, RecordAcceptedFails, DrainQueryFails,
                HandleFails
  <2> QED BY <2>1, CarriesOn DEF Carries
<1>2. CASE Crash
  <2>1. rows' = rows /\ queue' = {} /\ \A o \in Owners : loop'[o].pc = "off"
    BY <1>2 DEF Crash, Off
  <2> QED BY <2>1, CarriesOn DEF Carries
<1>3. CASE \E id \in queue : HandleTimedOut(id)
  BY <1>3, Takes
<1> QED BY <1>1, <1>2, <1>3, SubmitTrail, RetryTrail, OutcomeTrail DEF Next, Fault

LEMMA InitTrail == Init => Trail
  BY DEF Init, Trail, RowsExplained, RetriesExplained, LoopsHold, QueueHolds, HeldOnce, On,
         Off, Ids, Owners

LEMMA TrailInvariance == Spec => [](Parts /\ Trail)
<1>1. Init => Parts /\ Trail
  BY InitSound, InitTrail
<1>2. Parts /\ [Next]_vars => Parts'
  <2>1. Parts' <=> IInv'
    BY ByParts, PTL
  <2> QED BY <2>1, ByParts, Inductive
<1> QED BY <1>1, <1>2, TrailStep, PTL DEF Spec

(* The audit trail explains every retry, whatever the model answers and    *)
(* whichever fault strikes, crashes between a decision and its retry       *)
(* included: the decisions about a row are numbered without a gap, none    *)
(* follows an abandonment, and a row is retried once, after a decision.    *)
THEOREM EveryRetryIsDecided == Spec => []RetriesAreDecided
<1>1. Parts /\ Trail => RetriesAreDecided
  BY DEF Trail, RowsExplained, RetriesExplained, LogSound, Retryable, RetriesAreDecided
<1> QED BY <1>1, TrailInvariance, PTL

-----------------------------------------------------------------------------
(* Failures that nobody has decided about yet. They are found by a loop    *)
(* that starts on them or wait in the queue; what an owner lets go of has  *)
(* a decision in its log, by Trail, unless it had no attempt to decide on. *)
Pending(id) == rows[id].status = "Failed" /\ rows[id].decided = <<>>
Awaited(id) == id \in queue \/ \E o \in Owners : loop[o].row = id /\ loop[o].pc = "decide"
NoneDropped == \A id \in Ids : Pending(id) => Awaited(id)

NoFaultsOf(kinds) == FaultKinds \cap kinds = {}

(* Nothing new is pending, and no loop that decides lets go of a row       *)
(* without a decision about it.                                            *)
LEMMA NoneLost ==
  ASSUME Parts, NoneDropped, queue \subseteq queue',
         \A id \in Ids' : Pending(id)' => (id \in Ids /\ Pending(id)) \/ Awaited(id)',
         \A o \in Owners : loop[o].pc = "decide" =>
           \/ loop'[o].pc = "decide" /\ loop'[o].row = loop[o].row
           \/ ~Pending(loop[o].row)
  PROVE  NoneDropped'
<1> SUFFICES ASSUME NEW id \in Ids', Pending(id)', ~Awaited(id)' PROVE FALSE
  BY DEF NoneDropped
<1>1. id \in Ids /\ Pending(id) /\ Awaited(id)
  BY DEF NoneDropped
<1>2. id \notin queue
  BY DEF Awaited
<1>3. PICK o \in Owners : loop[o].row = id /\ loop[o].pc = "decide"
  BY <1>1, <1>2 DEF Awaited
<1> QED BY <1>1, <1>3 DEF Awaited, Pending

LEMMA DecideDropsNone ==
  ASSUME Parts, Trail, NoneDropped, NEW o \in Owners, NEW agent, NEW actions, NEW feed,
         Decide(o, agent, actions, feed)
  PROVE  NoneDropped'
<1> DEFINE plan == Plan(Clamped(actions), loop[o].tip)
           id == loop[o].row
           entry == [attempt |-> loop[o].attempt + 1, agent |-> agent, terminal |-> plan.terminal]
           log == Append(rows[id].decided, entry)
<1>1. /\ rows' = [rows EXCEPT ![id] = [rows[id] EXCEPT !.decided = log]] /\ queue' = queue
      /\ \E l : loop' = [loop EXCEPT ![o] = l]
      /\ loop[o].pc = "decide"
  BY DEF Decide, Logged, Deciding
<1>2. id \in Ids /\ rows[id] \in Row /\ log # <<>>
  <2>1. id \in Ids /\ \E S : rows[id].decided \in Seq(S)
    BY <1>1, Typed DEF On
  <2>2. rows[id] \in Row
    BY <2>1 DEF Parts, CappedRow, Ids
  <2> DEFINE old == rows[id].decided
  <2> HIDE DEF old, entry
  <2>3. Append(old, entry) # <<>>
    BY <2>1 DEF old
  <2> QED BY <2>1, <2>2, <2>3 DEF old
<1> HIDE DEF log, id
<1>3. /\ Ids' = Ids /\ rows'[id].decided = log /\ \A k \in Ids \ {id} : rows'[k] = rows[k]
  BY <1>1, <1>2 DEF Ids, Row
<1>4. \A p \in Owners : p # o => loop'[p] = loop[p]
  BY <1>1 DEF Parts
<1>5. \A k \in Ids' : Pending(k)' => k \in Ids /\ Pending(k)
  BY <1>2, <1>3 DEF Pending
<1>6. id \in Ids' /\ rows'[id].decided # <<>>
  BY <1>2, <1>3
<1>7. ASSUME NEW p \in Owners, loop[p].pc = "decide"
      PROVE  \/ loop'[p].pc = "decide" /\ loop'[p].row = loop[p].row
             \/ loop[p].row \in Ids' /\ rows'[loop[p].row].decided # <<>>
  BY <1>4, <1>6, <1>7 DEF id
<1>8. ASSUME NEW k \in Ids', Pending(k)', ~Awaited(k)' PROVE FALSE
  <2>1. k \in Ids /\ Pending(k) /\ Awaited(k) /\ k \notin queue
    BY <1>1, <1>5, <1>8 DEF NoneDropped, Awaited
  <2>2. PICK p \in Owners : loop[p].row = k /\ loop[p].pc = "decide"
    BY <2>1 DEF Awaited
  <2> QED BY <1>7, <1>8, <2>2 DEF Awaited, Pending
<1> QED BY <1>8 DEF NoneDropped

(* An owner ends its loop, or goes on with it past the decision.           *)
LEMMA MovesDropNone ==
  ASSUME Parts, Trail, NoneDropped, NEW o \in Owners, NEW l, loop' = [loop EXCEPT ![o] = l],
         queue' = queue, loop[o].pc = "decide" => rows[loop[o].row].decided # <<>>,
         \A id \in Ids' : Pending(id)' => id \in Ids /\ Pending(id)
  PROVE  NoneDropped'
<1>1. \A p \in Owners : p # o => loop'[p] = loop[p]
  BY DEF Parts
<1> QED BY <1>1, NoneLost DEF Pending

(* A row is added that is open, or that a loop starts on.                  *)
LEMMA AddsDropNone ==
  ASSUME Parts, NoneDropped, NEW r, rows' = Append(rows, r), queue' = queue,
         NEW o \in Owners, NEW l, loop' = [loop EXCEPT ![o] = l],
         loop[o].pc # "decide",
         r.status # "Failed" \/ (l.row = Len(rows') /\ l.pc = "decide")
  PROVE  NoneDropped'
<1>1. /\ Ids' = Ids \cup {Len(rows')} /\ rows'[Len(rows')] = r
      /\ \A id \in Ids : rows'[id] = rows[id]
  <2>1. rows \in Seq(CappedRow)
    BY DEF Parts
  <2> QED BY <2>1 DEF Ids
<1>2. \A p \in Owners : loop'[p] = IF p = o THEN l ELSE loop[p]
  BY DEF Parts
<1>3. ASSUME NEW id \in Ids', Pending(id)'
      PROVE  (id \in Ids /\ Pending(id)) \/ Awaited(id)'
  <2>1. CASE id \in Ids
    BY <1>1, <1>3, <2>1 DEF Pending
  <2>2. CASE id = Len(rows')
    <3>1. loop'[o].row = id /\ loop'[o].pc = "decide"
      BY <1>1, <1>2, <1>3, <2>2 DEF Pending
    <3> QED BY <3>1 DEF Awaited
  <2> QED BY <1>1, <2>1, <2>2
<1> QED BY <1>2, <1>3, NoneLost

LEMMA RetryDropsNone ==
  ASSUME Parts, Trail, NoneDropped, MaxAttempts > 1, NEW o \in Owners,
         Retry(o) \/ ResubmissionReplyLost(o)
  PROVE  NoneDropped'
<1> DEFINE L == loop[o]
<1>1. ASSUME rows' = rows PROVE \A id \in Ids' : Pending(id)' => id \in Ids /\ Pending(id)
  BY <1>1 DEF Pending, Ids
<1>2. CASE GiveUp(o)
  <2>1. L.pc = "decide" /\ L.attempt >= MaxAttempts /\ rows' = rows /\ queue' = queue
        /\ loop' = [loop EXCEPT ![o] = Off]
    BY <1>2 DEF GiveUp, Exhausted, Finish
  <2>2. L.attempt \in Nat /\ Len(rows[L.row].decided) = L.attempt - 1
    BY <2>1, Typed DEF Trail, LoopsHold, Progress, On
  <2>3. rows[L.row].decided # <<>>
    BY <2>1, <2>2, OrchestratorAssumption
  <2> QED BY <1>1, <2>1, <2>3, MovesDropNone
<1>3. CASE RecordResubmission(o)
  <2> DEFINE r == NewRow(rows[L.row].bundle, L.row, L.tip, L.p50, TRUE)
  <2>1. /\ rows' = Append(rows, r) /\ queue' = queue /\ L.pc = "record"
        /\ loop' = [loop EXCEPT ![o] = Off]
    BY <1>3 DEF RecordResubmission, Finish
  <2>2. r.status = "Submitted"
    BY DEF NewRow
  <2> HIDE DEF r
  <2> QED BY <2>1, <2>2, AddsDropNone
<1>4. CASE \/ HoldOver(o) \/ GaveUp(o) \/ ResubmissionAccepted(o) \/ ResubmissionReplyLost(o)
           \/ \E marks \in Rejections : ResubmissionRejected(o, marks)
  <2>1. /\ L.pc # "decide" /\ rows' = rows /\ queue' = queue
        /\ \E l : loop' = [loop EXCEPT ![o] = l]
    BY <1>4 DEF HoldOver, GaveUp, Finish, ResubmissionAccepted, ResubmissionReplyLost,
                ResubmissionRejected, Resubmits
  <2> QED BY <1>1, <2>1, MovesDropNone
<1>5. CASE \E feed \in Feeds : LlmDecides(o, feed) \/ BaselineDecides(o, feed)
  BY <1>5, DecideDropsNone DEF LlmDecides, BaselineDecides
<1> QED BY <1>2, <1>3, <1>4, <1>5 DEF Retry

LEMMA SubmitDropsNone ==
  ASSUME Parts, NoneDropped, DriverLoop,
         Submit \/ RecordAccepted \/ \E feed \in Feeds : ReplyLost(feed)
  PROVE  NoneDropped'
<1>0. "driver" \in Owners /\ loop = [loop EXCEPT !["driver"] = loop["driver"]]
  BY DEF Owners, Parts
<1>1. CASE AwaitReady \/ SkipWindow \/ \E feed \in Feeds : Accept(feed)
  <2>1. rows' = rows /\ loop' = loop /\ queue' = queue
    BY <1>1 DEF AwaitReady, SkipWindow, Accept
  <2> QED BY <2>1, NoneLost DEF Pending, Ids
<1>2. CASE RecordAccepted
  <2> DEFINE r == NewRow(driver.bundle, 0, driver.tip, driver.p50, TRUE)
  <2>1. /\ rows' = Append(rows, r) /\ loop' = loop /\ queue' = queue
        /\ loop["driver"].pc # "decide"
    BY <1>2 DEF RecordAccepted, DriverLoop
  <2>2. r.status = "Submitted"
    BY DEF NewRow
  <2> HIDE DEF r
  <2> QED BY <1>0, <2>1, <2>2, AddsDropNone
<1>3. ASSUME NEW feed \in Feeds, ReplyLost(feed) \/ \E marks \in Rejections : Reject(feed, marks)
      PROVE  NoneDropped'
  <2> DEFINE row == NewRow(driver.bundle, 0, NormalTip(feed), Known(feed, P50), FALSE)
             r == [row EXCEPT !.status = "Failed"]
  <2>1. PICK evidence : /\ rows' = Append(rows, r) /\ queue' = queue
                        /\ loop' = [loop EXCEPT !["driver"] = Started(Len(rows'), evidence, row.tip)]
                        /\ loop["driver"].pc # "decide"
    BY <1>3 DEF ReplyLost, Reject, DriverLoop
  <2> DEFINE l == Started(Len(rows'), evidence, row.tip)
  <2>2. l.row = Len(rows') /\ l.pc = "decide"
    BY DEF Started, Off
  <2> HIDE DEF r, l
  <2> QED BY <1>0, <2>1, <2>2, AddsDropNone DEF l
<1> QED BY <1>1, <1>2, <1>3 DEF Submit

LEMMA SweepDropsNone ==
  ASSUME Parts, NoneDropped,
         \/ \E ids \in SUBSET Ids : Sweep(ids)
         \/ \E id \in queue : HandleTimedOut(id)
         \/ \E id \in Ids : Outcome(id)
  PROVE  NoneDropped'
<1>0. \A id \in Ids : rows[id] \in Row
  BY DEF Parts, Ids, CappedRow
<1>1. ASSUME NEW ids \in SUBSET Ids, Sweep(ids) PROVE NoneDropped'
  <2>1. /\ rows' = [id \in Ids |-> IF id \in ids THEN [rows[id] EXCEPT !.status = "Failed"]
                                   ELSE rows[id]]
        /\ loop' = loop /\ queue' = ids /\ queue = {}
    BY <1>1 DEF Sweep
  <2>2. Ids' = Ids
    BY <2>1, Typed DEF Ids
  <2>3. \A id \in Ids' : Pending(id)' => (id \in Ids /\ Pending(id)) \/ Awaited(id)'
    BY <2>1, <2>2 DEF Pending, Awaited
  <2> QED BY <2>1, <2>3, NoneLost
<1>2. ASSUME NEW id \in queue, HandleTimedOut(id) PROVE NoneDropped'
  <2> DEFINE l == Started(id, NotLanding(id), rows[id].tip)
  <2>1. /\ loop' = [loop EXCEPT !["sweeper"] = l] /\ queue' = queue \ {id} /\ rows' = rows
        /\ l.pc = "decide" /\ l.row = id
    BY <1>2 DEF HandleTimedOut, Started, Off
  <2>a. loop["sweeper"].pc = "off"
    BY <1>2 DEF HandleTimedOut, Off
  <2> HIDE DEF l
  <2>2. loop'["sweeper"] = l /\ loop'["driver"] = loop["driver"]
    BY <2>1 DEF Parts, Owners
  <2>3. ASSUME NEW k \in Ids', Pending(k)' PROVE Awaited(k)'
    <3>1. k \in Ids /\ Pending(k)
      BY <2>1, <2>3 DEF Pending, Ids
    <3>2. k \in queue \/ (loop["driver"].row = k /\ loop["driver"].pc = "decide")
      BY <2>a, <3>1 DEF NoneDropped, Awaited, Owners
    <3> QED BY <2>1, <2>2, <3>2 DEF Awaited, Owners
  <2> QED BY <2>3 DEF NoneDropped
<1>3. ASSUME NEW id \in Ids, Outcome(id) PROVE NoneDropped'
  <2>0. PICK to \in Open \cup {"Finalized", "Errored"}, landed \in BOOLEAN, learned \in BOOLEAN :
           Becomes(id, to, landed, learned)
    BY <1>3, OutcomeTells
  <2>1. /\ rows' = [rows EXCEPT ![id] = [rows[id] EXCEPT !.status = to, !.landed = landed,
                                                         !.learned = learned]]
        /\ loop' = loop /\ queue' = queue
    BY <2>0 DEF Becomes
  <2>a. to # "Failed"
    BY DEF Open
  <2>2. Ids' = Ids /\ rows'[id].status # "Failed" /\ \A k \in Ids \ {id} : rows'[k] = rows[k]
    BY <1>0, <2>1, <2>a DEF Parts, Ids, Row
  <2>3. \A k \in Ids' : Pending(k)' => k \in Ids /\ Pending(k)
    BY <2>2 DEF Pending
  <2> QED BY <2>1, <2>3, NoneLost
<1> QED BY <1>1, <1>2, <1>3

LEMMA StepDropsNone ==
  ASSUME Parts, Trail, NoneDropped, DriverLoop, MaxAttempts > 1,
         NoFaultsOf({"db", "crash"}), [Next]_vars
  PROVE  NoneDropped'
<1>1. CASE UNCHANGED vars \/ Drain \/ DrainQueryFails
  <2>1. rows' = rows /\ loop' = loop /\ queue' = queue
    BY <1>1 DEF vars, Drain, Drained, DrainTimesOut, DrainQueryFails
  <2> QED BY <2>1, NoneLost DEF Pending, Ids
<1>2. ~Inject("db") /\ ~Inject("crash")
  BY DEF NoFaultsOf, Inject
<1>3. CASE Fault
  <2>1. \/ DrainQueryFails \/ \E feed \in Feeds : ReplyLost(feed)
        \/ \E o \in Owners : ResubmissionReplyLost(o)
    BY <1>2, <1>3 DEF Fault, RejectUnrecorded, RecordAcceptedFails, Crash, DecideFails,
                      RecordResubmissionFails, HandleFails
  <2> QED BY <1>1, <2>1, SubmitDropsNone, RetryDropsNone
<1> QED BY <1>1, <1>3, SubmitDropsNone, RetryDropsNone, SweepDropsNone DEF Next

(* No failure is dropped, however many rows one sweep finds, however long  *)
(* a row ahead of them keeps the sweeper, and whether or not answers of    *)
(* the engine are lost: every failed row nobody has decided about is       *)
(* queued or about to be decided on. A database error and a crash are what *)
(* can lose one; a limit of one attempt means that nothing is decided.     *)
THEOREM NoFailureIsDropped ==
  ASSUME NoFaultsOf({"db", "crash"}), MaxAttempts > 1
  PROVE  Spec => []FailuresAreDecided
<1>1. Init => NoneDropped /\ DriverLoop
  BY DEF Init, NoneDropped, DriverLoop, Off, Owners, Ids
<1>2. Parts /\ Trail /\ NoneDropped /\ DriverLoop /\ [Next]_vars => (NoneDropped /\ DriverLoop)'
  BY StepDropsNone, NextTells
<1>3. NoneDropped => FailuresAreDecided
  BY DEF NoneDropped, Pending, Awaited, FailuresAreDecided
<1> QED BY <1>1, <1>2, <1>3, TrailInvariance, PTL DEF Spec

-----------------------------------------------------------------------------
(* At most one submission of a bundle is in flight, or landed and not      *)
(* swept. A landing the tracker learned of settles its row, and the rows   *)
(* of a bundle form one chain of retries, of which only the last can be    *)
(* live or be taken up again; the driver has not touched the bundles ahead *)
(* of it; and as long as the engine's answers arrive, an accepted          *)
(* submission without a row is never followed by another one: nobody holds *)
(* a row of its bundle any more.                                           *)
LearnedSettled == \A id \in Ids : rows[id].learned => rows[id].status \in {"Processed", "Finalized"}

OneHead ==
  \A i \in Ids, j \in Ids :
    rows[i].bundle = rows[j].bundle /\ Unretried(i) /\ Unretried(j) => i = j

Untouched(b) == orphans[b] = 0 /\ \A id \in Ids : rows[id].bundle # b

NotReached(b) ==
  \/ b > driver.bundle
  \/ b = driver.bundle /\ driver.pc \in {"warmup", "submit", "record"}

AheadUntouched == \A b \in Bundles : NotReached(b) => Untouched(b)

Holds(id) == id \in queue \/ \E o \in Owners : On(o) /\ loop[o].row = id

Dead(b) == \A id \in Ids : rows[id].bundle = b => rows[id].status = "Failed"

OrphansSettled ==
  \A b \in Bundles : orphans[b] # 0 =>
    /\ orphans[b] = 1 /\ Dead(b)
    /\ \A id \in Ids : Holds(id) => rows[id].bundle # b

RepliesArrive == NoFaultsOf({"reply"})

OneClaim ==
  LearnedSettled /\ OneHead /\ AheadUntouched /\ (RepliesArrive => OrphansSettled)

LEMMA HeldIsHead ==
  ASSUME Parts, Trail, NEW id \in Ids, Holds(id)
  PROVE  rows[id].status = "Failed" /\ Unretried(id)
  BY DEF Trail, LoopsHold, QueueHolds, Holds

(* The rows of a bundle somebody holds a row of have all failed.           *)
LEMMA HeldIsDead ==
  ASSUME Parts, Trail, OneClaim, NEW h \in Ids, Holds(h)
  PROVE  /\ Dead(rows[h].bundle) /\ ~NotReached(rows[h].bundle)
         /\ RepliesArrive => orphans[rows[h].bundle] = 0
<1>1. rows[h].status = "Failed" /\ Unretried(h) /\ rows[h].bundle \in Bundles
  BY HeldIsHead, Typed
<1>2. ASSUME NEW id \in Ids, rows[id].bundle = rows[h].bundle PROVE rows[id].status = "Failed"
  <2>1. CASE Unretried(id)
    BY <1>1, <1>2, <2>1 DEF OneClaim, OneHead
  <2>2. CASE ~Unretried(id)
    <3>1. PICK k \in Ids : rows[k].from = id
      BY <2>2 DEF Unretried
    <3>2. id # 0
      BY Typed
    <3> QED BY <3>1, <3>2 DEF Trail, RetriesExplained, Retryable
  <2> QED BY <2>1, <2>2
<1> QED BY <1>1, <1>2 DEF OneClaim, OrphansSettled, AheadUntouched, Untouched, Dead

(* What is accepted and awaits its INSERT is all that is left of a bundle. *)
LEMMA SmallCardinality ==
  ASSUME NEW S, NEW x, S \subseteq {x}
  PROVE  Cardinality(S) = IF x \in S THEN 1 ELSE 0
<1>1. S = IF x \in S THEN {x} ELSE {}
  OBVIOUS
<1> QED BY <1>1, FS_Singleton, FS_EmptySet

LEMMA AwaitingIsOne ==
  ASSUME Parts, Trail, OneClaim, NEW b \in Bundles
  PROVE  /\ AwaitingInsert(b) \in {0, 1}
         /\ AwaitingInsert(b) = 1 =>
              /\ RepliesArrive => orphans[b] = 0
              /\ Dead(b) /\ ~(b > driver.bundle)
              /\ b = driver.bundle => driver.pc \notin {"warmup", "submit"}
<1> DEFINE S == {o \in Owners : loop[o].pc = "record" /\ rows[loop[o].row].bundle = b}
           d == IF driver.pc = "record" /\ driver.bundle = b THEN 1 ELSE 0
<1>1. AwaitingInsert(b) = d + Cardinality(S)
  BY DEF AwaitingInsert
<1>2. ASSUME NEW o \in S
      PROVE  /\ On(o) /\ loop[o].row \in Ids /\ Holds(loop[o].row) /\ o \in Owners
             /\ rows[loop[o].row].bundle = b
  BY <1>2, Typed DEF On, Holds
<1>3. ASSUME NEW o \in S, NEW p \in S PROVE o = p
  <2>1. loop[o].row = loop[p].row
    BY <1>2, HeldIsHead DEF OneClaim, OneHead
  <2> QED BY <1>2, <2>1 DEF Trail, HeldOnce, Owners
<1>4. CASE S = {}
  <2>1. AwaitingInsert(b) = d
    <3> HIDE DEF S
    <3>1. Cardinality(S) = 0 /\ d \in Nat
      BY <1>4, FS_EmptySet
    <3> QED BY <1>1, <3>1
  <2>2. d = 1 => Untouched(b) /\ b = driver.bundle /\ driver.pc = "record"
    BY DEF OneClaim, AheadUntouched, NotReached
  <2>3. driver.bundle \in Nat
    BY DEF Parts, Driver, Bundles
  <2> QED BY <2>1, <2>2, <2>3 DEF Untouched, Dead
<1>5. CASE S # {}
  <2>1. PICK o \in S : TRUE
    BY <1>5
  <2>2. S \subseteq {o}
    BY <1>3, <2>1
  <2> HIDE DEF S
  <2>3. Cardinality(S) = 1
    BY <2>1, <2>2, SmallCardinality
  <2>4. Dead(b) /\ ~NotReached(b) /\ (RepliesArrive => orphans[b] = 0)
    BY <1>2, <2>1, HeldIsDead
  <2>5. d = 0
    BY <2>4 DEF NotReached
  <2>6. AwaitingInsert(b) = 1
    BY <1>1, <2>3, <2>5
  <2>7. /\ ~(b > driver.bundle)
        /\ b = driver.bundle => driver.pc \notin {"warmup", "submit"}
    BY <2>4 DEF NotReached
  <2> QED BY <2>4, <2>6, <2>7
<1> QED BY <1>4, <1>5

(* The claims on a bundle apart from the overlooked landings.              *)
Live(b) ==
  {id \in Ids : /\ rows[id].bundle = b /\ rows[id].accepted /\ rows[id].status # "Failed"
                /\ rows[id].landed \/ rows[id].status = "Submitted"}

LEMMA LiveOnce ==
  ASSUME Parts, Trail, OneClaim, NEW b \in Bundles
  PROVE  LET claims == Cardinality(Live(b)) + AwaitingInsert(b)
         IN  claims = 0 \/ (claims = 1 /\ (RepliesArrive => orphans[b] = 0))
<1> DEFINE claims == Cardinality(Live(b)) + AwaitingInsert(b)
<1>2. ASSUME NEW id \in Live(b)
      PROVE  id \in Ids /\ rows[id].bundle = b /\ rows[id].status # "Failed" /\ Unretried(id)
  <2>1. id \in Ids /\ rows[id].bundle = b /\ rows[id].status # "Failed"
    BY <1>2 DEF Live
  <2>2. id # 0
    BY <2>1, Typed
  <2> QED BY <2>1, <2>2 DEF Trail, RetriesExplained, Retryable, Unretried
<1>3. CASE Live(b) = {}
  <2>1. Cardinality(Live(b)) = 0
    BY <1>3, FS_EmptySet
  <2>2. CASE AwaitingInsert(b) = 0
    BY <2>1, <2>2
  <2>3. CASE AwaitingInsert(b) = 1
    BY <2>1, <2>3, AwaitingIsOne
  <2> QED BY <2>2, <2>3, AwaitingIsOne
<1>4. CASE Live(b) # {}
  <2>1. PICK id \in Live(b) : TRUE
    BY <1>4
  <2>2. Live(b) \subseteq {id}
    BY <1>2, <2>1 DEF OneClaim, OneHead
  <2>3. ~Dead(b)
    BY <1>2, <2>1 DEF Dead
  <2>4. RepliesArrive => orphans[b] = 0
    BY <2>3 DEF OneClaim, OrphansSettled
  <2>5. Cardinality(Live(b)) = 1
    BY <2>1, <2>2, SmallCardinality
  <2>6. AwaitingInsert(b) = 0
    BY <2>3, AwaitingIsOne
  <2> QED BY <2>4, <2>5, <2>6
<1> QED BY <1>3, <1>4

(* Every other claim is of a landing the sweep overlooked: a row that      *)
(* failed was never known to have landed.                                  *)
LEMMA ClaimedOnce ==
  ASSUME Parts, Trail, OneClaim, NEW b \in Bundles
  PROVE  /\ Cardinality(Overlooked(b)) \in Nat /\ Claimed(b) \in Nat
         /\ Claimed(b) <= Cardinality(Live(b)) + AwaitingInsert(b) + Cardinality(Overlooked(b))
<1> DEFINE All == {id \in Ids :
                     /\ rows[id].bundle = b /\ rows[id].accepted
                     /\ rows[id].landed \/ rows[id].status = "Submitted"}
<1>1. Claimed(b) = Cardinality(All) + AwaitingInsert(b)
  BY DEF Claimed
<1>2. ASSUME NEW id \in All PROVE id \in Live(b) \cup Overlooked(b)
  <2>1. CASE rows[id].status # "Failed"
    BY <1>2, <2>1 DEF Live
  <2>2. CASE rows[id].status = "Failed"
    <3>1. id \in Ids /\ rows[id].bundle = b /\ rows[id].landed
      BY <1>2, <2>2
    <3>2. ~rows[id].learned
      BY <2>2, <3>1 DEF OneClaim, LearnedSettled
    <3> QED BY <2>2, <3>1, <3>2 DEF Overlooked
  <2> QED BY <2>1, <2>2
<1>3. /\ IsFiniteSet(Live(b)) /\ IsFiniteSet(Overlooked(b)) /\ IsFiniteSet(All)
  <2>1. IsFiniteSet(Ids)
    BY FS_Interval DEF Parts, Ids
  <2>2. Live(b) \subseteq Ids /\ Overlooked(b) \subseteq Ids /\ All \subseteq Ids
    BY DEF Live, Overlooked
  <2> HIDE DEF All
  <2> QED BY <2>1, <2>2, FS_Subset
<1> HIDE DEF All
<1>4. /\ Cardinality(All) \in Nat /\ Cardinality(Live(b)) \in Nat
      /\ Cardinality(Overlooked(b)) \in Nat
  BY <1>3, FS_CardinalityType
<1>5. Cardinality(All) <= Cardinality(Live(b)) + Cardinality(Overlooked(b))
  <2>1. IsFiniteSet(Live(b) \cup Overlooked(b))
    BY <1>3, FS_Union
  <2>2. Cardinality(All) <= Cardinality(Live(b) \cup Overlooked(b))
    BY <1>2, <2>1, FS_Subset
  <2>3. Live(b) \cap Overlooked(b) = {}
    BY DEF Live, Overlooked
  <2>4. Cardinality(Live(b) \cup Overlooked(b))
          = Cardinality(Live(b)) + Cardinality(Overlooked(b)) - Cardinality(Live(b) \cap Overlooked(b))
    BY <1>3, FS_Union
  <2>5. Cardinality(Live(b) \cap Overlooked(b)) = 0
    BY <2>3, FS_EmptySet
  <2> QED BY <1>4, <2>2, <2>4, <2>5
<1>6. AwaitingInsert(b) \in Nat
  BY AwaitingIsOne
<1> QED BY <1>1, <1>4, <1>5, <1>6

LEMMA IssuedOnce ==
  ASSUME Parts, Trail, OneClaim
  PROVE  KnownAtMostOnce /\ (RepliesArrive => AtMostOnce)
<1>1. ASSUME NEW b \in Bundles
      PROVE  /\ Claimed(b) <= 1 + Cardinality(Overlooked(b))
             /\ RepliesArrive => Issued(b) <= 1 + Cardinality(Overlooked(b))
  <2> DEFINE claims == Cardinality(Live(b)) + AwaitingInsert(b)
             missed == Cardinality(Overlooked(b))
  <2>1. missed \in Nat /\ Claimed(b) \in Nat /\ Claimed(b) <= claims + missed
    BY ClaimedOnce
  <2>2. claims = 0 \/ (claims = 1 /\ (RepliesArrive => orphans[b] = 0))
    BY LiveOnce
  <2>3. orphans[b] \in Nat /\ (RepliesArrive => orphans[b] \in {0, 1})
    BY DEF Parts, OneClaim, OrphansSettled
  <2> HIDE DEF claims, missed
  <2>4. Claimed(b) <= 1 + missed
    BY <2>1, <2>2
  <2>5. RepliesArrive => Claimed(b) + orphans[b] <= 1 + missed
    BY <2>1, <2>2, <2>3
  <2> QED BY <2>4, <2>5 DEF Issued, missed
<1> QED BY <1>1 DEF KnownAtMostOnce, AtMostOnce

(* Rows move on, loops end or go on, the driver goes forward: nothing of   *)
(* this makes a claim.                                                     *)
GoesForward == \A b \in Bundles : NotReached(b)' => NotReached(b)

LEMMA KeepsClaims ==
  ASSUME Parts, Trail, OneClaim, LearnedSettled', Ids' = Ids, orphans' = orphans, GoesForward,
         \A id \in Ids : /\ rows'[id].from = rows[id].from
                         /\ rows'[id].bundle = rows[id].bundle
                         /\ rows'[id].status = rows[id].status \/ rows[id].status # "Failed"
                         /\ Holds(id)' => Holds(id) \/ rows[id].status # "Failed"
  PROVE  OneClaim'
<1>1. OneHead'
  BY DEF OneClaim, OneHead, Unretried
<1>2. AheadUntouched'
  BY DEF OneClaim, AheadUntouched, Untouched, GoesForward
<1>3. ASSUME RepliesArrive, NEW b \in Bundles, orphans'[b] # 0
      PROVE  /\ orphans'[b] = 1
             /\ \A id \in Ids : rows'[id].bundle = b => rows'[id].status = "Failed"
             /\ \A id \in Ids : Holds(id)' => rows'[id].bundle # b
  BY <1>3 DEF OneClaim, OrphansSettled, Dead
<1>4. RepliesArrive => OrphansSettled'
  BY <1>3 DEF OrphansSettled, Dead
<1> QED BY <1>1, <1>2, <1>4 DEF OneClaim, RepliesArrive, NoFaultsOf

(* The first row of a bundle, or one for the retry of a row that was held; *)
(* the row of a submission whose answer was lost leaves an orphan behind.  *)
LEMMA AddsClaim ==
  ASSUME Parts, Trail, OneClaim, NEW r, rows' = Append(rows, r), r.learned = FALSE,
         orphans' = orphans \/ (Orphan(r.bundle) /\ ~RepliesArrive),
         RepliesArrive => orphans[r.bundle] = 0, GoesForward,
         \A b \in Bundles : NotReached(b)' => b # r.bundle,
         \A id \in Ids : Holds(id)' => Holds(id),
         \/ r.from = 0 /\ \A id \in Ids : rows[id].bundle # r.bundle
         \/ r.from \in Ids /\ Unretried(r.from) /\ rows[r.from].bundle = r.bundle
  PROVE  OneClaim'
<1> DEFINE new == Len(rows')
<1>1. /\ Ids' = Ids \cup {new} /\ new \notin Ids /\ 0 \notin Ids
      /\ rows'[new] = r /\ \A id \in Ids : rows'[id] = rows[id]
  <2>1. rows \in Seq(CappedRow)
    BY DEF Parts
  <2> QED BY <2>1 DEF Ids
<1> HIDE DEF new
<1>2. LearnedSettled'
  <2>1. ASSUME NEW id \in Ids', rows'[id].learned
        PROVE  rows'[id].status \in {"Processed", "Finalized"}
    BY <1>1, <2>1 DEF OneClaim, LearnedSettled
  <2> QED BY <2>1 DEF LearnedSettled
<1>3. ASSUME NEW id \in Ids, StaysUnretried(id) PROVE Unretried(id) /\ r.from # id
  BY <1>1, <1>3 DEF Unretried, StaysUnretried
<1>4. OneHead'
  <2>1. ASSUME NEW i \in Ids, rows[i].bundle = r.bundle, StaysUnretried(i) PROVE FALSE
    <3>1. r.from \in Ids /\ Unretried(r.from) /\ rows[r.from].bundle = r.bundle
      BY <2>1
    <3>2. Unretried(i) /\ r.from # i
      BY <1>3, <2>1
    <3> QED BY <2>1, <3>1, <3>2 DEF OneClaim, OneHead
  <2>2. ASSUME NEW i \in Ids', NEW j \in Ids', rows'[i].bundle = rows'[j].bundle,
               StaysUnretried(i), StaysUnretried(j)
        PROVE  i = j
    <3>1. CASE i = new \/ j = new
      BY <1>1, <2>1, <2>2, <3>1
    <3>2. CASE i \in Ids /\ j \in Ids
      <4>1. rows[i].bundle = rows[j].bundle /\ Unretried(i) /\ Unretried(j)
        BY <1>1, <1>3, <2>2, <3>2
      <4> QED BY <3>2, <4>1 DEF OneClaim, OneHead
    <3> QED BY <1>1, <3>1, <3>2
  <2> QED BY <2>2 DEF OneHead, Unretried, StaysUnretried
<1>a. /\ \A b \in Bundles : b # r.bundle => orphans'[b] = orphans[b]
      /\ RepliesArrive => orphans' = orphans
  BY DEF Parts, Orphan
<1>5. AheadUntouched'
  <2>1. ASSUME NEW b \in Bundles, NotReached(b)'
        PROVE  orphans'[b] = 0 /\ \A id \in Ids' : rows'[id].bundle # b
    <3>1. Untouched(b) /\ b # r.bundle
      BY <2>1 DEF OneClaim, AheadUntouched, GoesForward
    <3> QED BY <1>1, <1>a, <2>1, <3>1 DEF Untouched
  <2> QED BY <2>1 DEF AheadUntouched, Untouched
<1>6. RepliesArrive => OrphansSettled'
  <2>1. ASSUME RepliesArrive, NEW b \in Bundles, orphans'[b] # 0
        PROVE  /\ orphans'[b] = 1
               /\ \A id \in Ids' : rows'[id].bundle = b => rows'[id].status = "Failed"
               /\ \A id \in Ids' : Holds(id)' => rows'[id].bundle # b
    <3>1. b # r.bundle /\ orphans[b] # 0
      BY <1>a, <2>1
    <3>2. /\ orphans[b] = 1
          /\ \A id \in Ids : rows[id].bundle = b => rows[id].status = "Failed"
          /\ \A id \in Ids : Holds(id) => rows[id].bundle # b
      BY <2>1, <3>1 DEF OneClaim, OrphansSettled, Dead
    <3> QED BY <1>1, <1>a, <2>1, <3>1, <3>2
  <2> QED BY <2>1 DEF OrphansSettled, Dead
<1> QED BY <1>2, <1>4, <1>5, <1>6 DEF OneClaim, RepliesArrive, NoFaultsOf

(* An accepted submission without a row: if its INSERT failed, its bundle  *)
(* had no other claim and nobody goes on with it.                          *)
LEMMA OrphansClaim ==
  ASSUME Parts, Trail, OneClaim, NEW b \in Bundles, Orphan(b),
         rows' = rows, GoesForward, ~NotReached(b)',
         RepliesArrive =>
           /\ orphans[b] = 0 /\ Dead(b)
           /\ \A id \in Ids : Holds(id)' => Holds(id) /\ rows[id].bundle # b
  PROVE  OneClaim'
<1>1. /\ orphans[b] = 0 => orphans'[b] = 1
      /\ \A c \in Bundles : c # b => orphans'[c] = orphans[c]
  BY DEF Parts, Orphan
<1>2. Ids' = Ids
  BY DEF Ids
<1>3. LearnedSettled' /\ OneHead'
  BY <1>2 DEF OneClaim, LearnedSettled, OneHead, Unretried
<1>4. AheadUntouched'
  <2>1. ASSUME NEW c \in Bundles, NotReached(c)'
        PROVE  orphans'[c] = 0 /\ \A id \in Ids' : rows'[id].bundle # c
    <3>1. c # b /\ Untouched(c)
      BY <2>1 DEF OneClaim, AheadUntouched, GoesForward
    <3> QED BY <1>1, <1>2, <3>1 DEF Untouched
  <2> QED BY <2>1 DEF AheadUntouched, Untouched
<1>5. RepliesArrive => OrphansSettled'
  <2>1. ASSUME RepliesArrive, NEW c \in Bundles, orphans'[c] # 0
        PROVE  /\ orphans'[c] = 1
               /\ \A id \in Ids : rows[id].bundle = c => rows[id].status = "Failed"
               /\ \A id \in Ids : Holds(id)' => rows[id].bundle # c
    <3>1. CASE c = b
      BY <1>1, <2>1, <3>1 DEF Dead
    <3>2. CASE c # b
      BY <1>1, <2>1, <3>2 DEF OneClaim, OrphansSettled, Dead
    <3> QED BY <3>1, <3>2
  <2> QED BY <1>2, <2>1 DEF OrphansSettled, Dead
<1> QED BY <1>3, <1>4, <1>5 DEF OneClaim, RepliesArrive, NoFaultsOf

LEMMA DriverGoesForward ==
  ASSUME Parts,
         \/ driver' = driver \/ driver' = EndSubmissions \/ driver' = NextSubmission
         \/ driver'.bundle = driver.bundle /\ driver'.pc \in {"retry", "drain", "exited"}
         \/ driver'.bundle = driver.bundle /\ driver.pc \in {"warmup", "submit", "record"}
  PROVE  GoesForward
<1>1. driver \in Driver /\ driver.bundle \in Nat /\ \A b \in Bundles : b \in Nat
  BY DEF Parts, Driver, Bundles
<1>2. CASE driver' = driver
  BY <1>2 DEF GoesForward, NotReached
<1>3. CASE driver' = EndSubmissions \/ driver' = NextSubmission
  <2>1. \/ driver'.bundle = driver.bundle + 1
        \/ driver'.bundle = driver.bundle /\ driver'.pc = "drain"
    BY <1>1, <1>3 DEF EndSubmissions, NextSubmission, Driver
  <2> QED BY <1>1, <2>1 DEF GoesForward, NotReached
<1>4. CASE \/ driver'.bundle = driver.bundle /\ driver'.pc \in {"retry", "drain", "exited"}
           \/ driver'.bundle = driver.bundle /\ driver.pc \in {"warmup", "submit", "record"}
  BY <1>4 DEF GoesForward, NotReached
<1> QED BY <1>2, <1>3, <1>4

LEMMA HoldsOn ==
  ASSUME Parts, NEW o \in Owners, NEW l, loop' = [loop EXCEPT ![o] = l], queue' = queue,
         l.pc = "off" \/ (On(o) /\ l.row = loop[o].row)
  PROVE  \A id : Holds(id)' => Holds(id)
<1>1. \A p \in Owners : loop'[p] = IF p = o THEN l ELSE loop[p]
  BY DEF Parts
<1> QED BY <1>1 DEF Holds, On

LEMMA SameRowsKeepClaims ==
  ASSUME Parts, Trail, OneClaim, rows' = rows, orphans' = orphans, GoesForward,
         \A id \in Ids : Holds(id)' => Holds(id)
  PROVE  OneClaim'
<1>1. Ids' = Ids /\ LearnedSettled'
  BY DEF Ids, OneClaim, LearnedSettled
<1> QED BY <1>1, KeepsClaims

LEMMA LoggedKeepsClaims ==
  ASSUME Parts, Trail, OneClaim, NEW o \in Owners, On(o), NEW agent, NEW terminal,
         rows' = Logged(o, agent, terminal), orphans' = orphans, GoesForward,
         \A id \in Ids : Holds(id)' => Holds(id)
  PROVE  OneClaim'
<1>1. PICK log : rows' = [rows EXCEPT ![loop[o].row] = [rows[loop[o].row] EXCEPT !.decided = log]]
  BY DEF Logged
<1>2. loop[o].row \in Ids /\ \A id \in Ids : rows[id] \in Row
  BY Typed DEF Parts, CappedRow, Ids
<1>3. Ids' = Ids
  BY <1>1 DEF Ids
<1>4. \A id \in Ids : /\ rows'[id].from = rows[id].from /\ rows'[id].bundle = rows[id].bundle
                      /\ rows'[id].status = rows[id].status
                      /\ rows'[id].learned = rows[id].learned
  BY <1>1, <1>2 DEF Ids, Row
<1>5. LearnedSettled'
  BY <1>3, <1>4 DEF OneClaim, LearnedSettled
<1> QED BY <1>3, <1>4, <1>5, KeepsClaims

LEMMA RetryClaims ==
  ASSUME Parts, Trail, OneClaim, NEW o \in Owners,
         \/ Retry(o)
         \/ DecideFails(o) \/ ResubmissionReplyLost(o) \/ RecordResubmissionFails(o)
  PROVE  OneClaim'
<1> DEFINE L == loop[o]
<1>0. L \in Loop /\ Off.pc = "off"
  BY Typed DEF CappedLoop, Off
<1>1. ASSUME NEW ok \in BOOLEAN, Finish(o, ok)
      PROVE  GoesForward /\ loop' = [loop EXCEPT ![o] = Off]
  BY <1>1, DriverGoesForward DEF Finish
<1>2. CASE GiveUp(o) \/ GaveUp(o)
  <2>1. rows' = rows /\ orphans' = orphans /\ queue' = queue /\ Finish(o, TRUE)
    BY <1>2 DEF GiveUp, GaveUp
  <2> QED BY <1>0, <1>1, <2>1, HoldsOn, SameRowsKeepClaims
<1>3. CASE \/ HoldOver(o) \/ ResubmissionAccepted(o)
           \/ \E marks \in Rejections : ResubmissionRejected(o, marks)
  <2>1. /\ rows' = rows /\ orphans' = orphans /\ queue' = queue /\ driver' = driver /\ On(o)
        /\ \E l : loop' = [loop EXCEPT ![o] = l] /\ l.row = L.row
    BY <1>0, <1>3 DEF HoldOver, ResubmissionAccepted, ResubmissionRejected, Resubmits, On, Loop
  <2> QED BY <2>1, DriverGoesForward, HoldsOn, SameRowsKeepClaims
<1>4. ASSUME NEW agent, NEW actions, NEW feed, Decide(o, agent, actions, feed)
      PROVE  OneClaim'
  <2> DEFINE plan == Plan(Clamped(actions), L.tip)
             l == [L EXCEPT !.pc = IF plan.holds THEN "hold" ELSE "execute",
                            !.tip = plan.tip, !.p50 = Known(feed, P50),
                            !.terminal = plan.terminal]
  <2>1. /\ rows' = Logged(o, agent, plan.terminal) /\ queue' = queue /\ orphans' = orphans
        /\ driver' = driver /\ loop' = [loop EXCEPT ![o] = l] /\ On(o)
    BY <1>4 DEF Decide, Deciding, On
  <2> HIDE DEF plan
  <2>2. l.row = L.row
    <3>1. L \in Loop
      BY <1>0
    <3> QED BY <3>1 DEF Loop
  <2> HIDE DEF l
  <2> QED BY <2>1, <2>2, DriverGoesForward, HoldsOn, LoggedKeepsClaims
<1>5. CASE \E feed \in Feeds : LlmDecides(o, feed) \/ BaselineDecides(o, feed)
  BY <1>4, <1>5 DEF LlmDecides, BaselineDecides
<1>6. CASE DecideFails(o)
  <2>1. /\ On(o) /\ Finish(o, FALSE) /\ queue' = queue /\ orphans' = orphans
        /\ rows' = rows \/ \E terminal : rows' = Logged(o, "llm", terminal)
    BY <1>6 DEF DecideFails, Deciding, On
  <2> QED BY <1>0, <1>1, <2>1, HoldsOn, SameRowsKeepClaims, LoggedKeepsClaims
<1>7. ASSUME L.pc \in {"execute", "record"}
      PROVE  /\ On(o) /\ L.row \in Ids /\ L.row \in Nat /\ Holds(L.row) /\ Unretried(L.row)
             /\ Dead(rows[L.row].bundle)
             /\ RepliesArrive => orphans[rows[L.row].bundle] = 0
             /\ ~NotReached(rows[L.row].bundle) /\ rows[L.row].bundle \in Bundles
  <2>1. On(o) /\ L.row \in Ids /\ L.row \in Nat /\ Holds(L.row) /\ rows[L.row].bundle \in Bundles
    BY <1>7, Typed DEF On, Holds
  <2> QED BY <2>1, HeldIsHead, HeldIsDead
<1>8. CASE RecordResubmission(o)
  <2> DEFINE r == NewRow(rows[L.row].bundle, L.row, L.tip, L.p50, TRUE)
  <2>1. /\ rows' = Append(rows, r) /\ Finish(o, TRUE) /\ L.pc = "record"
        /\ queue' = queue /\ orphans' = orphans
    BY <1>8 DEF RecordResubmission
  <2>2. r.from = L.row /\ r.bundle = rows[L.row].bundle /\ r.learned = FALSE
    BY DEF NewRow
  <2> HIDE DEF r
  <2>3. GoesForward /\ \A id \in Ids : Holds(id)' => Holds(id)
    BY <1>0, <1>1, <2>1, HoldsOn
  <2>4. \A b \in Bundles : NotReached(b)' => b # r.bundle
    BY <1>7, <2>1, <2>2, <2>3 DEF GoesForward
  <2> QED BY <1>7, <2>1, <2>2, <2>3, <2>4, AddsClaim
<1>9. CASE RecordResubmissionFails(o)
  <2>0. PICK b \in Bundles : b = rows[L.row].bundle
    BY <1>7, <1>9 DEF RecordResubmissionFails
  <2>1. /\ Orphan(b) /\ Finish(o, FALSE) /\ L.pc = "record" /\ rows' = rows /\ queue' = queue
    BY <1>9, <2>0 DEF RecordResubmissionFails
  <2>2. GoesForward /\ \A id \in Ids : Holds(id)' => Holds(id)
    BY <1>0, <1>1, <2>1, HoldsOn
  <2>3. ASSUME NEW id \in Ids, Holds(id)', rows[id].bundle = b PROVE FALSE
    <3>1. id = L.row
      <4>1. Unretried(id)
        BY <2>2, <2>3, HeldIsHead
      <4> QED BY <1>7, <2>0, <2>1, <2>3, <4>1 DEF OneClaim, OneHead
    <3>2. L.row \notin queue /\ \A p \in Owners \ {o} : On(p) => loop[p].row # L.row
      BY <1>7, <2>1 DEF Trail, LoopsHold, HeldOnce, Owners
    <3>3. \A p \in Owners : loop'[p] = IF p = o THEN Off ELSE loop[p]
      BY <1>1, <2>1 DEF Parts
    <3> QED BY <1>0, <2>1, <2>3, <3>1, <3>2, <3>3 DEF Holds, On
  <2>4. ~NotReached(b)'
    <3>1. ~NotReached(b)
      BY <1>7, <2>0, <2>1
    <3> QED BY <2>2, <3>1 DEF GoesForward
  <2> QED BY <1>7, <2>0, <2>1, <2>2, <2>3, <2>4, OrphansClaim
<1>10. CASE ResubmissionReplyLost(o)
  <2>0. PICK b \in Bundles : b = rows[L.row].bundle
    BY <1>7, <1>10 DEF ResubmissionReplyLost, Resubmits
  <2>1. /\ Orphan(b) /\ L.pc = "execute" /\ rows' = rows /\ driver' = driver
        /\ "reply" \in FaultKinds
    BY <1>10, <2>0 DEF ResubmissionReplyLost, Resubmits, Inject
  <2>a. ~RepliesArrive
    BY <2>1 DEF RepliesArrive, NoFaultsOf
  <2>2. GoesForward
    BY <2>1, DriverGoesForward
  <2>3. ~NotReached(b)'
    BY <1>7, <2>0, <2>1, <2>2 DEF GoesForward
  <2> QED BY <2>1, <2>a, <2>2, <2>3, OrphansClaim
<1> QED BY <1>2, <1>3, <1>5, <1>6, <1>8, <1>9, <1>10 DEF Retry

LEMMA SubmitClaims ==
  ASSUME Parts, Trail, OneClaim,
         \/ Submit \/ RecordAccepted \/ RecordAcceptedFails \/ Drain \/ DrainQueryFails
         \/ \E feed \in Feeds : RejectUnrecorded(feed) \/ ReplyLost(feed)
  PROVE  OneClaim'
<1>0. driver \in Driver /\ driver.bundle \in Bundles /\ driver.bundle \in Nat
      /\ \A b \in Bundles : b \in Nat
  BY DEF Parts, Driver, Bundles
<1>1. CASE \/ AwaitReady \/ SkipWindow \/ Drain \/ DrainQueryFails
           \/ \E feed \in Feeds : Accept(feed)
  <2>1. /\ rows' = rows /\ loop' = loop /\ queue' = queue /\ orphans' = orphans
        /\ \/ driver' = EndSubmissions \/ driver' = NextSubmission
           \/ driver'.bundle = driver.bundle /\ driver'.pc = "exited"
           \/ driver'.bundle = driver.bundle /\ driver.pc \in {"warmup", "submit", "record"}
    BY <1>0, <1>1 DEF AwaitReady, SkipWindow, Accept, Drain, Drained, DrainTimesOut,
                      DrainQueryFails, Exit, Driver
  <2>2. \A id : Holds(id)' => Holds(id)
    BY <2>1 DEF Holds, On
  <2>3. GoesForward
    BY <2>1, DriverGoesForward
  <2> QED BY <2>1, <2>2, <2>3, SameRowsKeepClaims
<1>2. ASSUME driver.pc \in {"submit", "record"},
             \/ driver' = NextSubmission \/ driver' = EndSubmissions
             \/ driver' = [driver EXCEPT !.pc = "retry"]
      PROVE  /\ GoesForward /\ Untouched(driver.bundle)
             /\ \A b \in Bundles : NotReached(b)' => b # driver.bundle
  <2>1. Untouched(driver.bundle)
    BY <1>0, <1>2 DEF OneClaim, AheadUntouched, NotReached
  <2>2. \/ driver'.bundle = driver.bundle + 1
        \/ driver'.bundle = driver.bundle /\ driver'.pc \in {"retry", "drain"}
    BY <1>0, <1>2 DEF NextSubmission, EndSubmissions, Driver
  <2>3. \A b \in Bundles : NotReached(b)' => b # driver.bundle
    BY <1>0, <2>2 DEF NotReached
  <2>4. GoesForward
    BY <1>0, <2>2 DEF GoesForward, NotReached
  <2> QED BY <2>1, <2>3, <2>4
<1>3. ASSUME NEW r, r.bundle = driver.bundle, r.from = 0, r.learned = FALSE,
             \/ rows' \in {rows, Append(rows, r)} /\ orphans' = orphans
             \/ rows' = Append(rows, r) /\ Orphan(r.bundle) /\ ~RepliesArrive,
             driver.pc \in {"submit", "record"},
             \/ driver' = NextSubmission \/ driver' = EndSubmissions
             \/ driver' = [driver EXCEPT !.pc = "retry"],
             \A id \in Ids : Holds(id)' => Holds(id)
      PROVE  OneClaim'
  <2>1. /\ GoesForward /\ Untouched(driver.bundle)
        /\ \A b \in Bundles : NotReached(b)' => b # driver.bundle
    BY <1>2, <1>3
  <2>2. CASE rows' = rows /\ orphans' = orphans
    BY <1>3, <2>1, <2>2, SameRowsKeepClaims
  <2>3. CASE /\ rows' = Append(rows, r)
             /\ orphans' = orphans \/ (Orphan(r.bundle) /\ ~RepliesArrive)
    BY <1>3, <2>1, <2>3, AddsClaim DEF Untouched
  <2> QED BY <1>3, <2>2, <2>3
<1>4. ASSUME loop' = loop, queue' = queue PROVE \A id : Holds(id)' => Holds(id)
  BY <1>4 DEF Holds, On
<1>5. CASE RecordAccepted
  <2> DEFINE r == NewRow(driver.bundle, 0, driver.tip, driver.p50, TRUE)
  <2>1. r.bundle = driver.bundle /\ r.from = 0 /\ r.learned = FALSE
    BY DEF NewRow
  <2>2. /\ rows' = Append(rows, r) /\ loop' = loop /\ queue' = queue /\ orphans' = orphans
        /\ driver.pc = "record" /\ driver' = NextSubmission
    BY <1>5 DEF RecordAccepted
  <2> HIDE DEF r
  <2> QED BY <1>3, <1>4, <2>1, <2>2
<1>6. ASSUME NEW feed \in Feeds, RejectUnrecorded(feed) PROVE OneClaim'
  <2> DEFINE r == NewRow(driver.bundle, 0, NormalTip(feed), Known(feed, P50), FALSE)
  <2>1. r.bundle = driver.bundle /\ r.from = 0 /\ r.learned = FALSE
    BY DEF NewRow
  <2>2. /\ rows' \in {rows, Append(rows, r)} /\ loop' = loop /\ queue' = queue
        /\ orphans' = orphans /\ driver.pc = "submit" /\ driver' = EndSubmissions
    BY <1>6 DEF RejectUnrecorded
  <2> HIDE DEF r
  <2> QED BY <1>3, <1>4, <2>1, <2>2
<1>7. ASSUME NEW feed \in Feeds, ReplyLost(feed) \/ \E marks \in Rejections : Reject(feed, marks)
      PROVE  OneClaim'
  <2> DEFINE row == NewRow(driver.bundle, 0, NormalTip(feed), Known(feed, P50), FALSE)
             r == [row EXCEPT !.status = "Failed"]
  <2>1. r.bundle = driver.bundle /\ r.from = 0 /\ r.learned = FALSE
    BY DEF NewRow
  <2>2. PICK evidence :
             /\ rows' = Append(rows, r) /\ queue' = queue
             /\ loop' = [loop EXCEPT !["driver"] = Started(Len(rows'), evidence, row.tip)]
             /\ orphans' = orphans \/ (Orphan(driver.bundle) /\ "reply" \in FaultKinds)
             /\ driver.pc = "submit" /\ driver' = [driver EXCEPT !.pc = "retry"]
    BY <1>7 DEF Reject, ReplyLost, Inject
  <2> DEFINE l == Started(Len(rows'), evidence, row.tip)
  <2>3. l.row = Len(rows')
    BY DEF Started, Off
  <2> HIDE DEF r, l
  <2>4. Len(rows') \notin Ids
    BY <2>2 DEF Parts, Ids
  <2>5. \A p \in Owners : loop'[p] = IF p = "driver" THEN l ELSE loop[p]
    BY <2>2 DEF Parts, l
  <2>6. \A id \in Ids : Holds(id)' => Holds(id)
    BY <2>2, <2>3, <2>4, <2>5 DEF Holds, On
  <2>7. orphans' = orphans \/ (Orphan(r.bundle) /\ ~RepliesArrive)
    BY <2>1, <2>2 DEF RepliesArrive, NoFaultsOf
  <2> QED BY <1>3, <2>1, <2>2, <2>6, <2>7
<1>8. CASE RecordAcceptedFails
  <2>0. PICK b \in Bundles : b = driver.bundle
    BY <1>0
  <2>1. /\ Orphan(b) /\ rows' = rows /\ loop' = loop /\ queue' = queue
        /\ driver.pc = "record" /\ driver' = EndSubmissions
    BY <1>8, <2>0 DEF RecordAcceptedFails
  <2>2. /\ GoesForward /\ Untouched(b)
        /\ \A c \in Bundles : NotReached(c)' => c # b
    BY <1>2, <2>0, <2>1
  <2>3. orphans[b] = 0 /\ Dead(b) /\ ~NotReached(b)'
    BY <2>2 DEF Untouched, Dead
  <2>4. \A id \in Ids : Holds(id)' => Holds(id) /\ rows[id].bundle # b
    BY <1>4, <2>1, <2>2 DEF Untouched
  <2> QED BY <2>1, <2>2, <2>3, <2>4, OrphansClaim
<1> QED BY <1>1, <1>5, <1>6, <1>7, <1>8 DEF Submit

(* The crash turns what awaits its INSERT into orphans.                    *)
LEMMA CrashClaims ==
  ASSUME Parts, Trail, OneClaim, Crash
  PROVE  OneClaim'
<1>0. driver \in Driver /\ driver.bundle \in Nat /\ \A b \in Bundles : b \in Nat
  BY DEF Parts, Driver, Bundles
<1>1. /\ rows' = rows /\ Ids' = Ids
      /\ orphans' = [b \in Bundles |-> orphans[b] + AwaitingInsert(b)]
  BY DEF Crash, Ids
<1>2. \A id : ~Holds(id)'
  BY DEF Crash, Holds, On, Off
<1>3. \/ driver'.bundle = driver.bundle + 1
      \/ driver'.bundle = driver.bundle /\ driver'.pc = "drain"
      \/ driver'.bundle = driver.bundle /\ driver'.pc = driver.pc /\ driver.pc \in {"warmup", "drain"}
  BY <1>0 DEF Crash, NextRun, EndSubmissions, Driver
<1>4. ASSUME NEW b \in Bundles, NotReached(b)'
      PROVE  Untouched(b) /\ AwaitingInsert(b) = 0
  <2>1. \/ b > driver.bundle
        \/ b = driver.bundle /\ driver.pc = "warmup"
    BY <1>0, <1>3, <1>4 DEF NotReached
  <2>2. Untouched(b)
    BY <2>1 DEF OneClaim, AheadUntouched, NotReached
  <2>3. AwaitingInsert(b) # 1
    BY <2>1, AwaitingIsOne
  <2> QED BY <2>2, <2>3, AwaitingIsOne
<1>5. ASSUME RepliesArrive, NEW b \in Bundles, orphans'[b] # 0
      PROVE  orphans'[b] = 1 /\ Dead(b)
  <2>1. orphans'[b] = orphans[b] + AwaitingInsert(b) /\ orphans[b] \in Nat
    BY <1>1 DEF Parts
  <2>2. CASE AwaitingInsert(b) = 1
    BY <1>5, <2>1, <2>2, AwaitingIsOne
  <2>3. CASE AwaitingInsert(b) = 0
    BY <1>5, <2>1, <2>3 DEF OneClaim, OrphansSettled
  <2> QED BY <2>2, <2>3, AwaitingIsOne
<1>6. LearnedSettled' /\ OneHead'
  BY <1>1 DEF OneClaim, LearnedSettled, OneHead, Unretried
<1>7. AheadUntouched'
  <2>1. ASSUME NEW b \in Bundles, NotReached(b)'
        PROVE  orphans'[b] = 0 /\ \A id \in Ids' : rows'[id].bundle # b
    BY <1>1, <1>4, <2>1 DEF Untouched
  <2> QED BY <2>1 DEF AheadUntouched, Untouched
<1>8. RepliesArrive => OrphansSettled'
  BY <1>1, <1>2, <1>5 DEF OrphansSettled, Dead
<1> QED BY <1>6, <1>7, <1>8 DEF OneClaim, RepliesArrive, NoFaultsOf

LEMMA OutcomeClaims ==
  ASSUME Parts, Trail, OneClaim,
         \/ \E ids \in SUBSET Ids : Sweep(ids)
         \/ \E id \in queue : HandleTimedOut(id) \/ HandleFails(id)
         \/ \E id \in Ids : Outcome(id)
  PROVE  OneClaim'
<1>0. \A id \in Ids : rows[id] \in Row
  BY DEF Parts, Ids, CappedRow
<1>1. ASSUME driver' = driver PROVE GoesForward
  BY <1>1, DriverGoesForward
<1>2. ASSUME NEW ids \in SUBSET Ids, Sweep(ids) PROVE OneClaim'
  <2>1. /\ rows' = [id \in Ids |-> IF id \in ids THEN [rows[id] EXCEPT !.status = "Failed"]
                                   ELSE rows[id]]
        /\ loop' = loop /\ queue' = ids /\ orphans' = orphans /\ driver' = driver
        /\ \A id \in ids : rows[id].status = "Submitted"
    BY <1>2 DEF Sweep, TimedOutRows
  <2>2. Ids' = Ids
    BY <2>1, Typed DEF Ids
  <2>3. \A id \in Ids : /\ rows'[id].from = rows[id].from
                         /\ rows'[id].bundle = rows[id].bundle
                         /\ rows'[id].learned = rows[id].learned
                         /\ rows'[id].status = IF id \in ids THEN "Failed" ELSE rows[id].status
    BY <1>0, <2>1 DEF Row
  <2>4. LearnedSettled'
    BY <2>1, <2>2, <2>3 DEF OneClaim, LearnedSettled
  <2>5. \A id \in Ids : Holds(id)' => Holds(id) \/ rows[id].status # "Failed"
    BY <2>1 DEF Holds, On
  <2> QED BY <1>1, <2>1, <2>2, <2>3, <2>4, <2>5, KeepsClaims
<1>3. ASSUME NEW id \in queue, HandleTimedOut(id) \/ HandleFails(id) PROVE OneClaim'
  <2> DEFINE l == Started(id, NotLanding(id), rows[id].tip)
  <2>a. /\ rows' = rows /\ driver' = driver /\ orphans' = orphans /\ queue' = queue \ {id}
        /\ loop' = loop \/ loop' = [loop EXCEPT !["sweeper"] = l]
    BY <1>3 DEF HandleTimedOut, HandleFails
  <2>b. l.row = id
    BY DEF Started, Off
  <2> HIDE DEF l
  <2>1. /\ rows' = rows /\ driver' = driver /\ orphans' = orphans /\ queue' = queue \ {id}
        /\ \A o \in Owners : loop'[o] = loop[o] \/ loop'[o].row = id
    BY <2>a, <2>b DEF Parts, Owners
  <2>2. \A k : Holds(k)' => Holds(k)
    BY <2>1 DEF Holds, On
  <2> QED BY <1>1, <2>1, <2>2, SameRowsKeepClaims
<1>4. ASSUME NEW id \in Ids, Outcome(id) PROVE OneClaim'
  <2>0. PICK to \in Open \cup {"Finalized", "Errored"}, landed \in BOOLEAN, learned \in BOOLEAN :
               /\ Becomes(id, to, landed, learned)
               /\ learned => \/ to \in {"Processed", "Finalized"}
                             \/ rows[id].learned /\ to = rows[id].status
    BY <1>4, OutcomeTells
  <2>1. /\ rows' = [rows EXCEPT ![id] = [rows[id] EXCEPT !.status = to, !.landed = landed,
                                                         !.learned = learned]]
        /\ loop' = loop /\ queue' = queue /\ orphans' = orphans /\ driver' = driver
        /\ rows[id].status # "Failed"
    BY <2>0 DEF Becomes
  <2>2. Ids' = Ids /\ \A k \in Ids \ {id} : rows'[k] = rows[k]
    BY <2>1 DEF Parts, Ids
  <2>3. /\ rows'[id].from = rows[id].from /\ rows'[id].bundle = rows[id].bundle
        /\ rows'[id].status = to /\ rows'[id].learned = learned
    BY <1>0, <2>1 DEF Ids, Row
  <2>4. LearnedSettled'
    <3>1. rows[id].learned => rows[id].status \in {"Processed", "Finalized"}
      BY DEF OneClaim, LearnedSettled
    <3>2. learned => to \in {"Processed", "Finalized"}
      BY <2>0, <3>1
    <3>3. ASSUME NEW k \in Ids, rows'[k].learned
          PROVE  rows'[k].status \in {"Processed", "Finalized"}
      <4>1. CASE k = id
        BY <2>3, <3>2, <3>3, <4>1
      <4>2. CASE k # id
        <5>1. rows'[k] = rows[k]
          BY <2>2, <4>2
        <5> QED BY <3>3, <5>1 DEF OneClaim, LearnedSettled
      <4> QED BY <4>1, <4>2
    <3> QED BY <2>2, <3>3 DEF LearnedSettled
  <2>5. \A k : Holds(k)' => Holds(k)
    BY <2>1 DEF Holds, On
  <2> QED BY <1>1, <2>1, <2>2, <2>3, <2>4, <2>5, KeepsClaims
<1> QED BY <1>2, <1>3, <1>4

LEMMA StepClaims ==
  ASSUME Parts, Trail, OneClaim, [Next]_vars
  PROVE  OneClaim'
<1>1. CASE UNCHANGED vars
  <2>1. GoesForward /\ \A id : Holds(id)' => Holds(id)
    BY <1>1 DEF vars, GoesForward, NotReached, Holds, On
  <2> QED BY <1>1, <2>1, SameRowsKeepClaims DEF vars
<1>2. CASE Fault
  BY <1>2, SubmitClaims, RetryClaims, OutcomeClaims, CrashClaims DEF Fault
<1> QED BY <1>1, <1>2, SubmitClaims, RetryClaims, OutcomeClaims DEF Next

LEMMA ClaimsInvariance == Spec => [](Parts /\ Trail /\ OneClaim)
<1>1. Init => OneClaim
  BY DEF Init, OneClaim, LearnedSettled, OneHead, AheadUntouched, Untouched, OrphansSettled, Ids
<1>2. Parts /\ Trail /\ OneClaim /\ [Next]_vars => OneClaim'
  BY StepClaims
<1> QED BY <1>1, <1>2, TrailInvariance, PTL DEF Spec

(* For every number of bundles, retries, timeouts, database errors and     *)
(* crashes: of all the submissions made for one bundle, recorded or not,   *)
(* at most one landed or still may, beside those that had landed when the  *)
(* sweep took them for lost because the tracker had not heard of it. That  *)
(* is the one way to a second landing, unless an answer of the engine is   *)
(* lost on its way, which the hypothesis leaves out: the loop then submits *)
(* again what may land.                                                    *)
THEOREM LandsAtMostOnce ==
  ASSUME NoFaultsOf({"reply"})
  PROVE  Spec => []AtMostOnce
<1>1. Parts /\ Trail /\ OneClaim => AtMostOnce
  BY IssuedOnce DEF RepliesArrive
<1> QED BY <1>1, ClaimsInvariance, PTL

(* Whichever faults strike, lost answers included: of the submissions the  *)
(* program knows to be accepted, at most one per bundle landed or still    *)
(* may, beside the landings the sweep overlooked.                          *)
THEOREM KnownLandsAtMostOnce == Spec => []KnownAtMostOnce
<1> QED BY IssuedOnce, ClaimsInvariance, PTL
=============================================================================
