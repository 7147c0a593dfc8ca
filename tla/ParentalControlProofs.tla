------------------------ MODULE ParentalControlProofs ------------------------
(***************************************************************************)
(* Machine-checked proofs about ParentalControl, for every set of devices,  *)
(* tasks and requests.  The second part, from MatchIsSent on, is the proof  *)
(* that ParentalControl implements RuleService when Faults = {}.            *)
(***************************************************************************)
EXTENDS RuleServiceRefinement, SequenceTheorems, FiniteSetTheorems, TLAPS

\* The table that the writer sends is a table.
LEMMA UpdatedType ==
  ASSUME NEW t \in Table, NEW r \in Request
  PROVE  Updated(t, r) \in Table
  <1> USE DataAssumption
  <1>1. ASSUME NEW m \in Macs PROVE Updated(t, r)[m] \in Rule \cup {NoRule}
    <2>1. t[m] \in Rule \cup {NoRule} /\ r.name[m] \in MaybeName
          /\ r.default_name[m] \in MaybeName
      BY DEF Table, Request
    <2>2. NewRule(r, m) \in Rule
      BY <2>1 DEF NewRule, Rule, RuleType, RuleTypes, NameOr, MaybeName
    <2>3. t[m] # NoRule => ChangedRule(t[m], r, m) \in Rule
      BY <2>1 DEF ChangedRule, Rule, RuleType, RuleTypes, NameOr, MaybeName
    <2> QED BY <2>1, <2>2, <2>3 DEF Updated
  <1> QED BY <1>1 DEF Updated, Table

\* A waiter that leaves the queue leaves a queue.
LEMMA RemoveAtType ==
  ASSUME NEW S, NEW s \in Seq(S), NEW i \in 1 .. Len(s)
  PROVE  RemoveAt(s, i) \in Seq(S)
  <1>1. SubSeq(s, 1, i - 1) \in Seq(S)
    BY SubSeqProperties, ElementOfSeq
  <1>2. SubSeq(s, i + 1, Len(s)) \in Seq(S)
    BY SubSeqProperties, ElementOfSeq
  <1> QED BY <1>1, <1>2, ConcatProperties DEF RemoveAt

-----------------------------------------------------------------------------
(***************************************************************************)
(* Type correctness.                                                       *)
(***************************************************************************)

\* A router that drops rows is still left with a table.
LEMMA AppliedType ==
  ASSUME NEW t \in Table, NEW tbl \in Applied(t)
  PROVE  tbl \in Table
  BY DataAssumption DEF Applied, Table

\* The end of a call leaves its variables, and the lock, well typed.
LEMMA ReturnType ==
  ASSUME TypeOK, NEW w \in Writers, NEW result \in {"ok", "failed"},
         Return(w, result),
         UNCHANGED <<table, pend>>,
         cache' \in Table \cup {NoTable}, pcRules' \in Table,
         settled' \in [Macs -> Sights \cup {"open"}]
  PROVE  TypeOK'
  BY RouterAssumption, TaskAssumption
  DEF TypeOK, Return, Release, Goto, WriterStages, PollerStages, Tasks

\* So does a confirmation attempt.
LEMMA NextAttemptType ==
  ASSUME TypeOK, NEW w \in Writers, NextAttempt(w),
         pc[w] \in {"confirm", "reply"}, UNCHANGED <<table, pend>>,
         cache' \in Table \cup {NoTable}, pcRules' \in Table,
         settled' \in [Macs -> Sights \cup {"open"}]
  PROVE  TypeOK'
  <1>1. CASE attempt[w] < ConfirmAttempts - 1
    <2>1. /\ attempt' = [attempt EXCEPT ![w] = attempt[w] + 1]
          /\ answer' = [answer EXCEPT ![w] = NoTable]
          /\ pc' = [pc EXCEPT ![w] = "confirm"]
          /\ UNCHANGED <<holder, queue, req, expected, outcome>>
      BY <1>1 DEF NextAttempt, Again, Goto, lockVars
    <2>2. attempt' \in [Writers -> 0 .. ConfirmAttempts - 1]
      <3>1. attempt[w] + 1 \in 0 .. ConfirmAttempts - 1
        BY <1>1, RouterAssumption DEF TypeOK
      <3> QED BY <2>1, <3>1 DEF TypeOK
    <2> QED BY <2>1, <2>2, TaskAssumption
            DEF TypeOK, WriterStages, PollerStages, Tasks
  <1>2. CASE ~(attempt[w] < ConfirmAttempts - 1)
    BY <1>2, ReturnType DEF NextAttempt
  <1> QED BY <1>1, <1>2

\* Every action of a writer keeps every variable in its type.
LEMMA WriterType ==
  ASSUME TypeOK, NEW w \in Writers,
         \/ Call(w) \/ StartWrite(w) \/ Work(w) \/ Raise(w) \/ CancelCall(w)
  PROVE  TypeOK'
  <1> USE RouterAssumption, TaskAssumption
  <1> USE DEF Goto, routerVars, lockVars, callVars
  <1>0. /\ table \in Table /\ cache \in Table \cup {NoTable}
        /\ pcRules \in Table /\ settled \in [Macs -> Sights \cup {"open"}]
    BY DEF TypeOK
  <1>1. CASE Call(w)
    BY <1>1, AppendProperties
    DEF Call, Enqueue, TypeOK, WriterStages, PollerStages, Tasks
  <1>2. CASE StartWrite(w)
    BY <1>2, HeadTailProperties
    DEF StartWrite, Acquire, TypeOK, WriterStages, PollerStages, Tasks
  <1>3. CASE Snapshot(w)
    <2>1. pc[w] = "snapshot" /\ req[w] \in Request /\ table \in Table
      BY <1>3 DEF Snapshot, TypeOK
    <2>2. Updated(table, req[w]) \in Table
      BY <2>1, UpdatedType
    <2>3. CASE OverCapacity(table, req[w])
      <3>1. Return(w, "failed") /\ cache' = table
            /\ UNCHANGED <<table, pend, settled, pcRules>>
        BY <1>3, <2>3 DEF Snapshot
      <3> QED BY <1>0, <3>1, ReturnType
    <2>4. CASE ~OverCapacity(table, req[w])
      <3>1. /\ expected' = [expected EXCEPT ![w] = Updated(table, req[w])]
            /\ pc' = [pc EXCEPT ![w] = "write"]
            /\ cache' = table
            /\ UNCHANGED <<table, pend, settled, pcRules, answer>>
            /\ UNCHANGED <<holder, queue, req, attempt, outcome>>
        BY <1>3, <2>4 DEF Snapshot
      <3> QED BY <2>1, <2>2, <3>1
              DEF TypeOK, WriterStages, PollerStages, Tasks
    <2> QED BY <2>3, <2>4
  <1>4. CASE WriteAccepted(w)
    <2>1. expected[w] \in Table /\ req[w] \in Requests
      BY <1>4 DEF WriteAccepted, TypeOK
    <2>2. pend' \in PendingWrite
      BY <1>4, <2>1, AppliedType DEF WriteAccepted, PendingWrite
    <2> QED BY <1>4, <2>2
            DEF WriteAccepted, TypeOK, WriterStages, PollerStages, Tasks
  <1>5. CASE WriteRefused(w)
    BY <1>5 DEF WriteRefused, TypeOK, WriterStages, PollerStages, Tasks
  <1>6. CASE WriteAnswered(w)
    BY <1>6 DEF WriteAnswered, TypeOK, WriterStages, PollerStages, Tasks
  <1>7. CASE Confirm(w)
    <2>0. /\ pc[w] = "reply" /\ answer[w] \in Table /\ pcRules' = answer[w]
          /\ expected[w] \in Table /\ UNCHANGED <<table, pend, cache>>
      BY <1>7 DEF Confirm, TypeOK, Tasks
    <2>1. CASE NextAttempt(w) /\ UNCHANGED settled
      BY <1>0, <2>0, <2>1, NextAttemptType
    <2>2. Confirmed(w) \in [Macs -> Sights \cup {"open"}]
      <3>1. \A m \in Macs : Promised(w, m) \in Sights
        BY <2>0 DEF Promised, RuleType, RuleTypes, Sight, Sights, Table, Rule
      <3> QED BY <1>0, <3>1 DEF Confirmed
    <2>3. CASE \E result \in {"ok", "failed"} :
                 Return(w, result) /\ settled' \in {settled, Confirmed(w)}
      BY <1>0, <2>0, <2>2, <2>3, ReturnType
    <2>4. CASE /\ Goto(w, "cleanup") /\ settled' = Confirmed(w)
               /\ answer' = [answer EXCEPT ![w] = NoTable]
               /\ UNCHANGED <<lockVars, callVars>>
      BY <1>0, <2>0, <2>2, <2>4 DEF TypeOK, WriterStages, PollerStages, Tasks
    <2> QED BY <1>7, <2>1, <2>3, <2>4 DEF Confirm
  <1>8. CASE ConfirmFails(w)
    BY <1>0, <1>8, NextAttemptType DEF ConfirmFails, ForcedRead
  <1>12. CASE ReadBackAnswered(w)
    BY <1>12 DEF ReadBackAnswered, ForcedRead, TypeOK, WriterStages,
                 PollerStages, Tasks
  <1>9. CASE FinishCleanup(w)
    BY <1>0, <1>9, ReturnType DEF FinishCleanup
  <1>10. CASE Raise(w)
    BY <1>0, <1>10, ReturnType DEF Raise
  <1>11. CASE CancelCall(w)
    <2>1. CASE pc[w] = "queued"
      <3>1. queue' \in Seq(Tasks)
        BY <1>11, <2>1, RemoveAtType DEF CancelCall, LeaveQueue, TypeOK
      <3>2. /\ pc' = [pc EXCEPT ![w] = "idle"]
            /\ req' = [req EXCEPT ![w] = NoRequest]
            /\ outcome' = [outcome EXCEPT ![w] = "failed"]
            /\ UNCHANGED <<holder, expected, attempt, answer>>
            /\ UNCHANGED <<table, pend, settled, cache, pcRules>>
        BY <1>11, <2>1 DEF CancelCall
      <3> QED BY <2>1, <3>1, <3>2
              DEF TypeOK, WriterStages, PollerStages, Tasks
    <2>2. CASE pc[w] # "queued"
      <3>1. /\ Return(w, "failed")
            /\ UNCHANGED <<table, pend, settled, cache, pcRules>>
        BY <1>11, <2>2 DEF CancelCall
      <3> QED BY <1>0, <3>1, ReturnType
    <2> QED BY <2>1, <2>2
  <1> QED BY <1>1, <1>2, <1>3, <1>4, <1>5, <1>6, <1>7, <1>8, <1>9, <1>10,
             <1>11, <1>12 DEF Work

\* So does every action of a poller.
LEMMA PollerType ==
  ASSUME TypeOK, NEW p \in Pollers,
         StartPoll(p) \/ StartRead(p) \/ Poll(p) \/ PollFails(p)
  PROVE  TypeOK'
  <1> USE RouterAssumption, TaskAssumption
  <1> USE DEF TypeOK, Goto, WriterStages, PollerStages, Tasks,
              routerVars, lockVars, callVars
  <1>1. CASE StartPoll(p)
    BY <1>1, AppendProperties DEF StartPoll, Enqueue
  <1>2. CASE StartRead(p)
    BY <1>2, HeadTailProperties DEF StartRead, Acquire
  <1>3. CASE PollAnswered(p)
    BY <1>3 DEF PollAnswered
  <1>4. CASE PollDelivered(p)
    BY <1>4 DEF PollDelivered, Release
  <1>5. CASE PollFails(p)
    <2>1. queue' \in Seq(Tasks)
      BY <1>5, RemoveAtType DEF PollFails, LeaveQueue
    <2>2. holder' \in Tasks \cup {NoTask} /\ pc' = [pc EXCEPT ![p] = "idle"]
      BY <1>5 DEF PollFails, Release
    <2>3. /\ answer' = [answer EXCEPT ![p] = NoTable]
          /\ UNCHANGED <<table, pend, settled, cache, pcRules>>
          /\ UNCHANGED <<req, expected, attempt, outcome>>
      BY <1>5 DEF PollFails
    <2> QED BY <2>1, <2>2, <2>3
  <1> QED BY <1>1, <1>2, <1>3, <1>4, <1>5 DEF Poll

\* And so do the router and its web UI.
LEMMA RouterType ==
  ASSUME TypeOK, RouterSettles \/ \E m \in Macs : WebEdit(m)
  PROVE  TypeOK'
  <1> USE RouterAssumption
  <1> USE DEF lockVars, callVars, SetTable
  <1>1. CASE RouterSettles
    <2>1. table' \in Table
      BY <1>1 DEF TypeOK, RouterSettles, PendingWrite
    <2> QED BY <1>1, <2>1 DEF TypeOK, RouterSettles, PendingWrite
  <1>2. ASSUME NEW m \in Macs, WebEdit(m) PROVE TypeOK'
    <2>1. table' \in Table
      BY <1>2 DEF TypeOK, WebEdit, Table
    <2> QED BY <1>2, <2>1 DEF TypeOK, WebEdit
  <1> QED BY <1>1, <1>2

LEMMA TypeInit == Init => TypeOK
  BY RouterAssumption, TaskAssumption, EmptySeq
  DEF Init, TypeOK, EmptyTable, Table, WriterStages, PollerStages, Tasks

LEMMA TypeStep == TypeOK /\ [Next]_vars => TypeOK'
  <1> SUFFICES ASSUME TypeOK, [Next]_vars
               PROVE  TypeOK'
    OBVIOUS
  <1>1. CASE Next
    BY <1>1, WriterType, PollerType, RouterType DEF Next
  <1>2. CASE UNCHANGED vars
    BY <1>2 DEF TypeOK, vars, routerVars, lockVars, callVars
  <1> QED BY <1>1, <1>2

\* Type correctness: every variable keeps its type, and every task has exactly
\* the locals of the await at which it is suspended.
THEOREM TypeCorrect == Spec => []TypeOK
  BY TypeInit, TypeStep, PTL DEF Spec

-----------------------------------------------------------------------------
(***************************************************************************)
(* The lock.                                                               *)
(***************************************************************************)
Outside == {"idle", "queued"}

\* What any step does to the lock: nothing, move a task within or outside its
\* critical section, let one in while nobody is, or let one out.
LockMove ==
  \/ UNCHANGED <<pc, holder>>
  \/ \E t \in Tasks, s \in WriterStages \cup PollerStages :
       /\ pc' = [pc EXCEPT ![t] = s]
       /\ \/ (pc[t] \in Outside <=> s \in Outside) /\ holder' = holder
          \/ s \notin Outside /\ holder = NoTask /\ holder' = t
          \/ /\ s \in Outside
             /\ holder' = IF holder = t THEN NoTask ELSE holder

LEMMA IsMove ==
  ASSUME NEW t \in Tasks, NEW s \in WriterStages \cup PollerStages,
         pc' = [pc EXCEPT ![t] = s],
         \/ (pc[t] \in Outside <=> s \in Outside) /\ holder' = holder
         \/ s \notin Outside /\ holder = NoTask /\ holder' = t
         \/ /\ s \in Outside
            /\ holder' = IF holder = t THEN NoTask ELSE holder
  PROVE  LockMove
  BY DEF LockMove

LEMMA ReturnMove ==
  ASSUME NEW w \in Writers, NEW result, Return(w, result)
  PROVE  LockMove
  BY DEF Return, Release, Goto, LockMove, Outside, Tasks, WriterStages

LEMMA NextAttemptMove ==
  ASSUME NEW w \in Writers, NextAttempt(w), pc[w] \in {"confirm", "reply"}
  PROVE  LockMove
  <1>1. CASE attempt[w] < ConfirmAttempts - 1
    BY <1>1, IsMove
    DEF NextAttempt, Again, Goto, lockVars, Tasks, WriterStages, Outside
  <1>2. CASE ~(attempt[w] < ConfirmAttempts - 1)
    BY <1>2, ReturnMove DEF NextAttempt
  <1> QED BY <1>1, <1>2

LEMMA WriterMove ==
  ASSUME NEW w \in Writers,
         \/ Call(w) \/ StartWrite(w) \/ Work(w) \/ Raise(w) \/ CancelCall(w)
  PROVE  LockMove
  <1> USE DEF lockVars, Goto, Tasks, WriterStages, Outside
  <1>1. CASE Call(w)
    <2>1. pc[w] = "idle" /\ pc' = [pc EXCEPT ![w] = "queued"] /\ holder' = holder
      BY <1>1 DEF Call, Enqueue
    <2> QED BY <2>1, IsMove
  <1>2. CASE StartWrite(w)
    <2>1. pc' = [pc EXCEPT ![w] = "snapshot"] /\ holder = NoTask /\ holder' = w
      BY <1>2 DEF StartWrite, Acquire
    <2> QED BY <2>1, IsMove
  <1>3. CASE Snapshot(w)
    <2>1. CASE OverCapacity(table, req[w])
      BY <1>3, <2>1, ReturnMove DEF Snapshot
    <2>2. CASE ~OverCapacity(table, req[w])
      <3>1. /\ pc[w] = "snapshot" /\ pc' = [pc EXCEPT ![w] = "write"]
            /\ holder' = holder
        BY <1>3, <2>2 DEF Snapshot
      <3> QED BY <3>1, IsMove
    <2> QED BY <2>1, <2>2
  <1>4. CASE WriteAccepted(w)
    <2>1. pc[w] = "write" /\ pc' = [pc EXCEPT ![w] = "written"] /\ holder' = holder
      BY <1>4 DEF WriteAccepted
    <2> QED BY <2>1, IsMove
  <1>5. CASE WriteRefused(w)
    <2>1. pc[w] = "write" /\ pc' = [pc EXCEPT ![w] = "confirm"] /\ holder' = holder
      BY <1>5 DEF WriteRefused
    <2> QED BY <2>1, IsMove
  <1>6. CASE WriteAnswered(w)
    <2>1. pc[w] = "written" /\ pc' = [pc EXCEPT ![w] = "confirm"] /\ holder' = holder
      BY <1>6 DEF WriteAnswered
    <2> QED BY <2>1, IsMove
  <1>7. CASE Confirm(w)
    <2>1. pc[w] = "reply"
      BY <1>7 DEF Confirm
    <2>2. CASE NextAttempt(w)
      BY <2>1, <2>2, NextAttemptMove
    <2>3. CASE Return(w, "ok") \/ Return(w, "failed")
      BY <2>3, ReturnMove
    <2>4. CASE Goto(w, "cleanup") /\ UNCHANGED lockVars
      <3>1. pc' = [pc EXCEPT ![w] = "cleanup"] /\ holder' = holder
        BY <2>4
      <3> QED BY <2>1, <3>1, IsMove
    <2> QED BY <1>7, <2>2, <2>3, <2>4 DEF Confirm
  <1>8. CASE ConfirmFails(w)
    BY <1>8, NextAttemptMove DEF ConfirmFails, ForcedRead
  <1>12. CASE ReadBackAnswered(w)
    <2>1. /\ pc[w] = "confirm" /\ pc' = [pc EXCEPT ![w] = "reply"]
          /\ holder' = holder
      BY <1>12 DEF ReadBackAnswered, ForcedRead
    <2> QED BY <2>1, IsMove
  <1>9. CASE FinishCleanup(w)
    BY <1>9, ReturnMove DEF FinishCleanup
  <1>10. CASE Raise(w)
    BY <1>10, ReturnMove DEF Raise
  <1>11. CASE CancelCall(w)
    <2>1. CASE pc[w] = "queued"
      <3>1. pc' = [pc EXCEPT ![w] = "idle"] /\ holder' = holder
        BY <1>11, <2>1 DEF CancelCall
      <3> QED BY <2>1, <3>1, IsMove
    <2>2. CASE pc[w] # "queued"
      <3>1. Return(w, "failed")
        BY <1>11, <2>2 DEF CancelCall
      <3> QED BY <3>1, ReturnMove
    <2> QED BY <2>1, <2>2
  <1> QED BY <1>1, <1>2, <1>3, <1>4, <1>5, <1>6, <1>7, <1>8, <1>9, <1>10,
             <1>11, <1>12 DEF Work

LEMMA PollerMove ==
  ASSUME NEW p \in Pollers,
         StartPoll(p) \/ StartRead(p) \/ Poll(p) \/ PollFails(p)
  PROVE  LockMove
  <1> USE DEF lockVars, Goto, Tasks, PollerStages, Outside
  <1>1. CASE StartPoll(p)
    <2>1. pc[p] = "idle" /\ pc' = [pc EXCEPT ![p] = "queued"] /\ holder' = holder
      BY <1>1 DEF StartPoll, Enqueue
    <2> QED BY <2>1, IsMove
  <1>2. CASE StartRead(p)
    <2>1. pc' = [pc EXCEPT ![p] = "read"] /\ holder = NoTask /\ holder' = p
      BY <1>2 DEF StartRead, Acquire
    <2> QED BY <2>1, IsMove
  <1>3. CASE PollAnswered(p)
    <2>1. pc[p] = "read" /\ pc' = [pc EXCEPT ![p] = "reply"] /\ holder' = holder
      BY <1>3 DEF PollAnswered
    <2> QED BY <2>1, IsMove
  <1>4. CASE PollDelivered(p)
    <2>1. /\ pc' = [pc EXCEPT ![p] = "idle"]
          /\ holder' = IF holder = p THEN NoTask ELSE holder
      BY <1>4 DEF PollDelivered, Release
    <2> QED BY <2>1, IsMove
  <1>5. CASE PollFails(p)
    <2>1. CASE pc[p] = "queued"
      <3>1. pc' = [pc EXCEPT ![p] = "idle"] /\ holder' = holder
        BY <1>5, <2>1 DEF PollFails
      <3> QED BY <2>1, <3>1, IsMove
    <2>2. CASE pc[p] # "queued"
      <3>1. /\ pc' = [pc EXCEPT ![p] = "idle"]
            /\ holder' = IF holder = p THEN NoTask ELSE holder
        BY <1>5, <2>2 DEF PollFails, Release
      <3> QED BY <3>1, IsMove
    <2> QED BY <2>1, <2>2
  <1> QED BY <1>1, <1>2, <1>3, <1>4, <1>5 DEF Poll

LEMMA EveryMove == [Next]_vars => LockMove
  <1> SUFFICES ASSUME [Next]_vars PROVE LockMove
    OBVIOUS
  <1>1. CASE RouterSettles \/ \E m \in Macs : WebEdit(m)
    BY <1>1 DEF RouterSettles, WebEdit, lockVars, LockMove
  <1>2. CASE UNCHANGED vars
    BY <1>2 DEF vars, lockVars, LockMove
  <1> QED BY <1>1, <1>2, WriterMove, PollerMove DEF Next

LEMMA LockStep == TypeOK /\ LockHeld /\ [Next]_vars => LockHeld'
  <1> SUFFICES ASSUME TypeOK, LockHeld, LockMove
               PROVE  LockHeld'
    BY EveryMove
  <1>1. CASE UNCHANGED <<pc, holder>>
    BY <1>1 DEF LockHeld, Tasks
  <1>2. ASSUME NEW t \in Tasks, NEW s \in WriterStages \cup PollerStages,
               pc' = [pc EXCEPT ![t] = s],
               \/ (pc[t] \in Outside <=> s \in Outside) /\ holder' = holder
               \/ s \notin Outside /\ holder = NoTask /\ holder' = t
               \/ /\ s \in Outside
                  /\ holder' = IF holder = t THEN NoTask ELSE holder
        PROVE  LockHeld'
    <2>1. pc \in [Tasks -> WriterStages \cup PollerStages]
      BY DEF TypeOK
    <2> QED BY <1>2, <2>1, TaskAssumption DEF LockHeld, Outside
  <1> QED BY <1>1, <1>2 DEF LockMove

\* Mutual exclusion: a task between the awaits of its critical section holds
\* the lock, whatever raises, fails or is cancelled, and nobody else does.
THEOREM MutualExclusion == Spec => []LockHeld
  <1>1. Init => LockHeld
    BY TaskAssumption DEF Init, LockHeld
  <1>2. TypeOK /\ LockHeld /\ [Next]_vars => LockHeld'
    BY LockStep
  <1> QED BY <1>1, <1>2, TypeCorrect, PTL DEF Spec

-----------------------------------------------------------------------------
(***************************************************************************)
(* What was confirmed stays known.                                         *)
(***************************************************************************)

\* An answer that is on its way is also the library's last one: no other task
\* reads before it arrives.
AnswerCached == \A t \in Tasks : answer[t] # NoTable => cache = answer[t]

Kept == RemovalHolds /\ Agrees(pcRules) /\ NothingStale /\ AnswerCached

\* The invariant that is inductive: type correctness and mutual exclusion say
\* that no answer is on its way to another task while a writer confirms.
ConfirmedInv == TypeOK /\ LockHeld /\ Kept

LEMMA OnlyAnswer ==
  ASSUME TypeOK, LockHeld, NEW t \in Tasks, pc[t] \notin {"idle", "queued"}
  PROVE  \A u \in Tasks \ {t} : answer[u] = NoTable
  BY DEF TypeOK, LockHeld

\* A step that stores no rules, confirms no removal, and reads what the router
\* or the cache shows, for one task.
Quiet ==
  /\ \A v \in Writers :
       pc'[v] = "cleanup" => pc[v] = "cleanup" /\ req'[v] = req[v]
  /\ UNCHANGED <<table, settled, pcRules>>
  /\ \/ /\ cache' = cache
        /\ \A t \in Tasks : answer'[t] \in {answer[t], NoTable}
     \/ /\ cache' \in {cache, table} /\ cache' # NoTable
        /\ \A t \in Tasks : answer'[t] \in {cache', NoTable}

LEMMA QuietStep == ConfirmedInv /\ Quiet => Kept'
  <1> SUFFICES ASSUME ConfirmedInv, Quiet PROVE Kept'
    OBVIOUS
  <1> USE DEF ConfirmedInv, Kept
  <1>1. table # NoTable
    BY RouterAssumption DEF TypeOK
  <1>2. RemovalHolds' /\ Agrees(pcRules)' /\ Agrees(table)'
    BY DEF Quiet, RemovalHolds, Agrees, NothingStale, Rows
  <1>3. (cache # NoTable => Agrees(cache))'
    BY <1>1 DEF Quiet, Agrees, NothingStale
  <1>4. \A t \in Tasks : answer'[t] # NoTable =>
          \/ answer'[t] = answer[t] /\ cache' = cache
          \/ answer'[t] = cache'
    BY DEF Quiet
  <1>5. AnswerCached'
    BY <1>4 DEF AnswerCached
  <1>6. (\A t \in Tasks : answer[t] # NoTable => Agrees(answer[t]))'
    BY <1>3, <1>5 DEF AnswerCached
  <1> QED BY <1>2, <1>3, <1>5, <1>6 DEF NothingStale

LEMMA ReturnQuiet ==
  ASSUME TypeOK, LockHeld, NEW w \in Writers, NEW result, Return(w, result),
         pc[w] \notin {"idle", "queued"},
         UNCHANGED <<table, settled, pcRules>>, cache' \in {cache, table}
  PROVE  Quiet
  <1>1. \A t \in Tasks : answer'[t] = NoTable
    BY OnlyAnswer DEF Return, TypeOK, Tasks
  <1>2. \A v \in Writers : pc'[v] = "cleanup" => pc[v] = "cleanup" /\ req'[v] = req[v]
    BY DEF TypeOK, Return, Release, Goto, Tasks
  <1>3. cache' = cache \/ cache' # NoTable
    BY RouterAssumption DEF TypeOK
  <1> QED BY <1>1, <1>2, <1>3 DEF Quiet

\* A task that moves on, and reads nothing, with its request as it was.
LEMMA MoveQuiet ==
  ASSUME TypeOK, NEW t \in Tasks,
         NEW s \in (WriterStages \cup PollerStages) \ {"cleanup"},
         pc' = [pc EXCEPT ![t] = s], req' = req,
         UNCHANGED <<table, settled, pcRules, cache>>,
         answer' \in {answer, [answer EXCEPT ![t] = NoTable]}
  PROVE  Quiet
  BY DEF TypeOK, Quiet, Tasks

\* A task that holds the lock, and reads.
LEMMA ReadQuiet ==
  ASSUME TypeOK, LockHeld, NEW t \in Tasks, pc[t] \notin {"idle", "queued"},
         NEW s \in (WriterStages \cup PollerStages) \ {"cleanup"},
         pc' = [pc EXCEPT ![t] = s], req' = req,
         UNCHANGED <<table, settled, pcRules>>,
         NEW tbl \in {table} \cup ({cache} \ {NoTable}), cache' = tbl,
         answer' \in {[answer EXCEPT ![t] = tbl], [answer EXCEPT ![t] = NoTable]}
  PROVE  Quiet
  <1>1. \A u \in Tasks : answer'[u] \in {tbl, NoTable}
    <2>1. \A u \in Tasks \ {t} : answer[u] = NoTable
      BY OnlyAnswer
    <2>2. PICK a \in {tbl, NoTable} : answer' = [answer EXCEPT ![t] = a]
      OBVIOUS
    <2> QED BY <2>1, <2>2 DEF TypeOK
  <1>2. tbl # NoTable
    BY RouterAssumption DEF TypeOK
  <1>3. \A v \in Writers : pc'[v] = "cleanup" => pc[v] = "cleanup"
    BY DEF TypeOK, Tasks
  <1> QED BY <1>1, <1>2, <1>3 DEF Quiet

LEMMA NextAttemptQuiet ==
  ASSUME TypeOK, LockHeld, NEW w \in Writers, NextAttempt(w),
         pc[w] \in {"confirm", "reply"},
         UNCHANGED <<table, settled, pcRules, cache>>
  PROVE  Quiet
  <1>1. CASE attempt[w] < ConfirmAttempts - 1
    BY <1>1, MoveQuiet DEF NextAttempt, Again, Goto, WriterStages, Tasks
  <1>2. CASE ~(attempt[w] < ConfirmAttempts - 1)
    BY <1>2, ReturnQuiet DEF NextAttempt
  <1> QED BY <1>1, <1>2

LEMMA WriterQuiet ==
  ASSUME TypeOK, LockHeld, NEW w \in Writers,
         \/ Call(w) \/ StartWrite(w) \/ Snapshot(w) \/ WriteAccepted(w)
         \/ WriteRefused(w) \/ WriteAnswered(w) \/ ReadBackAnswered(w)
         \/ ConfirmFails(w) \/ FinishCleanup(w) \/ Raise(w) \/ CancelCall(w)
  PROVE  Quiet
  <1> USE DEF routerVars, lockVars, callVars, Goto, Tasks, WriterStages
  <1>1. CASE Call(w)
    <2>1. PICK r \in Requests : req' = [req EXCEPT ![w] = r]
      BY <1>1 DEF Call
    <2>2. /\ pc' = [pc EXCEPT ![w] = "queued"]
          /\ UNCHANGED <<table, settled, pcRules, answer, cache>>
      BY <1>1 DEF Call, Enqueue
    <2> QED BY <2>1, <2>2 DEF TypeOK, Quiet
  <1>2. CASE StartWrite(w)
    <2>1. /\ pc' = [pc EXCEPT ![w] = "snapshot"] /\ req' = req
          /\ UNCHANGED <<table, settled, pcRules, answer, cache>>
      BY <1>2 DEF StartWrite, Acquire
    <2> QED BY <2>1, MoveQuiet
  <1>3. CASE Snapshot(w)
    <2>1. /\ UNCHANGED <<table, settled, pcRules>> /\ cache' = table
          /\ pc[w] = "snapshot"
      BY <1>3 DEF Snapshot
    <2>2. CASE OverCapacity(table, req[w])
      <3>1. Return(w, "failed")
        BY <1>3, <2>2 DEF Snapshot
      <3> QED BY <2>1, <3>1, ReturnQuiet
    <2>3. CASE ~OverCapacity(table, req[w])
      <3>1. pc' = [pc EXCEPT ![w] = "write"] /\ req' = req /\ answer' = answer
        BY <1>3, <2>3 DEF Snapshot
      <3>2. answer[w] = NoTable
        BY <2>1 DEF TypeOK
      <3>3. answer' = [answer EXCEPT ![w] = NoTable]
        BY <3>1, <3>2 DEF TypeOK
      <3> QED BY <2>1, <3>1, <3>3, ReadQuiet
    <2> QED BY <2>2, <2>3
  <1>4. CASE WriteAccepted(w)
    <2>1. /\ pc' = [pc EXCEPT ![w] = "written"] /\ req' = req
          /\ UNCHANGED <<table, settled, pcRules, answer, cache>>
      BY <1>4 DEF WriteAccepted
    <2> QED BY <2>1, MoveQuiet
  <1>5. CASE WriteRefused(w) \/ WriteAnswered(w)
    <2>1. /\ pc' = [pc EXCEPT ![w] = "confirm"] /\ req' = req
          /\ UNCHANGED <<table, settled, pcRules, answer, cache>>
      BY <1>5 DEF WriteRefused, WriteAnswered
    <2> QED BY <2>1, MoveQuiet
  <1>10. CASE ReadBackAnswered(w)
    <2>1. /\ pc[w] = "confirm" /\ pc' = [pc EXCEPT ![w] = "reply"] /\ req' = req
          /\ UNCHANGED <<table, settled, pcRules>> /\ cache' = table
          /\ answer' = [answer EXCEPT ![w] = table]
      BY <1>10 DEF ReadBackAnswered, ForcedRead
    <2> QED BY <2>1, ReadQuiet
  <1>6. CASE ConfirmFails(w)
    BY <1>6, NextAttemptQuiet DEF ConfirmFails, ForcedRead
  <1>7. CASE FinishCleanup(w)
    BY <1>7, ReturnQuiet DEF FinishCleanup
  <1>8. CASE Raise(w)
    BY <1>8, ReturnQuiet DEF Raise
  <1>9. CASE CancelCall(w)
    <2>1. UNCHANGED <<table, settled, pcRules, cache>> /\ pc[w] # "idle"
      BY <1>9 DEF CancelCall
    <2>2. CASE pc[w] = "queued"
      <3>1. /\ pc' = [pc EXCEPT ![w] = "idle"] /\ answer' = answer
            /\ req' = [req EXCEPT ![w] = NoRequest]
        BY <1>9, <2>2 DEF CancelCall
      <3> QED BY <2>1, <3>1 DEF TypeOK, Quiet
    <2>3. CASE pc[w] # "queued"
      <3>1. Return(w, "failed")
        BY <1>9, <2>3 DEF CancelCall
      <3> QED BY <2>1, <2>3, <3>1, ReturnQuiet
    <2> QED BY <2>2, <2>3
  <1> QED BY <1>1, <1>2, <1>3, <1>4, <1>5, <1>6, <1>7, <1>8, <1>9, <1>10

\* What an answer that matches shows is what the call promised.
LEMMA MatchShows ==
  ASSUME TypeOK, NEW w \in Writers, pc[w] = "reply",
         Matches(answer[w], req[w], expected[w]),
         NEW m \in Macs, m \in req[w].macs \cup Rows(expected[w])
  PROVE  Sight(answer[w][m]) = Promised(w, m)
  <1>1. CASE m \notin req[w].macs
    BY <1>1 DEF Matches, Sight, Promised, Rows
  <1>2. CASE m \in req[w].macs
    BY <1>2 DEF Matches, Sight, Promised, Rows
  <1> QED BY <1>1, <1>2

\* The confirmation stores what the router showed.  It can confirm because no
\* other task is between its read and its store.
LEMMA ConfirmKeeps ==
  ASSUME ConfirmedInv, NEW w \in Writers, Confirm(w)
  PROVE  Kept'
  <1> USE DEF ConfirmedInv, Kept
  <1>1. /\ pc[w] = "reply" /\ pcRules' = answer[w]
        /\ UNCHANGED <<table, cache>>
    BY DEF Confirm
  <1>2. \A t \in Tasks \ {w} : pc[t] \in {"idle", "queued"} /\ answer[t] = NoTable
    BY <1>1, OnlyAnswer DEF LockHeld, Tasks
  <1>3. cache = answer[w] /\ answer[w] # NoTable /\ Agrees(answer[w])
    BY <1>1 DEF TypeOK, Tasks, AnswerCached, NothingStale
  <1>4. \/ NextAttempt(w) \/ Return(w, "ok") \/ Return(w, "failed")
        \/ Goto(w, "cleanup") /\ answer' = [answer EXCEPT ![w] = NoTable]
    BY DEF Confirm
  <1>5. \A t \in Tasks : answer'[t] = NoTable
    <2>1. answer' = [answer EXCEPT ![w] = NoTable]
      BY <1>4 DEF NextAttempt, Again, Return
    <2> QED BY <1>2, <2>1 DEF TypeOK
  <1>6. \A v \in Writers \ {w} : pc'[v] # "cleanup"
    BY <1>2, <1>4 DEF NextAttempt, Again, Return, Release, Goto, TypeOK, Tasks
  <1> DEFINE Fits(tbl) ==
               \A m \in Macs : settled'[m] # "open" => Sight(tbl[m]) = settled'[m]
  <1>7. ASSUME Fits(answer[w]), Fits(table)
        PROVE  Agrees(pcRules)' /\ NothingStale' /\ AnswerCached'
    <2>1. Agrees(pcRules)' /\ Agrees(cache)' /\ Agrees(table)'
      BY <1>1, <1>3, <1>7 DEF Agrees
    <2> QED BY <1>5, <2>1 DEF NothingStale, AnswerCached
  <1>8. ASSUME UNCHANGED settled
        PROVE  Agrees(pcRules)' /\ NothingStale' /\ AnswerCached'
    BY <1>3, <1>7, <1>8 DEF Agrees, NothingStale
  <1>9. ASSUME Matches(answer[w], req[w], expected[w]), settled' = Confirmed(w)
        PROVE  Agrees(pcRules)' /\ NothingStale' /\ AnswerCached'
    <2>1. ASSUME NEW m \in Macs, settled'[m] # "open"
          PROVE  Sight(answer[w][m]) = settled'[m] /\ Sight(table[m]) = settled'[m]
      <3>1. CASE table[m] = answer[w][m] /\ m \in req[w].macs \cup Rows(expected[w])
        <4>1. settled'[m] = Promised(w, m)
          BY <1>9, <3>1 DEF Confirmed
        <4> QED BY <1>1, <1>9, <3>1, <4>1, MatchShows
      <3>2. CASE ~(table[m] = answer[w][m] /\ m \in req[w].macs \cup Rows(expected[w]))
        <4>1. settled'[m] = settled[m]
          BY <1>9, <3>2 DEF Confirmed
        <4> QED BY <1>3, <2>1, <4>1 DEF Agrees, NothingStale
      <3> QED BY <3>1, <3>2
    <2> QED BY <1>7, <2>1
  <1>10. Agrees(pcRules)' /\ NothingStale' /\ AnswerCached'
    BY <1>8, <1>9 DEF Confirm
  <1>11. RemovalHolds'
    <2>1. CASE /\ Matches(answer[w], req[w], expected[w])
               /\ req[w].state = "remove" /\ UNCHANGED callVars
      BY <1>1, <1>6, <2>1 DEF RemovalHolds, Matches, callVars, Rows
    <2>2. CASE NextAttempt(w) \/ Return(w, "ok") \/ Return(w, "failed")
      <3>1. pc'[w] # "cleanup"
        BY <2>2 DEF NextAttempt, Again, Return, Release, Goto, TypeOK, Tasks
      <3> QED BY <1>6, <3>1 DEF RemovalHolds
    <2> QED BY <2>1, <2>2 DEF Confirm
  <1> QED BY <1>10, <1>11

\* A poll stores an answer while no writer removes switches; its other steps
\* are quiet.
LEMMA PollerKeeps ==
  ASSUME ConfirmedInv, NEW p \in Pollers,
         StartPoll(p) \/ StartRead(p) \/ Poll(p) \/ PollFails(p)
  PROVE  Kept'
  <1> USE DEF ConfirmedInv, routerVars, lockVars, callVars, Tasks, PollerStages,
              Goto
  <1>1. CASE StartPoll(p)
    <2>1. /\ pc' = [pc EXCEPT ![p] = "queued"] /\ req' = req
          /\ UNCHANGED <<table, settled, pcRules, answer, cache>>
      BY <1>1 DEF StartPoll, Enqueue
    <2> QED BY <2>1, MoveQuiet, QuietStep
  <1>2. CASE StartRead(p)
    <2>1. /\ pc' = [pc EXCEPT ![p] = "read"] /\ req' = req
          /\ UNCHANGED <<table, settled, pcRules, answer, cache>>
      BY <1>2 DEF StartRead, Acquire
    <2> QED BY <2>1, MoveQuiet, QuietStep
  <1>3. CASE PollAnswered(p)
    <2>1. PICK tbl \in {table} \cup ({cache} \ {NoTable}) :
            answer' = [answer EXCEPT ![p] = tbl] /\ cache' = tbl
      BY <1>3 DEF PollAnswered
    <2>2. /\ pc[p] = "read" /\ pc' = [pc EXCEPT ![p] = "reply"]
          /\ UNCHANGED <<table, settled, pcRules, req>>
      BY <1>3 DEF PollAnswered
    <2> QED BY <2>1, <2>2, ReadQuiet, QuietStep
  <1>4. CASE PollDelivered(p)
    <2> USE DEF Kept
    <2>1. /\ pc[p] = "reply" /\ pcRules' = answer[p]
          /\ answer' = [answer EXCEPT ![p] = NoTable]
          /\ pc' = [pc EXCEPT ![p] = "idle"]
          /\ UNCHANGED <<table, settled, cache>>
      BY <1>4 DEF PollDelivered, Release
    <2>2. answer[p] # NoTable /\ Agrees(answer[p])
      BY <2>1 DEF TypeOK, NothingStale
    <2>3. \A w \in Writers : pc[w] # "cleanup"
      BY <2>1, TaskAssumption DEF LockHeld
    <2>4. RemovalHolds'
      BY <2>1, <2>3, TaskAssumption DEF RemovalHolds, TypeOK
    <2>5. Agrees(pcRules)' /\ NothingStale' /\ AnswerCached'
      BY <2>1, <2>2 DEF Agrees, NothingStale, AnswerCached, TypeOK
    <2> QED BY <2>4, <2>5
  <1>5. CASE PollFails(p)
    <2>1. /\ answer' = [answer EXCEPT ![p] = NoTable]
          /\ pc' = [pc EXCEPT ![p] = "idle"]
          /\ UNCHANGED <<table, settled, cache, pcRules, req>>
      BY <1>5 DEF PollFails, Release
    <2> QED BY <2>1, MoveQuiet, QuietStep
  <1> QED BY <1>1, <1>2, <1>3, <1>4, <1>5 DEF Poll

\* A row that the router shows otherwise is no longer counted as settled.
LEMMA RouterKeeps ==
  ASSUME ConfirmedInv, RouterSettles \/ \E m \in Macs : WebEdit(m)
  PROVE  Kept'
  <1> USE DEF ConfirmedInv, Kept
  <1>1. /\ settled' = [m \in Macs |-> IF settled[m] = Sight(table'[m])
                                      THEN settled[m] ELSE "open"]
        /\ UNCHANGED <<cache, pcRules, pc, req, answer>>
    BY DEF RouterSettles, WebEdit, SetTable, callVars
  <1>2. RemovalHolds' /\ AnswerCached'
    BY <1>1 DEF RemovalHolds, AnswerCached, Rows
  <1>3. \A m \in Macs : settled'[m] # "open" =>
          settled'[m] = settled[m] /\ Sight(table'[m]) = settled'[m]
    BY <1>1
  <1>4. Agrees(pcRules)' /\ NothingStale'
    BY <1>1, <1>3 DEF Agrees, NothingStale
  <1> QED BY <1>2, <1>4

LEMMA ConfirmedStep == ConfirmedInv /\ [Next]_vars => ConfirmedInv'
  <1> SUFFICES ASSUME ConfirmedInv, [Next]_vars
               PROVE  Kept'
    BY TypeStep, LockStep DEF ConfirmedInv
  <1>1. ASSUME NEW w \in Writers,
               Call(w) \/ StartWrite(w) \/ Work(w) \/ Raise(w) \/ CancelCall(w)
        PROVE  Kept'
    BY <1>1, WriterQuiet, QuietStep, ConfirmKeeps DEF Work, ConfirmedInv
  <1>2. CASE UNCHANGED vars
    BY <1>2, QuietStep DEF vars, routerVars, callVars, Quiet
  <1> QED BY <1>1, <1>2, PollerKeeps, RouterKeeps DEF Next

\* While a writer removes the switches of a rule no poll brings the rule back;
\* a removed rule stays unknown, and a rule that a successful call set or left
\* alone stays known, until the router shows otherwise: for any number of
\* devices, callers, polls and attempts, and whatever the router, its web UI
\* and the network do.
THEOREM ConfirmedStaysKnown ==
  Spec => [](RemovalHolds /\ NoResurrection /\ ConfirmedKept)
  <1>1. Init => ConfirmedInv
    <2>1. Init => Kept
      BY DEF Init, Kept, RemovalHolds, Agrees, NothingStale, AnswerCached, Tasks
    <2> QED BY <2>1, TypeInit, TaskAssumption DEF ConfirmedInv, Init, LockHeld
  <1>2. ConfirmedInv => RemovalHolds /\ NoResurrection /\ ConfirmedKept
    <2> SUFFICES ASSUME ConfirmedInv
                 PROVE  RemovalHolds /\ NoResurrection /\ ConfirmedKept
      OBVIOUS
    <2>1. Agrees(pcRules) /\ pcRules \in Table
      BY DEF ConfirmedInv, Kept, TypeOK
    <2>2. NoResurrection
      BY <2>1 DEF NoResurrection, Agrees, Sight, Table, Rule, RuleTypes
    <2>3. ConfirmedKept
      BY <2>1 DEF ConfirmedKept, Agrees, RuleTypes
    <2> QED BY <2>2, <2>3 DEF ConfirmedInv, Kept
  <1> QED BY <1>1, <1>2, ConfirmedStep, PTL DEF Spec

-----------------------------------------------------------------------------
(***************************************************************************)
(* The invariant of the refinement.                                        *)
(***************************************************************************)

\* A table that matches what was sent for a request on it is what was sent.
LEMMA MatchIsSent ==
  ASSUME NEW t \in Table, NEW e \in Table, NEW r \in Request,
         e = Updated(t, r), Matches(t, r, e)
  PROVE  e = t
  <1>1. ASSUME NEW m \in Macs PROVE e[m] = t[m]
    <2>1. CASE m \notin r.macs
      BY <2>1 DEF Updated
    <2>2. CASE m \in r.macs /\ r.state = "remove"
      BY <2>2 DEF Updated, Matches, Rows
    <2>3. CASE m \in r.macs /\ r.state # "remove"
      <3>1. /\ t[m] # NoRule /\ e[m] # NoRule
            /\ t[m].type = RuleType(r.state)
            /\ t[m].name = e[m].name /\ t[m].timemap = e[m].timemap
        BY <2>3 DEF Matches
      <3>2. t[m] \in Rule /\ e[m] = ChangedRule(t[m], r, m)
        BY <2>3, <3>1 DEF Updated, Table
      <3>3. /\ e[m].type = RuleType(r.state)
            /\ e[m] = [type |-> e[m].type, name |-> e[m].name,
                       timemap |-> e[m].timemap]
            /\ t[m] = [type |-> t[m].type, name |-> t[m].name,
                       timemap |-> t[m].timemap]
        BY <3>2 DEF ChangedRule, Rule
      <3> QED BY <3>1, <3>3
    <2> QED BY <2>1, <2>2, <2>3
  <1> QED BY <1>1 DEF Table

\* A step that sends, applies and confirms nothing.
Idle ==
  /\ UNCHANGED <<table, pend>>
  /\ \A v \in Writers :
       /\ pc'[v] = "write" =>
            pc[v] = "write" /\ req'[v] = req[v] /\ expected'[v] = expected[v]
       /\ pc'[v] = "cleanup" => pc[v] = "cleanup" /\ req'[v] = req[v]
       /\ pc'[v] \in {"written", "confirm", "reply"} =>
            /\ pc[v] \in {"written", "confirm", "reply"}
            /\ req'[v] = req[v] /\ expected'[v] = expected[v]
       /\ pc'[v] = "reply" =>
            \/ pc[v] = "reply" /\ answer'[v] = answer[v]
            \/ answer'[v] = table

LEMMA IdleStep == RefInv /\ Idle => RefInv'
  <1> SUFFICES ASSUME RefInv, Idle PROVE RefInv'
    OBVIOUS
  <1>1. SnapshotCurrent' /\ WriteCurrent' /\ RemovalCurrent'
    BY DEF RefInv, Idle, SnapshotCurrent, WriteCurrent, RemovalCurrent, Awaiting,
           Rows, Updated
  <1>2. AnswerCurrent'
    BY DEF RefInv, Idle, AnswerCurrent, Updated
  <1> QED BY <1>1, <1>2 DEF RefInv

LEMMA ReturnIdle ==
  ASSUME TypeOK, NEW w \in Writers, NEW result, Return(w, result),
         UNCHANGED <<table, pend>>
  PROVE  Idle
  BY DEF TypeOK, Return, Release, Goto, Idle, Tasks

LEMMA NextAttemptIdle ==
  ASSUME TypeOK, NEW w \in Writers, NextAttempt(w), UNCHANGED <<table, pend>>,
         pc[w] \in {"confirm", "reply"}
  PROVE  Idle
  <1>1. CASE attempt[w] < ConfirmAttempts - 1
    BY <1>1 DEF NextAttempt, Again, Goto, Idle, TypeOK, Tasks
  <1>2. CASE ~(attempt[w] < ConfirmAttempts - 1)
    BY <1>2, ReturnIdle DEF NextAttempt
  <1> QED BY <1>1, <1>2

\* A task that waits, gets the lock or polls is idle in this sense.
LEMMA MoveIdle ==
  ASSUME TypeOK, NEW t \in Tasks,
         NEW s \in {"idle", "queued", "snapshot", "read", "reply"},
         pc' = [pc EXCEPT ![t] = s],
         t \in Writers => s # "reply",
         UNCHANGED <<table, pend, expected>>,
         \A v \in Writers \ {t} : req'[v] = req[v] /\ answer'[v] = answer[v]
  PROVE  Idle
  BY DEF TypeOK, Idle, Tasks

LEMMA PollerIdle ==
  ASSUME TypeOK, NEW p \in Pollers,
         StartPoll(p) \/ StartRead(p) \/ Poll(p) \/ PollFails(p)
  PROVE  Idle /\ UNCHANGED <<table, pend, req, outcome>>
         /\ \E s \in {"idle", "queued", "read", "reply"} :
              pc' = [pc EXCEPT ![p] = s]
  <1> USE DEF routerVars, lockVars, callVars, Goto, Tasks
  <1>1. UNCHANGED <<table, pend, req, outcome, expected>>
    BY DEF StartPoll, StartRead, Poll, PollAnswered, PollDelivered, PollFails
  <1>2. \E s \in {"idle", "queued", "read", "reply"} : pc' = [pc EXCEPT ![p] = s]
    BY DEF StartPoll, StartRead, Poll, PollAnswered, PollDelivered, PollFails,
           Enqueue, Acquire, Release
  <1>3. \E a : answer' \in {answer, [answer EXCEPT ![p] = a]}
    BY DEF StartPoll, StartRead, Poll, PollAnswered, PollDelivered, PollFails
  <1>4. \A v \in Writers : answer'[v] = answer[v]
    BY <1>3, TaskAssumption DEF TypeOK
  <1> QED BY <1>1, <1>2, <1>4, TaskAssumption, MoveIdle

\* The steps of a writer that are idle.
LEMMA WriterIdle ==
  ASSUME TypeOK, NEW w \in Writers,
         \/ Call(w) \/ StartWrite(w) \/ WriteAnswered(w)
         \/ ReadBackAnswered(w) \/ ConfirmFails(w) \/ FinishCleanup(w)
         \/ Raise(w) \/ CancelCall(w)
  PROVE  Idle
  <1> USE DEF routerVars, lockVars, callVars, Goto, Tasks
  <1>1. CASE Call(w)
    <2>1. PICK r \in Requests : req' = [req EXCEPT ![w] = r]
      BY <1>1 DEF Call
    <2>2. /\ pc' = [pc EXCEPT ![w] = "queued"]
          /\ UNCHANGED <<table, pend, expected, answer>>
      BY <1>1 DEF Call, Enqueue
    <2>3. \A v \in Writers \ {w} : req'[v] = req[v]
      BY <2>1 DEF TypeOK
    <2> QED BY <2>2, <2>3, MoveIdle
  <1>2. CASE StartWrite(w)
    <2>1. /\ pc' = [pc EXCEPT ![w] = "snapshot"]
          /\ UNCHANGED <<table, pend, expected, req, answer>>
      BY <1>2 DEF StartWrite, Acquire
    <2> QED BY <2>1, MoveIdle
  <1>3. CASE WriteAnswered(w)
    <2>1. /\ pc[w] = "written" /\ pc' = [pc EXCEPT ![w] = "confirm"]
          /\ UNCHANGED <<table, pend, expected, req, answer>>
      BY <1>3 DEF WriteAnswered
    <2> QED BY <2>1 DEF TypeOK, Idle
  <1>8. CASE ReadBackAnswered(w)
    <2>1. /\ pc[w] = "confirm" /\ pc' = [pc EXCEPT ![w] = "reply"]
          /\ answer' = [answer EXCEPT ![w] = table]
          /\ UNCHANGED <<table, pend, expected, req>>
      BY <1>8 DEF ReadBackAnswered, ForcedRead
    <2> QED BY <2>1 DEF TypeOK, Idle
  <1>4. CASE ConfirmFails(w)
    BY <1>4, NextAttemptIdle DEF ConfirmFails, ForcedRead
  <1>5. CASE FinishCleanup(w)
    BY <1>5, ReturnIdle DEF FinishCleanup
  <1>6. CASE Raise(w)
    BY <1>6, ReturnIdle DEF Raise
  <1>7. CASE CancelCall(w)
    <2>1. UNCHANGED <<table, pend>>
      BY <1>7 DEF CancelCall
    <2>2. CASE pc[w] = "queued"
      <3>1. /\ pc' = [pc EXCEPT ![w] = "idle"] /\ expected' = expected
            /\ req' = [req EXCEPT ![w] = NoRequest] /\ answer' = answer
        BY <1>7, <2>2 DEF CancelCall
      <3>2. \A v \in Writers \ {w} : req'[v] = req[v]
        BY <3>1 DEF TypeOK
      <3> QED BY <2>1, <3>1, <3>2, MoveIdle
    <2>3. CASE pc[w] # "queued"
      <3>1. Return(w, "failed")
        BY <1>7, <2>3 DEF CancelCall
      <3> QED BY <2>1, <3>1, ReturnIdle
    <2> QED BY <2>2, <2>3
  <1> QED BY <1>1, <1>2, <1>3, <1>4, <1>5, <1>6, <1>7, <1>8

\* The lock makes a writer inside its critical section the only one there.
LEMMA Alone ==
  ASSUME LockHeld, NEW w \in Writers, pc[w] \notin {"idle", "queued"}
  PROVE  \A v \in Writers \ {w} : pc[v] \in {"idle", "queued"}
  BY DEF LockHeld, Tasks

LEMMA SnapshotRef ==
  ASSUME Faults = {}, TypeOK, LockHeld, RefInv, NEW w \in Writers, Snapshot(w)
  PROVE  RefInv'
  <1>1. pend = NoWrite /\ UNCHANGED <<table, pend>> /\ pc[w] = "snapshot"
    BY DEF Snapshot, routerVars
  <1>2. CASE OverCapacity(table, req[w])
    <2>1. Return(w, "failed")
      BY <1>2 DEF Snapshot
    <2> QED BY <1>1, <2>1, ReturnIdle, IdleStep
  <1>3. CASE ~OverCapacity(table, req[w])
    <2>1. /\ expected' = [expected EXCEPT ![w] = Updated(table, req[w])]
          /\ pc' = [pc EXCEPT ![w] = "write"] /\ UNCHANGED req
      BY <1>3 DEF Snapshot, Goto
    <2>2. expected'[w] = Updated(table, req[w])
      BY <2>1 DEF TypeOK
    <2>3. \A v \in Writers \ {w} : pc'[v] \in {"idle", "queued"}
      BY <1>1, <2>1, Alone DEF TypeOK, Tasks
    <2>4. SnapshotCurrent'
      BY <1>1, <2>1, <2>2, <2>3 DEF SnapshotCurrent, Updated
    <2>5. RemovalCurrent' /\ WriteCurrent' /\ AnswerCurrent'
      BY <1>1, <2>1, <2>3
      DEF RemovalCurrent, WriteCurrent, AnswerCurrent, TypeOK, Tasks
    <2> QED BY <2>4, <2>5 DEF RefInv
  <1> QED BY <1>2, <1>3

LEMMA WriteRef ==
  ASSUME Faults = {}, TypeOK, LockHeld, RefInv, NEW w \in Writers,
         WriteAccepted(w) \/ WriteRefused(w)
  PROVE  RefInv'
  <1>1. pc[w] = "write" /\ pend = NoWrite /\ UNCHANGED <<table, req, expected>>
    BY DEF WriteAccepted, WriteRefused, RefInv, WriteCurrent, routerVars, callVars
  <1>2. expected[w] = Updated(table, req[w])
    BY <1>1 DEF RefInv, SnapshotCurrent
  <1>3. CASE WriteAccepted(w)
    <2>1. /\ pend' = [tbl |-> expected[w], req |-> req[w]]
          /\ pc' = [pc EXCEPT ![w] = "written"]
      BY <1>3 DEF WriteAccepted, Applied, Goto
    <2>2. \A v \in Writers \ {w} : pc'[v] \in {"idle", "queued"}
      BY <1>1, <2>1, Alone DEF TypeOK, Tasks
    <2>3. pc'[w] = "written"
      BY <2>1 DEF TypeOK, Tasks
    <2>4. WriteCurrent'
      BY <1>1, <1>2, <2>1, <2>2, <2>3 DEF WriteCurrent, Awaiting
    <2>5. SnapshotCurrent' /\ AnswerCurrent' /\ RemovalCurrent'
      BY <2>2, <2>3 DEF SnapshotCurrent, AnswerCurrent, RemovalCurrent
    <2> QED BY <2>4, <2>5 DEF RefInv
  <1>4. CASE WriteRefused(w)
    <2>1. pend' = NoWrite /\ pc' = [pc EXCEPT ![w] = "confirm"]
      BY <1>1, <1>4 DEF WriteRefused, Goto, routerVars
    <2>2. \A v \in Writers \ {w} : pc'[v] \in {"idle", "queued"}
      BY <1>1, <2>1, Alone DEF TypeOK, Tasks
    <2>3. pc'[w] = "confirm"
      BY <2>1 DEF TypeOK, Tasks
    <2> QED BY <2>1, <2>2, <2>3
            DEF RefInv, WriteCurrent, SnapshotCurrent, AnswerCurrent,
                RemovalCurrent
  <1> QED BY <1>3, <1>4

\* An answer that matches is the router's table still, and the write that was
\* sent, if it was accepted at all, is applied.
LEMMA ConfirmedIsApplied ==
  ASSUME TypeOK, RefInv, NEW w \in Writers, pc[w] = "reply",
         Matches(answer[w], req[w], expected[w])
  PROVE  answer[w] = table /\ (pend = NoWrite \/ pend.tbl = table)
  <1>1. /\ req[w] \in Request /\ expected[w] \in Table /\ table \in Table
        /\ answer[w] \in Table
    BY RouterAssumption DEF TypeOK, Tasks
  <1>2. answer[w] = table
    <2>1. CASE expected[w] = Updated(answer[w], req[w]) /\ table = expected[w]
      BY <1>1, <2>1, MatchIsSent
    <2> QED BY <2>1 DEF RefInv, AnswerCurrent
  <1>3. CASE pend # NoWrite
    <2>1. /\ pend = [tbl |-> expected[w], req |-> req[w]]
          /\ pend.tbl = Updated(table, pend.req)
      BY <1>3 DEF RefInv, WriteCurrent, Awaiting
    <2> QED BY <1>1, <1>2, <2>1, MatchIsSent
  <1> QED BY <1>2, <1>3

LEMMA ConfirmRef ==
  ASSUME TypeOK, LockHeld, RefInv, NEW w \in Writers, Confirm(w)
  PROVE  RefInv'
  <1>1. pc[w] = "reply" /\ UNCHANGED <<table, pend>>
    BY DEF Confirm
  <1>2. CASE NextAttempt(w)
    BY <1>1, <1>2, NextAttemptIdle, IdleStep
  <1>3. CASE Return(w, "ok") \/ Return(w, "failed")
    BY <1>1, <1>3, ReturnIdle, IdleStep
  <1>4. CASE /\ Matches(answer[w], req[w], expected[w])
             /\ req[w].state = "remove"
             /\ Goto(w, "cleanup") /\ UNCHANGED callVars
    <2>1. \A v \in Writers \ {w} : pc'[v] \in {"idle", "queued"}
      BY <1>1, <1>4, Alone DEF TypeOK, Tasks, Goto
    <2>2. pc'[w] = "cleanup"
      BY <1>4 DEF TypeOK, Tasks, Goto
    <2>3. SnapshotCurrent' /\ AnswerCurrent'
      BY <2>1, <2>2 DEF SnapshotCurrent, AnswerCurrent
    <2>4. answer[w] = table /\ (pend = NoWrite \/ pend.tbl = table)
      BY <1>1, <1>4, ConfirmedIsApplied
    <2>5. WriteCurrent'
      BY <1>1, <1>4, <2>1, <2>2, <2>4 DEF WriteCurrent, RefInv, Awaiting, Updated
    <2>6. Rows(table) \cap req[w].macs = {}
      BY <1>4, <2>4 DEF Matches
    <2>7. RemovalCurrent'
      BY <1>1, <1>4, <2>1, <2>6 DEF RemovalCurrent, callVars, Rows
    <2> QED BY <2>3, <2>5, <2>7 DEF RefInv
  <1> QED BY <1>2, <1>3, <1>4 DEF Confirm

LEMMA SettleRef ==
  ASSUME TypeOK, LockHeld, RefInv, RouterSettles
  PROVE  RefInv'
  <1>1. /\ pend # NoWrite /\ pend' = NoWrite /\ table' = pend.tbl
        /\ UNCHANGED <<pc, req, expected, answer>>
    BY DEF RouterSettles, SetTable, callVars
  <1>2. \A w \in Writers : pc[w] # "write"
    BY <1>1 DEF RefInv, WriteCurrent
  <1>3. \A w \in Writers : pc[w] = "cleanup" => table' = table
    BY <1>1 DEF RefInv, WriteCurrent
  <1>4. AnswerCurrent'
    <2>1. ASSUME NEW w \in Writers, pc[w] = "reply"
          PROVE  table' = expected[w] /\ expected[w] = Updated(answer[w], req[w])
      <3>1. /\ pend = [tbl |-> expected[w], req |-> req[w]]
            /\ pend.tbl = Updated(table, pend.req)
        BY <1>1, <2>1 DEF RefInv, WriteCurrent, Awaiting
      <3>2. answer[w] = table
        BY <1>1, <2>1 DEF RefInv, AnswerCurrent
      <3> QED BY <1>1, <3>1, <3>2
    <2> QED BY <1>1, <2>1 DEF AnswerCurrent, Updated
  <1> QED BY <1>1, <1>2, <1>3, <1>4
          DEF RefInv, SnapshotCurrent, WriteCurrent, RemovalCurrent, Rows

LEMMA RefStep ==
  ASSUME Faults = {}
  PROVE  TypeOK /\ LockHeld /\ RefInv /\ [Next]_vars => RefInv'
  <1> SUFFICES ASSUME TypeOK, LockHeld, RefInv, [Next]_vars
               PROVE  RefInv'
    OBVIOUS
  <1>1. ASSUME NEW w \in Writers,
               Call(w) \/ StartWrite(w) \/ Work(w) \/ Raise(w) \/ CancelCall(w)
        PROVE  RefInv'
    BY <1>1, SnapshotRef, WriteRef, ConfirmRef, WriterIdle, IdleStep DEF Work
  <1>2. ASSUME NEW p \in Pollers,
               StartPoll(p) \/ StartRead(p) \/ Poll(p) \/ PollFails(p)
        PROVE  RefInv'
    BY <1>2, PollerIdle, IdleStep
  <1>3. ~ \E m \in Macs : WebEdit(m)
    BY DEF WebEdit
  <1>4. CASE UNCHANGED vars
    BY <1>4, IdleStep DEF vars, routerVars, callVars, Idle
  <1> QED BY <1>1, <1>2, <1>3, <1>4, SettleRef DEF Next

\* The invariant of the refinement, for a faultless environment.
THEOREM RefinementInvariant ==
  ASSUME Faults = {}
  PROVE  Spec => []RefInv
  <1>1. Init => RefInv
    BY DEF Init, RefInv, SnapshotCurrent, WriteCurrent, AnswerCurrent,
           RemovalCurrent, Tasks
  <1>2. TypeOK /\ LockHeld /\ RefInv /\ [Next]_vars => RefInv'
    BY RefStep
  <1> QED BY <1>1, <1>2, TypeCorrect, MutualExclusion, PTL DEF Spec

-----------------------------------------------------------------------------
(***************************************************************************)
(* What a write changes.                                                   *)
(***************************************************************************)

\* Nothing but its taking effect ends the wait for a write.
LEMMA OnlySettles ==
  ASSUME TypeOK, RefInv, [Next]_vars, pend # NoWrite, pend' = NoWrite
  PROVE  RouterSettles
  <1>1. ASSUME NEW w \in Writers,
               \/ Call(w) \/ StartWrite(w) \/ Work(w) \/ Raise(w)
               \/ CancelCall(w)
        PROVE  FALSE
    <2>1. CASE WriteAccepted(w)
      BY <2>1 DEF WriteAccepted, RefInv, WriteCurrent
    <2>2. CASE ~WriteAccepted(w)
      BY <1>1, <2>2
      DEF Call, StartWrite, Work, Raise, CancelCall, Snapshot, WriteRefused,
          WriteAnswered, ReadBackAnswered, Confirm, ConfirmFails,
          FinishCleanup, routerVars
    <2> QED BY <2>1, <2>2
  <1>2. ASSUME NEW p \in Pollers,
               StartPoll(p) \/ StartRead(p) \/ Poll(p) \/ PollFails(p)
        PROVE  FALSE
    BY <1>2, PollerIdle
  <1> QED BY <1>1, <1>2 DEF Next, WebEdit, vars, routerVars

\* No other row, no schedule, and no name that the request does not replace.
THEOREM WritesTouchOnlyTargets ==
  ASSUME Faults = {}
  PROVE  Spec => WriteTouchesOnlyTargets
  <1>1. ASSUME TypeOK, RefInv, [Next]_vars, pend # NoWrite, pend' = NoWrite,
               NEW m \in Macs
        PROVE  IF m \notin pend.req.macs
               THEN table'[m] = table[m]
               ELSE table[m] # NoRule /\ table'[m] # NoRule =>
                      /\ table'[m].timemap = table[m].timemap
                      /\ table'[m].name \in {table[m].name, pend.req.name[m]}
    <2>1. RouterSettles
      BY <1>1, OnlySettles
    <2>2. table' = Updated(table, pend.req)
      BY <1>1, <2>1 DEF RouterSettles, SetTable, RefInv, WriteCurrent
    <2> QED BY <2>2 DEF Updated, ChangedRule, NameOr
  <1>2. TypeOK /\ RefInv /\ [Next]_vars =>
          [pend # NoWrite /\ pend' = NoWrite =>
             \A m \in Macs :
               IF m \notin pend.req.macs
               THEN table'[m] = table[m]
               ELSE table[m] # NoRule /\ table'[m] # NoRule =>
                      /\ table'[m].timemap = table[m].timemap
                      /\ table'[m].name \in {table[m].name, pend.req.name[m]}
          ]_vars
    BY <1>1
  <1> QED BY <1>2, TypeCorrect, RefinementInvariant, PTL
          DEF WriteTouchesOnlyTargets, Spec

-----------------------------------------------------------------------------
(***************************************************************************)
(* The limit.                                                              *)
(***************************************************************************)

\* The capacity that was judged is that of the table the write will replace.
FitsInv ==
  /\ \A w \in Writers : pc[w] = "write" => ~OverCapacity(table, req[w])
  /\ pend # NoWrite => ~OverCapacity(table, pend.req)

LEMMA FitsStep ==
  ASSUME Faults = {}
  PROVE  TypeOK /\ LockHeld /\ RefInv /\ FitsInv /\ [Next]_vars => FitsInv'
  <1> SUFFICES ASSUME TypeOK, LockHeld, RefInv, FitsInv, [Next]_vars
               PROVE  FitsInv'
    OBVIOUS
  <1>1. ASSUME UNCHANGED <<table, pend>>,
               \A v \in Writers :
                 pc'[v] = "write" =>
                   \/ pc[v] = "write" /\ req'[v] = req[v]
                   \/ ~OverCapacity(table, req'[v])
        PROVE  FitsInv'
    BY <1>1 DEF FitsInv, OverCapacity, Updated, Rows
  <1>2. Idle => FitsInv'
    BY <1>1 DEF Idle
  <1>3. ASSUME NEW w \in Writers, Snapshot(w) PROVE FitsInv'
    <2>1. UNCHANGED <<table, pend>>
      BY <1>3 DEF Snapshot, routerVars
    <2>2. CASE OverCapacity(table, req[w])
      <3>1. Return(w, "failed")
        BY <1>3, <2>2 DEF Snapshot
      <3> QED BY <1>2, <2>1, <3>1, ReturnIdle
    <2>3. CASE ~OverCapacity(table, req[w])
      <3>1. pc' = [pc EXCEPT ![w] = "write"] /\ req' = req
        BY <1>3, <2>3 DEF Snapshot, Goto
      <3>2. \A v \in Writers : pc'[v] = "write" =>
              pc[v] = "write" \/ ~OverCapacity(table, req'[v])
        BY <2>3, <3>1 DEF TypeOK, Tasks
      <3> QED BY <1>1, <2>1, <3>1, <3>2
    <2> QED BY <2>2, <2>3
  <1>4. ASSUME NEW w \in Writers, WriteAccepted(w) \/ WriteRefused(w)
        PROVE  FitsInv'
    <2>1. /\ pc[w] = "write" /\ UNCHANGED <<table, req>>
          /\ pend' = pend \/ pend'.req = req[w]
          /\ \E s \in {"written", "confirm"} : pc' = [pc EXCEPT ![w] = s]
      BY <1>4 DEF WriteAccepted, WriteRefused, Goto, routerVars, callVars
    <2>2. \A v \in Writers : pc'[v] = "write" => pc[v] = "write"
      BY <2>1 DEF TypeOK, Tasks
    <2>3. pend' # NoWrite => ~OverCapacity(table, pend'.req)
      BY <2>1 DEF FitsInv
    <2> QED BY <2>1, <2>2, <2>3 DEF FitsInv, OverCapacity, Updated, Rows
  <1>5. ASSUME NEW w \in Writers, Confirm(w) PROVE FitsInv'
    <2>1. pc[w] = "reply" /\ UNCHANGED <<table, pend>>
      BY <1>5 DEF Confirm
    <2>2. CASE NextAttempt(w) \/ Return(w, "ok") \/ Return(w, "failed")
      BY <1>2, <2>1, <2>2, NextAttemptIdle, ReturnIdle
    <2>3. CASE Goto(w, "cleanup") /\ UNCHANGED callVars
      <3>1. \A v \in Writers : pc'[v] = "write" => pc[v] = "write" /\ req'[v] = req[v]
        BY <2>3 DEF Goto, callVars, TypeOK, Tasks
      <3> QED BY <1>1, <2>1, <3>1
    <2> QED BY <1>5, <2>2, <2>3 DEF Confirm
  <1>6. ASSUME RouterSettles PROVE FitsInv'
    BY <1>6 DEF RouterSettles, RefInv, WriteCurrent, FitsInv
  <1>7. ASSUME NEW p \in Pollers,
               StartPoll(p) \/ StartRead(p) \/ Poll(p) \/ PollFails(p)
        PROVE  FitsInv'
    BY <1>2, <1>7, PollerIdle
  <1>8. ~ \E m \in Macs : WebEdit(m)
    BY DEF WebEdit
  <1>9. CASE UNCHANGED vars
    BY <1>2, <1>9 DEF vars, routerVars, callVars, Idle
  <1> QED BY <1>2, <1>3, <1>4, <1>5, <1>6, <1>7, <1>8, <1>9, WriterIdle
          DEF Next, Work

\* A request on a table that has room for it does not take it past the limit.
LEMMA GrowsWithin ==
  ASSUME NEW t \in Table, NEW r \in Request, ~OverCapacity(t, r),
         Cardinality(Rows(Updated(t, r))) > Cardinality(Rows(t))
  PROVE  Cardinality(Rows(Updated(t, r))) <= MaxRules
  <1>1. /\ IsFiniteSet(Rows(t)) /\ IsFiniteSet(Rows(Updated(t, r)))
    BY DataAssumption, FS_Subset DEF Rows
  <1>2. /\ Cardinality(Rows(t)) \in Nat
        /\ Cardinality(Rows(Updated(t, r))) \in Nat
    BY <1>1, FS_CardinalityType
  <1>3. r.state # "remove"
    <2>1. SUFFICES ASSUME r.state = "remove" PROVE FALSE
      OBVIOUS
    <2>2. Rows(Updated(t, r)) \subseteq Rows(t)
      BY <2>1 DEF Rows, Updated
    <2>3. Cardinality(Rows(Updated(t, r))) <= Cardinality(Rows(t))
      BY <1>1, <2>2, FS_Subset
    <2> QED BY <1>2, <2>3
  <1> QED BY <1>2, <1>3, DataAssumption DEF OverCapacity

\* Without edits behind the integration's back, late writes and lost rows, no
\* write takes the table past the limit, for any number of writers and devices:
\* the table that was judged is the one that the write replaces.
THEOREM GrowthStaysWithin ==
  ASSUME Faults = {}
  PROVE  Spec => GrowthWithinLimit
  <1>1. ASSUME TypeOK, RefInv, FitsInv, [Next]_vars,
               pend # NoWrite, pend' = NoWrite,
               Cardinality(Rows(table')) > Cardinality(Rows(table))
        PROVE  Cardinality(Rows(table')) <= MaxRules
    <2>1. table' = Updated(table, pend.req)
      BY <1>1, OnlySettles DEF RouterSettles, SetTable, RefInv, WriteCurrent
    <2>2. table \in Table /\ pend.req \in Request
      BY <1>1, RouterAssumption DEF TypeOK, PendingWrite
    <2>3. ~OverCapacity(table, pend.req)
      BY <1>1 DEF FitsInv
    <2> QED BY <1>1, <2>1, <2>2, <2>3, GrowsWithin
  <1>2. TypeOK /\ RefInv /\ FitsInv /\ [Next]_vars =>
          [/\ pend # NoWrite /\ pend' = NoWrite
           /\ Cardinality(Rows(table')) > Cardinality(Rows(table))
           => Cardinality(Rows(table')) <= MaxRules]_vars
    BY <1>1
  <1>3. Init => FitsInv
    BY DEF Init, FitsInv, Tasks
  <1>4. TypeOK /\ LockHeld /\ RefInv /\ FitsInv /\ [Next]_vars => FitsInv'
    BY FitsStep
  <1> QED BY <1>2, <1>3, <1>4, TypeCorrect, MutualExclusion,
             RefinementInvariant, PTL DEF GrowthWithinLimit, Spec

-----------------------------------------------------------------------------
(***************************************************************************)
(* Refinement.                                                             *)
(***************************************************************************)

\* The instance computes the same tables.
LEMMA SameUpdate ==
  ASSUME NEW t, NEW r
  PROVE  Service!Updated(t, r) = Updated(t, r)
  BY DEF Service!Updated, Updated, Service!NewRule, NewRule,
         Service!ChangedRule, ChangedRule, Service!NameOr, NameOr,
         Service!RuleType, RuleType

\* Where no write is pending, or the writer that awaits it is there, there is
\* no straggler.
LEMMA NoStraggler ==
  ASSUME pend = NoWrite \/ Awaiting # {} \/ pend.tbl = table
  PROVE  Straggler = NoRequest
  BY DEF Straggler

\* A step that changes neither the calls, nor the table and the write pending
\* for it, nor who awaits that write, is not seen by the callers.
LEMMA Unseen ==
  ASSUME UNCHANGED <<table, pend, req, outcome, Awaiting>>
  PROVE  UNCHANGED Service!vars
  BY DEF Service!vars, Straggler

\* A call that ends without success is a failure of the service; a write it
\* leaves behind becomes the straggler.
LEMMA ReturnFails ==
  ASSUME TypeOK, LockHeld, RefInv, NEW w \in Writers, Return(w, "failed"),
         pc[w] \notin {"idle", "queued"}, UNCHANGED <<table, pend>>
  PROVE  Service!Fail(w)
  <1>1. /\ req[w] # NoRequest /\ req' = [req EXCEPT ![w] = NoRequest]
        /\ outcome' = [outcome EXCEPT ![w] = "failed"]
        /\ pc' = [pc EXCEPT ![w] = "idle"]
    BY DEF TypeOK, Return, Release, Goto
  <1>2. \A v \in Writers \ {w} :
          pc[v] \in {"idle", "queued"} /\ pc'[v] \in {"idle", "queued"}
    BY <1>1, Alone DEF TypeOK, Tasks
  <1>3. pc'[w] = "idle"
    BY <1>1 DEF TypeOK, Tasks
  <1>4. Awaiting' = {}
    BY <1>2, <1>3 DEF Awaiting
  <1>5. Straggler' \in {Straggler, req[w]}
    <2>1. CASE w \in Awaiting
      <3>1. pend # NoWrite => pend.req = req[w]
        BY <2>1 DEF RefInv, WriteCurrent
      <3>2. Straggler = NoRequest
        BY <2>1, NoStraggler
      <3> QED BY <1>4, <3>1, <3>2 DEF Straggler
    <2>2. CASE w \notin Awaiting
      <3>1. Awaiting = {}
        BY <1>2, <2>2 DEF Awaiting
      <3> QED BY <1>4, <3>1 DEF Straggler
    <2> QED BY <2>1, <2>2
  <1> QED BY <1>1, <1>5 DEF Service!Fail

LEMMA NextAttemptFails ==
  ASSUME TypeOK, LockHeld, RefInv, NEW w \in Writers, NextAttempt(w),
         pc[w] \in {"confirm", "reply"}, UNCHANGED <<table, pend>>
  PROVE  Service!Fail(w) \/ UNCHANGED Service!vars
  <1>1. CASE attempt[w] < ConfirmAttempts - 1
    <2>1. pc' = [pc EXCEPT ![w] = "confirm"] /\ UNCHANGED <<req, outcome>>
      BY <1>1 DEF NextAttempt, Again, Goto
    <2>2. Awaiting' = Awaiting
      BY <2>1 DEF Awaiting, TypeOK, Tasks
    <2> QED BY <2>1, <2>2, Unseen
  <1>2. CASE ~(attempt[w] < ConfirmAttempts - 1)
    BY <1>2, ReturnFails DEF NextAttempt
  <1> QED BY <1>1, <1>2

\* A call that returns success while its request holds, and no write of it is
\* left that would change the table, is a success of the service.
LEMMA ReturnSucceeds ==
  ASSUME TypeOK, LockHeld, NEW w \in Writers, Return(w, "ok"),
         pc[w] \notin {"idle", "queued"}, UNCHANGED <<table, pend>>,
         pend = NoWrite \/ pend.tbl = table,
         Service!Holds(table, req[w])
  PROVE  Service!Succeed(w)
  <1>1. /\ req[w] # NoRequest /\ req' = [req EXCEPT ![w] = NoRequest]
        /\ outcome' = [outcome EXCEPT ![w] = "ok"]
    BY DEF TypeOK, Return
  <1>2. Straggler = NoRequest /\ Straggler' = NoRequest
    BY DEF Straggler
  <1> QED BY <1>1, <1>2 DEF Service!Succeed

LEMMA CallRefines ==
  ASSUME TypeOK, NEW w \in Writers, Call(w)
  PROVE  Service!Begin(w)
  <1>1. /\ pc[w] = "idle" /\ pc' = [pc EXCEPT ![w] = "queued"]
        /\ outcome' = [outcome EXCEPT ![w] = "none"]
        /\ UNCHANGED <<table, pend>>
    BY DEF Call, Enqueue, Goto, routerVars
  <1>2. PICK r \in Requests : req' = [req EXCEPT ![w] = r]
    BY DEF Call
  <1>3. Awaiting' = Awaiting
    BY <1>1 DEF Awaiting, TypeOK, Tasks
  <1>4. req[w] = NoRequest /\ Straggler' = Straggler
    BY <1>1, <1>3 DEF TypeOK, Straggler
  <1> QED BY <1>1, <1>2, <1>4 DEF Service!Begin

\* A confirmed request holds.
LEMMA MatchHolds ==
  ASSUME TypeOK, NEW w \in Writers, req[w] # NoRequest,
         Matches(table, req[w], expected[w])
  PROVE  Service!Holds(table, req[w])
  <1>1. req[w].macs \subseteq Macs
    <2>1. req[w] \in Requests
      BY DEF TypeOK
    <2> QED BY <2>1, RouterAssumption DEF Request
  <1>2. CASE req[w].state = "remove"
    BY <1>1, <1>2 DEF Matches, Rows, Service!Holds
  <1>3. CASE req[w].state # "remove"
    BY <1>3 DEF Matches, Service!Holds, Service!RuleType, RuleType
  <1> QED BY <1>2, <1>3

LEMMA ConfirmRefines ==
  ASSUME TypeOK, LockHeld, RefInv, NEW w \in Writers, Confirm(w)
  PROVE  [Service!Next]_(Service!vars)
  <1>1. pc[w] = "reply" /\ UNCHANGED <<table, pend>> /\ req[w] # NoRequest
    BY DEF Confirm, TypeOK
  <1>2. CASE NextAttempt(w)
    BY <1>1, <1>2, NextAttemptFails DEF Service!Next
  <1>3. CASE Return(w, "failed")
    BY <1>1, <1>3, ReturnFails DEF Service!Next
  <1>4. CASE Matches(answer[w], req[w], expected[w]) /\ Return(w, "ok")
    <2>1. answer[w] = table /\ (pend = NoWrite \/ pend.tbl = table)
      BY <1>1, <1>4, ConfirmedIsApplied
    <2> QED BY <1>1, <1>4, <2>1, MatchHolds, ReturnSucceeds DEF Service!Next
  <1>5. CASE /\ Matches(answer[w], req[w], expected[w]) /\ Goto(w, "cleanup")
             /\ UNCHANGED callVars
    <2>1. pend = NoWrite \/ pend.tbl = table
      BY <1>1, <1>5, ConfirmedIsApplied
    <2>2. Straggler = NoRequest /\ Straggler' = NoRequest
      BY <1>1, <2>1 DEF Straggler
    <2> QED BY <1>1, <1>5, <2>2 DEF callVars, Service!vars
  <1> QED BY <1>2, <1>3, <1>4, <1>5 DEF Confirm

LEMMA SnapshotRefines ==
  ASSUME Faults = {}, TypeOK, LockHeld, RefInv, NEW w \in Writers, Snapshot(w)
  PROVE  Service!Fail(w) \/ UNCHANGED Service!vars
  <1>1. pend = NoWrite /\ UNCHANGED <<table, pend>> /\ pc[w] = "snapshot"
    BY DEF Snapshot, routerVars
  <1>2. CASE OverCapacity(table, req[w])
    BY <1>1, <1>2, ReturnFails DEF Snapshot
  <1>3. CASE ~OverCapacity(table, req[w])
    BY <1>1, <1>3 DEF Snapshot, Straggler, Service!vars
  <1> QED BY <1>2, <1>3

LEMMA WriteRefines ==
  ASSUME TypeOK, LockHeld, RefInv, NEW w \in Writers,
         WriteAccepted(w) \/ WriteRefused(w)
  PROVE  UNCHANGED Service!vars
  <1>1. /\ pc[w] = "write" /\ pend = NoWrite
        /\ UNCHANGED <<table, req, outcome>>
    BY DEF WriteAccepted, WriteRefused, RefInv, WriteCurrent, routerVars, callVars
  <1>2. CASE WriteAccepted(w)
    <2>1. w \in Awaiting'
      BY <1>2 DEF WriteAccepted, Goto, Awaiting, TypeOK, Tasks
    <2> QED BY <1>1, <2>1 DEF Straggler, Service!vars
  <1>3. CASE WriteRefused(w)
    BY <1>1, <1>3 DEF WriteRefused, routerVars, Straggler, Service!vars
  <1> QED BY <1>2, <1>3

LEMMA FinishRefines ==
  ASSUME TypeOK, LockHeld, RefInv, NEW w \in Writers, FinishCleanup(w)
  PROVE  Service!Succeed(w) \/ Service!Fail(w)
  <1>1. pc[w] = "cleanup" /\ UNCHANGED <<table, pend>>
    BY DEF FinishCleanup, routerVars
  <1>2. CASE Return(w, "failed")
    BY <1>1, <1>2, ReturnFails
  <1>3. CASE Return(w, "ok")
    <2>1. pend = NoWrite \/ pend.tbl = table
      BY <1>1 DEF RefInv, WriteCurrent
    <2>2. req[w].macs \subseteq Macs
      <3>1. req[w] # NoRequest /\ req[w] \in Requests \cup {NoRequest}
        BY <1>1 DEF TypeOK
      <3> QED BY <3>1, RouterAssumption DEF Request
    <2>3. Service!Holds(table, req[w])
      BY <1>1, <2>2 DEF RefInv, RemovalCurrent, Rows, Service!Holds
    <2> QED BY <1>1, <1>3, <2>1, <2>3, ReturnSucceeds
  <1> QED BY <1>2, <1>3 DEF FinishCleanup

LEMMA CancelRefines ==
  ASSUME TypeOK, LockHeld, RefInv, NEW w \in Writers, CancelCall(w)
  PROVE  Service!Fail(w)
  <1>1. pc[w] # "idle" /\ UNCHANGED <<table, pend>>
    BY DEF CancelCall, routerVars
  <1>2. CASE pc[w] = "queued"
    <2>1. /\ pc' = [pc EXCEPT ![w] = "idle"]
          /\ req' = [req EXCEPT ![w] = NoRequest]
          /\ outcome' = [outcome EXCEPT ![w] = "failed"]
      BY <1>2 DEF CancelCall, Goto
    <2>2. Awaiting' = Awaiting
      BY <1>2, <2>1 DEF Awaiting, TypeOK, Tasks
    <2>3. Straggler' = Straggler /\ req[w] # NoRequest
      BY <1>1, <2>2 DEF Straggler, TypeOK
    <2> QED BY <1>1, <2>1, <2>3 DEF Service!Fail
  <1>3. CASE pc[w] # "queued"
    BY <1>1, <1>3, ReturnFails DEF CancelCall
  <1> QED BY <1>2, <1>3

LEMMA WriterRefines ==
  ASSUME Faults = {}, TypeOK, LockHeld, RefInv, NEW w \in Writers,
         Call(w) \/ StartWrite(w) \/ Work(w) \/ Raise(w) \/ CancelCall(w)
  PROVE  [Service!Next]_(Service!vars)
  <1>1. CASE StartWrite(w) \/ WriteAnswered(w) \/ ReadBackAnswered(w)
    <2>1. UNCHANGED <<table, pend, req, outcome>>
      BY <1>1 DEF StartWrite, WriteAnswered, ReadBackAnswered, routerVars, callVars
    <2>2. \/ pc[w] = "queued" /\ pc' = [pc EXCEPT ![w] = "snapshot"]
          \/ pc[w] = "written" /\ pc' = [pc EXCEPT ![w] = "confirm"]
          \/ pc[w] = "confirm" /\ pc' = [pc EXCEPT ![w] = "reply"]
      BY <1>1 DEF StartWrite, WriteAnswered, ReadBackAnswered, ForcedRead, Acquire,
                  Goto
    <2>3. Awaiting' = Awaiting
      BY <2>2 DEF Awaiting, TypeOK, Tasks
    <2> QED BY <2>1, <2>3, Unseen
  <1>2. CASE ConfirmFails(w)
    <2>1. /\ pc[w] \in {"confirm", "reply"} /\ NextAttempt(w)
          /\ UNCHANGED <<table, pend>>
      BY <1>2 DEF ConfirmFails, ForcedRead, routerVars
    <2> QED BY <2>1, NextAttemptFails DEF Service!Next
  <1>3. CASE Raise(w)
    <2>1. /\ pc[w] \notin {"idle", "queued"} /\ Return(w, "failed")
          /\ UNCHANGED <<table, pend>>
      BY <1>3 DEF Raise, routerVars
    <2> QED BY <2>1, ReturnFails DEF Service!Next
  <1> QED BY <1>1, <1>2, <1>3, CallRefines, SnapshotRefines, WriteRefines,
             ConfirmRefines, FinishRefines, CancelRefines
          DEF Work, Service!Next

\* The write of a writer that still awaits it takes effect as that writer's,
\* and one that changes nothing, or has no writer any more, as a straggler.
LEMMA SettleRefines ==
  ASSUME TypeOK, LockHeld, RefInv, RouterSettles
  PROVE  [Service!Next]_(Service!vars)
  <1>1. /\ pend # NoWrite /\ pend' = NoWrite /\ table' = pend.tbl
        /\ UNCHANGED <<pc, req, outcome>>
    BY DEF RouterSettles, SetTable, callVars
  <1>2. table' = Service!Updated(table, pend.req)
    BY <1>1, SameUpdate DEF RefInv, WriteCurrent
  <1>3. Straggler' = NoRequest
    BY <1>1 DEF Straggler
  <1>4. CASE Awaiting # {}
    <2>1. PICK w \in Awaiting : TRUE
      BY <1>4
    <2>2. w \in Writers /\ pend.req = req[w] /\ req[w] # NoRequest
      BY <1>1, <2>1 DEF RefInv, WriteCurrent, Awaiting, TypeOK
    <2>3. Straggler = NoRequest
      BY <1>4, NoStraggler
    <2>4. Service!TakeEffect(w)
      BY <1>1, <1>2, <1>3, <2>2, <2>3 DEF Service!TakeEffect
    <2> QED BY <2>2, <2>4 DEF Service!Next
  <1>5. CASE Awaiting = {} /\ pend.tbl # table
    <2>1. Straggler = pend.req /\ pend.req # NoRequest
      BY <1>1, <1>5, RouterAssumption DEF Straggler, TypeOK, PendingWrite
    <2> QED BY <1>1, <1>2, <1>3, <2>1 DEF Service!LateEffect, Service!Next
  <1>6. CASE pend.tbl = table
    BY <1>1, <1>3, <1>6, NoStraggler DEF Service!vars
  <1> QED BY <1>4, <1>5, <1>6

\* Without faults, the writer is the atomic service: every behaviour of the
\* lock, the snapshot, the write and its read-backs is one of RuleService.
THEOREM Implements ==
  ASSUME Faults = {}
  PROVE  Spec => ImplementsService
  <1>1. Init => Service!Init
    BY DEF Init, Service!Init, Straggler
  <1>2. TypeOK /\ LockHeld /\ RefInv /\ [Next]_vars
        => [Service!Next]_(Service!vars)
    <2> SUFFICES ASSUME TypeOK, LockHeld, RefInv, [Next]_vars
                 PROVE  [Service!Next]_(Service!vars)
      OBVIOUS
    <2>1. ASSUME NEW p \in Pollers,
                 StartPoll(p) \/ StartRead(p) \/ Poll(p) \/ PollFails(p)
          PROVE  UNCHANGED Service!vars
      <3>1. UNCHANGED <<table, pend, req, outcome>>
        BY <2>1, PollerIdle
      <3>2. PICK s : pc' = [pc EXCEPT ![p] = s]
        BY <2>1, PollerIdle
      <3>3. Awaiting' = Awaiting
        BY <3>2, TaskAssumption DEF Awaiting, TypeOK, Tasks
      <3> QED BY <3>1, <3>3, Unseen
    <2>2. CASE UNCHANGED vars
      BY <2>2, Unseen DEF vars, routerVars, callVars, Awaiting
    <2>3. ~ \E m \in Macs : WebEdit(m)
      BY DEF WebEdit
    <2> QED BY <2>1, <2>2, <2>3, WriterRefines, SettleRefines DEF Next
  <1> QED BY <1>1, <1>2, TypeCorrect, MutualExclusion, RefinementInvariant, PTL
          DEF Spec, ImplementsService, Service!Spec
=============================================================================
