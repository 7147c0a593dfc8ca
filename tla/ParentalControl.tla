--------------------------- MODULE ParentalControl ---------------------------
(***************************************************************************)
(* The parental-control (internet access) rules of one router: the writer  *)
(* ARDevice.async_set_internet_access with bridge.async_pc_rule, the poll  *)
(* ARDevice.update_pc_rules, the asyncio.Lock between them, and the router *)
(* they talk to over HTTP.                                                 *)
(*                                                                         *)
(* Each await of the code is a stage of the task's program counter, so     *)
(* other tasks, the router and its own web UI interleave exactly there.    *)
(* A sleep adds no stage: it is time passing before the next action.       *)
(***************************************************************************)
EXTENDS RuleTables, Sequences, SequencesExt

CONSTANTS
  Writers,          \* tasks that call async_set_internet_access
  Pollers,          \* tasks that run the periodic update_pc_rules
  NoTask,           \* the lock is free
  Requests,         \* the requests that callers make
  NoRequest,        \* the task is in no call
  NoTable,          \* no table has been read
  NoWrite,          \* the router has applied every write it accepted
  InitTables,       \* the router's tables when the integration starts
  WebRules,         \* the rules that the router's own web UI sets
  ConfirmAttempts,  \* PC_RULE_CONFIRM_ATTEMPTS
  Faults            \* what the environment may do, see below

Tasks == Writers \cup Pollers

\* "web":  somebody edits the table in the router's web UI at any time.
\* "late": the router may apply a write it accepted after the lock's next
\*         holder has read its snapshot.
\* "drop": the router may lose rows of a table it accepted.
AllFaults == {"web", "late", "drop"}

ASSUME TaskAssumption ==
  /\ Writers \cap Pollers = {}
  /\ NoTask \notin Tasks

ASSUME RouterAssumption ==
  /\ Requests \subseteq Request
  /\ NoRequest \notin Requests
  /\ NoTable \notin Table
  /\ NoWrite \notin [tbl : Table, req : Requests]
  /\ InitTables \subseteq Table
  /\ WebRules \subseteq Rule
  /\ ConfirmAttempts \in Nat \ {0}
  /\ Faults \subseteq AllFaults

VARIABLES
  table,     \* the rule table that the router answers reads with
  pend,      \* the accepted write that the router has yet to apply
  cache,     \* the library's last answer: an unforced read may return it
  pcRules,   \* ARDevice._pc_rules
  holder,    \* the task that holds ARDevice._pc_rule_lock
  queue,     \* the tasks that wait for it, first come first served
  pc,        \* the await at which each task is suspended
  req,       \* each writer's request
  expected,  \* each writer's expected_rules
  attempt,   \* each writer's count of unsuccessful confirmation attempts
  answer,    \* the table on its way to each task that reads
  outcome,   \* how each writer's last call ended
  settled    \* history: what a call has confirmed of each device, "gone" or
             \* the type of its rule, "open" once the router shows another

routerVars == <<table, pend, settled>>
lockVars   == <<holder, queue>>
callVars   == <<req, expected, attempt, outcome>>
vars == <<routerVars, cache, pcRules, lockVars, pc, callVars, answer>>

PendingWrite == [tbl : Table, req : Requests]
WriterStages == {"idle", "queued", "snapshot", "write", "written", "confirm",
                 "reply", "cleanup"}
PollerStages == {"idle", "queued", "read", "reply"}

\* What a row shows of a device.
Sights == RuleTypes \cup {"gone"}
Sight(row) == IF row = NoRule THEN "gone" ELSE row.type

\* Every variable has its type, and a task has the locals of its stage.
TypeOK ==
  /\ table \in Table
  /\ pend \in PendingWrite \cup {NoWrite}
  /\ cache \in Table \cup {NoTable}
  /\ pcRules \in Table
  /\ holder \in Tasks \cup {NoTask}
  /\ queue \in Seq(Tasks)
  /\ pc \in [Tasks -> WriterStages \cup PollerStages]
  /\ req \in [Writers -> Requests \cup {NoRequest}]
  /\ expected \in [Writers -> Table \cup {NoTable}]
  /\ attempt \in [Writers -> 0 .. ConfirmAttempts - 1]
  /\ answer \in [Tasks -> Table \cup {NoTable}]
  /\ outcome \in [Writers -> {"none", "ok", "failed"}]
  /\ settled \in [Macs -> Sights \cup {"open"}]
  /\ \A t \in Tasks : pc[t] = "reply" <=> answer[t] # NoTable
  /\ \A w \in Writers :
       /\ pc[w] \in WriterStages
       /\ pc[w] = "idle" <=> req[w] = NoRequest
       /\ pc[w] \in {"write", "written", "confirm", "reply", "cleanup"}
          <=> expected[w] # NoTable
  /\ \A p \in Pollers : pc[p] \in PollerStages

EmptyTable == [m \in Macs |-> NoRule]

Init ==
  /\ table \in InitTables
  /\ pend = NoWrite
  /\ cache = NoTable
  /\ pcRules = EmptyTable
  /\ holder = NoTask
  /\ queue = <<>>
  /\ pc = [t \in Tasks |-> "idle"]
  /\ req = [w \in Writers |-> NoRequest]
  /\ expected = [w \in Writers |-> NoTable]
  /\ attempt = [w \in Writers |-> 0]
  /\ answer = [t \in Tasks |-> NoTable]
  /\ outcome = [w \in Writers |-> "none"]
  /\ settled = [m \in Macs |-> "open"]

-----------------------------------------------------------------------------
(***************************************************************************)
(* The lock.  asyncio.Lock wakes its waiters in order of arrival.          *)
(***************************************************************************)
Goto(t, stage) == pc' = [pc EXCEPT ![t] = stage]

Enqueue(t) ==
  /\ pc[t] = "idle"
  /\ Goto(t, "queued")
  /\ queue' = Append(queue, t)
  /\ UNCHANGED holder

Acquire(t, stage) ==
  /\ pc[t] = "queued"
  /\ holder = NoTask
  /\ queue # <<>> /\ Head(queue) = t
  /\ holder' = t
  /\ queue' = Tail(queue)
  /\ Goto(t, stage)

\* A cancelled waiter leaves the queue.
LeaveQueue(t) ==
  \E i \in 1 .. Len(queue) : queue[i] = t /\ queue' = RemoveAt(queue, i)

\* Mutant of Release: a task that ends keeps the lock.
LeakLock(t) ==
  /\ UNCHANGED holder
  /\ Goto(t, "idle")

Release(t) ==
  /\ holder' = IF holder = t THEN NoTask ELSE holder
  /\ Goto(t, "idle")

-----------------------------------------------------------------------------
(***************************************************************************)
(* The writer.                                                             *)
(***************************************************************************)

\* The switch or the service calls async_set_internet_access.
Call(w) ==
  /\ Enqueue(w)
  /\ \E r \in Requests : req' = [req EXCEPT ![w] = r]
  /\ outcome' = [outcome EXCEPT ![w] = "none"]
  /\ UNCHANGED <<routerVars, cache, pcRules, expected, attempt, answer>>

\* Mutant of StartWrite: the writer does not wait for the lock.
WriteUnlocked(w) ==
  /\ pc[w] = "queued"
  /\ LeaveQueue(w)
  /\ Goto(w, "snapshot")
  /\ UNCHANGED <<holder, routerVars, cache, pcRules, callVars, answer>>

StartWrite(w) ==
  /\ Acquire(w, "snapshot")
  /\ UNCHANGED <<routerVars, cache, pcRules, callVars, answer>>

\* The call ends, with its result or an exception, and frees its locals.
Return(w, result) ==
  /\ Release(w)
  /\ UNCHANGED queue
  /\ req' = [req EXCEPT ![w] = NoRequest]
  /\ expected' = [expected EXCEPT ![w] = NoTable]
  /\ attempt' = [attempt EXCEPT ![w] = 0]
  /\ answer' = [answer EXCEPT ![w] = NoTable]
  /\ outcome' = [outcome EXCEPT ![w] = result]

\* Mutant of Snapshot: the read is not forced, so the cache may answer it.
CachedSnapshot(w) ==
  /\ pc[w] = "snapshot"
  /\ pend = NoWrite
  /\ \E tbl \in {table} \cup ({cache} \ {NoTable}) :
       expected' = [expected EXCEPT ![w] = Updated(tbl, req[w])]
  /\ Goto(w, "write")
  /\ UNCHANGED <<routerVars, cache, pcRules, lockVars, req, attempt, outcome,
                 answer>>

\* The forced read of the current table.  A write that would grow the table
\* past the limit is refused before anything is sent.
Snapshot(w) ==
  /\ pc[w] = "snapshot"
  /\ "late" \in Faults \/ pend = NoWrite
  /\ cache' = table
  /\ IF OverCapacity(table, req[w])
     THEN Return(w, "failed")
     ELSE /\ expected' = [expected EXCEPT ![w] = Updated(table, req[w])]
          /\ Goto(w, "write")
          /\ UNCHANGED <<lockVars, req, attempt, outcome, answer>>
  /\ UNCHANGED <<routerVars, pcRules>>

\* What the router makes of a table it accepts.
Applied(tbl) ==
  IF "drop" \in Faults
  THEN {[m \in Macs |-> IF m \in lost THEN NoRule ELSE tbl[m]] :
          lost \in SUBSET Rows(tbl)}
  ELSE {tbl}

\* The router accepts the table; it will show in reads once it is applied.
WriteAccepted(w) ==
  /\ pc[w] = "write"
  /\ \E tbl \in Applied(expected[w]) : pend' = [tbl |-> tbl, req |-> req[w]]
  /\ Goto(w, "written")
  /\ UNCHANGED <<table, settled, cache, pcRules, lockVars, callVars, answer>>

\* The router reports no success, or reports it and changes nothing: either
\* way the writer reads back whether the requested state holds.
WriteRefused(w) ==
  /\ pc[w] = "write"
  /\ Goto(w, "confirm")
  /\ UNCHANGED <<routerVars, cache, pcRules, lockVars, callVars, answer>>

WriteAnswered(w) ==
  /\ pc[w] = "written"
  /\ Goto(w, "confirm")
  /\ UNCHANGED <<routerVars, cache, pcRules, lockVars, callVars, answer>>

\* Mutant of ForcedRead: the read-back waits for the lock, like a poll.
ReadBackQueued(w) == pc[w] = "confirm" /\ holder = NoTask

\* The writer's own read-back is forced and takes no lock: it holds it.
ForcedRead(w) == pc[w] = "confirm"

\* The router answers with its table.  Before the answer arrives a write may
\* take effect, and the table may be edited.
ReadBackAnswered(w) ==
  /\ ForcedRead(w)
  /\ answer' = [answer EXCEPT ![w] = table]
  /\ cache' = table
  /\ Goto(w, "reply")
  /\ UNCHANGED <<routerVars, pcRules, lockVars, callVars>>

\* The writer reads again.
Again(w) ==
  /\ attempt' = [attempt EXCEPT ![w] = @ + 1]
  /\ answer' = [answer EXCEPT ![w] = NoTable]
  /\ Goto(w, "confirm")
  /\ UNCHANGED <<lockVars, req, expected, outcome>>

\* Mutant of NextAttempt: one attempt too many.
OneAttemptMore(w) ==
  IF attempt[w] < ConfirmAttempts THEN Again(w) ELSE Return(w, "failed")

\* A confirmation attempt that does not show the requested state.
NextAttempt(w) ==
  IF attempt[w] < ConfirmAttempts - 1 THEN Again(w) ELSE Return(w, "failed")

\* What a call that succeeds promises of a device: what it asked for, or the
\* rule that it was to leave alone.
Promised(w, m) ==
  IF m \notin req[w].macs THEN Sight(expected[w][m])
  ELSE IF req[w].state = "remove" THEN "gone" ELSE RuleType(req[w].state)

\* The history of a confirmation.  It says nothing of a device that has a new
\* row in the router since the answer was given, or that had none before and
\* was not asked about.
Confirmed(w) ==
  [m \in Macs |->
     IF table[m] = answer[w][m] /\ m \in req[w].macs \cup Rows(expected[w])
     THEN Promised(w, m) ELSE settled[m]]

\* The answer is kept as the known rules, matching or not.  Comparing it may
\* raise, on a row whose address is malformed.
Confirm(w) ==
  /\ pc[w] = "reply"
  /\ pcRules' = answer[w]
  /\ \/ /\ ~Matches(answer[w], req[w], expected[w])
        /\ NextAttempt(w)
        /\ UNCHANGED settled
     \/ /\ Matches(answer[w], req[w], expected[w])
        /\ req[w].state # "remove"
        /\ settled' = Confirmed(w)
        /\ Return(w, "ok")
     \/ /\ Matches(answer[w], req[w], expected[w])
        /\ req[w].state = "remove"
        /\ settled' = Confirmed(w)
        /\ answer' = [answer EXCEPT ![w] = NoTable]
        /\ Goto(w, "cleanup")
        /\ UNCHANGED <<lockVars, callVars>>
     \/ Return(w, "failed") /\ UNCHANGED settled
  /\ UNCHANGED <<table, pend, cache>>

\* The forced read fails or brings no readable table: update_pc_rules keeps
\* the known rules and reports that nothing was updated.
ConfirmFails(w) ==
  /\ ForcedRead(w) \/ pc[w] = "reply"
  /\ NextAttempt(w)
  /\ UNCHANGED <<routerVars, cache, pcRules>>

\* The switches of the removed rules are gone, or removing one failed.
FinishCleanup(w) ==
  /\ pc[w] = "cleanup"
  /\ \E result \in {"ok", "failed"} : Return(w, result)
  /\ UNCHANGED <<routerVars, cache, pcRules>>

\* The library raises: an unreadable table, a lost request or answer.
Raise(w) ==
  /\ pc[w] \in {"snapshot", "write", "written", "confirm"}
  /\ Return(w, "failed")
  /\ UNCHANGED <<routerVars, cache, pcRules>>

\* The caller's task is cancelled at any await.
CancelCall(w) ==
  /\ pc[w] # "idle"
  /\ IF pc[w] = "queued"
     THEN /\ LeaveQueue(w)
          /\ Goto(w, "idle")
          /\ req' = [req EXCEPT ![w] = NoRequest]
          /\ outcome' = [outcome EXCEPT ![w] = "failed"]
          /\ UNCHANGED <<holder, expected, attempt, answer>>
     ELSE Return(w, "failed")
  /\ UNCHANGED <<routerVars, cache, pcRules>>

-----------------------------------------------------------------------------
(***************************************************************************)
(* The poll: read under the lock, then store without another await.        *)
(***************************************************************************)
\* Mutant of StartPoll: the poll takes no lock.
PollUnlocked(p) ==
  /\ pc[p] = "idle"
  /\ Goto(p, "read")
  /\ UNCHANGED <<routerVars, cache, pcRules, lockVars, callVars, answer>>

StartPoll(p) ==
  /\ Enqueue(p)
  /\ UNCHANGED <<routerVars, cache, pcRules, callVars, answer>>

StartRead(p) ==
  /\ Acquire(p, "read")
  /\ UNCHANGED <<routerVars, cache, pcRules, callVars, answer>>

\* An unforced read is answered by the router or from the library's cache.
PollAnswered(p) ==
  /\ pc[p] = "read"
  /\ \E tbl \in {table} \cup ({cache} \ {NoTable}) :
       /\ answer' = [answer EXCEPT ![p] = tbl]
       /\ cache' = tbl
  /\ Goto(p, "reply")
  /\ UNCHANGED <<routerVars, pcRules, lockVars, callVars>>

PollDelivered(p) ==
  /\ pc[p] = "reply"
  /\ pcRules' = answer[p]
  /\ answer' = [answer EXCEPT ![p] = NoTable]
  /\ Release(p)
  /\ UNCHANGED <<routerVars, cache, queue, callVars>>

\* The read fails, is unreadable, or the polling task is cancelled.
PollFails(p) ==
  /\ pc[p] # "idle"
  /\ IF pc[p] = "queued"
     THEN /\ LeaveQueue(p)
          /\ Goto(p, "idle")
          /\ UNCHANGED holder
     ELSE /\ Release(p)
          /\ UNCHANGED queue
  /\ answer' = [answer EXCEPT ![p] = NoTable]
  /\ UNCHANGED <<routerVars, cache, pcRules, callVars>>

-----------------------------------------------------------------------------
(***************************************************************************)
(* The router.                                                             *)
(***************************************************************************)
SetTable(tbl) ==
  /\ table' = tbl
  /\ settled' = [m \in Macs |-> IF settled[m] = Sight(tbl[m])
                               THEN settled[m] ELSE "open"]

\* An accepted write replaces the whole table.
RouterSettles ==
  /\ pend # NoWrite
  /\ SetTable(pend.tbl)
  /\ pend' = NoWrite
  /\ UNCHANGED <<cache, pcRules, lockVars, pc, callVars, answer>>

\* Somebody sets or deletes a rule in the router's web UI.
WebEdit(m) ==
  /\ "web" \in Faults
  /\ \E rule \in WebRules \cup {NoRule} :
       SetTable([table EXCEPT ![m] = rule])
  /\ UNCHANGED <<pend, cache, pcRules, lockVars, pc, callVars, answer>>

-----------------------------------------------------------------------------
\* The steps that a writer, or a poller, takes of its own accord.
Work(w) ==
  \/ Snapshot(w)
  \/ WriteAccepted(w)
  \/ WriteRefused(w)
  \/ WriteAnswered(w)
  \/ ReadBackAnswered(w)
  \/ Confirm(w)
  \/ ConfirmFails(w)
  \/ FinishCleanup(w)

Poll(p) ==
  \/ PollAnswered(p)
  \/ PollDelivered(p)

Next ==
  \/ \E w \in Writers :
       Call(w) \/ StartWrite(w) \/ Work(w) \/ Raise(w) \/ CancelCall(w)
  \/ \E p \in Pollers :
       StartPoll(p) \/ StartRead(p) \/ Poll(p) \/ PollFails(p)
  \/ RouterSettles
  \/ \E m \in Macs : WebEdit(m)

Spec == Init /\ [][Next]_vars

\* The event loop runs whatever is ready, the library bounds every request by
\* a timeout, and the router applies what it accepted.  Nobody has to call, to
\* poll, to fail or to be cancelled.
Fairness ==
  /\ \A w \in Writers : WF_vars(StartWrite(w)) /\ WF_vars(Work(w))
  /\ \A p \in Pollers : WF_vars(StartRead(p)) /\ WF_vars(Poll(p))
  /\ WF_vars(RouterSettles)

FairSpec == Spec /\ Fairness

-----------------------------------------------------------------------------
(***************************************************************************)
(* Safety.                                                                 *)
(***************************************************************************)

\* A task that is between two awaits of its critical section holds the lock,
\* and no other task is in one: the lock is held through snapshot, write,
\* every confirmation attempt and the removal of switches, and is not leaked
\* by an exception or a cancellation at any of those awaits.
LockHeld ==
  \A t \in Tasks : pc[t] \notin {"idle", "queued"} <=> holder = t

\* While the writer removes the switches of a rule, the integration knows no
\* such rule: no poll that was under way has put it back.
RemovalHolds ==
  \A w \in Writers :
    pc[w] = "cleanup" => Rows(pcRules) \cap req[w].macs = {}

\* A rule whose removal was confirmed stays unknown to the integration until
\* the router has one again: no answer that a poll obtained before the write,
\* fresh or from the library's cache, lands after the confirmation.
NoResurrection == \A m \in Macs : settled[m] = "gone" => pcRules[m] = NoRule

\* From the end of a call that reports success, the integration knows every
\* rule that the call promised, the ones it set and the ones it left alone,
\* with its type, until the router itself shows another: also when the router
\* drops rows, refuses writes or applies them late, when the table is edited
\* while an answer is on its way, and when a poll read before the write.
ConfirmedKept ==
  \A m \in Macs :
    settled[m] \in RuleTypes => Sight(pcRules[m]) = settled[m]

\* Nor does the router's table, or any other on its way to the known rules,
\* the library's cache or an answer yet to be stored, show otherwise.
Agrees(tbl) ==
  \A m \in Macs : settled[m] # "open" => Sight(tbl[m]) = settled[m]

NothingStale ==
  /\ Agrees(table)
  /\ cache # NoTable => Agrees(cache)
  /\ \A t \in Tasks : answer[t] # NoTable => Agrees(answer[t])

\* When a write takes effect, every row it was not asked about is as it was in
\* the router at that moment, and a row that it changes keeps its schedule and
\* any name that the request does not replace.
WriteTouchesOnlyTargets ==
  [][pend # NoWrite /\ pend' = NoWrite =>
       \A m \in Macs :
         IF m \notin pend.req.macs
         THEN table'[m] = table[m]
         ELSE table[m] # NoRule /\ table'[m] # NoRule =>
                /\ table'[m].timemap = table[m].timemap
                /\ table'[m].name \in {table[m].name, pend.req.name[m]}
    ]_vars

\* No write takes the router's table past the advertised limit, whatever other
\* writers did since the caller looked: growth is judged on the table that is
\* about to be sent, against the snapshot it is made from.
GrowthWithinLimit ==
  [][/\ pend # NoWrite /\ pend' = NoWrite
     /\ Cardinality(Rows(table')) > Cardinality(Rows(table))
     => Cardinality(Rows(table')) <= MaxRules]_vars

(***************************************************************************)
(* Liveness.                                                               *)
(***************************************************************************)

\* Every call of the writer ends, whatever other calls and polls queue for the
\* lock, and so does every poll: no task waits for a lock it holds, and none is
\* overtaken for ever.
EveryTaskReturns == \A t \in Tasks : pc[t] = "queued" ~> pc[t] = "idle"
=============================================================================
