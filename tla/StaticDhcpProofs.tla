-------------------------- MODULE StaticDhcpProofs --------------------------
(***************************************************************************)
(* Machine-checked proofs about StaticDhcp, for every set of devices,       *)
(* addresses, callers and operations.                                       *)
(***************************************************************************)
EXTENDS StaticDhcp, TLAPS

\* The operation of a task that is in one.
LEMMA OpKinds ==
  ASSUME TypeOK, NEW c \in Callers, op[c] # NoOp
  PROVE  /\ op[c] \in Ops /\ op[c] \in Op
         /\ op[c].kind \in {"set", "reserve", "remove", "refresh"}
         /\ op[c].kind # "refresh" => op[c].mac \in Macs
         /\ op[c].kind \in {"set", "reserve"} => op[c].lease \in Lease
  <1>1. op[c] \in Op
    BY LeaseAssumption DEF TypeOK
  <1> QED BY <1>1 DEF TypeOK, Op

LEMMA PutType ==
  ASSUME NEW l \in Leases, NEW o,
         o.kind # "remove" => o.lease \in Lease
  PROVE  Put(l, o) \in Leases
  BY DEF Put, Leases

-----------------------------------------------------------------------------
(***************************************************************************)
(* Type correctness.                                                       *)
(***************************************************************************)

LEMMA ReturnType ==
  ASSUME TypeOK, NEW c \in Callers, NEW result \in {"ok", "failed"},
         Return(c, result),
         leases' \in Leases, pend' \in Leases \cup {NoLeases},
         cached' \in Leases, unsure' \in BOOLEAN
  PROVE  TypeOK'
  <1>1. /\ pc' = [pc EXCEPT ![c] = "idle"] /\ op' = [op EXCEPT ![c] = NoOp]
        /\ answer' = [answer EXCEPT ![c] = NoLeases]
        /\ outcome' = [outcome EXCEPT ![c] = result]
        /\ holder' \in Callers \cup {NoCaller}
    BY DEF Return, Goto, TypeOK
  <1> QED BY <1>1 DEF TypeOK, Stages, Reading

\* A list that is stored is one that was answered.
LEMMA StoreType ==
  ASSUME TypeOK, NEW c \in Callers, answer[c] # NoLeases, Store(answer[c])
  PROVE  cached' \in Leases /\ unsure' \in BOOLEAN
  BY DEF TypeOK, Store

LEMMA WriteTypes ==
  ASSUME TypeOK, NEW c \in Callers, pc[c] = "write", Sent(c)
  PROVE  leases' \in Leases /\ pend' \in Leases \cup {NoLeases}
  <1>1. op[c] # NoOp /\ op[c].kind \in {"set", "reserve", "remove"}
    BY DEF TypeOK
  <1>2. op[c].kind # "remove" => op[c].lease \in Lease
    BY <1>1, OpKinds
  <1>3. Put(leases, op[c]) \in Leases
    BY <1>2, PutType DEF TypeOK
  <1> QED BY <1>3 DEF TypeOK, Sent

LEMMA StepType ==
  ASSUME TypeOK, NEW c \in Callers,
         \/ Call(c) \/ Start(c) \/ Work(c)
         \/ WriteLost(c) \/ ReadFails(c) \/ CancelWait(c)
  PROVE  TypeOK'
  <1>0. /\ leases \in Leases /\ pend \in Leases \cup {NoLeases}
        /\ cached \in Leases /\ unsure \in BOOLEAN
        /\ op[c] # NoOp <=> pc[c] # "idle"
    BY DEF TypeOK
  <1>1. CASE Call(c)
    <2>1. PICK o \in Ops : op' = [op EXCEPT ![c] = o]
      BY <1>1 DEF Call
    <2>2. /\ pc[c] = "idle" /\ pc' = [pc EXCEPT ![c] = "queued"]
          /\ outcome' = [outcome EXCEPT ![c] = "none"] /\ o # NoOp
          /\ UNCHANGED <<leases, pend, cached, holder, answer, unsure>>
      BY <1>1, LeaseAssumption DEF Call, Goto
    <2> QED BY <2>1, <2>2 DEF TypeOK, Stages, Reading
  <1>2. CASE Start(c)
    <2>1. /\ pc[c] = "queued" /\ pc' = [pc EXCEPT ![c] = FirstStage(op[c])]
          /\ holder' = c
          /\ UNCHANGED <<leases, pend, cached, op, answer, outcome, unsure>>
      BY <1>2 DEF Start, Goto, callVars
    <2>2. /\ FirstStage(op[c]) \in Stages \ {"idle", "queued"}
          /\ FirstStage(op[c]) = "check" => op[c].kind \in {"set", "reserve"}
          /\ FirstStage(op[c]) \in {"write", "verify"} => op[c].kind = "remove"
          /\ FirstStage(op[c]) = "fetch" => op[c].kind = "refresh"
      BY <1>0, <2>1, OpKinds DEF FirstStage, Stages
    <2>3. answer[c] = NoLeases
      BY <2>1 DEF TypeOK, Reading
    <2> QED BY <2>1, <2>2, <2>3 DEF TypeOK
  <1>3. CASE Answered(c)
    <2>1. /\ pc[c] \in Reading /\ answer' = [answer EXCEPT ![c] = leases]
          /\ UNCHANGED <<leases, pend, cached, holder, pc, op, outcome, unsure>>
      BY <1>3 DEF Answered
    <2> QED BY <1>0, <2>1 DEF TypeOK
  <1>4. CASE Check(c)
    <2>1. UNCHANGED <<leases, pend>> /\ answer[c] # NoLeases /\ pc[c] = "check"
      BY <1>4 DEF Check
    <2>2. CASE Return(c, "failed") /\ UNCHANGED <<cached, unsure>>
      BY <1>0, <2>1, <2>2, ReturnType
    <2>3. CASE Return(c, "ok") /\ Store(answer[c])
      BY <1>0, <2>1, <2>3, ReturnType, StoreType
    <2>4. CASE /\ pc' = [pc EXCEPT ![c] = "write"]
               /\ answer' = [answer EXCEPT ![c] = NoLeases]
               /\ UNCHANGED <<cached, unsure, holder, op, outcome>>
      BY <2>1, <2>4 DEF TypeOK, Stages
    <2> QED BY <1>4, <2>2, <2>3, <2>4 DEF Check, Goto
  <1>5. CASE Write(c)
    <2>1. leases' \in Leases /\ pend' \in Leases \cup {NoLeases}
      BY <1>5, WriteTypes DEF Write
    <2>2. /\ pc[c] = "write" /\ pc' = [pc EXCEPT ![c] = "verify"]
          /\ UNCHANGED <<cached, holder, op, answer, outcome, unsure>>
      BY <1>5 DEF Write, Goto, callVars
    <2> QED BY <2>1, <2>2 DEF TypeOK, Stages, Reading
  <1>6. CASE Verify(c) \/ Fetch(c)
    <2>1. /\ UNCHANGED <<leases, pend>> /\ answer[c] # NoLeases /\ Store(answer[c])
          /\ \E result \in {"ok", "failed"} : Return(c, result)
      BY <1>6 DEF Verify, Fetch
    <2> QED BY <1>0, <2>1, ReturnType, StoreType
  <1>7. CASE WriteLost(c)
    <2>1. /\ leases' \in Leases /\ pend' \in Leases \cup {NoLeases}
          /\ UNCHANGED cached /\ unsure' = TRUE
      BY <1>7, WriteTypes DEF WriteLost
    <2> QED BY <1>0, <1>7, <2>1, ReturnType DEF WriteLost
  <1>8. CASE ReadFails(c)
    <2>1. UNCHANGED <<leases, pend, cached>> /\ unsure' \in BOOLEAN
      BY <1>8 DEF ReadFails
    <2> QED BY <1>0, <1>8, <2>1, ReturnType DEF ReadFails
  <1>9. CASE CancelWait(c)
    BY <1>0, <1>9, ReturnType DEF CancelWait
  <1> QED BY <1>1, <1>2, <1>3, <1>4, <1>5, <1>6, <1>7, <1>8, <1>9 DEF Work

\* Every variable has its type, and every operation is at a stage of its own.
THEOREM TypeCorrect == Spec => []TypeOK
  <1>1. Init => TypeOK
    BY LeaseAssumption DEF Init, TypeOK, Leases, Stages
  <1>2. TypeOK /\ [Next]_vars => TypeOK'
    <2> SUFFICES ASSUME TypeOK, [Next]_vars PROVE TypeOK'
      OBVIOUS
    <2>1. ASSUME NEW m \in Macs, WebEdit(m) PROVE TypeOK'
      <3>1. /\ leases' \in Leases
            /\ UNCHANGED <<pend, cached, holder, pc, op, answer, outcome, unsure>>
        BY <2>1, LeaseAssumption DEF WebEdit, TypeOK, Leases, callVars
      <3> QED BY <3>1 DEF TypeOK
    <2>2. CASE TakesEffect
      <3>1. /\ leases' \in Leases /\ pend' = NoLeases /\ unsure' = TRUE
            /\ UNCHANGED <<cached, holder, pc, op, answer, outcome>>
        BY <2>2 DEF TakesEffect, TypeOK, callVars
      <3> QED BY <3>1 DEF TypeOK
    <2>3. CASE UNCHANGED vars
      BY <2>3 DEF TypeOK, vars, callVars
    <2> QED BY <2>1, <2>2, <2>3, StepType DEF Next
  <1> QED BY <1>1, <1>2, PTL DEF Spec

-----------------------------------------------------------------------------
(***************************************************************************)
(* The inductive invariant.                                                *)
(***************************************************************************)

\* A task is past the lock exactly when it holds it.
Locked == \A c \in Callers : pc[c] \notin {"idle", "queued"} <=> holder = c

\* No answer has been overtaken by a write.
AnswersCurrent == \A c \in Callers : answer[c] # NoLeases => answer[c] = leases

\* What was checked is still so when it is written.
Checked ==
  \A c \in Callers :
    pc[c] = "write" /\ op[c].kind # "remove" =>
      ~Conflict(leases, op[c]) /\ ~WouldMove(leases, op[c])

\* The cached leases are old only between a write and its verification.
Shown == ~unsure /\ (\A c \in Callers : pc[c] # "verify") => cached = leases

\* No write is under way that has ended for its caller.
NothingLate == pend = NoLeases

SafeInv ==
  Locked /\ AnswersCurrent /\ Checked /\ Shown /\ UniqueAddresses /\ NothingLate

LEMMA InitSafe == Init => SafeInv
  BY LeaseAssumption
  DEF Init, SafeInv, Locked, AnswersCurrent, Checked, Shown, UniqueAddresses, NothingLate

\* A task past the lock is alone there, and only it awaits an answer.
LEMMA Alone ==
  ASSUME TypeOK, Locked, NEW c \in Callers, pc[c] \notin {"idle", "queued"}
  PROVE  \A d \in Callers \ {c} :
           pc[d] \in {"idle", "queued"} /\ answer[d] = NoLeases
  <1>1. \A d \in Callers \ {c} : pc[d] \in {"idle", "queued"}
    BY DEF Locked
  <1> QED BY <1>1 DEF TypeOK, Reading

\* A row whose address nobody else has keeps addresses unique.
LEMMA PutUnique ==
  ASSUME NEW l \in Leases, Unique(l), NEW o \in Op, o.kind # "refresh",
         o.kind # "remove" => ~Conflict(l, o)
  PROVE  Unique(Put(l, o))
  <1>1. o.mac \in Macs
    BY DEF Op
  <1>2. CASE o.kind = "remove"
    BY <1>1, <1>2 DEF Unique, Put, Leases
  <1>3. CASE o.kind # "remove"
    <2>1. \A m \in Macs \ {o.mac} : l[m] # NoLease => l[m].ip # o.lease.ip
      BY <1>3 DEF Conflict
    <2> QED BY <1>1, <1>3, <2>1 DEF Unique, Put, Leases
  <1> QED BY <1>2, <1>3

\* The end of an operation leaves the lock free, or as it is if the task did
\* not hold it, and no answer on its way.
LEMMA ReturnMoves ==
  ASSUME TypeOK, Locked, NEW c \in Callers, NEW result, Return(c, result)
  PROVE  /\ Locked'
         /\ pc'[c] = "idle" /\ answer'[c] = NoLeases
         /\ \A d \in Callers \ {c} :
              pc'[d] = pc[d] /\ op'[d] = op[d] /\ answer'[d] = answer[d]
  <1>1. /\ pc' = [pc EXCEPT ![c] = "idle"] /\ op' = [op EXCEPT ![c] = NoOp]
        /\ answer' = [answer EXCEPT ![c] = NoLeases]
        /\ holder' = IF holder = c THEN NoCaller ELSE holder
    BY DEF Return, Goto
  <1>2. /\ pc'[c] = "idle" /\ answer'[c] = NoLeases
        /\ \A d \in Callers \ {c} :
             pc'[d] = pc[d] /\ op'[d] = op[d] /\ answer'[d] = answer[d]
    BY <1>1 DEF TypeOK
  <1>3. Locked'
    BY <1>1, <1>2, LeaseAssumption DEF Locked
  <1> QED BY <1>2, <1>3

\* An operation past the lock ends.  What it leaves has to be unique, and shown
\* if it claims to be.
LEMMA ReturnSafe ==
  ASSUME TypeOK, SafeInv, NEW c \in Callers, pc[c] \notin {"idle", "queued"},
         NEW result, Return(c, result),
         Unique(leases'), UNCHANGED pend, ~unsure' => cached' = leases'
  PROVE  SafeInv'
  <1>1. \A d \in Callers : pc'[d] \in {"idle", "queued"} /\ answer'[d] = NoLeases
    BY ReturnMoves, Alone DEF SafeInv
  <1>2. Locked'
    BY ReturnMoves DEF SafeInv
  <1> QED BY <1>1, <1>2
          DEF SafeInv, AnswersCurrent, Checked, Shown, UniqueAddresses, Unique, NothingLate

\* A task moves along, and the lists stay.
LEMMA MoveSafe ==
  ASSUME TypeOK, SafeInv, NEW c \in Callers, Locked',
         UNCHANGED <<leases, pend, cached, unsure>>,
         answer'[c] \in {NoLeases, leases},
         pc[c] # "verify", pc'[c] # "verify",
         pc'[c] = "write" /\ op'[c].kind # "remove" =>
           ~Conflict(leases, op'[c]) /\ ~WouldMove(leases, op'[c]),
         \A d \in Callers \ {c} :
           pc'[d] = pc[d] /\ op'[d] = op[d] /\ answer'[d] = answer[d]
  PROVE  SafeInv'
  <1>1. AnswersCurrent'
    BY DEF SafeInv, AnswersCurrent
  <1>2. Checked'
    BY DEF SafeInv, Checked, Conflict, WouldMove
  <1>3. Shown'
    BY DEF SafeInv, Shown
  <1> QED BY <1>1, <1>2, <1>3 DEF SafeInv, UniqueAddresses, Unique, NothingLate

\* A write changes the list of a task that is alone.
LEMMA WriteUnique ==
  ASSUME Faults = {}, TypeOK, SafeInv, NEW c \in Callers, pc[c] = "write", Sent(c)
  PROVE  leases' \in {leases, Put(leases, op[c])} /\ Unique(leases') /\ UNCHANGED pend
  <1>1. /\ op[c] \in Op /\ op[c].kind \in {"set", "reserve", "remove"}
        /\ leases \in Leases
    <2>1. op[c] # NoOp /\ op[c].kind \in {"set", "reserve", "remove"}
      BY DEF TypeOK
    <2> QED BY <2>1, OpKinds DEF TypeOK
  <1>2. op[c].kind # "remove" => ~Conflict(leases, op[c])
    BY DEF SafeInv, Checked
  <1>3. Unique(leases)
    BY DEF SafeInv, UniqueAddresses
  <1>4. leases' \in {leases, Put(leases, op[c])} /\ UNCHANGED pend
    BY DEF Sent
  <1> QED BY <1>1, <1>2, <1>3, <1>4, PutUnique

LEMMA StepSafe ==
  ASSUME Faults = {}, TypeOK, SafeInv, NEW c \in Callers,
         \/ Call(c) \/ Start(c) \/ Work(c)
         \/ WriteLost(c) \/ ReadFails(c) \/ CancelWait(c)
  PROVE  SafeInv'
  <1>0. Locked /\ Unique(leases)
    BY DEF SafeInv, UniqueAddresses
  <1>1. CASE Call(c)
    <2>1. PICK o \in Ops : op' = [op EXCEPT ![c] = o]
      BY <1>1 DEF Call
    <2>2. /\ pc[c] = "idle" /\ pc' = [pc EXCEPT ![c] = "queued"]
          /\ UNCHANGED <<leases, pend, cached, holder, answer, unsure>>
      BY <1>1 DEF Call, Goto
    <2>3. /\ pc'[c] = "queued" /\ answer'[c] = NoLeases
          /\ \A d \in Callers \ {c} :
               pc'[d] = pc[d] /\ op'[d] = op[d] /\ answer'[d] = answer[d]
      BY <2>1, <2>2 DEF TypeOK, Reading
    <2>4. Locked'
      BY <1>0, <2>2, <2>3 DEF Locked
    <2> QED BY <2>2, <2>3, <2>4, MoveSafe
  <1>2. CASE Start(c)
    <2>1. /\ pc[c] = "queued" /\ pc' = [pc EXCEPT ![c] = FirstStage(op[c])]
          /\ holder = NoCaller /\ holder' = c
          /\ UNCHANGED <<leases, pend, cached, op, answer, unsure>>
      BY <1>2 DEF Start, Goto, callVars
    <2>2. /\ pc'[c] = FirstStage(op[c]) /\ answer'[c] = NoLeases
          /\ \A d \in Callers \ {c} :
               pc'[d] = pc[d] /\ op'[d] = op[d] /\ answer'[d] = answer[d]
      BY <2>1 DEF TypeOK, Reading
    <2>3. /\ FirstStage(op[c]) \in {"check", "write", "fetch"}
          /\ FirstStage(op[c]) = "write" => op[c].kind = "remove"
      BY DEF FirstStage
    <2>4. Locked'
      BY <1>0, <2>1, <2>2, <2>3, LeaseAssumption DEF Locked
    <2> QED BY <2>1, <2>2, <2>3, <2>4, MoveSafe
  <1>3. CASE Answered(c)
    <2>1. /\ answer' = [answer EXCEPT ![c] = leases]
          /\ UNCHANGED <<leases, pend, cached, holder, pc, op, unsure>>
      BY <1>3 DEF Answered
    <2>2. AnswersCurrent'
      BY <2>1 DEF SafeInv, AnswersCurrent, TypeOK
    <2> QED BY <2>1, <2>2
            DEF SafeInv, Locked, Checked, Shown, UniqueAddresses, Unique,
                Conflict, WouldMove, NothingLate
  <1>4. CASE Check(c)
    <2>1. /\ pc[c] = "check" /\ answer[c] = leases /\ UNCHANGED <<leases, pend>>
      BY <1>4 DEF Check, SafeInv, AnswersCurrent
    <2>2. \A d \in Callers : pc[d] # "verify"
      BY <1>0, <2>1, Alone
    <2>3. CASE Return(c, "failed") /\ UNCHANGED <<cached, unsure>>
      BY <1>0, <2>1, <2>2, <2>3, ReturnSafe DEF SafeInv, Shown
    <2>4. CASE Return(c, "ok") /\ Store(answer[c])
      BY <1>0, <2>1, <2>4, ReturnSafe DEF Store
    <2>5. CASE /\ ~WouldMove(answer[c], op[c]) /\ ~Conflict(answer[c], op[c])
               /\ pc' = [pc EXCEPT ![c] = "write"]
               /\ answer' = [answer EXCEPT ![c] = NoLeases]
               /\ UNCHANGED <<cached, unsure, holder, op>>
      <3>1. /\ pc'[c] = "write" /\ answer'[c] = NoLeases
            /\ \A d \in Callers \ {c} :
                 pc'[d] = pc[d] /\ op'[d] = op[d] /\ answer'[d] = answer[d]
        BY <2>5 DEF TypeOK
      <3>2. Locked'
        BY <1>0, <2>1, <2>5, <3>1 DEF Locked
      <3> QED BY <2>1, <2>5, <3>1, <3>2, MoveSafe
    <2> QED BY <1>4, <2>3, <2>4, <2>5 DEF Check, Goto
  <1>5. CASE Write(c)
    <2>1. /\ pc[c] = "write" /\ pc' = [pc EXCEPT ![c] = "verify"]
          /\ Sent(c)
          /\ UNCHANGED <<cached, holder, op, answer, unsure>>
      BY <1>5 DEF Write, Goto, callVars
    <2>2. pc'[c] = "verify" /\ answer'[c] = NoLeases
      BY <2>1 DEF TypeOK, Reading
    <2>3. \A d \in Callers \ {c} :
            pc'[d] \in {"idle", "queued"} /\ answer'[d] = NoLeases
      BY <1>0, <2>1, Alone DEF TypeOK
    <2>4. Locked'
      BY <1>0, <2>1, <2>2, <2>3 DEF Locked
    <2>5. Unique(leases') /\ UNCHANGED pend
      BY <2>1, WriteUnique
    <2> QED BY <2>2, <2>3, <2>4, <2>5
            DEF SafeInv, AnswersCurrent, Checked, Shown, UniqueAddresses, Unique, NothingLate
  <1>6. CASE Verify(c) \/ Fetch(c)
    <2>1. /\ pc[c] \notin {"idle", "queued"} /\ answer[c] = leases
          /\ UNCHANGED <<leases, pend>> /\ cached' = answer[c]
          /\ \E result : Return(c, result)
      BY <1>6 DEF Verify, Fetch, Store, SafeInv, AnswersCurrent
    <2> QED BY <1>0, <2>1, ReturnSafe
  <1>7. CASE WriteLost(c)
    <2>1. /\ pc[c] = "write" /\ Return(c, "failed") /\ unsure' = TRUE
          /\ Sent(c)
      BY <1>7 DEF WriteLost
    <2> QED BY <2>1, WriteUnique, ReturnSafe
  <1>8. CASE ReadFails(c)
    <2>1. /\ pc[c] \in {"check", "verify", "fetch"} /\ Return(c, "failed")
          /\ unsure' = (unsure \/ pc[c] = "verify") /\ UNCHANGED <<leases, pend, cached>>
      BY <1>8 DEF ReadFails, Reading
    <2>2. pc[c] # "verify" => \A d \in Callers : pc[d] # "verify"
      BY <1>0, <2>1, Alone
    <2>3. ~unsure' => cached' = leases'
      BY <2>1, <2>2 DEF SafeInv, Shown
    <2> QED BY <1>0, <2>1, <2>3, ReturnSafe
  <1>9. CASE CancelWait(c)
    <2>1. /\ pc[c] = "queued" /\ Return(c, "failed")
          /\ UNCHANGED <<leases, pend, cached, unsure>>
      BY <1>9 DEF CancelWait
    <2> QED BY <1>0, <2>1, ReturnMoves, MoveSafe
  <1> QED BY <1>1, <1>2, <1>3, <1>4, <1>5, <1>6, <1>7, <1>8, <1>9 DEF Work

LEMMA SafeStep ==
  ASSUME Faults = {}
  PROVE  TypeOK /\ SafeInv /\ [Next]_vars => SafeInv'
  <1> SUFFICES ASSUME TypeOK, SafeInv, [Next]_vars PROVE SafeInv'
    OBVIOUS
  <1>1. ~ (\E m \in Macs : WebEdit(m)) /\ ~TakesEffect
    BY DEF WebEdit, TakesEffect, SafeInv, NothingLate
  <1>2. CASE UNCHANGED vars
    BY <1>2 DEF vars, callVars, SafeInv, Locked, AnswersCurrent, Checked, Shown,
                UniqueAddresses, Unique, Conflict, WouldMove, NothingLate
  <1> QED BY <1>1, <1>2, StepSafe DEF Next

LEMMA SafeAlways ==
  ASSUME Faults = {}
  PROVE  Spec => [](TypeOK /\ SafeInv)
  <1>1. Init => SafeInv
    BY InitSafe
  <1>2. TypeOK /\ SafeInv /\ [Next]_vars => SafeInv'
    BY SafeStep
  <1> QED BY <1>1, <1>2, TypeCorrect, PTL DEF Spec

\* Without edits behind the integration's back, and without writes that take effect
\* late, no address is given to two devices.
THEOREM AddressesStayUnique ==
  ASSUME Faults = {}
  PROVE  Spec => []UniqueAddresses
  <1>1. SafeInv => UniqueAddresses
    BY DEF SafeInv
  <1> QED BY <1>1, SafeAlways, PTL

\* Between operations the leases shown are the router's.
THEOREM ShownLeasesCurrent ==
  ASSUME Faults = {}
  PROVE  Spec => []CacheIsCurrent
  <1>1. TypeOK /\ SafeInv => CacheIsCurrent
    BY LeaseAssumption DEF TypeOK, SafeInv, Locked, Shown, CacheIsCurrent
  <1> QED BY <1>1, SafeAlways, PTL

\* Reserving a current address moves no reservation.
THEOREM ReserveMovesNothing ==
  ASSUME Faults = {}
  PROVE  Spec => ReservationsStay
  <1>1. ASSUME TypeOK, SafeInv, [Next]_vars, NEW m \in Macs,
               leases[m] # NoLease, leases'[m] # NoLease,
               leases'[m].ip # leases[m].ip
        PROVE  \E c \in Callers :
                 pc[c] = "write" /\ op[c].kind = "set" /\ op[c].mac = m
    <2>1. PICK c \in Callers : /\ pc[c] = "write"
                              /\ leases' = Put(leases, op[c])
      <3>1. leases' # leases
        BY <1>1
      <3>2. ~ (\E n \in Macs : WebEdit(n)) /\ ~TakesEffect
        BY <1>1 DEF WebEdit, TakesEffect, SafeInv, NothingLate
      <3>3. PICK c \in Callers :
              \/ Call(c) \/ Start(c) \/ Work(c)
              \/ WriteLost(c) \/ ReadFails(c) \/ CancelWait(c)
        BY <1>1, <3>1, <3>2 DEF Next, vars
      <3>4. Write(c) \/ WriteLost(c)
        BY <3>1, <3>3
        DEF Call, Start, Work, Answered, Check, Verify, Fetch, ReadFails,
            CancelWait
      <3>5. pc[c] = "write" /\ Sent(c)
        BY <3>4 DEF Write, WriteLost
      <3>6. leases' \in {leases, Put(leases, op[c])}
        BY <3>5 DEF Sent
      <3> QED BY <3>1, <3>5, <3>6
    <2>2. /\ op[c].kind \in {"set", "reserve", "remove"} /\ op[c].mac \in Macs
          /\ leases \in Leases
      <3>1. op[c] # NoOp /\ op[c].kind \in {"set", "reserve", "remove"}
        BY <1>1, <2>1 DEF TypeOK
      <3> QED BY <1>1, <3>1, OpKinds DEF TypeOK
    <2>3. op[c].mac = m
      BY <1>1, <2>1, <2>2 DEF Put, Leases
    <2>4. op[c].kind # "remove"
      BY <1>1, <2>1, <2>2, <2>3 DEF Put, Leases
    <2>5. op[c].kind # "reserve"
      <3>1. ~WouldMove(leases, op[c])
        BY <1>1, <2>1, <2>4 DEF SafeInv, Checked
      <3> QED BY <1>1, <2>1, <2>2, <2>3, <2>4, <3>1 DEF WouldMove, Put, Leases
    <2> QED BY <2>1, <2>2, <2>3, <2>4, <2>5
  <1>2. TypeOK /\ SafeInv /\ [Next]_vars =>
          [\A m \in Macs :
             /\ leases[m] # NoLease /\ leases'[m] # NoLease
             /\ leases'[m].ip # leases[m].ip
             => \E c \in Callers :
                  pc[c] = "write" /\ op[c].kind = "set" /\ op[c].mac = m]_vars
    BY <1>1
  <1> QED BY <1>2, SafeAlways, PTL DEF ReservationsStay, Spec

-----------------------------------------------------------------------------
(***************************************************************************)
(* What success means.                                                     *)
(***************************************************************************)

\* The list that was read shows what the task asked for.
Effect(c) ==
  /\ cached' = answer[c]
  /\ op[c].kind = "set" => cached'[op[c].mac] = op[c].lease
  /\ op[c].kind = "remove" => cached'[op[c].mac] = NoLease
  /\ op[c].kind = "reserve" =>
       /\ cached'[op[c].mac] # NoLease
       /\ cached'[op[c].mac].ip = op[c].lease.ip

\* Only the end of its own operation makes a task's outcome a success.
LEMMA OwnOutcome ==
  ASSUME TypeOK, [Next]_vars, NEW c \in Callers,
         outcome[c] = "none", outcome'[c] = "ok"
  PROVE  Check(c) \/ Verify(c) \/ Fetch(c)
  <1>1. outcome' # outcome
    OBVIOUS
  <1>2. PICK d \in Callers :
          Call(d) \/ Check(d) \/ Verify(d) \/ Fetch(d)
          \/ WriteLost(d) \/ ReadFails(d) \/ CancelWait(d)
    BY <1>1 DEF Next, vars, callVars, Work, Start, Answered, Write, WebEdit, TakesEffect
  <1>3. \E result \in {"none", "ok", "failed"} :
          outcome' \in {outcome, [outcome EXCEPT ![d] = result]}
    BY <1>2 DEF Call, Check, Verify, Fetch, WriteLost, ReadFails, CancelWait, Return
  <1>4. d = c
    BY <1>1, <1>3 DEF TypeOK
  <1>5. ~Call(c) /\ ~WriteLost(c) /\ ~ReadFails(c) /\ ~CancelWait(c)
    BY DEF TypeOK, Call, WriteLost, ReadFails, CancelWait, Return
  <1> QED BY <1>2, <1>4, <1>5

\* An operation succeeds at the end of a read that shows its effect, and that
\* list is stored; also with edits in the web UI and with late writes.
THEOREM SuccessIsTrue == Spec => OkIsTrue
  <1>1. ASSUME TypeOK, [Next]_vars, NEW c \in Callers,
               op[c] # NoOp, outcome[c] = "none", outcome'[c] = "ok"
        PROVE  Effect(c)
    <2>1. op[c].kind \in {"set", "reserve"} => op[c].lease \in Lease
      BY <1>1, OpKinds
    <2>2. Check(c) \/ Verify(c) \/ Fetch(c)
      BY <1>1, OwnOutcome
    <2>3. CASE Check(c)
      <3>1. Reserved(answer[c], op[c]) /\ Store(answer[c])
        BY <1>1, <2>3 DEF Check, Return, TypeOK
      <3> QED BY <3>1 DEF Reserved, Store, Effect
    <2>4. CASE Verify(c)
      <3>1. Verified(answer[c], op[c]) /\ Store(answer[c])
        BY <1>1, <2>4 DEF Verify, Return, TypeOK
      <3> QED BY <2>1, <3>1, LeaseAssumption DEF Verified, Store, Effect
    <2>5. CASE Fetch(c)
      BY <1>1, <2>5 DEF Fetch, Store, Effect, TypeOK
    <2> QED BY <2>2, <2>3, <2>4, <2>5
  <1>2. TypeOK /\ [Next]_vars =>
          [\A c \in Callers :
             op[c] # NoOp /\ outcome[c] = "none" /\ outcome'[c] = "ok" =>
               /\ cached' = answer[c]
               /\ op[c].kind = "set" => cached'[op[c].mac] = op[c].lease
               /\ op[c].kind = "remove" => cached'[op[c].mac] = NoLease
               /\ op[c].kind = "reserve" =>
                    /\ cached'[op[c].mac] # NoLease
                    /\ cached'[op[c].mac].ip = op[c].lease.ip]_vars
    BY <1>1 DEF Effect
  <1> QED BY <1>2, TypeCorrect, PTL DEF OkIsTrue, Spec
=============================================================================
