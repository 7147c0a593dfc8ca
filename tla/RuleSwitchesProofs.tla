-------------------------- MODULE RuleSwitchesProofs --------------------------
(***************************************************************************)
(* Machine-checked proofs about RuleSwitches, for every set of devices,     *)
(* rules and calls, and any number of additions and removals of switches.   *)
(***************************************************************************)
EXTENDS RuleSwitches, TLAPS

\* A call is past the lock's queue exactly while it holds the lock, and it has no
\* outcome yet.
LockInv ==
  /\ \A c \in Calls : pc[c] \in Locked <=> holder = c
  /\ holder # NoCall => result = "none"

\* A call that awaits removals has removed the rules of all its devices, and
\* their switches that are still on the platform are yet to be removed.
RemovingInv ==
  \A c \in Calls :
    /\ pc[c] # "removing" => waits[c] = {}
    /\ pc[c] = "removing" =>
         /\ req[c].state = "remove" /\ waits[c] \subseteq req[c].macs
         /\ \A m \in req[c].macs : pcRules[m] = NoRule
         /\ live \cap req[c].macs \subseteq waits[c] \cap doomed

\* `tracked` has the switches on the platform, and a switch that is to be removed
\* while an older one is still leaving was left behind by its call.
PlatformInv ==
  /\ tracked = live
  /\ doomed \cap leaving \subseteq orphaned

SwitchInv ==
  /\ TypeOK /\ LockInv /\ RemovingInv /\ PlatformInv
  /\ RemovalsUnderLock /\ EveryRuleHasSwitch /\ SwitchShowsRule

-----------------------------------------------------------------------------
(* Type correctness *)

\* The types of what calls and what switches have.
CallTypes ==
  /\ holder \in Calls \cup {NoCall}
  /\ pc \in [Calls -> {"idle", "queued"} \cup Locked]
  /\ req \in [Calls -> Requests \cup {NoRequest}]
  /\ \A c \in Calls : pc[c] # "idle" => req[c] \in Requests
  /\ result \in {"none", "ok", "failed"}
  /\ waits \in [Calls -> SUBSET Macs]

SwitchTypes ==
  /\ pcRules \in Tables
  /\ live \subseteq Macs
  /\ tracked \subseteq Macs
  /\ registry \in [Macs -> {"none", "enabled", "disabled"}]
  /\ rule \in Tables
  /\ doomed \subseteq Macs
  /\ leaving \subseteq Macs
  /\ orphaned \subseteq Macs

LEMMA TypeParts == TypeOK <=> table \in Tables /\ CallTypes /\ SwitchTypes
  BY DEF TypeOK, CallTypes, SwitchTypes

LEMMA UpdatedType ==
  ASSUME NEW t \in Tables, NEW r \in Requests
  PROVE  Updated(t, r) \in Tables
  BY SwitchAssumption DEF Updated, Tables, Request

\* The switches that storing a table adds.
NewSwitches(t) == IF Ruled(t) = Ruled(pcRules) THEN {} ELSE Added(t)

LEMMA StoreParts ==
  ASSUME NEW t, NEW cleared, NEW called, StoreAnd(t, cleared, called)
  PROVE  /\ pcRules' = t
         /\ live' = live \cup NewSwitches(t)
         /\ tracked' = tracked \cup NewSwitches(t)
         /\ rule' = Follows(t, NewSwitches(t))
         /\ registry' = [m \in Macs |-> IF m \in NewSwitches(t) THEN "enabled"
                                        ELSE IF m \in cleared THEN "none"
                                        ELSE registry[m]]
         /\ doomed' = doomed \cup called
         /\ orphaned' = orphaned \ (NewSwitches(t) \ (doomed \cup leaving))
         /\ UNCHANGED leaving
  BY DEF StoreAnd, NewSwitches

LEMMA NewParts ==
  ASSUME NEW t
  PROVE  /\ NewSwitches(t) \subseteq Ruled(t)
         /\ NewSwitches(t) \subseteq Macs
         /\ NewSwitches(t) \cap live = {}
  BY DEF NewSwitches, Added, Ruled

LEMMA StoreTypes ==
  ASSUME SwitchTypes, NEW t \in Tables, NEW cleared, NEW called \in SUBSET Macs,
         StoreAnd(t, cleared, called)
  PROVE  SwitchTypes'
  <1>1. /\ pcRules' \in Tables /\ live' \subseteq Macs /\ tracked' \subseteq Macs
        /\ doomed' \subseteq Macs /\ leaving' \subseteq Macs /\ orphaned' \subseteq Macs
    BY StoreParts, NewParts DEF SwitchTypes
  <1>2. registry' \in [Macs -> {"none", "enabled", "disabled"}]
    BY StoreParts DEF SwitchTypes
  <1>3. Follows(t, NewSwitches(t)) \in Tables
    BY DEF Follows, Tables, SwitchTypes
  <1>4. rule' \in Tables
    BY <1>3, StoreParts
  <1> QED BY <1>1, <1>2, <1>4 DEF SwitchTypes

LEMMA LeaveTypes ==
  ASSUME SwitchTypes, NEW m \in Macs, Leave(m)
  PROVE  /\ live' \subseteq Macs /\ tracked' \subseteq Macs /\ rule' \in Tables
  BY DEF SwitchTypes, Leave, Tables

LEMMA ReturnTypes ==
  ASSUME CallTypes, NEW c \in Calls, NEW how \in {"ok", "failed"}, Return(c, how)
  PROVE  CallTypes'
  BY DEF CallTypes, Return

\* A step of call c.
CallStep(c) ==
  \/ \E r \in Requests : Call(c, r)
  \/ Acquire(c) \/ Write(c) \/ Retry(c) \/ Confirm(c)
  \/ FinishRemoval(c) \/ Raise(c) \/ CancelCall(c)

LEMMA CallStepTypes ==
  ASSUME TypeOK, NEW c \in Calls, CallStep(c)
  PROVE  TypeOK'
  <1>1. table \in Tables /\ CallTypes /\ SwitchTypes
    BY TypeParts
  <1>2. req[c] \in Requests \/ pc[c] = "idle"
    BY <1>1 DEF CallTypes
  <1>3. ASSUME NEW r \in Requests, Call(c, r) PROVE TypeOK'
    <2>1. CallTypes'
      BY <1>1, <1>3 DEF Call, CallTypes
    <2>2. table' \in Tables /\ SwitchTypes'
      BY <1>1, <1>3 DEF Call, SwitchTypes, switchVars, removalVars
    <2> QED BY <2>1, <2>2 DEF TypeOK, CallTypes, SwitchTypes
  <1>4. CASE Acquire(c)
    <2>1. CallTypes'
      BY <1>1, <1>4 DEF Acquire, CallTypes, Locked
    <2>2. table' \in Tables /\ SwitchTypes'
      BY <1>1, <1>4 DEF Acquire, SwitchTypes, switchVars, removalVars
    <2> QED BY <2>1, <2>2 DEF TypeOK, CallTypes, SwitchTypes
  <1>5. CASE Write(c)
    <2>1. CallTypes'
      BY <1>1, <1>5 DEF Write, CallTypes, Locked
    <2>2. table' \in Tables
      BY <1>1, <1>2, <1>5, UpdatedType DEF Write
    <2>3. SwitchTypes'
      BY <1>1, <1>5 DEF Write, SwitchTypes, switchVars, removalVars
    <2> QED BY <2>1, <2>2, <2>3 DEF TypeOK, CallTypes, SwitchTypes
  <1>6. CASE Retry(c)
    <2>1. CallTypes' /\ table' \in Tables
      BY <1>1, <1>6 DEF Retry, CallTypes, callVars
    <2>2. SwitchTypes'
      BY <1>1, <1>6, StoreTypes DEF Retry, Store
    <2> QED BY <2>1, <2>2 DEF TypeOK, CallTypes, SwitchTypes
  <1>7. CASE GiveUp(c) \/ ConfirmChange(c)
    <2>1. CallTypes' /\ table' \in Tables
      BY <1>1, <1>7, ReturnTypes DEF GiveUp, ConfirmChange
    <2>2. SwitchTypes'
      BY <1>1, <1>7, StoreTypes DEF GiveUp, ConfirmChange, Store
    <2> QED BY <2>1, <2>2 DEF TypeOK, CallTypes, SwitchTypes
  <1>8. CASE ConfirmRemoval(c)
    <2> DEFINE macs == req[c].macs
               switches == live \cap macs
    <2>1. /\ pc[c] = "confirm" /\ UNCHANGED table
          /\ StoreAnd(table, IF switches = {} THEN macs ELSE {}, switches)
          /\ Gather(c, switches)
      BY <1>8 DEF ConfirmRemoval
    <2>2. switches \in SUBSET Macs
      BY <1>1 DEF SwitchTypes
    <2> HIDE DEF macs, switches
    <2>3. CallTypes'
      <3>1. CASE switches = {}
        <4>1. Return(c, "ok")
          BY <2>1, <3>1 DEF Gather
        <4> QED BY <1>1, <4>1, ReturnTypes
      <3>2. CASE switches # {}
        <4>1. /\ pc' = [pc EXCEPT ![c] = "removing"]
              /\ waits' = [waits EXCEPT ![c] = switches]
              /\ UNCHANGED <<holder, req, result>>
          BY <2>1, <3>2 DEF Gather
        <4> QED BY <1>1, <1>2, <2>1, <2>2, <4>1 DEF CallTypes, Locked
      <3> QED BY <3>1, <3>2
    <2>4. SwitchTypes'
      BY <1>1, <2>1, <2>2, StoreTypes
    <2> QED BY <1>1, <2>1, <2>3, <2>4 DEF TypeOK, CallTypes, SwitchTypes
  <1>9. CASE FinishRemoval(c)
    <2>1. CallTypes' /\ table' \in Tables
      BY <1>1, <1>9, ReturnTypes DEF FinishRemoval
    <2>2. SwitchTypes'
      BY <1>1, <1>9 DEF FinishRemoval, SwitchTypes, removalVars
    <2> QED BY <2>1, <2>2 DEF TypeOK, CallTypes, SwitchTypes
  <1>10. CASE Raise(c) \/ CancelCall(c)
    <2>1. CallTypes' /\ table' \in Tables
      BY <1>1, <1>10, ReturnTypes DEF Raise, CancelCall
    <2>2. SwitchTypes'
      BY <1>1, <1>10 DEF Raise, CancelCall, SwitchTypes, switchVars, removalVars
    <2> QED BY <2>1, <2>2 DEF TypeOK, CallTypes, SwitchTypes
  <1> QED BY <1>3, <1>4, <1>5, <1>6, <1>7, <1>8, <1>9, <1>10 DEF CallStep, Confirm

\* A step of the switch of device m.
MacStep(m) == BeginRemoval(m) \/ EndRemoval(m) \/ RemovalFails(m) \/ Disable(m)

LEMMA MacStepTypes ==
  ASSUME TypeOK, NEW m \in Macs, MacStep(m)
  PROVE  TypeOK'
  <1>1. table \in Tables /\ CallTypes /\ SwitchTypes
    BY TypeParts
  <1>2. CASE BeginRemoval(m) \/ EndRemoval(m) \/ Disable(m)
    <2>1. CallTypes' /\ table' \in Tables
      BY <1>1, <1>2 DEF BeginRemoval, EndRemoval, Disable, CallTypes, callVars
    <2>2. live' \subseteq Macs /\ tracked' \subseteq Macs /\ rule' \in Tables
      BY <1>1, <1>2, LeaveTypes DEF BeginRemoval, EndRemoval, Disable
    <2>3. SwitchTypes'
      BY <1>1, <1>2, <2>2 DEF BeginRemoval, EndRemoval, Disable, SwitchTypes, removalVars
    <2> QED BY <2>1, <2>3 DEF TypeOK, CallTypes, SwitchTypes
  <1>3. CASE RemovalFails(m)
    <2>1. CallTypes' /\ table' \in Tables
      <3>1. UNCHANGED callVars \/ \E c \in Calls : Return(c, "failed")
        BY <1>3 DEF RemovalFails
      <3>2. ASSUME UNCHANGED callVars PROVE CallTypes'
        BY <1>1, <3>2 DEF CallTypes, callVars
      <3>3. ASSUME NEW c \in Calls, Return(c, "failed") PROVE CallTypes'
        BY <1>1, <3>3, ReturnTypes
      <3> QED BY <1>1, <1>3, <3>1, <3>2, <3>3 DEF RemovalFails
    <2>2. orphaned' \subseteq Macs
      BY <1>1, <1>3 DEF RemovalFails, SwitchTypes
    <2>3. SwitchTypes'
      BY <1>1, <1>3, <2>2 DEF RemovalFails, SwitchTypes, switchVars
    <2> QED BY <2>1, <2>3 DEF TypeOK, CallTypes, SwitchTypes
  <1> QED BY <1>2, <1>3 DEF MacStep

LEMMA TypeStep == TypeOK /\ [Next]_vars => TypeOK'
  <1>1. ASSUME TypeOK, Poll PROVE TypeOK'
    <2>1. table \in Tables /\ CallTypes /\ SwitchTypes
      BY <1>1, TypeParts
    <2>2. CallTypes' /\ table' \in Tables
      BY <1>1, <2>1 DEF Poll, CallTypes, callVars
    <2>3. SwitchTypes'
      BY <1>1, <2>1, StoreTypes DEF Poll, Store
    <2> QED BY <2>2, <2>3 DEF TypeOK, CallTypes, SwitchTypes
  <1>2. ASSUME TypeOK, WebEdit PROVE TypeOK'
    BY <1>2, SwitchAssumption
       DEF TypeOK, WebEdit, Tables, callVars, switchVars, removalVars
  <1>3. ASSUME TypeOK, UNCHANGED vars PROVE TypeOK'
    BY <1>3 DEF TypeOK, vars, callVars, switchVars, removalVars
  <1>4. Next <=> \/ \E c \in Calls : CallStep(c)
                 \/ \E m \in Macs : MacStep(m)
                 \/ Poll \/ WebEdit
    BY DEF Next, CallStep, MacStep
  <1> QED BY <1>1, <1>2, <1>3, <1>4, CallStepTypes, MacStepTypes

LEMMA InitTypes == Init => TypeOK
  <1> SUFFICES ASSUME Init PROVE TypeOK
    OBVIOUS
  <1>1. table \in Tables /\ pcRules \in Tables
    BY SwitchAssumption DEF Init, Tables, NoRules
  <1>2. CallTypes
    BY DEF Init, CallTypes
  <1>3. PICK entries \in [Macs -> {"none", "enabled", "disabled"}] :
          /\ live = {m \in Ruled(pcRules) : entries[m] # "disabled"}
          /\ registry = [m \in Macs |-> IF m \in live THEN "enabled" ELSE entries[m]]
    BY DEF Init
  <1>4. live \subseteq Macs /\ registry \in [Macs -> {"none", "enabled", "disabled"}]
    BY <1>3 DEF Ruled
  <1>5. rule \in Tables
    BY <1>1 DEF Init, Tables
  <1>6. tracked = live /\ doomed = {} /\ leaving = {} /\ orphaned = {}
    BY DEF Init
  <1> QED BY <1>1, <1>2, <1>4, <1>5, <1>6 DEF TypeOK, CallTypes

\* The variables of RuleSwitches keep their types.
THEOREM TypeCorrect == Spec => []TypeOK
BY InitTypes, TypeStep, PTL DEF Spec

-----------------------------------------------------------------------------
(* The rule lock *)

LEMMA ReturnLock ==
  ASSUME TypeOK, LockInv, NEW c \in Calls, pc[c] \in Locked, NEW how, Return(c, how)
  PROVE  LockInv' /\ \A d \in Calls : pc'[d] \notin Locked
  <1>1. holder' = NoCall /\ pc' = [pc EXCEPT ![c] = "idle"] /\ holder = c
    BY DEF Return, LockInv
  <1>2. \A d \in Calls : pc'[d] \notin Locked
    BY <1>1 DEF TypeOK, LockInv, Locked
  <1> QED BY <1>1, <1>2, SwitchAssumption DEF LockInv

LEMMA CallStepLock ==
  ASSUME TypeOK, LockInv, NEW c \in Calls, CallStep(c)
  PROVE  LockInv'
  <1>1. ASSUME NEW r \in Requests, Call(c, r) PROVE LockInv'
    BY <1>1 DEF Call, TypeOK, LockInv, Locked
  <1>2. CASE Acquire(c)
    BY <1>2, SwitchAssumption DEF Acquire, TypeOK, LockInv, Locked
  <1>3. CASE Write(c)
    BY <1>3 DEF Write, TypeOK, LockInv, Locked
  <1>4. CASE Retry(c)
    BY <1>4 DEF Retry, callVars, LockInv
  <1>5. CASE GiveUp(c) \/ ConfirmChange(c) \/ FinishRemoval(c) \/ Raise(c) \/ CancelCall(c)
    <2>1. pc[c] \in Locked /\ \E how : Return(c, how)
      BY <1>5 DEF GiveUp, ConfirmChange, FinishRemoval, Raise, CancelCall, Locked
    <2> QED BY <2>1, ReturnLock
  <1>6. CASE ConfirmRemoval(c)
    <2> DEFINE switches == live \cap req[c].macs
    <2>1. pc[c] = "confirm" /\ Gather(c, switches)
      BY <1>6 DEF ConfirmRemoval
    <2> HIDE DEF switches
    <2>2. CASE switches = {}
      BY <2>1, <2>2, ReturnLock DEF Gather, Locked
    <2>3. CASE switches # {}
      BY <2>1, <2>3 DEF Gather, TypeOK, LockInv, Locked
    <2> QED BY <2>2, <2>3
  <1> QED BY <1>1, <1>2, <1>3, <1>4, <1>5, <1>6 DEF CallStep, Confirm

\* A call awaits a switch only while it removes rules.
LEMMA Awaiting ==
  ASSUME RemovingInv, NEW c \in Calls, NEW m \in waits[c]
  PROVE  pc[c] = "removing"
  BY DEF RemovingInv

LEMMA MacStepLock ==
  ASSUME TypeOK, LockInv, RemovingInv, NEW m \in Macs, MacStep(m)
  PROVE  LockInv'
  <1>1. CASE UNCHANGED callVars
    BY <1>1 DEF LockInv, callVars
  <1>2. ASSUME NEW c \in Calls, m \in waits[c], Return(c, "failed") PROVE LockInv'
    BY <1>2, Awaiting, ReturnLock DEF Locked
  <1> QED BY <1>1, <1>2 DEF MacStep, BeginRemoval, EndRemoval, RemovalFails, Disable

-----------------------------------------------------------------------------
(* Tables and switches *)

\* When no call awaits removals, the switches still to be removed were left behind.
LEMMA NobodyAwaits ==
  ASSUME SwitchInv, \A c \in Calls : pc[c] # "removing"
  PROVE  doomed \cup leaving \subseteq orphaned
  BY DEF SwitchInv, RemovalsUnderLock

LEMMA OneAwaits ==
  ASSUME SwitchInv, NEW c \in Calls, pc[c] = "removing"
  PROVE  /\ holder = c /\ \A d \in Calls \ {c} : pc[d] \notin Locked
         /\ doomed \cup leaving \subseteq orphaned \cup waits[c]
         /\ \A m \in req[c].macs : pcRules[m] = NoRule
  BY DEF SwitchInv, LockInv, RemovingInv, RemovalsUnderLock, Locked

\* What storing a table does, when no call awaits removals.
LEMMA StoreKeeps ==
  ASSUME SwitchInv, \A c \in Calls : pc[c] # "removing", NEW t \in Tables,
         NEW cleared \in SUBSET Macs, NEW called \in SUBSET live,
         \A m \in cleared \cup called : t[m] = NoRule, StoreAnd(t, cleared, called)
  PROVE  /\ PlatformInv' /\ EveryRuleHasSwitch' /\ SwitchShowsRule'
         /\ doomed' \cup leaving' \subseteq orphaned' \cup called
  <1> DEFINE new == NewSwitches(t)
  <1>1. /\ pcRules' = t
        /\ live' = live \cup new
        /\ tracked' = tracked \cup new
        /\ rule' = Follows(t, new)
        /\ registry' = [m \in Macs |-> IF m \in new THEN "enabled"
                                       ELSE IF m \in cleared THEN "none"
                                       ELSE registry[m]]
        /\ doomed' = doomed \cup called
        /\ orphaned' = orphaned \ (new \ (doomed \cup leaving))
        /\ UNCHANGED leaving
    BY StoreParts
  <1>2. new \subseteq Ruled(t) /\ new \subseteq Macs /\ new \cap live = {}
    BY NewParts
  <1>3. doomed \cup leaving \subseteq orphaned
    BY NobodyAwaits
  <1>4. tracked = live /\ live \subseteq Macs
    BY DEF SwitchInv, PlatformInv, TypeOK
  <1>5. \A m \in Ruled(t) : m \in live \cup new \/ registry[m] = "disabled" \/ m \in orphaned
    <2>1. CASE Ruled(t) = Ruled(pcRules)
      BY <2>1 DEF SwitchInv, EveryRuleHasSwitch
    <2>2. CASE Ruled(t) # Ruled(pcRules)
      BY <1>4, <2>2 DEF NewSwitches, Added
    <2> QED BY <2>1, <2>2
  <1>6. \A m \in Ruled(t) : m \in Macs /\ m \notin cleared
    BY DEF Ruled
  <1>7. \A m \in (live \cup new) \cap Ruled(t) : Follows(t, new)[m] = t[m]
    BY <1>2, <1>4 DEF Follows
  <1> HIDE DEF new
  <1>8. PlatformInv' /\ doomed' \cup leaving' \subseteq orphaned' \cup called
    BY <1>1, <1>3, <1>4 DEF PlatformInv
  <1>9. SwitchShowsRule'
    BY <1>1, <1>7 DEF SwitchShowsRule
  <1>10. EveryRuleHasSwitch'
    <2>1. ASSUME NEW m \in Ruled(t)
          PROVE  m \in live' \/ registry'[m] = "disabled" \/ m \in orphaned'
      BY <1>1, <1>5, <1>6
    <2> QED BY <1>1, <2>1 DEF EveryRuleHasSwitch
  <1> QED BY <1>8, <1>9, <1>10

\* A step after which no call awaits removals, and that leaves pcRules and the
\* platform alone.
LEMMA QuietEnd ==
  ASSUME SwitchInv, TypeOK', LockInv', UNCHANGED <<pcRules, live, tracked, rule>>,
         \A d \in Calls : pc'[d] # "removing" /\ waits'[d] = {},
         \A m \in Ruled(pcRules) : registry'[m] = registry[m],
         doomed' \cup leaving' \subseteq orphaned', orphaned \subseteq orphaned'
  PROVE  SwitchInv'
  <1>1. RemovingInv' /\ RemovalsUnderLock' /\ PlatformInv'
    BY DEF SwitchInv, RemovingInv, RemovalsUnderLock, PlatformInv
  <1>2. EveryRuleHasSwitch' /\ SwitchShowsRule'
    BY DEF SwitchInv, EveryRuleHasSwitch, SwitchShowsRule
  <1> QED BY <1>1, <1>2 DEF SwitchInv

\* A step that no switch and no call that awaits removals notices.
LEMMA Unnoticed ==
  ASSUME SwitchInv, TypeOK', LockInv',
         UNCHANGED <<pcRules, waits, switchVars, removalVars>>,
         \A d \in Calls : /\ pc'[d] = "removing" <=> pc[d] = "removing"
                          /\ pc[d] = "removing" => req'[d] = req[d]
  PROVE  SwitchInv'
  <1>1. UNCHANGED <<pcRules, waits, live, tracked, registry, rule, doomed, leaving,
                    orphaned>>
    BY DEF switchVars, removalVars
  <1>2. RemovingInv'
    BY <1>1 DEF SwitchInv, RemovingInv
  <1>3. RemovalsUnderLock'
    <2>1. \A d \in Calls : pc'[d] = "removing" => holder' = d
      BY DEF LockInv, Locked
    <2> QED BY <1>1, <2>1 DEF SwitchInv, RemovalsUnderLock
  <1>4. PlatformInv' /\ EveryRuleHasSwitch' /\ SwitchShowsRule'
    BY <1>1 DEF SwitchInv, PlatformInv, EveryRuleHasSwitch, SwitchShowsRule
  <1> QED BY <1>2, <1>3, <1>4 DEF SwitchInv

-----------------------------------------------------------------------------
(* The steps of a call *)

LEMMA ReturnParts ==
  ASSUME SwitchInv, NEW c \in Calls, pc[c] \in Locked, NEW how, Return(c, how)
  PROVE  \A d \in Calls : pc'[d] # "removing" /\ waits'[d] = {}
  <1>1. \A d \in Calls : pc'[d] \notin Locked
    BY ReturnLock DEF SwitchInv
  <1>2. \A d \in Calls \ {c} : pc[d] \notin Locked
    BY DEF SwitchInv, LockInv
  <1>3. waits \in [Calls -> SUBSET Macs] /\ waits' = [waits EXCEPT ![c] = {}]
    BY DEF SwitchInv, TypeOK, Return
  <1>4. \A d \in Calls \ {c} : waits[d] = {}
    BY <1>2 DEF SwitchInv, RemovingInv, Locked
  <1> QED BY <1>1, <1>3, <1>4 DEF Locked

LEMMA NotRemoving ==
  ASSUME SwitchInv, NEW c \in Calls, pc[c] \in Locked, pc[c] # "removing"
  PROVE  \A d \in Calls : pc[d] # "removing" /\ waits[d] = {}
  BY DEF SwitchInv, LockInv, RemovingInv, Locked

LEMMA StoreStep ==
  ASSUME SwitchInv, NEW c \in Calls, TypeOK', LockInv',
         Retry(c) \/ GiveUp(c) \/ ConfirmChange(c)
  PROVE  SwitchInv'
  <1>1. pc[c] = "confirm" /\ Store(table)
    BY DEF Retry, GiveUp, ConfirmChange
  <1>2. \A d \in Calls : pc[d] # "removing" /\ waits[d] = {}
    BY <1>1, NotRemoving DEF Locked
  <1>3. \A d \in Calls : pc'[d] # "removing" /\ waits'[d] = {}
    <2>1. CASE Retry(c)
      BY <1>2, <2>1 DEF Retry, callVars
    <2>2. CASE GiveUp(c) \/ ConfirmChange(c)
      BY <1>1, <2>2, ReturnParts DEF GiveUp, ConfirmChange, Locked
    <2> QED BY <2>1, <2>2
  <1>4. /\ PlatformInv' /\ EveryRuleHasSwitch' /\ SwitchShowsRule'
        /\ doomed' \cup leaving' \subseteq orphaned'
    <2>1. StoreAnd(table, {}, {}) /\ table \in Tables
      BY <1>1 DEF Store, SwitchInv, TypeOK
    <2>2. /\ PlatformInv' /\ EveryRuleHasSwitch' /\ SwitchShowsRule'
          /\ doomed' \cup leaving' \subseteq orphaned' \cup {}
      BY <1>2, <2>1, StoreKeeps
    <2> QED BY <2>2
  <1>5. RemovingInv' /\ RemovalsUnderLock'
    BY <1>3, <1>4 DEF RemovingInv, RemovalsUnderLock
  <1> QED BY <1>4, <1>5 DEF SwitchInv

LEMMA PollStep ==
  ASSUME SwitchInv, TypeOK', LockInv', Poll
  PROVE  SwitchInv'
  <1>1. holder = NoCall /\ Store(table) /\ UNCHANGED callVars
    BY DEF Poll
  <1>2. \A d \in Calls : pc[d] # "removing" /\ waits[d] = {}
    BY <1>1, SwitchAssumption DEF SwitchInv, LockInv, RemovingInv, Locked
  <1>3. \A d \in Calls : pc'[d] # "removing" /\ waits'[d] = {}
    BY <1>1, <1>2 DEF callVars
  <1>4. /\ PlatformInv' /\ EveryRuleHasSwitch' /\ SwitchShowsRule'
        /\ doomed' \cup leaving' \subseteq orphaned'
    <2>1. StoreAnd(table, {}, {}) /\ table \in Tables
      BY <1>1 DEF Store, SwitchInv, TypeOK
    <2>2. /\ PlatformInv' /\ EveryRuleHasSwitch' /\ SwitchShowsRule'
          /\ doomed' \cup leaving' \subseteq orphaned' \cup {}
      BY <1>2, <2>1, StoreKeeps
    <2> QED BY <2>2
  <1>5. RemovingInv' /\ RemovalsUnderLock'
    BY <1>3, <1>4 DEF RemovingInv, RemovalsUnderLock
  <1> QED BY <1>4, <1>5 DEF SwitchInv

\* What a confirmed removal does.  No switch that it adds is of its devices, and
\* the removal of those that there are is scheduled.
LEMMA RemovalParts ==
  ASSUME SwitchInv, NEW c \in Calls, ConfirmRemoval(c),
         NEW switches, switches = live \cap req[c].macs
  PROVE  /\ pc[c] = "confirm" /\ holder = c /\ req[c].state = "remove"
         /\ req[c].macs \in SUBSET Macs /\ switches \in SUBSET live
         /\ table \in Tables /\ \A m \in req[c].macs : table[m] = NoRule
         /\ StoreAnd(table, IF switches = {} THEN req[c].macs ELSE {}, switches)
         /\ Gather(c, switches)
         /\ pcRules' = table /\ live' \cap req[c].macs = switches
         /\ switches \subseteq doomed'
         /\ switches = {} => \A m \in req[c].macs : registry'[m] = "none"
  <1> DEFINE macs == req[c].macs
  <1>1. /\ pc[c] = "confirm" /\ req[c].state = "remove" /\ table = Updated(table, req[c])
        /\ StoreAnd(table, IF switches = {} THEN macs ELSE {}, switches)
        /\ Gather(c, switches)
    BY DEF ConfirmRemoval, Matches
  <1>2. holder = c
    BY <1>1 DEF SwitchInv, LockInv, Locked
  <1>3. macs \in SUBSET Macs /\ table \in Tables
    BY <1>1, SwitchAssumption DEF SwitchInv, TypeOK, Request
  <1>4. \A m \in macs : table[m] = NoRule
    BY <1>1, <1>3 DEF Updated
  <1> HIDE DEF macs
  <1>5. NewSwitches(table) \cap macs = {}
    BY <1>4, NewParts DEF Ruled
  <1>6. /\ pcRules' = table /\ live' = live \cup NewSwitches(table)
        /\ doomed' = doomed \cup switches
        /\ registry' = [m \in Macs |-> IF m \in NewSwitches(table) THEN "enabled"
                          ELSE IF m \in (IF switches = {} THEN macs ELSE {}) THEN "none"
                          ELSE registry[m]]
    BY <1>1, StoreParts
  <1>7. switches = live \cap macs
    BY DEF macs
  <1>8. live' \cap macs = switches /\ switches \subseteq doomed'
    BY <1>5, <1>6, <1>7
  <1>9. switches = {} => \A m \in macs : registry'[m] = "none"
    BY <1>3, <1>5, <1>6
  <1> QED BY <1>1, <1>2, <1>3, <1>4, <1>6, <1>7, <1>8, <1>9 DEF macs

LEMMA RemovalStep ==
  ASSUME SwitchInv, NEW c \in Calls, TypeOK', LockInv', ConfirmRemoval(c)
  PROVE  SwitchInv'
  <1> DEFINE switches == live \cap req[c].macs
             cleared == IF switches = {} THEN req[c].macs ELSE {}
  <1>1. /\ pc[c] = "confirm" /\ holder = c /\ req[c].state = "remove"
        /\ req[c].macs \in SUBSET Macs /\ switches \in SUBSET live
        /\ table \in Tables /\ \A m \in req[c].macs : table[m] = NoRule
        /\ StoreAnd(table, cleared, switches)
        /\ Gather(c, switches)
        /\ pcRules' = table /\ live' \cap req[c].macs = switches
        /\ switches \subseteq doomed'
    BY RemovalParts
  <1>2. \A d \in Calls : pc[d] # "removing" /\ waits[d] = {}
    BY <1>1, NotRemoving DEF Locked
  <1>3. switches \subseteq req[c].macs
    OBVIOUS
  <1>4. cleared \in SUBSET Macs /\ \A m \in cleared \cup switches : table[m] = NoRule
    BY <1>1
  <1> HIDE DEF switches, cleared
  <1>5. /\ PlatformInv' /\ EveryRuleHasSwitch' /\ SwitchShowsRule'
        /\ doomed' \cup leaving' \subseteq orphaned' \cup switches
    BY <1>1, <1>2, <1>4, StoreKeeps
  <1>6. CASE switches = {}
    <2>1. Return(c, "ok")
      BY <1>1, <1>6 DEF Gather
    <2>2. \A d \in Calls : pc'[d] # "removing" /\ waits'[d] = {}
      BY <1>1, <2>1, ReturnParts DEF Locked
    <2>3. RemovingInv' /\ RemovalsUnderLock'
      BY <1>5, <1>6, <2>2 DEF RemovingInv, RemovalsUnderLock
    <2> QED BY <1>5, <2>3 DEF SwitchInv
  <1>7. CASE switches # {}
    <2>1. /\ pc' = [pc EXCEPT ![c] = "removing"]
          /\ waits' = [waits EXCEPT ![c] = switches]
          /\ UNCHANGED <<holder, req, result>>
      BY <1>1, <1>7 DEF Gather
    <2>2. /\ pc'[c] = "removing" /\ waits'[c] = switches /\ holder' = c
          /\ \A d \in Calls \ {c} : pc'[d] # "removing" /\ waits'[d] = {}
      BY <1>1, <1>2, <2>1 DEF SwitchInv, TypeOK
    <2>3. RemovalsUnderLock'
      BY <1>5, <2>2 DEF RemovalsUnderLock
    <2>4. RemovingInv'
      BY <1>1, <1>3, <2>1, <2>2 DEF RemovingInv
    <2> QED BY <1>5, <2>3, <2>4 DEF SwitchInv
  <1> QED BY <1>6, <1>7

\* A call that ends without storing a table.
LEMMA EndStep ==
  ASSUME SwitchInv, NEW c \in Calls, TypeOK', LockInv',
         FinishRemoval(c) \/ Raise(c) \/ CancelCall(c)
  PROVE  SwitchInv'
  <1>1. pc[c] \in Locked /\ \E how : Return(c, how)
    BY DEF FinishRemoval, Raise, CancelCall, Locked
  <1>2. \A d \in Calls : pc'[d] # "removing" /\ waits'[d] = {}
    BY <1>1, ReturnParts
  <1>3. CASE FinishRemoval(c)
    <2>1. /\ pc[c] = "removing" /\ waits[c] \cap (doomed \cup leaving) = {}
          /\ registry' = [m \in Macs |-> IF m \in req[c].macs THEN "none"
                                         ELSE registry[m]]
          /\ UNCHANGED <<pcRules, live, tracked, rule, removalVars>>
      BY <1>3 DEF FinishRemoval
    <2>2. UNCHANGED <<doomed, leaving, orphaned>>
      BY <2>1 DEF removalVars
    <2>3. /\ doomed \cup leaving \subseteq orphaned
          /\ \A m \in req[c].macs : pcRules[m] = NoRule
      BY <2>1, OneAwaits
    <2>4. \A m \in Ruled(pcRules) : registry'[m] = registry[m]
      BY <2>1, <2>3 DEF Ruled
    <2> QED BY <1>2, <2>1, <2>2, <2>3, <2>4, QuietEnd
  <1>4. CASE Raise(c)
    <2>1. pc[c] # "removing" /\ UNCHANGED <<pcRules, live, tracked, registry, rule,
                                            doomed, leaving, orphaned>>
      BY <1>4 DEF Raise, switchVars, removalVars
    <2>2. doomed \cup leaving \subseteq orphaned
      BY <1>1, <2>1, NotRemoving, NobodyAwaits
    <2> QED BY <1>2, <2>1, <2>2, QuietEnd
  <1>5. CASE CancelCall(c)
    <2>1. /\ pc[c] = "removing"
          /\ UNCHANGED <<pcRules, live, tracked, registry, rule, orphaned>>
          /\ doomed' = doomed \ waits[c] /\ leaving' = leaving \ waits[c]
      BY <1>5 DEF CancelCall, switchVars
    <2>2. doomed' \cup leaving' \subseteq orphaned'
      BY <2>1, OneAwaits
    <2> QED BY <1>2, <2>1, <2>2, QuietEnd
  <1> QED BY <1>3, <1>4, <1>5

LEMMA CallStepKeeps ==
  ASSUME SwitchInv, NEW c \in Calls, CallStep(c)
  PROVE  SwitchInv'
  <1>1. TypeOK' /\ LockInv'
    BY CallStepTypes, CallStepLock DEF SwitchInv
  <1>2. ASSUME (\E r \in Requests : Call(c, r)) \/ Acquire(c) \/ Write(c)
        PROVE  SwitchInv'
    <2>1. /\ UNCHANGED <<pcRules, waits, switchVars, removalVars>>
          /\ \A d \in Calls : /\ pc'[d] = "removing" <=> pc[d] = "removing"
                              /\ pc[d] = "removing" => req'[d] = req[d]
      BY <1>2 DEF Call, Acquire, Write, SwitchInv, TypeOK
    <2> QED BY <1>1, <2>1, Unnoticed
  <1> QED BY <1>1, <1>2, StoreStep, RemovalStep, EndStep DEF CallStep, Confirm

-----------------------------------------------------------------------------
(* The steps of a switch *)

\* A switch leaves the platform: its removal begins or ends, or it is disabled.
LEMMA LeavingStep ==
  ASSUME SwitchInv, NEW m \in Macs, TypeOK', LockInv',
         BeginRemoval(m) \/ EndRemoval(m) \/ Disable(m)
  PROVE  SwitchInv'
  <1>1. /\ Leave(m) /\ UNCHANGED <<pcRules, callVars, orphaned>>
        /\ \A n \in Macs \ {m} : registry'[n] = registry[n]
    BY DEF BeginRemoval, EndRemoval, Disable, removalVars, SwitchInv, TypeOK
  <1>2. UNCHANGED <<holder, pc, req, result, waits>>
    BY <1>1 DEF callVars
  <1>3. /\ live' = live \ {m} /\ tracked' = live'
        /\ \A n \in live' : rule'[n] = rule[n]
    <2>1. tracked = live /\ live \subseteq Macs /\ rule \in Tables
      BY DEF SwitchInv, PlatformInv, TypeOK
    <2>2. /\ live' = live \ {m} /\ rule' = [rule EXCEPT ![m] = NoRule]
          /\ tracked' = IF m \in live THEN tracked \ {m} ELSE tracked
      BY <1>1 DEF Leave, Discarded
    <2>3. tracked' = live'
      BY <2>1, <2>2
    <2>4. \A n \in live' : rule'[n] = rule[n]
      BY <2>1, <2>2 DEF Tables
    <2> QED BY <2>2, <2>3, <2>4
  <1>4. /\ doomed' \cup leaving' \subseteq doomed \cup leaving
        /\ doomed' \cap leaving' \subseteq doomed \cap leaving
        /\ doomed \ {m} \subseteq doomed'
    BY DEF BeginRemoval, EndRemoval, Disable, removalVars
  <1>5. RemovingInv'
    BY <1>1, <1>2, <1>3, <1>4 DEF SwitchInv, RemovingInv
  <1>6. RemovalsUnderLock' /\ PlatformInv' /\ SwitchShowsRule'
    BY <1>1, <1>2, <1>3, <1>4
       DEF SwitchInv, RemovalsUnderLock, PlatformInv, SwitchShowsRule
  <1>7. EveryRuleHasSwitch'
    <2>1. ASSUME m \in Ruled(pcRules)
          PROVE  registry'[m] = "disabled" \/ m \in orphaned
      <3>1. CASE Disable(m)
        BY <3>1 DEF Disable, SwitchInv, TypeOK
      <3>2. CASE BeginRemoval(m) \/ EndRemoval(m)
        <4>1. m \in doomed \cup leaving
          BY <3>2 DEF BeginRemoval, EndRemoval
        <4>2. SUFFICES ASSUME m \notin orphaned PROVE FALSE
          OBVIOUS
        <4>3. PICK c \in Calls : pc[c] = "removing" /\ m \in waits[c]
          BY <4>1, <4>2 DEF SwitchInv, RemovalsUnderLock
        <4>4. pcRules[m] = NoRule
          BY <4>3 DEF SwitchInv, RemovingInv
        <4> QED BY <2>1, <4>4 DEF Ruled
      <3> QED BY <3>1, <3>2
    <2>2. ASSUME NEW n \in Ruled(pcRules), n # m
          PROVE  n \in live' \/ registry'[n] = "disabled" \/ n \in orphaned
      <3>1. n \in Macs
        BY DEF Ruled
      <3> QED BY <1>1, <1>3, <2>2, <3>1 DEF SwitchInv, EveryRuleHasSwitch
    <2> QED BY <1>1, <2>1, <2>2 DEF EveryRuleHasSwitch
  <1> QED BY <1>5, <1>6, <1>7 DEF SwitchInv

\* A removal fails: its call leaves the others behind.
LEMMA FailingStep ==
  ASSUME SwitchInv, NEW m \in Macs, TypeOK', LockInv', RemovalFails(m)
  PROVE  SwitchInv'
  <1>1. /\ m \in leaving /\ leaving' = leaving \ {m}
        /\ UNCHANGED <<pcRules, live, tracked, registry, rule, doomed>>
    BY DEF RemovalFails, switchVars
  <1>2. CASE UNCHANGED callVars /\ UNCHANGED orphaned
    <2>1. UNCHANGED <<holder, pc, req, result, waits>>
      BY <1>2 DEF callVars
    <2>2. RemovingInv' /\ RemovalsUnderLock'
      BY <1>1, <1>2, <2>1 DEF SwitchInv, RemovingInv, RemovalsUnderLock
    <2>3. PlatformInv' /\ EveryRuleHasSwitch' /\ SwitchShowsRule'
      BY <1>1, <1>2 DEF SwitchInv, PlatformInv, EveryRuleHasSwitch, SwitchShowsRule
    <2> QED BY <2>2, <2>3 DEF SwitchInv
  <1>3. ASSUME NEW c \in Calls, m \in waits[c], Return(c, "failed"),
               orphaned' = orphaned \cup ((waits[c] \ {m}) \cap (doomed \cup leaving))
        PROVE  SwitchInv'
    <2>1. pc[c] = "removing"
      BY <1>3, Awaiting DEF SwitchInv
    <2>2. \A d \in Calls : pc'[d] # "removing" /\ waits'[d] = {}
      BY <1>3, <2>1, ReturnParts DEF Locked
    <2>3. doomed \cap leaving \subseteq orphaned
      BY DEF SwitchInv, PlatformInv
    <2>4. doomed \cup leaving \subseteq orphaned \cup waits[c]
      BY <2>1, OneAwaits
    <2>5. doomed' \cup leaving' \subseteq orphaned'
      BY <1>1, <1>3, <2>3, <2>4
    <2> QED BY <1>1, <1>3, <2>2, <2>5, QuietEnd
  <1> QED BY <1>2, <1>3 DEF RemovalFails

LEMMA MacStepKeeps ==
  ASSUME SwitchInv, NEW m \in Macs, MacStep(m)
  PROVE  SwitchInv'
  <1>1. TypeOK' /\ LockInv'
    BY MacStepTypes, MacStepLock DEF SwitchInv
  <1> QED BY <1>1, LeavingStep, FailingStep DEF MacStep

LEMMA SwitchStep == SwitchInv /\ [Next]_vars => SwitchInv'
  <1> SUFFICES ASSUME SwitchInv, [Next]_vars PROVE SwitchInv'
    OBVIOUS
  <1>1. TypeOK'
    BY TypeStep DEF SwitchInv
  <1>2. CASE Poll
    <2>1. LockInv'
      BY <1>2 DEF Poll, callVars, SwitchInv, LockInv
    <2> QED BY <1>1, <1>2, <2>1, PollStep
  <1>3. CASE WebEdit \/ UNCHANGED vars
    <2>1. UNCHANGED <<pcRules, holder, pc, req, result, waits, switchVars, removalVars>>
      BY <1>3 DEF WebEdit, vars, callVars
    <2>2. LockInv'
      BY <2>1 DEF SwitchInv, LockInv
    <2> QED BY <1>1, <2>1, <2>2, Unnoticed
  <1>4. Next <=> \/ \E c \in Calls : CallStep(c)
                 \/ \E m \in Macs : MacStep(m)
                 \/ Poll \/ WebEdit
    BY DEF Next, CallStep, MacStep
  <1> QED BY <1>2, <1>3, <1>4, CallStepKeeps, MacStepKeeps

LEMMA InitSwitches == Init => SwitchInv
  <1> SUFFICES ASSUME Init PROVE SwitchInv
    OBVIOUS
  <1>1. TypeOK
    BY InitTypes
  <1>2. LockInv /\ RemovingInv /\ PlatformInv /\ RemovalsUnderLock
    BY SwitchAssumption
       DEF Init, LockInv, RemovingInv, PlatformInv, RemovalsUnderLock, Locked
  <1>3. EveryRuleHasSwitch
    <2>1. PICK entries \in [Macs -> {"none", "enabled", "disabled"}] :
            /\ live = {m \in Ruled(pcRules) : entries[m] # "disabled"}
            /\ registry = [m \in Macs |-> IF m \in live THEN "enabled" ELSE entries[m]]
      BY DEF Init
    <2>2. Ruled(pcRules) \subseteq Macs
      BY DEF Ruled
    <2> QED BY <2>1, <2>2 DEF EveryRuleHasSwitch
  <1>4. SwitchShowsRule
    BY <1>1 DEF Init, TypeOK, SwitchShowsRule
  <1> QED BY <1>1, <1>2, <1>3, <1>4 DEF SwitchInv

LEMMA SwitchAlways == Spec => []SwitchInv
  BY InitSwitches, SwitchStep, PTL DEF Spec

-----------------------------------------------------------------------------
(* The properties *)

\* The removal of a switch is always awaited by the call that holds the rule lock,
\* unless another removal of that call failed.
THEOREM RemovalsAlwaysUnderLock == Spec => []RemovalsUnderLock
<1>1. SwitchInv => RemovalsUnderLock
  BY DEF SwitchInv
<1> QED BY <1>1, SwitchAlways, PTL

\* Every rule that the integration knows has its switch, unless its entry is
\* disabled or a removal that its call left behind took it away.
THEOREM RulesHaveSwitches == Spec => []EveryRuleHasSwitch
<1>1. SwitchInv => EveryRuleHasSwitch
  BY DEF SwitchInv
<1> QED BY <1>1, SwitchAlways, PTL

\* Every switch shows the rule that was stored last.
THEOREM SwitchesShowRules == Spec => []SwitchShowsRule
<1>1. SwitchInv => SwitchShowsRule
  BY DEF SwitchInv
<1> QED BY <1>1, SwitchAlways, PTL

\* A removal that succeeds leaves neither rule nor switch nor registry entry,
\* also for the switches that were disabled, and whether or not there were any.
THEOREM RemovalLeavesNothing == Spec => RemovedLeavesNothing
<1> DEFINE Clean ==
      \A c \in Calls :
        holder = c /\ result' = "ok" /\ req[c].state = "remove" =>
          \A m \in req[c].macs :
            pcRules'[m] = NoRule /\ m \notin live' /\ registry'[m] = "none"
<1>1. ASSUME SwitchInv, Next PROVE Clean
  <2> SUFFICES ASSUME NEW c \in Calls, holder = c, result' = "ok",
                      req[c].state = "remove", NEW m \in req[c].macs
               PROVE  pcRules'[m] = NoRule /\ m \notin live' /\ registry'[m] = "none"
    OBVIOUS
  <2>1. result = "none" /\ pc[c] \in Locked
    BY <1>1, SwitchAssumption DEF SwitchInv, LockInv
  <2>2. \A d \in Calls \ {c} : pc[d] \notin Locked
    BY <1>1 DEF SwitchInv, LockInv
  <2>3. ConfirmRemoval(c) \/ FinishRemoval(c)
    <3>1. result' # result
      BY <2>1
    <3>2. \E d \in Calls : \/ ConfirmChange(d) \/ ConfirmRemoval(d) \/ FinishRemoval(d)
      <4>1. Poll => UNCHANGED result
        BY DEF Poll, callVars
      <4>2. WebEdit => UNCHANGED result
        BY DEF WebEdit, callVars
      <4>3. ASSUME NEW d \in Calls, CallStep(d)
            PROVE  ConfirmChange(d) \/ ConfirmRemoval(d) \/ FinishRemoval(d)
        BY <2>1, <3>1, <4>3
           DEF CallStep, Confirm, Call, Acquire, Write, Retry, GiveUp, Raise, CancelCall,
               Return, callVars
      <4>4. ASSUME NEW n \in Macs, MacStep(n) PROVE FALSE
        BY <2>1, <3>1, <4>4
           DEF MacStep, BeginRemoval, EndRemoval, RemovalFails, Disable, Return, callVars
      <4> QED BY <1>1, <3>1, <4>1, <4>2, <4>3, <4>4 DEF Next, CallStep, MacStep
    <3>3. PICK d \in Calls : ConfirmChange(d) \/ ConfirmRemoval(d) \/ FinishRemoval(d)
      BY <3>2
    <3>4. pc[d] \in Locked
      BY <3>3 DEF ConfirmChange, ConfirmRemoval, FinishRemoval, Locked
    <3> QED BY <2>2, <3>3, <3>4 DEF ConfirmChange
  <2>4. CASE ConfirmRemoval(c)
    <3> DEFINE switches == live \cap req[c].macs
    <3>1. /\ pc[c] = "confirm" /\ \A n \in req[c].macs : table[n] = NoRule
          /\ Gather(c, switches) /\ pcRules' = table
          /\ live' \cap req[c].macs = switches
          /\ switches = {} => \A n \in req[c].macs : registry'[n] = "none"
      BY <1>1, <2>4, RemovalParts
    <3> HIDE DEF switches
    <3>2. switches = {}
      BY <2>1, <3>1 DEF Gather
    <3> QED BY <3>1, <3>2
  <2>5. CASE FinishRemoval(c)
    <3>1. /\ pc[c] = "removing" /\ waits[c] \cap (doomed \cup leaving) = {}
          /\ registry' = [n \in Macs |-> IF n \in req[c].macs THEN "none"
                                         ELSE registry[n]]
          /\ UNCHANGED <<pcRules, live>>
      BY <2>5 DEF FinishRemoval
    <3>2. /\ live \cap req[c].macs \subseteq waits[c] \cap doomed
          /\ \A n \in req[c].macs : pcRules[n] = NoRule
      BY <1>1, <3>1 DEF SwitchInv, RemovingInv
    <3>3. m \in Macs
      BY <1>1, <3>1, SwitchAssumption DEF SwitchInv, TypeOK, Request
    <3> QED BY <3>1, <3>2, <3>3
  <2> QED BY <2>3, <2>4, <2>5
<1>2. SwitchInv /\ [Next]_vars => [Clean]_vars
  BY <1>1
<1>3. Spec => [][Clean]_vars
  <2> HIDE DEF Clean
  <2> QED BY InitSwitches, SwitchStep, <1>2, PTL DEF Spec
<1> QED BY <1>3 DEF RemovedLeavesNothing
=============================================================================
