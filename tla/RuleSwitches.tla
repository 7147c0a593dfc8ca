---------------------------- MODULE RuleSwitches ----------------------------
(***************************************************************************)
(* The internet-access switches of one router: ClientInternetSwitch, the    *)
(* set-up that adds them when rules appear, and the removal of switches by  *)
(* the rule writer, which awaits it under the rule lock.                    *)
(*                                                                          *)
(* The writer and the poll are those of ParentalControl, reduced to what    *)
(* the switches see of them: when the lock is held, which tables are        *)
(* stored, and how a call ends.  A rule is its type; names and schedules    *)
(* are left out.  Home Assistant adds an entity at once (its tasks start    *)
(* eagerly) and starts the awaited removals in a later iteration.           *)
(***************************************************************************)
EXTENDS FiniteSets

CONSTANTS
  Macs,       \* the devices that may have a rule
  Types,      \* the types of rules
  NoRule,     \* the device has no rule
  Calls,      \* tasks that change rules: toggles and service calls
  NoCall,     \* the rule lock is free
  Requests,   \* the arguments of calls
  NoRequest,  \* the task is in no call
  InitTables, \* the router's tables when the integration starts
  WebRules    \* what the router's own web UI makes of a device's rule

Tables  == [Macs -> Types \cup {NoRule}]
Request == [state : Types \cup {"remove"}, macs : SUBSET Macs]

ASSUME SwitchAssumption ==
  /\ NoRule \notin Types
  /\ "remove" \notin Types
  /\ NoCall \notin Calls
  /\ NoRequest \notin Request
  /\ Requests \subseteq Request
  /\ InitTables \subseteq Tables
  /\ WebRules \subseteq Types \cup {NoRule}

VARIABLES
  table,     \* the router's rules
  pcRules,   \* ARDevice._pc_rules
  holder,    \* the call that holds ARDevice._pc_rule_lock
  pc,        \* the await at which each call is suspended
  req,       \* the arguments of each call
  result,    \* how the call that last held the lock ended
  waits,     \* the switches whose removal each call awaits (asyncio.gather)
  live,      \* the switches on the platform
  tracked,   \* the set `tracked` of the platform's set-up
  registry,  \* each switch's entry in the entity registry
  rule,      \* the `_rule` of each switch on the platform, NoRule for the others
  doomed,    \* switches whose removal is scheduled
  leaving,   \* switches that left the platform, in async_will_remove_from_hass
  orphaned   \* history: switches whose removal its caller no longer awaits

callVars == <<holder, pc, req, result, waits>>
switchVars == <<live, tracked, registry, rule>>
removalVars == <<doomed, leaving, orphaned>>
vars == <<table, pcRules, callVars, switchVars, removalVars>>

Locked == {"write", "confirm", "removing"}

\* Every variable has its type.
TypeOK ==
  /\ table \in Tables
  /\ pcRules \in Tables
  /\ holder \in Calls \cup {NoCall}
  /\ pc \in [Calls -> {"idle", "queued"} \cup Locked]
  /\ req \in [Calls -> Requests \cup {NoRequest}]
  /\ \A c \in Calls : pc[c] # "idle" => req[c] \in Requests
  /\ result \in {"none", "ok", "failed"}
  /\ waits \in [Calls -> SUBSET Macs]
  /\ live \subseteq Macs
  /\ tracked \subseteq Macs
  /\ registry \in [Macs -> {"none", "enabled", "disabled"}]
  /\ rule \in Tables
  /\ doomed \subseteq Macs
  /\ leaving \subseteq Macs
  /\ orphaned \subseteq Macs

-----------------------------------------------------------------------------
Ruled(t) == {m \in Macs : t[m] # NoRule}
NoRules  == [m \in Macs |-> NoRule]

\* Mutant of Updated: a removal is written like any other state.
RemovalWritten(t, r) == [m \in Macs |-> IF m \in r.macs THEN r.state ELSE t[m]]

\* The table that a request asks for.
Updated(t, r) ==
  [m \in Macs |-> IF m \notin r.macs THEN t[m]
                  ELSE IF r.state = "remove" THEN NoRule ELSE r.state]

Matches(t, r) == t = Updated(t, r)

\* The switches that add_entities makes for a table.  Home Assistant refuses
\* one that is disabled in the registry or already on the platform, and the
\* refusal discards it from `tracked`.
Added(t) == {m \in Ruled(t) \ tracked : registry[m] # "disabled" /\ m \notin live}

\* Mutant of Follows: only switches that are new take the rule.
FollowsOnce(t, new) ==
  [m \in Macs |-> IF m \in new THEN t[m] ELSE rule[m]]

\* async_on_demand_update of the switches on the platform, and new switches.
Follows(t, new) ==
  [m \in Macs |-> IF m \in (live \cup new) \cap Ruled(t) THEN t[m] ELSE rule[m]]

\* update_pc_rules stores a table and signals the switches, within one step.
\* The writer also removes the registry entries in `cleared` and schedules the
\* removal of the switches in `called`; neither has a rule in the table.
StoreAnd(t, cleared, called) ==
  LET new == IF Ruled(t) = Ruled(pcRules) THEN {} ELSE Added(t) IN
  /\ pcRules' = t
  /\ live' = live \cup new
  /\ tracked' = tracked \cup new
  /\ rule' = Follows(t, new)
  /\ registry' = [m \in Macs |-> IF m \in new THEN "enabled"
                                 ELSE IF m \in cleared THEN "none" ELSE registry[m]]
  /\ doomed' = doomed \cup called
  /\ orphaned' = orphaned \ (new \ (doomed \cup leaving))
  /\ UNCHANGED leaving

Store(t) == StoreAnd(t, {}, {})

\* The first read of the rules may fail; the platform is set up afterwards.
Init ==
  /\ table \in InitTables
  /\ pcRules \in {table, NoRules}
  /\ holder = NoCall
  /\ pc = [c \in Calls |-> "idle"]
  /\ req = [c \in Calls |-> NoRequest]
  /\ result = "none"
  /\ waits = [c \in Calls |-> {}]
  /\ \E entries \in [Macs -> {"none", "enabled", "disabled"}] :
       /\ live = {m \in Ruled(pcRules) : entries[m] # "disabled"}
       /\ registry = [m \in Macs |-> IF m \in live THEN "enabled" ELSE entries[m]]
  /\ tracked = live
  /\ rule = [m \in Macs |-> IF m \in live THEN pcRules[m] ELSE NoRule]
  /\ doomed = {}
  /\ leaving = {}
  /\ orphaned = {}

\* A toggle (_set_state) or a service call.  The switch of a toggle may be gone
\* by the time that the call holds the lock.
Call(c, r) ==
  /\ pc[c] = "idle"
  /\ pc' = [pc EXCEPT ![c] = "queued"]
  /\ req' = [req EXCEPT ![c] = r]
  /\ UNCHANGED <<table, pcRules, holder, result, waits, switchVars, removalVars>>

Acquire(c) ==
  /\ pc[c] = "queued"
  /\ holder = NoCall
  /\ holder' = c
  /\ pc' = [pc EXCEPT ![c] = "write"]
  /\ result' = "none"
  /\ UNCHANGED <<table, pcRules, req, waits, switchVars, removalVars>>

\* The call ends and leaves the lock.
Return(c, how) ==
  /\ holder' = NoCall
  /\ pc' = [pc EXCEPT ![c] = "idle"]
  /\ result' = how
  /\ waits' = [waits EXCEPT ![c] = {}]
  /\ req' = [req EXCEPT ![c] = NoRequest]

\* async_pc_rule returns; the router may ignore the write.
Write(c) ==
  /\ pc[c] = "write"
  /\ pc' = [pc EXCEPT ![c] = "confirm"]
  /\ table' \in {table, Updated(table, req[c])}
  /\ UNCHANGED <<pcRules, holder, req, result, waits, switchVars, removalVars>>

\* A forced read is stored, but the request does not hold in it, or a row that
\* was kept is missing: there is another attempt, or the call fails.
Retry(c) ==
  /\ pc[c] = "confirm"
  /\ Store(table)
  /\ UNCHANGED <<table, callVars>>

GiveUp(c) ==
  /\ pc[c] = "confirm"
  /\ Store(table)
  /\ Return(c, "failed")
  /\ UNCHANGED table

ConfirmChange(c) ==
  /\ pc[c] = "confirm"
  /\ req[c].state # "remove"
  /\ Matches(table, req[c])
  /\ Store(table)
  /\ Return(c, "ok")
  /\ UNCHANGED table

\* Mutant of Gather: the removals are not awaited.
GatherLater(c, switches) == Return(c, "ok")

\* asyncio.gather over the removals of `switches`, if there are any.
Gather(c, switches) ==
  IF switches = {} THEN Return(c, "ok")
  ELSE /\ pc' = [pc EXCEPT ![c] = "removing"]
       /\ waits' = [waits EXCEPT ![c] = switches]
       /\ UNCHANGED <<holder, req, result>>

\* A removal is confirmed.  Every switch that hears signal_pc_rules_removed has
\* its removal awaited; without one, the registry is cleared at once.
ConfirmRemoval(c) ==
  LET macs == req[c].macs
      switches == live \cap macs IN
  /\ pc[c] = "confirm"
  /\ req[c].state = "remove"
  /\ Matches(table, req[c])
  /\ StoreAnd(table, IF switches = {} THEN macs ELSE {}, switches)
  /\ Gather(c, switches)
  /\ UNCHANGED table

\* Mutant of Discarded: a switch that left the platform stays in `tracked`.
NeverDiscarded(m) == {}

\* What a switch's on-remove callbacks take from `tracked`.
Discarded(m) == {m}

\* Entity.async_remove runs the on-remove callbacks first: a switch leaves the
\* platform's maps, and the set `tracked`.
Leave(m) ==
  /\ live' = live \ {m}
  /\ tracked' = IF m \in live THEN tracked \ Discarded(m) ELSE tracked
  /\ rule' = [rule EXCEPT ![m] = NoRule]

\* A scheduled removal starts.
BeginRemoval(m) ==
  /\ m \in doomed
  /\ doomed' = doomed \ {m}
  /\ leaving' = leaving \cup {m}
  /\ Leave(m)
  /\ UNCHANGED <<table, pcRules, callVars, registry, orphaned>>

\* Mutant of EndRemoval: the end of a removal needs the rule lock.
EndRemovalLocked(m) ==
  /\ m \in leaving
  /\ holder = NoCall
  /\ leaving' = leaving \ {m}
  /\ registry' = [registry EXCEPT ![m] = "none"]
  /\ Leave(m)
  /\ UNCHANGED <<table, pcRules, callVars, doomed, orphaned>>

\* The switch's registry entry is removed.  A switch that has been added under
\* the same entry since goes with it.
EndRemoval(m) ==
  /\ m \in leaving
  /\ leaving' = leaving \ {m}
  /\ registry' = [registry EXCEPT ![m] = "none"]
  /\ Leave(m)
  /\ UNCHANGED <<table, pcRules, callVars, doomed, orphaned>>

\* A removal raises.  gather passes the exception on at once, and the call
\* leaves the lock: nobody awaits the other removals any more.
RemovalFails(m) ==
  /\ m \in leaving
  /\ leaving' = leaving \ {m}
  /\ \/ /\ \A c \in Calls : m \notin waits[c]
        /\ UNCHANGED <<callVars, orphaned>>
     \/ \E c \in Calls :
          /\ m \in waits[c]
          /\ orphaned' = orphaned \cup ((waits[c] \ {m}) \cap (doomed \cup leaving))
          /\ Return(c, "failed")
  /\ UNCHANGED <<table, pcRules, switchVars, doomed>>

\* Mutant of FinishRemoval: entries of disabled switches are kept.
FinishLiveOnly(c) ==
  /\ pc[c] = "removing"
  /\ waits[c] \cap (doomed \cup leaving) = {}
  /\ Return(c, "ok")
  /\ UNCHANGED <<table, pcRules, switchVars, removalVars>>

\* The removals are over; entries of disabled switches are removed as well.
FinishRemoval(c) ==
  /\ pc[c] = "removing"
  /\ waits[c] \cap (doomed \cup leaving) = {}
  /\ registry' = [m \in Macs |-> IF m \in req[c].macs THEN "none" ELSE registry[m]]
  /\ Return(c, "ok")
  /\ UNCHANGED <<table, pcRules, live, tracked, rule, removalVars>>

\* The library raises.
Raise(c) ==
  /\ pc[c] \in {"write", "confirm"}
  /\ Return(c, "failed")
  /\ UNCHANGED <<table, pcRules, switchVars, removalVars>>

\* The caller is cancelled, and the removals that it awaits with it.
CancelCall(c) ==
  /\ pc[c] = "removing"
  /\ doomed' = doomed \ waits[c]
  /\ leaving' = leaving \ waits[c]
  /\ Return(c, "failed")
  /\ UNCHANGED <<table, pcRules, switchVars, orphaned>>

\* update_pc_rules of the timer; it reads under the lock.
Poll ==
  /\ holder = NoCall
  /\ Store(table)
  /\ UNCHANGED <<table, callVars>>

\* The router's web UI.
WebEdit ==
  /\ \E m \in Macs, r \in WebRules : table' = [table EXCEPT ![m] = r]
  /\ UNCHANGED <<pcRules, callVars, switchVars, removalVars>>

\* A user disables a switch; Home Assistant removes it from the platform.
Disable(m) ==
  /\ m \in live
  /\ registry' = [registry EXCEPT ![m] = "disabled"]
  /\ Leave(m)
  /\ UNCHANGED <<table, pcRules, callVars, removalVars>>

Confirm(c) == GiveUp(c) \/ ConfirmChange(c) \/ ConfirmRemoval(c)

Next ==
  \/ \E c \in Calls :
       \/ \E r \in Requests : Call(c, r)
       \/ Acquire(c) \/ Write(c) \/ Retry(c) \/ Confirm(c)
       \/ FinishRemoval(c) \/ Raise(c) \/ CancelCall(c)
  \/ \E m \in Macs : BeginRemoval(m) \/ EndRemoval(m) \/ RemovalFails(m) \/ Disable(m)
  \/ Poll
  \/ WebEdit

Spec == Init /\ [][Next]_vars

\* The event loop runs what is ready, the number of attempts is bounded, and
\* asyncio.Lock wakes its waiters first come, first served.
Fairness ==
  /\ \A c \in Calls : /\ SF_vars(Acquire(c))
                      /\ WF_vars(Write(c))
                      /\ WF_vars(Confirm(c))
                      /\ WF_vars(FinishRemoval(c))
  /\ \A m \in Macs : WF_vars(BeginRemoval(m)) /\ WF_vars(EndRemoval(m))

FairSpec == Spec /\ Fairness

-----------------------------------------------------------------------------
(* Properties *)

\* A switch whose removal is under way is awaited by the call that holds the
\* lock ("Finish entity removal before releasing the rule writer lock"), unless
\* another removal of that call failed.
RemovalsUnderLock ==
  \A m \in (doomed \cup leaving) \ orphaned :
    \E c \in Calls : holder = c /\ pc[c] = "removing" /\ m \in waits[c]

\* A rule that the integration knows has its switch: one that is added again
\* while an old switch is being removed is neither refused as a duplicate nor
\* taken away when the old one's registry entry is removed.  It may be for a
\* removal that its call has left behind.
EveryRuleHasSwitch ==
  \A m \in Ruled(pcRules) :
    m \in live \/ registry[m] = "disabled" \/ m \in orphaned

\* A switch shows the rule that the integration knows, through every table that
\* was stored, confirmed or not.
SwitchShowsRule == \A m \in live \cap Ruled(pcRules) : rule[m] = pcRules[m]

\* A removal that succeeds leaves neither rule nor switch nor registry entry,
\* disabled switches included.
RemovedLeavesNothing ==
  [][\A c \in Calls :
       holder = c /\ result' = "ok" /\ req[c].state = "remove" =>
         \A m \in req[c].macs :
           pcRules'[m] = NoRule /\ m \notin live' /\ registry'[m] = "none"]_vars

\* Every call ends, also one that awaits the removal of switches under the lock.
EveryCallReturns == \A c \in Calls : pc[c] = "queued" ~> pc[c] = "idle"
=============================================================================
