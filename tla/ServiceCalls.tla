---------------------------- MODULE ServiceCalls ----------------------------
(***************************************************************************)
(* The service actions of the integration: how a call finds the routers of  *)
(* its targets, the loop of device_internet_access over routers, the loop   *)
(* of reserve_current_ip over targets, and the actions on one entry's       *)
(* static leases, while entries are set up and unloaded underneath.         *)
(*                                                                          *)
(* A router object (ARDevice) is an entry and the number of its set-up; a   *)
(* call keeps the objects that it has resolved.  What a router does under   *)
(* its locks is in ParentalControl and StaticDhcp; here it is a change that *)
(* takes place or not, and then a return or an exception.                   *)
(***************************************************************************)
EXTENDS Naturals

CONSTANTS
  Entries,    \* config entries
  RouterMode, \* those in router mode
  Entities,   \* entities that calls may name
  Home,       \* the entry that each tracker is tied to, NoEntry for others
  NoEntry,    \* no config entry
  Calls,      \* service calls
  Requests,   \* their data
  NoRequest,  \* the call has not been made
  NoObject,   \* no router object
  NoCall,     \* the lock is free
  Knowledge,  \* what may be known of each entity
  MaxSetups   \* bound: how often each entry is set up

Objects  == UNION {{e} \X (1 .. MaxSetups[e]) : e \in Entries}
Locks    == Objects \X {"rules", "leases"}
Devices  == {"devices"}             \* the direct device list of a call
Targets  == Entities \cup Devices
NoName   == "none"
Names    == Entries \cup {"unknown", NoName}

\* Not registered as an AsusRouter tracker; registered, with no MAC address; with it;
\* with an IP address, too.
Known == {"none", "tracker", "mac", "address"}

\* `entry` is config_entry_id; `devices` tells whether there is a direct list.
Request ==
  [action : {"access", "reserve", "lease"}, named : SUBSET Entities,
   area : SUBSET Entities, devices : BOOLEAN, entry : Entries \cup {NoEntry}]

ASSUME ServiceAssumption ==
  /\ RouterMode \subseteq Entries
  /\ NoEntry \notin Entries
  /\ Home \in [Entities -> Entries \cup {NoEntry}]
  /\ Requests \subseteq Request
  /\ NoRequest \notin Request
  /\ NoObject \notin Objects
  /\ NoCall \notin Calls
  /\ Knowledge \in [Entities -> SUBSET Known]
  /\ MaxSetups \in [Entries -> Nat \ {0}]
  /\ Entries \cap {"unknown", NoName} = {}

VARIABLES
  loaded,  \* hass.data[DOMAIN][entry][ASUSROUTER]
  setups,  \* how often each entry has been set up
  data,    \* what registry, state and client cache know of each entity
  holder,  \* the call that holds each lock of each router object
  pc,      \* the await at which each call is suspended
  req,     \* the data of each call
  group,   \* router_devices: the targets of each router object
  todo,    \* the router objects or, for reserve_current_ip, the entities that
           \* are still to come in the loop
  at,      \* the router object that the call is at
  target,  \* the targets that it changes there
  written, \* history: the targets whose change a router has taken
  done,    \* history: the targets whose change a router has confirmed
  good,    \* the router objects whose change succeeded
  bad,     \* the router objects whose change failed
  named,   \* router_name of each router object that the loop has reached
  result   \* how each call ended

entryVars == <<loaded, setups, data>>
callVars  == <<pc, req, group, todo, at, target, good, bad, named, result>>
vars == <<entryVars, holder, callVars, written, done>>

\* Every variable has its type.
TypeOK ==
  /\ loaded \in [Entries -> Objects \cup {NoObject}]
  /\ \A e \in Entries : loaded[e] # NoObject => loaded[e] = <<e, setups[e]>>
  /\ setups \in [Entries -> Nat]
  /\ \A e \in Entries : setups[e] \in 1 .. MaxSetups[e]
  /\ data \in [Entities -> Known]
  /\ holder \in [Locks -> Calls \cup {NoCall}]
  /\ pc \in [Calls -> {"new", "queued", "working", "returned"}]
  /\ req \in [Calls -> Requests \cup {NoRequest}]
  /\ \A c \in Calls : pc[c] # "new" => req[c] \in Requests
  /\ group \in [Calls -> [Objects -> SUBSET Targets]]
  /\ todo \in [Calls -> SUBSET (Objects \cup Entities)]
  /\ at \in [Calls -> Objects \cup {NoObject}]
  /\ \A c \in Calls : pc[c] \in {"queued", "working"} => at[c] # NoObject
  /\ target \in [Calls -> SUBSET Targets]
  /\ written \in [Calls -> SUBSET Targets]
  /\ done \in [Calls -> SUBSET Targets]
  /\ good \in [Calls -> SUBSET Objects]
  /\ bad \in [Calls -> SUBSET Objects]
  /\ named \in [Calls -> [Objects -> Names]]
  /\ result \in [Calls -> {"none", "ok", "invalid", "failed", "aborted"}]

-----------------------------------------------------------------------------
(* Targets *)

\* _get_entity_ids: what is found through an area, a device or a label counts
\* only if it is registered as one of our trackers.
EntityIds(r) == r.named \cup {x \in r.area : data[x] # "none"}

\* Mutant of Serves: the entry need not be loaded.
AnyLoaded(e) == e \in RouterMode

\* _get_router and _require_router_mode.
Serves(e) == e \in RouterMode /\ loaded[e] # NoObject

\* _device_tracker_entity_data does not raise.
IsTracker(x) == data[x] \in {"mac", "address"} /\ Home[x] # NoEntry /\ Serves(Home[x])

\* _client_entity_data does not raise.
HasAddress(x) == IsTracker(x) /\ data[x] = "address"

\* _direct_device_router: the entry that is named, or the only one there is.
DirectEntries(r) ==
  IF r.entry # NoEntry THEN {e \in {r.entry} : Serves(e)}
  ELSE {e \in Entries : Serves(e) /\ \A f \in Entries : Serves(f) => f = e}

\* _internet_access_targets does not raise.
Resolves(r) ==
  /\ \A x \in EntityIds(r) : IsTracker(x)
  /\ r.devices => DirectEntries(r) # {}
  /\ EntityIds(r) # {} \/ r.devices

\* Mutant of Grouped: the direct list replaces the trackers of its router.
DirectReplaces(r) ==
  [o \in Objects |->
     IF loaded[o[1]] # o THEN {}
     ELSE IF r.devices /\ o[1] \in DirectEntries(r) THEN Devices
     ELSE {x \in EntityIds(r) : Home[x] = o[1]}]

\* The targets by router object.
Grouped(r) ==
  [o \in Objects |->
     IF loaded[o[1]] # o THEN {}
     ELSE {x \in EntityIds(r) : Home[x] = o[1]}
          \cup (IF r.devices /\ o[1] \in DirectEntries(r) THEN Devices ELSE {})]

\* _router_service_name.
RouterName(o) == IF loaded[o[1]] = o THEN o[1] ELSE "unknown"

Lock(c) ==
  <<at[c], IF req[c].action = "access" THEN "rules" ELSE "leases">>

-----------------------------------------------------------------------------
\* Every entry has been set up once, or tried to.
Init ==
  /\ loaded \in [Entries -> Objects \cup {NoObject}]
  /\ \A e \in Entries : loaded[e] \in {<<e, 1>>, NoObject}
  /\ setups = [e \in Entries |-> 1]
  /\ data \in {d \in [Entities -> Known] : \A x \in Entities : d[x] \in Knowledge[x]}
  /\ holder = [l \in Locks |-> NoCall]
  /\ pc = [c \in Calls |-> "new"]
  /\ req = [c \in Calls |-> NoRequest]
  /\ group = [c \in Calls |-> [o \in Objects |-> {}]]
  /\ todo = [c \in Calls |-> {}]
  /\ at = [c \in Calls |-> NoObject]
  /\ target = [c \in Calls |-> {}]
  /\ written = [c \in Calls |-> {}]
  /\ done = [c \in Calls |-> {}]
  /\ good = [c \in Calls |-> {}]
  /\ bad = [c \in Calls |-> {}]
  /\ named = [c \in Calls |-> [o \in Objects |-> NoName]]
  /\ result = [c \in Calls |-> "none"]

\* async_setup_entry and async_unload_entry, which no call waits for.
SetUp(e) ==
  /\ loaded[e] = NoObject
  /\ setups[e] < MaxSetups[e]
  /\ setups' = [setups EXCEPT ![e] = @ + 1]
  /\ loaded' = [loaded EXCEPT ![e] = <<e, setups[e] + 1>>]
  /\ UNCHANGED <<data, holder, callVars, written, done>>

Unload(e) ==
  /\ loaded[e] # NoObject
  /\ loaded' = [loaded EXCEPT ![e] = NoObject]
  /\ UNCHANGED <<setups, data, holder, callVars, written, done>>

\* An entity is removed or registered, or its client's address is lost or found.
EntityChanges(x) ==
  /\ \E d \in Knowledge[x] \ {data[x]} : data' = [data EXCEPT ![x] = d]
  /\ UNCHANGED <<loaded, setups, holder, callVars, written, done>>

\* The call ends.
Return(c, how) ==
  /\ pc' = [pc EXCEPT ![c] = "returned"]
  /\ result' = [result EXCEPT ![c] = how]
  /\ at' = [at EXCEPT ![c] = NoObject]
  /\ target' = [target EXCEPT ![c] = {}]
  /\ todo' = [todo EXCEPT ![c] = {}]
  /\ UNCHANGED named

\* The call waits for the lock of object o, to change targets xs there.
Enter(c, o, xs, rest) ==
  /\ pc' = [pc EXCEPT ![c] = "queued"]
  /\ at' = [at EXCEPT ![c] = o]
  /\ target' = [target EXCEPT ![c] = xs]
  /\ todo' = [todo EXCEPT ![c] = rest]
  /\ named' = [named EXCEPT ![c][o] = RouterName(o)]
  /\ UNCHANGED result

\* The loop of _async_device_internet_access goes on, with the routers of
\* `fail` in its list `failed`.
NextRouter(c, by, rest, fail) ==
  IF rest = {} THEN Return(c, IF fail = {} THEN "ok" ELSE "failed")
  ELSE \E o \in rest : Enter(c, o, by[o], rest \ {o})

\* The loop of async_reserve_current_ip goes on.
NextTarget(c, rest) ==
  IF rest = {} THEN Return(c, "ok")
  ELSE \E x \in rest : IF HasAddress(x)
                       THEN Enter(c, loaded[Home[x]], {x}, rest \ {x})
                       ELSE Return(c, "invalid")

Made(c, r) ==
  /\ pc[c] = "new"
  /\ req' = [req EXCEPT ![c] = r]
  /\ UNCHANGED <<entryVars, holder, written, done, good, bad>>

\* device_internet_access.
Access(c, r) ==
  LET by == Grouped(r) IN
  /\ r.action = "access"
  /\ Made(c, r)
  /\ IF Resolves(r)
     THEN /\ group' = [group EXCEPT ![c] = by]
          /\ NextRouter(c, by, {o \in Objects : by[o] # {}}, {})
     ELSE Return(c, "invalid") /\ UNCHANGED group

\* reserve_current_ip.
Reserve(c, r) ==
  /\ r.action = "reserve"
  /\ Made(c, r)
  /\ NextTarget(c, EntityIds(r))
  /\ UNCHANGED group

\* set_static_dhcp_lease, remove_static_dhcp_lease, refresh_static_dhcp_leases.
Lease(c, r) ==
  /\ r.action = "lease"
  /\ Made(c, r)
  /\ IF Serves(r.entry) THEN Enter(c, loaded[r.entry], Devices, {})
     ELSE Return(c, "invalid")
  /\ UNCHANGED group

-----------------------------------------------------------------------------
(* The work on one router *)

Acquire(c) ==
  /\ pc[c] = "queued"
  /\ holder[Lock(c)] = NoCall
  /\ holder' = [holder EXCEPT ![Lock(c)] = c]
  /\ pc' = [pc EXCEPT ![c] = "working"]
  /\ UNCHANGED <<entryVars, req, group, todo, at, target, good, bad, named, result,
                 written, done>>

\* Mutant of Release: a call keeps its locks until it returns.
ReleaseLast(c) ==
  holder' = [l \in Locks |-> IF holder[l] = c /\ pc'[c] = "returned" THEN NoCall
                             ELSE holder[l]]

Release(c) ==
  holder' = [l \in Locks |-> IF holder[l] = c THEN NoCall ELSE holder[l]]

\* The router takes the change of the targets.
Taken(c) == written' = [written EXCEPT ![c] = @ \cup target[c]]

\* The change is made and read back.
Confirmed(c) ==
  /\ pc[c] = "working"
  /\ Taken(c)
  /\ done' = [done EXCEPT ![c] = @ \cup target[c]]
  /\ \/ /\ req[c].action = "access"
        /\ good' = [good EXCEPT ![c] = @ \cup {at[c]}]
        /\ NextRouter(c, group[c], todo[c], bad[c])
     \/ req[c].action = "reserve" /\ NextTarget(c, todo[c]) /\ UNCHANGED good
     \/ req[c].action = "lease" /\ Return(c, "ok") /\ UNCHANGED good
  /\ Release(c)
  /\ UNCHANGED <<entryVars, req, group, bad>>

\* Mutant of RouterFailed: the first failure ends the loop.
StopsAtFailure(c) ==
  /\ bad' = [bad EXCEPT ![c] = @ \cup {at[c]}]
  /\ Return(c, "failed")

\* A router's exception is collected, and the loop goes on.
RouterFailed(c) ==
  LET fail == bad[c] \cup {at[c]} IN
  /\ bad' = [bad EXCEPT ![c] = fail]
  /\ NextRouter(c, group[c], todo[c], fail)

\* Mutant of OneRouter: a refusal is always passed on.
AnyNumber(c) == TRUE

\* len(router_devices) == 1.
OneRouter(c) == \E o \in Objects : {p \in Objects : group[c][p] # {}} = {o}

\* ServiceValidationError, before anything is written or when it is read back: there
\* a row with a malformed address raises it.
Refused(c) ==
  /\ pc[c] = "working"
  /\ \/ req[c].action # "access" /\ Return(c, "invalid") /\ UNCHANGED bad
     \/ req[c].action = "access" /\ OneRouter(c) /\ Return(c, "invalid") /\ UNCHANGED bad
     \/ req[c].action = "access" /\ ~OneRouter(c) /\ RouterFailed(c)
  /\ Taken(c) \/ UNCHANGED written
  /\ Release(c)
  /\ UNCHANGED <<entryVars, req, group, good, done>>

\* HomeAssistantError, AsusRouterError or OSError; the change may be made.
Failed(c) ==
  /\ pc[c] = "working"
  /\ \/ req[c].action = "access" /\ RouterFailed(c)
     \/ req[c].action # "access" /\ Return(c, "failed") /\ UNCHANGED bad
  /\ Taken(c) \/ UNCHANGED written
  /\ Release(c)
  /\ UNCHANGED <<entryVars, req, group, good, done>>

\* Cancelled, or an exception of another type.
Aborted(c) ==
  /\ pc[c] \in {"queued", "working"}
  /\ Return(c, "aborted")
  /\ (pc[c] = "working" /\ Taken(c)) \/ UNCHANGED written
  /\ Release(c)
  /\ UNCHANGED <<entryVars, req, group, good, bad, done>>

Ends(c) == Confirmed(c) \/ Failed(c)

Next ==
  \/ \E e \in Entries : SetUp(e) \/ Unload(e)
  \/ \E x \in Entities : EntityChanges(x)
  \/ \E c \in Calls :
       \/ \E r \in Requests : Access(c, r) \/ Reserve(c, r) \/ Lease(c, r)
       \/ Acquire(c) \/ Refused(c) \/ Ends(c) \/ Aborted(c)

Spec == Init /\ [][Next]_vars

\* asyncio.Lock wakes its waiters first come, first served; what runs under a
\* lock ends, since every wait in it has an end.
Fairness == \A c \in Calls : SF_vars(Acquire(c)) /\ WF_vars(Ends(c))

FairSpec == Spec /\ Fairness

-----------------------------------------------------------------------------
(* Properties *)

Is(c, action) == pc[c] # "new" /\ req[c].action = action

\* A call that reports success has changed every target that it named, whatever
\* was unloaded, removed or lost while it was under way (services.py:451-474 and
\* 507-515).
OkMeansDone ==
  \A c \in Calls : result[c] = "ok" /\ req[c].action # "lease" =>
    /\ req[c].named \subseteq done[c]
    /\ req[c].action = "access" /\ req[c].devices => Devices \subseteq done[c]

\* "A service call spanning several routers now finishes every router and reports
\* which succeeded and which failed": in such a report every router appears once,
\* on the side that tells what became of its targets, and by its entry unless
\* that was unloaded.
ReportIsTrue ==
  \A c \in Calls : Is(c, "access") /\ result[c] \in {"ok", "failed"} =>
    /\ good[c] \cap bad[c] = {}
    /\ \A o \in Objects : group[c][o] # {} =>
         /\ o \in good[c] \cup bad[c]
         /\ o \in good[c] => group[c][o] \subseteq done[c]
         /\ loaded[o[1]] = o => named[c][o] = o[1]

\* A call on device access that spans several routers is never rejected as invalid
\* half-way: its targets are resolved before the first write, and the refusal of one
\* router among several is reported as that router's failure.  Where there is only one,
\* its refusal is passed on, even one that comes after its write; nothing was confirmed.
NoPartialRejection ==
  \A c \in Calls : Is(c, "access") /\ result[c] = "invalid" =>
    /\ done[c] = {}
    /\ written[c] # {} =>
         \A o, p \in Objects : group[c][o] # {} /\ group[c][p] # {} => o = p

\* No call waits for ever: calls that span the same routers in opposite orders
\* do not lock each other out.
EveryCallReturns == \A c \in Calls : pc[c] = "queued" ~> pc[c] = "returned"
=============================================================================
