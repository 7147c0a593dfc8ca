------------------------ MODULE ClientTrackingProofs ------------------------
(***************************************************************************)
(* Proofs about ClientTracking for every set of devices, filter, tasks and  *)
(* lists: its types, that a device's events alternate and agree with its    *)
(* state, and that every client has a tracker that follows it.              *)
(***************************************************************************)
EXTENDS ClientTracking, TLAPS

USE TrackingAssumption DEF Gens, Info, Online, Client, Event, Tasks

\* A task has a list when the answer has arrived.
HasList == \A t \in Tasks : pc[t] = "answered" => answer[t] \in Snapshots

\* Between unloading and set-up the platform is down, and one task reloads it.
Reloading ==
  \A t \in Tasks : pc[t] = "setup" =>
    /\ ~up /\ gen < MaxReloads
    /\ \A u \in Tasks : pc[u] = "setup" => u = t

TypeInv == TypeOK /\ HasList /\ Reloading

-----------------------------------------------------------------------------
\* What update_clients makes of the clients has the type of clients.
LEMMA UpdateTypes ==
  ASSUME NEW cs \in [Macs -> Client \cup {NoClient}], NEW s \in Snapshots
  PROVE  /\ \A m \in Macs : cs[m] # NoClient => Update(cs[m], m, s[m]) \in Client
         /\ Merged(cs, s) \in [Macs -> Client \cup {NoClient}]
         /\ Filtered(Merged(cs, s)) \in [Macs -> Client \cup {NoClient}]
         /\ Events(cs, s) \in [Macs -> Event \cup {"none"}]
<1>1. s \in [Macs -> Info]
  OBVIOUS
<1>2. ASSUME NEW m \in Macs, cs[m] # NoClient
      PROVE  Update(cs[m], m, s[m]) \in Client
  <2>1. cs[m].state \in {"unknown", "connected", "disconnected"}
        /\ cs[m].guest \in BOOLEAN
    BY <1>2
  <2>2. NextState(cs[m], m, s[m]) \in {"unknown", "connected", "disconnected"}
    BY <2>1 DEF NextState, Leaves
  <2>3. (IF s[m] = "absent" THEN cs[m].guest ELSE s[m] = "guest") \in BOOLEAN
    BY <2>1
  <2> QED BY <2>2, <2>3 DEF Update
<1>3. Merged(cs, s) \in [Macs -> Client \cup {NoClient}]
  BY <1>2 DEF Merged
<1>4. Filtered(Merged(cs, s)) \in [Macs -> Client \cup {NoClient}]
  BY <1>3 DEF Filtered
<1>5. Events(cs, s) \in [Macs -> Event \cup {"none"}]
  BY DEF Events, EventOf, Leaves
<1> QED BY <1>2, <1>3, <1>4, <1>5

\* The clients that setup builds from the registry are clients.
LEMMA RegisteredTypes ==
  ASSUME NEW ms \in SUBSET Macs
  PROVE  /\ Registered(ms) \in [Macs -> Client \cup {NoClient}]
         /\ Filtered(Registered(ms)) \in [Macs -> Client \cup {NoClient}]
  BY DEF Registered, Filtered

LEMMA InitTypes == Init => TypeInv
<1> SUFFICES ASSUME Init PROVE TypeInv
  OBVIOUS
<1>1. /\ clients \in [Macs -> Client \cup {NoClient}]
      /\ counted \subseteq Macs /\ guests \subseteq Macs
      /\ fired \in [Macs -> Event \cup {"none"}]
  <2>1. PICK ms \in SUBSET Macs :
          \/ /\ clients = Filtered(Registered(ms))
             /\ counted = {} /\ guests = {}
             /\ fired = NoEvents
          \/ \E s \in Snapshots :
               /\ clients = Filtered(Merged(Registered(ms), s))
               /\ counted = Connected(Merged(Registered(ms), s))
               /\ guests = {m \in Known(Merged(Registered(ms), s)) :
                              Merged(Registered(ms), s)[m].guest}
               /\ fired = Events(Registered(ms), s)
    BY DEF Init
  <2> QED BY <2>1, RegisteredTypes, UpdateTypes DEF Connected, Known, NoEvents
<1>2. TypeOK
  BY <1>1 DEF Init, TypeOK, Known
<1>3. HasList /\ Reloading
  BY DEF Init, HasList, Reloading
<1> QED BY <1>2, <1>3 DEF TypeInv

-----------------------------------------------------------------------------
\* The trackers after update_clients.
LEMMA AddTypes ==
  ASSUME NEW s, TypeOK, clients' \in [Macs -> Client \cup {NoClient}],
         Rebind,
         IF NewClients(clients, s) # {}
         THEN AddEntities ELSE UNCHANGED <<gen, up, tracked, owner>>
  PROVE  /\ UNCHANGED <<gen, up>>
         /\ tracked' \in [Gens -> SUBSET Macs]
         /\ owner' \in [Macs -> Gens \cup {NoTracker}]
         /\ orphaned' \subseteq Macs
  BY DEF TypeOK, Rebind, AddEntities, Known

LEMMA TypeStep == TypeInv /\ [Next]_vars => TypeInv'
<1> SUFFICES ASSUME TypeInv, [Next]_vars PROVE TypeInv'
  OBVIOUS
<1> USE DEF TypeInv
<1>1. ASSUME NEW t \in Timers, Timer(t) PROVE TypeInv'
  BY <1>1 DEF Timer, Goto, TypeOK, HasList, Reloading, trackerVars, NoEvents
<1>2. ASSUME NEW t \in Tasks, Answered(t) PROVE TypeInv'
  <2>1. /\ answer' \in [Tasks -> Snapshots \cup {NoSnapshot}]
        /\ answer'[t] \in Snapshots
        /\ \A u \in Tasks : u # t => answer'[u] = answer[u]
    BY <1>2 DEF Answered, TypeOK
  <2>2. pc' = [pc EXCEPT ![t] = "answered"] /\ fired' = NoEvents
        /\ UNCHANGED <<clients, away, counted, guests, told, trackerVars>>
    BY <1>2 DEF Answered, Goto
  <2>3. TypeOK'
    BY <2>1, <2>2 DEF TypeOK, trackerVars, NoEvents
  <2> QED BY <2>1, <2>2, <2>3 DEF TypeOK, HasList, Reloading, trackerVars
<1>3. ASSUME NEW t \in Tasks, Deliver(t) PROVE TypeInv'
  <2> DEFINE s == answer[t]
             all == Merged(clients, s)
  <2>1. s \in Snapshots /\ pc[t] = "answered"
    BY <1>3 DEF Deliver, HasList
  <2>2. /\ clients' \in [Macs -> Client \cup {NoClient}]
        /\ fired' \in [Macs -> Event \cup {"none"}]
    BY <1>3, <2>1, UpdateTypes DEF Deliver, TypeOK
  <2>3. away' \subseteq Macs /\ counted' \subseteq Macs /\ guests' \subseteq Macs
    BY <1>3 DEF Deliver, TypeOK, Connected, Known
  <2>4. told' \in [Macs -> Event \cup {"none"}]
    BY <1>3, <2>2 DEF Deliver, TypeOK
  <2>5. /\ UNCHANGED <<gen, up>>
        /\ tracked' \in [Gens -> SUBSET Macs]
        /\ owner' \in [Macs -> Gens \cup {NoTracker}]
        /\ orphaned' \subseteq Macs
    BY <1>3, <2>2, AddTypes DEF Deliver
  <2>6. /\ answer' = [answer EXCEPT ![t] = NoSnapshot]
        /\ \/ pc' = [pc EXCEPT ![t] = "unload"]
           \/ pc' = [pc EXCEPT ![t] = "idle"]
    BY <1>3 DEF Deliver, Continue, Goto
  <2>7. TypeOK'
    BY <2>2, <2>3, <2>4, <2>5, <2>6 DEF TypeOK
  <2> QED BY <2>5, <2>6, <2>7 DEF TypeOK, HasList, Reloading
<1>4. ASSUME NEW t \in Tasks, UpdateFails(t) PROVE TypeInv'
  <2>1. /\ answer' = [answer EXCEPT ![t] = NoSnapshot]
        /\ \/ pc' = [pc EXCEPT ![t] = "unload"]
           \/ pc' = [pc EXCEPT ![t] = "idle"]
        /\ fired' = NoEvents
        /\ UNCHANGED <<clients, away, counted, guests, told, trackerVars>>
    BY <1>4 DEF UpdateFails, Continue, Goto
  <2> QED BY <2>1 DEF TypeOK, HasList, Reloading, trackerVars, NoEvents
<1>5. ASSUME NEW ms \in Removals, Forget(ms)
      PROVE  /\ clients' \in [Macs -> Client \cup {NoClient}]
             /\ orphaned' \subseteq Macs
             /\ told' \in [Macs -> Event \cup {"none"}]
             /\ away' \subseteq Macs
             /\ fired' = NoEvents
             /\ UNCHANGED <<counted, guests, gen, up, tracked, owner, answer>>
  BY <1>5 DEF Forget, TypeOK
<1>6. ASSUME NEW t \in Removers, RemoveTrackers(t) PROVE TypeInv'
  <2>1. pc' = [pc EXCEPT ![t] = "asked"]
    BY <1>6 DEF RemoveTrackers, Goto
  <2> QED BY <1>5, <1>6, <2>1
          DEF RemoveTrackers, TypeOK, HasList, Reloading, NoEvents
<1>7. ASSUME NEW t \in Removers, RemoveRaises(t) PROVE TypeInv'
  BY <1>5, <1>7 DEF RemoveRaises, TypeOK, HasList, Reloading, NoEvents
<1>8. ASSUME NEW t \in Removers, Unload(t) PROVE TypeInv'
  BY <1>8 DEF Unload, Goto, TypeOK, HasList, Reloading, NoEvents
<1>9. ASSUME NEW t \in Removers, UnloadFails(t) PROVE TypeInv'
  BY <1>9 DEF UnloadFails, Goto, TypeOK, HasList, Reloading, trackerVars, NoEvents
<1>10. ASSUME NEW t \in Removers, Setup(t) PROVE TypeInv'
  <2>1. gen' = gen + 1 /\ gen' \in Gens /\ up' = TRUE
    BY <1>10 DEF Setup, TypeOK, Reloading
  <2>2. /\ tracked' \in [Gens -> SUBSET Macs]
        /\ owner' \in [Macs -> Gens \cup {NoTracker}]
    BY <1>10, <2>1 DEF Setup, TypeOK, Known
  <2>3. /\ pc' = [pc EXCEPT ![t] = "idle"]
        /\ fired' = NoEvents
        /\ UNCHANGED <<clients, away, counted, guests, told, orphaned, answer>>
    BY <1>10 DEF Setup, Goto
  <2>4. \A u \in Tasks : pc'[u] # "setup"
    BY <1>10, <2>3 DEF Setup, TypeOK, Reloading
  <2> QED BY <2>1, <2>2, <2>3, <2>4 DEF TypeOK, HasList, Reloading, NoEvents
<1>11. ASSUME NEW m \in Macs, Elapse(m) PROVE TypeInv'
  BY <1>11 DEF Elapse, TypeOK, HasList, Reloading, trackerVars, NoEvents
<1>12. CASE UNCHANGED vars
  BY <1>12 DEF vars, clientVars, trackerVars, TypeOK, HasList, Reloading
<1> QED
  BY <1>1, <1>2, <1>3, <1>4, <1>6, <1>7, <1>8, <1>9, <1>10, <1>11, <1>12 DEF Next

\* ClientTracking's variables keep their types, however updates, removals and
\* reloads of the platform interleave.
THEOREM TypeCorrect == Spec => []TypeOK
<1>1. Init => TypeInv
  BY InitTypes
<1>2. TypeInv /\ [Next]_vars => TypeInv'
  BY TypeStep
<1>3. TypeInv => TypeOK
  BY DEF TypeInv
<1> QED BY <1>1, <1>2, <1>3, PTL DEF Spec

-----------------------------------------------------------------------------
(***************************************************************************)
(* Events.                                                                 *)
(***************************************************************************)

\* A history h of last events fits the clients cs: who is not a client has had
\* no event, and the last event was a disconnection exactly for the clients that
\* are disconnected.
Fits(cs, h) ==
  \A m \in Macs :
    IF cs[m] = NoClient THEN h[m] = "none"
    ELSE h[m] = "device_disconnected" <=> cs[m].state = "disconnected"

EventInv == Fits(clients, told) /\ \A m \in Macs \ Kept : clients[m] = NoClient

\* The history after the events e.
After(h, e) == [m \in Macs |-> IF e[m] = "none" THEN h[m] ELSE e[m]]

\* update_clients fires each event only after the one that it may follow, and
\* leaves a history that fits the clients.
LEMMA UpdateFits ==
  ASSUME NEW cs \in [Macs -> Client \cup {NoClient}], NEW s \in Snapshots,
         NEW h \in [Macs -> Event \cup {"none"}],
         Fits(cs, h), \A m \in Macs \ Kept : h[m] = "none"
  PROVE  /\ Fits(Filtered(Merged(cs, s)), After(h, Events(cs, s)))
         /\ \A m \in Macs \ Kept : Filtered(Merged(cs, s))[m] = NoClient
         /\ \A m \in Macs :
              /\ Events(cs, s)[m] = "device_connected" => h[m] = "none"
              /\ Events(cs, s)[m] = "device_reconnected" =>
                   h[m] = "device_disconnected"
              /\ Events(cs, s)[m] = "device_disconnected" =>
                   h[m] # "device_disconnected"
<1> DEFINE e == Events(cs, s)
           f == Filtered(Merged(cs, s))
<1>1. \A m \in Macs \ Kept : e[m] = "none" /\ f[m] = NoClient
  BY DEF Events, Filtered
<1>2. ASSUME NEW m \in Kept, m \in NewClients(cs, s)
      PROVE  /\ cs[m] = NoClient /\ e[m] = "device_connected"
             /\ f[m] # NoClient /\ f[m].state = "connected"
  <2>1. /\ cs[m] = NoClient /\ e[m] = "device_connected"
        /\ f[m] = [state |-> "connected", guest |-> s[m] = "guest"]
    BY <1>2 DEF NewClients, Known, Events, Filtered, Merged
  <2>2. f[m] # NoClient
    <3>1. f[m] \in Client
      BY <2>1
    <3> QED BY <3>1
  <2>3. f[m].state = "connected"
    BY <2>1
  <2> QED BY <2>1, <2>2, <2>3
<1>3. ASSUME NEW m \in Kept, m \notin NewClients(cs, s), cs[m] = NoClient
      PROVE  e[m] = "none" /\ f[m] = NoClient
  BY <1>3 DEF Events, Filtered, Merged
<1>4. ASSUME NEW m \in Kept, cs[m] # NoClient
      PROVE  /\ e[m] = EventOf(cs[m], m, s[m])
             /\ f[m] # NoClient
             /\ f[m].state = NextState(cs[m], m, s[m])
  <2>1. m \notin NewClients(cs, s)
    BY <1>4 DEF NewClients, Known
  <2>2. f[m] = Update(cs[m], m, s[m]) /\ e[m] = EventOf(cs[m], m, s[m])
    BY <1>4, <2>1 DEF Events, Filtered, Merged
  <2>3. Update(cs[m], m, s[m]) \in Client
    BY <1>4, UpdateTypes
  <2> QED BY <2>2, <2>3 DEF Update
<1>5. \A m \in Macs :
        /\ e[m] = "device_connected" => h[m] = "none"
        /\ e[m] = "device_reconnected" => h[m] = "device_disconnected"
        /\ e[m] = "device_disconnected" => h[m] # "device_disconnected"
  BY <1>1, <1>2, <1>3, <1>4 DEF Fits, EventOf, Leaves
<1>6. Fits(f, After(h, e))
  <2> SUFFICES ASSUME NEW m \in Macs
               PROVE  IF f[m] = NoClient THEN After(h, e)[m] = "none"
                      ELSE After(h, e)[m] = "device_disconnected"
                             <=> f[m].state = "disconnected"
    BY DEF Fits
  <2>1. CASE m \notin Kept
    BY <1>1, <2>1 DEF After
  <2>2. CASE m \in Kept /\ m \in NewClients(cs, s)
    BY <1>2, <2>2 DEF After
  <2>3. CASE m \in Kept /\ m \notin NewClients(cs, s) /\ cs[m] = NoClient
    BY <1>3, <2>3 DEF After, Fits
  <2>4. CASE m \in Kept /\ cs[m] # NoClient
    <3>1. /\ e[m] = EventOf(cs[m], m, s[m])
          /\ f[m] # NoClient
          /\ f[m].state = NextState(cs[m], m, s[m])
      BY <1>4, <2>4
    <3>2. h[m] = "device_disconnected" <=> cs[m].state = "disconnected"
      BY <2>4 DEF Fits
    <3>3. After(h, e)[m] = IF e[m] = "none" THEN h[m] ELSE e[m]
      BY DEF After
    <3> QED BY <3>1, <3>2, <3>3 DEF EventOf, NextState, Leaves
  <2> QED BY <2>1, <2>2, <2>3, <2>4
<1> QED BY <1>1, <1>5, <1>6

LEMMA InitEvents == Init => EventInv
<1> SUFFICES ASSUME Init PROVE EventInv
  OBVIOUS
<1>1. PICK ms \in SUBSET Macs :
        \/ clients = Filtered(Registered(ms)) /\ fired = NoEvents
        \/ \E s \in Snapshots :
             /\ clients = Filtered(Merged(Registered(ms), s))
             /\ fired = Events(Registered(ms), s)
  BY DEF Init
<1>2. told = fired
  BY DEF Init
<1>3. CASE clients = Filtered(Registered(ms)) /\ fired = NoEvents
  <2>1. \A m \in Macs :
          \/ clients[m] = NoClient
          \/ m \in Kept /\ clients[m] = [state |-> "unknown", guest |-> FALSE]
    BY <1>3 DEF Filtered, Registered
  <2>2. \A m \in Macs : told[m] = "none"
    BY <1>2, <1>3 DEF NoEvents
  <2> QED BY <2>1, <2>2 DEF EventInv, Fits
<1>4. ASSUME NEW s \in Snapshots,
             clients = Filtered(Merged(Registered(ms), s)),
             fired = Events(Registered(ms), s)
      PROVE  EventInv
  <2>1. /\ NoEvents \in [Macs -> Event \cup {"none"}]
        /\ \A m \in Macs \ Kept : NoEvents[m] = "none"
    BY DEF NoEvents
  <2>2. Fits(Registered(ms), NoEvents)
    <3>1. ASSUME NEW m \in Macs, Registered(ms)[m] # NoClient
          PROVE  Registered(ms)[m].state # "disconnected"
      BY <3>1 DEF Registered
    <3>2. \A m \in Macs : NoEvents[m] = "none"
      BY DEF NoEvents
    <3> QED BY <3>1, <3>2 DEF Fits
  <2>3. told = After(NoEvents, Events(Registered(ms), s))
    <3>1. Events(Registered(ms), s) \in [Macs -> Event \cup {"none"}]
      BY UpdateTypes, RegisteredTypes
    <3>2. After(NoEvents, Events(Registered(ms), s)) = Events(Registered(ms), s)
      BY <3>1 DEF After, NoEvents
    <3> QED BY <1>2, <1>4, <3>2
  <2> QED BY <1>4, <2>1, <2>2, <2>3, UpdateFits, RegisteredTypes DEF EventInv
<1> QED BY <1>1, <1>3, <1>4

\* What may fire: after what a device's event may follow.
MayFire(m, e) ==
  /\ e = "device_connected" => told[m] = "none"
  /\ e = "device_reconnected" => told[m] = "device_disconnected"
  /\ e = "device_disconnected" => told[m] # "device_disconnected"

\* Only an applied list fires events; a removal makes a device new again.
LEMMA EventStep ==
  TypeInv /\ EventInv /\ [Next]_vars =>
    /\ EventInv'
    /\ ~ UNCHANGED vars => \A m \in Macs : MayFire(m, fired'[m])
<1> SUFFICES ASSUME TypeInv, EventInv, [Next]_vars
             PROVE  /\ EventInv'
                    /\ ~ UNCHANGED vars => \A m \in Macs : MayFire(m, fired'[m])
  OBVIOUS
<1>1. ASSUME NEW t \in Tasks, Deliver(t)
      PROVE  EventInv' /\ \A m \in Macs : MayFire(m, fired'[m])
  <2>1. /\ answer[t] \in Snapshots
        /\ clients \in [Macs -> Client \cup {NoClient}]
        /\ told \in [Macs -> Event \cup {"none"}]
    BY <1>1 DEF Deliver, TypeInv, TypeOK, HasList
  <2>2. Fits(clients, told) /\ \A m \in Macs \ Kept : told[m] = "none"
    BY DEF EventInv, Fits
  <2>3. /\ clients' = Filtered(Merged(clients, answer[t]))
        /\ fired' = Events(clients, answer[t])
        /\ told' = After(told, fired')
    BY <1>1 DEF Deliver, After
  <2> QED BY <2>1, <2>2, <2>3, UpdateFits DEF EventInv, MayFire
<1>2. ASSUME NEW ms \in Removals, Forget(ms)
      PROVE  EventInv' /\ \A m \in Macs : MayFire(m, fired'[m])
  <2>1. /\ clients' = [m \in Macs |-> IF m \in ms THEN NoClient ELSE clients[m]]
        /\ told' = [m \in Macs |-> IF m \in ms THEN "none" ELSE told[m]]
        /\ fired' = NoEvents
    BY <1>2 DEF Forget
  <2>2. EventInv'
    BY <2>1 DEF EventInv, Fits
  <2> QED BY <2>1, <2>2 DEF NoEvents, MayFire
<1>3. ASSUME UNCHANGED <<clients, told>>, fired' = NoEvents
      PROVE  EventInv' /\ \A m \in Macs : MayFire(m, fired'[m])
  BY <1>3 DEF EventInv, Fits, NoEvents, MayFire
<1>4. ASSUME NEW t \in Tasks,
             Timer(t) \/ Answered(t) \/ UpdateFails(t) \/ Unload(t)
               \/ UnloadFails(t) \/ Setup(t)
      PROVE  UNCHANGED <<clients, told>> /\ fired' = NoEvents
  BY <1>4 DEF Timer, Answered, UpdateFails, Unload, UnloadFails, Setup
<1>5. ASSUME NEW m \in Macs, Elapse(m)
      PROVE  UNCHANGED <<clients, told>> /\ fired' = NoEvents
  BY <1>5 DEF Elapse
<1>6. ASSUME NEW t \in Removers, RemoveTrackers(t) \/ RemoveRaises(t)
      PROVE  \E ms \in Removals : Forget(ms)
  BY <1>6 DEF RemoveTrackers, RemoveRaises
<1>7. CASE UNCHANGED vars
  BY <1>7 DEF vars, clientVars, EventInv, Fits
<1> QED BY <1>1, <1>2, <1>3, <1>4, <1>5, <1>6, <1>7 DEF Next

\* Every device's events alternate, whatever lists arrive in whatever order: it
\* is announced as connected when it was not tracked, as disconnected once, and
\* as reconnected after that.
THEOREM EventsAlternateAlways == Spec => EventsAlternate
<1>1. Init => TypeInv /\ EventInv
  BY InitTypes, InitEvents
<1>2. TypeInv /\ EventInv /\ [Next]_vars => TypeInv' /\ EventInv'
  BY TypeStep, EventStep
<1>3. TypeInv /\ EventInv /\ [Next]_vars =>
        [\A m \in Macs :
           /\ fired'[m] = "device_connected" => told[m] = "none"
           /\ fired'[m] = "device_reconnected" => told[m] = "device_disconnected"
           /\ fired'[m] = "device_disconnected" =>
                told[m] # "device_disconnected"]_vars
  BY EventStep DEF MayFire
<1> QED BY <1>1, <1>2, <1>3, PTL DEF Spec, EventsAlternate

\* A device's last event and the state of its tracker agree.
THEOREM EventsMatch == Spec => []EventsMatchState
<1>1. Init => TypeInv /\ EventInv
  BY InitTypes, InitEvents
<1>2. TypeInv /\ EventInv /\ [Next]_vars => TypeInv' /\ EventInv'
  BY TypeStep, EventStep
<1>3. EventInv => EventsMatchState
  BY DEF EventInv, Fits, EventsMatchState, Known
<1> QED BY <1>1, <1>2, <1>3, PTL DEF Spec

-----------------------------------------------------------------------------
(***************************************************************************)
(* Trackers.                                                               *)
(***************************************************************************)

\* While the platform is loaded, whatever its callback has tracked has a
\* tracker, not necessarily its own; so has every client, and one that follows.
TrackerInv ==
  /\ up => \A m \in tracked[gen] : owner[m] # NoTracker
  /\ EveryClientTracked
  /\ TrackersCurrent

LEMMA InitTrackers == Init => TrackerInv
  BY DEF Init, TrackerInv, EveryClientTracked, TrackersCurrent, Known

LEMMA TrackerStep ==
  TypeInv /\ TrackerInv /\ [Next]_vars => TrackerInv'
<1> SUFFICES ASSUME TypeInv, TrackerInv, [Next]_vars PROVE TrackerInv'
  OBVIOUS
<1> USE DEF EveryClientTracked, TrackersCurrent
<1>1. ASSUME NEW t \in Tasks, Deliver(t) PROVE TrackerInv'
  <2> DEFINE s == answer[t]
  <2>1. /\ UNCHANGED <<gen, up>>
        /\ orphaned' = orphaned \ Known(clients')
        /\ clients' = Filtered(Merged(clients, s))
        /\ IF NewClients(clients, s) # {}
           THEN AddEntities ELSE UNCHANGED <<gen, up, tracked, owner>>
    BY <1>1 DEF Deliver, Rebind, AddEntities
  <2>2. TrackersCurrent'
    BY <2>1 DEF Known
  <2>3. CASE NewClients(clients, s) = {}
    <3>1. Known(clients') \subseteq Known(clients)
      BY <2>1, <2>3 DEF Known, Filtered, Merged
    <3> QED BY <2>1, <2>2, <2>3, <3>1 DEF TrackerInv
  <2>4. CASE NewClients(clients, s) # {}
    <3> SUFFICES ASSUME up, NEW m \in tracked'[gen] \cup Known(clients')
                 PROVE  owner'[m] # NoTracker
      BY <2>1, <2>2 DEF TrackerInv
    <3>1. /\ gen \in 0 .. MaxReloads /\ m \in Macs
          /\ m \in tracked[gen] \cup Known(clients')
      BY <2>1, <2>4 DEF AddEntities, TypeInv, TypeOK, Known
    <3>2. owner'[m] \in Owners(m)
      BY <2>1, <2>4, <3>1 DEF AddEntities
    <3>3. m \in tracked[gen] => owner[m] # NoTracker
      BY DEF TrackerInv
    <3>4. CASE owner[m] # NoTracker
      BY <3>2, <3>4 DEF Owners
    <3>5. CASE owner[m] = NoTracker
      <4>1. clients'[m] # NoClient /\ gen \in Adders(m)
        BY <3>1, <3>3, <3>5 DEF Known, Adders
      <4>2. owner'[m] \in 0 .. gen
        BY <3>2, <3>5, <4>1 DEF Owners, Adders
      <4> QED BY <3>1, <4>2
    <3> QED BY <3>4, <3>5
  <2> QED BY <2>3, <2>4
<1>2. ASSUME NEW ms \in Removals, Forget(ms) PROVE TrackerInv'
  <2>1. /\ clients' = [m \in Macs |-> IF m \in ms THEN NoClient ELSE clients[m]]
        /\ orphaned' \subseteq orphaned \cup ms
        /\ UNCHANGED <<gen, up, tracked, owner>>
    BY <1>2 DEF Forget
  <2> QED BY <2>1 DEF TrackerInv, Known
<1>3. ASSUME NEW t \in Removers, Unload(t) PROVE TrackerInv'
  BY <1>3 DEF Unload, TrackerInv, Known
<1>4. ASSUME NEW t \in Removers, Setup(t) PROVE TrackerInv'
  <2>1. /\ gen' = gen + 1 /\ gen \in 0 .. MaxReloads /\ gen' \in 0 .. MaxReloads
        /\ tracked'[gen'] = Known(clients)
        /\ owner' = [m \in Macs |-> IF owner[m] = NoTracker /\ clients[m] # NoClient
                                     THEN gen + 1 ELSE owner[m]]
        /\ UNCHANGED <<clients, orphaned>>
    BY <1>4 DEF Setup, TypeInv, TypeOK, Reloading
  <2>2. \A m \in Known(clients) : owner'[m] # NoTracker
    BY <2>1 DEF Known
  <2> QED BY <2>1, <2>2 DEF TrackerInv, Known
<1>5. ASSUME UNCHANGED <<clients, gen, up, tracked, owner, orphaned>>
      PROVE  TrackerInv'
  BY <1>5 DEF TrackerInv, Known
<1>6. ASSUME NEW t \in Tasks,
             Timer(t) \/ Answered(t) \/ UpdateFails(t) \/ UnloadFails(t)
      PROVE  UNCHANGED <<clients, gen, up, tracked, owner, orphaned>>
  BY <1>6 DEF Timer, Answered, UpdateFails, UnloadFails, trackerVars
<1>7. ASSUME NEW m \in Macs, Elapse(m)
      PROVE  UNCHANGED <<clients, gen, up, tracked, owner, orphaned>>
  BY <1>7 DEF Elapse, trackerVars
<1>8. ASSUME NEW t \in Removers, RemoveTrackers(t) \/ RemoveRaises(t)
      PROVE  \E ms \in Removals : Forget(ms)
  BY <1>8 DEF RemoveTrackers, RemoveRaises
<1>9. CASE UNCHANGED vars
  BY <1>5, <1>9 DEF vars, clientVars, trackerVars
<1> QED BY <1>1, <1>2, <1>3, <1>4, <1>5, <1>6, <1>7, <1>8, <1>9 DEF Next

\* Whatever updates and reloads of the platform interleave, every client has a
\* tracker while the platform is loaded, and its tracker follows the client that
\* the router updates.
THEOREM ClientsStayTracked == Spec => [](EveryClientTracked /\ TrackersCurrent)
<1>1. Init => TypeInv /\ TrackerInv
  BY InitTypes, InitTrackers
<1>2. TypeInv /\ TrackerInv /\ [Next]_vars => TypeInv' /\ TrackerInv'
  BY TypeStep, TrackerStep
<1>3. TrackerInv => EveryClientTracked /\ TrackersCurrent
  BY DEF TrackerInv
<1> QED BY <1>1, <1>2, <1>3, PTL DEF Spec
=============================================================================
