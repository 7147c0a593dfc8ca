--------------------------- MODULE ClientTracking ---------------------------
(***************************************************************************)
(* The clients of one router: ARDevice.update_clients and ARClient.update,  *)
(* the events that they fire, remove_trackers, and the device trackers that *)
(* Home Assistant shows for the clients.                                    *)
(*                                                                          *)
(* The device_tracker platform is set up once with the entry and again by   *)
(* every remove_trackers; each set-up is a generation, with its own callback*)
(* for signal_device_new and its own `tracked` set.                         *)
(***************************************************************************)
EXTENDS Naturals

CONSTANTS
  Macs,        \* the devices that the router may list
  Kept,        \* those that the client filter leaves
  Random,      \* those that are ignored as random MAC addresses
  Snapshots,   \* the client lists that the router may answer with, those of a
               \* media bridge without the clients that are not wired
  Timers,      \* runs of update_all
  Removers,    \* runs of remove_trackers
  Removals,    \* the sets of trackers that remove_trackers is asked for
  MaxReloads,  \* bound: how often the platform is set up again
  NoClient,    \* the router object has no such client
  NoTracker,   \* Home Assistant has no such tracker
  NoSnapshot   \* no answer is on its way

Tasks == Timers \cup Removers
Gens  == 0 .. MaxReloads

\* What a list says of a device: nothing, or its connection.
Info   == {"absent", "offline", "wired", "wlan", "guest"}
Online == {"wired", "wlan", "guest"}

Client == [state : {"unknown", "connected", "disconnected"}, guest : BOOLEAN]
Event  == {"device_connected", "device_reconnected", "device_disconnected"}

ASSUME TrackingAssumption ==
  /\ Kept \subseteq Macs
  /\ Random \subseteq Macs
  /\ Snapshots \subseteq [Macs -> Info]
  /\ Removals \subseteq SUBSET Macs
  /\ MaxReloads \in Nat
  /\ NoClient \notin Client
  /\ NoTracker \notin Gens
  /\ NoSnapshot \notin Snapshots

VARIABLES
  clients,   \* ARDevice._clients
  away,      \* the clients whose consider-home period has elapsed since their
             \* last activity
  counted,   \* the devices in _clients_list
  guests,    \* the devices in _gn_clients_number
  gen,       \* the last generation of the platform
  up,        \* whether that generation is loaded
  tracked,   \* each generation's `tracked` set
  owner,     \* the generation that each tracker was added to
  orphaned,  \* the trackers whose ARClient is not the router's any more
  pc,        \* the await at which each task is suspended
  answer,    \* the list on its way to each task
  fired,     \* history: the events of the last step
  told       \* history: each device's last event since it was last removed

clientVars  == <<clients, away, counted, guests, fired, told>>
trackerVars == <<gen, up, tracked, owner, orphaned>>
vars == <<clientVars, trackerVars, pc, answer>>

NoEvents == [m \in Macs |-> "none"]

\* Every variable has its type.
TypeOK ==
  /\ clients \in [Macs -> Client \cup {NoClient}]
  /\ away \subseteq Macs
  /\ counted \subseteq Macs
  /\ guests \subseteq Macs
  /\ gen \in Gens
  /\ up \in BOOLEAN
  /\ tracked \in [Gens -> SUBSET Macs]
  /\ owner \in [Macs -> Gens \cup {NoTracker}]
  /\ orphaned \subseteq Macs
  /\ pc \in [Tasks -> {"idle", "asked", "answered", "unload", "setup"}]
  /\ answer \in [Tasks -> Snapshots \cup {NoSnapshot}]
  /\ fired \in [Macs -> Event \cup {"none"}]
  /\ told \in [Macs -> Event \cup {"none"}]

-----------------------------------------------------------------------------
(***************************************************************************)
(* ARClient.update and the passes of update_clients.                       *)
(***************************************************************************)

Known(cs) == {m \in Macs : cs[m] # NoClient}
Connected(cs) == {m \in Known(cs) : cs[m].state = "connected"}

\* Mutant of NextState: a client that left keeps its state, and goes on to be
\* announced as disconnected.
StaysConnected(c, m, i) ==
  IF i \in Online THEN "connected" ELSE c.state

\* Mutant of NextState: a client takes whatever the list says.
TakesListed(c, m, i) == IF i \in Online THEN "connected" ELSE i

\* A client is disconnected when consider-home has elapsed since it was online.
Leaves(c, m, i) == i \notin Online /\ c.state = "connected" /\ m \in away

NextState(c, m, i) ==
  IF i \in Online THEN "connected"
  ELSE IF Leaves(c, m, i) THEN "disconnected" ELSE c.state

\* The event of a client that was known.
EventOf(c, m, i) ==
  IF i \in Online /\ c.state = "disconnected" THEN "device_reconnected"
  ELSE IF Leaves(c, m, i) THEN "device_disconnected" ELSE "none"

\* A client that is not listed keeps its last connection.
Update(c, m, i) ==
  [state |-> NextState(c, m, i),
   guest |-> IF i = "absent" THEN c.guest ELSE i = "guest"]

NewClients(cs, s) ==
  {m \in Macs \ (Known(cs) \cup Random) : s[m] \in Online}

\* All clients after the list, before the filter.
Merged(cs, s) ==
  [m \in Macs |->
     IF m \in NewClients(cs, s)
     THEN [state |-> "connected", guest |-> s[m] = "guest"]
     ELSE IF cs[m] = NoClient THEN NoClient ELSE Update(cs[m], m, s[m])]

Filtered(cs) == [m \in Macs |-> IF m \in Kept THEN cs[m] ELSE NoClient]

\* fire_event is silent for the devices that the filter leaves out.
Events(cs, s) ==
  [m \in Macs |->
     IF m \notin Kept THEN "none"
     ELSE IF m \in NewClients(cs, s) THEN "device_connected"
     ELSE IF cs[m] = NoClient THEN "none" ELSE EventOf(cs[m], m, s[m])]

\* The clients that are built from the trackers in the registry.
Registered(ms) ==
  [m \in Macs |-> IF m \in ms THEN [state |-> "unknown", guest |-> FALSE]
                   ELSE NoClient]

\* Setting the entry up: the registry's trackers, one list or a failure, the
\* filter, and the platform with a tracker for every client.
Init ==
  /\ \E ms \in SUBSET Macs :
       \/ /\ clients = Filtered(Registered(ms))
          /\ counted = {} /\ guests = {}
          /\ fired = NoEvents
       \/ \E s \in Snapshots :
            LET all == Merged(Registered(ms), s) IN
            /\ clients = Filtered(all)
            /\ counted = Connected(all)
            /\ guests = {m \in Known(all) : all[m].guest}
            /\ fired = Events(Registered(ms), s)
  /\ away = {}
  /\ told = fired
  /\ gen = 0 /\ up = TRUE
  /\ tracked = [g \in Gens |-> IF g = 0 THEN Known(clients) ELSE {}]
  /\ owner = [m \in Macs |-> IF clients[m] # NoClient THEN 0 ELSE NoTracker]
  /\ orphaned = {}
  /\ pc = [t \in Tasks |-> "idle"]
  /\ answer = [t \in Tasks |-> NoSnapshot]

-----------------------------------------------------------------------------
(***************************************************************************)
(* The trackers.                                                           *)
(***************************************************************************)

\* The generations that would add the tracker, and whose it becomes: the first
\* one's, because a second tracker with the same unique ID is refused.
Adders(m) == {g \in 0 .. gen : m \notin tracked[g]}
Owners(m) ==
  IF owner[m] = NoTracker /\ clients'[m] # NoClient /\ Adders(m) # {}
  THEN {g \in Adders(m) : \A h \in Adders(m) : g <= h}
  ELSE {owner[m]}

\* signal_device_new: every generation's callback adds what it has not tracked.
AddEntities ==
  /\ tracked' = [g \in Gens |-> IF g <= gen THEN tracked[g] \cup Known(clients')
                                ELSE tracked[g]]
  /\ \E owners \in [Macs -> Gens \cup {NoTracker}] :
       /\ \A m \in Macs : owners[m] \in Owners(m)
       /\ owner' = owners
  /\ UNCHANGED <<gen, up>>

\* Mutant of Rebind: a tracker goes on with the client that it was made for.
NoRebind == orphaned' = orphaned

\* signal_device_update: every tracker takes the router's client of its device.
Rebind == orphaned' = orphaned \ Known(clients')

Goto(t, stage) == pc' = [pc EXCEPT ![t] = stage]

\* After update_clients, a timer's run goes on elsewhere and remove_trackers
\* reloads the platform.
Continue(t) == Goto(t, IF t \in Removers THEN "unload" ELSE "idle")

Timer(t) ==
  /\ pc[t] = "idle"
  /\ Goto(t, "asked")
  /\ fired' = NoEvents
  /\ UNCHANGED <<clients, away, counted, guests, told, trackerVars, answer>>

\* The router answers, and the answer is on its way.
Answered(t) ==
  /\ pc[t] = "asked"
  /\ \E s \in Snapshots : answer' = [answer EXCEPT ![t] = s]
  /\ Goto(t, "answered")
  /\ fired' = NoEvents
  /\ UNCHANGED <<clients, away, counted, guests, told, trackerVars>>

\* update_clients from the arrival of the list on.
Deliver(t) ==
  LET s   == answer[t]
      all == Merged(clients, s)
  IN
  /\ pc[t] = "answered"
  /\ clients' = Filtered(all)
  /\ away' = {m \in away : s[m] \notin Online}
  /\ counted' = Connected(all)
  /\ guests' = {m \in Known(all) : all[m].guest}
  /\ fired' = Events(clients, s)
  /\ told' = [m \in Macs |-> IF fired'[m] = "none" THEN told[m] ELSE fired'[m]]
  /\ Rebind
  /\ IF NewClients(clients, s) # {}
     THEN AddEntities
     ELSE UNCHANGED <<gen, up, tracked, owner>>
  /\ answer' = [answer EXCEPT ![t] = NoSnapshot]
  /\ Continue(t)

\* The list cannot be had: nothing is updated.
UpdateFails(t) ==
  /\ pc[t] \in {"asked", "answered"}
  /\ answer' = [answer EXCEPT ![t] = NoSnapshot]
  /\ Continue(t)
  /\ fired' = NoEvents
  /\ UNCHANGED <<clients, away, counted, guests, told, trackerVars>>

\* The clients are forgotten; their trackers still have their ARClient objects.
Forget(ms) ==
  /\ clients' = [m \in Macs |-> IF m \in ms THEN NoClient ELSE clients[m]]
  /\ orphaned' = orphaned \cup {m \in ms : owner[m] # NoTracker}
  /\ told' = [m \in Macs |-> IF m \in ms THEN "none" ELSE told[m]]
  /\ away' = away \ ms
  /\ fired' = NoEvents
  /\ UNCHANGED <<counted, guests, gen, up, tracked, owner, answer>>

\* remove_trackers forgets the clients and asks for a list.
RemoveTrackers(t) ==
  /\ pc[t] = "idle"
  /\ gen < MaxReloads
  /\ \E ms \in Removals : Forget(ms)
  /\ Goto(t, "asked")

\* A later entry of the request has no MAC address: the call raises after it
\* has forgotten the clients before it.
RemoveRaises(t) ==
  /\ pc[t] = "idle"
  /\ \E ms \in Removals : Forget(ms)
  /\ UNCHANGED pc

\* The platform's trackers go; its callback and its `tracked` set stay.
Unload(t) ==
  /\ pc[t] = "unload" /\ up
  /\ gen < MaxReloads
  /\ up' = FALSE
  /\ owner' = [m \in Macs |-> IF owner[m] = gen THEN NoTracker ELSE owner[m]]
  /\ orphaned' = {m \in orphaned : owner[m] # gen}
  /\ Goto(t, "setup")
  /\ fired' = NoEvents
  /\ UNCHANGED <<clients, away, counted, guests, told, gen, tracked, answer>>

\* Unloading fails, or another run has unloaded the platform already.
UnloadFails(t) ==
  /\ pc[t] = "unload"
  /\ Goto(t, "idle")
  /\ fired' = NoEvents
  /\ UNCHANGED <<clients, away, counted, guests, told, trackerVars, answer>>

\* Mutant of Setup: the new generation waits for the next new client.
SetupLater(t) ==
  /\ pc[t] = "setup"
  /\ gen' = gen + 1
  /\ up' = TRUE
  /\ Goto(t, "idle")
  /\ fired' = NoEvents
  /\ UNCHANGED <<clients, away, counted, guests, told, tracked, owner, orphaned,
                 answer>>

\* The platform is set up again, with a tracker for every client.
Setup(t) ==
  /\ pc[t] = "setup"
  /\ gen' = gen + 1
  /\ up' = TRUE
  /\ tracked' = [tracked EXCEPT ![gen + 1] = Known(clients)]
  /\ owner' = [m \in Macs |-> IF owner[m] = NoTracker /\ clients[m] # NoClient
                              THEN gen + 1 ELSE owner[m]]
  /\ Goto(t, "idle")
  /\ fired' = NoEvents
  /\ UNCHANGED <<clients, away, counted, guests, told, orphaned, answer>>

\* The consider-home period of a connected client elapses.
Elapse(m) ==
  /\ m \in Connected(clients) \ away
  /\ away' = away \cup {m}
  /\ fired' = NoEvents
  /\ UNCHANGED <<clients, counted, guests, told, trackerVars, pc, answer>>

Next ==
  \/ \E t \in Timers : Timer(t)
  \/ \E t \in Removers :
       RemoveTrackers(t) \/ RemoveRaises(t) \/ Unload(t) \/ UnloadFails(t) \/ Setup(t)
  \/ \E t \in Tasks : Answered(t) \/ Deliver(t) \/ UpdateFails(t)
  \/ \E m \in Macs : Elapse(m)

Spec == Init /\ [][Next]_vars

-----------------------------------------------------------------------------
\* A device's events alternate: it is announced as connected only when it was
\* not tracked before, as reconnected only after it was announced as
\* disconnected, and as disconnected once.
EventsAlternate ==
  [][\A m \in Macs :
       /\ fired'[m] = "device_connected" => told[m] = "none"
       /\ fired'[m] = "device_reconnected" => told[m] = "device_disconnected"
       /\ fired'[m] = "device_disconnected" =>
            told[m] # "device_disconnected"]_vars

\* What the last event said is what the tracker shows: a device announced as
\* disconnected is not connected, one announced as connected is.
EventsMatchState ==
  \A m \in Known(clients) :
    told[m] # "none" =>
      (told[m] = "device_disconnected" <=> clients[m].state = "disconnected")

\* While the platform is loaded every client has a tracker, whatever list
\* arrived while it was being reloaded.
EveryClientTracked ==
  up => \A m \in Known(clients) : owner[m] # NoTracker

\* A tracker shows the client that the router updates, also when the client
\* was removed and has been found again since.
TrackersCurrent ==
  \A m \in Known(clients) : m \notin orphaned

\* Every tracker is on the platform that is loaded, so that unloading the entry
\* removes it.
TrackersOnPlatform ==
  \A m \in Macs : owner[m] # NoTracker => up /\ owner[m] = gen
=============================================================================
