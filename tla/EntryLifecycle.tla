--------------------------- MODULE EntryLifecycle ---------------------------
(***************************************************************************)
(* The life of one config entry: set-up, unload and reload, the ARDevice    *)
(* that a set-up builds from the entry's options, what it registers with    *)
(* Home Assistant, and the update listener that reloads the entry when its  *)
(* options change.  Home Assistant runs set-ups and unloads of an entry     *)
(* one at a time (ConfigEntry.setup_lock); the stages are their awaits.  It *)
(* catches what a set-up raises and runs none of the router's callbacks.    *)
(***************************************************************************)
EXTENDS Naturals, FiniteSets

CONSTANTS
  Names,      \* the options that are modelled, under their names in const.py
  Values,     \* Values[n]: the values of option n
  NoValue,    \* the option is not set
  NoRouter,   \* there is no ARDevice
  MaxReloads  \* bound on the reloads that wait at one time

VARIABLES
  state,      \* ConfigEntry.state
  options,    \* ConfigEntry.options
  stage,      \* the await of the set-up or unload under way
  reloads,    \* calls of async_reload that wait for the entry's lock
  router,     \* the ARDevice of the last set-up: the options it was built from
  connected,  \* ARBridge.connected, of that router
  running,    \* what that router has registered and its _on_close takes back
  strays,     \* what routers of earlier set-ups have left behind
  data,       \* the router in hass.data: the options it knows
  good,       \* the credentials that the router accepts
  unheard,    \* history: options changed between the building of the last router
              \* and its registration, so that its listener heard nothing of it
  botched     \* history: the set-up of the platforms has failed

entryVars  == <<state, options>>
routerVars == <<router, connected, running, strays, data>>
pastVars   == <<unheard, botched>>
lifeVars   == <<entryVars, stage, reloads, routerVars, good, pastVars>>

Options == [Names -> (UNION {Values[n] : n \in Names}) \cup {NoValue}]

ASSUME EntryAssumption ==
  /\ MaxReloads \in Nat \ {0}
  /\ NoRouter \notin Options

\* Options that the router needs to connect.
CredentialFields == {"username", "password", "port", "ssl", "verify_ssl"}

Credentials(o) == [n \in Names \cap CredentialFields |-> o[n]]

AllCredentials ==
  [Names \cap CredentialFields -> (UNION {Values[n] : n \in Names}) \cup {NoValue}]

\* The intervals that can be set one by one (CONF_INTERVALS).
IntervalNames ==
  {"interval_cpu", "interval_firmware", "interval_gwlan", "interval_light",
   "interval_misc", "interval_network", "interval_parental_control",
   "interval_ports", "interval_ram", "interval_sysinfo",
   "interval_temperature", "interval_vpn", "interval_wan", "interval_wlan"}

\* Options whose change restarts the integration (CONF_REQ_RELOAD).
ReloadNames ==
  CredentialFields \cup
  {"cache_time", "client_device", "client_filter", "client_filter_list",
   "clients_in_attr", "consider_home", "create_devices", "device_connected",
   "device_disconnected", "device_reconnected", "node_connected",
   "node_disconnected", "node_reconnected", "hide_passwords",
   "ignore_random_mac", "interfaces", "interval_devices", "latest_connected",
   "mode", "split_intervals", "scan_interval", "track_devices"} \cup IntervalNames

States == {"absent", "not_loaded", "setting_up", "loaded", "retry", "auth",
           "error", "unloading", "stuck"}
Stages == {"idle", "check", "connect", "load", "forward", "unload", "disconnect"}

\* Every variable has its type.
EntryTypeOK ==
  /\ state \in States
  /\ options \in Options
  /\ stage \in Stages
  /\ reloads \in 0..MaxReloads
  /\ router \in Options \cup {NoRouter}
  /\ connected \in BOOLEAN
  /\ running \subseteq {"timer", "listener"}
  /\ strays \subseteq {"timer", "listener"}
  /\ data \in Options \cup {NoRouter}
  /\ good \in AllCredentials
  /\ unheard \in BOOLEAN
  /\ botched \in BOOLEAN

EntryInit ==
  /\ state = "absent"
  /\ options = [n \in Names |-> NoValue]
  /\ stage = "idle"
  /\ reloads = 0
  /\ router = NoRouter
  /\ connected = FALSE
  /\ running = {}
  /\ strays = {}
  /\ data = NoRouter
  /\ good \in AllCredentials
  /\ \A n \in DOMAIN good : good[n] \in Values[n]
  /\ unheard = FALSE
  /\ botched = FALSE

-----------------------------------------------------------------------------
(* The update listener *)

\* Mutant of NeedsReload: the options are compared after they were taken over.
ComparedLate(new) == \E n \in Names \cap ReloadNames : new[n] # new[n]

\* update_options: an option that restarts the integration has changed.
NeedsReload(new) == \E n \in Names \cap ReloadNames : data[n] # new[n]

\* async_reload is called, and waits for the entry's lock.
CallReload == reloads' = reloads + 1

\* Mutant of Hears: a listener is taken to be there.
LeftToListener == TRUE

\* entry.update_listeners is not empty.
Hears == "listener" \in running \cup strays

\* update_listener finds a router in hass.data; without one it raises KeyError.
Listening == Hears /\ data # NoRouter

\* The listeners compare the options with those of the router in hass.data, which
\* takes them over: a second listener finds nothing new.
Listen(new) == data' = IF Listening THEN new ELSE data
Restarts(new) == Listening /\ NeedsReload(new)

\* Home Assistant stores new options and calls the update listeners, in the same
\* step.
UpdateEntry(new) ==
  /\ options' = new
  /\ IF new = options
     THEN UNCHANGED <<reloads, data, unheard>>
     ELSE /\ Listen(new)
          /\ IF Restarts(new) THEN CallReload ELSE UNCHANGED reloads
          /\ unheard' = (unheard \/ running = {})

-----------------------------------------------------------------------------
(* Set-up *)

Enter(s, st) == state' = s /\ stage' = st

\* A set-up begins with the check of the library's version in an executor.
BeginSetup ==
  /\ stage = "idle"
  /\ state \in {"not_loaded", "retry"}
  /\ Enter("setting_up", "check")
  /\ UNCHANGED <<options, reloads, routerVars, good, pastVars>>

\* The set-up gives up; nothing is disconnected or taken back.
SetupFails(s) ==
  /\ Enter(s, "idle")
  /\ UNCHANGED <<options, reloads, routerVars, good, pastVars>>

\* The library is missing or too old.
LibraryTooOld ==
  /\ stage = "check"
  /\ SetupFails("error")

\* ARDevice.__init__ copies the options; the bridge connects with them.  What an
\* earlier router still has registered is beyond anybody's reach from here.
Construct ==
  /\ stage = "check"
  /\ Enter("setting_up", "connect")
  /\ router' = options
  /\ strays' = strays \cup running
  /\ running' = {}
  /\ connected' = FALSE
  /\ unheard' = FALSE
  /\ UNCHANGED <<options, reloads, data, good, botched>>

Accepts(o) == Credentials(o) = good

Connect ==
  /\ stage = "connect"
  /\ Accepts(router)
  /\ Enter("setting_up", "load")
  /\ connected' = TRUE
  /\ UNCHANGED <<options, reloads, router, running, strays, data, good, pastVars>>

\* AccessError.CREDENTIALS: ConfigEntryAuthFailed.
ConnectRefused ==
  /\ stage = "connect"
  /\ ~Accepts(router)
  /\ SetupFails("auth")

\* Any other access error, AsusRouterError or OSError: ConfigEntryNotReady.
ConnectFails ==
  /\ stage = "connect"
  /\ SetupFails("retry")

\* A device with the merge bug is removed and the set-up gives up, connected.
BuggedDevice ==
  /\ stage = "load"
  /\ SetupFails("retry")

\* Anything else that is raised, a cancellation too, is an error to Home Assistant.
SetupRaises ==
  /\ stage \in {"connect", "load"}
  /\ SetupFails("error")

\* Nodes, clients, rules, the filter, the coordinators and the services are set
\* up.  The timer, the update listener and hass.data follow without an await.
Load ==
  /\ stage = "load"
  /\ Enter("setting_up", "forward")
  /\ running' = {"timer", "listener"}
  /\ data' = router
  /\ UNCHANGED <<options, reloads, router, connected, strays, good, pastVars>>

\* The platforms are set up.
Forward ==
  /\ stage = "forward"
  /\ Enter("loaded", "idle")
  /\ UNCHANGED <<options, reloads, routerVars, good, pastVars>>

\* A platform raises, or the set-up is cancelled while it awaits them: the timer,
\* the listener and hass.data stay.
ForwardFails ==
  /\ stage = "forward"
  /\ Enter("error", "idle")
  /\ botched' = TRUE
  /\ UNCHANGED <<options, reloads, routerVars, good, unheard>>

-----------------------------------------------------------------------------
(* Reload and unload *)

\* async_reload gets the lock.  It unloads the entry if it is loaded; it cancels
\* a retry; it does nothing for an entry whose unloading failed, and unloads
\* nothing of one whose set-up did.
BeginReload ==
  /\ stage = "idle"
  /\ reloads > 0
  /\ reloads' = reloads - 1
  /\ \/ state = "loaded" /\ Enter("unloading", "unload")
     \/ state = "stuck" /\ UNCHANGED <<state, stage>>
     \/ state \in {"not_loaded", "retry", "auth", "error"} /\ Enter("setting_up", "check")
  /\ UNCHANGED <<options, routerVars, good, pastVars>>

\* A platform does not unload.
PlatformStays ==
  /\ stage = "unload"
  /\ Enter("stuck", "idle")
  /\ UNCHANGED <<options, reloads, routerVars, good, pastVars>>

\* Mutant of OnClose: the update listener is not among the callbacks.
OnCloseTimer == running' = running \ {"timer"}

\* The callbacks of _on_close.
OnClose == running' = {}

\* close is over, the router is dropped, and the reload goes on with a set-up.
Closed ==
  /\ OnClose
  /\ connected' = FALSE
  /\ data' = NoRouter
  /\ Enter("setting_up", "check")
  /\ UNCHANGED <<options, reloads, router, strays, good, pastVars>>

\* The platforms are unloaded; close has nothing to disconnect.
UnloadDisconnected ==
  /\ stage = "unload"
  /\ ~connected
  /\ Closed

UnloadPlatforms ==
  /\ stage = "unload"
  /\ connected
  /\ Enter("unloading", "disconnect")
  /\ UNCHANGED <<options, reloads, routerVars, good, pastVars>>

Disconnect ==
  /\ stage = "disconnect"
  /\ Closed

\* Disconnecting raises: neither the callbacks nor what follows close run.
DisconnectFails ==
  /\ stage = "disconnect"
  /\ Enter("stuck", "idle")
  /\ UNCHANGED <<options, reloads, routerVars, good, pastVars>>

-----------------------------------------------------------------------------
(* The environment *)

\* A user reloads the entry.
ManualReload ==
  /\ state # "absent"
  /\ reloads < MaxReloads
  /\ CallReload
  /\ UNCHANGED <<entryVars, stage, routerVars, good, pastVars>>

\* The library has lost the connection since, or makes it again.  That may happen at any
\* time; only close reads it, so it is left to the await before close.
ConnectionChanges ==
  /\ stage = "unload"
  /\ connected' = ~connected
  /\ UNCHANGED <<entryVars, stage, reloads, router, running, strays, data, good, pastVars>>

\* The router's owner changes its credentials.
ChangeCredentials ==
  /\ \E c \in AllCredentials :
       /\ \A n \in DOMAIN c : c[n] \in Values[n]
       /\ good' = c
  /\ UNCHANGED <<entryVars, stage, reloads, routerVars, pastVars>>

\* The steps of a set-up or an unload that is under way.
LifeStep ==
  \/ BeginSetup \/ LibraryTooOld \/ Connect \/ ConnectFails
  \/ BuggedDevice \/ SetupRaises \/ Load \/ Forward \/ ForwardFails
  \/ BeginReload \/ PlatformStays \/ UnloadDisconnected \/ UnloadPlatforms
  \/ Disconnect \/ DisconnectFails

World == ManualReload \/ ConnectionChanges \/ ChangeCredentials

\* One router is registered at a time, and hass.data has it.  A set-up finds
\* a timer or a listener of an earlier router only where the set-up of the platforms
\* has failed, which leaves them for good: no other failure of a set-up, no unload
\* that fails or stops half-way and no order of reloads leaves a second router
\* polling beside the first.
OneRouterRegistered ==
  /\ strays # {} => botched
  /\ running # {} => data # NoRouter
  /\ state = "loaded" => running = {"timer", "listener"}

\* A loaded entry with nothing under way runs with the options that it stores,
\* unless they were stored between the building of its router and its registration.
ChangesNoticed ==
  state = "loaded" /\ stage = "idle" /\ reloads = 0 /\ ~unheard => router = options
=============================================================================
