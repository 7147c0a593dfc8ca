# TLA+ verification of ha-asusrouter

`ha-asusrouter` (AsusRouter Fixed IP) is a Home Assistant custom integration
for ASUSWRT routers. All of it runs on one asyncio event loop: there are no
threads, but every `await` lets other tasks, timers, the router and the
router's own web UI run in between. This directory models the parts of the
integration in which that matters, checks them with TLC on small instances and
proves the main results with TLAPS for every instance.

Paths below are relative to `src/custom_components/asusrouter/`.

## Inventory

| Component | State | Operations | Interacts with |
|---|---|---|---|
| Parental-control rule writer and poll (`router.py`, `bridge.py`) | `ARDevice._pc_rules`, `_pc_rule_lock`; the router's table; the library's cache | `async_set_internet_access`, `async_pc_rule`, `update_pc_rules`, `_async_remove_pc_rule_entities` | called by switches, services and the timer; signals switches |
| Internet-access switches (`switch.py`) | live entities, the `tracked` set, registry entries, each switch's `_rule` | `add_entities`, `_set_state`, `async_on_demand_update`, `async_rule_removed`, `_async_remove_rule` | three dispatcher signals of the writer and the poll |
| Static DHCP (`router.py`, `bridge.py`, `button.py`) | `_static_dhcp_lock`, `_static_dhcp_leases`; the router's list | set, reserve current IP, remove, refresh, sensor poll; the button's availability | services, buttons, the sensor coordinator |
| Service actions (`services.py`) | the registered services | `device_internet_access` over several routers, the static DHCP services, `remove_trackers` | the writer of each router |
| Client tracking (`router.py`, `client.py`, `device_tracker.py`) | `_clients`, connected and latest-connected lists, filters, `tracked` | `update_clients`, `ARClient.update`, `update_latest_connected`, `remove_trackers` | timer, events, trackers |
| AiMesh (`router.py`, `aimesh.py`) | `_aimesh`, the published node list | `update_nodes`, `AiMeshNode.update` | timer, events, a sensor |
| Entry life cycle (`__init__.py`, `router.py`) | the entry's data, connection, timer, on-close callbacks | setup, unload, reload, `update_options`, `close` | everything above |
| Config, options and reauthentication flows (`config_flow.py`) | a copy of the options per flow | the steps of each flow | the entry |
| Sensor coordinators (`router.py`, `bridge.py`) | one coordinator per sensor type | poll, `_update_unpolled_sensors` | bridge, library cache |
| Bridge conversions, static platforms, diagnostics, constants | none that outlives a call | rename, flatten, present | |
| The `asusrouter` library, Home Assistant core, the router | external | | modelled from how the code uses them |

### What is hard, and what makes each component correct

* **Rule writer.** The router takes the *whole* table in one write, so a write
  is a read-modify-write over HTTP. Two calls, a call and a poll, a call and
  the router's web UI may interleave; the router applies late, loses rows or
  answers wrongly; the caller is cancelled or the library raises at any await.
  Correct means: a call changes only the rows it names and keeps their
  schedules; it never takes the table past the limit; success is reported only
  for a table that was read back; what was confirmed is not undone in the
  integration by an older answer; the lock is never leaked; every call ends.
* **Switches.** They are created and removed by tasks that run after the
  signal that caused them. Correct means: a rule the integration knows has one
  switch, a removed rule leaves neither a switch nor a registry entry, and the
  removal is complete when the lock is released.
* **Static DHCP.** Also a check and a whole-list write, with a verifying read.
  Correct means: no two devices get one address by this integration's doing, a
  reservation that exists is not moved by "reserve current IP", success means
  verified, and the cached leases that buttons look at follow the last read.
* **Client tracking and AiMesh.** Periodic snapshots are turned into edge
  events; overlapping updates may store snapshots out of order. Correct means:
  events alternate per device, lists are bounded and consistent with states.
* **Entry life cycle and flows.** Partial failure of setup or unload must not
  leave a connection, a timer or a subscription behind; a flow must not write
  back options it copied before somebody else changed them.

The hazards are listed one by one, with their lines, in `PROJECT.json`.

## Plan

In order of importance; every group is written, and its safety properties are
proved.

1. `RuleTables`, `ParentalControl`, `RuleService` (abstract),
   `RuleServiceRefinement`, `MCParentalControl`, `ParentalControlProofs` — the
   rule writer and the poll.
2. `StaticDhcp`, `MCStaticDhcp`, `StaticDhcpProofs` — lock, read, check, write,
   verify.
3. `RuleSwitches`, `MCRuleSwitches`, `RuleSwitchesProofs` — the switches' life cycle, composed with an
   abstraction of the writer (a removal under the lock, a poll).
4. `ClientTracking`, `LatestConnected`, `AiMesh` with their `MC` modules,
   `ClientTrackingProofs`, `LatestConnectedProofs` and `AiMeshProofs` — the update cycle, `ARClient.update`,
   trackers across a platform reload, latest-connected, events and node changes.
5. `EntryLifecycle` — set-up, unload, reload, `close`, `update_options`.
6. `ConfigFlows`, `MCConfigFlows`, `ConfigFlowsProofs` (which proves about the
   entry as well) — user, options and reauthentication flows over
   `EntryLifecycle`.
7. `ServiceCalls`, `MCServiceCalls`, `ServiceCallsProofs` — the service actions over several routers.

## The modules

### `RuleTables` — the data of the rule writer

A table is a function from devices to a rule (`type`, `name`, `timemap`) or
`NoRule`; a request has a state (`allow`, `block`, `remove`), its devices, and
for each of them an optional name and default name. `Updated(t, r)` is the
whole table that `async_pc_rule` computes for `r` on snapshot `t`;
`OverCapacity` is the library's `validate_pc_capacity` as the code calls it;
`Matches` is `_internet_access_state_matches`.

A MAC stands for the address in every spelling (both sides are compared through
`format_mac`), a name for its class under `_pc_field`, and an absent and an
empty name are both `NoName`. A request lists each device once. Requests that
are rejected before anything is awaited (an invalid MAC, an unknown state, no
device) change nothing and are left out. The schedule-window limit is of the
same form as the rule limit and is not modelled separately.

### `ParentalControl` — the writer, the poll, the lock, the router

| State | In the code |
|---|---|
| `table`, `pend` | the router: the table it answers with, and the write it accepted and has yet to apply |
| `cache` | the library's last answer, which an unforced read may return |
| `pcRules` | `ARDevice._pc_rules` |
| `holder`, `queue` | `ARDevice._pc_rule_lock` (asyncio wakes waiters in order) |
| `pc` | the await at which each task is suspended |
| `req`, `expected`, `attempt` | the arguments and locals of `async_set_internet_access` |
| `answer` | a poll's or a confirmation's answer on its way |
| `outcome`, `settled` | history: how the last call ended; what a confirmation has promised of each device (its rule's type, or that it has none), until the router shows something else |

A writer goes through `queued` (`async with self._pc_rule_lock`), `snapshot`
(the capability query and the forced read), `write` (`async_run_service_result`),
`written` (accepted, on the way back), `confirm` and `reply` (up to
`ConfirmAttempts` forced reads, each in two steps: the router answers, and the
answer arrives) and `cleanup` (the removal of switches). A poll goes through
`queued`, `read` and `reply`. Sleeps are not stages: they only let time pass
before the next action. `Raise` and `CancelCall` end a call at any await;
`WriteRefused` covers a service that reports no success, or reports it and does
nothing. The success flag itself only chooses a delay and a message and is left
out. The confirmation may also raise after the write, for a row with a
malformed address (`router.py:863-875`): `Confirm` may end so.

Between an answer and its arrival the table may change, by a late write or an
edit in the web UI, in the confirmation as in a poll. That success holds of the
router's *present* table is therefore not claimed; `NoResurrection` and
`ConfirmedKept` are about what the integration knows. `Confirmed` records what a
confirmation promises, except of rows that had changed before it arrived, and
`SetTable` withdraws a promise as soon as the router's table breaks it. The
snapshot before the write is one step because what follows its answer is only
the write, which is a stage of its own: the table may change between the two.

The environment is chosen by `Faults`:

* `{}` — the router does what it accepts, before the next holder of the lock
  takes its snapshot;
* `"late"` — it may apply an accepted write after that;
* `"drop"` — it may lose rows of a table it accepted;
* `"web"` — somebody edits the table in the router's web UI at any time.

### `RuleService` — what a caller is promised

A call changes the router's table, if at all, by one atomic update of exactly
what it asked for, and succeeds only while its request holds. A call that fails
may leave one update behind, which takes effect later or never (`straggler`).
There is no lock, no snapshot and no read-back in it. `RuleServiceRefinement`
maps `ParentalControl` to it: `call` is `req`, and the straggler is the accepted
write that no writer awaits any more and that would still change the table.

### `StaticDhcp` — reservations, their lock and the cached leases

| State | In the code |
|---|---|
| `leases` | the router's `dhcp_staticlist` |
| `cached` | `ARDevice._static_dhcp_leases`; the sensor coordinator gets the same list in the same step |
| `holder` | `ARDevice._static_dhcp_lock` |
| `pc`, `op` | the await at which each task is suspended, and its arguments |
| `answer` | a list on its way to the task that asked for it |
| `pend` | a list that was written and that the router has yet to put into effect |
| `outcome`, `unsure` | history: how the last operation ended; whether a failed call or a late write may have changed the router's list since a list was stored |

`Start` takes the lock. `set` and `reserve` (*reserve current IP*, which may not
move a reservation) read the list (`check`), refuse or go on to `write`, and
read again (`verify`); a removal begins at `write`; the refresh and the sensor's
poll only read (`fetch`). A read is two steps, the router's answer and its
arrival. `Write` leaves open whether the router takes the row, because the
library's result is not looked at; `WriteLost` and `ReadFails` are every
exception and cancellation at an await, with or without effect at the router.
`Faults` has `"web"`, edits in the web UI, and `"late"`: the list of a write
(`Sent`) may take effect at any later time (`TakesEffect`), also after its call
has given up and another task holds the lock. One late list is under way at a
time, a bound of the model. The safety of `SD_calls` is stated without
late writes, which may land between another task's check and its write, as an
edit in the web UI may; `OkIsTrue` and `EveryCallReturns` are checked with both.

Abstractions: the library's set and remove calls change one row in one step;
MAC, IP and host-name spellings are normalised before they are compared; the
router-mode check and malformed arguments end a call before its first await and
are left out; `details` is the pair of DNS server and host name. The lock wakes
its waiters in any order (`asyncio.Lock` is first come first served; the safety
properties do not need that, and the liveness property assumes of it only that
no waiter is passed over for ever). A button's availability is a function of
`cached`; nothing in the code stops a press that comes after the availability
has changed, so it is no guard, and `ReservationsStay` and `UniqueAddresses` say
what the locked check makes of such a press.

### `ClientTracking` — clients, their events and their trackers

| State | In the code |
|---|---|
| `clients` | `ARDevice._clients`: each `ARClient` with its `_state` and whether its last connection is a guest's |
| `away` | the clients for which `utc_now - _last_activity` is above consider-home |
| `counted`, `guests` | the devices in `_clients_list` and those in `_gn_clients_number` |
| `gen`, `up`, `tracked` | the set-ups of the `device_tracker` platform, and the `tracked` set of each one's callback |
| `owner`, `orphaned` | the set-up that added each tracker; the trackers whose `_client` is not the router's object |
| `pc`, `answer` | the await at which each task is suspended; a list on its way to it |
| `fired`, `told` | history: the events of the last step; each device's last event since it was removed |

`Init` is the whole of the entry's setup: clients built from the registry, one
`update_clients` or its failure, the filter, and the first set-up of the
platform. A `Timer` is a run of `update_all` as far as `update_clients`; the
timer does not wait for the run before it, so runs overlap. `Deliver` is
everything in `update_clients` after its await: known clients, new ones, the
counts, the filter and both signals, which Home Assistant dispatches without
suspending. `remove_trackers` pops the clients (`Forget`), runs `update_clients`,
then unloads the platform (`Unload`) and sets it up again (`Setup`).

Each set-up subscribes its own callback, and only unloading the *entry* drops
it, so every callback since the start answers `signal_device_new`, in the order
of subscription; Home Assistant refuses a second tracker with the same unique
ID, so the first one keeps it.

Abstractions: an `ARClient` is its state and its guest flag; names, addresses
and attributes are left out. Consider-home may elapse at any time for a client
that is connected (`Elapse`); only a list in which the client is online resets
it. `Kept` stands for an include or exclude filter, `Random` for
`ignore_random_mac`; a media bridge, which drops the clients that are not wired,
is an instance with other lists. Events are taken to be enabled in the options. The
`latest connected` part of `update_clients` is the next module, the refresh of
the sensors at its end is part of `AiMesh`.

### `LatestConnected` — the bounded list of the latest connections

`since` is the connection time that the router reports for a device that is
connected, `latest` and `newest` are `_latest_connected_list` and
`_latest_connected`. `UpdateLatest` is the code's pipeline: the current entries,
the old entries of the devices that are not current (`Candidates`, in the order
in which the code appends them), a stable sort by time, and the trim from the
front. The sort says where each entry ends up: behind those that come `Before`
it, which are the earlier ones and, at the same time, those that were ahead. `NewestKept` says what comes out without saying how: of
all connections that any update has seen, the newest ones. A device's connection
time does not go backwards (the router's clock is not set back).

### `AiMesh` — mesh nodes, their events and the sensor

`nodes` is `_aimesh` with each node's `identity`; `number` and `listed` are
`_aimesh_number` and `_aimesh_list`; `handler` is what `ARSensorHandler` keeps of
them and `shown` what the sensor's coordinator last published. The list holds
the nodes' identity dictionaries themselves, so the handler's list is modelled
as *which* nodes are in it: what it says of them is what `nodes` says now. A run
of `update_all` is the end of `update_clients` (`Refresh`, or `ClientsFail`, which
skips it) and then `update_nodes`; `remove_trackers` stops after the first.
Address, alias, model and type of a node are one `detail`.

### `RuleSwitches` — the internet-access switches

| State | In the code |
|---|---|
| `table`, `pcRules`, `holder`, `pc`, `req` | the writer of `ParentalControl`, reduced to what the switches see of it; a rule is its type |
| `live`, `rule` | the switches on the platform and the `_rule` of each |
| `tracked` | the set that the platform's set-up keeps of the devices it has added |
| `registry` | each switch's entry in the entity registry: none, enabled, disabled |
| `doomed`, `leaving` | removals that are scheduled, and those that left the platform and are suspended in `async_will_remove_from_hass` |
| `waits` | what the `asyncio.gather` of a call awaits |
| `orphaned`, `result` | history: removals that nobody awaits any more; how the last call ended |

`StoreAnd` is `update_pc_rules` after its read with the signals it sends, which
Home Assistant dispatches without suspending: switches on the platform take
their rule (`Follows`), and if the set of ruled devices changed, `add_entities`
makes new ones (`Added`). `ConfirmRemoval` is the writer's confirmed removal: it
stores, collects one removal per switch that hears the signal and awaits them
under the lock (`Gather`), after which `FinishRemoval` clears the registry of
the switches that were disabled. A removal is `BeginRemoval` (it leaves the maps
of the platform and `tracked`) and `EndRemoval` (its registry entry goes); it may
raise or be cancelled with its caller. A user may disable a switch; a disabled
one hears no signal.

Abstractions: the capacity check, the snapshot and the number of attempts are in
`ParentalControl`; `Retry` may happen any number of times. Names, schedules and
the attributes of a switch are left out. Enabling a disabled entry reloads the
config entry and is not an action.

### `EntryLifecycle` and `ConfigFlows` — the entry and the flows that write it

| State | In the code |
|---|---|
| `state`, `options` | `ConfigEntry.state` and `.options` |
| `stage` | the await of the set-up or unload that holds `ConfigEntry.setup_lock` |
| `reloads` | calls of `async_reload` that wait for that lock |
| `router` | the `ARDevice` of the last set-up: the options it was built from |
| `connected` | `ARBridge.connected` of that router |
| `data` | the router in `hass.data`: the options it knows (`_options`) |
| `running`, `strays` | the timer and the update listener of the router of the last set-up, and those of earlier ones |
| `good` | the credentials that the router accepts at the moment |
| `dialog` | the open user or options flow: its step, its copy (`draft`) and what was submitted (`input`) |
| `reauth` | the open reauthentication and the copy it is checking (`candidate`) |
| `accepted`, `due`, `unheard`, `botched` | history, for the properties |

A set-up goes through `check` (the library's version, in the executor),
`connect`, `load` and `forward` (the platforms); `Construct` is
`ARDevice.__init__`, which copies the options, and `Load` is everything from the
first read to `hass.data`; the timer and the listener are registered in the same
step, without an await. Each await has its failures: refused credentials, a
router that is not ready, a device with the merge bug, and anything else that is
raised, or a cancellation (`SetupRaises`). None of them takes anything back, and
none but `ForwardFails` needs to: there the platforms' set-up raises when timer,
listener and `hass.data` are registered, which then stay (`strays`, once the next
set-up builds its own router). An unload is `unload` (the platforms) and `disconnect`;
`Closed` is `close` with its callbacks and what follows it. `UpdateEntry` is Home
Assistant's `async_update_entry` with `update_options`, which compares the new
options with those of the router in `hass.data`, takes them over and asks for a
reload; a listener that a failed set-up has left hears it as well, and finds
the router of `hass.data`, not its own. `ConfigFlows`
has an action for each step of the three flows: `SubmitCredentials` and
`SubmitReauth` suspend the flow in `_async_check_connection`, the forms of the menu
merge their fields into the copy, and the two `Finish` actions write the copy.

Abstractions: one user or options dialog is open at a time, beside at most one
reauthentication; the host, the discovery of the router's name and MAC address,
the kinds of errors and the defaults of the forms are left out, and a form
submits any value for each of its fields. Names of options are those of
`const.py`; an instance has a few of them. `MaxReloads` bounds the reloads that
wait (in the guards of `ManualReload`, `FinishOptions`, `UserAborted` and
`ReauthConfirmed`, in `UserAborted` by `HostStored`). The connection may be lost
and made again at any time; only `close` reads the flag, so `ConnectionChanges`
is left to the await before it. Unloading an entry without setting it up again
(disabling it) is not an action.

### `ServiceCalls` — the service actions

| State | In the code |
|---|---|
| `loaded`, `setups` | the router object that `hass.data` has for each entry; how often the entry was set up |
| `data` | what registry, state and client cache know of each entity: not one of our entities, one of ours without a MAC address, one with it, one with an IP address as well |
| `holder` | the rule lock and the lease lock of each router object |
| `pc`, `at`, `target`, `todo` | the await, the router object and the targets that the call is at, and what is left of its loop |
| `group`, `good`, `bad`, `named` | `router_devices`, `succeeded` and `failed`, and the names in the report |
| `written`, `done`, `result` | history: what routers took and confirmed; how the call ended |

`Access` is `device_internet_access`: every target is resolved (`Resolves`,
`Grouped`) before the first write, and the call then goes from router to router
(`NextRouter`), collecting failures. `Reserve` is `reserve_current_ip`, which
resolves each target when its turn comes (`NextTarget`). `Lease` is the three
actions on one entry's list. What a router does under its locks is one of
`Confirmed`, `Refused` (a validation error), `Failed` and `Aborted`; the modules
above say what each of them means. A refusal may come after the write: the
confirmation raises a validation error for a row with a malformed address
(`router.py:863-875`), which a call on one router passes on. Entries are set up and unloaded, and
entities appear and go, at any time.

Abstractions: a call is made once; a direct list of devices is one target;
`reserve_current_ip` goes through its entities in any order (the code sorts
them); malformed data and unknown states end a call before anything else and
are left out. The service `remove_trackers` is in `ClientTracking`.

## The runs

| Run | Question | Bounds | Result |
|---|---|---|---|
| `PC_writers` | `TypeOK`, `LockHeld`, `WriteTouchesOnlyTargets`, `ImplementsService`, `GrowthWithinLimit` without faults, and `EveryTaskReturns` under `FairSpec` | 2 writers, 1 poll, 3 devices, limit 2, 3 requests (block two, remove one, allow two with a name), 2 initial tables (one of them over the limit), 3 attempts | holds |
| `PC_faults` | `RemovalHolds`, `NoResurrection`, `ConfirmedKept` with lost rows, late writes and web edits | 2 writers, 1 poll, 2 devices, 2 requests (remove one; allow the other, which leaves a bystander), 2 attempts | holds |
| `SD_calls` | `TypeOK`, `UniqueAddresses`, `CacheIsCurrent`, `ReservationsStay` | 3 tasks, 2 devices, 2 addresses, 7 operations, lost and failed calls | holds |
| `SD_web` | `OkIsTrue` with web edits and late writes, and `EveryCallReturns` under `FairSpec` | 2 tasks, one operation of each kind, otherwise the same | holds |
| `CT_updates` | `TypeOK`, `EveryClientTracked`, `TrackersCurrent`, `EventsAlternate` | a guest, a wired device with an ignored random address, a device outside the filter; 1 timer, 2 removal runs, 1 reload, 12 lists | holds |
| `CT_reload` | `TrackersOnPlatform` | 1 timer, 1 removal run, 1 reload | violated |
| `LC_list` | `NewestKept` | 3 devices, limit 2, 5 instants | holds |
| `AM_events` | `ConnectsOnce`, `NumberShown` | 2 nodes, 2 details each, every list, 2 overlapping updates | holds |
| `RS_switches` | `TypeOK`, `RemovalsUnderLock`, `EveryRuleHasSwitch`, `SwitchShowsRule`, `RemovedLeavesNothing`, and `EveryCallReturns` under `FairSpec` | 2 calls, 2 devices, 2 requests (remove both, block one), web edits that add or change a rule | holds |
| `EL_entry` | `TypeOK`, `OneRouterRegistered`, `ChangesNoticed`, `OnlyCheckedStored`, `ReauthOffered`, and `ReauthTakesEffect` under `FairSpec` | the password with 2 values, the mode with 2, 2 waiting reloads | holds |
| `EL_changes` | `SavedCredentialsUsed` | the same | violated |
| `SV_calls` | `TypeOK`, `OkMeansDone`, `ReportIsTrue`, `NoPartialRejection`, and `EveryCallReturns` under `FairSpec` | 2 calls, 2 entries (one set up twice), a tracker each (the second always of ours, with or without an address; the first anything), 4 requests | holds |

Two writers and one poll are enough for every pair of tasks that the lock has to
keep apart, and a queue of two behind a holder; two devices give a target and a
bystander; three attempts give a first, a middle and a last one (two attempts
where the run is about something else). Calls and polls repeat for ever, so
sequences of any length are covered. Deadlock is checked in every run but
`SV_calls`, where every call may have returned and every entry have been set up
as often as the bound says.

With web edits `WriteTouchesOnlyTargets` does not hold: the lock is the
integration's own, so an edit made in the router's web UI after the snapshot
(`bridge.py:919`) and before the write (`bridge.py:966`) is silently wiped, and
the confirmation, which compares with the snapshot, passes. The router offers
no compare-and-swap; the window is one HTTP round trip. The property is checked
and proved without web edits.

`SD_*`: each of two devices may want the address that the other one has, which
is the smallest conflict; one holder of the lock, one waiter and one task that
comes later are three tasks.

`README.md:35-36` of the repository says "Writes reject duplicate IP
assignments". Against the web UI they cannot: the check and the write are two
requests, and an address reserved there in between is given to a second device;
the read-back looks only at the row that was written. `UniqueAddresses` is
therefore checked and proved without web edits.

`CT_*`: one timer and two removal runs are three tasks whose lists can arrive in
every order, two of which may find the platform unloaded by the other; one
reload gives an old and a new set-up of the platform, and the bound `MaxReloads`
only limits how often (the theorems hold for any number). Three
devices are one that is a guest and goes offline, one that only comes and goes, and one that the filter drops. `CT_reload` is a
disagreement: `remove_trackers` reloads the platform while the callback of the
old set-up stays subscribed, runs first, and adds the trackers of later clients
to the unloaded platform, where unloading the entry does not find them.

`LC_list`: with limit 2 and 3 devices one is trimmed, comes back and is trimmed
again; 5 instants order their connections in every way, ties included.

`AM_*`: a node is absent, offline or online with either detail, which is every
transition of `AiMeshNode.update`; the second one shows that nodes do not share
anything.

`RS_*`: a removal of both switches has one that fails, is cancelled or ends late
beside one that does not; the other call brings a rule back while its old switch
is being removed, and an edit in the web UI does so between any two steps. The
history `orphaned` is what `asyncio.gather` without `return_exceptions` leaves
(`router.py:916`): when one removal raises, the call fails and the lock is
released while the other removals go on, against the comment at
`router.py:908`, and the clean-up of disabled switches is skipped.
`RemovalsUnderLock` and `EveryRuleHasSwitch` say that this is the only exception.

`EL_*`: two passwords make the credentials right or wrong at every step, the mode
decides what the menu offers, and two waiting reloads are one that is served and
one that finds the entry in whatever state the first has left. `EL_changes` is a
disagreement with `CHANGELOG.md:34-35` ("changing credentials reloads the
entry"): the options flow only stores what it checked and leaves the reload to
the update listener, which exists from the end of a set-up on. Credentials that
are corrected there after a refused set-up, or while one is under way, are used
by no set-up until something else reloads the entry; the reauthentication flow
has the case. The same copies show in two other ways: the options flow writes
back what it copied when it opened (`config_flow.py:1050`), and a
reauthentication what it copied before its check (`config_flow.py:745`), so the
later one silently undoes the other. `OnlyCheckedStored` says that even so only
credentials that were accepted once are stored.

Two failures leave something registered, and `OneRouterRegistered` says what
still holds of them. When disconnecting raises, `close` runs none of its
callbacks (`router.py:1427-1435`): the router's own timer and listener stay, but
Home Assistant will not set such an entry up again, so no second router joins
it. When the platforms' set-up raises (`__init__.py:96`), the next set-up
registers a second timer and listener beside the first, which no unload takes
back; the property excepts what follows such a failure (`botched`). A listener
that was left so has a consequence that the properties name as well
(`Deafened`): the reauthentication flow takes it for one that reloads the entry
(`config_flow.py:760`), but in a failed entry it finds no router in `hass.data`,
or one that already knows the new options, so `ReauthOffered` and
`ReauthTakesEffect` are stated without it.

`SV_*`: a call with trackers of both routers and a direct list, one that finds
its only router by itself, two reservations and a lease are every path through
the resolution; two calls over two routers are the smallest circle of waiting.
An entry that is set up twice gives a call a router object that has been
replaced. `reserve_current_ip` ends at the first target that fails, after it has
reserved addresses for those before it, and succeeds without doing anything for
an area without trackers; two routers that were unloaded are both called
"unknown" in the report. `OkMeansDone` and `ReportIsTrue` are stated for what
the code does promise. `NoPartialRejection` is stated for calls on device access:
`reserve_current_ip` passes on a refusal of a later target after it has reserved
addresses for earlier ones. A tracker of ours without a MAC address that
a call reaches through an area is kept (`services.py:257-263`), and the call is
then rejected.

More things that the models show of the code, with no property of their own:

* A client built from the registry starts as unknown, so that its return fires
  no event although the device was tracked before (`client.py:93`).
* A guest that is no longer listed keeps its connection object
  (`client.py:72-77`) and is counted as a connected guest for ever
  (`router.py:654`).
* A mesh node that is missing from the list fires `node_disconnected` at every
  poll, because that branch (`aimesh.py:101-106`) neither looks at nor clears its
  connected flag.
* A change inside a mesh node is also in the list that the sensor handler
  keeps, because the two share it, so that the sensor is not refreshed until the
  number or the set of nodes changes (`router.py:229-233`).
* `fire_event` applies the client filter to mesh nodes as well
  (`router.py:1474`).

### Fairness

`EveryTaskReturns` assumes weak fairness of a task's own next step (the event
loop runs what is ready, and the library bounds each request by a timeout, after
which it raises), of getting the lock (asyncio wakes waiters first come first
served) and of the router applying what it accepted. `EveryCallReturns` assumes
weak fairness of a task's own next step and strong fairness of `Start`: the lock
is free again and again, and a first-come-first-served lock does not pass a
waiter over for ever. The same two assumptions give `EveryCallReturns` of
`RuleSwitches` (with weak fairness of the removals, which the event loop runs)
and of `ServiceCalls`. `ReauthTakesEffect` assumes weak fairness of the stages of
a set-up or an unload, taken together: the event loop runs what is ready and the
library's requests end. Nothing is assumed of calls, polls, failures,
cancellations, edits, or of what a user does in a flow.

## What is proved

All theorems hold for every value of the constants that satisfies the named
assumptions of the module (`...Assumption`): mostly that the markers of absence
(`NoRule`, `NoTask`, ...) are none of the values they stand beside, and that
requests, tables and lists have their types. Where a theorem assumes
`Faults = {}`, it is said.

Of `ParentalControl`, for every set of devices, callers, polls, requests and tables:

* `TypeCorrect`: `Spec => []TypeOK`. `TypeOK` is inductive; it also says which
  locals a task has at which stage.
* `MutualExclusion`: `Spec => []LockHeld`, from `TypeOK`. Each step moves one
  task along the lock in one of a few ways (`LockMove`); the lemmas classify the
  steps, and one argument per kind of move suffices.
* `ConfirmedStaysKnown`: `Spec => [](RemovalHolds /\ NoResurrection /\
  ConfirmedKept)` under every fault. None is inductive: a poll could already
  carry an older table. The strengthening is that every table from which the
  known rules may be stored agrees with what was confirmed (`NothingStale`: the
  router's, the cache, and an answer on its way), that an answer on its way is the
  library's last one (`AnswerCached`), and `LockHeld`, which keeps a poll from
  being between its read and its store while a writer confirms. `Matches` is
  what makes a confirmation agree with its promise.
* `RefinementInvariant` and `Implements`, for `Faults = {}`:
  `Spec => ImplementsService`. `RefInv` says that the table about to be sent is
  the update of the router's current one, that an accepted write is an update of
  the table it will replace and is awaited by its writer or nobody, and that a
  removal being cleaned up still holds, and that an answer on its way to a
  writer is the router's table or the one that its own write has replaced since
  (`AnswerCurrent`). The key lemma, `MatchIsSent`, says that
  a table on which a request was based and which matches it already *is* the
  requested table, so a confirmation before the router has settled is sound.
* `WritesTouchOnlyTargets`, for `Faults = {}`: from `RefInv`.
* `GrowthStaysWithin`, for `Faults = {}`: `Spec => GrowthWithinLimit`. The
  invariant `FitsInv` says that the capacity was judged on the table that the
  write will replace, and `RefInv` that the write is the update of that table
  which was judged. That a removal, which is not judged, grows nothing is a
  fact about the cardinality of subsets.

Of `StaticDhcp`, for every set of tasks, devices, addresses and operations:

* `TypeCorrect`: `Spec => []TypeOK`, also with web edits and late writes.
* `AddressesStayUnique`, `ShownLeasesCurrent`, `ReserveMovesNothing`, for
  `Faults = {}`: `Spec => []UniqueAddresses`, `[]CacheIsCurrent` and
  `ReservationsStay`. None is inductive. The invariant `SafeInv` adds that a
  task inside an operation holds the lock (`Locked`), that an answer on its way
  is the router's current list (`AnswersCurrent`), that a set or reservation
  about to be written has no conflict and moves nothing it may not move
  (`Checked`), and that outside a write the cached list is the router's unless
  `unsure` (`Shown`). Without late writes none is under way (`NothingLate`).
* `SuccessIsTrue`: `Spec => OkIsTrue`, also with web edits and late writes. `TypeOK` says which
  operations can be at which stage; without it an operation that only refreshes
  could be taken for a verified one.

Of `ClientTracking`, for every set of devices, tasks and lists and every filter:

* `TypeCorrect`: `Spec => []TypeOK`, with what a task has at which stage
  (`HasList`) and that the platform is down, and one task about to set it up,
  between unloading and set-up (`Reloading`).
* `EventsAlternateAlways` and `EventsMatch`: `Spec => EventsAlternate` and
  `Spec => []EventsMatchState`. The invariant `EventInv` adds that who is not a
  client has had no event since it was removed, and that the filter leaves no
  other clients. The lemma `UpdateFits` is about one list applied to any clients
  with any history, and serves the setup and every later update.
* `ClientsStayTracked`: `Spec => [](EveryClientTracked /\ TrackersCurrent)`. Not
  inductive: the current callback adds no tracker for a device that it has
  tracked before. `TrackerInv` adds that such a device still has a tracker while
  the platform is loaded.

Of `AiMesh`, for every finite set of nodes, any number of updates and every lists:

* `TypeCorrect`: `Spec => []TypeOK`; that the sensor's number is at most the
  number of nodes needs the cardinality of a subset.
* `ConnectsOnceAlways`: `Spec => ConnectsOnce`. `MeshInv` adds `Fits`: only a
  known node has had an event, and one that is not connected was last announced
  as disconnected or found while offline. The lemma `MergeFits` is about one list
  applied to any nodes with any history.

* `NumberAlwaysShown`: `Spec => NumberShown`. `NumberInv`: the number that the
  router keeps is that of the connected nodes, and the sensor has published the
  one that its handler compares. So it does not matter that the handler's list
  changes with the nodes: a number that is unchanged is shown already.

Of `LatestConnected`, for any number of devices and any limit:

* `NewestAlwaysKept`: `Spec => []NewestKept`, from `NewestKept` and `Ages` (no
  connection is later than now, and the one that the router shows is the newest
  of its device). The sort is a permutation of the candidates because their
  ranks are different and none is above their number (`EveryRank`: an injection
  between finite sets of equal size is onto). A device that is seen but not
  listed was trimmed, so the old list was full, and it is no later than any
  entry of that list; `NoneOlder` shows by counting that no entry of the new list
  is older than the oldest one of a full old list.

Of `RuleSwitches`, for every set of devices, calls, requests and tables:

* `TypeCorrect`, `RemovalsAlwaysUnderLock`, `RulesHaveSwitches`,
  `SwitchesShowRules`: `Spec => []TypeOK`, `[]RemovalsUnderLock`,
  `[]EveryRuleHasSwitch`, `[]SwitchShowsRule`, all from one invariant,
  `SwitchInv`. It adds that a call past the queue holds the lock (`LockInv`), that
  a call which awaits removals has removed the rules and awaits every switch of
  its devices that is still on the platform (`RemovingInv`), and that `tracked`
  has exactly the switches on the platform, while a switch that is to go before
  its predecessor has gone was left behind by its call (`PlatformInv`).
* `RemovalLeavesNothing`: `Spec => RemovedLeavesNothing`, from the same: when the
  last awaited removal is over, `RemovingInv` leaves none of the devices a rule or a
  switch, and the step itself clears what is left in the registry.

Of `EntryLifecycle` with `ConfigFlows`, for any options and values:

* `TypeCorrect`, `OneIsRegistered`, `ChangesAreNoticed`, `StoredWereChecked`,
  `ReauthAlwaysOffered`: `Spec => []TypeOK`, `[]OneRouterRegistered`,
  `[]ChangesNoticed`, `[]OnlyCheckedStored`, `[]ReauthOffered`. The invariant
  `FlowInv` relates `state` and `stage` (`PhaseInv`), says that the timer and the
  listener are there while the router is up, and otherwise only after the set-up
  of the platforms has failed (`RouterInv`), that the router in `hass.data` knows
  the stored options and the last one was built from them or has a reload waiting
  (`OptionsInv`), and that the copy of a flow past the check has credentials that
  were accepted (`DialogInv`).
* `ChangesAreNoticed` needs that every field that a form can change is one whose
  change reloads the entry (`CONF_REQ_RELOAD`); the lemma `FieldsReload` shows it
  of the lists in `const.py`. `Names`, the options of an instance, is therefore
  assumed to be among `FormFields`.

Of `ServiceCalls`, for any entries, entities, set-ups, calls and requests:

* `TypeCorrect`, `SuccessChangesAll`, `ReportAlwaysTrue`, `RejectedAtOnce`:
  `Spec => []TypeOK`, `[]OkMeansDone`, `[]ReportIsTrue`,
  `[]NoPartialRejection`. The invariant `SafeInv` follows a call through its
  loop: each router it resolved is behind it on one side of the report, is the
  one it is at, or is still to come (`Loop`); the sides are disjoint and true
  (`Outcome`); nothing is confirmed before the first router is through, and
  what is rejected later is rejected by a call's only router (`Honest`); no target is lost (`Covered`); a router
  object that was named is not made the loaded one again (`NamedRight`).
* `NoCircleOfWaiting`: `Spec => [](LockInv /\ WaitsForWorker)`, the safety half
  of `EveryCallReturns`: a call holds the lock of the router object that it works
  on and no other, so whoever keeps a call waiting does not wait itself.

Proved without a run of their own: `RefInv`, `NothingStale` and
`EventsMatchState`, strengthenings named above, `NoCircleOfWaiting`, and `TypeOK`
of `AiMesh`.

Only model-checked: the liveness properties `EveryTaskReturns`,
`EveryCallReturns` and `ReauthTakesEffect`, which rest on fairness and so are out
of the prover's reach. Every safety and action property that a passing run
checks has a theorem.

## What is not modelled

* The unlocked read of the parental-control sensor coordinator
  (`bridge.py:577`), which may refill the library's cache: whether it can hand
  an old table to a poll depends on the library's caching policy.
* The flag `_connect_error` (it only decides whether an error is logged) and the
  delay arithmetic before the first confirmation.
* Whether a task that `async_add_entities` starts runs before the platform it
  was given to is unloaded: trackers are added in the step of the signal.
* The migration of entries of version 4, and the close of the connection when Home
  Assistant stops.
* `remove_trackers` is registered by each router under one name
  (`router.py:1331`): the last set-up's handler gets every call, and unloading an
  entry leaves it. `ClientTracking` has one router.
* After a reload, the old and the new router object of one physical router have
  locks of their own, so a call that still works on the old one is not excluded
  by one on the new one. `ServiceCalls` has the two objects, but not the tables
  behind them.
* What an ARDevice does after its entry has been unloaded, beyond the timer and
  the listener that a failed set-up leaves: a device with the merge bug makes the
  set-up give up with its connection open, and nobody has that bridge any more.
* A router object that is replaced while a call waits for its lock: the call goes
  on with it, and whether a closed router fails the call is the library's.
* The validation of forms and service data, the wording of errors, and the
  defaults that a form shows.
* The other sensor coordinators, lights, firmware update, sensors, diagnostics
  and constants are views or data without a behaviour of their own.
