-------------------------- MODULE ConfigFlowsProofs --------------------------
(***************************************************************************)
(* Machine-checked proofs about EntryLifecycle and ConfigFlows, for every   *)
(* choice of the options that are modelled and of their values.             *)
(***************************************************************************)
EXTENDS ConfigFlows, TLAPS

\* The entry's state, at each stage of its life.
PhaseInv ==
  /\ stage = "idle" =>
       state \in {"absent", "not_loaded", "loaded", "retry", "auth", "error", "stuck"}
  /\ stage \in {"check", "connect", "load", "forward"} => state = "setting_up"
  /\ stage \in {"unload", "disconnect"} => state = "unloading"

\* The last router is registered with Home Assistant.
Up == stage = "forward" \/ state \in {"loaded", "unloading", "stuck"}

\* It is not: it is being set up, has failed before it registered, or was closed.
Down == stage \in {"connect", "load"} \/ state \in {"absent", "not_loaded", "retry", "auth"}

\* The router that a set-up has built, and no unload has begun to take down.
Built == stage \in {"connect", "load", "forward"} \/ state = "loaded"

\* What the last router has registered.  After an error, or when the next set-up
\* begins, it is there only if the set-up of the platforms has failed.
RouterInv ==
  /\ strays # {} => botched
  /\ running = {} \/ running = {"timer", "listener"}
  /\ running # {} => data # NoRouter
  /\ running # {} => Up \/ botched
  /\ Up => running # {}
  /\ Down => running = {}
  /\ Up \/ Built => router # NoRouter

\* The router in hass.data knows the options that are stored, if it is the last one.
\* That one was built from them unless a reload is on its way, except for changes
\* that were made before it was registered.
OptionsInv ==
  /\ running # {} /\ ~unheard => data = options
  /\ Built /\ ~unheard => router = options \/ (running # {} /\ reloads > 0)

\* The copy of an options flow, and that of a user flow past the check, has
\* credentials that a router has accepted.
DialogInv ==
  dialog # NoDialog /\ (dialog.kind = "options" \/ dialog.step \in {"operation", "menu"}) =>
    Credentials(dialog.draft) \in accepted

FlowInv ==
  /\ TypeOK /\ PhaseInv /\ RouterInv /\ OptionsInv /\ DialogInv
  /\ OnlyCheckedStored /\ ReauthOffered

-----------------------------------------------------------------------------
(* Options and forms *)

\* Every field of every form is in CONF_REQ_RELOAD.
LEMMA FieldsReload == FormFields \subseteq ReloadNames
  <1>1. /\ CredentialFields \subseteq ReloadNames
        /\ OperationFields \subseteq ReloadNames
        /\ InterfaceFields \subseteq ReloadNames
        /\ EventFields \subseteq ReloadNames
        /\ SecurityFields \subseteq ReloadNames
    BY DEF CredentialFields, OperationFields, InterfaceFields, EventFields,
           SecurityFields, ReloadNames
  <1>2. DeviceFields("router") \subseteq ReloadNames
    BY DEF DeviceFields, ReloadNames
  <1>3. \A split \in BOOLEAN : IntervalFields(split) \subseteq ReloadNames
    <2>1. {"cache_time", "scan_interval", "interval_firmware"} \subseteq ReloadNames
      BY DEF ReloadNames, IntervalNames
    <2>2. IntervalNames \subseteq ReloadNames
      BY DEF ReloadNames
    <2> QED BY <2>1, <2>2 DEF IntervalFields
  <1> QED BY <1>1, <1>2, <1>3 DEF FormFields

LEMMA NamesReload == Names \subseteq ReloadNames
  BY FieldsReload, FlowAssumption

\* No form but that of the credentials asks for credentials.
LEMMA MenuFields ==
  ASSUME NEW o, NEW fields \in Menu(o)
  PROVE  fields \cap CredentialFields = {}
  <1>1. /\ OperationFields \cap CredentialFields = {}
        /\ InterfaceFields \cap CredentialFields = {}
        /\ EventFields \cap CredentialFields = {}
        /\ SecurityFields \cap CredentialFields = {}
    BY DEF CredentialFields, OperationFields, InterfaceFields, EventFields, SecurityFields
  <1>2. DeviceFields(ModeOf(o)) \cap CredentialFields = {}
    BY DEF DeviceFields, CredentialFields
  <1>3. IntervalFields(SplitOf(o)) \cap CredentialFields = {}
    BY DEF IntervalFields, IntervalNames, CredentialFields
  <1> QED BY <1>1, <1>2, <1>3 DEF Menu

LEMMA MergeType ==
  ASSUME NEW o \in Options, NEW fields, NEW a \in Answers(fields)
  PROVE  Merge(o, a) \in Options
  <1> DEFINE V == UNION {Values[n] : n \in Names}
  <1>1. a \in [fields \cap Names -> V]
    BY DEF Answers
  <1>2. o \in [Names -> V \cup {NoValue}]
    BY DEF Options
  <1> HIDE DEF V
  <1>3. Merge(o, a) \in [Names -> V \cup {NoValue}]
    BY <1>1, <1>2 DEF Merge
  <1> QED BY <1>3 DEF Options, V

LEMMA MergeKeeps ==
  ASSUME NEW o, NEW fields, fields \cap CredentialFields = {}, NEW a \in Answers(fields)
  PROVE  Credentials(Merge(o, a)) = Credentials(o)
  <1>1. DOMAIN a = fields \cap Names
    BY DEF Answers
  <1>2. \A n \in Names \cap CredentialFields : Merge(o, a)[n] = o[n]
    BY <1>1 DEF Merge
  <1> QED BY <1>2 DEF Credentials

LEMMA CredentialsType ==
  ASSUME NEW o \in Options
  PROVE  Credentials(o) \in AllCredentials
  <1> DEFINE V == UNION {Values[n] : n \in Names}
  <1>1. o \in [Names -> V \cup {NoValue}]
    BY DEF Options
  <1> HIDE DEF V
  <1>2. Credentials(o) \in [Names \cap CredentialFields -> V \cup {NoValue}]
    BY <1>1 DEF Credentials
  <1> QED BY <1>2 DEF AllCredentials, V

LEMMA NoOptionsType == NoOptions \in Options
  BY DEF NoOptions, Options

\* Other options than those that the registered router knows restart something.
LEMMA ReloadNeeded ==
  ASSUME NEW new \in Options, data \in Options, new # data
  PROVE  NeedsReload(new)
  <1>1. PICK n \in Names : data[n] # new[n]
    BY DEF Options
  <1> QED BY <1>1, NamesReload DEF NeedsReload

-----------------------------------------------------------------------------
(* The life of an entry *)

EntryInv == EntryTypeOK /\ PhaseInv /\ RouterInv /\ OptionsInv

LEMMA LifeKeeps ==
  ASSUME EntryInv, LifeStep
  PROVE  /\ EntryInv'
         /\ UNCHANGED options /\ state # "absent" /\ state' # "auth"
  <1>1. EntryTypeOK /\ PhaseInv /\ RouterInv /\ OptionsInv
    BY DEF EntryInv
  <1>2. CASE BeginSetup \/ LibraryTooOld \/ ConnectFails \/ BuggedDevice \/ SetupRaises
             \/ Forward \/ PlatformStays \/ UnloadPlatforms \/ DisconnectFails
    <2>1. UNCHANGED <<options, reloads, router, connected, running, strays, data, good,
                      unheard, botched>>
      BY <1>2 DEF BeginSetup, LibraryTooOld, ConnectFails, BuggedDevice, SetupRaises,
                  SetupFails, Forward, PlatformStays, UnloadPlatforms,
                  DisconnectFails, routerVars, pastVars
    <2>2. \/ /\ stage = "idle" /\ state \in {"not_loaded", "retry"}
             /\ state' = "setting_up" /\ stage' = "check"
          \/ stage = "check" /\ state' = "error" /\ stage' = "idle"
          \/ /\ stage \in {"connect", "load"}
             /\ state' \in {"retry", "error"} /\ stage' = "idle"
          \/ stage = "forward" /\ state' = "loaded" /\ stage' = "idle"
          \/ stage \in {"unload", "disconnect"} /\ state' = "stuck" /\ stage' = "idle"
          \/ stage = "unload" /\ state' = "unloading" /\ stage' = "disconnect"
      BY <1>2 DEF BeginSetup, LibraryTooOld, ConnectFails, BuggedDevice, SetupRaises,
                  SetupFails, Forward, PlatformStays, UnloadPlatforms,
                  DisconnectFails, Enter
    <2>3. EntryTypeOK' /\ PhaseInv'
      BY <1>1, <2>1, <2>2 DEF EntryTypeOK, PhaseInv, States, Stages
    <2>4. RouterInv' /\ OptionsInv'
      BY <1>1, <2>1, <2>2 DEF PhaseInv, RouterInv, OptionsInv, Up, Down, Built
    <2>5. state # "absent" /\ state' # "auth"
      BY <1>1, <2>2 DEF PhaseInv
    <2> QED BY <2>1, <2>3, <2>4, <2>5 DEF EntryInv
  <1>3. CASE Connect
    <2>1. /\ stage = "connect" /\ connected' = TRUE
          /\ state' = "setting_up" /\ stage' = "load"
          /\ UNCHANGED <<options, reloads, router, running, strays, data, good, unheard,
                         botched>>
      BY <1>3 DEF Connect, Enter, pastVars
    <2>2. EntryTypeOK' /\ PhaseInv'
      BY <1>1, <2>1 DEF EntryTypeOK, PhaseInv, States, Stages
    <2>3. RouterInv' /\ OptionsInv'
      BY <1>1, <2>1 DEF PhaseInv, RouterInv, OptionsInv, Up, Down, Built
    <2>4. state # "absent" /\ state' # "auth"
      BY <1>1, <2>1 DEF PhaseInv
    <2> QED BY <2>1, <2>2, <2>3, <2>4 DEF EntryInv
  <1>4. CASE Load
    <2>1. /\ stage = "load" /\ stage' = "forward" /\ state' = "setting_up"
          /\ running' = {"timer", "listener"} /\ data' = router
          /\ UNCHANGED <<options, reloads, router, connected, strays, good, unheard,
                         botched>>
      BY <1>4 DEF Load, Enter, pastVars
    <2>2. router # NoRouter /\ running = {}
      BY <1>1, <2>1 DEF RouterInv, Built, Down
    <2>3. EntryTypeOK' /\ PhaseInv'
      BY <1>1, <2>1 DEF EntryTypeOK, PhaseInv, States, Stages
    <2>4. RouterInv' /\ OptionsInv'
      BY <1>1, <2>1, <2>2 DEF PhaseInv, RouterInv, OptionsInv, Up, Down, Built
    <2>5. state # "absent" /\ state' # "auth"
      BY <1>1, <2>1 DEF PhaseInv
    <2> QED BY <2>1, <2>3, <2>4, <2>5 DEF EntryInv
  <1>5. CASE ForwardFails
    <2>1. /\ stage = "forward" /\ state' = "error" /\ stage' = "idle" /\ botched' = TRUE
          /\ UNCHANGED <<options, reloads, router, connected, running, strays, data, good,
                         unheard>>
      BY <1>5 DEF ForwardFails, Enter, routerVars
    <2>2. EntryTypeOK' /\ PhaseInv'
      BY <1>1, <2>1 DEF EntryTypeOK, PhaseInv, States, Stages
    <2>3. RouterInv' /\ OptionsInv'
      BY <1>1, <2>1 DEF RouterInv, OptionsInv, Up, Down, Built
    <2>4. state # "absent" /\ state' # "auth"
      BY <1>1, <2>1 DEF PhaseInv
    <2> QED BY <2>1, <2>2, <2>3, <2>4 DEF EntryInv
  <1>6. CASE BeginReload
    <2>1. /\ stage = "idle" /\ reloads > 0 /\ reloads' = reloads - 1
          /\ UNCHANGED <<options, router, connected, running, strays, data, good, unheard,
                         botched>>
          /\ \/ state = "loaded" /\ state' = "unloading" /\ stage' = "unload"
             \/ state = "stuck" /\ UNCHANGED <<state, stage>>
             \/ /\ state \in {"not_loaded", "retry", "auth", "error"}
                /\ state' = "setting_up" /\ stage' = "check"
      BY <1>6 DEF BeginReload, routerVars, pastVars, Enter
    <2>2. reloads' \in 0 .. MaxReloads
      BY <1>1, <2>1, EntryAssumption DEF EntryTypeOK
    <2>3. EntryTypeOK' /\ PhaseInv'
      BY <1>1, <2>1, <2>2 DEF EntryTypeOK, PhaseInv, States, Stages
    <2>4. RouterInv' /\ OptionsInv'
      BY <1>1, <2>1 DEF PhaseInv, RouterInv, OptionsInv, Up, Down, Built
    <2>5. state # "absent" /\ state' # "auth"
      BY <2>1
    <2> QED BY <2>1, <2>3, <2>4, <2>5 DEF EntryInv
  <1>7. CASE UnloadDisconnected \/ Disconnect
    <2>1. /\ stage \in {"unload", "disconnect"} /\ stage' = "check"
          /\ state' = "setting_up" /\ running' = {} /\ data' = NoRouter
          /\ connected' = FALSE
          /\ UNCHANGED <<options, reloads, router, strays, good, unheard, botched>>
      BY <1>7 DEF UnloadDisconnected, Disconnect, Closed, OnClose, Enter, pastVars
    <2>2. EntryTypeOK' /\ PhaseInv'
      BY <1>1, <2>1 DEF EntryTypeOK, PhaseInv, States, Stages
    <2>3. RouterInv' /\ OptionsInv'
      BY <1>1, <2>1 DEF RouterInv, OptionsInv, Up, Down, Built
    <2>4. state # "absent" /\ state' # "auth"
      BY <1>1, <2>1 DEF PhaseInv
    <2> QED BY <2>1, <2>2, <2>3, <2>4 DEF EntryInv
  <1> QED BY <1>2, <1>3, <1>4, <1>5, <1>6, <1>7 DEF LifeStep

LEMMA WorldKeeps ==
  ASSUME EntryInv, World
  PROVE  EntryInv' /\ UNCHANGED <<state, options, strays>> /\ reloads' >= reloads
  <1>1. EntryTypeOK /\ PhaseInv /\ RouterInv /\ OptionsInv
    BY DEF EntryInv
  <1>2. /\ UNCHANGED <<state, options, stage, router, running, strays, data, unheard, botched>>
        /\ connected' \in BOOLEAN /\ good' \in AllCredentials
        /\ \/ UNCHANGED reloads
           \/ reloads < MaxReloads /\ reloads' = reloads + 1
    BY <1>1 DEF World, ManualReload, ConnectionChanges, ChangeCredentials, CallReload,
                entryVars, routerVars, pastVars, EntryTypeOK
  <1>3. reloads' \in 0 .. MaxReloads /\ reloads' >= reloads
    BY <1>1, <1>2, EntryAssumption DEF EntryTypeOK
  <1>4. EntryTypeOK' /\ PhaseInv'
    BY <1>1, <1>2, <1>3 DEF EntryTypeOK, PhaseInv
  <1>5. RouterInv'
    BY <1>1, <1>2 DEF RouterInv, Up, Down, Built
  <1>6. OptionsInv'
    BY <1>1, <1>2, <1>3 DEF OptionsInv, Built, EntryTypeOK
  <1> QED BY <1>2, <1>3, <1>4, <1>5, <1>6 DEF EntryInv

LEMMA ConstructKeeps ==
  ASSUME EntryInv, Construct
  PROVE  /\ EntryInv' /\ UNCHANGED <<options, reloads>>
         /\ state # "absent" /\ state' # "auth"
  <1>1. EntryTypeOK /\ PhaseInv /\ RouterInv /\ OptionsInv
    BY DEF EntryInv
  <1>2. /\ stage = "check" /\ state' = "setting_up" /\ stage' = "connect"
        /\ router' = options
        /\ strays' = strays \cup running /\ running' = {}
        /\ connected' = FALSE /\ unheard' = FALSE
        /\ UNCHANGED <<options, reloads, data, good, botched>>
    BY DEF Construct, Enter
  <1>3. state = "setting_up" /\ (running # {} => botched)
    BY <1>1, <1>2 DEF PhaseInv, RouterInv, Up
  <1>4. router' \in Options /\ router' # NoRouter
    BY <1>1, <1>2, EntryAssumption DEF EntryTypeOK
  <1>5. EntryTypeOK' /\ PhaseInv'
    BY <1>1, <1>2, <1>3, <1>4 DEF EntryTypeOK, PhaseInv, States, Stages
  <1>6. strays' # {} => botched'
    BY <1>1, <1>2, <1>3 DEF RouterInv
  <1>7. RouterInv'
    BY <1>2, <1>4, <1>6 DEF RouterInv, Up, Down
  <1>8. OptionsInv'
    BY <1>2 DEF OptionsInv
  <1> QED BY <1>2, <1>3, <1>5, <1>7, <1>8 DEF EntryInv

LEMMA RefusedKeeps ==
  ASSUME EntryInv, ConnectRefused
  PROVE  EntryInv' /\ UNCHANGED <<options, reloads>> /\ state # "absent"
  <1>1. EntryTypeOK /\ PhaseInv /\ RouterInv /\ OptionsInv
    BY DEF EntryInv
  <1>2. /\ stage = "connect" /\ state' = "auth" /\ stage' = "idle"
        /\ UNCHANGED <<options, reloads, router, connected, running, strays, data, good,
                       unheard, botched>>
    BY DEF ConnectRefused, SetupFails, Enter, routerVars, pastVars
  <1>3. EntryTypeOK' /\ PhaseInv' /\ state # "absent"
    BY <1>1, <1>2 DEF EntryTypeOK, PhaseInv, States, Stages
  <1>4. RouterInv' /\ OptionsInv'
    BY <1>1, <1>2 DEF PhaseInv, RouterInv, OptionsInv, Up, Down, Built
  <1> QED BY <1>2, <1>3, <1>4 DEF EntryInv

\* New options, and what the update listeners make of them.
LEMMA UpdateKeeps ==
  ASSUME EntryInv, NEW new \in Options, reloads < MaxReloads, UpdateEntry(new),
         UNCHANGED <<state, stage, router, connected, running, strays, good, botched>>
  PROVE  EntryInv' /\ options' = new /\ reloads' >= reloads
  <1>1. EntryTypeOK /\ PhaseInv /\ RouterInv /\ OptionsInv
    BY DEF EntryInv
  <1>2. options' = new
    BY DEF UpdateEntry
  <1>3. reloads \in Nat /\ MaxReloads \in Nat /\ reloads + 1 \in 0 .. MaxReloads
    BY <1>1, EntryAssumption DEF EntryTypeOK
  <1>4. PhaseInv'
    BY <1>1 DEF PhaseInv
  <1>5. CASE new = options
    <2>1. UNCHANGED <<options, reloads, data, unheard>>
      BY <1>5 DEF UpdateEntry
    <2>2. EntryTypeOK' /\ RouterInv' /\ OptionsInv'
      BY <1>1, <2>1 DEF EntryTypeOK, RouterInv, OptionsInv, Up, Down, Built
    <2> QED BY <1>2, <1>3, <1>4, <2>1, <2>2 DEF EntryInv
  <1>6. CASE new # options
    <2>1. /\ data' = (IF Listening THEN new ELSE data)
          /\ IF Listening /\ NeedsReload(new) THEN reloads' = reloads + 1
             ELSE UNCHANGED reloads
          /\ unheard' = (unheard \/ running = {})
      BY <1>6 DEF UpdateEntry, Listen, Restarts, CallReload
    <2>2. reloads' \in 0 .. MaxReloads /\ reloads' >= reloads
      BY <1>1, <1>3, <2>1 DEF EntryTypeOK
    <2>3. new # NoRouter /\ data' \in Options \cup {NoRouter}
      BY <1>1, <2>1, EntryAssumption DEF EntryTypeOK
    <2>4. running # {} => Listening /\ data \in Options
      BY <1>1 DEF RouterInv, Listening, Hears, EntryTypeOK
    <2>5. running # {} /\ ~unheard => reloads' > 0
      <3>1. SUFFICES ASSUME running # {}, ~unheard PROVE reloads' > 0
        OBVIOUS
      <3>2. data = options
        BY <1>1, <3>1 DEF OptionsInv
      <3>3. NeedsReload(new)
        BY <1>6, <2>4, <3>1, <3>2, ReloadNeeded
      <3> QED BY <1>3, <2>1, <2>4, <3>1, <3>3
    <2>6. EntryTypeOK'
      BY <1>1, <1>2, <2>1, <2>2, <2>3 DEF EntryTypeOK
    <2>7. RouterInv'
      BY <1>1, <2>1, <2>3 DEF RouterInv, Up, Down, Built
    <2>8. OptionsInv'
      BY <1>2, <2>1, <2>4, <2>5 DEF OptionsInv, Built
    <2> QED BY <1>2, <1>4, <2>2, <2>6, <2>7, <2>8 DEF EntryInv
  <1> QED BY <1>5, <1>6

\* New options that no listener hears of, with a reload.
LEMMA UnheardKeeps ==
  ASSUME EntryInv, NEW new \in Options, reloads < MaxReloads, options' = new, ~Hears,
         unheard' = (unheard \/ options' # options), CallReload,
         UNCHANGED <<state, stage, router, connected, running, strays, data, good, botched>>
  PROVE  EntryInv' /\ reloads' > 0
  <1>1. EntryTypeOK /\ PhaseInv /\ RouterInv /\ OptionsInv
    BY DEF EntryInv
  <1>2. reloads' \in 0 .. MaxReloads /\ reloads' > 0
    BY <1>1, EntryAssumption DEF EntryTypeOK, CallReload
  <1>3. EntryTypeOK' /\ PhaseInv'
    BY <1>1, <1>2 DEF EntryTypeOK, PhaseInv
  <1>4. RouterInv' /\ running = {}
    BY <1>1 DEF RouterInv, Up, Down, Built, Hears
  <1>5. OptionsInv'
    BY <1>1, <1>4 DEF OptionsInv, Built
  <1> QED BY <1>2, <1>3, <1>4, <1>5 DEF EntryInv

-----------------------------------------------------------------------------
(* The user flow and the options flow *)

DialogType == dialog \in Dialog \cup {NoDialog}

\* What the steps of a dialog keep that leave the entry alone.
DialogParts ==
  /\ DialogType /\ DialogInv
  /\ accepted \subseteq AllCredentials

LEMMA OpenKeeps ==
  ASSUME FlowInv, OpenUser \/ OpenOptions \/ Abandon
  PROVE  DialogParts' /\ UNCHANGED <<lifeVars, reauth, accepted, due>>
  <1>1. options \in Options /\ accepted \subseteq AllCredentials
    BY DEF FlowInv, TypeOK, EntryTypeOK
  <1>2. UNCHANGED <<lifeVars, reauth, accepted, due>>
    BY DEF OpenUser, OpenOptions, Abandon, NotEntry, NotReauth
  <1>3. CASE OpenUser
    <2>1. dialog' = [kind |-> "user", step |-> "find",
                     draft |-> NoOptions, input |-> NoOptions]
      BY <1>3 DEF OpenUser, Show
    <2>2. dialog' \in Dialog
      BY <2>1, NoOptionsType DEF Dialog
    <2>3. DialogInv'
      BY <2>1 DEF DialogInv
    <2> QED BY <1>1, <1>2, <2>2, <2>3 DEF DialogParts, DialogType
  <1>4. CASE OpenOptions
    <2>1. state # "absent" /\
          dialog' = [kind |-> "options", step |-> "menu",
                     draft |-> options, input |-> NoOptions]
      BY <1>4 DEF OpenOptions, Show
    <2>2. dialog' \in Dialog
      BY <1>1, <2>1, NoOptionsType DEF Dialog
    <2>3. Credentials(options) \in accepted
      BY <2>1 DEF FlowInv, OnlyCheckedStored
    <2>4. DialogInv'
      BY <1>2, <2>1, <2>3 DEF DialogInv
    <2> QED BY <1>1, <1>2, <2>2, <2>4 DEF DialogParts, DialogType
  <1>5. CASE Abandon
    <2>1. dialog' = NoDialog
      BY <1>5 DEF Abandon
    <2> QED BY <1>1, <1>2, <2>1 DEF DialogParts, DialogType, DialogInv
  <1> QED BY <1>3, <1>4, <1>5

LEMMA DialogFields ==
  ASSUME TypeOK, dialog # NoDialog
  PROVE  /\ dialog \in Dialog
         /\ dialog.draft \in Options /\ dialog.input \in Options
  BY DEF TypeOK, Dialog

\* A dialog goes on with the copy that it has.
LEMMA StepKeeps ==
  ASSUME FlowInv, Find \/ ChooseCredentials \/ SubmitCredentials \/ CheckFails
  PROVE  DialogParts' /\ UNCHANGED <<lifeVars, reauth, accepted, due>>
  <1>1. /\ dialog # NoDialog /\ UNCHANGED <<lifeVars, reauth, accepted, due>>
    BY DEF Find, ChooseCredentials, SubmitCredentials, CheckFails, NotEntry, NotReauth
  <1>2. /\ dialog \in Dialog /\ dialog.draft \in Options /\ DialogInv
        /\ accepted \subseteq AllCredentials
    BY <1>1, DialogFields DEF FlowInv, TypeOK
  <1>3. \/ \E st \in {"credentials", "checking"}, input \in Options :
             dialog' = [dialog EXCEPT !.step = st, !.input = input]
        \/ dialog.kind = "options" /\ dialog' = [dialog EXCEPT !.step = "menu"]
    <2>1. CASE Find \/ ChooseCredentials
      <3>1. dialog' = [dialog EXCEPT !.step = "credentials"]
        BY <2>1 DEF Find, ChooseCredentials, Show
      <3>2. dialog' = [dialog EXCEPT !.step = "credentials", !.input = dialog.input]
        BY <1>2, <3>1 DEF Dialog
      <3> QED BY <1>1, <3>2, DialogFields DEF FlowInv
    <2>2. CASE SubmitCredentials
      <3>1. PICK a \in Answers(CredentialFields) :
              IF dialog.kind = "options" /\ Merge(dialog.draft, a) = dialog.draft
              THEN dialog' = [dialog EXCEPT !.step = "menu"]
              ELSE dialog' = [dialog EXCEPT !.step = "checking",
                                            !.input = Merge(dialog.draft, a)]
        BY <2>2 DEF SubmitCredentials, Show
      <3>2. Merge(dialog.draft, a) \in Options
        BY <1>2, MergeType
      <3> QED BY <3>1, <3>2
    <2>3. CASE CheckFails
      BY <2>3, NoOptionsType DEF CheckFails, Show
    <2> QED BY <2>1, <2>2, <2>3
  <1>4. /\ dialog' \in Dialog /\ dialog'.kind = dialog.kind /\ dialog'.draft = dialog.draft
        /\ dialog.kind = "options" \/ dialog'.step \in {"credentials", "checking"}
    BY <1>2, <1>3 DEF Dialog
  <1>5. DialogInv'
    BY <1>1, <1>2, <1>4 DEF DialogInv
  <1> QED BY <1>1, <1>2, <1>4, <1>5 DEF DialogParts, DialogType

\* The credentials that were checked are accepted, and go into the copy.
LEMMA CheckedKeeps ==
  ASSUME FlowInv, OptionsChecked \/ UserChecked
  PROVE  DialogParts' /\ accepted \subseteq accepted' /\ UNCHANGED <<lifeVars, reauth, due>>
  <1>1. /\ dialog # NoDialog /\ UNCHANGED <<lifeVars, reauth, due>>
        /\ accepted' = accepted \cup {Credentials(dialog.input)}
        /\ \E st \in {"menu", "operation"} :
             dialog' = [dialog EXCEPT !.step = st, !.draft = dialog.input, !.input = NoOptions]
    BY DEF OptionsChecked, UserChecked, Checked, Show, NotEntry, NotReauth
  <1>2. /\ dialog \in Dialog /\ dialog.input \in Options
        /\ accepted \subseteq AllCredentials
    BY <1>1, DialogFields DEF FlowInv, TypeOK
  <1>3. dialog' \in Dialog /\ dialog'.draft = dialog.input
    BY <1>1, <1>2, NoOptionsType DEF Dialog
  <1>4. DialogInv'
    BY <1>1, <1>3 DEF DialogInv
  <1>5. accepted' \subseteq AllCredentials
    BY <1>1, <1>2, CredentialsType
  <1> QED BY <1>1, <1>3, <1>4, <1>5 DEF DialogParts, DialogType

\* A form without credentials changes the copy.
LEMMA FormKeeps ==
  ASSUME FlowInv, Operation \/ UserForm \/ OptionsForm
  PROVE  DialogParts' /\ UNCHANGED <<lifeVars, reauth, accepted, due>>
  <1>1. /\ dialog # NoDialog /\ UNCHANGED <<lifeVars, reauth, accepted, due>>
        /\ dialog.kind = "options" \/ dialog.step \in {"operation", "menu"}
    BY DEF Operation, UserForm, OptionsForm, Submit, NotEntry, NotReauth
  <1>2. /\ dialog \in Dialog /\ dialog.draft \in Options
        /\ accepted \subseteq AllCredentials
        /\ Credentials(dialog.draft) \in accepted
    BY <1>1, DialogFields DEF FlowInv, TypeOK, DialogInv
  <1>3. \E fields : /\ fields \cap CredentialFields = {}
                    /\ \E a \in Answers(fields), st \in {"operation", "menu", dialog.step} :
                         dialog' = [dialog EXCEPT !.step = st,
                                                  !.draft = Merge(dialog.draft, a)]
    <2>1. CASE Operation
      <3>1. OperationFields \cap CredentialFields = {}
        BY DEF OperationFields, CredentialFields
      <3> QED BY <2>1, <3>1 DEF Operation, Show
    <2>2. CASE UserForm \/ OptionsForm
      <3>1. PICK fields \in Menu(dialog.draft) : Submit(fields)
        BY <2>2 DEF UserForm, OptionsForm
      <3>2. PICK a \in Answers(fields) :
              dialog' = [dialog EXCEPT !.draft = Merge(dialog.draft, a)]
        BY <3>1 DEF Submit, Show
      <3>3. dialog' = [dialog EXCEPT !.step = dialog.step,
                                     !.draft = Merge(dialog.draft, a)]
        BY <1>2, <3>2 DEF Dialog
      <3>4. fields \cap CredentialFields = {}
        BY MenuFields
      <3> QED BY <3>3, <3>4
    <2> QED BY <2>1, <2>2
  <1>4. PICK fields : /\ fields \cap CredentialFields = {}
                      /\ \E a \in Answers(fields), st \in {"operation", "menu", dialog.step} :
                           dialog' = [dialog EXCEPT !.step = st,
                                                    !.draft = Merge(dialog.draft, a)]
    BY <1>3
  <1>5. PICK a \in Answers(fields), st \in {"operation", "menu", dialog.step} :
          dialog' = [dialog EXCEPT !.step = st, !.draft = Merge(dialog.draft, a)]
    BY <1>4
  <1>6. Merge(dialog.draft, a) \in Options
    BY <1>2, MergeType
  <1>7. Credentials(Merge(dialog.draft, a)) = Credentials(dialog.draft)
    BY <1>4, MergeKeeps
  <1>8. dialog' \in Dialog /\ dialog'.draft = Merge(dialog.draft, a)
    BY <1>2, <1>5, <1>6 DEF Dialog
  <1>9. DialogInv'
    BY <1>1, <1>2, <1>7, <1>8 DEF DialogInv
  <1> QED BY <1>1, <1>2, <1>8, <1>9 DEF DialogParts, DialogType

\* A step that leaves the entry alone, and takes no accepted credentials back.
LEMMA EntryAlone ==
  ASSUME FlowInv, DialogParts', UNCHANGED <<lifeVars, reauth, due>>,
         accepted \subseteq accepted'
  PROVE  FlowInv'
  <1>1. UNCHANGED <<state, options, stage, reloads, router, connected, running, strays,
                    data, good, unheard, botched>>
    BY DEF lifeVars, entryVars, routerVars, pastVars
  <1>2. TypeOK'
    BY <1>1 DEF FlowInv, TypeOK, EntryTypeOK, DialogParts, DialogType
  <1>3. PhaseInv' /\ RouterInv' /\ OptionsInv'
    BY <1>1 DEF FlowInv, PhaseInv, RouterInv, OptionsInv, Up, Down, Built
  <1>4. OnlyCheckedStored' /\ ReauthOffered'
    BY <1>1 DEF FlowInv, OnlyCheckedStored, ReauthOffered, Deafened
  <1> QED BY <1>2, <1>3, <1>4 DEF FlowInv, DialogParts

\* The host of an entry that there is is stored, with a reload perhaps.
LEMMA AbortedKeeps ==
  ASSUME FlowInv, UserAborted
  PROVE  FlowInv'
  <1>1. /\ dialog # NoDialog /\ dialog' = NoDialog
        /\ accepted' = accepted \cup {Credentials(dialog.input)}
        /\ UNCHANGED <<reloads, data>> \/ HostStored
        /\ UNCHANGED <<reauth, due, state, options, stage, router, connected, running,
                       strays, good, unheard, botched>>
    BY DEF UserAborted, Checked, NotReauth, entryVars, pastVars
  <1>2. accepted' \subseteq AllCredentials
    BY <1>1, DialogFields, CredentialsType DEF FlowInv, TypeOK
  <1>3. reloads \in Nat /\ reloads <= MaxReloads /\ MaxReloads \in Nat
    BY EntryAssumption DEF FlowInv, TypeOK, EntryTypeOK
  <1>4. /\ reloads' \in 0 .. MaxReloads /\ (reloads > 0 => reloads' > 0)
        /\ data' = data \/ data' = options
    <2>1. CASE UNCHANGED <<reloads, data>>
      BY <1>3, <2>1
    <2>2. CASE HostStored
      <3>1. PICK x \in {0, 1}, y \in {0, 1} :
              reloads + (x + y) <= MaxReloads /\ reloads' = reloads + (x + y)
        BY <2>2 DEF HostStored
      <3>2. data' = data \/ data' = options
        BY <2>2 DEF HostStored, Listen
      <3> QED BY <1>3, <3>1, <3>2
    <2> QED BY <1>1, <2>1, <2>2
  <1>5. options \in Options /\ options # NoRouter
    BY EntryAssumption DEF FlowInv, TypeOK, EntryTypeOK
  <1>6. TypeOK'
    BY <1>1, <1>2, <1>4, <1>5 DEF FlowInv, TypeOK, EntryTypeOK
  <1>7. PhaseInv' /\ RouterInv' /\ OptionsInv' /\ DialogInv'
    BY <1>1, <1>4, <1>5
       DEF FlowInv, PhaseInv, RouterInv, OptionsInv, DialogInv, Up, Down, Built
  <1>8. OnlyCheckedStored' /\ ReauthOffered'
    BY <1>1, <1>4 DEF FlowInv, OnlyCheckedStored, ReauthOffered, Deafened
  <1> QED BY <1>6, <1>7, <1>8 DEF FlowInv

\* The user flow creates the entry with its copy.
LEMMA FinishUserKeeps ==
  ASSUME FlowInv, FinishUser
  PROVE  FlowInv'
  <1>1. /\ dialog # NoDialog /\ dialog.step = "menu" /\ state = "absent"
        /\ dialog' = NoDialog /\ state' = "not_loaded" /\ options' = dialog.draft
        /\ UNCHANGED <<reauth, due, stage, reloads, router, connected, running, strays,
                       data, good, unheard, botched, accepted>>
    BY DEF FinishUser, NotReauth, routerVars, pastVars
  <1>2. dialog.draft \in Options /\ Credentials(dialog.draft) \in accepted
    BY <1>1, DialogFields DEF FlowInv, DialogInv
  <1>3. stage \notin {"check", "connect", "load", "forward", "unload", "disconnect"}
    BY <1>1 DEF FlowInv, PhaseInv
  <1>4. TypeOK'
    BY <1>1, <1>2, CredentialsType DEF FlowInv, TypeOK, EntryTypeOK, States
  <1>5. PhaseInv' /\ RouterInv' /\ OptionsInv' /\ DialogInv'
    BY <1>1, <1>3 DEF FlowInv, PhaseInv, RouterInv, OptionsInv, DialogInv, Up, Down, Built
  <1>6. OnlyCheckedStored' /\ ReauthOffered'
    BY <1>1, <1>2 DEF OnlyCheckedStored, ReauthOffered, Deafened
  <1> QED BY <1>4, <1>5, <1>6 DEF FlowInv

\* The options flow writes its copy.
LEMMA FinishOptionsKeeps ==
  ASSUME FlowInv, FinishOptions
  PROVE  FlowInv'
  <1>1. /\ dialog # NoDialog /\ dialog.kind = "options" /\ reloads < MaxReloads
        /\ dialog' = NoDialog /\ UpdateEntry(dialog.draft)
        /\ UNCHANGED <<reauth, due, state, stage, router, connected, running, strays, good,
                       botched, accepted>>
    BY DEF FinishOptions, NotReauth
  <1>2. dialog.draft \in Options /\ Credentials(dialog.draft) \in accepted
    BY <1>1, DialogFields DEF FlowInv, DialogInv
  <1>3. EntryInv /\ TypeOK
    BY DEF FlowInv, TypeOK, EntryInv
  <1>4. EntryInv' /\ options' = dialog.draft /\ reloads' >= reloads
    BY <1>1, <1>2, <1>3, UpdateKeeps
  <1>5. TypeOK'
    BY <1>1, <1>2, <1>3, <1>4, CredentialsType DEF TypeOK, EntryInv
  <1>6. OnlyCheckedStored' /\ DialogInv'
    BY <1>1, <1>2, <1>4 DEF OnlyCheckedStored, DialogInv
  <1>7. ReauthOffered'
    <2>1. reloads \in Nat /\ reloads' \in Nat
      BY <1>3, <1>4, EntryAssumption DEF EntryInv, EntryTypeOK
    <2> QED BY <1>1, <1>4, <2>1 DEF FlowInv, ReauthOffered, Deafened
  <1> QED BY <1>4, <1>5, <1>6, <1>7 DEF FlowInv, EntryInv

LEMMA DialogKeeps ==
  ASSUME FlowInv, DialogStep
  PROVE  FlowInv'
  <1>1. CASE OpenUser \/ OpenOptions \/ Abandon
    BY <1>1, OpenKeeps, EntryAlone
  <1>2. CASE Find \/ ChooseCredentials \/ SubmitCredentials \/ CheckFails
    BY <1>2, StepKeeps, EntryAlone
  <1>3. CASE OptionsChecked \/ UserChecked
    BY <1>3, CheckedKeeps, EntryAlone
  <1>4. CASE Operation \/ UserForm \/ OptionsForm
    BY <1>4, FormKeeps, EntryAlone
  <1> QED BY <1>1, <1>2, <1>3, <1>4, AbortedKeeps, FinishUserKeeps, FinishOptionsKeeps
          DEF DialogStep

-----------------------------------------------------------------------------
(* Reauthentication *)

LEMMA ReauthParts ==
  ASSUME TypeOK, reauth # NoReauth
  PROVE  reauth \in Reauth /\ reauth.candidate \in Options
  BY DEF TypeOK, Reauth

\* What was submitted is kept beside the entry until it is checked.
LEMMA ReauthSubmitKeeps ==
  ASSUME FlowInv, SubmitReauth \/ ReauthFails
  PROVE  FlowInv'
  <1>1. reauth # NoReauth /\ UNCHANGED <<lifeVars, dialog, accepted, due>>
    BY DEF SubmitReauth, ReauthFails, NotEntry, NotDialog, historyVars
  <1>2. UNCHANGED <<state, options, stage, reloads, router, connected, running, strays,
                    data, good, unheard, botched>>
    BY <1>1 DEF lifeVars, entryVars, routerVars, pastVars
  <1>3. TypeOK
    BY DEF FlowInv
  <1>4. reauth' \in Reauth
    <2>1. CASE SubmitReauth
      <3>1. PICK a \in Answers(ReauthFields) :
              reauth' = [checking |-> TRUE, candidate |-> Merge(options, a)]
        BY <2>1 DEF SubmitReauth
      <3>2. Merge(options, a) \in Options
        BY <1>3, MergeType DEF TypeOK, EntryTypeOK
      <3> QED BY <3>1, <3>2 DEF Reauth
    <2>2. CASE ReauthFails
      <3>1. reauth' = [reauth EXCEPT !.checking = FALSE, !.candidate = NoOptions]
        BY <2>2 DEF ReauthFails
      <3> QED BY <1>1, <1>3, <3>1, ReauthParts, NoOptionsType DEF Reauth
    <2> QED BY <2>1, <2>2
  <1>5. TypeOK'
    BY <1>1, <1>2, <1>3, <1>4 DEF TypeOK, EntryTypeOK
  <1>6. PhaseInv' /\ RouterInv' /\ OptionsInv' /\ DialogInv'
    BY <1>1, <1>2 DEF FlowInv, PhaseInv, RouterInv, OptionsInv, DialogInv, Up, Down, Built
  <1>7. OnlyCheckedStored' /\ ReauthOffered'
    BY <1>1, <1>2, <1>4, FlowAssumption DEF FlowInv, OnlyCheckedStored, ReauthOffered, Deafened
  <1> QED BY <1>5, <1>6, <1>7 DEF FlowInv

\* Checked credentials are stored, and a listener hears of it or a reload is called.
LEMMA ReauthConfirmedKeeps ==
  ASSUME FlowInv, ReauthConfirmed
  PROVE  FlowInv'
  <1> DEFINE new == reauth.candidate
  <1>1. /\ reauth # NoReauth /\ reloads < MaxReloads /\ reauth' = NoReauth
        /\ accepted' = accepted \cup {Credentials(new)} /\ due' \in BOOLEAN
        /\ IF Hears THEN UpdateEntry(new)
           ELSE /\ options' = new /\ unheard' = (unheard \/ options' # options)
                /\ CallReload /\ UNCHANGED data
        /\ UNCHANGED <<dialog, state, stage, router, connected, running, strays, good,
                       botched>>
    BY DEF ReauthConfirmed, Checked, NotDialog
  <1>2. new \in Options /\ Credentials(new) \in AllCredentials
    BY <1>1, ReauthParts, CredentialsType DEF FlowInv
  <1>3. EntryInv /\ TypeOK
    BY DEF FlowInv, TypeOK, EntryInv
  <1> HIDE DEF new
  <1>4. EntryInv' /\ options' = new /\ (Hears \/ reloads' > 0)
    <2>1. CASE Hears
      BY <1>1, <1>2, <1>3, <2>1, UpdateKeeps
    <2>2. CASE ~Hears
      BY <1>1, <1>2, <1>3, <2>2, UnheardKeeps
    <2> QED BY <2>1, <2>2
  <1>5. TypeOK'
    BY <1>1, <1>2, <1>3, <1>4 DEF TypeOK, EntryInv
  <1>6. OnlyCheckedStored' /\ DialogInv'
    BY <1>1, <1>4 DEF FlowInv, OnlyCheckedStored, DialogInv
  <1>7. ReauthOffered'
    <2>1. state = "auth" /\ ~Deafened => ~Hears
      BY <1>3 DEF EntryInv, RouterInv, Down, Hears, Deafened
    <2> QED BY <1>1, <1>4, <2>1 DEF ReauthOffered, Deafened
  <1> QED BY <1>4, <1>5, <1>6, <1>7 DEF FlowInv, EntryInv

\* The entry lives on beside the flows.
LEMMA LifeFlows ==
  ASSUME FlowInv, Life \/ Rebuild \/ Refused
  PROVE  FlowInv'
  <1>1. EntryInv /\ TypeOK /\ DialogInv /\ OnlyCheckedStored /\ ReauthOffered
    BY DEF FlowInv, TypeOK, EntryInv
  <1>2. /\ UNCHANGED <<dialog, accepted>> /\ due' \in BOOLEAN
        /\ UNCHANGED reauth \/ (Refused /\ reauth' \in Reauth \cup {NoReauth})
    <2>1. [checking |-> FALSE, candidate |-> NoOptions] \in Reauth
      BY NoOptionsType DEF Reauth
    <2> QED BY <1>1, <2>1 DEF Life, Rebuild, Refused, NotDialog, flowVars, historyVars,
                              TypeOK
  <1>3. /\ EntryInv' /\ UNCHANGED options
        /\ state' # "absent" => state # "absent"
        /\ state' = "auth" /\ ~Deafened' => reauth' # NoReauth \/ reloads' > 0
    <2>1. CASE Life /\ LifeStep
      BY <1>1, <2>1, LifeKeeps
    <2>2. CASE Life /\ World
      <3>1. EntryInv' /\ UNCHANGED <<state, options, strays>> /\ reloads' >= reloads
        BY <1>1, <2>2, WorldKeeps
      <3>2. UNCHANGED <<state, options, strays, reauth>>
        BY <2>2, <3>1 DEF Life, flowVars
      <3>3. reloads \in Nat /\ reloads' \in Nat
        BY <1>1, <3>1, EntryAssumption DEF EntryInv, EntryTypeOK
      <3> QED BY <1>1, <3>1, <3>2, <3>3 DEF ReauthOffered, Deafened
    <2>3. CASE Rebuild
      BY <1>1, <2>3, ConstructKeeps DEF Rebuild
    <2>4. CASE Refused
      <3>1. EntryInv' /\ UNCHANGED <<options, reloads>> /\ state # "absent"
        BY <1>1, <2>4, RefusedKeeps DEF Refused
      <3>2. reauth' # NoReauth
        <4>1. [checking |-> FALSE, candidate |-> NoOptions] \in Reauth
          BY NoOptionsType DEF Reauth
        <4>2. [checking |-> FALSE, candidate |-> NoOptions] # NoReauth
          BY <4>1, FlowAssumption
        <4> QED BY <2>4, <4>2 DEF Refused
      <3> QED BY <3>1, <3>2
    <2> QED BY <2>1, <2>2, <2>3, <2>4 DEF Life
  <1>4. TypeOK'
    BY <1>1, <1>2, <1>3 DEF TypeOK, EntryInv
  <1>5. DialogInv' /\ OnlyCheckedStored' /\ ReauthOffered'
    BY <1>1, <1>2, <1>3 DEF DialogInv, OnlyCheckedStored, ReauthOffered
  <1> QED BY <1>3, <1>4, <1>5 DEF FlowInv, EntryInv

LEMMA InitFlow == Init => FlowInv
  <1> SUFFICES ASSUME Init PROVE FlowInv
    OBVIOUS
  <1>1. EntryInit /\ dialog = NoDialog /\ reauth = NoReauth /\ accepted = {} /\ due = FALSE
    BY DEF Init
  <1>2. options = NoOptions
    BY <1>1 DEF EntryInit, NoOptions
  <1>3. EntryTypeOK
    <2>1. reloads \in 0 .. MaxReloads
      BY <1>1, EntryAssumption DEF EntryInit
    <2>2. good \in AllCredentials
      BY <1>1 DEF EntryInit
    <2>3. options \in Options
      BY <1>2, NoOptionsType
    <2>4. /\ state \in States /\ stage \in Stages /\ router = NoRouter
          /\ connected \in BOOLEAN /\ data = NoRouter /\ unheard \in BOOLEAN
          /\ botched \in BOOLEAN
          /\ running = {} /\ strays = {}
      BY <1>1 DEF EntryInit, States, Stages
    <2> QED BY <2>1, <2>2, <2>3, <2>4 DEF EntryTypeOK
  <1>4. TypeOK
    BY <1>1, <1>3, NoOptionsType, CredentialsType DEF TypeOK
  <1>5. PhaseInv /\ RouterInv /\ OptionsInv
    BY <1>1 DEF EntryInit, PhaseInv, RouterInv, OptionsInv, Up, Down, Built
  <1>6. DialogInv /\ OnlyCheckedStored /\ ReauthOffered
    BY <1>1 DEF EntryInit, DialogInv, OnlyCheckedStored, ReauthOffered
  <1> QED BY <1>4, <1>5, <1>6 DEF FlowInv

LEMMA FlowStep == FlowInv /\ [Next]_vars => FlowInv'
  <1>1. ASSUME FlowInv, UNCHANGED vars PROVE FlowInv'
    <2>1. UNCHANGED <<lifeVars, dialog, reauth, accepted, due>>
      BY <1>1 DEF vars, flowVars, historyVars
    <2>2. DialogParts'
      BY <1>1, <2>1 DEF DialogParts, DialogType, DialogInv, FlowInv, TypeOK
    <2> QED BY <1>1, <2>1, <2>2, EntryAlone
  <1>2. ASSUME FlowInv, ReauthStep PROVE FlowInv'
    BY <1>2, ReauthSubmitKeeps, ReauthConfirmedKeeps DEF ReauthStep
  <1> QED BY <1>1, <1>2, DialogKeeps, LifeFlows DEF Next

LEMMA FlowAlways == Spec => []FlowInv
  BY InitFlow, FlowStep, PTL DEF Spec

-----------------------------------------------------------------------------
(* The properties *)

\* The variables of EntryLifecycle and ConfigFlows keep their types.
THEOREM TypeCorrect == Spec => []TypeOK
<1>1. FlowInv => TypeOK
  BY DEF FlowInv
<1> QED BY <1>1, FlowAlways, PTL

\* A set-up finds the timer or the listener of an earlier router only after the
\* set-up of the platforms has failed; any other failure leaves one router at most.
THEOREM OneIsRegistered == Spec => []OneRouterRegistered
<1>1. ASSUME FlowInv PROVE OneRouterRegistered
  <2>1. RouterInv
    BY <1>1 DEF FlowInv
  <2> QED BY <2>1 DEF RouterInv, Up, OneRouterRegistered
<1> QED BY <1>1, FlowAlways, PTL

\* A loaded entry with nothing under way runs with the options that it stores,
\* unless they were stored before its router was registered.
THEOREM ChangesAreNoticed == Spec => []ChangesNoticed
<1>1. ASSUME FlowInv PROVE ChangesNoticed
  <2>1. OptionsInv /\ reloads \in 0 .. MaxReloads
    BY <1>1 DEF FlowInv, TypeOK, EntryTypeOK
  <2> QED BY <2>1 DEF OptionsInv, Built, ChangesNoticed
<1> QED BY <1>1, FlowAlways, PTL

\* No sequence of steps of the flows, alone or beside each other, stores
\* credentials that the router has not accepted.
THEOREM StoredWereChecked == Spec => []OnlyCheckedStored
<1>1. FlowInv => OnlyCheckedStored
  BY DEF FlowInv
<1> QED BY <1>1, FlowAlways, PTL

\* An entry whose credentials were refused has a reauthentication or a reload, unless
\* a failed set-up of the platforms has left its listener.
THEOREM ReauthAlwaysOffered == Spec => []ReauthOffered
<1>1. FlowInv => ReauthOffered
  BY DEF FlowInv
<1> QED BY <1>1, FlowAlways, PTL
=============================================================================
