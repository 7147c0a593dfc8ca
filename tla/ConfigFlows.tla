---------------------------- MODULE ConfigFlows ----------------------------
(***************************************************************************)
(* The flows that write a config entry, over EntryLifecycle: the user flow  *)
(* that creates it, the options flow that edits a copy of its options, and  *)
(* the reauthentication that Home Assistant starts when a set-up was        *)
(* refused.  A dialog is a user flow or an options flow; a reauthentication *)
(* can be open beside it.  Fields that a form leaves alone keep the value   *)
(* they have in the flow's copy.                                            *)
(***************************************************************************)
EXTENDS EntryLifecycle

CONSTANTS
  NoDialog,  \* no user or options flow is open
  NoReauth   \* no reauthentication is open

VARIABLES
  dialog,    \* the open user or options flow: its step and its copies
  reauth,    \* the open reauthentication, with what it has submitted
  accepted,  \* history: credentials that a router has accepted
  due        \* history: a reauthentication changed the entry, and no set-up has
             \* used the new credentials yet

flowVars == <<dialog, reauth>>
historyVars == <<accepted, due>>
vars == <<lifeVars, flowVars, historyVars>>

Modes == {"router", "node", "access_point", "media_bridge"}

\* The fields of each form.
ReauthFields     == {"username", "password"}
OperationFields  == {"mode", "split_intervals"}
DeviceFields(mode) ==
  {"track_devices", "ignore_random_mac", "client_device", "clients_in_attr",
   "client_filter", "client_filter_list", "latest_connected", "interval_devices"}
  \cup (IF mode \in {"access_point", "router"} THEN {"consider_home"} ELSE {})
  \cup (IF mode \in {"access_point", "media_bridge", "router"} THEN {"create_devices"} ELSE {})
IntervalFields(split) ==
  {"cache_time"} \cup (IF split THEN IntervalNames ELSE {"scan_interval", "interval_firmware"})
InterfaceFields  == {"interfaces"}
EventFields ==
  {"device_connected", "device_disconnected", "device_reconnected",
   "node_connected", "node_disconnected", "node_reconnected"}
SecurityFields   == {"hide_passwords"}
FormFields ==
  CredentialFields \cup OperationFields \cup DeviceFields("router")
  \cup IntervalFields(TRUE) \cup IntervalFields(FALSE)
  \cup InterfaceFields \cup EventFields \cup SecurityFields

\* The mode that a flow goes by, the router mode unless one is chosen.
ModeOf(o) == IF "mode" \in Names /\ o["mode"] # NoValue THEN o["mode"] ELSE "router"

\* Whether intervals are set one by one; the default is that they are not.
SplitOf(o) ==
  "split_intervals" \in Names /\ o["split_intervals"] # NoValue /\ o["split_intervals"]

\* The forms of the menu, with the fields each asks for.
Menu(o) ==
  {OperationFields, IntervalFields(SplitOf(o)), InterfaceFields, EventFields, SecurityFields}
  \cup (IF ModeOf(o) \in {"access_point", "media_bridge", "router"}
        THEN {DeviceFields(ModeOf(o))} ELSE {})

\* What may be submitted in a form: a value for each of its fields.
Answers(fields) ==
  {a \in [fields \cap Names -> UNION {Values[n] : n \in Names}] : \A n \in DOMAIN a : a[n] \in Values[n]}

\* Mutant of Merge: the answers replace the copy.
OnlyAnswered(o, answer) == answer

\* The flow's copy takes the answers.
Merge(o, answer) == [n \in Names |-> IF n \in DOMAIN answer THEN answer[n] ELSE o[n]]

NoOptions == [n \in Names |-> NoValue]

Dialog == [kind : {"user", "options"},
           step : {"find", "credentials", "checking", "operation", "menu"},
           draft : Options, input : Options]

Reauth == [checking : BOOLEAN, candidate : Options]

\* An option is what some form asks for.
ASSUME FlowAssumption ==
  /\ Names \subseteq FormFields
  /\ "mode" \in Names => Values["mode"] \subseteq Modes
  /\ NoDialog \notin Dialog
  /\ NoReauth \notin Reauth

\* Every variable has its type.
TypeOK ==
  /\ EntryTypeOK
  /\ dialog \in Dialog \cup {NoDialog}
  /\ reauth \in Reauth \cup {NoReauth}
  /\ accepted \subseteq AllCredentials
  /\ due \in BOOLEAN

Init ==
  /\ EntryInit
  /\ dialog = NoDialog
  /\ reauth = NoReauth
  /\ accepted = {}
  /\ due = FALSE

NotReauth == UNCHANGED <<reauth, due>>
NotEntry  == UNCHANGED lifeVars

-----------------------------------------------------------------------------
(* The user flow and the options flow *)

Show(d) == dialog' = d

\* async_step_user; the options of a new entry start empty.
OpenUser ==
  /\ dialog = NoDialog
  /\ Show([kind |-> "user", step |-> "find",
           draft |-> NoOptions, input |-> NoOptions])
  /\ NotEntry /\ NotReauth /\ UNCHANGED accepted

\* async_step_init of the options flow copies the entry's data and options.
OpenOptions ==
  /\ dialog = NoDialog
  /\ state # "absent"
  /\ Show([kind |-> "options", step |-> "menu",
           draft |-> options, input |-> NoOptions])
  /\ NotEntry /\ NotReauth /\ UNCHANGED accepted

\* async_step_find: the host is resolved; otherwise the form is shown again.
Find ==
  /\ dialog # NoDialog
  /\ dialog.step = "find"
  /\ Show([dialog EXCEPT !.step = "credentials"])
  /\ NotEntry /\ NotReauth /\ UNCHANGED accepted

\* The options flow's menu leads to the credentials form.
ChooseCredentials ==
  /\ dialog # NoDialog
  /\ dialog.kind = "options"
  /\ dialog.step = "menu"
  /\ Show([dialog EXCEPT !.step = "credentials"])
  /\ NotEntry /\ NotReauth /\ UNCHANGED accepted

\* async_step_credentials: what is new is checked first.  The options flow goes
\* back to its menu when nothing has changed.
SubmitCredentials ==
  /\ dialog # NoDialog
  /\ dialog.step = "credentials"
  /\ \E a \in Answers(CredentialFields) :
       LET input == Merge(dialog.draft, a) IN
       IF dialog.kind = "options" /\ input = dialog.draft
       THEN Show([dialog EXCEPT !.step = "menu"])
       ELSE Show([dialog EXCEPT !.step = "checking", !.input = input])
  /\ NotEntry /\ NotReauth /\ UNCHANGED accepted

\* Mutant of CheckFails: what was rejected stays in the copy.
RejectedKept ==
  /\ dialog # NoDialog
  /\ dialog.step = "checking"
  /\ Show([dialog EXCEPT !.step = "credentials", !.draft = dialog.input, !.input = NoOptions])
  /\ NotEntry /\ NotReauth /\ UNCHANGED accepted

\* _async_check_connection returns an error for any exception; the form is shown again.
CheckFails ==
  /\ dialog # NoDialog
  /\ dialog.step = "checking"
  /\ Show([dialog EXCEPT !.step = "credentials", !.input = NoOptions])
  /\ NotEntry /\ NotReauth /\ UNCHANGED accepted

\* The router answers, and _async_check_connection returns what was checked.
Checked(o) ==
  /\ Accepts(o)
  /\ accepted' = accepted \cup {Credentials(o)}

\* The options flow takes the checked credentials into its copy.
OptionsChecked ==
  /\ dialog # NoDialog
  /\ dialog.kind = "options"
  /\ dialog.step = "checking"
  /\ Checked(dialog.input)
  /\ Show([dialog EXCEPT !.step = "menu", !.draft = dialog.input,
                         !.input = NoOptions])
  /\ NotEntry /\ NotReauth

\* The user flow of a router that has no entry goes on.
UserChecked ==
  /\ dialog # NoDialog
  /\ dialog.kind = "user"
  /\ dialog.step = "checking"
  /\ state = "absent"
  /\ Checked(dialog.input)
  /\ Show([dialog EXCEPT !.step = "operation", !.draft = dialog.input,
                         !.input = NoOptions])
  /\ NotEntry /\ NotReauth

\* The entry gets another host: Home Assistant calls the update listeners, with the
\* options as they are, and reloads an entry that is loaded or to be retried.
HostStored ==
  LET calls == (IF Restarts(options) THEN 1 ELSE 0)
               + (IF state \in {"loaded", "retry"} THEN 1 ELSE 0)
  IN  /\ reloads + calls <= MaxReloads
      /\ reloads' = reloads + calls
      /\ Listen(options)

\* The router has an entry: the flow is aborted and the entry gets the host that
\* was found, which may be the one it has.
UserAborted ==
  /\ dialog # NoDialog
  /\ dialog.kind = "user"
  /\ dialog.step = "checking"
  /\ state # "absent"
  /\ Checked(dialog.input)
  /\ dialog' = NoDialog
  /\ \/ UNCHANGED <<reloads, data>>
     \/ HostStored
  /\ NotReauth
  /\ UNCHANGED <<entryVars, stage, router, connected, running, strays, good, pastVars>>

\* async_step_operation of the user flow, which goes on to the menu.
Operation ==
  /\ dialog # NoDialog
  /\ dialog.step = "operation"
  /\ \E a \in Answers(OperationFields) :
       Show([dialog EXCEPT !.step = "menu", !.draft = Merge(@, a)])
  /\ NotEntry /\ NotReauth /\ UNCHANGED accepted

\* A form with `fields` is submitted.
Submit(fields) ==
  /\ \E a \in Answers(fields) : Show([dialog EXCEPT !.draft = Merge(@, a)])
  /\ NotEntry /\ NotReauth /\ UNCHANGED accepted

\* A form of the user flow's menu, which does not go back to the operation mode.
UserForm ==
  /\ dialog # NoDialog
  /\ dialog.kind = "user"
  /\ dialog.step = "menu"
  /\ \E fields \in Menu(dialog.draft) \ {OperationFields} : Submit(fields)

\* A form of the options flow's menu.
OptionsForm ==
  /\ dialog # NoDialog
  /\ dialog.kind = "options"
  /\ dialog.step = "menu"
  /\ \E fields \in Menu(dialog.draft) : Submit(fields)

\* async_step_finish of the user flow creates the entry.
FinishUser ==
  /\ dialog # NoDialog
  /\ dialog.kind = "user"
  /\ dialog.step = "menu"
  /\ state = "absent"
  /\ dialog' = NoDialog
  /\ state' = "not_loaded"
  /\ options' = dialog.draft
  /\ NotReauth
  /\ UNCHANGED <<stage, reloads, routerVars, good, pastVars, accepted>>

\* async_step_finish of the options flow writes its whole copy.
FinishOptions ==
  /\ dialog # NoDialog
  /\ dialog.kind = "options"
  /\ dialog.step = "menu"
  /\ reloads < MaxReloads
  /\ dialog' = NoDialog
  /\ UpdateEntry(dialog.draft)
  /\ NotReauth
  /\ UNCHANGED <<state, stage, router, connected, running, strays, good, botched, accepted>>

\* The user closes the dialog.
Abandon ==
  /\ dialog # NoDialog
  /\ dialog' = NoDialog
  /\ NotEntry /\ NotReauth /\ UNCHANGED accepted

DialogStep ==
  \/ OpenUser \/ OpenOptions \/ Find \/ ChooseCredentials \/ SubmitCredentials
  \/ CheckFails \/ OptionsChecked \/ UserChecked \/ UserAborted
  \/ Operation \/ UserForm \/ OptionsForm \/ FinishUser \/ FinishOptions \/ Abandon

-----------------------------------------------------------------------------
(* Reauthentication *)

NotDialog == UNCHANGED dialog

\* The refused set-up makes Home Assistant open a reauthentication, once.
Refused ==
  /\ ConnectRefused
  /\ reauth' = IF reauth # NoReauth THEN reauth
                ELSE [checking |-> FALSE, candidate |-> NoOptions]
  /\ NotDialog /\ UNCHANGED historyVars

\* async_step_reauth_confirm copies the entry's options, with what was submitted,
\* before it awaits their check.
SubmitReauth ==
  /\ reauth # NoReauth
  /\ ~reauth.checking
  /\ \E a \in Answers(ReauthFields) :
       reauth' = [checking |-> TRUE, candidate |-> Merge(options, a)]
  /\ NotEntry /\ NotDialog /\ UNCHANGED historyVars

ReauthFails ==
  /\ reauth # NoReauth
  /\ reauth.checking
  /\ reauth' = [reauth EXCEPT !.checking = FALSE, !.candidate = NoOptions]
  /\ NotEntry /\ NotDialog /\ UNCHANGED historyVars

\* The checked credentials are stored.  The update listener reloads the entry;
\* without one the reload is scheduled here.
ReauthConfirmed ==
  /\ reauth # NoReauth
  /\ reauth.checking
  /\ reloads < MaxReloads
  /\ Checked(reauth.candidate)
  /\ reauth' = NoReauth
  /\ IF Hears
     THEN UpdateEntry(reauth.candidate)
     ELSE /\ options' = reauth.candidate
          /\ unheard' = (unheard \/ options' # options)
          /\ CallReload
          /\ UNCHANGED data
  /\ due' = /\ options' # options
            /\ router = NoRouter \/ Credentials(router) # Credentials(options')
  /\ NotDialog
  /\ UNCHANGED <<state, stage, router, connected, running, strays, good, botched>>

ReauthStep == SubmitReauth \/ ReauthFails \/ ReauthConfirmed

-----------------------------------------------------------------------------

Rebuild == Construct /\ due' = FALSE /\ UNCHANGED <<flowVars, accepted>>

Life == (LifeStep \/ World) /\ UNCHANGED <<flowVars, historyVars>>

Next == Life \/ Rebuild \/ Refused \/ DialogStep \/ ReauthStep

Spec == Init /\ [][Next]_vars

\* The stages of a set-up, an unload and a reload end: the event loop runs what is
\* ready, and the library bounds its requests by a timeout.
Progress == LifeStep \/ Construct \/ ConnectRefused

FairSpec == Spec /\ WF_vars(Progress /\ Next)

-----------------------------------------------------------------------------
(* Properties *)

\* Credentials that a flow stores were accepted by the router when they were
\* checked: what was rejected reaches the entry by no sequence of steps of a
\* flow, and by no flow beside another.
OnlyCheckedStored == state # "absent" => Credentials(options) \in accepted

\* A listener that a failed set-up of the platforms left is there to hear, but
\* has no router in hass.data to compare with, or that of another set-up.
Deafened == "listener" \in strays

\* An entry that a set-up left without accepted credentials has an open
\* reauthentication, or a reload is on its way: the flow calls the reload where there
\* is no listener to do it.
ReauthOffered == state = "auth" /\ ~Deafened => reauth # NoReauth \/ reloads > 0

\* Credentials that a reauthentication changes are used: a set-up builds the
\* router from what is stored, whether the entry was loaded, had failed, or was being set up
\* at the time.  After an unload that failed Home Assistant refuses, and a stray
\* listener keeps the flow from calling the reload itself.
ReauthTakesEffect == due ~> ~due \/ state \in {"stuck", "error"} \/ Deafened

\* "Changing credentials reloads the entry": an entry with nothing under way was
\* last set up with the credentials that are stored.
SavedCredentialsUsed ==
  state \in {"loaded", "auth"} /\ stage = "idle" /\ reloads = 0 =>
    Credentials(router) = Credentials(options)
=============================================================================
