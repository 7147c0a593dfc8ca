----------------------------- MODULE StaticDhcp -----------------------------
(***************************************************************************)
(* Static DHCP reservations of one router: ARDevice's set, reserve-current- *)
(* IP, remove, refresh and sensor-poll operations, the lock that they share *)
(* (_static_dhcp_lock), the cached leases that the reserve buttons look at, *)
(* and the router.                                                          *)
(*                                                                          *)
(* Every read of the router's list is two steps, the router's answer and    *)
(* its arrival, so that an answer can be overtaken.                         *)
(***************************************************************************)
EXTENDS Naturals, FiniteSets

CONSTANTS
  Callers,     \* tasks: service calls, button presses, the sensor's poll
  NoCaller,    \* the lock is free
  Macs,        \* the devices that can have a reservation
  Addresses,   \* IPv4 addresses
  Details,     \* a reservation's DNS server and host name
  NoLease,     \* the device has no reservation
  NoLeases,    \* no list has been read
  Ops,         \* the operations that callers ask for
  NoOp,        \* the task is in no operation
  InitLeases,  \* the router's lists when the integration starts
  WebLeases,   \* the reservations that the router's own web UI sets
  Faults       \* "web": somebody edits the list in the router's web UI;
               \* "late": a list may take effect after its write has ended

Lease  == [ip : Addresses, details : Details]
Leases == [Macs -> Lease \cup {NoLease}]

\* A `set` may move a reservation of its device, a `reserve` may not.
Op == [kind : {"set", "reserve"}, mac : Macs, lease : Lease]
      \cup [kind : {"remove"}, mac : Macs]
      \cup [kind : {"refresh"}]

\* No two devices have a reservation of one address.
Unique(l) ==
  \A m, n \in Macs :
    m # n /\ l[m] # NoLease /\ l[n] # NoLease => l[m].ip # l[n].ip

ASSUME LeaseAssumption ==
  /\ NoLease \notin Lease
  /\ NoLeases \notin Leases
  /\ NoCaller \notin Callers
  /\ Ops \subseteq Op
  /\ NoOp \notin Op
  /\ InitLeases \subseteq {l \in Leases : Unique(l)}
  /\ WebLeases \subseteq Lease
  /\ Faults \subseteq {"web", "late"}

VARIABLES
  leases,   \* the router's list (dhcp_staticlist)
  pend,     \* a list that was written and has not taken effect yet
  cached,   \* ARDevice._static_dhcp_leases, and the sensor's data
  holder,   \* the task that holds ARDevice._static_dhcp_lock
  pc,       \* the await at which each task is suspended
  op,       \* each task's operation
  answer,   \* the router's answer on its way to each task
  outcome,  \* how each task's last operation ended
  unsure    \* history: no list was stored since the start, since a call failed
            \* that may have changed the router's list, or since one took effect late

callVars == <<op, answer, outcome>>
vars == <<leases, pend, cached, holder, pc, callVars, unsure>>

Stages == {"idle", "queued", "check", "write", "verify", "fetch"}
Reading == {"check", "verify", "fetch"}

\* Every variable has its type; an operation is only at its own stages.
TypeOK ==
  /\ leases \in Leases
  /\ pend \in Leases \cup {NoLeases}
  /\ cached \in Leases
  /\ holder \in Callers \cup {NoCaller}
  /\ pc \in [Callers -> Stages]
  /\ op \in [Callers -> Ops \cup {NoOp}]
  /\ answer \in [Callers -> Leases \cup {NoLeases}]
  /\ outcome \in [Callers -> {"none", "ok", "failed"}]
  /\ unsure \in BOOLEAN
  /\ \A c \in Callers :
       /\ pc[c] = "idle" <=> op[c] = NoOp
       /\ pc[c] = "check" => op[c].kind \in {"set", "reserve"}
       /\ pc[c] \in {"write", "verify"} =>
            op[c].kind \in {"set", "reserve", "remove"}
       /\ pc[c] = "fetch" => op[c].kind = "refresh"
       /\ answer[c] # NoLeases => pc[c] \in Reading

Init ==
  /\ leases \in InitLeases
  /\ pend = NoLeases
  /\ cached = [m \in Macs |-> NoLease]
  /\ holder = NoCaller
  /\ pc = [c \in Callers |-> "idle"]
  /\ op = [c \in Callers |-> NoOp]
  /\ answer = [c \in Callers |-> NoLeases]
  /\ outcome = [c \in Callers |-> "none"]
  /\ unsure = TRUE

-----------------------------------------------------------------------------
(***************************************************************************)
(* What is asked of a list.                                                *)
(***************************************************************************)

\* Mutant of Conflict: other devices' reservations are not looked at.
NoConflict(l, o) == FALSE

\* _find_static_dhcp_ip_conflict: another device has a reservation of this IP.
Conflict(l, o) ==
  \E m \in Macs \ {o.mac} : l[m] # NoLease /\ l[m].ip = o.lease.ip

\* Reserving the current IP would move the device's reservation.
WouldMove(l, o) ==
  /\ o.kind = "reserve"
  /\ l[o.mac] # NoLease
  /\ l[o.mac].ip # o.lease.ip

\* There is nothing to reserve.
Reserved(l, o) ==
  /\ o.kind = "reserve"
  /\ l[o.mac] # NoLease
  /\ l[o.mac].ip = o.lease.ip

\* Mutant of Verified: that the device has some reservation is enough.
HasLease(l, o) == o.kind = "remove" \/ l[o.mac] # NoLease

\* The list read back shows the operation done, all its fields included.
Verified(l, o) ==
  IF o.kind = "remove" THEN l[o.mac] = NoLease ELSE l[o.mac] = o.lease

\* The list with the operation done.
Put(l, o) ==
  [l EXCEPT ![o.mac] = IF o.kind = "remove" THEN NoLease ELSE o.lease]

-----------------------------------------------------------------------------
Goto(c, stage) == pc' = [pc EXCEPT ![c] = stage]

Call(c) ==
  /\ pc[c] = "idle"
  /\ \E o \in Ops : op' = [op EXCEPT ![c] = o]
  /\ outcome' = [outcome EXCEPT ![c] = "none"]
  /\ Goto(c, "queued")
  /\ UNCHANGED <<leases, pend, cached, holder, answer, unsure>>

\* Mutant of FirstStage: a removal goes the way of a set.
CheckFirst(o) == IF o.kind = "refresh" THEN "fetch" ELSE "check"

\* A removal writes at once; a set or a reservation reads the list first.
FirstStage(o) ==
  CASE o.kind \in {"set", "reserve"} -> "check"
    [] o.kind = "remove"             -> "write"
    [] OTHER                         -> "fetch"

\* Mutant of Start: operations do not exclude each other.
StartUnlocked(c) ==
  /\ pc[c] = "queued"
  /\ Goto(c, FirstStage(op[c]))
  /\ UNCHANGED <<leases, pend, cached, holder, callVars, unsure>>

\* Mutant of Start: only operations that write take the lock.
FetchUnlocked(c) ==
  /\ pc[c] = "queued"
  /\ IF op[c].kind = "refresh"
     THEN UNCHANGED holder
     ELSE holder = NoCaller /\ holder' = c
  /\ Goto(c, FirstStage(op[c]))
  /\ UNCHANGED <<leases, pend, cached, callVars, unsure>>

Start(c) ==
  /\ pc[c] = "queued"
  /\ holder = NoCaller
  /\ holder' = c
  /\ Goto(c, FirstStage(op[c]))
  /\ UNCHANGED <<leases, pend, cached, callVars, unsure>>

\* Mutant of Answered: the verifying read takes the lock that its caller has.
ReadLocked(c) ==
  /\ pc[c] \in Reading
  /\ pc[c] = "verify" => holder = NoCaller
  /\ answer[c] = NoLeases
  /\ answer' = [answer EXCEPT ![c] = leases]
  /\ UNCHANGED <<leases, pend, cached, holder, pc, op, outcome, unsure>>

\* The router answers a read.
Answered(c) ==
  /\ pc[c] \in Reading
  /\ answer[c] = NoLeases
  /\ answer' = [answer EXCEPT ![c] = leases]
  /\ UNCHANGED <<leases, pend, cached, holder, pc, op, outcome, unsure>>

\* The operation ends, with its result or an exception.
Return(c, result) ==
  /\ holder' = IF holder = c THEN NoCaller ELSE holder
  /\ Goto(c, "idle")
  /\ op' = [op EXCEPT ![c] = NoOp]
  /\ answer' = [answer EXCEPT ![c] = NoLeases]
  /\ outcome' = [outcome EXCEPT ![c] = result]

\* _update_static_dhcp_data.
Store(l) == cached' = l /\ unsure' = FALSE

\* The list has arrived before a write.  A conflict, or a move that was not
\* asked for, is refused without storing the list.
Check(c) ==
  /\ pc[c] = "check" /\ answer[c] # NoLeases
  /\ \/ /\ WouldMove(answer[c], op[c]) \/ Conflict(answer[c], op[c])
        /\ Return(c, "failed")
        /\ UNCHANGED <<cached, unsure>>
     \/ /\ Reserved(answer[c], op[c]) /\ ~Conflict(answer[c], op[c])
        /\ Store(answer[c])
        /\ Return(c, "ok")
     \/ /\ ~WouldMove(answer[c], op[c]) /\ ~Conflict(answer[c], op[c])
        /\ ~Reserved(answer[c], op[c])
        /\ Goto(c, "write")
        /\ answer' = [answer EXCEPT ![c] = NoLeases]
        /\ UNCHANGED <<cached, unsure, holder, op, outcome>>
  /\ UNCHANGED <<leases, pend>>

\* The library writes the list with the operation done, and the router takes it or does
\* not, at once or late.  Bound: one list is late at a time.
Sent(c) ==
  \/ leases' \in {leases, Put(leases, op[c])} /\ UNCHANGED pend
  \/ /\ "late" \in Faults
     /\ pend = NoLeases
     /\ pend' = Put(leases, op[c])
     /\ UNCHANGED leases

\* The router's answer to a write is not looked at.
Write(c) ==
  /\ pc[c] = "write"
  /\ Sent(c)
  /\ Goto(c, "verify")
  /\ UNCHANGED <<cached, holder, callVars, unsure>>

\* The write raises, or its caller is cancelled, with or without effect.
WriteLost(c) ==
  /\ pc[c] = "write"
  /\ Sent(c)
  /\ Return(c, "failed")
  /\ unsure' = TRUE
  /\ UNCHANGED cached

\* The list has arrived after a write: it is stored, and then compared.
Verify(c) ==
  /\ pc[c] = "verify" /\ answer[c] # NoLeases
  /\ Store(answer[c])
  /\ Return(c, IF Verified(answer[c], op[c]) THEN "ok" ELSE "failed")
  /\ UNCHANGED <<leases, pend>>

Fetch(c) ==
  /\ pc[c] = "fetch" /\ answer[c] # NoLeases
  /\ Store(answer[c])
  /\ Return(c, "ok")
  /\ UNCHANGED <<leases, pend>>

\* A read raises, meets a malformed row, or its caller is cancelled.  What was
\* written stays written.
ReadFails(c) ==
  /\ pc[c] \in Reading
  /\ Return(c, "failed")
  /\ unsure' = (unsure \/ pc[c] = "verify")
  /\ UNCHANGED <<leases, pend, cached>>

\* The caller is cancelled while it waits for the lock.
CancelWait(c) ==
  /\ pc[c] = "queued"
  /\ Return(c, "failed")
  /\ UNCHANGED <<leases, pend, cached, unsure>>

\* Somebody sets or deletes a reservation in the router's web UI.
WebEdit(m) ==
  /\ "web" \in Faults
  /\ \E l \in WebLeases \cup {NoLease} : leases' = [leases EXCEPT ![m] = l]
  /\ UNCHANGED <<pend, cached, holder, pc, callVars, unsure>>

\* A list that was written takes effect, whoever has the lock by now.
TakesEffect ==
  /\ pend # NoLeases
  /\ leases' = pend
  /\ pend' = NoLeases
  /\ unsure' = TRUE
  /\ UNCHANGED <<cached, holder, pc, callVars>>

Work(c) == Answered(c) \/ Check(c) \/ Write(c) \/ Verify(c) \/ Fetch(c)

Next ==
  \/ \E c \in Callers :
       Call(c) \/ Start(c) \/ Work(c)
       \/ WriteLost(c) \/ ReadFails(c) \/ CancelWait(c)
  \/ \E m \in Macs : WebEdit(m)
  \/ TakesEffect

Spec == Init /\ [][Next]_vars

\* The event loop runs what is ready, the library bounds every request by a
\* timeout, and asyncio.Lock serves its waiters in order of arrival.
FairSpec ==
  /\ Spec
  /\ \A c \in Callers : SF_vars(Start(c)) /\ WF_vars(Work(c))

-----------------------------------------------------------------------------
\* The integration gives no address to two devices, whatever calls run at the
\* same time: the list that was checked is still the router's when the
\* reservation is written.
UniqueAddresses == Unique(leases)

\* A reservation that exists is moved to another address by a `set` of its own
\* device only: reserving a current IP never moves one, not even one that was
\* made after the button was pressed or the call was queued.
ReservationsStay ==
  [][\A m \in Macs :
       /\ leases[m] # NoLease /\ leases'[m] # NoLease
       /\ leases'[m].ip # leases[m].ip
       => \E c \in Callers :
            pc[c] = "write" /\ op[c].kind = "set" /\ op[c].mac = m]_vars

\* Between operations, the leases that the buttons and the sensor show are the
\* router's, unless a failed call has left their state open: no list is stored
\* that was read before a write which has been verified since.
CacheIsCurrent == holder = NoCaller /\ ~unsure => cached = leases

\* An operation that reports success has its effect in the list that was read
\* from the router for it, and that list is what is shown.
OkIsTrue ==
  [][\A c \in Callers :
       op[c] # NoOp /\ outcome[c] = "none" /\ outcome'[c] = "ok" =>
         /\ cached' = answer[c]
         /\ op[c].kind = "set" => cached'[op[c].mac] = op[c].lease
         /\ op[c].kind = "remove" => cached'[op[c].mac] = NoLease
         /\ op[c].kind = "reserve" =>
              /\ cached'[op[c].mac] # NoLease
              /\ cached'[op[c].mac].ip = op[c].lease.ip]_vars

\* Every operation ends, whatever else waits for the lock.
EveryCallReturns == \A c \in Callers : pc[c] = "queued" ~> pc[c] = "idle"
=============================================================================
