----------------------------- MODULE RuleService -----------------------------
(***************************************************************************)
(* What ARDevice.async_set_internet_access promises its callers: a call    *)
(* changes the router's table, if at all, by one atomic update of exactly  *)
(* what it asked for, and reports success only while its request holds.    *)
(* There is no lock, no snapshot and no read-back here.                    *)
(***************************************************************************)
EXTENDS RuleTables

CONSTANTS Writers, Requests, NoRequest, InitTables

VARIABLES
  table,      \* the router's rule table
  call,       \* the request of each writer that is in a call
  straggler,  \* a request whose call failed, yet that may still take effect
  outcome     \* how each writer's last call ended

vars == <<table, call, straggler, outcome>>

\* The request holds: its targets have the type asked for, or no rule.
Holds(t, r) ==
  \A m \in r.macs :
    IF r.state = "remove"
    THEN t[m] = NoRule
    ELSE t[m] # NoRule /\ t[m].type = RuleType(r.state)

Init ==
  /\ table \in InitTables
  /\ call = [w \in Writers |-> NoRequest]
  /\ straggler = NoRequest
  /\ outcome = [w \in Writers |-> "none"]

Begin(w) ==
  /\ call[w] = NoRequest
  /\ \E r \in Requests : call' = [call EXCEPT ![w] = r]
  /\ outcome' = [outcome EXCEPT ![w] = "none"]
  /\ UNCHANGED <<table, straggler>>

\* The update, in one step.  It is idempotent.
TakeEffect(w) ==
  /\ call[w] # NoRequest
  /\ table' = Updated(table, call[w])
  /\ UNCHANGED <<call, straggler, outcome>>

Succeed(w) ==
  /\ call[w] # NoRequest
  /\ Holds(table, call[w])
  /\ call' = [call EXCEPT ![w] = NoRequest]
  /\ outcome' = [outcome EXCEPT ![w] = "ok"]
  /\ UNCHANGED <<table, straggler>>

\* A failed call leaves open whether its update still comes: the write may be
\* on its way when the caller is cancelled or stops waiting for it.
Fail(w) ==
  /\ call[w] # NoRequest
  /\ call' = [call EXCEPT ![w] = NoRequest]
  /\ outcome' = [outcome EXCEPT ![w] = "failed"]
  /\ straggler' \in {straggler, call[w]}
  /\ UNCHANGED table

LateEffect ==
  /\ straggler # NoRequest
  /\ table' = Updated(table, straggler)
  /\ straggler' = NoRequest
  /\ UNCHANGED <<call, outcome>>

Next ==
  \/ \E w \in Writers : Begin(w) \/ TakeEffect(w) \/ Succeed(w) \/ Fail(w)
  \/ LateEffect

Spec == Init /\ [][Next]_vars
=============================================================================
