----------------------------- MODULE RuleTables -----------------------------
(***************************************************************************)
(* The parental-control rule table of one router, and what one            *)
(* internet-access request asks of it: the data that the rule writer,      *)
(* bridge.async_pc_rule, computes with.                                    *)
(*                                                                         *)
(* A MAC stands for the address in every spelling: the code compares       *)
(* addresses through format_mac and writes a row back under the router's   *)
(* own spelling.  A name stands for its class under _pc_field, so that an  *)
(* escaped and a plain spelling are one name, and an absent and an empty   *)
(* one are both NoName.                                                    *)
(***************************************************************************)
EXTENDS Naturals, FiniteSets

CONSTANTS
  Macs,             \* the devices that can have a rule
  NoRule,           \* the table has no row for the device
  Names,            \* nonempty rule names
  NoName,           \* an absent or empty name
  LibName,          \* the library's default for a new row without a name
  Schedules,        \* schedules (the library's `timemap`), an empty one too
  DefaultSchedule,  \* the library's default schedule for a new row
  MaxRules          \* the rule limit that the router advertises

RuleTypes == {"block", "disable", "time"}
MaybeName == Names \cup {NoName}
Rule      == [type : RuleTypes, name : MaybeName, timemap : Schedules]
Table     == [Macs -> Rule \cup {NoRule}]

\* A request names some devices; for each it may supply a name, and the
\* service handler may suggest the tracker's name (`default_name`).
States  == {"allow", "block", "remove"}
Request == [state : States, macs : SUBSET Macs,
            name : [Macs -> MaybeName], default_name : [Macs -> MaybeName]]

ASSUME DataAssumption ==
  /\ NoRule \notin Rule
  /\ LibName \in Names
  /\ DefaultSchedule \in Schedules
  /\ MaxRules \in Nat
  /\ IsFiniteSet(Macs)

Rows(t) == {m \in Macs : t[m] # NoRule}

RuleType(state) == IF state = "block" THEN "block" ELSE "disable"

\* `x or y` of two names.
NameOr(x, y) == IF x # NoName THEN x ELSE y

\* The row for a device that has none: the library's add_rule fills what the
\* request leaves blank.
NewRule(r, m) ==
  [type    |-> RuleType(r.state),
   name    |-> NameOr(NameOr(r.name[m], r.default_name[m]), LibName),
   timemap |-> DefaultSchedule]

\* The row for a device that has one: the type changes, and the name if the
\* request supplies one; the schedule stays.
ChangedRule(old, r, m) ==
  [type    |-> RuleType(r.state),
   name    |-> NameOr(r.name[m], old.name),
   timemap |-> old.timemap]

\* The whole table that the writer sends for request r on snapshot t.
Updated(t, r) ==
  [m \in Macs |->
     IF m \notin r.macs THEN t[m]
     ELSE IF r.state = "remove" THEN NoRule
     ELSE IF t[m] = NoRule THEN NewRule(r, m)
     ELSE ChangedRule(t[m], r, m)]

\* Mutant of OverCapacity: the snapshot is judged, not the proposed table.
SnapshotFull(t, r) ==
  /\ r.state # "remove"
  /\ Cardinality(Rows(t)) >= MaxRules

\* validate_pc_capacity: only a write that grows the table can be over the
\* limit, and a removal is not validated at all.
OverCapacity(t, r) ==
  /\ r.state # "remove"
  /\ Cardinality(Rows(Updated(t, r))) > Cardinality(Rows(t))
  /\ Cardinality(Rows(Updated(t, r))) > MaxRules

\* Mutant of Matches: only the targets are looked at.
TargetsMatch(t, r, expected) ==
  IF r.state = "remove"
  THEN r.macs \cap Rows(t) = {}
  ELSE \A m \in r.macs :
         t[m] # NoRule /\ t[m].type = RuleType(r.state)

\* Whether a table read back shows that request r holds, given the table
\* `expected` that was sent: every other row came back with its type, and
\* the targets are as sent.
Matches(t, r, expected) ==
  /\ \A m \in Rows(expected) \ r.macs :
        t[m] # NoRule /\ t[m].type = expected[m].type
  /\ IF r.state = "remove"
     THEN r.macs \cap Rows(t) = {}
     ELSE \A m \in r.macs :
            /\ t[m] # NoRule /\ expected[m] # NoRule
            /\ t[m].type = RuleType(r.state)
            /\ t[m].name = expected[m].name
            /\ t[m].timemap = expected[m].timemap
=============================================================================
