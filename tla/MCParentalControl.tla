-------------------------- MODULE MCParentalControl --------------------------
(***************************************************************************)
(* Instances of ParentalControl for TLC: two or three devices, few rules,   *)
(* and requests of each kind.                                               *)
(***************************************************************************)
EXTENDS RuleServiceRefinement

CONSTANTS m1, m2, m3

Unnamed == [m \in Macs |-> NoName]

Ask(state, macs, name) ==
  [state |-> state, macs |-> macs,
   name |-> [m \in Macs |-> IF m \in macs THEN name ELSE NoName],
   default_name |-> Unnamed]

\* Requests of two devices or one: a grant with a name, a removal, a block. With
\* room for two rules, a request needs none, one or two new rows.
AllowBoth == Ask("allow", {m1, m2}, "lib")
RemoveOne == Ask("remove", {m1}, NoName)
BlockRest == Ask("block", {m2, m3}, NoName)
AllowTwo  == Ask("allow", {m2}, "lib")

WriterRequests == {AllowBoth, RemoveOne, BlockRest}

\* A removal, and a grant that leaves a bystander.
FaultRequests == {AllowTwo, RemoveOne}

Scheduled == [type |-> "time", name |-> "n1", timemap |-> "evenings"]

OneRule  == [m \in Macs |-> IF m = m1 THEN Scheduled ELSE NoRule]
TwoRules == [m \in Macs |-> Scheduled]

MCInitTables == {OneRule, TwoRules}
MCOneTable   == {OneRule}
MCWebRules   == {Scheduled}
MCNames      == {"n1", "lib"}
MCSchedules  == {"evenings", "always"}
=============================================================================
