--------------------------- MODULE MCRuleSwitches ---------------------------
(***************************************************************************)
(* Instances of RuleSwitches for TLC: two devices, a removal of both, and   *)
(* a change of one.                                                         *)
(***************************************************************************)
EXTENDS RuleSwitches

CONSTANTS m1, m2

MCRequests ==
  {[state |-> "remove", macs |-> {m1, m2}], [state |-> "block", macs |-> {m1}]}

MCInitTables == {[m \in Macs |-> "disable"]}
MCWebRules   == {"disable"}
=============================================================================
