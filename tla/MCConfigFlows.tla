--------------------------- MODULE MCConfigFlows ---------------------------
(***************************************************************************)
(* Instances of ConfigFlows for TLC: the password with two values, and the  *)
(* operation mode.                                                          *)
(***************************************************************************)
EXTENDS ConfigFlows

MCNames  == {"password", "mode"}
MCValues == [n \in MCNames |-> IF n = "mode" THEN {"router", "node"} ELSE {"old", "new"}]
=============================================================================
