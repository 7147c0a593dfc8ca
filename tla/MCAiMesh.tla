------------------------------ MODULE MCAiMesh ------------------------------
(***************************************************************************)
(* Instances of AiMesh for TLC: two nodes, each with two possible details.  *)
(***************************************************************************)
EXTENDS AiMesh

MCDetails   == {"living room", "attic"}
MCSnapshots == [Macs -> Status]
=============================================================================
