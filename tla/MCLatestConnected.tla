------------------------- MODULE MCLatestConnected -------------------------
(***************************************************************************)
(* Instances of LatestConnected for TLC.                                    *)
(***************************************************************************)
EXTENDS LatestConnected

CONSTANTS m1, m2, m3

MCOrder == <<m1, m2, m3>>
=============================================================================
