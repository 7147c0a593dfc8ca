-------------------------- MODULE MCClientTracking --------------------------
(***************************************************************************)
(* Instances of ClientTracking for TLC: a guest `a`, a wired device `b` and *)
(* a device `x` that the filter leaves out.                                 *)
(***************************************************************************)
EXTENDS ClientTracking

CONSTANTS a, b, x

Lists(as, bs, xs) ==
  {s \in [Macs -> Info] : s[a] \in as /\ s[b] \in bs /\ s[x] \in xs}

MCSnapshots == Lists({"absent", "offline", "guest"}, {"absent", "wired"},
                     {"absent", "wlan"})

MCRemovals == {{a}, {a, b}}
=============================================================================
