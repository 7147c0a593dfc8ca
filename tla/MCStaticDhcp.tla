---------------------------- MODULE MCStaticDhcp ----------------------------
(***************************************************************************)
(* Instances of StaticDhcp for TLC: two devices that want one address.      *)
(***************************************************************************)
EXTENDS StaticDhcp

CONSTANTS m1, m2

At(ip, details) == [ip |-> ip, details |-> details]

Set(m, ip, details)     == [kind |-> "set", mac |-> m, lease |-> At(ip, details)]
Reserve(m, ip, details) ==
  [kind |-> "reserve", mac |-> m, lease |-> At(ip, details)]
Remove(m) == [kind |-> "remove", mac |-> m]
Refresh   == [kind |-> "refresh"]

MCAddresses == {"ip1", "ip2"}
MCDetails   == {"none", "printer"}

\* Each device may want the address that the other one has.
MCOps ==
  {Set(m1, "ip1", "printer"), Set(m1, "ip2", "none"), Reserve(m1, "ip1", "none"),
   Set(m2, "ip1", "none"), Reserve(m2, "ip2", "none"), Remove(m1), Refresh}

\* One operation of each kind.
MCFewOps ==
  {Set(m1, "ip1", "printer"), Reserve(m2, "ip2", "none"), Remove(m1), Refresh}

MCNoLeases   == [m \in Macs |-> NoLease]
MCOneLease   == [m \in Macs |-> IF m = m1 THEN At("ip2", "none") ELSE NoLease]
MCInitLeases == {MCNoLeases, MCOneLease}
MCWebLeases  == {At("ip1", "none")}
=============================================================================
