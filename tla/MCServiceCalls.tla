--------------------------- MODULE MCServiceCalls ---------------------------
(***************************************************************************)
(* Instances of ServiceCalls for TLC: two routers with a tracker each.      *)
(***************************************************************************)
EXTENDS ServiceCalls

CONSTANTS a, b, x, y

MCHome      == [t \in Entities |-> IF t = x THEN a ELSE b]
MCKnowledge == [t \in Entities |-> IF t = x THEN {"address"} ELSE Known \ {"mac"}]
MCMaxSetups == [e \in Entries |-> IF e = a THEN 2 ELSE 1]

Asks(action, xs, area, devices, entry) ==
  [action |-> action, named |-> xs, area |-> area, devices |-> devices,
   entry |-> entry]

\* Trackers of both routers, the second through an area, with a list for the
\* first; a tracker with a list for the only router; two reservations; a lease.
MCRequests ==
  {Asks("access", {x}, {y}, TRUE, a), Asks("access", {y}, {}, TRUE, NoEntry),
   Asks("reserve", {x, y}, {}, FALSE, NoEntry), Asks("lease", {}, {}, FALSE, a)}
=============================================================================
