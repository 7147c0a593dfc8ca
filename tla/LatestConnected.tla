-------------------------- MODULE LatestConnected --------------------------
(***************************************************************************)
(* The bounded list of the latest connected devices:                        *)
(* ARDevice.update_latest_connected, which every update_clients runs on the *)
(* clients that are connected then.                                         *)
(*                                                                          *)
(* The specification NewestKept says what the list is without saying how it *)
(* is kept: of all connections ever seen, the newest ones.                  *)
(***************************************************************************)
EXTENDS Naturals, Sequences, FiniteSets, Functions

CONSTANTS
  Order,    \* the devices, in the order of the _clients dictionary
  Limit,    \* the option latest_connected
  MaxTime,  \* bound of the clock
  NoTime    \* the device is not connected, or not known since when

Macs == Range(Order)
Time == 0 .. MaxTime
Entry == [mac : Macs, at : Time]

ASSUME LatestAssumption ==
  /\ Order \in Seq(Macs) /\ IsInjective(Order)
  /\ Limit \in Nat
  /\ MaxTime \in Nat
  /\ NoTime \notin Time

VARIABLES
  clock,
  since,   \* since when each device is connected, as the router says
  latest,  \* ARDevice._latest_connected_list
  newest,  \* ARDevice._latest_connected
  seen     \* history: each device's last connection that an update has seen

vars == <<clock, since, latest, newest, seen>>

\* Every variable has its type; the list is never longer than the option says.
TypeOK ==
  /\ clock \in Time
  /\ since \in [Macs -> Time \cup {NoTime}]
  /\ latest \in Seq(Entry) /\ Len(latest) <= Limit
  /\ newest \in Time \cup {NoTime}
  /\ seen \in [Macs -> Time \cup {NoTime}]

Init ==
  /\ clock = 0
  /\ since = [m \in Macs |-> NoTime]
  /\ latest = <<>>
  /\ newest = NoTime
  /\ seen = [m \in Macs |-> NoTime]

-----------------------------------------------------------------------------
\* The clients that are connected since a known time.
Current == {i \in DOMAIN Order : since[Order[i]] # NoTime}

\* The entries of the list whose devices are not connected now.
Missing == {i \in DOMAIN latest : since[latest[i].mac] = NoTime}

\* The list is put together from both, the current clients first.
Candidates == ({0} \X Current) \cup ({1} \X Missing)

EntryOf(c) ==
  IF c[1] = 0 THEN [mac |-> Order[c[2]], at |-> since[Order[c[2]]]]
  ELSE latest[c[2]]

Ahead(c, d) == c[1] < d[1] \/ (c[1] = d[1] /\ c[2] < d[2])

\* Mutant of Before: the list keeps the order in which it was put together.
AsIs(c, d) == Ahead(c, d)

\* The order of a stable sort by time.
Before(c, d) ==
  \/ EntryOf(c).at < EntryOf(d).at
  \/ EntryOf(c).at = EntryOf(d).at /\ Ahead(c, d)

Rank(c) == Cardinality({d \in Candidates : Before(d, c)}) + 1

\* The sorted list: its k-th entry is that of the candidate of rank k.
Ranked(k) == CHOOSE c \in Candidates : Rank(c) = k
ByTime == [k \in 1 .. Cardinality(Candidates) |-> EntryOf(Ranked(k))]

\* The last Limit entries.
Trim(s) == IF Len(s) <= Limit THEN s ELSE SubSeq(s, Len(s) - Limit + 1, Len(s))

Tick ==
  /\ clock < MaxTime
  /\ clock' = clock + 1
  /\ UNCHANGED <<since, latest, newest, seen>>

\* A device connects, or connects again.
Connect(m) ==
  /\ since[m] # clock
  /\ since' = [since EXCEPT ![m] = clock]
  /\ UNCHANGED <<clock, latest, newest, seen>>

Leave(m) ==
  /\ since[m] # NoTime
  /\ since' = [since EXCEPT ![m] = NoTime]
  /\ UNCHANGED <<clock, latest, newest, seen>>

\* update_latest_connected.  An empty list changes nothing.
UpdateLatest ==
  LET list == Trim(ByTime) IN
  /\ IF list # <<>>
     THEN latest' = list /\ newest' = list[Len(list)].at
     ELSE UNCHANGED <<latest, newest>>
  /\ seen' = [m \in Macs |-> IF since[m] # NoTime THEN since[m] ELSE seen[m]]
  /\ UNCHANGED <<clock, since>>

Next ==
  \/ Tick
  \/ UpdateLatest
  \/ \E m \in Macs : Connect(m) \/ Leave(m)

Spec == Init /\ [][Next]_vars

-----------------------------------------------------------------------------
\* The list has a device once.
EachOnce ==
  \A i, j \in DOMAIN latest : latest[i].mac = latest[j].mac => i = j

\* Oldest first.
Sorted ==
  \A i, j \in DOMAIN latest : i < j => latest[i].at <= latest[j].at

Seen == {m \in Macs : seen[m] # NoTime}
Listed == {latest[i].mac : i \in DOMAIN latest}

Newest == IF latest = <<>> THEN NoTime ELSE latest[Len(latest)].at

\* The list is the newest connections that were ever seen, each device with its
\* last one, and the sensor of the latest connection shows the last of them: a
\* device that was trimmed, or that left and came back, is on it exactly when
\* its last connection is among the newest.
NewestKept ==
  /\ TypeOK /\ EachOnce /\ Sorted
  /\ \A i \in DOMAIN latest : latest[i].at = seen[latest[i].mac]
  /\ Len(latest) < Limit => Listed = Seen
  /\ \A m \in Seen \ Listed, i \in DOMAIN latest : seen[m] <= latest[i].at
  /\ newest = Newest
=============================================================================
