---------------------------- MODULE AiMeshProofs ----------------------------
(***************************************************************************)
(* Machine-checked proofs about AiMesh, for every finite set of nodes, any  *)
(* number of overlapping updates, and every lists in whatever order they    *)
(* arrive.                                                                  *)
(***************************************************************************)
EXTENDS AiMesh, FiniteSetTheorems, TLAPS

\* How many nodes are connected is at most how many there are.
LEMMA ConnectedBound ==
  ASSUME NEW ns
  PROVE  Cardinality(Connected(ns)) \in 0 .. Cardinality(Macs)
  <1>1. Connected(ns) \subseteq Macs
    BY DEF Connected, Known
  <1>2. IsFiniteSet(Macs)
    BY MeshAssumption
  <1>3. /\ IsFiniteSet(Connected(ns))
        /\ Cardinality(Connected(ns)) <= Cardinality(Macs)
    BY <1>1, <1>2, FS_Subset
  <1>4. Cardinality(Macs) \in Nat /\ Cardinality(Connected(ns)) \in Nat
    BY <1>2, <1>3, FS_CardinalityType
  <1> QED BY <1>3, <1>4

\* A node that AiMeshNode.update has seen is connected or not.
Settled == [connected : {"yes", "no"}, detail : Details \cup {NoDetail}]

LEMMA UpdateType ==
  ASSUME NEW n \in Node, NEW i \in Status,
         n.connected # "unset" \/ i # "absent"
  PROVE  Update(n, i) \in Settled
  <1>1. CASE i \in Details
    BY <1>1 DEF Update, Settled
  <1>2. CASE i = "offline"
    BY <1>2, MeshAssumption DEF Update, Settled, Node
  <1>3. CASE i = "absent"
    <2>1. Update(n, i) = n
      BY <1>3, MeshAssumption DEF Update
    <2> QED BY <1>3, <2>1 DEF Settled, Node
  <1> QED BY <1>1, <1>2, <1>3 DEF Status

LEMMA NewNodeType == NewNode \in Node
  BY DEF NewNode, Node

\* The history of the events fits the nodes: only a known node has had one, and
\* a node that the router listed as offline was last announced as disconnected,
\* or has not been announced since it was found.
Fits(ns, last) ==
  \A m \in Macs :
    /\ ns[m] = NoNode \/ ns[m] \in Settled
    /\ ns[m] = NoNode => last[m] = "none"
    /\ m \in Kept /\ ns[m] # NoNode /\ ns[m].connected = "no" =>
         last[m] \in {"node_disconnected", "node_connected"}

\* What one list does to nodes and their last events, whatever they were.
LEMMA MergeFits ==
  ASSUME NEW ns \in [Macs -> Node \cup {NoNode}], NEW last, Fits(ns, last),
         NEW s \in Snapshots, NEW now,
         \A m \in Macs : now[m] = IF Events(ns, s)[m] = "none" THEN last[m]
                                  ELSE Events(ns, s)[m]
  PROVE  /\ Merged(ns, s) \in [Macs -> Node \cup {NoNode}]
         /\ Events(ns, s) \in [Macs -> Event \cup {"none"}]
         /\ Fits(Merged(ns, s), now)
         /\ \A m \in Macs :
              /\ Events(ns, s)[m] = "node_connected" => last[m] = "none"
              /\ Events(ns, s)[m] = "node_reconnected" =>
                   /\ ns[m].connected = "no"
                   /\ last[m] \in {"node_disconnected", "node_connected"}
  <1> DEFINE all == Merged(ns, s)
             say == Events(ns, s)
  <1>1. s \in [Macs -> Status] /\ NoNode \notin Settled /\ Settled \subseteq Node
    BY MeshAssumption DEF Settled, Node
  <1>2. ASSUME NEW m \in Macs
        PROVE  /\ all[m] = NoNode \/ all[m] \in Settled
               /\ say[m] \in Event \cup {"none"}
               /\ all[m] = NoNode => now[m] = "none"
               /\ m \in Kept /\ all[m] # NoNode /\ all[m].connected = "no" =>
                    now[m] \in {"node_disconnected", "node_connected"}
               /\ say[m] = "node_connected" => last[m] = "none"
               /\ say[m] = "node_reconnected" =>
                    /\ ns[m].connected = "no"
                    /\ last[m] \in {"node_disconnected", "node_connected"}
    <2>0. s[m] \in Status
      BY <1>1
    <2>1. CASE ns[m] = NoNode
      <3>1. last[m] = "none"
        BY <2>1 DEF Fits
      <3>2. all[m] = IF s[m] # "absent" THEN Update(NewNode, s[m]) ELSE NoNode
        BY <2>1 DEF Merged
      <3>3. say[m] = IF m \in Kept /\ s[m] # "absent" THEN "node_connected" ELSE "none"
        BY <2>1 DEF Events
      <3>4. s[m] # "absent" => Update(NewNode, s[m]) \in Settled
        BY <2>0, UpdateType, NewNodeType
      <3> QED BY <1>1, <3>1, <3>2, <3>3, <3>4 DEF Event
    <2>2. CASE ns[m] # NoNode
      <3>1. ns[m] \in Settled
        BY <2>2 DEF Fits
      <3>2. all[m] = Update(ns[m], s[m])
        BY <2>2 DEF Merged
      <3>3. say[m] = IF m \in Kept THEN EventOf(ns[m], s[m]) ELSE "none"
        BY <2>2 DEF Events
      <3>4. ns[m].connected \in {"yes", "no"}
        BY <3>1 DEF Settled
      <3>5. all[m] \in Settled
        BY <1>1, <2>0, <3>1, <3>2, <3>4, UpdateType
      <3>6. say[m] = "node_reconnected" => m \in Kept /\ ns[m].connected = "no"
        BY <3>3 DEF EventOf
      <3>7. say[m] # "node_connected" /\ say[m] \in Event \cup {"none"}
        BY <3>3 DEF EventOf, Event
      <3>8. ASSUME m \in Kept, all[m].connected = "no"
            PROVE  now[m] \in {"node_disconnected", "node_connected"}
        <4>1. CASE s[m] \in Details
          BY <3>2, <3>8, <4>1 DEF Update
        <4>2. CASE s[m] = "offline"
          <5>1. say[m] = IF ns[m].connected = "yes" THEN "node_disconnected" ELSE "none"
            BY <3>3, <3>8, <4>2, MeshAssumption DEF EventOf
          <5> QED BY <2>2, <3>4, <3>8, <5>1 DEF Fits
        <4>3. CASE s[m] = "absent"
          <5>1. say[m] = "node_disconnected"
            BY <3>3, <3>8, <4>3, MeshAssumption DEF EventOf
          <5> QED BY <5>1
        <4> QED BY <2>0, <4>1, <4>2, <4>3 DEF Status
      <3>9. say[m] = "node_reconnected" =>
              last[m] \in {"node_disconnected", "node_connected"}
        BY <2>2, <3>6 DEF Fits
      <3> QED BY <1>1, <3>5, <3>6, <3>7, <3>8, <3>9
    <2> QED BY <2>1, <2>2
  <1>3. all \in [Macs -> Node \cup {NoNode}]
    <2>1. all = [m \in Macs |-> all[m]]
      BY DEF Merged
    <2> QED BY <1>1, <1>2, <2>1
  <1>4. say \in [Macs -> Event \cup {"none"}]
    <2>1. say = [m \in Macs |-> say[m]]
      BY DEF Events
    <2> QED BY <1>2, <2>1
  <1>5. Fits(all, now)
    BY <1>2 DEF Fits
  <1> QED BY <1>2, <1>3, <1>4, <1>5

-----------------------------------------------------------------------------
MeshInv ==
  /\ TypeOK
  /\ Fits(nodes, told)
  /\ \A u \in Updaters : pc[u] = "answered" => answer[u] \in Snapshots

LEMMA InitMesh == Init => MeshInv
<1> SUFFICES ASSUME Init PROVE MeshInv
  OBVIOUS
<1> DEFINE none == [m \in Macs |-> NoNode]
<1>1. none \in [Macs -> Node \cup {NoNode}] /\ Fits(none, NoEvents)
  BY DEF Fits, NoEvents
<1>2. /\ nodes \in [Macs -> Node \cup {NoNode}]
      /\ fired \in [Macs -> Event \cup {"none"}]
      /\ Fits(nodes, fired)
  <2>1. CASE nodes = none /\ fired = NoEvents
    BY <1>1, <2>1 DEF NoEvents
  <2>2. CASE \E s \in Snapshots : nodes = Merged(none, s) /\ fired = Events(none, s)
    <3>1. PICK s \in Snapshots : nodes = Merged(none, s) /\ fired = Events(none, s)
      BY <2>2
    <3>2. \A m \in Macs : fired[m] = IF Events(none, s)[m] = "none" THEN NoEvents[m]
                                     ELSE Events(none, s)[m]
      BY <3>1 DEF NoEvents
    <3> QED BY <1>1, <3>1, <3>2, MergeFits
  <2> QED BY <2>1, <2>2 DEF Init
<1>3. /\ number = Cardinality(Connected(nodes)) /\ listed = Known(nodes)
      /\ handler = [number |-> number, listed |-> listed]
      /\ shown = [number |-> number, nodes |-> nodes]
      /\ told = fired
      /\ pc = [u \in Updaters |-> "idle"] /\ answer = [u \in Updaters |-> NoSnapshot]
  BY DEF Init
<1>4. number \in 0 .. Cardinality(Macs)
  BY <1>3, ConnectedBound
<1>5. listed \subseteq Macs
  BY <1>3 DEF Known
<1> QED BY <1>2, <1>3, <1>4, <1>5 DEF MeshInv, TypeOK

\* What a step keeps when the nodes and their events stay as they are.
LEMMA QuietMesh ==
  ASSUME MeshInv, UNCHANGED nodeVars, fired' = NoEvents,
         NEW u \in Updaters,
         \/ UNCHANGED answer
         \/ answer' = [answer EXCEPT ![u] = NoSnapshot]
         \/ \E s \in Snapshots : answer' = [answer EXCEPT ![u] = s],
         NEW stage \in {"idle", "clients", "asked", "answered"},
         pc' = [pc EXCEPT ![u] = stage],
         stage = "answered" => answer'[u] \in Snapshots,
         \/ UNCHANGED sensorVars
         \/ /\ handler' = [number |-> number, listed |-> listed]
            /\ shown' = [number |-> number, nodes |-> Content(nodes, listed)]
  PROVE  MeshInv'
  <1>1. /\ nodes \in [Macs -> Node \cup {NoNode}] /\ number \in 0 .. Cardinality(Macs)
        /\ listed \subseteq Macs
        /\ pc \in [Updaters -> {"idle", "clients", "asked", "answered"}]
        /\ answer \in [Updaters -> Snapshots \cup {NoSnapshot}]
        /\ told \in [Macs -> Event \cup {"none"}]
    BY DEF MeshInv, TypeOK
  <1>2. UNCHANGED <<nodes, number, listed, told>>
    BY DEF nodeVars
  <1>3. /\ handler' \in [number : 0 .. Cardinality(Macs), listed : SUBSET Macs]
        /\ shown' \in [number : 0 .. Cardinality(Macs),
                       nodes : [Macs -> Node \cup {NoNode}]]
    <2>1. CASE UNCHANGED sensorVars
      BY <2>1 DEF sensorVars, MeshInv, TypeOK
    <2>2. CASE /\ handler' = [number |-> number, listed |-> listed]
               /\ shown' = [number |-> number, nodes |-> Content(nodes, listed)]
      <3>1. Content(nodes, listed) \in [Macs -> Node \cup {NoNode}]
        BY <1>1 DEF Content
      <3> QED BY <1>1, <2>2, <3>1
    <2> QED BY <2>1, <2>2
  <1>4. pc' \in [Updaters -> {"idle", "clients", "asked", "answered"}]
    BY <1>1
  <1>5. answer' \in [Updaters -> Snapshots \cup {NoSnapshot}]
    BY <1>1
  <1>6. fired' \in [Macs -> Event \cup {"none"}]
    BY DEF NoEvents
  <1>7. TypeOK'
    BY <1>1, <1>2, <1>3, <1>4, <1>5, <1>6 DEF TypeOK
  <1>8. Fits(nodes', told')
    BY <1>2 DEF MeshInv
  <1>9. ASSUME NEW v \in Updaters, pc'[v] = "answered" PROVE answer'[v] \in Snapshots
    BY <1>1, <1>9 DEF MeshInv
  <1> QED BY <1>7, <1>8, <1>9 DEF MeshInv

\* An update with the list that has arrived.
LEMMA DeliverStep ==
  ASSUME MeshInv, NEW u \in Updaters, Deliver(u)
  PROVE  MeshInv' /\ \A m \in Macs :
           /\ fired'[m] = "node_connected" => told[m] = "none"
           /\ fired'[m] = "node_reconnected" =>
                \/ told[m] = "node_disconnected"
                \/ told[m] = "node_connected" /\ nodes[m].connected = "no"
  <1>1. /\ answer[u] \in Snapshots
        /\ nodes \in [Macs -> Node \cup {NoNode}] /\ Fits(nodes, told)
        /\ told \in [Macs -> Event \cup {"none"}]
        /\ pc \in [Updaters -> {"idle", "clients", "asked", "answered"}]
        /\ answer \in [Updaters -> Snapshots \cup {NoSnapshot}]
    BY DEF Deliver, MeshInv, TypeOK
  <1>2. /\ nodes' = Merged(nodes, answer[u])
        /\ fired' = Events(nodes, answer[u])
        /\ told' = [m \in Macs |-> IF fired'[m] = "none" THEN told[m] ELSE fired'[m]]
        /\ number' = Cardinality(Connected(nodes')) /\ listed' = Known(nodes')
        /\ answer' = [answer EXCEPT ![u] = NoSnapshot]
        /\ pc' = [pc EXCEPT ![u] = "idle"]
        /\ UNCHANGED <<handler, shown>>
    BY DEF Deliver, Goto, sensorVars
  <1>3. \A m \in Macs : told'[m] = IF Events(nodes, answer[u])[m] = "none"
                                   THEN told[m] ELSE Events(nodes, answer[u])[m]
    BY <1>2
  <1>4. /\ nodes' \in [Macs -> Node \cup {NoNode}]
        /\ fired' \in [Macs -> Event \cup {"none"}]
        /\ Fits(nodes', told')
        /\ \A m \in Macs :
             /\ fired'[m] = "node_connected" => told[m] = "none"
             /\ fired'[m] = "node_reconnected" =>
                  /\ nodes[m].connected = "no"
                  /\ told[m] \in {"node_disconnected", "node_connected"}
    BY <1>1, <1>2, <1>3, MergeFits
  <1>5. told' \in [Macs -> Event \cup {"none"}]
    BY <1>1, <1>2, <1>4
  <1>6. number' \in 0 .. Cardinality(Macs) /\ listed' \subseteq Macs
    BY <1>2, ConnectedBound DEF Known
  <1>7. /\ pc' \in [Updaters -> {"idle", "clients", "asked", "answered"}]
        /\ answer' \in [Updaters -> Snapshots \cup {NoSnapshot}]
        /\ \A v \in Updaters : pc'[v] = "answered" => answer'[v] \in Snapshots
    BY <1>1, <1>2 DEF MeshInv
  <1>8. TypeOK'
    BY <1>2, <1>4, <1>5, <1>6, <1>7 DEF MeshInv, TypeOK
  <1> QED BY <1>4, <1>7, <1>8 DEF MeshInv

LEMMA MeshStep == MeshInv /\ [Next]_vars => MeshInv'
<1> SUFFICES ASSUME MeshInv, [Next]_vars PROVE MeshInv'
  OBVIOUS
<1>1. ASSUME NEW u \in Updaters, Timer(u) PROVE MeshInv'
  BY <1>1, QuietMesh DEF Timer, Goto
<1>2. ASSUME NEW u \in Updaters, Refresh(u) PROVE MeshInv'
  BY <1>2, QuietMesh DEF Refresh
<1>3. ASSUME NEW u \in Updaters, ClientsFail(u) PROVE MeshInv'
  BY <1>3, QuietMesh DEF ClientsFail, Goto
<1>4. ASSUME NEW u \in Updaters, Answered(u) PROVE MeshInv'
  <2>1. PICK s \in Snapshots : answer' = [answer EXCEPT ![u] = s]
    BY <1>4 DEF Answered
  <2>2. answer'[u] = s
    BY <2>1 DEF MeshInv, TypeOK
  <2> QED BY <1>4, <2>1, <2>2, QuietMesh DEF Answered, Goto
<1>5. ASSUME NEW u \in Updaters, Deliver(u) PROVE MeshInv'
  BY <1>5, DeliverStep
<1>6. ASSUME NEW u \in Updaters, NodesFail(u) PROVE MeshInv'
  BY <1>6, QuietMesh DEF NodesFail, Goto
<1>7. CASE UNCHANGED vars
  BY <1>7 DEF vars, nodeVars, sensorVars, MeshInv, TypeOK, Fits
<1> QED BY <1>1, <1>2, <1>3, <1>4, <1>5, <1>6, <1>7 DEF Next

\* The variables of AiMesh keep their types; the number of the sensor never
\* exceeds that of the nodes.
THEOREM TypeCorrect == Spec => []TypeOK
<1>1. MeshInv => TypeOK
  BY DEF MeshInv
<1> QED BY InitMesh, MeshStep, <1>1, PTL DEF Spec

\* A node is announced as new once, and as reconnected only after it was
\* announced as disconnected or found while offline, whatever the order in which
\* the lists of overlapping updates arrive.
THEOREM ConnectsOnceAlways == Spec => ConnectsOnce
<1> DEFINE Announced ==
      \A m \in Macs :
        /\ fired'[m] = "node_connected" => told[m] = "none"
        /\ fired'[m] = "node_reconnected" =>
             \/ told[m] = "node_disconnected"
             \/ told[m] = "node_connected" /\ nodes[m].connected = "no"
<1>1. MeshInv /\ [Next]_vars => [Announced]_vars
  <2> SUFFICES ASSUME MeshInv, Next PROVE Announced
    OBVIOUS
  <2>1. PICK u \in Updaters :
          \/ Timer(u) \/ Refresh(u) \/ ClientsFail(u)
          \/ Answered(u) \/ Deliver(u) \/ NodesFail(u)
    BY DEF Next
  <2>2. CASE Deliver(u)
    BY <2>2, DeliverStep
  <2>3. CASE ~Deliver(u)
    BY <2>1, <2>3 DEF Timer, Refresh, ClientsFail, Answered, NodesFail, NoEvents
  <2> QED BY <2>2, <2>3
<1>2. Spec => [][Announced]_vars
  BY InitMesh, MeshStep, <1>1, PTL DEF Spec
<1> QED BY <1>2 DEF ConnectsOnce

-----------------------------------------------------------------------------
\* The number that the router object keeps is that of its connected nodes, and
\* the sensor has published the one that its handler compares.
NumberInv ==
  /\ number = Cardinality(Connected(nodes))
  /\ shown.number = handler.number

LEMMA NumberStep == NumberInv /\ [Next]_vars => NumberInv'
<1> SUFFICES ASSUME NumberInv, [Next]_vars PROVE NumberInv'
  OBVIOUS
<1>1. ASSUME UNCHANGED nodeVars PROVE number' = Cardinality(Connected(nodes'))
  BY <1>1 DEF NumberInv, nodeVars
<1>2. ASSUME UNCHANGED sensorVars PROVE shown'.number = handler'.number
  BY <1>2 DEF NumberInv, sensorVars
<1>3. ASSUME NEW u \in Updaters,
             Timer(u) \/ ClientsFail(u) \/ Answered(u) \/ NodesFail(u)
      PROVE  UNCHANGED nodeVars /\ UNCHANGED sensorVars
  BY <1>3 DEF Timer, ClientsFail, Answered, NodesFail
<1>4. ASSUME NEW u \in Updaters, Refresh(u)
      PROVE  UNCHANGED nodeVars /\ shown'.number = handler'.number
  BY <1>2, <1>4 DEF Refresh
<1>5. ASSUME NEW u \in Updaters, Deliver(u)
      PROVE  number' = Cardinality(Connected(nodes')) /\ UNCHANGED sensorVars
  BY <1>5 DEF Deliver
<1>6. ASSUME UNCHANGED vars PROVE UNCHANGED nodeVars /\ UNCHANGED sensorVars
  BY <1>6 DEF vars
<1>7. /\ number' = Cardinality(Connected(nodes'))
      /\ shown'.number = handler'.number
  BY <1>1, <1>2, <1>3, <1>4, <1>5, <1>6 DEF Next
<1> QED BY <1>7 DEF NumberInv

\* After a refresh the sensor shows how many nodes are connected, whether or not
\* the handler found a difference between the lists that it compared.
THEOREM NumberAlwaysShown == Spec => NumberShown
<1>1. Init => NumberInv
  BY DEF Init, NumberInv
<1>2. ASSUME NumberInv, NEW u \in Updaters, Refresh(u)
      PROVE  shown'.number = Cardinality(Connected(nodes))
  <2>1. CASE Changed
    BY <1>2, <2>1 DEF Refresh, NumberInv
  <2>2. CASE ~Changed
    BY <1>2, <2>2 DEF Refresh, Changed, NumberInv, sensorVars
  <2> QED BY <2>1, <2>2
<1>3. NumberInv /\ [Next]_vars =>
        [\A u \in Updaters :
           Refresh(u) => shown'.number = Cardinality(Connected(nodes))]_vars
  BY <1>2
<1> QED BY <1>1, <1>3, NumberStep, PTL DEF NumberShown, Spec
=============================================================================
