------------------------------- MODULE AiMesh -------------------------------
(***************************************************************************)
(* The AiMesh nodes of one router: ARDevice.update_nodes, AiMeshNode.update *)
(* with the events that it fires, and the AiMesh sensor, which is refreshed *)
(* at the end of update_clients.                                            *)
(*                                                                          *)
(* The list that the sensor's handler keeps holds the nodes' identity       *)
(* dictionaries themselves: what it says is what `nodes` says now.          *)
(***************************************************************************)
EXTENDS Naturals, FiniteSets

CONSTANTS
  Macs,        \* the nodes that the router may list
  Kept,        \* the MAC addresses that the client filter leaves
  Details,     \* a node's address, alias, model and type
  NoDetail,    \* they are not known
  Snapshots,   \* the node lists that the router may answer with
  Updaters,    \* runs of update_all, and of remove_trackers
  NoNode,      \* the router object has no such node
  NoSnapshot   \* no answer is on its way

\* What a list says of a node.
Status == {"absent", "offline"} \cup Details

\* A node has no connection state before its first update.
Node  == [connected : {"unset", "yes", "no"}, detail : Details \cup {NoDetail}]
Event == {"node_connected", "node_reconnected", "node_disconnected"}

ASSUME MeshAssumption ==
  /\ Kept \subseteq Macs
  /\ NoDetail \notin Details
  /\ {"absent", "offline"} \cap Details = {}
  /\ Snapshots \subseteq [Macs -> Status]
  /\ NoNode \notin Node
  /\ NoSnapshot \notin Snapshots
  /\ IsFiniteSet(Macs)

VARIABLES
  nodes,    \* ARDevice._aimesh, with each node's identity
  number,   \* ARDevice._aimesh_number
  listed,   \* the nodes in ARDevice._aimesh_list
  handler,  \* the number and the list of the sensor handler
  shown,    \* the number and the nodes that the sensor last published
  pc,       \* the await at which each run is suspended
  answer,   \* the list on its way to each run
  fired,    \* history: the events of the last step
  told      \* history: each node's last event

nodeVars == <<nodes, number, listed, told>>
sensorVars == <<handler, shown>>
vars == <<nodeVars, sensorVars, pc, answer, fired>>

NoEvents == [m \in Macs |-> "none"]

\* Every variable has its type.
TypeOK ==
  /\ nodes \in [Macs -> Node \cup {NoNode}]
  /\ number \in 0 .. Cardinality(Macs)
  /\ listed \subseteq Macs
  /\ handler \in [number : 0 .. Cardinality(Macs), listed : SUBSET Macs]
  /\ shown \in [number : 0 .. Cardinality(Macs),
                nodes : [Macs -> Node \cup {NoNode}]]
  /\ pc \in [Updaters -> {"idle", "clients", "asked", "answered"}]
  /\ answer \in [Updaters -> Snapshots \cup {NoSnapshot}]
  /\ fired \in [Macs -> Event \cup {"none"}]
  /\ told \in [Macs -> Event \cup {"none"}]

-----------------------------------------------------------------------------
Known(ns) == {m \in Macs : ns[m] # NoNode}
Connected(ns) == {m \in Known(ns) : ns[m].connected = "yes"}

\* What the listed nodes say.
Content(ns, ms) == [m \in Macs |-> IF m \in ms THEN ns[m] ELSE NoNode]

\* AiMeshNode.update.  A node that is not listed keeps its state.
Update(n, i) ==
  IF i \in Details THEN [connected |-> "yes", detail |-> i]
  ELSE IF i = "offline" THEN [n EXCEPT !.connected = "no"]
  ELSE n

\* The event of a node that was known.
EventOf(n, i) ==
  IF i \in Details /\ n.connected = "no" THEN "node_reconnected"
  ELSE IF i = "absent" \/ (i = "offline" /\ n.connected = "yes")
  THEN "node_disconnected"
  ELSE "none"

NewNode == [connected |-> "unset", detail |-> NoDetail]

Merged(ns, s) ==
  [m \in Macs |-> IF ns[m] # NoNode THEN Update(ns[m], s[m])
                  ELSE IF s[m] # "absent" THEN Update(NewNode, s[m]) ELSE NoNode]

\* Mutant of Events: a node that is back on the list is taken for a new one.
ForgetsAbsent(ns, s) ==
  [m \in Macs |->
     IF m \notin Kept \/ (ns[m] = NoNode /\ s[m] = "absent") THEN "none"
     ELSE IF ns[m] = NoNode \/ (told[m] = "node_disconnected" /\ s[m] # "absent")
          THEN "node_connected"
     ELSE EventOf(ns[m], s[m])]

\* fire_event is silent for the addresses that the client filter leaves out.
Events(ns, s) ==
  [m \in Macs |->
     IF m \notin Kept THEN "none"
     ELSE IF ns[m] # NoNode THEN EventOf(ns[m], s[m])
     ELSE IF s[m] # "absent" THEN "node_connected" ELSE "none"]

\* The first list, or a failure, and the first refresh of the sensor.
Init ==
  /\ \/ nodes = [m \in Macs |-> NoNode] /\ fired = NoEvents
     \/ \E s \in Snapshots :
          LET none == [m \in Macs |-> NoNode] IN
          nodes = Merged(none, s) /\ fired = Events(none, s)
  /\ number = Cardinality(Connected(nodes))
  /\ listed = Known(nodes)
  /\ handler = [number |-> number, listed |-> listed]
  /\ shown = [number |-> number, nodes |-> nodes]
  /\ told = fired
  /\ pc = [u \in Updaters |-> "idle"]
  /\ answer = [u \in Updaters |-> NoSnapshot]

-----------------------------------------------------------------------------
Goto(u, stage) == pc' = [pc EXCEPT ![u] = stage]

Timer(u) ==
  /\ pc[u] = "idle"
  /\ Goto(u, "clients")
  /\ fired' = NoEvents
  /\ UNCHANGED <<nodeVars, sensorVars, answer>>

\* Mutant of Changed: only the list is compared.
ListChanged ==
  Content(nodes, handler.listed) # Content(nodes, listed)

\* update_aimesh: the handler's number or list differs from the router's.
Changed ==
  \/ handler.number # number
  \/ Content(nodes, handler.listed) # Content(nodes, listed)

\* The end of update_clients: the sensor is refreshed if something changed.
Refresh(u) ==
  /\ pc[u] = "clients"
  /\ IF Changed
     THEN /\ handler' = [number |-> number, listed |-> listed]
          /\ shown' = [number |-> number, nodes |-> Content(nodes, listed)]
     ELSE UNCHANGED sensorVars
  /\ pc' \in {[pc EXCEPT ![u] = "asked"], [pc EXCEPT ![u] = "idle"]}
  /\ fired' = NoEvents
  /\ UNCHANGED <<nodeVars, answer>>

\* The clients cannot be had: the sensor is not refreshed.
ClientsFail(u) ==
  /\ pc[u] = "clients"
  /\ Goto(u, "asked")
  /\ fired' = NoEvents
  /\ UNCHANGED <<nodeVars, sensorVars, answer>>

\* The router answers, and the answer is on its way.
Answered(u) ==
  /\ pc[u] = "asked"
  /\ \E s \in Snapshots : answer' = [answer EXCEPT ![u] = s]
  /\ Goto(u, "answered")
  /\ fired' = NoEvents
  /\ UNCHANGED <<nodeVars, sensorVars>>

\* update_nodes from the arrival of the list on.
Deliver(u) ==
  /\ pc[u] = "answered"
  /\ nodes' = Merged(nodes, answer[u])
  /\ fired' = Events(nodes, answer[u])
  /\ told' = [m \in Macs |-> IF fired'[m] = "none" THEN told[m] ELSE fired'[m]]
  /\ number' = Cardinality(Connected(nodes'))
  /\ listed' = Known(nodes')
  /\ answer' = [answer EXCEPT ![u] = NoSnapshot]
  /\ Goto(u, "idle")
  /\ UNCHANGED sensorVars

\* The nodes cannot be had.
NodesFail(u) ==
  /\ pc[u] \in {"asked", "answered"}
  /\ answer' = [answer EXCEPT ![u] = NoSnapshot]
  /\ Goto(u, "idle")
  /\ fired' = NoEvents
  /\ UNCHANGED <<nodeVars, sensorVars>>

Next ==
  \E u \in Updaters :
    \/ Timer(u) \/ Refresh(u) \/ ClientsFail(u)
    \/ Answered(u) \/ Deliver(u) \/ NodesFail(u)

Spec == Init /\ [][Next]_vars

-----------------------------------------------------------------------------
\* A node is announced as connected only when it has not been seen before, and
\* as reconnected only when it was last announced as disconnected, or as
\* connected while the router listed it as offline.
ConnectsOnce ==
  [][\A m \in Macs :
       /\ fired'[m] = "node_connected" => told[m] = "none"
       /\ fired'[m] = "node_reconnected" =>
            \/ told[m] = "node_disconnected"
            \/ told[m] = "node_connected" /\ nodes[m].connected = "no"]_vars

\* After a refresh the sensor's number is that of the connected nodes, although
\* the handler compares lists that share their dictionaries.
NumberShown ==
  [][\A u \in Updaters :
       Refresh(u) => shown'.number = Cardinality(Connected(nodes))]_vars
=============================================================================
