------------------------- MODULE ServiceCallsProofs -------------------------
(***************************************************************************)
(* Machine-checked proofs about ServiceCalls, for every set of entries,     *)
(* entities, calls and requests, however entries are set up and unloaded    *)
(* meanwhile.                                                               *)
(***************************************************************************)
EXTENDS ServiceCalls, TLAPS

\* A router object is an entry and the number of one of its set-ups.
LEMMA ObjectParts ==
  /\ \A o \in Objects : /\ o = <<o[1], o[2]>> /\ o[1] \in Entries
                        /\ o[2] \in 1 .. MaxSetups[o[1]]
  /\ \A e \in Entries : \A n \in 1 .. MaxSetups[e] : <<e, n>> \in Objects
  BY DEF Objects

LEMMA ObjectCount ==
  ASSUME TypeOK, NEW o \in Objects
  PROVE  o[1] \in Entries /\ o[2] \in Nat /\ setups[o[1]] \in Nat
  <1>1. o[1] \in Entries /\ o[2] \in 1 .. MaxSetups[o[1]]
    BY ObjectParts
  <1>2. MaxSetups[o[1]] \in Nat
    BY <1>1, ServiceAssumption
  <1> QED BY <1>1, <1>2 DEF TypeOK

Active(c) == pc[c] \in {"queued", "working"}

\* What a call that is under way has in its loop.
Kinds(c) ==
  Active(c) => /\ at[c] \in Objects
               /\ req[c].action = "access" => todo[c] \subseteq Objects
               /\ req[c].action = "reserve" => todo[c] \subseteq Entities

TypeInv == TypeOK /\ \A c \in Calls : Kinds(c)

\* The types that the steps of a call need.
LEMMA CallVars ==
  ASSUME TypeInv
  PROVE  /\ holder \in [Locks -> Calls \cup {NoCall}]
         /\ req \in [Calls -> Requests \cup {NoRequest}]
         /\ group \in [Calls -> [Objects -> SUBSET Targets]]
         /\ target \in [Calls -> SUBSET Targets]
         /\ written \in [Calls -> SUBSET Targets]
         /\ done \in [Calls -> SUBSET Targets]
         /\ good \in [Calls -> SUBSET Objects]
         /\ bad \in [Calls -> SUBSET Objects]
  BY DEF TypeInv, TypeOK

LEMMA RequestType ==
  ASSUME TypeOK, NEW c \in Calls, pc[c] # "new"
  PROVE  /\ req[c] \in Requests
         /\ req[c].action \in {"access", "reserve", "lease"}
  BY ServiceAssumption DEF TypeOK, Request

\* The router object of an entry that serves calls.
LEMMA ServingObject ==
  ASSUME TypeOK, NEW e, Serves(e)
  PROVE  /\ e \in Entries /\ loaded[e] \in Objects
         /\ loaded[e] = <<e, setups[e]>>
         /\ loaded[e][1] = e /\ loaded[loaded[e][1]] = loaded[e]
  <1>1. e \in Entries /\ loaded[e] # NoObject
    BY ServiceAssumption DEF Serves
  <1>2. loaded[e] \in Objects /\ loaded[e] = <<e, setups[e]>>
    BY <1>1 DEF TypeOK
  <1> QED BY <1>1, <1>2

LEMMA AddressObject ==
  ASSUME TypeOK, NEW x \in Entities, IsTracker(x)
  PROVE  /\ Home[x] \in Entries /\ Serves(Home[x])
         /\ loaded[Home[x]] \in Objects
  BY ServingObject DEF IsTracker

LEMMA EntityIdsType ==
  ASSUME NEW r \in Requests
  PROVE  EntityIds(r) \subseteq Entities /\ r.named \subseteq EntityIds(r)
  BY ServiceAssumption DEF EntityIds, Request

LEMMA GroupedType ==
  ASSUME NEW r \in Requests
  PROVE  Grouped(r) \in [Objects -> SUBSET Targets]
  BY EntityIdsType DEF Grouped, Targets

-----------------------------------------------------------------------------
(* How a call moves on *)

\* The position of call c changes, to one that is well typed, and no other's.
Moved(c) ==
  /\ pc' \in [Calls -> {"new", "queued", "working", "returned"}]
  /\ todo' \in [Calls -> SUBSET (Objects \cup Entities)]
  /\ at' \in [Calls -> Objects \cup {NoObject}]
  /\ target' \in [Calls -> SUBSET Targets]
  /\ named' \in [Calls -> [Objects -> Names]]
  /\ result' \in [Calls -> {"none", "ok", "invalid", "failed", "aborted"}]
  /\ \A d \in Calls \ {c} :
       /\ pc'[d] = pc[d] /\ todo'[d] = todo[d] /\ at'[d] = at[d]
       /\ target'[d] = target[d] /\ named'[d] = named[d] /\ result'[d] = result[d]

LEMMA ReturnMoves ==
  ASSUME TypeOK, NEW c \in Calls, NEW how \in {"ok", "invalid", "failed", "aborted"},
         Return(c, how)
  PROVE  /\ Moved(c)
         /\ pc'[c] = "returned" /\ result'[c] = how /\ at'[c] = NoObject
         /\ target'[c] = {} /\ todo'[c] = {} /\ named'[c] = named[c]
  BY DEF TypeOK, Return, Moved

LEMMA EnterMoves ==
  ASSUME TypeOK, NEW c \in Calls, NEW o \in Objects, NEW xs \in SUBSET Targets,
         NEW rest \in SUBSET (Objects \cup Entities), Enter(c, o, xs, rest)
  PROVE  /\ Moved(c)
         /\ pc'[c] = "queued" /\ result'[c] = result[c] /\ at'[c] = o
         /\ target'[c] = xs /\ todo'[c] = rest
         /\ named'[c] = [named[c] EXCEPT ![o] = RouterName(o)]
  <1>1. RouterName(o) \in Names
    BY ObjectParts DEF RouterName, Names
  <1> QED BY <1>1 DEF TypeOK, Enter, Moved

\* The loop over routers: it ends, or goes on with one of the rest.
LEMMA RouterMoves ==
  ASSUME TypeOK, NEW c \in Calls, NEW by \in [Objects -> SUBSET Targets],
         NEW rest \in SUBSET Objects, NEW fail, NextRouter(c, by, rest, fail)
  PROVE  /\ Moved(c)
         /\ \/ /\ rest = {} /\ pc'[c] = "returned" /\ at'[c] = NoObject
               /\ result'[c] = IF fail = {} THEN "ok" ELSE "failed"
               /\ target'[c] = {} /\ todo'[c] = {} /\ named'[c] = named[c]
            \/ /\ pc'[c] = "queued" /\ result'[c] = result[c]
               /\ at'[c] \in rest /\ target'[c] = by[at'[c]]
               /\ todo'[c] = rest \ {at'[c]}
               /\ named'[c] = [named[c] EXCEPT ![at'[c]] = RouterName(at'[c])]
  <1>1. CASE rest = {}
    <2>1. Return(c, IF fail = {} THEN "ok" ELSE "failed")
      BY <1>1 DEF NextRouter
    <2> QED BY <1>1, <2>1, ReturnMoves
  <1>2. CASE rest # {}
    <2>1. PICK o \in rest : Enter(c, o, by[o], rest \ {o})
      BY <1>2 DEF NextRouter
    <2>2. by[o] \in SUBSET Targets /\ o \in Objects
          /\ rest \ {o} \in SUBSET (Objects \cup Entities)
      OBVIOUS
    <2>3. /\ Moved(c) /\ pc'[c] = "queued" /\ result'[c] = result[c] /\ at'[c] = o
          /\ target'[c] = by[o] /\ todo'[c] = rest \ {o}
          /\ named'[c] = [named[c] EXCEPT ![o] = RouterName(o)]
      BY <2>1, <2>2, EnterMoves
    <2> QED BY <2>3
  <1> QED BY <1>1, <1>2

\* The loop over targets: it ends, or goes on with one of the rest.
LEMMA TargetMoves ==
  ASSUME TypeOK, NEW c \in Calls, NEW rest \in SUBSET Entities, NextTarget(c, rest)
  PROVE  /\ Moved(c)
         /\ \/ /\ pc'[c] = "returned" /\ result'[c] \in {"ok", "invalid"}
               /\ result'[c] = "ok" => rest = {}
               /\ target'[c] = {} /\ todo'[c] = {} /\ at'[c] = NoObject
            \/ /\ pc'[c] = "queued" /\ result'[c] = result[c]
               /\ \E x \in rest : /\ target'[c] = {x} /\ todo'[c] = rest \ {x}
                                  /\ at'[c] = loaded[Home[x]]
               /\ at'[c] \in Objects
  <1>1. CASE rest = {}
    <2>1. Return(c, "ok")
      BY <1>1 DEF NextTarget
    <2> QED BY <1>1, <2>1, ReturnMoves
  <1>2. CASE rest # {}
    <2>1. PICK x \in rest : IF HasAddress(x)
                            THEN Enter(c, loaded[Home[x]], {x}, rest \ {x})
                            ELSE Return(c, "invalid")
      BY <1>2 DEF NextTarget
    <2>2. CASE HasAddress(x)
      <3>1. loaded[Home[x]] \in Objects
        BY <2>2, AddressObject DEF HasAddress
      <3>2. {x} \in SUBSET Targets /\ rest \ {x} \in SUBSET (Objects \cup Entities)
        BY DEF Targets
      <3>3. Enter(c, loaded[Home[x]], {x}, rest \ {x})
        BY <2>1, <2>2
      <3>4. /\ Moved(c) /\ pc'[c] = "queued" /\ result'[c] = result[c]
            /\ at'[c] = loaded[Home[x]] /\ target'[c] = {x} /\ todo'[c] = rest \ {x}
        BY <3>1, <3>2, <3>3, EnterMoves
      <3> QED BY <3>1, <3>4
    <2>3. CASE ~HasAddress(x)
      <3>1. Return(c, "invalid")
        BY <2>1, <2>3
      <3> QED BY <3>1, ReturnMoves
    <2> QED BY <2>2, <2>3
  <1> QED BY <1>1, <1>2

-----------------------------------------------------------------------------
(* Type correctness *)

\* Only call c changes, and no entry and no entity does.
Alone(c) ==
  /\ UNCHANGED entryVars
  /\ \A d \in Calls \ {c} :
       /\ pc'[d] = pc[d] /\ req'[d] = req[d] /\ group'[d] = group[d]
       /\ todo'[d] = todo[d] /\ at'[d] = at[d] /\ target'[d] = target[d]
       /\ good'[d] = good[d] /\ bad'[d] = bad[d] /\ named'[d] = named[d]
       /\ result'[d] = result[d] /\ written'[d] = written[d] /\ done'[d] = done[d]

\* What a step of a call has to do with the rest of the variables.
LEMMA CallTypes ==
  ASSUME TypeInv, NEW c \in Calls, Moved(c), UNCHANGED entryVars,
         holder' \in [Locks -> Calls \cup {NoCall}],
         req' \in [Calls -> Requests \cup {NoRequest}],
         group' \in [Calls -> [Objects -> SUBSET Targets]],
         written' \in [Calls -> SUBSET Targets], done' \in [Calls -> SUBSET Targets],
         good' \in [Calls -> SUBSET Objects], bad' \in [Calls -> SUBSET Objects],
         \A d \in Calls \ {c} :
           /\ req'[d] = req[d] /\ group'[d] = group[d] /\ written'[d] = written[d]
           /\ done'[d] = done[d] /\ good'[d] = good[d] /\ bad'[d] = bad[d],
         pc'[c] # "new", req'[c] \in Requests,
         Active(c)' => /\ at'[c] \in Objects
                       /\ req'[c].action = "access" => todo'[c] \subseteq Objects
                       /\ req'[c].action = "reserve" => todo'[c] \subseteq Entities
  PROVE  TypeInv' /\ Alone(c)
  <1>1. Alone(c)
    BY DEF Alone, Moved
  <1>2. UNCHANGED <<loaded, setups, data>>
    BY DEF entryVars
  <1>3. \A d \in Calls : pc'[d] # "new" => req'[d] \in Requests
    BY DEF TypeInv, TypeOK, Moved
  <1>4. \A d \in Calls : Kinds(d)'
    BY DEF TypeInv, Kinds, Active, Moved
  <1>5. \A d \in Calls : pc'[d] \in {"queued", "working"} => at'[d] # NoObject
    BY <1>4, ServiceAssumption DEF Kinds, Active
  <1>6. TypeOK'
    BY <1>2, <1>3, <1>5 DEF TypeInv, TypeOK, Moved
  <1> QED BY <1>1, <1>4, <1>6 DEF TypeInv

LEMMA MadeTypes ==
  ASSUME TypeInv, NEW c \in Calls, NEW r \in Requests, Made(c, r)
  PROVE  /\ pc[c] = "new" /\ UNCHANGED <<entryVars, holder, written, done, good, bad>>
         /\ req' \in [Calls -> Requests \cup {NoRequest}] /\ req'[c] = r
         /\ \A d \in Calls \ {c} : req'[d] = req[d]
  BY DEF TypeInv, TypeOK, Made

LEMMA AccessTypes ==
  ASSUME TypeInv, NEW c \in Calls, NEW r \in Requests, Access(c, r)
  PROVE  TypeInv' /\ Alone(c)
  <1> DEFINE by == Grouped(r)
             routers == {o \in Objects : by[o] # {}}
  <1>1. by \in [Objects -> SUBSET Targets] /\ routers \in SUBSET Objects
    BY GroupedType
  <1>2. /\ r.action = "access" /\ Made(c, r)
        /\ IF Resolves(r)
           THEN group' = [group EXCEPT ![c] = by] /\ NextRouter(c, by, routers, {})
           ELSE Return(c, "invalid") /\ UNCHANGED group
    BY DEF Access
  <1>3. /\ Moved(c) /\ pc'[c] # "new"
        /\ Active(c)' => at'[c] \in Objects /\ todo'[c] \subseteq Objects
        /\ group' \in [Calls -> [Objects -> SUBSET Targets]]
        /\ \A d \in Calls \ {c} : group'[d] = group[d]
    <2>1. TypeOK
      BY DEF TypeInv
    <2>2. CASE Resolves(r)
      <3>1. group' = [group EXCEPT ![c] = by] /\ NextRouter(c, by, routers, {})
        BY <1>2, <2>2
      <3> HIDE DEF by, routers
      <3>2. /\ Moved(c) /\ pc'[c] # "new"
            /\ Active(c)' => at'[c] \in routers /\ todo'[c] \subseteq routers
        <4>1. /\ Moved(c)
              /\ \/ pc'[c] = "returned"
                 \/ /\ pc'[c] = "queued" /\ at'[c] \in routers
                    /\ todo'[c] = routers \ {at'[c]}
          BY <1>1, <2>1, <3>1, RouterMoves
        <4> QED BY <4>1 DEF Active
      <3>3. /\ group' \in [Calls -> [Objects -> SUBSET Targets]]
            /\ \A d \in Calls \ {c} : group'[d] = group[d]
        BY <1>1, <2>1, <3>1 DEF TypeOK
      <3>4. Active(c)' => at'[c] \in Objects /\ todo'[c] \subseteq Objects
        BY <1>1, <3>2
      <3> QED BY <3>2, <3>3, <3>4
    <2>3. CASE ~Resolves(r)
      <3>1. Return(c, "invalid") /\ UNCHANGED group
        BY <1>2, <2>3
      <3>2. Moved(c) /\ pc'[c] = "returned"
        BY <2>1, <3>1, ReturnMoves
      <3> QED BY <2>1, <3>1, <3>2 DEF TypeOK, Active
    <2> QED BY <2>2, <2>3
  <1> HIDE DEF by, routers
  <1> QED BY <1>2, <1>3, MadeTypes, CallTypes, CallVars

LEMMA ReserveTypes ==
  ASSUME TypeInv, NEW c \in Calls, NEW r \in Requests, Reserve(c, r)
  PROVE  TypeInv' /\ Alone(c)
  <1>1. r.action = "reserve" /\ Made(c, r) /\ NextTarget(c, EntityIds(r)) /\ UNCHANGED group
    BY DEF Reserve
  <1>2. EntityIds(r) \in SUBSET Entities
    BY EntityIdsType
  <1>3. /\ Moved(c) /\ pc'[c] # "new"
        /\ Active(c)' => at'[c] \in Objects /\ todo'[c] \subseteq Entities
    BY <1>1, <1>2, TargetMoves DEF TypeInv, Active
  <1> QED BY <1>1, <1>3, MadeTypes, CallTypes, CallVars

LEMMA LeaseTypes ==
  ASSUME TypeInv, NEW c \in Calls, NEW r \in Requests, Lease(c, r)
  PROVE  TypeInv' /\ Alone(c)
  <1>1. /\ r.action = "lease" /\ Made(c, r) /\ UNCHANGED group
        /\ IF Serves(r.entry) THEN Enter(c, loaded[r.entry], Devices, {})
           ELSE Return(c, "invalid")
    BY DEF Lease
  <1>2. /\ Moved(c) /\ pc'[c] # "new"
        /\ Active(c)' => at'[c] \in Objects /\ todo'[c] = {}
    <2>1. TypeOK
      BY DEF TypeInv
    <2>2. CASE Serves(r.entry)
      <3>1. loaded[r.entry] \in Objects
        BY <2>1, <2>2, ServingObject
      <3>2. Devices \in SUBSET Targets /\ {} \in SUBSET (Objects \cup Entities)
        BY DEF Targets
      <3>3. Enter(c, loaded[r.entry], Devices, {})
        BY <1>1, <2>2
      <3>4. Moved(c) /\ pc'[c] = "queued" /\ at'[c] = loaded[r.entry] /\ todo'[c] = {}
        BY <2>1, <3>1, <3>2, <3>3, EnterMoves
      <3> QED BY <3>1, <3>4
    <2>3. CASE ~Serves(r.entry)
      <3>1. Moved(c) /\ pc'[c] = "returned"
        BY <1>1, <2>1, <2>3, ReturnMoves
      <3> QED BY <3>1 DEF Active
    <2> QED BY <2>2, <2>3
  <1> QED BY <1>1, <1>2, MadeTypes, CallTypes, CallVars

LEMMA AcquireTypes ==
  ASSUME TypeInv, NEW c \in Calls, Acquire(c)
  PROVE  TypeInv' /\ Alone(c)
  <1>1. /\ pc[c] = "queued" /\ pc' = [pc EXCEPT ![c] = "working"]
        /\ holder' = [holder EXCEPT ![Lock(c)] = c]
        /\ UNCHANGED <<entryVars, req, group, todo, at, target, good, bad, named,
                       result, written, done>>
    BY DEF Acquire
  <1>2. /\ Moved(c) /\ pc'[c] = "working"
        /\ holder' \in [Locks -> Calls \cup {NoCall}]
    BY <1>1 DEF TypeInv, TypeOK, Moved
  <1>3. /\ at[c] \in Objects /\ req[c] \in Requests
        /\ req[c].action = "access" => todo[c] \subseteq Objects
        /\ req[c].action = "reserve" => todo[c] \subseteq Entities
    BY <1>1, RequestType DEF TypeInv, Kinds, Active
  <1>4. /\ at'[c] \in Objects
        /\ req'[c].action = "access" => todo'[c] \subseteq Objects
        /\ req'[c].action = "reserve" => todo'[c] \subseteq Entities
    BY <1>1, <1>3
  <1> QED BY <1>1, <1>2, <1>3, <1>4, CallTypes, CallVars

LEMMA ReleaseType ==
  ASSUME TypeOK, NEW c \in Calls, Release(c)
  PROVE  holder' \in [Locks -> Calls \cup {NoCall}]
  BY DEF TypeOK, Release

\* What a router took or confirmed for a call.
LEMMA TakenTypes ==
  ASSUME TypeInv, NEW c \in Calls, Taken(c) \/ UNCHANGED written
  PROVE  /\ written' \in [Calls -> SUBSET Targets]
         /\ \A d \in Calls \ {c} : written'[d] = written[d]
  BY CallVars DEF Taken

\* A router's failure, and the rest of the loop.
LEMMA FailureTypes ==
  ASSUME TypeInv, NEW c \in Calls, Active(c), req[c].action = "access", RouterFailed(c)
  PROVE  /\ Moved(c) /\ pc'[c] # "new"
         /\ Active(c)' => at'[c] \in Objects /\ todo'[c] \subseteq Objects
         /\ bad' = [bad EXCEPT ![c] = bad[c] \cup {at[c]}]
         /\ bad' \in [Calls -> SUBSET Objects]
         /\ \A d \in Calls \ {c} : bad'[d] = bad[d]
  <1>1. /\ bad' = [bad EXCEPT ![c] = bad[c] \cup {at[c]}]
        /\ NextRouter(c, group[c], todo[c], bad[c] \cup {at[c]})
    BY DEF RouterFailed
  <1>2. /\ TypeOK /\ at[c] \in Objects /\ todo[c] \in SUBSET Objects
        /\ group[c] \in [Objects -> SUBSET Targets]
    BY DEF TypeInv, TypeOK, Kinds, Active
  <1>3. /\ Moved(c)
        /\ \/ pc'[c] = "returned"
           \/ /\ pc'[c] = "queued" /\ at'[c] \in todo[c]
              /\ todo'[c] = todo[c] \ {at'[c]}
    <2> DEFINE fail == bad[c] \cup {at[c]}
    <2>1. NextRouter(c, group[c], todo[c], fail)
      BY <1>1
    <2> HIDE DEF fail
    <2> QED BY <1>2, <2>1, RouterMoves
  <1>4. /\ bad' \in [Calls -> SUBSET Objects]
        /\ \A d \in Calls \ {c} : bad'[d] = bad[d]
    BY <1>1, <1>2 DEF TypeOK
  <1>5. Active(c)' => at'[c] \in todo[c] /\ todo'[c] \subseteq todo[c]
    BY <1>3 DEF Active
  <1>6. pc'[c] # "new"
    BY <1>3
  <1> QED BY <1>1, <1>2, <1>3, <1>4, <1>5, <1>6

LEMMA ConfirmedTypes ==
  ASSUME TypeInv, NEW c \in Calls, Confirmed(c)
  PROVE  TypeInv' /\ Alone(c)
  <1>1. /\ pc[c] = "working" /\ Taken(c) /\ Release(c)
        /\ done' = [done EXCEPT ![c] = @ \cup target[c]]
        /\ \/ /\ req[c].action = "access"
              /\ good' = [good EXCEPT ![c] = @ \cup {at[c]}]
              /\ NextRouter(c, group[c], todo[c], bad[c])
           \/ req[c].action = "reserve" /\ NextTarget(c, todo[c]) /\ UNCHANGED good
           \/ req[c].action = "lease" /\ Return(c, "ok") /\ UNCHANGED good
        /\ UNCHANGED <<entryVars, req, group, bad>>
    BY DEF Confirmed
  <1>2. /\ TypeOK /\ at[c] \in Objects /\ req[c] \in Requests
        /\ group[c] \in [Objects -> SUBSET Targets]
        /\ req[c].action = "access" => todo[c] \in SUBSET Objects
        /\ req[c].action = "reserve" => todo[c] \in SUBSET Entities
    BY <1>1, RequestType DEF TypeInv, TypeOK, Kinds, Active
  <1>3. /\ done' \in [Calls -> SUBSET Targets]
        /\ \A d \in Calls \ {c} : done'[d] = done[d]
        /\ good' \in [Calls -> SUBSET Objects]
        /\ \A d \in Calls \ {c} : good'[d] = good[d]
    <2>1. done' \in [Calls -> SUBSET Targets]
          /\ \A d \in Calls \ {c} : done'[d] = done[d]
      BY <1>1, CallVars
    <2>2. good' = good \/ good' = [good EXCEPT ![c] = @ \cup {at[c]}]
      BY <1>1
    <2> QED BY <1>2, <2>1, <2>2, CallVars
  <1>4. /\ Moved(c) /\ pc'[c] # "new"
        /\ Active(c)' => /\ at'[c] \in Objects
                         /\ req[c].action = "access" => todo'[c] \subseteq Objects
                         /\ req[c].action = "reserve" => todo'[c] \subseteq Entities
    <2>1. CASE req[c].action = "access"
      <3>1. NextRouter(c, group[c], todo[c], bad[c])
        BY <1>1, <2>1
      <3>2. /\ Moved(c)
            /\ \/ pc'[c] = "returned"
               \/ /\ pc'[c] = "queued" /\ at'[c] \in todo[c]
                  /\ todo'[c] = todo[c] \ {at'[c]}
        BY <1>2, <2>1, <3>1, RouterMoves
      <3> QED BY <1>2, <2>1, <3>2 DEF Active
    <2>2. CASE req[c].action = "reserve"
      <3>1. NextTarget(c, todo[c])
        BY <1>1, <2>2
      <3>2. /\ Moved(c)
            /\ \/ pc'[c] = "returned"
               \/ /\ pc'[c] = "queued" /\ at'[c] \in Objects
                  /\ todo'[c] \subseteq todo[c]
        BY <1>2, <2>2, <3>1, TargetMoves
      <3> QED BY <1>2, <2>2, <3>2 DEF Active
    <2>3. CASE req[c].action = "lease"
      <3>1. Moved(c) /\ pc'[c] = "returned"
        BY <1>1, <1>2, <2>3, ReturnMoves
      <3> QED BY <3>1 DEF Active
    <2> QED BY <1>1, <2>1, <2>2, <2>3
  <1> QED BY <1>1, <1>2, <1>3, <1>4, TakenTypes, ReleaseType, CallTypes, CallVars

\* A step that ends a call, or one router of a call on device access, without a
\* confirmed change.
LEMMA UnconfirmedTypes ==
  ASSUME TypeInv, NEW c \in Calls, Active(c), Release(c),
         Taken(c) \/ UNCHANGED written,
         UNCHANGED <<entryVars, req, group, good, done>>,
         \/ req[c].action = "access" /\ RouterFailed(c)
         \/ /\ \E how \in {"ok", "invalid", "failed", "aborted"} : Return(c, how)
            /\ UNCHANGED bad
  PROVE  TypeInv' /\ Alone(c)
  <1>1. TypeOK /\ req[c] \in Requests
    BY RequestType DEF TypeInv, Active
  <1>2. /\ Moved(c) /\ pc'[c] # "new"
        /\ Active(c)' => at'[c] \in Objects
        /\ Active(c)' => req[c].action = "access" /\ todo'[c] \subseteq Objects
        /\ bad' \in [Calls -> SUBSET Objects]
        /\ \A d \in Calls \ {c} : bad'[d] = bad[d]
    <2>1. CASE req[c].action = "access" /\ RouterFailed(c)
      BY <2>1, FailureTypes
    <2>2. CASE /\ \E how \in {"ok", "invalid", "failed", "aborted"} : Return(c, how)
               /\ UNCHANGED bad
      <3>1. Moved(c) /\ pc'[c] = "returned"
        BY <1>1, <2>2, ReturnMoves
      <3> QED BY <1>1, <2>2, <3>1 DEF Active, TypeOK
    <2> QED BY <2>1, <2>2
  <1> QED BY <1>1, <1>2, TakenTypes, ReleaseType, CallTypes, CallVars

\* The steps that do not confirm are of that form.
Unconfirmed(c) ==
  /\ Active(c) /\ Release(c)
  /\ Taken(c) \/ UNCHANGED written
  /\ UNCHANGED <<entryVars, req, group, good, done>>
  /\ \/ req[c].action = "access" /\ RouterFailed(c)
     \/ /\ \E how \in {"ok", "invalid", "failed", "aborted"} : Return(c, how)
        /\ UNCHANGED bad

LEMMA WorkTypes ==
  ASSUME TypeInv, NEW c \in Calls, Refused(c) \/ Failed(c) \/ Aborted(c)
  PROVE  TypeInv' /\ Alone(c)
  <1>1. CASE Refused(c)
    <2>1. Unconfirmed(c)
      BY <1>1 DEF Refused, Unconfirmed, Active
    <2> QED BY <2>1, UnconfirmedTypes DEF Unconfirmed
  <1>2. CASE Failed(c)
    <2>1. Unconfirmed(c)
      BY <1>2 DEF Failed, Unconfirmed, Active
    <2> QED BY <2>1, UnconfirmedTypes DEF Unconfirmed
  <1>3. CASE Aborted(c)
    <2>1. Unconfirmed(c)
      BY <1>3 DEF Aborted, Unconfirmed, Active
    <2> QED BY <2>1, UnconfirmedTypes DEF Unconfirmed
  <1> QED BY <1>1, <1>2, <1>3

\* A step of call c.
CallStep(c) ==
  \/ \E r \in Requests : Access(c, r) \/ Reserve(c, r) \/ Lease(c, r)
  \/ Acquire(c) \/ Refused(c) \/ Ends(c) \/ Aborted(c)

LEMMA CallStepTypes ==
  ASSUME TypeInv, NEW c \in Calls, CallStep(c)
  PROVE  TypeInv' /\ Alone(c)
  BY AccessTypes, ReserveTypes, LeaseTypes, AcquireTypes, ConfirmedTypes, WorkTypes
     DEF CallStep, Ends

\* Entries and entities change by themselves.
EntryStep ==
  \/ \E e \in Entries : SetUp(e) \/ Unload(e)
  \/ \E x \in Entities : EntityChanges(x)

EntriesOK ==
  /\ loaded \in [Entries -> Objects \cup {NoObject}]
  /\ \A e \in Entries : loaded[e] # NoObject => loaded[e] = <<e, setups[e]>>
  /\ setups \in [Entries -> Nat]
  /\ \A e \in Entries : setups[e] \in 1 .. MaxSetups[e]
  /\ data \in [Entities -> Known]

LEMMA EntryTypes ==
  ASSUME TypeInv, EntryStep
  PROVE  TypeInv' /\ UNCHANGED <<holder, callVars, written, done>>
  <1>1. UNCHANGED <<holder, callVars, written, done>>
    BY DEF EntryStep, SetUp, Unload, EntityChanges
  <1>2. UNCHANGED <<pc, req, group, todo, at, target, good, bad, named, result>>
    BY <1>1 DEF callVars
  <1>3. EntriesOK
    BY DEF TypeInv, TypeOK, EntriesOK
  <1>4. EntriesOK'
    <2>1. ASSUME NEW e \in Entries, SetUp(e) PROVE EntriesOK'
      <3>1. /\ setups[e] < MaxSetups[e] /\ setups' = [setups EXCEPT ![e] = @ + 1]
            /\ loaded' = [loaded EXCEPT ![e] = <<e, setups[e] + 1>>]
            /\ UNCHANGED data
        BY <2>1 DEF SetUp
      <3>2. setups[e] \in Nat /\ MaxSetups[e] \in Nat
        BY <1>3, ServiceAssumption DEF EntriesOK
      <3>3. setups[e] + 1 \in 1 .. MaxSetups[e]
        BY <3>1, <3>2
      <3>4. <<e, setups[e] + 1>> \in Objects
        BY <3>3, ObjectParts
      <3>5. /\ setups' \in [Entries -> Nat]
            /\ \A f \in Entries : setups'[f] \in 1 .. MaxSetups[f]
        BY <1>3, <3>1, <3>2, <3>3 DEF EntriesOK
      <3>6. /\ loaded' \in [Entries -> Objects \cup {NoObject}]
            /\ \A f \in Entries : loaded'[f] # NoObject => loaded'[f] = <<f, setups'[f]>>
        BY <1>3, <3>1, <3>2, <3>4 DEF EntriesOK
      <3> QED BY <1>3, <3>1, <3>5, <3>6 DEF EntriesOK
    <2>2. ASSUME NEW e \in Entries, Unload(e) PROVE EntriesOK'
      BY <1>3, <2>2 DEF Unload, EntriesOK
    <2>3. ASSUME NEW e \in Entities, EntityChanges(e) PROVE EntriesOK'
      BY <1>3, <2>3, ServiceAssumption DEF EntityChanges, EntriesOK
    <2> QED BY <2>1, <2>2, <2>3 DEF EntryStep
  <1>5. TypeOK'
    BY <1>1, <1>2, <1>4 DEF TypeInv, TypeOK, EntriesOK
  <1> QED BY <1>1, <1>2, <1>5 DEF TypeInv, Kinds, Active

LEMMA InitTypes == Init => TypeInv
  BY ObjectParts, ServiceAssumption DEF Init, TypeInv, TypeOK, Kinds, Active, Names

LEMMA TypeStep == TypeInv /\ [Next]_vars => TypeInv'
  <1>1. ASSUME TypeInv, UNCHANGED vars PROVE TypeInv'
    BY <1>1 DEF TypeInv, TypeOK, Kinds, Active, vars, entryVars, callVars
  <1>2. Next <=> EntryStep \/ \E c \in Calls : CallStep(c)
    BY DEF Next, EntryStep, CallStep
  <1> QED BY <1>1, <1>2, CallStepTypes, EntryTypes

\* The variables of ServiceCalls keep their types: a loaded entry has the router
\* object of its last set-up, and a call under way is at some router object.
THEOREM TypeCorrect == Spec => []TypeOK
<1>1. TypeInv => TypeOK
  BY DEF TypeInv
<1> QED BY InitTypes, TypeStep, <1>1, PTL DEF Spec

-----------------------------------------------------------------------------
(* What the loops keep *)

\* The routers that call c has grouped its targets by.
Routers(c) == {o \in Objects : group[c][o] # {}}

\* A call that has not been made has done nothing.
Fresh(c) ==
  pc[c] = "new" =>
    /\ good[c] = {} /\ bad[c] = {} /\ written[c] = {} /\ done[c] = {}
    /\ Routers(c) = {}

\* Each router of a call on device access is behind it, on one side of the
\* report, or the one that it is at, or still to come.
Loop(c) ==
  Is(c, "access") /\ Active(c) =>
    /\ Routers(c) = good[c] \cup bad[c] \cup todo[c] \cup {at[c]}
    /\ at[c] \notin good[c] \cup bad[c] \cup todo[c]
    /\ todo[c] \cap (good[c] \cup bad[c]) = {}
    /\ target[c] = group[c][at[c]]

\* The sides of the report are disjoint, and true of the targets.
Outcome(c) ==
  /\ good[c] \cap bad[c] = {}
  /\ good[c] \cup bad[c] \subseteq Routers(c)
  /\ \A o \in good[c] : group[c][o] \subseteq done[c]
  /\ Is(c, "access") /\ result[c] = "ok" => bad[c] = {}
  /\ Is(c, "access") /\ result[c] \in {"ok", "failed"} =>
       Routers(c) = good[c] \cup bad[c]

\* Before the first router is through, nothing has been confirmed.  A call on one router
\* is rejected then, even if it has written; one on several only at its start.
Honest(c) ==
  Is(c, "access") =>
    /\ Active(c) /\ good[c] \cup bad[c] = {} => done[c] = {}
    /\ result[c] = "invalid" => done[c] = {} /\ (written[c] # {} => OneRouter(c))

\* A router object is of a set-up that has taken place, so that no later set-up
\* makes it the loaded one again; it was named while it was loaded.
NamedRight(c) ==
  \A o \in Objects :
    /\ group[c][o] # {} => o[2] <= setups[o[1]]
    /\ /\ Is(c, "access") /\ loaded[o[1]] = o
       /\ o \in good[c] \cup bad[c] \/ (Active(c) /\ o = at[c])
       => named[c][o] = o[1]

\* Every target is with some router.
AllGrouped(c) ==
  /\ \A t \in req[c].named : \E o \in Objects : t \in group[c][o]
  /\ req[c].devices => \E o \in Objects : Devices \subseteq group[c][o]

\* No target is lost on the way.
Covered(c) ==
  /\ Is(c, "access") /\ (Active(c) \/ result[c] \in {"ok", "failed"}) => AllGrouped(c)
  /\ Is(c, "reserve") /\ Active(c) =>
       req[c].named \subseteq done[c] \cup target[c] \cup todo[c]
  /\ Is(c, "reserve") /\ result[c] = "ok" => req[c].named \subseteq done[c]

Ended(c) == result[c] # "none" <=> pc[c] = "returned"

CallInv(c) ==
  /\ Fresh(c) /\ Loop(c) /\ Outcome(c) /\ Honest(c)
  /\ NamedRight(c) /\ Covered(c) /\ Ended(c)

SafeInv == TypeInv /\ \A c \in Calls : CallInv(c)

LEMMA OtherCalls ==
  ASSUME NEW c \in Calls, Alone(c), NEW d \in Calls \ {c}, CallInv(d)
  PROVE  CallInv(d)'
  <1>1. /\ pc'[d] = pc[d] /\ req'[d] = req[d] /\ group'[d] = group[d]
        /\ todo'[d] = todo[d] /\ at'[d] = at[d] /\ target'[d] = target[d]
        /\ good'[d] = good[d] /\ bad'[d] = bad[d] /\ named'[d] = named[d]
        /\ result'[d] = result[d] /\ written'[d] = written[d] /\ done'[d] = done[d]
        /\ loaded' = loaded /\ setups' = setups
    BY DEF Alone, entryVars
  <1>2. Fresh(d)' /\ Loop(d)'
    BY <1>1 DEF CallInv, Fresh, Loop, Routers, Is, Active
  <1>3. Outcome(d)' /\ Honest(d)'
    BY <1>1 DEF CallInv, Outcome, Honest, OneRouter, Routers, Is, Active
  <1>4. NamedRight(d)' /\ Covered(d)' /\ Ended(d)'
    BY <1>1 DEF CallInv, NamedRight, Covered, AllGrouped, Ended, Is, Active
  <1> QED BY <1>2, <1>3, <1>4 DEF CallInv

\* The loop over routers goes on, with `rest` still to come.
LEMMA LoopGoesOn ==
  ASSUME TypeInv, NEW c \in Calls, NEW rest \in SUBSET Objects,
         UNCHANGED entryVars, result[c] = "none", req'[c].action = "access",
         group'[c] \in [Objects -> SUBSET Targets],
         NextRouter(c, group'[c], rest, bad'[c]),
         Routers(c)' = good'[c] \cup bad'[c] \cup rest,
         rest \cap (good'[c] \cup bad'[c]) = {}, good'[c] \cap bad'[c] = {},
         \A o \in good'[c] : group'[c][o] \subseteq done'[c],
         good'[c] \cup bad'[c] = {} => done'[c] = {},
         \A o \in Objects :
           /\ group'[c][o] # {} => o[2] <= setups[o[1]]
           /\ o \in good'[c] \cup bad'[c] /\ loaded[o[1]] = o => named[c][o] = o[1],
         AllGrouped(c)'
  PROVE  CallInv(c)'
  <1>1. /\ Moved(c)
        /\ \/ /\ rest = {} /\ pc'[c] = "returned" /\ at'[c] = NoObject
              /\ result'[c] = IF bad'[c] = {} THEN "ok" ELSE "failed"
              /\ target'[c] = {} /\ todo'[c] = {} /\ named'[c] = named[c]
           \/ /\ pc'[c] = "queued" /\ result'[c] = result[c]
              /\ at'[c] \in rest /\ target'[c] = group'[c][at'[c]]
              /\ todo'[c] = rest \ {at'[c]}
              /\ named'[c] = [named[c] EXCEPT ![at'[c]] = RouterName(at'[c])]
    BY RouterMoves DEF TypeInv
  <1>2. loaded' = loaded /\ setups' = setups
    BY DEF entryVars
  <1>3. Fresh(c)' /\ Ended(c)'
    BY <1>1 DEF Fresh, Ended
  <1>4. Loop(c)'
    BY <1>1 DEF Loop, Active
  <1>5. Outcome(c)'
    BY <1>1 DEF Outcome
  <1>6. Honest(c)'
    BY <1>1 DEF Honest
  <1>7. NamedRight(c)'
    <2>1. ASSUME NEW o \in Objects, loaded[o[1]] = o,
                 o \in good'[c] \cup bad'[c] \/ (Active(c)' /\ o = at'[c])
          PROVE  named'[c][o] = o[1]
      <3>1. CASE o \in good'[c] \cup bad'[c]
        <4>1. named[c][o] = o[1] /\ o \notin rest
          BY <2>1, <3>1
        <4>2. named[c] \in [Objects -> Names]
          BY DEF TypeInv, TypeOK
        <4>3. named'[c][o] = named[c][o]
          BY <1>1, <4>1, <4>2
        <4> QED BY <4>1, <4>3
      <3>2. CASE Active(c)' /\ o = at'[c]
        <4>1. /\ named'[c] = [named[c] EXCEPT ![o] = RouterName(o)]
          BY <1>1, <3>2 DEF Active
        <4>2. named[c] \in [Objects -> Names]
          BY DEF TypeInv, TypeOK
        <4> QED BY <2>1, <4>1, <4>2 DEF RouterName
      <3> QED BY <2>1, <3>1, <3>2
    <2> QED BY <1>2, <2>1 DEF NamedRight
  <1>8. Covered(c)'
    BY <1>1 DEF Covered, Is
  <1> QED BY <1>3, <1>4, <1>5, <1>6, <1>7, <1>8 DEF CallInv

\* A call ends at once, whatever is still to come.
LEMMA EndsAtOnce ==
  ASSUME TypeInv, NEW c \in Calls, CallInv(c), UNCHANGED entryVars,
         NEW how \in {"ok", "invalid", "failed", "aborted"}, Return(c, how),
         req'[c] = req[c] \/ pc[c] = "new",
         group'[c] = group[c], good'[c] = good[c], bad'[c] = bad[c],
         done[c] \subseteq done'[c],
         how \in {"ok", "failed"} => req'[c].action # "access",
         how = "ok" => req'[c].action # "reserve",
         how = "invalid" /\ req'[c].action = "access" =>
           done'[c] = {} /\ (written'[c] # {} => OneRouter(c)')
  PROVE  CallInv(c)'
  <1>1. pc'[c] = "returned" /\ result'[c] = how /\ named'[c] = named[c]
    BY ReturnMoves DEF TypeInv
  <1>2. loaded' = loaded /\ setups' = setups
    BY DEF entryVars
  <1>3. Fresh(c)' /\ Loop(c)' /\ Ended(c)'
    BY <1>1 DEF Fresh, Loop, Active, Ended
  <1>4. Outcome(c)'
    BY <1>1 DEF CallInv, Outcome, Routers, Is
  <1>5. Honest(c)'
    BY <1>1 DEF Honest, Active, Is
  <1>6. NamedRight(c)'
    <2>1. /\ \A o \in Objects : group[c][o] # {} => o[2] <= setups[o[1]]
          /\ \A o \in Objects :
               Is(c, "access") /\ loaded[o[1]] = o /\ o \in good[c] \cup bad[c]
               => named[c][o] = o[1]
      BY DEF CallInv, NamedRight
    <2>2. pc[c] = "new" => good[c] \cup bad[c] = {}
      BY DEF CallInv, Fresh
    <2>3. ~Active(c)'
      BY <1>1 DEF Active
    <2> QED BY <1>1, <1>2, <2>1, <2>2, <2>3 DEF NamedRight, Is
  <1>7. Covered(c)'
    BY <1>1 DEF Covered, Active, Is
  <1> QED BY <1>3, <1>4, <1>5, <1>6, <1>7 DEF CallInv

\* The loop over targets goes on, with `rest` still to come.
LEMMA TargetsGoOn ==
  ASSUME TypeInv, NEW c \in Calls, CallInv(c), UNCHANGED entryVars,
         NEW rest \in SUBSET Entities, NextTarget(c, rest),
         result[c] = "none", req'[c].action = "reserve",
         group'[c] = group[c], good'[c] = good[c], bad'[c] = bad[c],
         done[c] \subseteq done'[c], req'[c].named \subseteq done'[c] \cup rest
  PROVE  CallInv(c)'
  <1>1. \/ /\ pc'[c] = "returned" /\ result'[c] \in {"ok", "invalid"}
           /\ result'[c] = "ok" => rest = {}
        \/ /\ pc'[c] = "queued" /\ result'[c] = "none"
           /\ \E t \in rest : target'[c] = {t} /\ todo'[c] = rest \ {t}
    BY TargetMoves DEF TypeInv
  <1>2. loaded' = loaded /\ setups' = setups
    BY DEF entryVars
  <1>3. ~Is(c, "access")'
    BY DEF Is
  <1>4. Fresh(c)' /\ Loop(c)' /\ Honest(c)' /\ Ended(c)'
    BY <1>1, <1>3 DEF Fresh, Loop, Honest, Ended
  <1>5. Outcome(c)'
    BY <1>3 DEF CallInv, Outcome, Routers
  <1>6. NamedRight(c)'
    BY <1>2, <1>3 DEF CallInv, NamedRight
  <1>7. Covered(c)'
    BY <1>1, <1>3 DEF Covered, Active, Is
  <1> QED BY <1>4, <1>5, <1>6, <1>7 DEF CallInv

-----------------------------------------------------------------------------
(* The steps of a call *)

\* Which router object serves which target.
LEMMA GroupedParts ==
  ASSUME TypeOK, NEW r \in Requests, Resolves(r)
  PROVE  /\ \A o \in Objects : Grouped(r)[o] # {} => o[2] <= setups[o[1]]
         /\ \A t \in r.named : \E o \in Objects : t \in Grouped(r)[o]
         /\ r.devices => \E o \in Objects : Devices \subseteq Grouped(r)[o]
  <1>1. ASSUME NEW o \in Objects, Grouped(r)[o] # {} PROVE o[2] <= setups[o[1]]
    <2>1. loaded[o[1]] = o /\ o[1] \in Entries
      BY <1>1, ObjectParts DEF Grouped
    <2>2. o = <<o[1], setups[o[1]]>> /\ setups[o[1]] \in Nat
      BY <2>1, ServiceAssumption DEF TypeOK
    <2> QED BY <2>2
  <1>2. ASSUME NEW t \in r.named PROVE \E o \in Objects : t \in Grouped(r)[o]
    <2>1. t \in EntityIds(r) /\ t \in Entities
      BY EntityIdsType
    <2>2. IsTracker(t)
      BY <2>1 DEF Resolves
    <2>3. Serves(Home[t])
      BY <2>2 DEF IsTracker
    <2>4. /\ loaded[Home[t]] \in Objects /\ loaded[Home[t]][1] = Home[t]
          /\ loaded[loaded[Home[t]][1]] = loaded[Home[t]]
      BY <2>3, ServingObject
    <2>5. t \in Grouped(r)[loaded[Home[t]]]
      BY <2>1, <2>4 DEF Grouped
    <2> QED BY <2>4, <2>5
  <1>3. ASSUME r.devices PROVE \E o \in Objects : Devices \subseteq Grouped(r)[o]
    <2>1. PICK e \in DirectEntries(r) : TRUE
      BY <1>3 DEF Resolves
    <2>2. Serves(e)
      BY <2>1 DEF DirectEntries
    <2>3. /\ loaded[e] \in Objects /\ loaded[e][1] = e
          /\ loaded[loaded[e][1]] = loaded[e]
      BY <2>2, ServingObject
    <2>4. Devices \subseteq Grouped(r)[loaded[e]]
      BY <1>3, <2>1, <2>3 DEF Grouped
    <2> QED BY <2>3, <2>4
  <1> QED BY <1>1, <1>2, <1>3

LEMMA AccessKeeps ==
  ASSUME TypeInv, NEW c \in Calls, CallInv(c), NEW r \in Requests, Access(c, r)
  PROVE  CallInv(c)'
  <1> DEFINE by == Grouped(r)
             routers == {o \in Objects : by[o] # {}}
  <1>1. by \in [Objects -> SUBSET Targets] /\ routers \in SUBSET Objects
    BY GroupedType
  <1>2. /\ r.action = "access" /\ Made(c, r)
        /\ IF Resolves(r)
           THEN group' = [group EXCEPT ![c] = by] /\ NextRouter(c, by, routers, {})
           ELSE Return(c, "invalid") /\ UNCHANGED group
    BY DEF Access
  <1>3. TypeOK /\ pc[c] = "new" /\ req'[c] = r /\ UNCHANGED entryVars
        /\ UNCHANGED <<written, done, good, bad>>
    BY <1>2, MadeTypes DEF TypeInv
  <1>4. /\ good[c] = {} /\ bad[c] = {} /\ written[c] = {} /\ done[c] = {}
        /\ result[c] = "none"
    BY <1>3 DEF CallInv, Fresh, Ended
  <1>5. CASE Resolves(r)
    <2>1. group' = [group EXCEPT ![c] = by] /\ NextRouter(c, by, routers, {})
      BY <1>2, <1>5
    <2>2. group'[c] = by
      BY <1>3, <2>1 DEF TypeOK
    <2>3. AllGrouped(c)'
      BY <1>3, <1>5, <2>2, GroupedParts DEF AllGrouped
    <2>4. \A o \in Objects : by[o] # {} => o[2] <= setups[o[1]]
      BY <1>3, <1>5, GroupedParts
    <2>5. Routers(c)' = routers
      BY <2>2 DEF Routers
    <2> HIDE DEF by, routers
    <2>6. NextRouter(c, group'[c], routers, bad'[c])
      BY <1>3, <1>4, <2>1, <2>2
    <2> QED BY <1>1, <1>2, <1>3, <1>4, <2>2, <2>3, <2>4, <2>5, <2>6, LoopGoesOn
  <1>6. CASE ~Resolves(r)
    <2>1. Return(c, "invalid") /\ UNCHANGED group
      BY <1>2, <1>6
    <2> HIDE DEF by, routers
    <2> QED BY <1>2, <1>3, <1>4, <2>1, EndsAtOnce
  <1> QED BY <1>5, <1>6

LEMMA ReserveKeeps ==
  ASSUME TypeInv, NEW c \in Calls, CallInv(c), NEW r \in Requests, Reserve(c, r)
  PROVE  CallInv(c)'
  <1>1. r.action = "reserve" /\ Made(c, r) /\ NextTarget(c, EntityIds(r)) /\ UNCHANGED group
    BY DEF Reserve
  <1>2. EntityIds(r) \in SUBSET Entities /\ r.named \subseteq EntityIds(r)
    BY EntityIdsType
  <1>3. /\ pc[c] = "new" /\ req'[c] = r
        /\ UNCHANGED entryVars /\ UNCHANGED <<done, good, bad>>
    BY <1>1, MadeTypes
  <1>4. result[c] = "none"
    BY <1>3 DEF CallInv, Ended, TypeInv, TypeOK
  <1> QED BY <1>1, <1>2, <1>3, <1>4, TargetsGoOn

LEMMA LeaseKeeps ==
  ASSUME TypeInv, NEW c \in Calls, CallInv(c), NEW r \in Requests, Lease(c, r)
  PROVE  CallInv(c)'
  <1>1. /\ r.action = "lease" /\ Made(c, r) /\ UNCHANGED group
        /\ IF Serves(r.entry) THEN Enter(c, loaded[r.entry], Devices, {})
           ELSE Return(c, "invalid")
    BY DEF Lease
  <1>2. /\ pc[c] = "new" /\ req'[c] = r
        /\ UNCHANGED entryVars /\ UNCHANGED <<written, done, good, bad>>
    BY <1>1, MadeTypes
  <1>3. result[c] = "none"
    BY <1>2 DEF CallInv, Ended, TypeInv, TypeOK
  <1>4. CASE ~Serves(r.entry)
    <2>1. Return(c, "invalid")
      BY <1>1, <1>4
    <2> QED BY <1>1, <1>2, <2>1, EndsAtOnce
  <1>5. CASE Serves(r.entry)
    <2>1. /\ loaded[r.entry] \in Objects
          /\ Devices \in SUBSET Targets /\ {} \in SUBSET (Objects \cup Entities)
      BY <1>5, ServingObject DEF TypeInv, Targets
    <2>2. pc'[c] = "queued" /\ result'[c] = "none"
      BY <1>1, <1>3, <1>5, <2>1, EnterMoves DEF TypeInv
    <2>3. req'[c].action = "lease"
      BY <1>1, <1>2
    <2>4. loaded' = loaded /\ setups' = setups
      BY <1>2 DEF entryVars
    <2>5. Fresh(c)' /\ Loop(c)' /\ Honest(c)' /\ Covered(c)' /\ Ended(c)'
      BY <2>2, <2>3 DEF Fresh, Loop, Honest, Covered, Ended, Is
    <2>6. Outcome(c)'
      BY <1>1, <1>2, <2>3 DEF CallInv, Outcome, Routers, Is
    <2>7. NamedRight(c)'
      BY <1>1, <2>3, <2>4 DEF CallInv, NamedRight, Is
    <2> QED BY <2>5, <2>6, <2>7 DEF CallInv
  <1> QED BY <1>4, <1>5

LEMMA AcquireKeeps ==
  ASSUME TypeInv, NEW c \in Calls, CallInv(c), Acquire(c)
  PROVE  CallInv(c)'
  <1>1. /\ pc[c] = "queued" /\ pc'[c] = "working"
        /\ UNCHANGED <<loaded, setups, req, group, todo, at, target, good, bad, named,
                       result, written, done>>
    BY DEF Acquire, entryVars, TypeInv, TypeOK
  <1>2. Fresh(c)' /\ Loop(c)' /\ Outcome(c)'
    BY <1>1 DEF CallInv, Fresh, Loop, Outcome, Routers, Is, Active
  <1>3. Honest(c)' /\ Ended(c)' /\ Covered(c)'
    BY <1>1 DEF CallInv, Honest, OneRouter, Ended, Covered, AllGrouped, Is, Active
  <1>4. NamedRight(c)'
    BY <1>1 DEF CallInv, NamedRight, Is, Active
  <1> QED BY <1>2, <1>3, <1>4 DEF CallInv

\* The router that a call on device access is at has taken the change, or failed.
LEMMA RouterThrough ==
  ASSUME TypeInv, NEW c \in Calls, CallInv(c), Active(c), req[c].action = "access",
         UNCHANGED entryVars, req'[c] = req[c], group'[c] = group[c],
         \/ /\ good'[c] = good[c] \cup {at[c]} /\ bad'[c] = bad[c]
            /\ done'[c] = done[c] \cup target[c]
         \/ /\ bad'[c] = bad[c] \cup {at[c]} /\ good'[c] = good[c]
            /\ done'[c] = done[c],
         NextRouter(c, group[c], todo[c], bad'[c])
  PROVE  CallInv(c)'
  <1>1. /\ at[c] \in Objects /\ todo[c] \in SUBSET Objects
        /\ group[c] \in [Objects -> SUBSET Targets]
    BY DEF TypeInv, TypeOK, Kinds
  <1>2. Is(c, "access") /\ result[c] = "none"
    BY DEF CallInv, Ended, Active, Is
  <1>3. /\ Routers(c) = good[c] \cup bad[c] \cup todo[c] \cup {at[c]}
        /\ at[c] \notin good[c] \cup bad[c] \cup todo[c]
        /\ todo[c] \cap (good[c] \cup bad[c]) = {}
        /\ target[c] = group[c][at[c]]
    BY <1>2 DEF CallInv, Loop
  <1>4. good[c] \cap bad[c] = {} /\ \A o \in good[c] : group[c][o] \subseteq done[c]
    BY DEF CallInv, Outcome
  <1>5. Routers(c)' = good'[c] \cup bad'[c] \cup todo[c]
    BY <1>3 DEF Routers
  <1>6. /\ todo[c] \cap (good'[c] \cup bad'[c]) = {} /\ good'[c] \cap bad'[c] = {}
        /\ good'[c] \cup bad'[c] # {}
    BY <1>3, <1>4
  <1>7. \A o \in good'[c] : group'[c][o] \subseteq done'[c]
    BY <1>3, <1>4
  <1>8. \A o \in Objects :
          /\ group'[c][o] # {} => o[2] <= setups[o[1]]
          /\ o \in good'[c] \cup bad'[c] /\ loaded[o[1]] = o => named[c][o] = o[1]
    BY <1>2 DEF CallInv, NamedRight
  <1>9. AllGrouped(c)'
    BY <1>2 DEF CallInv, Covered, AllGrouped
  <1>10. NextRouter(c, group'[c], todo[c], bad'[c])
    OBVIOUS
  <1> QED BY <1>1, <1>2, <1>5, <1>6, <1>7, <1>8, <1>9, <1>10, LoopGoesOn

LEMMA ConfirmedKeeps ==
  ASSUME TypeInv, NEW c \in Calls, CallInv(c), Confirmed(c)
  PROVE  CallInv(c)'
  <1>1. /\ pc[c] = "working" /\ done' = [done EXCEPT ![c] = @ \cup target[c]]
        /\ \/ /\ req[c].action = "access"
              /\ good' = [good EXCEPT ![c] = @ \cup {at[c]}]
              /\ NextRouter(c, group[c], todo[c], bad[c])
           \/ req[c].action = "reserve" /\ NextTarget(c, todo[c]) /\ UNCHANGED good
           \/ req[c].action = "lease" /\ Return(c, "ok") /\ UNCHANGED good
        /\ UNCHANGED <<entryVars, req, group, bad>>
    BY DEF Confirmed
  <1>2. Active(c) /\ done'[c] = done[c] \cup target[c] /\ result[c] = "none"
    BY <1>1 DEF Active, CallInv, Ended, TypeInv, TypeOK
  <1>3. CASE req[c].action = "access"
    <2>1. /\ good'[c] = good[c] \cup {at[c]} /\ bad'[c] = bad[c]
          /\ NextRouter(c, group[c], todo[c], bad'[c])
      BY <1>1, <1>3 DEF TypeInv, TypeOK
    <2> QED BY <1>1, <1>2, <1>3, <2>1, RouterThrough
  <1>4. CASE req[c].action = "reserve"
    <2>1. NextTarget(c, todo[c]) /\ UNCHANGED good
      BY <1>1, <1>4
    <2>2. todo[c] \in SUBSET Entities
      BY <1>2, <1>4 DEF TypeInv, Kinds
    <2>3. req[c].named \subseteq done'[c] \cup todo[c]
      BY <1>1, <1>2, <1>4 DEF CallInv, Covered, Is
    <2> QED BY <1>1, <1>2, <1>4, <2>1, <2>2, <2>3, TargetsGoOn
  <1>5. CASE req[c].action = "lease"
    <2>1. Return(c, "ok") /\ UNCHANGED good
      BY <1>1, <1>5
    <2> QED BY <1>1, <1>2, <1>5, <2>1, EndsAtOnce
  <1> QED BY <1>1, <1>3, <1>4, <1>5

LEMMA FailureKeeps ==
  ASSUME TypeInv, NEW c \in Calls, CallInv(c), Active(c), req[c].action = "access",
         RouterFailed(c), UNCHANGED <<entryVars, req, group, good, done>>
  PROVE  CallInv(c)'
  <1>1. /\ bad' = [bad EXCEPT ![c] = bad[c] \cup {at[c]}]
        /\ NextRouter(c, group[c], todo[c], bad[c] \cup {at[c]})
    BY DEF RouterFailed
  <1>2. bad'[c] = bad[c] \cup {at[c]}
    BY <1>1 DEF TypeInv, TypeOK
  <1>3. NextRouter(c, group[c], todo[c], bad'[c])
    BY <1>1, <1>2
  <1> QED BY <1>2, <1>3, RouterThrough

\* The one router of a call is the one that it is at, and none is behind it.
LEMMA OnlyRouter ==
  ASSUME TypeInv, NEW c \in Calls, CallInv(c), Active(c), req[c].action = "access",
         OneRouter(c)
  PROVE  done[c] = {}
  <1>1. Is(c, "access")
    BY DEF Is, Active
  <1>2. PICK o \in Objects : Routers(c) = {o}
    BY DEF OneRouter, Routers
  <1>3. /\ Routers(c) = good[c] \cup bad[c] \cup todo[c] \cup {at[c]}
        /\ at[c] \notin good[c] \cup bad[c] \cup todo[c]
    BY <1>1 DEF CallInv, Loop
  <1>4. good[c] \cup bad[c] = {}
    BY <1>2, <1>3
  <1> QED BY <1>1, <1>4 DEF CallInv, Honest

LEMMA WorkKeeps ==
  ASSUME TypeInv, NEW c \in Calls, CallInv(c), Refused(c) \/ Failed(c) \/ Aborted(c)
  PROVE  CallInv(c)'
  <1>1. Active(c) /\ UNCHANGED <<entryVars, req, group, good, done>>
    BY DEF Refused, Failed, Aborted, Active
  <1>2. CASE Refused(c)
    <2>1. CASE req[c].action # "access"
      <3>1. Return(c, "invalid") /\ UNCHANGED bad
        BY <1>2, <2>1 DEF Refused
      <3> QED BY <1>1, <2>1, <3>1, EndsAtOnce
    <2>2. CASE req[c].action = "access" /\ OneRouter(c)
      <3>1. Return(c, "invalid") /\ UNCHANGED bad
        BY <1>2, <2>2 DEF Refused
      <3>2. done'[c] = {}
        BY <1>1, <2>2, OnlyRouter
      <3>3. OneRouter(c)'
        BY <1>1, <2>2 DEF OneRouter
      <3> QED BY <1>1, <2>2, <3>1, <3>2, <3>3, EndsAtOnce
    <2>3. CASE req[c].action = "access" /\ ~OneRouter(c)
      <3>1. RouterFailed(c)
        BY <1>2, <2>3 DEF Refused
      <3> QED BY <1>1, <2>3, <3>1, FailureKeeps
    <2> QED BY <2>1, <2>2, <2>3
  <1>3. CASE Failed(c)
    <2>1. CASE req[c].action = "access"
      <3>1. RouterFailed(c)
        BY <1>3, <2>1 DEF Failed
      <3> QED BY <1>1, <2>1, <3>1, FailureKeeps
    <2>2. CASE req[c].action # "access"
      <3>1. Return(c, "failed") /\ UNCHANGED bad
        BY <1>3, <2>2 DEF Failed
      <3> QED BY <1>1, <2>2, <3>1, EndsAtOnce
    <2> QED BY <2>1, <2>2
  <1>4. CASE Aborted(c)
    <2>1. Return(c, "aborted") /\ UNCHANGED bad
      BY <1>4 DEF Aborted
    <2> QED BY <1>1, <2>1, EndsAtOnce
  <1> QED BY <1>2, <1>3, <1>4

LEMMA CallStepKeeps ==
  ASSUME SafeInv, NEW c \in Calls, CallStep(c)
  PROVE  SafeInv'
  <1>1. TypeInv /\ CallInv(c)
    BY DEF SafeInv
  <1>2. TypeInv' /\ Alone(c)
    BY <1>1, CallStepTypes
  <1>3. CallInv(c)'
    BY <1>1, AccessKeeps, ReserveKeeps, LeaseKeeps, AcquireKeeps, ConfirmedKeeps,
       WorkKeeps DEF CallStep, Ends
  <1>4. ASSUME NEW d \in Calls \ {c} PROVE CallInv(d)'
    BY <1>2, OtherCalls DEF SafeInv
  <1> QED BY <1>2, <1>3, <1>4 DEF SafeInv

\* A set-up makes a new router object; no call has met it.
LEMMA EntryStepKeeps ==
  ASSUME SafeInv, EntryStep
  PROVE  SafeInv'
  <1>1. TypeInv' /\ UNCHANGED <<holder, callVars, written, done>>
    BY EntryTypes DEF SafeInv
  <1>2. UNCHANGED <<pc, req, group, todo, at, target, good, bad, named, result,
                    written, done>>
    BY <1>1 DEF callVars
  <1>3. \A e \in Entries :
          /\ setups[e] <= setups'[e]
          /\ loaded'[e] # loaded[e] => loaded'[e] = NoObject \/ setups'[e] = setups[e] + 1
    <2>1. /\ loaded \in [Entries -> Objects \cup {NoObject}]
          /\ setups \in [Entries -> Nat]
      BY DEF SafeInv, TypeInv, TypeOK
    <2>2. ASSUME NEW e \in Entries, SetUp(e)
          PROVE  /\ setups' = [setups EXCEPT ![e] = @ + 1]
                 /\ \E o : loaded' = [loaded EXCEPT ![e] = o]
      BY <2>2 DEF SetUp
    <2>3. ASSUME NEW e \in Entries, Unload(e)
          PROVE  UNCHANGED setups /\ loaded' = [loaded EXCEPT ![e] = NoObject]
      BY <2>3 DEF Unload
    <2>4. ASSUME NEW e \in Entities, EntityChanges(e) PROVE UNCHANGED <<setups, loaded>>
      BY <2>4 DEF EntityChanges
    <2> QED BY <2>1, <2>2, <2>3, <2>4 DEF EntryStep
  <1>4. ASSUME NEW c \in Calls PROVE CallInv(c)'
    <2>1. CallInv(c)
      BY DEF SafeInv
    <2>2. Fresh(c)' /\ Loop(c)' /\ Outcome(c)'
      BY <1>2, <2>1 DEF CallInv, Fresh, Loop, Outcome, Routers, Is, Active
    <2>3. Honest(c)' /\ Ended(c)' /\ Covered(c)'
      BY <1>2, <2>1 DEF CallInv, Honest, OneRouter, Ended, Covered, AllGrouped, Is, Active
    <2>4. ASSUME NEW o \in Objects, group[c][o] # {}
          PROVE  o[2] <= setups'[o[1]]
      <3>1. /\ o[1] \in Entries /\ o[2] \in Nat
            /\ o[2] <= setups[o[1]] /\ setups[o[1]] \in Nat
        <4>1. o[2] <= setups[o[1]]
          BY <2>1, <2>4 DEF CallInv, NamedRight
        <4> QED BY <4>1, ObjectCount DEF SafeInv, TypeInv
      <3>2. setups'[o[1]] \in Nat
        BY <1>1, <3>1 DEF TypeInv, TypeOK
      <3> QED BY <1>3, <3>1, <3>2
    <2>5. ASSUME NEW o \in Objects, group[c][o] # {}, loaded'[o[1]] = o
          PROVE  loaded[o[1]] = o
      <3>1. /\ o[1] \in Entries /\ o[2] \in Nat
            /\ o[2] <= setups[o[1]] /\ setups[o[1]] \in Nat
        <4>1. o[2] <= setups[o[1]]
          BY <2>1, <2>5 DEF CallInv, NamedRight
        <4> QED BY <4>1, ObjectCount DEF SafeInv, TypeInv
      <3>2. o # NoObject /\ o = <<o[1], setups'[o[1]]>>
        BY <1>1, <2>5, <3>1, ServiceAssumption DEF TypeInv, TypeOK
      <3>3. o[2] = setups'[o[1]]
        BY <3>2
      <3>4. setups'[o[1]] # setups[o[1]] + 1
        BY <3>1, <3>3
      <3> QED BY <1>3, <2>5, <3>1, <3>2, <3>4
    <2>6. ASSUME NEW o \in Objects, Is(c, "access"),
                 o \in good[c] \cup bad[c] \/ (Active(c) /\ o = at[c])
          PROVE  group[c][o] # {}
      BY <2>1, <2>6 DEF CallInv, Outcome, Loop, Routers
    <2>7. NamedRight(c)'
      <3>1. Is(c, "access")' = Is(c, "access") /\ Active(c)' = Active(c)
        BY <1>2 DEF Is, Active
      <3> QED BY <1>2, <2>1, <2>4, <2>5, <2>6, <3>1 DEF CallInv, NamedRight
    <2> QED BY <2>2, <2>3, <2>7 DEF CallInv
  <1> QED BY <1>1, <1>4 DEF SafeInv

LEMMA InitSafe == Init => SafeInv
  <1> SUFFICES ASSUME Init PROVE SafeInv
    OBVIOUS
  <1>1. ASSUME NEW c \in Calls PROVE CallInv(c)
    <2>1. /\ pc[c] = "new" /\ good[c] = {} /\ bad[c] = {} /\ written[c] = {}
          /\ done[c] = {} /\ result[c] = "none" /\ \A o \in Objects : group[c][o] = {}
      BY DEF Init
    <2> QED BY <2>1 DEF CallInv, Fresh, Loop, Outcome, Honest, NamedRight, Covered,
                        Ended, Routers, Is, Active
  <1> QED BY <1>1, InitTypes DEF SafeInv

LEMMA SafeStep == SafeInv /\ [Next]_vars => SafeInv'
  <1>1. ASSUME SafeInv, UNCHANGED vars PROVE SafeInv'
    <2>1. TypeInv'
      BY <1>1, TypeStep DEF SafeInv
    <2>2. ASSUME NEW c \in Calls PROVE CallInv(c)'
      <3>1. CallInv(c) /\ UNCHANGED <<loaded, setups, pc, req, group, todo, at, target,
              good, bad, named, result, written, done>>
        BY <1>1 DEF SafeInv, vars, entryVars, callVars
      <3>2. Fresh(c)' /\ Loop(c)' /\ Outcome(c)'
        BY <3>1 DEF CallInv, Fresh, Loop, Outcome, Routers, Is, Active
      <3>3. Honest(c)' /\ Ended(c)' /\ Covered(c)'
        BY <3>1 DEF CallInv, Honest, OneRouter, Ended, Covered, AllGrouped, Is, Active
      <3>4. NamedRight(c)'
        BY <3>1 DEF CallInv, NamedRight, Is, Active
      <3> QED BY <3>2, <3>3, <3>4 DEF CallInv
    <2> QED BY <2>1, <2>2 DEF SafeInv
  <1>2. Next <=> EntryStep \/ \E c \in Calls : CallStep(c)
    BY DEF Next, EntryStep, CallStep
  <1> QED BY <1>1, <1>2, CallStepKeeps, EntryStepKeeps

LEMMA SafeAlways == Spec => []SafeInv
  BY InitSafe, SafeStep, PTL DEF Spec

-----------------------------------------------------------------------------
(* The properties *)

\* A call that reports success has changed every target that it named, on however
\* many routers, whatever was unloaded, removed or lost meanwhile.
THEOREM SuccessChangesAll == Spec => []OkMeansDone
<1>1. ASSUME SafeInv PROVE OkMeansDone
  <2>1. SUFFICES ASSUME NEW c \in Calls, result[c] = "ok", req[c].action # "lease"
                 PROVE  /\ req[c].named \subseteq done[c]
                        /\ req[c].action = "access" /\ req[c].devices =>
                             Devices \subseteq done[c]
    BY DEF OkMeansDone
  <2>2. CallInv(c) /\ TypeOK
    BY <1>1 DEF SafeInv, TypeInv
  <2>3. pc[c] = "returned" /\ req[c].action \in {"access", "reserve"}
    BY <2>1, <2>2, RequestType DEF CallInv, Ended
  <2>4. CASE req[c].action = "access"
    <3>1. Is(c, "access")
      BY <2>3, <2>4 DEF Is
    <3>2. /\ bad[c] = {} /\ Routers(c) = good[c] \cup bad[c]
          /\ \A o \in good[c] : group[c][o] \subseteq done[c]
      BY <2>1, <2>2, <3>1 DEF CallInv, Outcome
    <3>3. AllGrouped(c)
      BY <2>1, <2>2, <3>1 DEF CallInv, Covered
    <3>4. \A o \in Objects : group[c][o] \subseteq done[c]
      BY <3>2 DEF Routers
    <3> QED BY <3>3, <3>4 DEF AllGrouped
  <2>5. CASE req[c].action = "reserve"
    <3>1. Is(c, "reserve")
      BY <2>3, <2>5 DEF Is
    <3> QED BY <2>1, <2>2, <2>5, <3>1 DEF CallInv, Covered
  <2> QED BY <2>3, <2>4, <2>5
<1> QED BY <1>1, SafeAlways, PTL

\* In the report of a call on device access every router is on exactly one side,
\* the side is true of all its targets, and a router that is still loaded is named.
THEOREM ReportAlwaysTrue == Spec => []ReportIsTrue
<1>1. ASSUME SafeInv PROVE ReportIsTrue
  <2>1. ASSUME NEW c \in Calls, Is(c, "access"), result[c] \in {"ok", "failed"}
        PROVE  /\ good[c] \cap bad[c] = {}
               /\ \A o \in Objects : group[c][o] # {} =>
                    /\ o \in good[c] \cup bad[c]
                    /\ o \in good[c] => group[c][o] \subseteq done[c]
                    /\ loaded[o[1]] = o => named[c][o] = o[1]
    <3>1. CallInv(c)
      BY <1>1 DEF SafeInv
    <3>2. /\ good[c] \cap bad[c] = {} /\ Routers(c) = good[c] \cup bad[c]
          /\ \A o \in good[c] : group[c][o] \subseteq done[c]
      BY <2>1, <3>1 DEF CallInv, Outcome
    <3>3. \A o \in Objects : /\ o \in good[c] \cup bad[c] /\ loaded[o[1]] = o
                             => named[c][o] = o[1]
      BY <2>1, <3>1 DEF CallInv, NamedRight
    <3> QED BY <3>2, <3>3 DEF Routers
  <2> QED BY <2>1 DEF ReportIsTrue
<1> QED BY <1>1, SafeAlways, PTL

\* A call on device access over several routers is not rejected after a write, and no
\* rejected one has been confirmed anywhere.
THEOREM RejectedAtOnce == Spec => []NoPartialRejection
<1>1. ASSUME SafeInv PROVE NoPartialRejection
  <2>1. \A c \in Calls : OneRouter(c) =>
          \A o, p \in Objects : group[c][o] # {} /\ group[c][p] # {} => o = p
    BY DEF OneRouter
  <2> QED BY <1>1, <2>1 DEF SafeInv, CallInv, Honest, NoPartialRejection
<1> QED BY <1>1, SafeAlways, PTL

-----------------------------------------------------------------------------
(* Locks *)

\* A call holds the lock of the router object that it works on, and no other.
LockInv ==
  \A l \in Locks, c \in Calls :
    holder[l] = c <=> pc[c] = "working" /\ l = Lock(c)

\* Whoever keeps a call waiting is at work, and does not wait itself.
WaitsForWorker ==
  \A c \in Calls : pc[c] = "queued" =>
    \/ holder[Lock(c)] = NoCall
    \/ \E d \in Calls : holder[Lock(c)] = d /\ pc[d] = "working"

LEMMA LockType ==
  ASSUME TypeInv, NEW c \in Calls, Active(c)
  PROVE  Lock(c) \in Locks
  BY DEF TypeInv, Kinds, Lock, Locks

\* A step that makes call c wait or return, after it gave up what it held.
LEMMA Gives ==
  ASSUME TypeInv, LockInv, NEW c \in Calls, Alone(c),
         pc'[c] # "working", Release(c) \/ (UNCHANGED holder /\ pc[c] = "new")
  PROVE  LockInv'
  <1>1. ASSUME NEW l \in Locks, NEW d \in Calls
        PROVE  holder'[l] = d <=> pc'[d] = "working" /\ l = Lock(d)'
    <2>1. holder[l] = d <=> pc[d] = "working" /\ l = Lock(d)
      BY DEF LockInv
    <2>2. CASE d = c
      <3>1. holder'[l] # c
        BY <2>1, <2>2, ServiceAssumption DEF Release
      <3> QED BY <2>2, <3>1
    <2>3. CASE d # c
      <3>1. pc'[d] = pc[d] /\ Lock(d)' = Lock(d)
        BY <2>3 DEF Alone, Lock
      <3>2. holder'[l] = d <=> holder[l] = d
        BY <2>3, ServiceAssumption DEF Release
      <3> QED BY <2>1, <3>1, <3>2
    <2> QED BY <2>2, <2>3
  <1> QED BY <1>1 DEF LockInv

LEMMA Takes ==
  ASSUME TypeInv, LockInv, NEW c \in Calls, Acquire(c)
  PROVE  LockInv'
  <1>1. /\ pc[c] = "queued" /\ holder[Lock(c)] = NoCall
        /\ holder' = [holder EXCEPT ![Lock(c)] = c]
        /\ pc' = [pc EXCEPT ![c] = "working"]
        /\ at' = at /\ req' = req
    BY DEF Acquire
  <1>2. Lock(c) \in Locks
    BY <1>1, LockType DEF Active
  <1>3. ASSUME NEW l \in Locks, NEW d \in Calls
        PROVE  holder'[l] = d <=> pc'[d] = "working" /\ l = Lock(d)'
    <2>1. holder[l] = d <=> pc[d] = "working" /\ l = Lock(d)
      BY DEF LockInv
    <2>2. Lock(d)' = Lock(d)
      BY <1>1 DEF Lock
    <2>3. /\ holder'[l] = IF l = Lock(c) THEN c ELSE holder[l]
          /\ pc'[d] = IF d = c THEN "working" ELSE pc[d]
      BY <1>1 DEF TypeInv, TypeOK
    <2>4. d = NoCall => FALSE
      BY ServiceAssumption
    <2> QED BY <1>1, <2>1, <2>2, <2>3, <2>4
  <1> QED BY <1>3 DEF LockInv

\* Where a step that is not Acquire leaves a call.
LEMMA Leaves ==
  ASSUME TypeInv, NEW c \in Calls, CallStep(c), ~Acquire(c)
  PROVE  /\ pc'[c] # "working"
         /\ Release(c) \/ (UNCHANGED holder /\ pc[c] = "new")
  <1>1. ASSUME NEW how, Return(c, how) PROVE pc'[c] # "working"
    BY <1>1 DEF Return, TypeInv, TypeOK
  <1>2. ASSUME NEW o, NEW xs, NEW rest, Enter(c, o, xs, rest) PROVE pc'[c] # "working"
    BY <1>2 DEF Enter, TypeInv, TypeOK
  <1>3. ASSUME NEW by, NEW rest, NEW fail, NextRouter(c, by, rest, fail)
        PROVE  pc'[c] # "working"
    BY <1>1, <1>2, <1>3 DEF NextRouter
  <1>4. ASSUME NEW rest, NextTarget(c, rest) PROVE pc'[c] # "working"
    BY <1>1, <1>2, <1>4 DEF NextTarget
  <1>5. ASSUME NEW r \in Requests, Access(c, r) \/ Reserve(c, r) \/ Lease(c, r)
        PROVE  pc'[c] # "working" /\ UNCHANGED holder /\ pc[c] = "new"
    <2>1. pc'[c] # "working"
      BY <1>1, <1>2, <1>3, <1>4, <1>5 DEF Access, Reserve, Lease
    <2> QED BY <1>5, <2>1 DEF Access, Reserve, Lease, Made
  <1>6. CASE Confirmed(c)
    BY <1>1, <1>3, <1>4, <1>6 DEF Confirmed
  <1>7. CASE Refused(c) \/ Failed(c) \/ Aborted(c)
    BY <1>1, <1>3, <1>7 DEF Refused, Failed, Aborted, RouterFailed
  <1> QED BY <1>5, <1>6, <1>7 DEF CallStep, Ends

LEMMA LockStep == TypeInv /\ LockInv /\ [Next]_vars => LockInv'
  <1> SUFFICES ASSUME TypeInv, LockInv, [Next]_vars PROVE LockInv'
    OBVIOUS
  <1>1. ASSUME NEW c \in Calls, CallStep(c) PROVE LockInv'
    BY <1>1, CallStepTypes, Gives, Takes, Leaves
  <1>2. CASE UNCHANGED <<holder, pc, req, at>>
    BY <1>2 DEF LockInv, Lock
  <1>3. CASE EntryStep
    BY <1>2, <1>3, EntryTypes DEF callVars
  <1>4. CASE UNCHANGED vars
    BY <1>2, <1>4 DEF vars, callVars
  <1> QED BY <1>1, <1>3, <1>4 DEF Next, EntryStep, CallStep

\* No call waits for a call that waits: calls over the same routers in opposite
\* orders do not lock each other out, since each holds one lock at a time, gives
\* it up before the next, and keeps none when it has returned.
THEOREM NoCircleOfWaiting == Spec => [](LockInv /\ WaitsForWorker)
  <1>1. Init => LockInv
    BY ServiceAssumption DEF Init, LockInv
  <1>2. ASSUME TypeInv, LockInv PROVE WaitsForWorker
    <2>1. SUFFICES ASSUME NEW c \in Calls, pc[c] = "queued", holder[Lock(c)] # NoCall
                   PROVE  \E d \in Calls : holder[Lock(c)] = d /\ pc[d] = "working"
      BY DEF WaitsForWorker
    <2>2. Lock(c) \in Locks
      BY <1>2, <2>1, LockType DEF Active
    <2>3. PICK d \in Calls : holder[Lock(c)] = d
      BY <1>2, <2>1, <2>2, CallVars
    <2> QED BY <1>2, <2>2, <2>3 DEF LockInv
  <1> QED BY <1>1, <1>2, InitTypes, TypeStep, LockStep, PTL DEF Spec
=============================================================================
