----------------------- MODULE FederationRouterProofs -----------------------
(***************************************************************************)
(* Proofs about FederationRouter, for every set of nodes, databases,       *)
(* tenants, regions and requests and every content of the tables.          *)
(*                                                                         *)
(* KeptApart speaks of requests that have been served.  IInv carries it    *)
(* back over the calls that lead there: the tables name no node for a      *)
(* running request that named does not remember, whatever node the request *)
(* has chosen is among these, and every pool, in the cache or in a request,*)
(* is connected to a database its node has named.                          *)
(***************************************************************************)
EXTENDS FederationRouter, FiniteSetTheorems, TLAPS

AtNode == {"look", "ping", "evict", "lookup", "connect", "store"}
WithPool == {"ping", "connect", "store"}

\* The databases nodes name now, and those in the cache, are remembered.
AddressKnown == \A n \in Node : address[n] \in knownAt[n]

CacheKnown == \A n \in Node : nodeCache[n] # NoPool => nodeCache[n] \in knownAt[n]

\* What a request knows at each stage comes from the tables.
RequestKnown(r) ==
    /\ Running(r) => NamedFor(task[r].tenant) \subseteq named[r]
    /\ Running(r) /\ task[r].home # NoHome => task[r].home.node \in named[r]
    /\ stage[r] \in AtNode => task[r].node \in named[r]
    /\ stage[r] \in WithPool => task[r].db \in knownAt[task[r].node]
    /\ Served(r) => task[r].node \in named[r] /\ task[r].db \in knownAt[task[r].node]

IInv ==
    /\ TypeOK
    /\ AddressKnown
    /\ CacheKnown
    /\ \A r \in Request : RequestKnown(r)

\* What the steps of a request leave alone.
Aside == /\ UNCHANGED <<home, address, active, up, changes, knownAt, named, current>>
         /\ steady' \subseteq Request

\* The cache is as it was, or one of its pools was dropped, or a known one stored.
CacheStep ==
    /\ nodeCache' \in [Node -> Database \cup {NoPool}]
    /\ \A n \in Node : nodeCache'[n] # NoPool => nodeCache'[n] \in knownAt[n]

-----------------------------------------------------------------------------
(* The steps that several actions share *)

\* A home row or its absence, taken apart.
LEMMA HomeRow ==
    ASSUME NEW h \in Home \cup {NoHome}
    PROVE  /\ h.node \in Node \cup {NoNode}
           /\ h.region \in Region \cup {NoRegion}
           /\ h.node # NoNode => h \in Home /\ h # NoHome /\ h.node \in Node
           /\ h.node = NoNode => h = NoHome
<1>1. CASE h \in Home
  <2>1. h \in [node : Node, region : Region]
    BY <1>1, ConstantsAssumption
  <2> QED
    BY <1>1, <2>1, ConstantsAssumption DEF NoHome
<1>2. CASE h = NoHome
  BY <1>2, ConstantsAssumption DEF NoHome
<1> QED
  BY <1>1, <1>2

\* A heaviest route is a node that the tables name.
LEMMA HeaviestNamed ==
    ASSUME NEW t, NEW g
    PROVE  Heaviest(t, g) \subseteq NamedFor(t) /\ Heaviest(t, g) \subseteq Node
BY ConstantsAssumption DEF Heaviest, NamedFor, Route

\* Changing one request's stage and task keeps IInv if it does for that request.
LEMMA OneRequest ==
    ASSUME IInv, NEW r \in Request, NEW st \in Routing \cup {"served"}, NEW tk \in Task,
           stage' = [stage EXCEPT ![r] = st], task' = [task EXCEPT ![r] = tk],
           Aside, CacheStep,
           Running(r), tk.tenant = task[r].tenant,
           tk.home # NoHome => tk.home.node \in named[r],
           st \in AtNode => tk.node \in Node /\ tk.node \in named[r],
           st \in WithPool => tk.db \in Database /\ tk.db \in knownAt[tk.node],
           st = "served" /\ tk.db # DefaultDB =>
               tk.node \in named[r] /\ tk.db \in knownAt[tk.node]
    PROVE  IInv'
<1>1. TypeOK
  BY DEF IInv
<1>2. /\ stage' \in [Request -> Routing \cup {"idle", "served"}]
      /\ task' \in [Request -> Task]
      /\ stage'[r] = st /\ task'[r] = tk
      /\ \A s \in Request \ {r} : stage'[s] = stage[s] /\ task'[s] = task[s]
  BY <1>1 DEF TypeOK
<1>3. TypeOK'
  <2>1. \A s \in Request : Running(s)' => task'[s].tenant \in Tenant
    BY <1>1, <1>2 DEF TypeOK, Running
  <2>2. \A s \in Request : stage'[s] \in AtNode => task'[s].node \in Node
    BY <1>1, <1>2 DEF TypeOK, AtNode
  <2>3. \A s \in Request : stage'[s] \in WithPool => task'[s].db \in Database
    BY <1>1, <1>2 DEF TypeOK, WithPool
  <2> QED
    BY <1>1, <1>2, <2>1, <2>2, <2>3 DEF TypeOK, Aside, CacheStep, AtNode, WithPool
<1>4. AddressKnown' /\ CacheKnown'
  BY DEF IInv, AddressKnown, CacheKnown, Aside, CacheStep
<1>5. \A t : NamedFor(t)' = NamedFor(t)
  BY DEF NamedFor, Aside
<1>6. RequestKnown(r)'
  <2>1. RequestKnown(r)
    BY DEF IInv
  <2> QED
    BY <1>2, <1>5, <2>1 DEF RequestKnown, Running, Served, Aside
<1>7. ASSUME NEW s \in Request \ {r} PROVE RequestKnown(s)'
  <2>1. RequestKnown(s)
    BY DEF IInv
  <2> QED
    BY <1>2, <1>5, <2>1 DEF RequestKnown, Running, Served, Aside
<1> QED
  BY <1>3, <1>4, <1>6, <1>7 DEF IInv

\* What TypeOK and IInv say of a running request.
LEMMA RunningFacts ==
    ASSUME IInv, NEW r \in Request, Running(r)
    PROVE  /\ task[r] \in Task
           /\ task[r].tenant \in Tenant
           /\ task[r].home \in Home \cup {NoHome}
           /\ task[r].home # NoHome => task[r].home.node \in named[r]
           /\ NamedFor(task[r].tenant) \subseteq named[r]
           /\ named[r] \subseteq Node
BY DEF IInv, TypeOK, RequestKnown, Task

\* A cache that does not change makes no unknown pool.
LEMMA SameCache == ASSUME IInv, UNCHANGED nodeCache PROVE CacheStep
BY DEF IInv, TypeOK, CacheKnown, CacheStep

\* Trying a node that was named for the request.
LEMMA TryKeeps ==
    ASSUME IInv, NEW r \in Request, Running(r), NEW a \in Attempt, NEW n \in named[r],
           Try(r, a, n), Aside, CacheStep
    PROVE  IInv'
<1> DEFINE tk == [task[r] EXCEPT !.attempt = a, !.node = n]
<1>1. /\ task[r] \in Task /\ named[r] \subseteq Node
      /\ task[r].home # NoHome => task[r].home.node \in named[r]
  BY RunningFacts
<1>2. tk \in Task /\ tk.tenant = task[r].tenant /\ tk.home = task[r].home /\ tk.node = n
  BY <1>1 DEF Task
<1>3. task' = [task EXCEPT ![r] = tk] /\ stage' = [stage EXCEPT ![r] = "look"]
  BY DEF Try
<1> QED
  BY <1>1, <1>2, <1>3, OneRequest DEF Routing, AtNode, WithPool

\* Serving the default database, or a known one of a node named for the request.
LEMMA ServeKeeps ==
    ASSUME IInv, NEW r \in Request, Running(r), NEW n \in Node \cup {NoNode},
           NEW db \in Database \cup {DefaultDB},
           db # DefaultDB => n \in named[r] /\ db \in knownAt[n],
           ServeFrom(r, n, db), Aside, CacheStep
    PROVE  IInv'
<1> DEFINE tk == [task[r] EXCEPT !.node = n, !.db = db, !.home = NoHome,
                                 !.attempt = "primary"]
<1>1. task[r] \in Task
  BY RunningFacts
<1>2. /\ tk \in Task /\ tk.tenant = task[r].tenant /\ tk.home = NoHome
      /\ tk.node = n /\ tk.db = db
  BY <1>1 DEF Task, Attempt
<1>3. task' = [task EXCEPT ![r] = tk] /\ stage' = [stage EXCEPT ![r] = "served"]
  BY DEF ServeFrom
<1> QED
  BY <1>2, <1>3, OneRequest DEF Routing, AtNode, WithPool

LEMMA GiveUpKeeps ==
    ASSUME IInv, NEW r \in Request, Running(r), GiveUp(r), Aside, CacheStep
    PROVE  IInv'
<1>1. CASE task[r].attempt # "fallback" /\ task[r].home.node # NoNode
  <2>1. task[r].home.node \in named[r]
    BY <1>1, RunningFacts, HomeRow
  <2>2. Try(r, "fallback", task[r].home.node)
    BY <1>1 DEF GiveUp
  <2> QED
    BY <2>1, <2>2, TryKeeps DEF Attempt
<1>2. CASE ~(task[r].attempt # "fallback" /\ task[r].home.node # NoNode)
  <2>1. ServeFrom(r, NoNode, DefaultDB)
    BY <1>2 DEF GiveUp, ServeDefault
  <2> QED
    BY <2>1, ServeKeeps
<1> QED
  BY <1>1, <1>2

-----------------------------------------------------------------------------
(* IInv is inductive *)

LEMMA InitIInv == Init => IInv
<1> SUFFICES ASSUME Init PROVE IInv
  OBVIOUS
<1>1. Idle \in Task
  BY ConstantsAssumption DEF Idle, Task, Attempt
<1>2. \A r \in Request : ~Running(r) /\ stage[r] \notin AtNode \cup {"served"}
  BY DEF Init, Running, Routing, AtNode
<1>3. TypeOK
  BY <1>1, <1>2, ConstantsAssumption DEF Init, TypeOK, AtNode
<1>4. AddressKnown /\ CacheKnown
  BY DEF Init, AddressKnown, CacheKnown
<1>5. ASSUME NEW r \in Request PROVE RequestKnown(r)
  BY <1>2 DEF RequestKnown, AtNode, WithPool, Served
<1> QED
  BY <1>3, <1>4, <1>5 DEF IInv

\* The end of a request, and the arrival of one that is not routed.
LEMMA RestingKeeps ==
    ASSUME IInv, NEW r \in Request, ReceiveUnrouted(r) \/ Return(r)
    PROVE  IInv'
<1>1. /\ TypeOK
      /\ Idle \in Task
      /\ [task[r] EXCEPT !.db = DefaultDB] \in Task
      /\ [task[r] EXCEPT !.db = DefaultDB].db = DefaultDB
  BY ConstantsAssumption DEF IInv, TypeOK, Idle, Task, Attempt
<1>2. /\ UNCHANGED <<home, address, active, up, changes, knownAt, nodeCache>>
      /\ stage'[r] \in {"idle", "served"}
      /\ stage'[r] = "served" => task'[r].db = DefaultDB
      /\ task'[r] \in Task
      /\ stage' \in [Request -> Routing \cup {"idle", "served"}]
      /\ task' \in [Request -> Task]
      /\ \A s \in Request \ {r} :
            stage'[s] = stage[s] /\ task'[s] = task[s] /\ named'[s] = named[s]
      /\ named' \in [Request -> SUBSET Node]
      /\ current' \in [Request -> SUBSET Database]
      /\ steady' \subseteq Request
  <2>1. CASE ReceiveUnrouted(r)
    BY <1>1, <2>1 DEF ReceiveUnrouted, world, tables, history, TypeOK
  <2>2. CASE Return(r)
    BY <1>1, <2>2 DEF Return, world, tables, TypeOK
  <2> QED
    BY <2>1, <2>2
<1>3. stage'[r] \notin Routing \cup AtNode \cup WithPool
  BY <1>2 DEF Routing, AtNode, WithPool
<1>4. TypeOK'
  <2>1. ASSUME NEW s \in Request
        PROVE  /\ Running(s)' => task'[s].tenant \in Tenant
               /\ stage'[s] \in AtNode => task'[s].node \in Node
               /\ stage'[s] \in WithPool => task'[s].db \in Database
    BY <1>1, <1>2, <1>3 DEF TypeOK, Running, AtNode, WithPool
  <2> QED
    BY <1>1, <1>2, <2>1 DEF TypeOK, AtNode, WithPool
<1>5. AddressKnown' /\ CacheKnown'
  BY <1>2 DEF IInv, AddressKnown, CacheKnown
<1>6. \A t : NamedFor(t)' = NamedFor(t)
  BY <1>2 DEF NamedFor
<1>7. ASSUME NEW s \in Request PROVE RequestKnown(s)'
  <2>1. RequestKnown(s)
    BY DEF IInv
  <2>2. CASE s = r
    BY <1>2, <1>3, <2>2 DEF RequestKnown, Running, Served
  <2>3. CASE s # r
    BY <1>2, <1>6, <2>1, <2>3 DEF RequestKnown, Running, Served
  <2> QED
    BY <2>2, <2>3
<1> QED
  BY <1>4, <1>5, <1>7 DEF IInv

LEMMA ReceiveKeeps ==
    ASSUME IInv, NEW r \in Request, NEW t \in Tenant, NEW g \in Region \cup {NoRegion},
           Receive(r, t, g)
    PROVE  IInv'
<1> DEFINE tk == [Idle EXCEPT !.tenant = t, !.region = g]
<1>1. TypeOK
  BY DEF IInv
<1>2. NamedFor(t) \subseteq Node
  BY ConstantsAssumption DEF NamedFor, Route
<1>3. tk \in Task /\ tk.tenant = t /\ tk.home = NoHome
  BY ConstantsAssumption DEF Idle, Task, Attempt
<1>4. /\ UNCHANGED <<home, address, active, up, changes, knownAt, nodeCache>>
      /\ stage' = [stage EXCEPT ![r] = "map"]
      /\ task' = [task EXCEPT ![r] = tk]
      /\ named' = [named EXCEPT ![r] = NamedFor(t)]
      /\ current' = [current EXCEPT ![r] = {address[n] : n \in NamedFor(t)}]
      /\ steady' \subseteq Request
  BY <1>1 DEF Receive, world, tables, TypeOK
<1>5. {address[n] : n \in NamedFor(t)} \subseteq Database
  BY <1>1, <1>2 DEF TypeOK
<1>6. /\ stage' \in [Request -> Routing \cup {"idle", "served"}]
      /\ task' \in [Request -> Task]
      /\ named' \in [Request -> SUBSET Node]
      /\ current' \in [Request -> SUBSET Database]
      /\ stage'[r] = "map" /\ task'[r] = tk /\ named'[r] = NamedFor(t)
      /\ \A s \in Request \ {r} :
            stage'[s] = stage[s] /\ task'[s] = task[s] /\ named'[s] = named[s]
  <2> HIDE DEF tk
  <2> QED
    BY <1>1, <1>2, <1>3, <1>4, <1>5 DEF TypeOK, Routing
<1> HIDE DEF tk
<1>7. TypeOK'
  <2>1. ASSUME NEW s \in Request
        PROVE  /\ Running(s)' => task'[s].tenant \in Tenant
               /\ stage'[s] \in AtNode => task'[s].node \in Node
               /\ stage'[s] \in WithPool => task'[s].db \in Database
    BY <1>1, <1>3, <1>6 DEF TypeOK, Running, AtNode, WithPool
  <2> QED
    BY <1>1, <1>4, <1>6, <2>1 DEF TypeOK, AtNode, WithPool
<1>8. AddressKnown' /\ CacheKnown'
  BY <1>4 DEF IInv, AddressKnown, CacheKnown
<1>9. \A u : NamedFor(u)' = NamedFor(u)
  BY <1>4 DEF NamedFor
<1>10. ASSUME NEW s \in Request PROVE RequestKnown(s)'
  <2>1. RequestKnown(s)
    BY DEF IInv
  <2>2. CASE s = r
    BY <1>3, <1>6, <1>9, <2>2 DEF RequestKnown, Running, Served, AtNode, WithPool
  <2>3. CASE s # r
    BY <1>4, <1>6, <1>9, <2>1, <2>3 DEF RequestKnown, Running, Served
  <2> QED
    BY <2>2, <2>3
<1> QED
  BY <1>7, <1>8, <1>10 DEF IInv

\* The two outcomes of the query for the tenant's primary node.
LEMMA MapKeeps ==
    ASSUME IInv, NEW r \in Request, MapQuery(r) \/ MapQueryFails(r)
    PROVE  IInv'
<1>1. PICK h \in Home \cup {NoHome} : h \in {home[task[r].tenant], NoHome} /\ AfterMap(r, h)
  BY RunningFacts DEF MapQuery, MapQueryFails, Running, Routing, IInv, TypeOK
<1>2. Running(r) /\ Aside /\ CacheStep
  BY SameCache DEF MapQuery, MapQueryFails, Running, Routing, Aside, world, tables, history,
                   IInv, TypeOK
<1>3. task[r] \in Task /\ NamedFor(task[r].tenant) \subseteq named[r]
  BY <1>2, RunningFacts
<1>4. h # NoHome => h.node \in Node /\ h.node \in named[r]
  BY <1>1, <1>3, HomeRow DEF NamedFor
<1>5. CASE h.node # NoNode /\ task[r].region \in {NoRegion, h.region}
  <2> DEFINE tk == [task[r] EXCEPT !.home = h, !.attempt = "primary", !.node = h.node]
  <2>1. /\ task' = [task EXCEPT ![r] = tk]
        /\ stage' = [stage EXCEPT ![r] = "look"]
    BY <1>1, <1>5 DEF AfterMap
  <2>2. h.node \in Node /\ h.node \in named[r]
    BY <1>4, <1>5 DEF NoHome
  <2>3. tk \in Task /\ tk.tenant = task[r].tenant /\ tk.home = h /\ tk.node = h.node
    BY <1>1, <1>3, <2>2 DEF Task, Attempt
  <2> QED
    BY <1>2, <1>4, <2>1, <2>2, <2>3, OneRequest DEF Routing, AtNode, WithPool
<1>6. CASE /\ ~(h.node # NoNode /\ task[r].region \in {NoRegion, h.region})
           /\ task[r].region # NoRegion
  <2> DEFINE tk == [task[r] EXCEPT !.home = h, !.attempt = "route"]
  <2>1. /\ task' = [task EXCEPT ![r] = tk]
        /\ stage' = [stage EXCEPT ![r] = "route"]
    BY <1>1, <1>6 DEF AfterMap
  <2>2. tk \in Task /\ tk.tenant = task[r].tenant /\ tk.home = h
    BY <1>1, <1>3 DEF Task, Attempt
  <2> QED
    BY <1>2, <1>4, <2>1, <2>2, OneRequest DEF Routing, AtNode, WithPool
<1>7. CASE /\ ~(h.node # NoNode /\ task[r].region \in {NoRegion, h.region})
           /\ task[r].region = NoRegion
  <2>1. ServeFrom(r, NoNode, DefaultDB)
    BY <1>1, <1>7 DEF AfterMap, ServeDefault
  <2> QED
    BY <1>2, <2>1, ServeKeeps
<1> QED
  BY <1>5, <1>6, <1>7

LEMMA RouteKeeps ==
    ASSUME IInv, NEW r \in Request, RouteQuery(r) \/ RouteQueryFails(r)
    PROVE  IInv'
<1>1. Running(r) /\ Aside /\ CacheStep
  BY SameCache DEF RouteQuery, RouteQueryFails, Running, Routing, Aside, world, tables,
                   history, IInv, TypeOK
<1>2. GiveUp(r) \/ \E n \in Heaviest(task[r].tenant, task[r].region) : Try(r, "route", n)
  BY DEF RouteQuery, RouteQueryFails
<1>3. Heaviest(task[r].tenant, task[r].region) \subseteq named[r]
  BY <1>1, RunningFacts, HeaviestNamed
<1> QED
  BY <1>1, <1>2, <1>3, GiveUpKeeps, TryKeeps DEF Attempt

\* The steps of getNodeDB for the node that the request has chosen.
LEMMA NodeKeeps ==
    ASSUME IInv, NEW r \in Request,
           \/ CacheLook(r) \/ Ping(r) \/ PingFails(r) \/ Evict(r)
           \/ NodeLookup(r) \/ Connect(r) \/ LookupOrConnectFails(r) \/ Store(r)
    PROVE  IInv'
<1> DEFINE n == task[r].node
           With(db) == [task[r] EXCEPT !.db = db]
<1>1. TypeOK /\ RequestKnown(r) /\ CacheKnown /\ AddressKnown
  BY DEF IInv
<1>2. /\ stage[r] \in AtNode
      /\ Running(r)
      /\ Aside
  BY <1>1 DEF CacheLook, Ping, PingFails, Evict, NodeLookup, Connect, LookupOrConnectFails,
             Store, AtNode, Running, Routing, Aside, world, tables, history, TypeOK
<1>3. /\ task[r] \in Task
      /\ n \in Node /\ n \in named[r]
      /\ task[r].home # NoHome => task[r].home.node \in named[r]
      /\ stage[r] \in WithPool => task[r].db \in Database /\ task[r].db \in knownAt[n]
  BY <1>1, <1>2 DEF TypeOK, RequestKnown, AtNode, WithPool
<1>4. ASSUME NEW db \in Database \cup {NoPool}
      PROVE  /\ With(db) \in Task
             /\ With(db).tenant = task[r].tenant /\ With(db).home = task[r].home
             /\ With(db).node = n /\ With(db).db = db
  BY <1>3 DEF Task
<1> HIDE DEF With
<1>5. ASSUME NEW db \in Database \cup {NoPool}, NEW st \in AtNode,
             task' = [task EXCEPT ![r] = With(db)], stage' = [stage EXCEPT ![r] = st],
             st \in WithPool => db \in Database /\ db \in knownAt[n], CacheStep
      PROVE  IInv'
  <2>1. st \in Routing \cup {"served"} /\ st # "served"
    BY DEF AtNode, Routing
  <2> QED
    BY <1>2, <1>3, <1>4, <1>5, <2>1, OneRequest
<1>6. task[r].db \in Database \cup {NoPool} => task = [task EXCEPT ![r] = With(task[r].db)]
  <2>1. task[r].db \in Database \cup {NoPool} => With(task[r].db) = task[r]
    BY <1>3 DEF With, Task
  <2> QED
    BY <1>1, <2>1 DEF TypeOK
<1>7. CASE CacheLook(r)
  <2> DEFINE db == nodeCache[n]
  <2>1. db \in Database \cup {NoPool} /\ (db # NoPool => db \in knownAt[n])
    BY <1>1, <1>3 DEF TypeOK, CacheKnown
  <2>2. /\ task' = [task EXCEPT ![r] = With(db)]
        /\ stage' = [stage EXCEPT ![r] = IF db = NoPool THEN "lookup" ELSE "ping"]
        /\ CacheStep
    BY <1>7, SameCache DEF CacheLook, With
  <2> HIDE DEF db
  <2>3. CASE db = NoPool
    BY <1>5, <2>1, <2>2, <2>3 DEF AtNode, WithPool
  <2>4. CASE db # NoPool
    BY <1>5, <2>1, <2>2, <2>4 DEF AtNode
  <2> QED
    BY <2>3, <2>4
<1>8. CASE Ping(r) /\ task[r].db \in up
  <2>1. ServeFrom(r, n, task[r].db) /\ stage[r] \in WithPool /\ CacheStep
    BY <1>8, SameCache DEF Ping, Serve, WithPool
  <2> QED
    BY <1>2, <1>3, <2>1, ServeKeeps
<1>9. CASE (Ping(r) /\ task[r].db \notin up) \/ PingFails(r)
  <2>1. /\ stage[r] \in WithPool /\ CacheStep
        /\ task' = task /\ stage' = [stage EXCEPT ![r] = "evict"]
    BY <1>9, SameCache DEF Ping, PingFails, WithPool
  <2> QED
    BY <1>3, <1>5, <1>6, <2>1 DEF AtNode, WithPool
<1>10. CASE Evict(r)
  <2>1. /\ task' = [task EXCEPT ![r] = With(NoPool)]
        /\ stage' = [stage EXCEPT ![r] = "lookup"]
    BY <1>10 DEF Evict, With
  <2>2. CacheStep
    BY <1>1, <1>3, <1>10, ConstantsAssumption DEF Evict, CacheStep, TypeOK, CacheKnown
  <2> QED
    BY <1>5, <2>1, <2>2 DEF AtNode, WithPool
<1>11. CASE NodeLookup(r) /\ n \in active
  <2>1. /\ task' = [task EXCEPT ![r] = With(address[n])]
        /\ stage' = [stage EXCEPT ![r] = "connect"]
        /\ CacheStep
    BY <1>11, SameCache DEF NodeLookup, With
  <2>2. address[n] \in Database /\ address[n] \in knownAt[n]
    BY <1>1, <1>3 DEF TypeOK, AddressKnown
  <2> QED
    BY <1>5, <2>1, <2>2 DEF AtNode
<1>12. CASE Connect(r) /\ task[r].db \in up
  <2>1. /\ stage[r] \in WithPool /\ CacheStep
        /\ task' = task /\ stage' = [stage EXCEPT ![r] = "store"]
    BY <1>12, SameCache DEF Connect, WithPool
  <2> QED
    BY <1>3, <1>5, <1>6, <2>1 DEF AtNode
<1>13. CASE \/ NodeLookup(r) /\ n \notin active
            \/ Connect(r) /\ task[r].db \notin up
            \/ LookupOrConnectFails(r)
  <2>1. GiveUp(r) /\ CacheStep
    BY <1>13, SameCache DEF NodeLookup, Connect, LookupOrConnectFails
  <2> QED
    BY <1>2, <2>1, GiveUpKeeps
<1>14. CASE Store(r)
  <2>1. ServeFrom(r, n, task[r].db) /\ stage[r] \in WithPool
    BY <1>14 DEF Store, Serve, WithPool
  <2>2. CacheStep
    BY <1>1, <1>3, <1>14, <2>1 DEF Store, CacheStep, TypeOK, CacheKnown
  <2> QED
    BY <1>2, <1>3, <2>1, <2>2, ServeKeeps
<1> QED
  BY <1>7, <1>8, <1>9, <1>10, <1>11, <1>12, <1>13, <1>14

\* Another request's write of the cache is lost, or hides a pool from a lookup.
LEMMA RaceKeeps ==
    ASSUME IInv, NEW r \in Request, NEW s \in Request, LostWrite(r, s) \/ MissedLook(r, s)
    PROVE  IInv'
<1> DEFINE n(q) == task[q].node
           With(q) == [task[q] EXCEPT !.db = NoPool]
<1>1. TypeOK /\ RequestKnown(r) /\ RequestKnown(s)
  BY DEF IInv
<1>2. Aside /\ CacheStep
  BY <1>1, SameCache DEF LostWrite, MissedLook, Aside, world, tables, history, TypeOK
<1>3. ASSUME NEW q \in Request, stage[q] \in AtNode,
             task' = [task EXCEPT ![q].db = NoPool], stage' = [stage EXCEPT ![q] = "lookup"]
      PROVE  IInv'
  <2>1. /\ Running(q) /\ task[q] \in Task
        /\ task[q].home # NoHome => task[q].home.node \in named[q]
        /\ n(q) \in Node /\ n(q) \in named[q]
    BY <1>3 DEF IInv, TypeOK, RequestKnown, Running, Routing, AtNode
  <2>2. /\ With(q) \in Task /\ With(q).tenant = task[q].tenant
        /\ With(q).home = task[q].home /\ With(q).node = n(q)
    BY <2>1 DEF Task
  <2>3. task' = [task EXCEPT ![q] = With(q)]
    BY <1>3
  <2> HIDE DEF With
  <2> QED
    BY <1>2, <1>3, <2>1, <2>2, <2>3, OneRequest DEF Routing, AtNode, WithPool
<1>4. CASE LostWrite(r, s) /\ stage[s] = "store"
  <2>1. ServeFrom(s, n(s), task[s].db)
    BY <1>4 DEF LostWrite, Serve
  <2>2. /\ Running(s) /\ n(s) \in Node /\ n(s) \in named[s]
        /\ task[s].db \in Database /\ task[s].db \in knownAt[n(s)]
    BY <1>1, <1>4 DEF TypeOK, RequestKnown, Running, Routing, AtNode, WithPool
  <2> QED
    BY <1>2, <2>1, <2>2, ServeKeeps
<1>5. CASE LostWrite(r, s) /\ stage[s] # "store"
  <2>1. /\ stage[s] \in AtNode
        /\ task' = [task EXCEPT ![s].db = NoPool]
        /\ stage' = [stage EXCEPT ![s] = "lookup"]
    BY <1>5 DEF LostWrite, Writing, AtNode
  <2> QED
    BY <1>3, <2>1
<1>6. CASE MissedLook(r, s)
  <2>1. /\ stage[r] \in AtNode
        /\ task' = [task EXCEPT ![r].db = NoPool]
        /\ stage' = [stage EXCEPT ![r] = "lookup"]
    BY <1>6 DEF MissedLook, AtNode
  <2> QED
    BY <1>3, <2>1
<1> QED
  BY <1>4, <1>5, <1>6

\* A process that starts knows nothing and serves nobody.
LEMMA RestartKeeps == IInv /\ Restart => IInv'
<1> SUFFICES ASSUME IInv, Restart PROVE IInv'
  OBVIOUS
<1>1. Idle \in Task
  BY ConstantsAssumption DEF Idle, Task, Attempt
<1>2. TypeOK
  BY DEF IInv
<1>3. \A r \in Request : ~Running(r)' /\ stage'[r] \notin AtNode \cup WithPool \cup {"served"}
  BY DEF Restart, Running, Routing, AtNode, WithPool
<1>4. TypeOK'
  BY <1>1, <1>2, <1>3 DEF Restart, TypeOK, tables, AtNode, WithPool
<1>5. AddressKnown' /\ CacheKnown'
  BY DEF Restart, AddressKnown, CacheKnown, tables
<1>6. ASSUME NEW r \in Request PROVE RequestKnown(r)'
  BY <1>3 DEF RequestKnown, Served
<1> QED
  BY <1>4, <1>5, <1>6 DEF IInv

\* Whatever is changed outside, the running requests' memory is widened with it.
LEMMA OutsideKeeps == IInv /\ Outside => IInv'
<1> SUFFICES ASSUME IInv, Outside PROVE IInv'
  OBVIOUS
<1>1. TypeOK
  BY DEF IInv
<1>2. /\ Noted
      /\ home' \in [Tenant -> Home \cup {NoHome}]
      /\ address' \in [Node -> Database]
      /\ active' \subseteq Node
      /\ up' \subseteq Database
  BY <1>1 DEF Outside, Reassign, Move, SwitchNode, SwitchDatabase, TypeOK, tables
<1>3. \A t : NamedFor(t)' \subseteq Node
  BY ConstantsAssumption DEF NamedFor, Route
<1>4. /\ UNCHANGED <<nodeCache, stage, task>>
      /\ changes' \in 0..MaxChanges
      /\ \A n \in Node : knownAt'[n] = knownAt[n] \cup {address'[n]}
      /\ knownAt' \in [Node -> SUBSET Database]
      /\ steady' = {}
  BY <1>1, <1>2, ConstantsAssumption DEF Noted, TypeOK
<1>5. /\ \A r \in Request : named[r] \subseteq named'[r]
      /\ \A r \in Request : Running(r) => NamedFor(task[r].tenant)' \subseteq named'[r]
      /\ named' \in [Request -> SUBSET Node]
  BY <1>1, <1>2, <1>3 DEF Noted, TypeOK
<1>6. current' \in [Request -> SUBSET Database]
  <2>1. ASSUME NEW r \in Request PROVE {address'[n] : n \in named'[r]} \subseteq Database
    BY <1>2, <1>5
  <2> QED
    BY <1>1, <1>2, <2>1 DEF Noted, TypeOK
<1>7. TypeOK'
  BY <1>1, <1>2, <1>4, <1>5, <1>6 DEF TypeOK, Running
<1>8. AddressKnown' /\ CacheKnown'
  BY <1>4 DEF IInv, AddressKnown, CacheKnown
<1>9. ASSUME NEW r \in Request PROVE RequestKnown(r)'
  <2>1. RequestKnown(r)
    BY DEF IInv
  <2>2. /\ stage[r] \in AtNode => task[r].node \in Node
        /\ Served(r) => task[r].node \in Node
    BY <1>1, <2>1 DEF TypeOK, AtNode, RequestKnown
  <2>3. stage[r] \in WithPool => stage[r] \in AtNode
    BY DEF WithPool, AtNode
  <2> QED
    BY <1>4, <1>5, <2>1, <2>2, <2>3 DEF RequestKnown, Running, Served
<1> QED
  BY <1>7, <1>8, <1>9 DEF IInv

LEMMA NextIInv == IInv /\ [Next]_vars => IInv'
<1> SUFFICES ASSUME IInv, [Next]_vars PROVE IInv'
  OBVIOUS
<1>1. CASE \E r \in Request, t \in Tenant, g \in Region \cup {NoRegion} : Receive(r, t, g)
  BY <1>1, ReceiveKeeps
<1>2. CASE \E r \in Request : ReceiveUnrouted(r) \/ Return(r)
  BY <1>2, RestingKeeps
<1>3. CASE \E r \in Request : Handle(r)
  BY <1>3, MapKeeps, RouteKeeps, NodeKeeps DEF Handle
<1>4. CASE \E r, s \in Request : LostWrite(r, s) \/ MissedLook(r, s)
  BY <1>4, RaceKeeps
<1>5. CASE Restart
  BY <1>5, RestartKeeps
<1>6. CASE Outside
  BY <1>6, OutsideKeeps
<1>7. CASE UNCHANGED vars
  BY <1>7 DEF vars, world, tables, history, IInv, TypeOK, AddressKnown, CacheKnown,
              RequestKnown, Running, Served, NamedFor
<1> QED
  BY <1>1, <1>2, <1>3, <1>4, <1>5, <1>6, <1>7 DEF Next

LEMMA Invariance == Spec => []IInv
BY InitIInv, NextIInv, PTL DEF Spec

-----------------------------------------------------------------------------
(* Theorems *)

\* The router's variables keep their types; a request that pings, connects or stores
\* has a pool of the node it has chosen.
THEOREM TypeCorrect == Spec => []TypeOK
<1>1. IInv => TypeOK
  BY DEF IInv
<1> QED
  BY <1>1, Invariance, PTL

\* A request is only served by its own tenant's nodes, and by databases they named.
THEOREM TenantsKeptApart == Spec => []KeptApart
<1>1. IInv => KeptApart
  BY DEF IInv, RequestKnown, KeptApart
<1> QED
  BY <1>1, Invariance, PTL

-----------------------------------------------------------------------------
(***************************************************************************)
(* What an undisturbed request is routed to.  RoutedAsConfigured speaks of *)
(* requests that have been served while nothing happened; SteadyRight says *)
(* what such a request has found out at each stage before, and that it     *)
(* never gives up the node that the tables chose for it.                   *)
(***************************************************************************)

RoutesFor(q) == {w \in Routes : w.tenant = q.tenant /\ w.region = q.region}

\* The task's node is the one that the tables choose for its tenant and region.
RightNode(q) ==
    IF RoutesFor(q) # {} /\ q.region # home[q.tenant].region
    THEN \E w \in RoutesFor(q) :
            q.node = w.node /\ \A x \in RoutesFor(q) : x.weight <= w.weight
    ELSE q.node = home[q.tenant].node

SteadyAt(st, q) ==
    /\ st # "idle"
    /\ q.tenant \in Tenant
    /\ \A n \in NamedFor(q.tenant) : Good(n)
    /\ st \in AtNode \cup {"route"} => q.home = home[q.tenant]
    /\ st = "route" =>
          q.region \notin {NoRegion, home[q.tenant].region} /\ q.attempt = "route"
    /\ st \in AtNode => q.node \in NamedFor(q.tenant)
    /\ st \in AtNode \cup {"served"} => RightNode(q)
    /\ st = "connect" => q.db = address[q.node]

SteadyRight == \A r \in steady : SteadyAt(stage[r], task[r])

\* A finite set of routes that is not empty has a heaviest one.
LEMMA HeaviestRoute ==
    ASSUME NEW S \in SUBSET Routes, S # {}
    PROVE  \E x \in S : \A y \in S : y.weight <= x.weight
<1> DEFINE Topped(U) == \E x \in U : \A y \in U : y.weight <= x.weight
           Bad == {U \in FiniteSubsetsOf(Routes) : U # {} /\ ~Topped(U)}
<1>1. IsFiniteSet(Routes) /\ \A w \in Routes : w.weight \in Nat
  BY ConstantsAssumption DEF Route
<1>2. ASSUME Bad # {} PROVE FALSE
  <2>1. PICK U \in Bad : \A V \in Bad : <<V, U>> \notin StrictSubsetOrdering(Routes)
    BY <1>2, FS_StrictSubsetOrderingWellFounded, WFMin
  <2>2. PICK x \in U : TRUE
    OBVIOUS
  <2> DEFINE V == U \ {x}
  <2>3. /\ U \subseteq Routes /\ V \subseteq Routes
        /\ V \in FiniteSubsetsOf(Routes)
        /\ <<V, U>> \in StrictSubsetOrdering(Routes)
    BY <1>1, FS_Subset DEF FiniteSubsetsOf, StrictSubsetOrdering
  <2>4. V = {} \/ Topped(V)
    BY <2>1, <2>3
  <2>5. CASE V = {}
    <3>1. U = {x} /\ x.weight \in Nat
      BY <1>1, <2>3, <2>5
    <3>2. Topped(U)
      BY <3>1
    <3> QED
      BY <3>2
  <2>6. CASE Topped(V)
    <3>1. PICK m \in V : \A y \in V : y.weight <= m.weight
      BY <2>6
    <3>2. /\ x.weight \in Nat /\ m.weight \in Nat
          /\ \A y \in V : y.weight \in Nat
      BY <1>1, <2>3
    <3>3. CASE x.weight <= m.weight
      <4>1. \A y \in U : y.weight <= m.weight
        BY <3>1, <3>3
      <4> QED
        BY <4>1
    <3>4. CASE ~(x.weight <= m.weight)
      <4>1. \A y \in U : y.weight <= x.weight
        BY <3>1, <3>2, <3>4
      <4> QED
        BY <4>1
    <3> QED
      BY <3>3, <3>4
  <2> QED
    BY <2>4, <2>5, <2>6
<1>3. S \in FiniteSubsetsOf(Routes)
  BY <1>1, FS_Subset DEF FiniteSubsetsOf
<1> QED
  BY <1>2, <1>3

\* Where the tables choose a node: a heaviest route, or the primary node.
LEMMA RightByRoute ==
    ASSUME TypeOK, NEW q \in Task, q.tenant \in Tenant,
           q.region \notin {NoRegion, home[q.tenant].region},
           q.node \in Heaviest(q.tenant, q.region)
    PROVE  RightNode(q)
<1>1. RoutesFor(q) # {} /\ \E w \in RoutesFor(q) :
          q.node = w.node /\ \A x \in RoutesFor(q) : x.weight <= w.weight
  BY DEF Heaviest, RoutesFor
<1> QED
  BY <1>1 DEF RightNode

LEMMA RightByHome ==
    ASSUME TypeOK, NEW q \in Task, q.tenant \in Tenant, q.node = home[q.tenant].node,
           \/ q.region \in {NoRegion, home[q.tenant].region}
           \/ Heaviest(q.tenant, q.region) = {}
    PROVE  RightNode(q)
<1>1. CASE q.region = NoRegion
  <2>1. RoutesFor(q) = {}
    BY <1>1, ConstantsAssumption DEF RoutesFor, Route
  <2> QED
    BY <2>1 DEF RightNode
<1>2. CASE q.region = home[q.tenant].region
  BY <1>2 DEF RightNode
<1>3. CASE Heaviest(q.tenant, q.region) = {}
  <2>1. RoutesFor(q) = {}
    <3>1. SUFFICES ASSUME RoutesFor(q) # {} PROVE FALSE
      OBVIOUS
    <3>2. PICK w \in RoutesFor(q) : \A x \in RoutesFor(q) : x.weight <= w.weight
      BY <3>1, HeaviestRoute DEF RoutesFor
    <3> QED
      BY <1>3, <3>2 DEF Heaviest, RoutesFor
  <2> QED
    BY <2>1 DEF RightNode
<1> QED
  BY <1>1, <1>2, <1>3

\* Changing one request's stage and task keeps SteadyRight if it does for that request.
LEMMA SteadyOne ==
    ASSUME TypeOK, SteadyRight, NEW r \in Request, NEW st, NEW tk,
           stage' = [stage EXCEPT ![r] = st], task' = [task EXCEPT ![r] = tk],
           UNCHANGED <<home, address, active, up>>, steady' \subseteq steady,
           r \in steady' => SteadyAt(st, tk)
    PROVE  SteadyRight'
<1>1. /\ stage'[r] = st /\ task'[r] = tk
      /\ \A s \in Request \ {r} : stage'[s] = stage[s] /\ task'[s] = task[s]
      /\ steady' \subseteq Request
  BY DEF TypeOK
<1>2. \A s \in Request : SteadyAt(stage'[s], task'[s]) => SteadyAt(stage[s], task[s])'
  BY DEF SteadyAt, NamedFor, Good, RightNode, RoutesFor
<1>3. ASSUME NEW s \in steady' PROVE SteadyAt(stage[s], task[s])'
  BY <1>1, <1>2, <1>3 DEF SteadyRight
<1> QED
  BY <1>3 DEF SteadyRight

\* Serving the right node keeps SteadyRight.
LEMMA SteadyServed ==
    ASSUME IInv, SteadyRight, NEW r \in Request, Running(r), NEW n \in Node \cup {NoNode},
           NEW db \in Database \cup {DefaultDB}, ServeFrom(r, n, db),
           UNCHANGED <<home, address, active, up>>, steady' \subseteq steady,
           r \in steady' =>
              \/ n = task[r].node /\ RightNode(task[r])
              \/ /\ n = home[task[r].tenant].node
                 /\ \/ task[r].region \in {NoRegion, home[task[r].tenant].region}
                    \/ Heaviest(task[r].tenant, task[r].region) = {}
    PROVE  SteadyRight'
<1> DEFINE tk == [task[r] EXCEPT !.node = n, !.db = db, !.home = NoHome,
                                 !.attempt = "primary"]
<1>1. TypeOK /\ task[r] \in Task /\ task[r].tenant \in Tenant
  BY RunningFacts DEF IInv
<1>2. /\ tk \in Task /\ tk.tenant = task[r].tenant /\ tk.region = task[r].region
      /\ tk.node = n
  BY <1>1 DEF Task, Attempt
<1>3. task' = [task EXCEPT ![r] = tk] /\ stage' = [stage EXCEPT ![r] = "served"]
  BY DEF ServeFrom
<1> HIDE DEF tk
<1>4. ASSUME r \in steady' PROVE SteadyAt("served", tk)
  <2>1. \A m \in NamedFor(tk.tenant) : Good(m)
    BY <1>2, <1>4 DEF SteadyRight, SteadyAt
  <2>2. CASE n = task[r].node /\ RightNode(task[r])
    <3>1. RightNode(tk)
      BY <1>2, <2>2 DEF RightNode, RoutesFor
    <3> QED
      BY <1>1, <1>2, <2>1, <3>1 DEF SteadyAt, AtNode
  <2>3. CASE /\ n = home[task[r].tenant].node
             /\ \/ task[r].region \in {NoRegion, home[task[r].tenant].region}
                \/ Heaviest(task[r].tenant, task[r].region) = {}
    <3>1. RightNode(tk)
      BY <1>1, <1>2, <2>3, RightByHome
    <3> QED
      BY <1>1, <1>2, <2>1, <3>1 DEF SteadyAt, AtNode
  <2> QED
    BY <1>4, <2>2, <2>3
<1> QED
  BY <1>1, <1>3, <1>4, SteadyOne

LEMMA SteadyMap ==
    ASSUME IInv, SteadyRight, NEW r \in Request, MapQuery(r) \/ MapQueryFails(r)
    PROVE  SteadyRight'
<1>1. PICK h \in Home \cup {NoHome} :
        /\ AfterMap(r, h)
        /\ r \in steady' => h = home[task[r].tenant]
  BY RunningFacts DEF MapQuery, MapQueryFails, Running, Routing, IInv, TypeOK
<1>2. /\ TypeOK /\ Running(r) /\ stage[r] = "map"
      /\ UNCHANGED <<home, address, active, up>> /\ steady' \subseteq steady
  BY DEF MapQuery, MapQueryFails, world, tables, history, Running, Routing, IInv
<1>3. /\ task[r] \in Task /\ task[r].tenant \in Tenant
      /\ r \in steady' => \A n \in NamedFor(task[r].tenant) : Good(n)
  BY <1>2, RunningFacts DEF SteadyRight, SteadyAt
<1>4. CASE h.node # NoNode /\ task[r].region \in {NoRegion, h.region}
  <2> DEFINE tk == [task[r] EXCEPT !.home = h, !.attempt = "primary", !.node = h.node]
  <2>1. /\ task' = [task EXCEPT ![r] = tk]
        /\ stage' = [stage EXCEPT ![r] = "look"]
    BY <1>1, <1>4 DEF AfterMap
  <2>2. h.node \in Node
    BY <1>4, HomeRow
  <2>3. /\ tk \in Task /\ tk.tenant = task[r].tenant /\ tk.region = task[r].region
        /\ tk.home = h /\ tk.node = h.node
    BY <1>1, <1>3, <2>2 DEF Task, Attempt
  <2> HIDE DEF tk
  <2>4. ASSUME r \in steady' PROVE SteadyAt("look", tk)
    <3>1. h = home[tk.tenant]
      BY <1>1, <2>3, <2>4
    <3>2. tk.node \in NamedFor(tk.tenant)
      BY <2>2, <2>3, <3>1 DEF NamedFor
    <3>3. RightNode(tk)
      BY <1>2, <1>3, <1>4, <2>3, <3>1, RightByHome
    <3> QED
      BY <1>3, <2>3, <2>4, <3>1, <3>2, <3>3 DEF SteadyAt, AtNode
  <2> QED
    BY <1>2, <2>1, <2>4, SteadyOne
<1>5. CASE /\ ~(h.node # NoNode /\ task[r].region \in {NoRegion, h.region})
           /\ task[r].region # NoRegion
  <2> DEFINE tk == [task[r] EXCEPT !.home = h, !.attempt = "route"]
  <2>1. /\ task' = [task EXCEPT ![r] = tk]
        /\ stage' = [stage EXCEPT ![r] = "route"]
    BY <1>1, <1>5 DEF AfterMap
  <2>2. /\ tk \in Task /\ tk.tenant = task[r].tenant /\ tk.region = task[r].region
        /\ tk.home = h /\ tk.attempt = "route"
    BY <1>1, <1>3 DEF Task, Attempt
  <2>3. task[r].region # h.region
    BY <1>5, HomeRow DEF NoHome
  <2> HIDE DEF tk
  <2>4. ASSUME r \in steady' PROVE SteadyAt("route", tk)
    BY <1>1, <1>3, <1>5, <2>2, <2>3, <2>4 DEF SteadyAt, AtNode
  <2> QED
    BY <1>2, <2>1, <2>4, SteadyOne
<1>6. CASE /\ ~(h.node # NoNode /\ task[r].region \in {NoRegion, h.region})
           /\ task[r].region = NoRegion
  <2>1. ServeFrom(r, NoNode, DefaultDB)
    BY <1>1, <1>6 DEF AfterMap, ServeDefault
  <2>2. h.node = NoNode
    BY <1>6
  <2> QED
    BY <1>1, <1>2, <1>3, <1>6, <2>1, <2>2, SteadyServed
<1> QED
  BY <1>4, <1>5, <1>6

\* getNodeDB is called for the right node of the request.
LEMMA SteadyTry ==
    ASSUME IInv, SteadyRight, NEW r \in Request, stage[r] = "route",
           NEW a \in Attempt, NEW n \in Node, Try(r, a, n),
           UNCHANGED <<home, address, active, up>>, steady' \subseteq steady,
           r \in steady' =>
              \/ n \in Heaviest(task[r].tenant, task[r].region)
              \/ /\ n = home[task[r].tenant].node
                 /\ Heaviest(task[r].tenant, task[r].region) = {}
    PROVE  SteadyRight'
<1> DEFINE tk == [task[r] EXCEPT !.attempt = a, !.node = n]
<1>1. TypeOK /\ task[r] \in Task /\ task[r].tenant \in Tenant
  BY RunningFacts DEF IInv, Running, Routing
<1>2. /\ tk \in Task /\ tk.tenant = task[r].tenant /\ tk.region = task[r].region
      /\ tk.home = task[r].home /\ tk.node = n
  BY <1>1 DEF Task
<1>3. task' = [task EXCEPT ![r] = tk] /\ stage' = [stage EXCEPT ![r] = "look"]
  BY DEF Try
<1> HIDE DEF tk
<1>4. ASSUME r \in steady' PROVE SteadyAt("look", tk)
  <2>1. SteadyAt("route", task[r])
    BY <1>4 DEF SteadyRight
  <2>2. CASE n \in Heaviest(task[r].tenant, task[r].region)
    <3>1. RightNode(tk)
      BY <1>1, <1>2, <2>1, <2>2, RightByRoute DEF SteadyAt
    <3>2. n \in NamedFor(tk.tenant)
      BY <1>2, <2>2, HeaviestNamed
    <3> QED
      BY <1>2, <2>1, <3>1, <3>2 DEF SteadyAt, AtNode
  <2>3. CASE /\ n = home[task[r].tenant].node
             /\ Heaviest(task[r].tenant, task[r].region) = {}
    <3>1. RightNode(tk)
      BY <1>1, <1>2, <2>3, RightByHome
    <3>2. n \in NamedFor(tk.tenant)
      BY <1>2, <2>3 DEF NamedFor
    <3> QED
      BY <1>2, <2>1, <3>1, <3>2 DEF SteadyAt, AtNode
  <2> QED
    BY <1>4, <2>2, <2>3
<1> QED
  BY <1>1, <1>3, <1>4, SteadyOne

LEMMA SteadyRoute ==
    ASSUME IInv, SteadyRight, NEW r \in Request, RouteQuery(r) \/ RouteQueryFails(r)
    PROVE  SteadyRight'
<1> DEFINE rows == Heaviest(task[r].tenant, task[r].region)
           q == task[r]
<1>1. /\ stage[r] = "route" /\ Running(r) /\ TypeOK
      /\ UNCHANGED <<home, address, active, up>> /\ steady' \subseteq steady
  BY DEF RouteQuery, RouteQueryFails, world, tables, history, Running, Routing, IInv
<1>2. r \in steady' => SteadyAt("route", q)
  BY <1>1 DEF SteadyRight
<1>3. \/ GiveUp(r) /\ (r \in steady' => rows = {})
      \/ \E n \in rows : Try(r, "route", n)
  BY <1>1 DEF RouteQuery, RouteQueryFails, TypeOK
<1>4. CASE \E n \in rows : Try(r, "route", n)
  BY <1>1, <1>4, SteadyTry, HeaviestNamed DEF Attempt
<1>5. CASE GiveUp(r) /\ (r \in steady' => rows = {})
  <2>1. r \in steady' => q.attempt = "route" /\ q.home = home[q.tenant]
    BY <1>2 DEF SteadyAt
  <2>2. q.home \in Home \cup {NoHome}
    BY <1>1, RunningFacts
  <2>3. CASE q.attempt # "fallback" /\ q.home.node # NoNode
    <3>1. Try(r, "fallback", q.home.node)
      BY <1>5, <2>3 DEF GiveUp
    <3>2. q.home.node \in Node
      BY <2>2, <2>3, HomeRow
    <3> QED
      BY <1>1, <1>5, <2>1, <3>1, <3>2, SteadyTry DEF Attempt
  <2>4. CASE ~(q.attempt # "fallback" /\ q.home.node # NoNode)
    <3>1. ServeFrom(r, NoNode, DefaultDB)
      BY <1>5, <2>4 DEF GiveUp, ServeDefault
    <3>2. r \in steady' => home[q.tenant].node = NoNode
      BY <2>1, <2>4
    <3> QED
      BY <1>1, <1>5, <3>1, <3>2, SteadyServed
  <2> QED
    BY <2>3, <2>4
<1> QED
  BY <1>3, <1>4, <1>5

\* A step inside getNodeDB that keeps the node, whatever pool it finds or drops.
LEMMA SteadyMove ==
    ASSUME IInv, SteadyRight, NEW r \in Request, stage[r] \in AtNode,
           NEW st \in AtNode, NEW db \in Database \cup {NoPool},
           stage' = [stage EXCEPT ![r] = st], task' = [task EXCEPT ![r].db = db],
           UNCHANGED <<home, address, active, up>>, steady' \subseteq steady,
           st = "connect" => db = address[task[r].node]
    PROVE  SteadyRight'
<1> DEFINE tk == [task[r] EXCEPT !.db = db]
<1>1. TypeOK /\ task[r] \in Task
  BY DEF IInv, TypeOK
<1>2. /\ tk.tenant = task[r].tenant /\ tk.region = task[r].region
      /\ tk.home = task[r].home /\ tk.node = task[r].node /\ tk.db = db
  BY <1>1 DEF Task
<1>3. task' = [task EXCEPT ![r] = tk]
  OBVIOUS
<1> HIDE DEF tk
<1>4. ASSUME r \in steady' PROVE SteadyAt(st, tk)
  <2>1. SteadyAt(stage[r], task[r])
    BY <1>4 DEF SteadyRight
  <2>2. st \notin {"route", "served"}
    BY DEF AtNode
  <2>3. RightNode(tk)
    BY <1>2, <2>1 DEF SteadyAt, RightNode, RoutesFor
  <2> QED
    BY <1>2, <2>1, <2>2, <2>3 DEF SteadyAt, AtNode
<1> QED
  BY <1>1, <1>3, <1>4, SteadyOne

\* Inside getNodeDB an undisturbed request never gives up its node: if the pool it was
\* given does not answer, the one it connects to itself does.
LEMMA SteadyNode ==
    ASSUME IInv, SteadyRight, NEW r \in Request,
           \/ CacheLook(r) \/ Ping(r) \/ PingFails(r) \/ Evict(r)
           \/ NodeLookup(r) \/ Connect(r) \/ LookupOrConnectFails(r) \/ Store(r)
    PROVE  SteadyRight'
<1> DEFINE n == task[r].node
<1>1. /\ stage[r] \in AtNode /\ Running(r) /\ TypeOK
      /\ UNCHANGED <<home, address, active, up>> /\ steady' \subseteq steady
  BY DEF CacheLook, Ping, PingFails, Evict, NodeLookup, Connect, LookupOrConnectFails,
         Store, AtNode, Running, Routing, world, tables, history, IInv
<1>2. /\ n \in Node /\ task[r] \in Task /\ task[r].db \in Database \cup {NoPool, DefaultDB}
      /\ stage[r] \in WithPool => task[r].db \in Database
      /\ address[n] \in Database /\ nodeCache[n] \in Database \cup {NoPool}
  BY <1>1 DEF TypeOK, AtNode, WithPool, Task
<1>3. r \in steady' =>
        /\ SteadyAt(stage[r], task[r])
        /\ RightNode(task[r])
        /\ n \in active /\ address[n] \in up
        /\ stage[r] = "connect" => task[r].db \in up
  BY <1>1 DEF SteadyRight, SteadyAt, Good
<1>4. CASE CacheLook(r) \/ Evict(r) \/ (NodeLookup(r) /\ n \in active)
  <2>1. PICK st \in {"lookup", "ping", "connect"}, db \in Database \cup {NoPool} :
          /\ stage' = [stage EXCEPT ![r] = st] /\ task' = [task EXCEPT ![r].db = db]
          /\ st = "connect" => db = address[n]
    BY <1>2, <1>4 DEF CacheLook, Evict, NodeLookup
  <2> QED
    BY <1>1, <2>1, SteadyMove DEF AtNode
<1>5. CASE \/ Ping(r) /\ task[r].db \notin up
           \/ PingFails(r)
           \/ Connect(r) /\ task[r].db \in up
  <2>1. PICK st \in {"evict", "store"} :
          stage' = [stage EXCEPT ![r] = st] /\ task' = task /\ stage[r] \in WithPool
    BY <1>5 DEF Ping, PingFails, Connect, WithPool
  <2>2. task' = [task EXCEPT ![r].db = task[r].db] /\ task[r].db \in Database
    BY <1>1, <1>2, <2>1 DEF TypeOK, Task
  <2> QED
    BY <1>1, <2>1, <2>2, SteadyMove DEF AtNode
<1>6. CASE (Ping(r) /\ task[r].db \in up) \/ Store(r)
  <2>1. ServeFrom(r, n, task[r].db) /\ stage[r] \in WithPool
    BY <1>6 DEF Ping, Store, Serve, WithPool
  <2> QED
    BY <1>1, <1>2, <1>3, <2>1, SteadyServed
<1>7. CASE \/ NodeLookup(r) /\ n \notin active
           \/ Connect(r) /\ task[r].db \notin up
           \/ LookupOrConnectFails(r)
  <2>1. GiveUp(r) /\ r \notin steady'
    BY <1>3, <1>7 DEF NodeLookup, Connect, LookupOrConnectFails
  <2>2. PICK st, tk : stage' = [stage EXCEPT ![r] = st] /\ task' = [task EXCEPT ![r] = tk]
    BY <2>1 DEF GiveUp, Try, ServeDefault, ServeFrom
  <2> QED
    BY <1>1, <2>1, <2>2, SteadyOne
<1> QED
  BY <1>4, <1>5, <1>6, <1>7

LEMMA SteadyRace ==
    ASSUME IInv, SteadyRight, NEW r \in Request, NEW s \in Request,
           LostWrite(r, s) \/ MissedLook(r, s)
    PROVE  SteadyRight'
<1>1. /\ TypeOK
      /\ UNCHANGED <<home, address, active, up>> /\ steady' \subseteq steady
  BY DEF LostWrite, MissedLook, world, tables, history, IInv
<1>2. CASE LostWrite(r, s) /\ stage[s] = "store"
  <2>1. ServeFrom(s, task[s].node, task[s].db) /\ Running(s) /\ stage[s] = "store"
    BY <1>2 DEF LostWrite, Serve, Running, Routing
  <2>2. task[s].node \in Node /\ task[s].db \in Database
    BY <1>1, <2>1 DEF TypeOK
  <2>3. s \in steady' => RightNode(task[s])
    BY <1>1, <2>1 DEF SteadyRight, SteadyAt, AtNode
  <2> QED
    BY <1>1, <2>1, <2>2, <2>3, SteadyServed
<1>3. CASE (LostWrite(r, s) /\ stage[s] # "store") \/ MissedLook(r, s)
  <2>1. PICK q \in Request :
          /\ stage[q] \in AtNode
          /\ task' = [task EXCEPT ![q].db = NoPool]
          /\ stage' = [stage EXCEPT ![q] = "lookup"]
    BY <1>3 DEF LostWrite, MissedLook, Writing, AtNode
  <2> QED
    BY <1>1, <2>1, SteadyMove DEF AtNode
<1> QED
  BY <1>2, <1>3

LEMMA SteadyReceive ==
    ASSUME IInv, SteadyRight, NEW r \in Request, NEW t \in Tenant,
           NEW g \in Region \cup {NoRegion}, Receive(r, t, g)
    PROVE  SteadyRight'
<1> DEFINE tk == [Idle EXCEPT !.tenant = t, !.region = g]
<1>1. /\ TypeOK /\ tk.tenant = t
      /\ stage' = [stage EXCEPT ![r] = "map"] /\ task' = [task EXCEPT ![r] = tk]
      /\ UNCHANGED <<home, address, active, up>>
      /\ steady' \subseteq steady \cup {r}
      /\ r \in steady => stage[r] # "idle"
      /\ r \in steady' => r \in steady \/ \A n \in NamedFor(t) : Good(n)
  BY DEF Receive, Idle, world, tables, IInv, SteadyRight, SteadyAt
<1>2. stage[r] = "idle"
  BY DEF Receive
<1> HIDE DEF tk
<1>3. /\ stage'[r] = "map" /\ task'[r] = tk
      /\ \A s \in Request \ {r} : stage'[s] = stage[s] /\ task'[s] = task[s]
      /\ steady \subseteq Request
  BY <1>1 DEF TypeOK
<1>4. \A s \in Request : SteadyAt(stage'[s], task'[s]) => SteadyAt(stage[s], task[s])'
  BY <1>1 DEF SteadyAt, NamedFor, Good, RightNode, RoutesFor
<1>5. r \in steady' => SteadyAt("map", tk)
  BY <1>1, <1>2 DEF SteadyAt, AtNode
<1>6. ASSUME NEW s \in steady' PROVE SteadyAt(stage[s], task[s])'
  BY <1>1, <1>3, <1>4, <1>5 DEF SteadyRight
<1> QED
  BY <1>6 DEF SteadyRight

\* A request at its end, one that is not routed, a restart, a change outside: either
\* the request is not among the undisturbed any more, or none is.
LEMMA SteadyResting ==
    ASSUME IInv, SteadyRight, NEW r \in Request, ReceiveUnrouted(r) \/ Return(r)
    PROVE  SteadyRight'
<1>1. /\ TypeOK /\ r \notin steady'
      /\ UNCHANGED <<home, address, active, up>> /\ steady' \subseteq steady
  BY DEF ReceiveUnrouted, Return, world, tables, history, IInv, SteadyRight, SteadyAt
<1>2. PICK st, tk : stage' = [stage EXCEPT ![r] = st] /\ task' = [task EXCEPT ![r] = tk]
  BY DEF ReceiveUnrouted, Return
<1> QED
  BY <1>1, <1>2, SteadyOne

LEMMA NextSteady == IInv /\ SteadyRight /\ [Next]_vars => SteadyRight'
<1> SUFFICES ASSUME IInv, SteadyRight, [Next]_vars PROVE SteadyRight'
  OBVIOUS
<1>1. CASE \E r \in Request, t \in Tenant, g \in Region \cup {NoRegion} : Receive(r, t, g)
  BY <1>1, SteadyReceive
<1>2. CASE \E r \in Request : ReceiveUnrouted(r) \/ Return(r)
  BY <1>2, SteadyResting
<1>3. CASE \E r \in Request : Handle(r)
  BY <1>3, SteadyMap, SteadyRoute, SteadyNode DEF Handle
<1>4. CASE \E r, s \in Request : LostWrite(r, s) \/ MissedLook(r, s)
  BY <1>4, SteadyRace
<1>5. CASE Restart \/ Outside
  BY <1>5 DEF Restart, Outside, Reassign, Move, SwitchNode, SwitchDatabase, Noted, SteadyRight
<1>6. CASE UNCHANGED vars
  BY <1>6 DEF vars, world, tables, history, SteadyRight, SteadyAt, NamedFor, Good, RightNode,
              RoutesFor
<1> QED
  BY <1>1, <1>2, <1>3, <1>4, <1>5, <1>6 DEF Next

\* A request that nothing happened to is served by the node that the tables choose,
\* whatever pools the cache held and whatever other requests did to them.
THEOREM UndisturbedRoutedAsConfigured == Spec => []RoutedAsConfigured
<1>1. Init => SteadyRight
  BY DEF Init, SteadyRight
<1>2. SteadyRight => RoutedAsConfigured
  BY DEF SteadyRight, SteadyAt, RightNode, RoutesFor, RoutedAsConfigured
<1> QED
  BY <1>1, <1>2, Invariance, NextSteady, PTL DEF Spec

-----------------------------------------------------------------------------
(* Every step of a request leads on *)

AdvancesFor(r) ==
    Running(r) /\ (stage'[r] # stage[r] \/ task'[r] # task[r])
        => StepsLeft(r)' < StepsLeft(r)

\* A step that changes one request's stage and task advances it if it does for that one.
LEMMA AdvanceOne ==
    ASSUME TypeOK, NEW r \in Request, NEW st \in Routing \cup {"served"}, NEW tk,
           stage' = [stage EXCEPT ![r] = st], task' = [task EXCEPT ![r] = tk],
           StepsFrom(st, tk.attempt) < StepsFrom(stage[r], task[r].attempt)
    PROVE  \A q \in Request : AdvancesFor(q)
<1>1. /\ stage'[r] = st /\ task'[r] = tk
      /\ \A q \in Request \ {r} : stage'[q] = stage[q] /\ task'[q] = task[q]
  BY DEF TypeOK
<1> QED
  BY <1>1 DEF AdvancesFor, StepsLeft

\* The values of the measure at each stage.
LEMMA Measures ==
    ASSUME NEW a
    PROVE  /\ StepsFrom("map", a) = 40 /\ StepsFrom("route", a) = 30
           /\ StepsFrom("served", a) = 0
           /\ \A st \in AtNode :
                /\ StepsFrom(st, a) \in 1..16
                /\ a = "fallback" => StepsFrom(st, a) \in 1..6
                /\ a # "fallback" => StepsFrom(st, a) \in 11..16
           /\ StepsFrom("look", a) - 1 = StepsFrom("ping", a)
           /\ StepsFrom("ping", a) - 1 = StepsFrom("evict", a)
           /\ StepsFrom("evict", a) - 1 = StepsFrom("lookup", a)
           /\ StepsFrom("lookup", a) - 1 = StepsFrom("connect", a)
           /\ StepsFrom("connect", a) - 1 = StepsFrom("store", a)
BY DEF StepsFrom, InGetNodeDB, AtNode

LEMMA TryAdvances ==
    ASSUME TypeOK, NEW r \in Request, NEW a \in Attempt, NEW n, Try(r, a, n),
           \/ stage[r] = "route"
           \/ stage[r] \in AtNode /\ task[r].attempt # "fallback" /\ a = "fallback"
    PROVE  \A q \in Request : AdvancesFor(q)
<1> DEFINE tk == [task[r] EXCEPT !.attempt = a, !.node = n]
<1>1. task[r] \in Task
  BY DEF TypeOK
<1>2. tk.attempt = a
  BY <1>1 DEF Task
<1>3. task' = [task EXCEPT ![r] = tk] /\ stage' = [stage EXCEPT ![r] = "look"]
  BY DEF Try
<1> HIDE DEF tk
<1>4. StepsFrom("look", a) < StepsFrom(stage[r], task[r].attempt)
  <2>1. StepsFrom("look", a) \in 1..16 /\ (a = "fallback" => StepsFrom("look", a) \in 1..6)
    BY Measures DEF AtNode
  <2>2. CASE stage[r] = "route"
    BY <2>1, <2>2, Measures
  <2>3. CASE stage[r] \in AtNode /\ task[r].attempt # "fallback" /\ a = "fallback"
    <3>1. StepsFrom(stage[r], task[r].attempt) \in 11..16
      BY <2>3, Measures
    <3> QED
      BY <2>1, <2>3, <3>1
  <2> QED
    BY <2>2, <2>3
<1> QED
  BY <1>2, <1>3, <1>4, AdvanceOne DEF Routing

LEMMA ServeAdvances ==
    ASSUME TypeOK, NEW r \in Request, Running(r), NEW n, NEW db, ServeFrom(r, n, db)
    PROVE  \A q \in Request : AdvancesFor(q)
<1> DEFINE tk == [task[r] EXCEPT !.node = n, !.db = db, !.home = NoHome,
                                 !.attempt = "primary"]
<1>1. task' = [task EXCEPT ![r] = tk] /\ stage' = [stage EXCEPT ![r] = "served"]
  BY DEF ServeFrom
<1> HIDE DEF tk
<1>2. StepsFrom("served", tk.attempt) = 0
  BY Measures
<1>3. StepsFrom(stage[r], task[r].attempt) \in 1..40
  <2>1. stage[r] \in AtNode \cup {"map", "route"}
    BY DEF Running, Routing, AtNode
  <2>2. CASE stage[r] \in AtNode
    <3>1. StepsFrom(stage[r], task[r].attempt) \in 1..16
      BY <2>2, Measures
    <3> QED
      BY <3>1
  <2>3. CASE stage[r] \in {"map", "route"}
    BY <2>3, Measures
  <2> QED
    BY <2>1, <2>2, <2>3
<1>4. StepsFrom("served", tk.attempt) < StepsFrom(stage[r], task[r].attempt)
  BY <1>2, <1>3
<1>5. "served" \in Routing \cup {"served"}
  OBVIOUS
<1> QED
  BY <1>1, <1>4, <1>5, AdvanceOne

LEMMA GiveUpAdvances ==
    ASSUME TypeOK, NEW r \in Request, stage[r] \in AtNode \cup {"route"}, GiveUp(r)
    PROVE  \A q \in Request : AdvancesFor(q)
<1>1. CASE task[r].attempt # "fallback" /\ task[r].home.node # NoNode
  <2>1. Try(r, "fallback", task[r].home.node)
    BY <1>1 DEF GiveUp
  <2> QED
    BY <1>1, <2>1, TryAdvances DEF Attempt
<1>2. CASE ~(task[r].attempt # "fallback" /\ task[r].home.node # NoNode)
  <2>1. ServeFrom(r, NoNode, DefaultDB) /\ Running(r)
    BY <1>2 DEF GiveUp, ServeDefault, Running, Routing, AtNode
  <2> QED
    BY <2>1, ServeAdvances
<1> QED
  BY <1>1, <1>2

\* Moving on inside getNodeDB with the attempt unchanged.
LEMMA MoveAdvances ==
    ASSUME TypeOK, NEW r \in Request, NEW st \in AtNode, NEW db,
           task' = [task EXCEPT ![r].db = db], stage' = [stage EXCEPT ![r] = st],
           StepsFrom(st, task[r].attempt) < StepsFrom(stage[r], task[r].attempt)
    PROVE  \A q \in Request : AdvancesFor(q)
<1> DEFINE tk == [task[r] EXCEPT !.db = db]
<1>1. task[r] \in Task
  BY DEF TypeOK
<1>2. tk.attempt = task[r].attempt
  BY <1>1 DEF Task
<1>3. task' = [task EXCEPT ![r] = tk]
  OBVIOUS
<1>4. st \in Routing \cup {"served"}
  BY DEF Routing, AtNode
<1> HIDE DEF tk
<1> QED
  BY <1>2, <1>3, <1>4, AdvanceOne

\* Each stage of getNodeDB lies after the one before, whatever the attempt.
LEMMA StageOrder ==
    ASSUME NEW a
    PROVE  /\ StepsFrom("ping", a) < StepsFrom("look", a)
           /\ StepsFrom("lookup", a) < StepsFrom("look", a)
           /\ StepsFrom("evict", a) < StepsFrom("ping", a)
           /\ StepsFrom("lookup", a) < StepsFrom("evict", a)
           /\ StepsFrom("connect", a) < StepsFrom("lookup", a)
           /\ StepsFrom("store", a) < StepsFrom("connect", a)
BY DEF StepsFrom, InGetNodeDB

LEMMA HandleAdvances ==
    ASSUME TypeOK, NEW r \in Request, Handle(r)
    PROVE  \A q \in Request : AdvancesFor(q)
<1>1. CASE MapQuery(r) \/ MapQueryFails(r)
  <2>1. PICK h : AfterMap(r, h) /\ stage[r] = "map"
    BY <1>1 DEF MapQuery, MapQueryFails
  <2>2. \A st \in {"look", "route"} : \A a :
           StepsFrom(st, a) < StepsFrom(stage[r], task[r].attempt)
    BY <2>1 DEF StepsFrom, InGetNodeDB
  <2>3. CASE h.node # NoNode /\ task[r].region \in {NoRegion, h.region}
    <3> DEFINE tk == [task[r] EXCEPT !.home = h, !.attempt = "primary", !.node = h.node]
    <3>1. task' = [task EXCEPT ![r] = tk] /\ stage' = [stage EXCEPT ![r] = "look"]
      BY <2>1, <2>3 DEF AfterMap
    <3> HIDE DEF tk
    <3> QED
      BY <2>2, <3>1, AdvanceOne DEF Routing
  <2>4. CASE /\ ~(h.node # NoNode /\ task[r].region \in {NoRegion, h.region})
             /\ task[r].region # NoRegion
    <3> DEFINE tk == [task[r] EXCEPT !.home = h, !.attempt = "route"]
    <3>1. task' = [task EXCEPT ![r] = tk] /\ stage' = [stage EXCEPT ![r] = "route"]
      BY <2>1, <2>4 DEF AfterMap
    <3> HIDE DEF tk
    <3> QED
      BY <2>2, <3>1, AdvanceOne DEF Routing
  <2>5. CASE /\ ~(h.node # NoNode /\ task[r].region \in {NoRegion, h.region})
             /\ task[r].region = NoRegion
    <3>1. ServeFrom(r, NoNode, DefaultDB) /\ Running(r)
      BY <2>1, <2>5 DEF AfterMap, ServeDefault, Running, Routing
    <3> QED
      BY <3>1, ServeAdvances
  <2> QED
    BY <2>3, <2>4, <2>5
<1>2. CASE RouteQuery(r) \/ RouteQueryFails(r)
  <2>1. stage[r] = "route" /\ (GiveUp(r) \/ \E n : Try(r, "route", n))
    BY <1>2 DEF RouteQuery, RouteQueryFails
  <2> QED
    BY <2>1, GiveUpAdvances, TryAdvances DEF Attempt
<1>3. CASE CacheLook(r)
  <2>1. PICK st \in {"ping", "lookup"} : \E db :
          /\ task' = [task EXCEPT ![r].db = db] /\ stage' = [stage EXCEPT ![r] = st]
          /\ stage[r] = "look"
    BY <1>3 DEF CacheLook
  <2>2. PICK db :
          /\ task' = [task EXCEPT ![r].db = db] /\ stage' = [stage EXCEPT ![r] = st]
          /\ stage[r] = "look"
    BY <2>1
  <2>3. st \in AtNode /\ StepsFrom(st, task[r].attempt) < StepsFrom("look", task[r].attempt)
    BY StageOrder DEF AtNode
  <2> QED
    BY <2>2, <2>3, MoveAdvances
<1>4. CASE (Ping(r) /\ task[r].db \in up) \/ Store(r)
  <2>1. ServeFrom(r, task[r].node, task[r].db) /\ Running(r)
    BY <1>4 DEF Ping, Store, Serve, Running, Routing
  <2> QED
    BY <2>1, ServeAdvances
<1>5. CASE \/ Ping(r) /\ task[r].db \notin up
           \/ PingFails(r)
           \/ Connect(r) /\ task[r].db \in up
  <2>1. PICK st \in {"evict", "store"} :
          /\ task' = task /\ stage' = [stage EXCEPT ![r] = st]
          /\ StepsFrom(st, task[r].attempt) < StepsFrom(stage[r], task[r].attempt)
    BY <1>5, StageOrder DEF Ping, PingFails, Connect
  <2>2. task' = [task EXCEPT ![r] = task[r]] /\ st \in Routing \cup {"served"}
    BY <2>1 DEF TypeOK, Routing
  <2> QED
    BY <2>1, <2>2, AdvanceOne
<1>6. CASE Evict(r) \/ (NodeLookup(r) /\ task[r].node \in active)
  <2>1. PICK st, db :
          /\ st \in {"lookup", "connect"}
          /\ task' = [task EXCEPT ![r].db = db] /\ stage' = [stage EXCEPT ![r] = st]
          /\ StepsFrom(st, task[r].attempt) < StepsFrom(stage[r], task[r].attempt)
    BY <1>6, StageOrder DEF Evict, NodeLookup
  <2> QED
    BY <2>1, MoveAdvances DEF AtNode
<1>7. CASE \/ NodeLookup(r) /\ task[r].node \notin active
           \/ Connect(r) /\ task[r].db \notin up
           \/ LookupOrConnectFails(r)
  <2>1. GiveUp(r) /\ stage[r] \in AtNode
    BY <1>7 DEF NodeLookup, Connect, LookupOrConnectFails, AtNode
  <2> QED
    BY <2>1, GiveUpAdvances
<1> QED
  BY <1>1, <1>2, <1>3, <1>4, <1>5, <1>6, <1>7 DEF Handle

LEMMA RaceAdvances ==
    ASSUME TypeOK, NEW r \in Request, NEW s \in Request, LostWrite(r, s) \/ MissedLook(r, s)
    PROVE  \A q \in Request : AdvancesFor(q)
<1>1. CASE LostWrite(r, s) /\ stage[s] = "store"
  <2>1. ServeFrom(s, task[s].node, task[s].db) /\ Running(s)
    BY <1>1 DEF LostWrite, Serve, Running, Routing
  <2> QED
    BY <2>1, ServeAdvances
<1>2. CASE (LostWrite(r, s) /\ stage[s] # "store") \/ MissedLook(r, s)
  <2>1. PICK q \in Request :
          /\ stage[q] \in {"evict", "look"}
          /\ task' = [task EXCEPT ![q].db = NoPool]
          /\ stage' = [stage EXCEPT ![q] = "lookup"]
    BY <1>2 DEF LostWrite, MissedLook, Writing
  <2>2. StepsFrom("lookup", task[q].attempt) < StepsFrom(stage[q], task[q].attempt)
    BY <2>1, StageOrder
  <2> QED
    BY <2>1, <2>2, MoveAdvances DEF AtNode
<1> QED
  BY <1>1, <1>2

\* No request stays in the middleware for more than 40 steps of its own.
THEOREM EveryStepAdvances == Spec => Advances
<1>1. IInv /\ [Next]_vars => [\A r \in Request : AdvancesFor(r)]_vars
  <2> SUFFICES ASSUME IInv, Next PROVE \A r \in Request : AdvancesFor(r)
    OBVIOUS
  <2>1. TypeOK
    BY DEF IInv
  <2>2. CASE \E r \in Request, t \in Tenant, g \in Region \cup {NoRegion} : Receive(r, t, g)
    BY <2>1, <2>2 DEF Receive, AdvancesFor, Running, Routing, TypeOK
  <2>3. CASE \E r \in Request : ReceiveUnrouted(r) \/ Return(r)
    BY <2>1, <2>3 DEF ReceiveUnrouted, Return, AdvancesFor, Running, Routing, TypeOK
  <2>4. CASE \E r \in Request : Handle(r)
    BY <2>1, <2>4, HandleAdvances
  <2>5. CASE \E r, s \in Request : LostWrite(r, s) \/ MissedLook(r, s)
    BY <2>1, <2>5, RaceAdvances
  <2>6. CASE Restart
    <3>1. ASSUME NEW r \in Request, Running(r) PROVE StepsLeft(r)' < StepsLeft(r)
      <4>1. StepsFrom(stage[r], task[r].attempt) \in 1..40
        BY <3>1, Measures DEF Running, Routing, AtNode
      <4>2. StepsLeft(r)' = 0
        BY <2>6, Measures DEF Restart, StepsLeft, StepsFrom, InGetNodeDB
      <4> QED
        BY <4>1, <4>2 DEF StepsLeft
    <3> QED
      BY <3>1 DEF AdvancesFor
  <2>7. CASE Outside
    BY <2>7 DEF Outside, Reassign, Move, SwitchNode, SwitchDatabase, Noted, AdvancesFor
  <2> QED
    BY <2>2, <2>3, <2>4, <2>5, <2>6, <2>7 DEF Next
<1> QED
  BY <1>1, Invariance, PTL DEF Spec, Advances, AdvancesFor

=============================================================================
