-------------------------- MODULE FederationRouter --------------------------
(***************************************************************************)
(* The federation routing of the onboarding backend                        *)
(* (onboarding/backend/middleware/federation.go): FederationMiddleware     *)
(* resolves the tenant of a request to a federation node, and the node to  *)
(* a connection pool, which nodeCache keeps for later requests.            *)
(*                                                                         *)
(* A request is a goroutine.  nodeCache is a Go map without a lock, read   *)
(* and written by all of them.  The routing tables are filled by the       *)
(* operators of the installation; this program only reads them.            *)
(***************************************************************************)
EXTENDS Naturals, FiniteSets

CONSTANTS
    Node,         \* federation nodes
    Database,     \* databases that a node's database_url may name
    Tenant,
    Region,
    Request,      \* requests that can be in flight at once
    Home,         \* the primary nodes, each with a region, that a tenant may have
    Routes,       \* the is_primary rows of federation_routing
    NoTenant, NoRegion, NoNode,   \* the empty strings of the code
    NoPool,       \* a node that nodeCache lacks
    DefaultDB,    \* the pool the process starts with
    MaxChanges    \* bound: changes of the tables and of what is reachable

VARIABLES
    home,         \* tenant_federation_map: primary node and region of each tenant
    address,      \* federation_nodes.database_url
    active,       \* the nodes whose federation_nodes.status is "active"
    up,           \* the databases that answer
    nodeCache,    \* the pool of each node: the database it is connected to
    stage,        \* where each request is in the middleware
    task,         \* what it has found out so far
    changes,      \* number of changes so far
    knownAt,      \* history: the databases each node has ever named
    named,        \* history: the nodes the tables named for a running request
    current,      \* history: the databases those nodes had while it ran
    steady        \* history: the requests nothing has happened to

tables == <<home, address, active>>
world == <<tables, up, changes, knownAt>>
history == <<named, current, steady>>
vars == <<world, nodeCache, stage, task, history>>

Attempt == {"primary", "route", "fallback"}
Routing == {"map", "route", "look", "ping", "evict", "lookup", "connect", "store"}
NoHome == [node |-> NoNode, region |-> NoRegion]
Route == [tenant : Tenant, region : Region, node : Node, weight : Nat]
Task == [tenant : Tenant \cup {NoTenant}, region : Region \cup {NoRegion}, home : Home \cup {NoHome},
         attempt : Attempt, node : Node \cup {NoNode},
         db : Database \cup {NoPool, DefaultDB}]

ASSUME ConstantsAssumption ==
    /\ Home \subseteq [node : Node, region : Region]
    /\ Routes \subseteq Route
    /\ IsFiniteSet(Routes)
    /\ NoTenant \notin Tenant
    /\ NoRegion \notin Region
    /\ NoNode \notin Node
    /\ NoPool \notin Database
    /\ DefaultDB \notin Database \cup {NoPool}
    /\ MaxChanges \in Nat

-----------------------------------------------------------------------------
\* The nodes that ORDER BY weight DESC LIMIT 1 may return.
Heaviest(t, g) ==
    LET rows == {w \in Routes : w.tenant = t /\ w.region = g}
    IN  {w.node : w \in {x \in rows : \A y \in rows : y.weight <= x.weight}}

\* The nodes that the tables name for a tenant.
NamedFor(t) ==
    {n \in Node : home[t].node = n}
      \cup {w.node : w \in {x \in Routes : x.tenant = t}}

\* A node that getNodeDB can connect to.
Good(n) == n \in active /\ address[n] \in up

Idle == [tenant |-> NoTenant, region |-> NoRegion, home |-> NoHome,
         attempt |-> "primary", node |-> NoNode, db |-> NoPool]

Running(r) == stage[r] \in Routing

-----------------------------------------------------------------------------
Init ==
    /\ home \in [Tenant -> Home \cup {NoHome}]
    /\ address \in [Node -> Database]
    /\ active = Node
    /\ up = Database
    /\ nodeCache = [n \in Node |-> NoPool]
    /\ stage = [r \in Request |-> "idle"]
    /\ task = [r \in Request |-> Idle]
    /\ changes = 0
    /\ knownAt = [n \in Node |-> {address[n]}]
    /\ named = [r \in Request |-> {}]
    /\ current = [r \in Request |-> {}]
    /\ steady = {}

\* FederationMiddleware: t and g are what extractTenantID and extractRegion find in the
\* query or the headers.  A tenant that is only named in the path is not found, since
\* chi fills in the parameters of a path when it has matched the whole route, and this
\* middleware runs before.  A request without tenant gets the default pool.
ReceiveUnrouted(r) ==
    /\ stage[r] = "idle"
    /\ task' = [task EXCEPT ![r].db = DefaultDB]
    /\ stage' = [stage EXCEPT ![r] = "served"]
    /\ UNCHANGED <<world, nodeCache, history>>

Receive(r, t, g) ==
    /\ stage[r] = "idle"
    /\ task' = [task EXCEPT ![r] = [Idle EXCEPT !.tenant = t, !.region = g]]
    /\ stage' = [stage EXCEPT ![r] = "map"]
    /\ named' = [named EXCEPT ![r] = NamedFor(t)]
    /\ current' = [current EXCEPT ![r] = {address[n] : n \in NamedFor(t)}]
    /\ steady' = IF \A n \in NamedFor(t) : Good(n) THEN steady \cup {r} ELSE steady
    /\ UNCHANGED <<world, nodeCache>>

\* getNodeDB is called for node n on the way given by attempt a.
Try(r, a, n) ==
    /\ task' = [task EXCEPT ![r].attempt = a, ![r].node = n]
    /\ stage' = [stage EXCEPT ![r] = "look"]

\* The request goes on to its handler with this database.
ServeFrom(r, n, db) ==
    /\ task' = [task EXCEPT ![r] =
          [@ EXCEPT !.node = n, !.db = db, !.home = NoHome, !.attempt = "primary"]]
    /\ stage' = [stage EXCEPT ![r] = "served"]

Serve(r, db) == ServeFrom(r, task[r].node, db)

ServeDefault(r) == ServeFrom(r, NoNode, DefaultDB)

\* What follows when tenant_federation_map named h, or NoHome: the primary node for its
\* region or none, another region's route, or the default.
\* Mutant: the primary node serves every region.
AfterMapAnyRegion(r, h) ==
    IF h.node # NoNode
    THEN /\ task' = [task EXCEPT ![r].home = h, ![r].attempt = "primary", ![r].node = h.node]
         /\ stage' = [stage EXCEPT ![r] = "look"]
    ELSE IF task[r].region # NoRegion
    THEN /\ task' = [task EXCEPT ![r].home = h, ![r].attempt = "route"]
         /\ stage' = [stage EXCEPT ![r] = "route"]
    ELSE ServeDefault(r)

AfterMap(r, h) ==
    IF h.node # NoNode /\ task[r].region \in {NoRegion, h.region}
    THEN /\ task' = [task EXCEPT ![r].home = h, ![r].attempt = "primary", ![r].node = h.node]
         /\ stage' = [stage EXCEPT ![r] = "look"]
    ELSE IF task[r].region # NoRegion
    THEN /\ task' = [task EXCEPT ![r].home = h, ![r].attempt = "route"]
         /\ stage' = [stage EXCEPT ![r] = "route"]
    ELSE ServeDefault(r)

MapQuery(r) ==
    /\ stage[r] = "map"
    /\ AfterMap(r, home[task[r].tenant])
    /\ UNCHANGED <<world, nodeCache, history>>

MapQueryFails(r) ==
    /\ stage[r] = "map"
    /\ AfterMap(r, NoHome)
    /\ steady' = steady \ {r}
    /\ UNCHANGED <<world, nodeCache, named, current>>

\* A node has failed: the primary node is tried, or tried again, and then the default.
\* Mutant: the primary node is tried until it answers.
GiveUpRetrying(r) ==
    IF task[r].home.node # NoNode
    THEN Try(r, "fallback", task[r].home.node)
    ELSE ServeDefault(r)

GiveUp(r) ==
    IF task[r].attempt # "fallback" /\ task[r].home.node # NoNode
    THEN Try(r, "fallback", task[r].home.node)
    ELSE ServeDefault(r)

RouteQuery(r) ==
    /\ stage[r] = "route"
    /\ LET rows == Heaviest(task[r].tenant, task[r].region)
       IN  IF rows = {} THEN GiveUp(r) ELSE \E n \in rows : Try(r, "route", n)
    /\ UNCHANGED <<world, nodeCache, history>>

RouteQueryFails(r) ==
    /\ stage[r] = "route"
    /\ GiveUp(r)
    /\ steady' = steady \ {r}
    /\ UNCHANGED <<world, nodeCache, named, current>>

\* getNodeDB: the read of nodeCache.
CacheLook(r) ==
    /\ stage[r] = "look"
    /\ LET db == nodeCache[task[r].node]
       IN  /\ task' = [task EXCEPT ![r].db = db]
           /\ stage' = [stage EXCEPT ![r] = IF db = NoPool THEN "lookup" ELSE "ping"]
    /\ UNCHANGED <<world, nodeCache, history>>

Ping(r) ==
    /\ stage[r] = "ping"
    /\ IF task[r].db \in up
       THEN Serve(r, task[r].db)
       ELSE /\ stage' = [stage EXCEPT ![r] = "evict"]
            /\ task' = task
    /\ UNCHANGED <<world, nodeCache, history>>

\* The ping fails because the client is gone and the request's context cancelled, or
\* because the database answers too late.
PingFails(r) ==
    /\ stage[r] = "ping"
    /\ stage' = [stage EXCEPT ![r] = "evict"]
    /\ steady' = steady \ {r}
    /\ UNCHANGED <<world, nodeCache, task, named, current>>

\* The delete is by node: it removes whatever pool the cache has for it by now.
Evict(r) ==
    /\ stage[r] = "evict"
    /\ nodeCache' = [nodeCache EXCEPT ![task[r].node] = NoPool]
    /\ task' = [task EXCEPT ![r].db = NoPool]
    /\ stage' = [stage EXCEPT ![r] = "lookup"]
    /\ UNCHANGED <<world, history>>

\* federation_nodes: the node's status and database.
NodeLookup(r) ==
    /\ stage[r] = "lookup"
    /\ IF task[r].node \in active
       THEN /\ task' = [task EXCEPT ![r].db = address[task[r].node]]
            /\ stage' = [stage EXCEPT ![r] = "connect"]
       ELSE GiveUp(r)
    /\ UNCHANGED <<world, nodeCache, history>>

\* The pool is made and pinged; one that does not answer is closed again.
Connect(r) ==
    /\ stage[r] = "connect"
    /\ IF task[r].db \in up
       THEN /\ stage' = [stage EXCEPT ![r] = "store"]
            /\ task' = task
       ELSE GiveUp(r)
    /\ UNCHANGED <<world, nodeCache, history>>

\* The lookup or the connection fails for another reason.
LookupOrConnectFails(r) ==
    /\ stage[r] \in {"lookup", "connect"}
    /\ GiveUp(r)
    /\ steady' = steady \ {r}
    /\ UNCHANGED <<world, nodeCache, named, current>>

\* Mutant: the pool is kept under the node that the tenant's row names.
StoreUnderHome(r) ==
    /\ stage[r] = "store"
    /\ nodeCache' = [n \in Node |->
          IF n = task[r].home.node THEN task[r].db ELSE nodeCache[n]]
    /\ Serve(r, task[r].db)
    /\ UNCHANGED <<world, history>>

Store(r) ==
    /\ stage[r] = "store"
    /\ nodeCache' = [nodeCache EXCEPT ![task[r].node] = task[r].db]
    /\ Serve(r, task[r].db)
    /\ UNCHANGED <<world, history>>

\* The handler has used the database and the request ends.
Return(r) ==
    /\ stage[r] = "served"
    /\ stage' = [stage EXCEPT ![r] = "idle"]
    /\ task' = [task EXCEPT ![r] = Idle]
    /\ named' = [named EXCEPT ![r] = {}]
    /\ current' = [current EXCEPT ![r] = {}]
    /\ steady' = steady \ {r}
    /\ UNCHANGED <<world, nodeCache>>

-----------------------------------------------------------------------------
(***************************************************************************)
(* nodeCache without a lock.  While one goroutine writes it (evict, store) *)
(* another one's access is a data race: the Go runtime ends the process if *)
(* it notices, and otherwise a write is lost or a lookup finds nothing.    *)
(***************************************************************************)
Writing(r) == stage[r] \in {"evict", "store"}
Accessing(r) == Writing(r) \/ stage[r] = "look"

LostWrite(r, s) ==
    /\ r # s /\ Accessing(r) /\ Writing(s)
    /\ IF stage[s] = "store"
       THEN Serve(s, task[s].db)
       ELSE /\ task' = [task EXCEPT ![s].db = NoPool]
            /\ stage' = [stage EXCEPT ![s] = "lookup"]
    /\ UNCHANGED <<world, nodeCache, history>>

MissedLook(r, s) ==
    /\ r # s /\ stage[r] = "look" /\ Writing(s)
    /\ task' = [task EXCEPT ![r].db = NoPool]
    /\ stage' = [stage EXCEPT ![r] = "lookup"]
    /\ UNCHANGED <<world, nodeCache, history>>

\* The process ends, by that or otherwise: its requests and its pools are gone.
Restart ==
    /\ nodeCache' = [n \in Node |-> NoPool]
    /\ stage' = [r \in Request |-> "idle"]
    /\ task' = [r \in Request |-> Idle]
    /\ knownAt' = [n \in Node |-> {address[n]}]
    /\ named' = [r \in Request |-> {}]
    /\ current' = [r \in Request |-> {}]
    /\ steady' = {}
    /\ UNCHANGED <<tables, up, changes>>

-----------------------------------------------------------------------------
(* What happens outside of the program. *)

\* A running request may see the tables before or after the change.
Noted ==
    /\ changes < MaxChanges
    /\ UNCHANGED <<nodeCache, stage, task>>
    /\ changes' = changes + 1
    /\ knownAt' = [n \in Node |-> knownAt[n] \cup {address'[n]}]
    /\ named' = [r \in Request |->
          IF Running(r) THEN named[r] \cup NamedFor(task[r].tenant)' ELSE named[r]]
    /\ current' = [r \in Request |->
          IF Running(r) THEN current[r] \cup {address'[n] : n \in named'[r]}
          ELSE current[r]]
    /\ steady' = {}

\* A tenant is mapped to another node.
Reassign(t, h) ==
    /\ home' = [home EXCEPT ![t] = h]
    /\ UNCHANGED <<address, active, up>>
    /\ Noted

\* A node moves to another database.
Move(n, d) ==
    /\ address' = [address EXCEPT ![n] = d]
    /\ UNCHANGED <<home, active, up>>
    /\ Noted

SwitchNode(n) ==
    /\ active' = IF n \in active THEN active \ {n} ELSE active \cup {n}
    /\ UNCHANGED <<home, address, up>>
    /\ Noted

SwitchDatabase(d) ==
    /\ up' = IF d \in up THEN up \ {d} ELSE up \cup {d}
    /\ UNCHANGED tables
    /\ Noted

-----------------------------------------------------------------------------
Handle(r) ==
    \/ MapQuery(r) \/ MapQueryFails(r)
    \/ RouteQuery(r) \/ RouteQueryFails(r)
    \/ CacheLook(r)
    \/ Ping(r) \/ PingFails(r) \/ Evict(r)
    \/ NodeLookup(r) \/ Connect(r) \/ LookupOrConnectFails(r)
    \/ Store(r)

Outside ==
    \/ \E t \in Tenant, h \in Home \cup {NoHome} : Reassign(t, h)
    \/ \E n \in Node, d \in Database : Move(n, d)
    \/ \E n \in Node : SwitchNode(n)
    \/ \E d \in Database : SwitchDatabase(d)

Next ==
    \/ \E r \in Request, t \in Tenant, g \in Region \cup {NoRegion} : Receive(r, t, g)
    \/ \E r \in Request : ReceiveUnrouted(r) \/ Handle(r) \/ Return(r)
    \/ \E r, s \in Request : LostWrite(r, s) \/ MissedLook(r, s)
    \/ Restart
    \/ Outside

Spec == Init /\ [][Next]_vars

-----------------------------------------------------------------------------
(* Properties *)

\* Type invariant: a request that pings or stores has a pool, and one that asks for a
\* node has chosen it.
TypeOK ==
    /\ home \in [Tenant -> Home \cup {NoHome}]
    /\ address \in [Node -> Database]
    /\ active \subseteq Node
    /\ up \subseteq Database
    /\ nodeCache \in [Node -> Database \cup {NoPool}]
    /\ stage \in [Request -> Routing \cup {"idle", "served"}]
    /\ task \in [Request -> Task]
    /\ changes \in 0..MaxChanges
    /\ knownAt \in [Node -> SUBSET Database]
    /\ named \in [Request -> SUBSET Node]
    /\ current \in [Request -> SUBSET Database]
    /\ steady \subseteq Request
    /\ \A r \in Request : Running(r) => task[r].tenant \in Tenant
    /\ \A r \in Request :
          stage[r] \in {"look", "ping", "evict", "lookup", "connect", "store"} =>
              task[r].node \in Node
    /\ \A r \in Request :
          stage[r] \in {"ping", "connect", "store"} => task[r].db \in Database

Served(r) == stage[r] = "served" /\ task[r].db # DefaultDB

\* "No cross-tenant data access": whatever the requests, the cache and the tables do
\* meanwhile, a request is served by a database that a node named for its own tenant
\* has named while this process ran.
KeptApart ==
    \A r \in Request : Served(r) =>
        /\ task[r].node \in named[r]
        /\ task[r].db \in knownAt[task[r].node]

\* A request that ran while the tables stood still and every node of its tenant could
\* be reached is routed as the tables say: the primary node for its region or none,
\* a heaviest route for another region, else the primary node, else the default.
RoutedAsConfigured ==
    \A r \in Request : stage[r] = "served" /\ r \in steady =>
        LET q == task[r]
            h == home[q.tenant]
            routed == {w \in Routes : w.tenant = q.tenant /\ w.region = q.region}
        IN  IF routed # {} /\ q.region # h.region
            THEN \E w \in routed :
                    q.node = w.node /\ \A x \in routed : x.weight <= w.weight
            ELSE q.node = h.node

\* How much is left to do in stage st: another call of getNodeDB at most once.
InGetNodeDB ==
    [look |-> 6, ping |-> 5, evict |-> 4, lookup |-> 3, connect |-> 2, store |-> 1]

StepsFrom(st, attempt) ==
    IF st = "map" THEN 40
    ELSE IF st = "route" THEN 30
    ELSE IF st \in DOMAIN InGetNodeDB
    THEN InGetNodeDB[st] + (IF attempt = "fallback" THEN 0 ELSE 10)
    ELSE 0

StepsLeft(r) == StepsFrom(stage[r], task[r].attempt)

\* Every step of a request in the middleware brings it closer to its handler, whatever
\* fails: no node is tried for ever, and no other request can send this one back.
Advances ==
    [][\A r \in Request :
          Running(r) /\ (stage'[r] # stage[r] \/ task'[r] # task[r])
            => StepsLeft(r)' < StepsLeft(r)]_vars

\* "Each tenant routes to its configured database": one that a node of the tenant was
\* configured with at some time during the request.
ConfiguredDatabase ==
    \A r \in Request : Served(r) => task[r].db \in current[r]

=============================================================================
