# SAGE onboarding and federation: a TLA+ verification project

The repository is a monorepo: Kubernetes manifests, two front ends, a few Python
services, and the programs with state machines of their own.  The Go backend in
`onboarding/backend` has concurrent handlers over in-memory tables and a database,
time limits, and a process that may restart.  The arc bridge and the JS backend are
single Node processes whose stores must agree with each other.  The two front ends
(Next.js in `onboarding/frontend`, React in `ui`) have effects, timers, sockets and
overlapping requests.  This project models all four.  Paths below are relative to
`src/`.

## 1. Inventory

| Part | State | Operations | What is hard |
|---|---|---|---|
| Federation handshake (`onboarding/backend/federation_auth.go`) | `pendingChallenges` by node, under `challengeMutex` | handshake, assert, clean-up, node join | assert takes the lock twice and decides in between; 30 s limit; clean-up ticker |
| Federation sessions (`middleware/federation_session.go`, `agent_federation.go`) | `activeFederationSessions`, under `sessionMutex` | register, validate, revoke; two middlewares | a cache of verified tokens; restart; age |
| Token key (`federation/crypto.go`) | one Ed25519 key per process | sign, verify | lost at restart, with every session |
| Federation bus (`handlers.go` `handleFederationBus`, `federation/router.go`) | none | routes a message | two locks one after the other |
| Event stream, node registry (`federation/event_stream.go`, `node_registry.go`) | last 200 events; last heartbeat by node | append, tail; update, list | order, limit, 45 s threshold |
| Tenant creation (`handlers.go` `handleCreateTenant`) | tables `tenants`, `tenant_agents`, `tenant_policies`, `audit_log` | one transaction, then the audit entry | failed statements inside a transaction |
| Kit request (`handlers.go` `handleBootstrapKit`, `bootstrap/kit.go`) | table `bootstrap_kits` | find or create the tenant, generate, store, deliver | many statements, no transaction; lookups race |
| Kit activation (`handleBootstrapVerify`, `handleBootstrapScan`) | `activated_at`, `expires_at` | look up, check, activate, answer | check-then-update across statements |
| Audit and activity (`audit.go`, `activity.go`) | two log tables | entries by goroutines of their own | they run under the request's context |
| Operator ceremonies (`webauthn_handlers.go`, `handlers/register.go`) | table `operator_keys`, one session slot | begin and finish registration and login, token | ceremonies overwrite each other's session |
| Federated databases (`middleware/federation.go`) | `nodeCache` of pools | resolve the tenant's node, open and reuse pools | map without a lock; stale pools |
| Tab routing (`onboarding/frontend/app/layout.tsx`, `components/YubiKeyAuth.tsx`, `app/register`, `app/login`) | status applied last, path, ceremony under way | status requests, redirects, two ceremonies | answers in any order, redirects that come late, ceremonies that outlive their page |
| Wizard (`onboarding/frontend/app/onboarding`, `store`, `lib`) | `onboarding-storage`, `lastTenantId`, the review page | five steps, create tenant and kit, countdown | retries, reloads, lost answers; two clocks |
| Polled views (`onboarding/frontend/lib/use*.ts`, panels of `ui/src`) | data shown, interval, requests under way | poll, answer, unmount | overlapping requests, effects that run again, closures over old data |
| Terminals (`ui/src/components/OperatorTerminal.tsx`, `onboarding/frontend/components/PersonalCommandLog.tsx`, event feed) | log on the screen and in `localStorage` | command, reply, clear, reload | replies late or character by character |
| Arc bridge bus (`arc-bridge-local/src/routes/federation.ts`, `federation/*`) | stream, registry, commands, subscriptions, intents, actions | bus, act, actions; divergence, reasons, topology, previews on demand | one fact in many stores with limits of their own |
| Arc bridge operator (`arc-bridge-local/src/routes/operator*`, `federation/operator-session.ts`) | identity slot, one challenge, verified flag | register, store a credential, challenge, assertion, verify | one challenge for everybody; a flag that outlives its operator |
| JS backend (`backend/federation`, `backend/api/operator.js`) | mode, approvals, operator, challenge, ledger | gate, preview, simulate, validate, plan | decisions made several times over |
| Telemetry hooks (`ui/src/features/federation/use*.ts`) | socket, interval of made-up data | connect, time out, close, clean up | four callbacks start or stop one interval |
| Agent genesis (`ui/src/features/agents`, `ui/src/sage/federation`) | form, registry, bus, orchestrator | forge, poll, hear, echo | two drivers of one genesis |
| Console frame (`ui/src/components/BridgeFrame.tsx`, `FederationLogs.tsx`, `NodeEventTimeline.tsx`) | selection; lists that follow | entry, frame, scroll event | the browser orders frames and events |
| Python arcs and services (`arcs`, `services`, `common`) | little | HTTP and signing | multi-signature counting |
| Manifests, scripts (`apps`, `clusters`, `scripts`, `pi`, `cli`) | none | deployment | not a state machine |

How they interact: a tenant is created, a kit generated for it, and the kit's
fingerprint verified (or scanned).  A node that holds the kit uses its fingerprint
as the HMAC secret of the handshake and gets a token.  The token, checked by the
middlewares, admits its messages to the bus, which feeds the event stream and the
registry that the console polls.  The front end's layout asks for the operator's
status, its wizard calls tenant creation and kit generation, and the ceremonies'
`Finish` calls the arc bridge, whose slot the console's lamp shows.

What makes the parts correct:

* handshake: a token only for a proof of a live challenge of the same process; a
  challenge granted once; expired challenges go away;
* bus: the stream is the ordered tail of what was recorded; the registry agrees with
  it and with the answers that were given;
* kits: "valid" means activated, unexpired when checked, and of the right tenant; the
  logs never claim what did not happen;
* tenants: what was answered as created is whole; a kit is for the tenant and the
  agents that were asked for;
* databases: a request is served by a database of its own tenant's nodes, and by the
  configured one; every request gets out of the middleware;
* ceremonies: only the last challenge counts, answered by a key the operator has; what
  nothing disturbs succeeds; the bridge is told of verified operators only;
* arc bridge: what the separate reports say of one intent agrees; registry and stream
  are of the same messages; the verified flag goes back to an identity with a credential;
* gate: preview and simulation decide alike, a challenge is used once, and chain, risk
  and forecast of one action fit each other;
* tab and wizard: nobody without a key sees what is behind the ceremonies, no spinner
  turns for ever, no tenant is made twice without a reason, no live kit is called expired;
* views: no effect makes data up next to its own connection, what changed is eventually
  shown, a reply follows its command, a reader who has scrolled away is left alone.

## 2. Plan

Done, the most important behaviour first:

1. `FederationAuth`, with `FederationTrust` as its abstract specification, and proofs;
2. `FederationBus`, and proofs;
3. `BootstrapKit`, and proofs;
4. `TenantOnboarding`, and proofs;
5. `FederationRouter`, and proofs;
6. `OperatorCeremony`, with the operator slot of the arc bridge, and proofs;
7. `ArcFederation` and `ArcOperator`, composed in `ArcBridge`, and proofs;
8. `TabRouting` with liveness, and proofs;
9. `OnboardingWizard`, and proofs;
10. `ExecutionGate`, and proofs;
11. `TelemetryFeed`, `PollingHooks`, `CommandTerminal`, `AgentForge` and `ConsoleFrame`,
    next to each other in `LiveViews`, with liveness, and proofs.

The invariants that the runs check are theorems too (section 5).  Left, in this order:

1. a composition of `TenantOnboarding`, `BootstrapKit` and `FederationAuth` in which the
   fingerprint of a kit is the secret of the handshake;
2. the older ceremony and its capability tokens (`handlers.go` 27-440), once something
   calls them, and the counting of signatures in the Python services.

Modules to be proved about declare no RECURSIVE operator, take their parameters as
CONSTANTS with a named assumption, have one action per operation or critical section,
and state invariants as conjunctions of named parts.

## 3. Modules

A module has an `MC` module where TLC needs symmetry sets or larger constants; the
others are checked as they are.  Definitions
preceded by "Mutant:" are wrong variants of the definition after them; no
specification uses them.  Each shows that some property notices that mistake.

### FederationAuth

`pending` is `pendingChallenges`; `sessions` is `activeFederationSessions`; `key`
stands for the process and its Ed25519 key; `signed` is the set of all tokens given
out.  An assert request is a goroutine with a `stage`, the request it got (`input`)
and the entry it read (`held`, the pointer that the code keeps after unlocking).
`handleFederationAssert` is split where it releases the lock: `AssertRead` or
`AssertNotFound`, the decision on the copy (`AssertTooLate`,
`AssertWrongFingerprint`, `AssertWrongSignature`, `AssertProven`), the deletion by
node (`AssertDropExpired`, `AssertConsume`), and `AssertGrant`.  `Handshake`,
`Cleanup`, `NodeJoin`, the middlewares and `RevokeFederationSession` touch shared
state once and are one action each.  `Restart` empties what is in memory.  HMAC and
Ed25519 are taken as injective and unforgeable: a proof is the pair of its secret
and its nonce, and a token verifies if this process signed it.  `challenges` and
`grants` are history.

### FederationTrust

What a client of the handshake may rely on, without challenges: claims are asked,
issued, admitted, expelled, and a new epoch starts with nothing.  `ImplementsTrust`
maps `asked` to the claims of this process's challenges, `issued` to `signed` and
`admitted` to `sessions`.

### FederationBus

`events` and `nodes` are the stream and the registry.  A request goes from
`received` over `recorded` (heartbeats only) to `answering`, one stage per lock.
`log` remembers all that this process recorded and `acked` the heartbeats it has
answered.  The wall clock is taken not to go backwards.

### BootstrapKit

Each SQL statement is one action, and a request carries the row it has read (`task`).
A statement fails, or succeeds with its answer lost (`ActivateFails`).  An audit or
activity entry is a goroutine in `auditors` until it writes or its request returns:
`net/http` cancels the request's context then.  The kit's content is abstracted to
its fingerprint, which is fresh because the RSA key in the kit is.

### TenantOnboarding

`tenants` and `links` are the tables.  The transaction of `handleCreateTenant` is one
action, `CreateTenant` when every statement holds and `CreateTenantFails` when a
link violates the foreign key and the commit reports the aborted transaction.  The
database itself is taken not to fail otherwise.  `handleBootstrapKit` settles on a
tenant, creates one if need be, and reads it; `Readable` is Scan's refusal of NULL.
The audit entry's details are modelled by what `%v` and JSONB make of them.

### FederationRouter

`home`, `address` and `active` are the routing tables, `up` the databases that answer,
`nodeCache` the pools.  A request is a goroutine in `FederationMiddleware` with what it
has found out (`task`), and its `stage` names the query or the look at the map that is
next; `attempt` says which of the three calls of `getNodeDB` it is in.  `nodeCache` is
a Go map without a lock.  Two goroutines that touch it at once, at least one of them
writing, may lose the write, miss an entry or end the process (`LostWrite`,
`MissedLook`, `Restart`).  The tables and the
databases change between any two steps, at most `MaxChanges` times.  A tenant that is
named in the path only is not found, since chi knows the parameters of a path only
after this middleware.  `knownAt`, `named`, `current` and `steady` are history: what
the tables have said since when, and which requests nothing has happened to.

### OperatorCeremony

`credential` and `session` are the two columns the ceremonies use, one row per
operator.  Challenges are numbered; a key pair is new in each registration and has the
number of the challenge it answered.  A request is split at each query: `SaveSession`,
`LoadSession`, `GetOperatorKey` (in `VerifyUser`) and `SaveOperatorKey` (in `StoreKey`)
read or write one row each, and fail, or write with their answer lost
(`StoreKeyUnanswered`).  `calls` holds the backend's call of the bridge, which is lost,
arrives while the backend waits, or arrives when it has given up or restarted.  `slot`
is the bridge's operator, with who registered it as history: the backend, or another
client, which may (`routes/operator.ts:31`, `:57`, `:104`) give any `source` it likes, so
that the source is left out.
`handleAuthStatus` and a begin that cannot read its operator change nothing and are
left out.  `latest`, `keysSeen`, `rowsSeen`, `steady` and `verified` are history.

### ArcFederation, ArcOperator, ArcBridge

`ArcFederation` keeps what `routes/federation.ts` and `federation/*` keep: the event
stream cut to `MAX_EVENTS`, the registry, commands, subscriptions, intents and the
action trail.  `RouteMessage` is the handler of the bus, with every store it writes.
Divergence, reasons, topology and previews are operators on these, since the code works
them out at each request.  A missing field and an empty one are both `""`;
a name of white space only is a member of `Blank`, which the topology filters out and the
other loops do not.  `routes/federation.ts` reads the clock twice for a heartbeat (49 and
65), which is one instant here.
`ArcOperator` is the slot with its credential, `currentChallenge` with its expiry, and the
flag `operatorSession`; each route is one action, and a signature is the pair of its key
and what it was made over.  `ArcBridge` puts both into one process with the routes that
make an intent of a text and an action of an intent.  One such text ("open arc" without a
name) makes an async handler throw, which ends the process and empties every store.
`heard` is history: the messages of the bus, with what the stream makes of each; so is
`verifiedFor`, the slot for which the flag was last earned.

### TabRouting

`path` is where the tab is, `authStatus` the status applied last, `flights` the status
requests under way with their answers, `nav` the redirect that has not taken effect.  A
path change or the end of a ceremony asks again; `Shown` is what the layout
renders.  A ceremony runs against `operator`, the server's record, and goes on when its
page has gone; `mine` says which one the button of the page is waiting for.  `Tab` is what
the browser does by itself: answers, renders and redirects.  Visits, presses and the
touch of the key are not in it.  `trouble` and `told` are history.

### OnboardingWizard

`store` is the persisted store, `form` what is entered, `review` the state of the mounted
review page, `handler` every run of `handleGenerateKit` with its `phase`: before the
tenant, tenant created but unanswered, before the kit, kit made, fingerprint asked.  A
handler whose page has gone may still write `lastTenantId`, as in the code.  `tenants` and
`kits` are the server's, for `TenantOnboarding` and `BootstrapKit` have the details.
`excuses` is history: it counts the tenants whose number the browser could not have (an
answer lost, a reload, two presses at once).

### ExecutionGate

Handlers of the JS backend are synchronous, so each is one action.  `Requirements` is
`checkExecutionGate`, `WouldAllow` the preview, `Simulate` the simulation with its entry in
the ledger, `GenerateChallenge` and `Validate` the hardware challenge.  `Plan` answers candidates,
chain of responsibility, risk and forecast for an action, `DryRun` its dry run.
The candidates are a set, since only the chain depends on their order:
`Candidates` is the list that the code sorts, the one in the order `Before`, and the sums
behind the averages are taken by role (`Total`), as agents of a role are scored alike.
Operator, approvals and mode have setters that nothing calls; the model
lets them change.

### LiveViews

Five modules whose views share no state, so a behaviour of `LiveViews` opens one of them
and keeps the others closed; each is otherwise complete.

* `TelemetryFeed`: `feed` is one of the hooks, a record of where it departs from the shape
  they share; each run of its effect has a socket, a time-out and an interval.
* `PollingHooks`: `hook` is one polled view with its interval, its requests and the
  versions they carry; `Due` is whether the view schedules a poll.  `content` says of each
  version whether it is an activated kit or an empty list, in any order, and `Displayed`
  is what is shown, under the `loading` flag and the error that each view has its own way
  with.
* `CommandTerminal`: `terminal` is one of the logs, on the screen and in `localStorage`,
  with the replies it waits for.  React stores a log in an effect after it was rendered:
  `unsaved` is what such an effect is about to store, `Persist` is the effect, and another
  update may or may not come between (`SetLogs`, `ClearLogs`, `Leave`).  `overdue` is
  history: an effect was due when the log was cleared.
* `AgentForge`: the form, the registry, the bus with its bridges and the orchestrator with
  its socket and polls, for one agent that is followed and `Other` for the rest.
* `ConsoleFrame`: the selection, and one list that follows its newest entry with its
  height in entries, the frame it asked for and the scroll event the browser owes it.

## 4. Runs

| Run | Question | Bounds |
|---|---|---|
| `fed_auth_safety` | Do tokens and grants stay authentic while two asserts race handshakes, clean-up, joins, revocations and a restart?  Is `FederationTrust` implemented?  Do expired challenges go? | 1 node, 1 tenant, 2 fingerprints, 2 requests, 2 handshakes, clock 0..1 with TTL 0, 1 restart |
| `fed_bus_safety` | Do stream and registry agree with each other and with the answers?  Does every heartbeat arrive? | 2 nodes, 2 requests, 3 messages, `maxEvents` 2, clock 0..1 with threshold 0 |
| `kit_safety` | Is a kit that is called valid activated and fresh when checked?  Are the logs truthful? | 1 kit, 2 tenants, 2 requests, clock 0..1 with lifetime 0 |
| `tenant_safety` | Is what was answered as created whole, and each kit for the tenant asked for? | 2 companies, 2 tenants, 2 agents of which one is registered, 2 requests |
| `router_safety` | Is a request kept to its tenant's databases, routed as configured when undisturbed, and always moving on? | 2 nodes, databases, tenants, regions and requests, 1 change |
| `ceremony_safety` | Do only the last challenge and a key that is held count?  Does an undisturbed ceremony succeed? | 2 operators, 2 requests, 3 challenges |
| `arc_bridge_safety` | Do divergence, reasons, topology and previews agree on every intent?  Are registry and stream of the same messages?  Was the verified flag earned? | 2 names of which one is blank, 1 channel, 2 operators, 2 keys, limits of 2 (1 for actions), thresholds 0, clock 0..2, 3 requests |
| `routing_liveness` | Does every page settle, every spinner stop and everyone who has registered get on?  Are pages behind the ceremonies safe from stale answers? | 1 visit by the user besides the first, 2 ceremonies, any number of redirects |
| `wizard_safety` | Is each tenant beyond the first accounted for?  Is an expiry on the page an expiry on the server? | 1 company, 2 presses, 2 kits, lifetime 2 on a clock 0..2 |
| `gate_safety` | Does the ledger keep the latest attempts in order, does a challenge count once, and do the parts of a plan agree? | 3 agents, each offline or not, the core able to deploy or not (16 registries), 2 actions, ledger of 2, 3 attempts, 2 challenges |
| `live_views` | Views on sockets, intervals, streams and frames: see the properties | 3 effect runs; 2 requests, 1 failure, 2 changes; 4 commands, 3 kept; 1 agent, 2 polls; 5 entries, 2 in view |
| `genesis_echo` | Is one event echoed once? (no; section 6) | stack of 3 nested calls |

The eleven passing runs hold.  The configurations `FedAuthReplay`, `FedAuthLateDelete`,
`KitAudited`, `TenantDuplicate`, `TenantUnknownAgent`, `RouterStale` and
`LogWrittenBack` check one claim of a document each and find it violated; section 6 names
them.  They are run by hand, as `tlc -config FedAuthReplay.cfg MCFederationAuth.tla`.

Why the bounds are enough to be of interest:

* Every race in the Go code is between two goroutines over one row, entry or pool: two
  requests can interleave in every order there is.  Their other opponents (ticker,
  clean-up, auditors, table changes, restarts) are actions of their own.
* A time limit of 0 and a clock of two ticks give "before", "at" and "after" the
  limit, and a handler that holds something over the limit.
* Two handshakes replace each other's entry; two fingerprints make a wrong proof.
  Nodes share nothing but the maps they are keys of, so one node is enough for the
  handshake, while the bus needs two in one stream.
* `maxEvents` 2 with three messages prunes the stream.  In the arc bridge three requests
  overflow each of its lists, and leave one that was cut next to one that was not.
* Three challenges are a registration, a login and one more ceremony that interferes,
  either of which may be of the other operator.
* One change of the routing tables makes whatever a request has read or cached stale.
  Of the two tenants one has a route, and the route's node is or is not its home.
* With a second tenant, "the tenant created last" may be the wrong one.
* Two ceremonies in a tab are one that outlives its page and one that is on screen.
* Two presses overlap, or the second retries the first.  With a lifetime of 2 the page's
  countdown can be behind, at and past the server's.
* Three attempts push the oldest of two entries out, so that which end is cut shows, and
  whether the order of the others is kept.
* A name that is blank next to one that is not is all that tells the filters apart.
* In a registry of three agents each role of the chain is present, and the status of each
  varies, as does whether there is a primary agent; for other registries there is the
  theorem.
* An effect that runs three times was mounted twice by StrictMode and given another node.
* Two requests answer in either order; two changes are a kit's activation and
  another kit after it.  One failure empties a view or blocks it.
* Five entries over a pane of two leave room for a reader at the end, near it, and away.

Each property has a mutant of one definition, listed in `PROJECT.json`: with it, the
property is violated under the same configuration.  The mutants stand before the
definitions they distort.

Bounds on counters (the constants named `Max...`, `LastVersion` and `Stack`) are guards
of the actions that count.  Where a run ends because a bound is reached, other actions
still go on, so deadlock is checked.  The exceptions are `routing_liveness`, `live_views`
and `genesis_echo`: a tab whose user does nothing more, and a view that has nothing to
wait for, really stop.

Type invariants are definitions of the modules.  Those of the modules with proofs
about them are theorems, except for `OnboardingWizard`, whose invariant has its own
account of shapes, and `LiveViews`, whose invariants keep the types they need.

**Fairness.**  `WF_vars(Cleanup)` in `FederationAuth`: `init()` starts the ticker
goroutine, nothing stops it, and it takes one lock that no handler holds across a
blocking call.  `WF_vars(Handle(r))` in `FederationBus`: a handler that has received
its message only takes two locks and answers; the Go scheduler runs it.  Nothing is
assumed of clients, of time or of restarts.  `WF_vars(Tab)` in `TabRouting`: the browser
settles each request, applies its answer and takes a redirect; the user and the key need
not do anything.  `FeedFairness`: a socket that was asked
to connect opens, fails or is closed by the hook's own time-out, and `onclose` is called.
`PollFairness`: the interval fires while its view is mounted, and a request that does not
fail is answered and its answer used; `MaxFailures` requests may fail.
`FrameFairness`: the console's own interval adds log entries, a scroll is reported, and
an effect and an animation frame that are due are run.
`FederationRouter` needs no fairness: that
a request cannot stay in the middleware is the action property `Advances`, a measure
that every step of it decreases.

## 5. Proofs

The theorems hold for every value of the constants that meets the module's named
assumptions: numbers are natural, limits of lists that must hold something are not 0, a
table of routes is finite, and the values that stand for "nothing" are not members of the
sets they are distinguished from.  TLC evaluates the assumptions in the runs.

The argument is the same in every module: a strengthening `IInv` holds initially, every
action preserves it, and it implies the property.  What had to be added, and why:

* `FederationAuthProofs`.  That a granted challenge is not pending again needs that
  nonces are unique and not above `lastNonce`, that what a handler holds was issued
  (`HeldIsIssued`), and that between the deletion and the signature the challenge is
  neither pending (`ConsumedNotPending`) nor held by the same request again
  (`GrantedNotHeldAgain`).  Authenticity needs what the comparisons have established
  for a handler that has passed them (`ProvenIsCompared`).  `Implements` is the
  refinement: `TrustInit` and `TrustStep` map the initial states and every step to
  `FederationTrust`, where only a handshake, a grant, an admission, an expulsion and a
  restart are steps and the rest stutters.
* `FederationBusProofs`.  `PruningStepwise` is the lemma that cutting after each append
  is cutting at the end.  Order needs that no stamp is in the future; agreement with the
  registry needs that a heartbeat between its two locks is in the log
  (`WaitingIsRecorded`), and one about to be answered in the registry.
* `BootstrapKitProofs`.  Rows are never removed, never change their owner or expiry, and
  are activated once and for all (`StepGrows`); so what a request has read is still true
  enough (`HeldIsCurrent`), and what an auditor is to write stays true until it writes.
  A generated kit is not stored by another (`GeneratedIsUnstored`).
* `FederationRouterProofs`.  What is cached for a node, or carried by a request, is an
  address the node has had (`CacheKnown`, `RequestKnown`).  `EveryStepAdvances` goes
  through the stages and shows that the measure falls.
  `UndisturbedRoutedAsConfigured` follows a request that nothing has happened to stage by
  stage (`SteadyRight`): what it has read is what the tables say, every node it may be
  sent to is one whose pool connects, and so it never gives up the node the tables choose.
  That a heaviest route exists needs that the table is finite (`HeaviestRoute`).
* `CeremonyAndBridgeProofs`, the ceremonies.  What was saved last is in the row
  (`LatestSaved`), and by its stage a request's answer, row and key belong together and to
  what it has seen (`RequestOK`).  A steady request's answer is the last challenge, so
  neither comparison fails.
* `CeremonyAndBridgeProofs`, the bridge.  Stream and registry cannot be compared with each
  other, since the stream is cut.  `FedInv` relates each to all that was heard: the stream
  is its end (`StreamFollows`), and a node is listed as of its last heartbeat
  (`SeenLast`).  `ReportsAgree` needs no history, only types: for any lists of
  subscriptions and intents, blank names among them, the loops find the same, and the
  only node that is reported missing is one with a blank name.  A restart empties every store,
  which is the state of the beginning (`EmptiedIsFine`).
* `OnboardingProofs`, the tab.  A page behind the ceremonies is rendered by the status
  applied last, which may be any of the answers.  So the invariant speaks of all of them
  (`StatusIsReported`): no status that is applied or under way reports a key that the
  server lacks, and the server never loses one.
* `OnboardingProofs`, the tenants.  A new number has no links, no answer and no audit entry
  yet (`Untouched`), rows stay and keep their company (`RowsStay`), and an e-mail belongs
  to its row's company (`OwnEmail`); so what a request has settled on stays right whatever
  others create before it reads (`OwnTenant`).
* `ExecutionGateProofs`.  The ledger is related to all attempts by a lemma on cutting a
  tail after each append.  A challenge is validated once because the pending one is newer
  than every one that was validated.  That the answers agree is no matter of history: it
  holds of every plan for a registry of any length.  The order of the candidates is strict
  and total on them, a finite set with such an order can be sorted (`CanBeSorted`: of the
  sets that cannot a smallest one would have a last element, and what is left without it a
  sorting), and the sorted list misses nobody (`SortedAndComplete`).  An average trust of
  90 needs an agent of the core (`TrustNeedsCore`), which is what ties a confident forecast
  to a primary agent that is ready.
  The code adds binary fractions where the model adds percents: that can turn an average
  of exactly 90 or 15 either way, but not one that is 85 at most, so the argument stands.
* `FrontEndProofs`, the wizard.  Tenants cannot be counted alone: those that a run of the
  handler may still create count too (`Accounted`), and while the browser knows none and
  has asked for none, the first one is not spent.  What the page knows the storage knows
  (`Remembered`), so a second download never follows an empty list.  `CountsDown` compares
  the two clocks: the kit that came with the fingerprint ends no later than now and what
  is left on the page.  Records and lists are known by their shape only, whatever they
  hold.
* `FrontEndProofs`, the views.  They share no variable, so `ViewsInv` has a part for each.
  `FeedInv`: one interval at most holds only because a hook that starts one for every
  error never starts one on close, and has none while its socket lives; a hook that waits
  for its connection remembers that it has started (`HookShape`, `EffectSound`).
  `FrameInv`: who is reading, and of whom the list has been told, is `away` for the logs,
  and not at the `bottom` for the timeline, where the two seconds may have passed.
  `TermInv`: that a reply may be appended later (`Answerable`) is kept by appending
  anything newer, by cutting the log, by loading it again; that screen, storage and the
  entries an effect is about to store have only new entries (`NothingOld`) is kept since
  nothing is awaited in the personal terminal, and holds after a clear with no effect due.
  `ForgeInv`: what
  has come to an end at the service stays so, therefore every poll and message under way
  that says so goes on being true (`Truthful`), in any order and number.  `FormInv`: a
  form that can forge is not forging, so a refused manifest shows no verdict next to one.

The theorems `GrantedGone`, `SessionsVerify`, `Ordered`, `ValidForOwner`,
`ActivatedVerified` and `PreviewHonoured` state invariants that the configurations do not
list, since TLC has nothing to add to them.

Only model-checked: liveness (`ExpiredIsRemoved`, `HeartbeatLands`, `Settles`,
`RegisteredMovesOn`, `AlwaysFed`, `ChangeIsShown`, `Follows`), since liveness under
fairness and ENABLED are out of the prover's reach.  The modules with proofs have no
recursive operators; where an argument goes by induction over a finite set, it takes a
smallest counterexample, since the library's induction theorems cannot be instantiated.

## 6. Where documents and code disagree

Shown by a run that `PROJECT.json` lists as a finding:

* `genesis_echo`: `FederationSyncBridge.ts:15` (`ui/src/sage/federation/kernel`) answers
  every event with an event, its own included, so one event makes log entries until the
  stack is full, while the comment above it says "Echo new agents into federation logs".

Shown by a configuration to be run by hand (section 4):

* `FedAuthReplay`: two asserts of one proof can both be granted a token;
* `FedAuthLateDelete`: a late assert deletes a fresh challenge;
* `KitAudited`: a verification can succeed without an audit entry;
* `TenantDuplicate`: a kit request makes another tenant for a company that has one;
* `TenantUnknownAgent`: a link to an unknown agent is not "still created";
* `RouterStale`: a node's old database goes on serving after the node has moved;
* `LogWrittenBack`: "clear" of the personal terminal (`PersonalCommandBar.tsx:56`, "Clear
  command log"), entered after a stream's tick was rendered and before the effect of that
  tick has run, removes the stored log, which the effect then writes back; the empty log
  is not stored (`PersonalCommandLog.tsx:39`), so the old one returns with the next visit.

Seen while modelling, and part of the models, but without a run:

* `handlers.go:719`: the details of the creation's audit entry are formatted with `%v`
  and are not JSON; the column is JSONB, the INSERT fails, the error is dropped.
* `handlers.go:872`: a NULL e-mail cannot be scanned into a string, so a tenant this
  backend created is answered "Tenant not found".
* `federation/crypto.go:64`: no age of a token is checked, while
  `PHASE_13.2_IMPLEMENTATION_SUMMARY.md:68` says "403 for invalid/expired token".
* `middleware/federation_session.go:50`: a revoked token is registered again with its
  next use, since it still verifies.
* `handlers.go:2149`: of two concurrent verifications the second overwrites
  `activated_at`; the comment at 2146 says "if not already activated".
* `middleware/federation.go:84`: a tenant in the path is not found by a middleware that
  runs before routing (`PHASE_12_IMPLEMENTATION_SUMMARY.md:40` lists the path), and one
  in a POST body is not looked for: such requests use the default database.
* `middleware/federation.go:180`: pools that are evicted or overwritten are not closed;
  a request whose ping failed may evict the pool another has just made; and
  `resolveDatabase` returns no error, so lines 59-66 are never run.
* `webauthn_handlers.go:423`: `handleAuthStatus` takes any row of `operator_keys` for a
  session, so an operator that has registered and never verified is "authenticated",
  while `frontend/components/OperatorIdentityLamp.tsx:80` has the states "not
  registered -> registered -> authenticated".
* `webauthn_handlers.go:360`: the activation in the bridge is best effort, while the
  comment above it says that it "ensures" the operator is shown as registered.

Of the front end, all of it in the models:

* `onboarding/frontend/app/layout.tsx:27-33`: the redirect does not happen "exactly once",
  and who is authenticated is sent to the wizard, not to the dashboard.  A status that is
  answered with an error sends a registered operator to `/register`; one whose request is
  rejected leaves the tab empty until the path changes, which is why `Settles` excepts it.
* `components/YubiKeyAuth.tsx:73`: after an error the button stays disabled, while the error
  (line 40) says "Please try again.".  To begin a ceremony is enough to be "authenticated", since
  `handleAuthStatus` takes any row for a session.
* The wizard never stores a capability token (`storeOCT` has no caller), and the rewrites of
  `next.config.ts` do not cover `/api/onboarding/*`.  `lastTenantId` is never removed, so the
  kit of a second company is made for the first one's tenant.  "Download Kit" makes
  another kit while the old fingerprint and countdown stay.  A validation answer stays when
  the configuration has been edited since.
* `lib/useBootstrapStatus.ts:74`: a first fetch that fails is never repeated, although line
  72 means to poll until the kit is activated; and since `handlers.go:1946` answers with
  the latest kit, one that is made after an activation is not shown until the page is
  loaded again.  `ChangeIsShown` excepts both.
* Lists that are empty (`FederationCommandConsole.tsx:32`, `FederationPanel.tsx:91`,
  `BootstrapAuditFeed.tsx:133`) give way to "Loading" at every poll.

Of the arc bridge and the JS backend, in the models:

* `arc-bridge-local/src/federation/webauthn-challenge.ts:9`: an expired challenge is as
  good as none, and without one an assertion's challenge is not compared at all.
  `/assertion` erases the credential.  The verified flag outlives the operator
  (`operator-session.ts:3` speaks of the operator's session); `VerifiedIsOfSlot` in
  `ArcOperator` states the opposite and does not hold.
* `routes/operator.ts:31`, `:57` and `:104`: whoever asks is registered with the source
  "webauthn", verified or not (17 calls the identity "non-authenticated"); what holds is
  that whom the backend has activated was verified (`ActivatedWasVerified`).
* `reasoning.ts:24-42`: the only missing node is one whose name is white space, which
  `topology.ts:50` leaves out and `routes/federation.ts` lets in.  An intent whose
  exact subscription comes second is "diverged" for no reason given.  A heartbeat with a
  token is answered "alive" without being registered.  Commands, subscriptions and
  intents are never removed from their stores.
* In `backend`, nothing calls `setOperator`, `setApproval`, `setExecutionMode` or
  `recordAction`: the program as it is answers "no authenticated operator" to everything,
  401 to every validation and 404 to every approval.  The simulation does not look at the
  second factor that the gate and the preview require; an approval outlives the operator
  who gave it; the branch for an average risk above 0.3 cannot be reached.

Of the console, in the models:

* A cleanup closes the socket, whose `onclose` starts an interval after the component has
  gone; under StrictMode it feeds made-up data next to the second effect's connection,
  contrary to `useFederationNodes.ts:77`.  `OneSource` is therefore about one effect.
  `useNodeEvents.ts:45` warns of "using mock" and uses none.
* `GenesisOrchestrator.ts:141` and `:168`: a poll is not a "fallback if WebSocket fails", it
  runs all the time, and does not stop on every terminal state, since a verdict that would
  skip a state is refused.  No server in the repository serves a genesis' status.  The
  form may show "complete" though the genesis failed, since it looks at no identity.
* "clear" in the operator terminal empties the screen, and the old log returns with the
  next load; an entry that was stored while it was written stays unfinished.
* `FederationLogs.tsx:94-97`: a scroll to the end that was asked for already pulls down a
  reader who has just left, and a switch of auto-scroll in that frame is undone.  A
  timeline that is full no longer changes its length, so its effect stops.
* Alerts, kernel signals and reflexes (`BridgeFrame.tsx:55-142`) have handlers and no
  emitter; several panels are hidden by the registry of `BridgeFrame`.

## 7. Not modelled, and why

* Cryptography: HMAC, Ed25519 and WebAuthn signatures are taken as unforgeable.
* The wall clock is taken not to go backwards; where two readings are compared the
  code would otherwise be at the mercy of the host.
* In `TenantOnboarding` the database fails only where a constraint or a type makes it.
* Read-only handlers, and the contents of kits, messages and rows beyond what decides.
* The older ceremony and the capability tokens of `handlers.go` 27-440: no client calls
  them.  Policies and the content of the identity configuration: stored, never used.
* The wrappers of the JS backend's phases (envelopes, schemas, routing tables) format what
  the modelled decisions return; its virtual bus is a list that nothing reads back.
* The legacy shells, stores and engines of the console and a dozen files of the onboarding
  front end: nothing reaches them from an entry point, or nothing emits what drives them.
* Two tabs that share one `localStorage`, layout, animation, copying to the clipboard.
* The Python services keep little state; manifests, scripts, generated files and assets
  have no state machine.
