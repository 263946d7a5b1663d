--------------------------- MODULE TenantOnboarding ---------------------------
(***************************************************************************)
(* How a tenant comes to exist and to have a kit: handleCreateTenant, one  *)
(* transaction, and the part of handleBootstrapKit before the kit is       *)
(* generated, which finds the tenant or creates one outside a transaction  *)
(* (onboarding/backend/handlers.go, schema in onboarding/db/migrations).   *)
(*                                                                         *)
(* The column tenants.email is nullable (migration 003) and no INSERT of   *)
(* the backend names it; Scan into a Go string fails on NULL.  Rows with an*)
(* email come from outside this code, by FillEmail.                        *)
(***************************************************************************)
EXTENDS Naturals, FiniteSets

CONSTANTS
    Company,      \* companies, one e-mail address each
    Agent,        \* agent identifiers a request can select
    Registered,   \* those of them the table agents has
    Literal,      \* those that are JSON as they stand, as 7 is; the seeded ones are not
    Request,      \* kit requests that can be in flight at once
    Nobody,       \* no e-mail, no body
    NoId,         \* no tenant named, no tenant found
    MaxTenants    \* bound: tenants ever inserted

VARIABLES
    lastId,       \* tenants inserted so far; identifiers in order of created_at
    tenants,      \* the table tenants: identifier -> row, for those committed
    links,        \* the table tenant_agents: identifier -> agents
    audited,      \* tenants that audit_log says were created
    stage,        \* where each kit request is in its handler
    body,         \* the tenant data it carries
    target,       \* the tenant it has settled on
    created,      \* history: the create request that was answered with a tenant
    refused,      \* history: the last create request that failed
    issued        \* history: the kits generated, for whom and for which tenant

tables == <<lastId, tenants, links, audited>>
inflight == <<stage, body, target>>
tenantVars == <<tables, inflight, created, refused, issued>>

Id == 1..MaxTenants
Body == [company: Company, agents: SUBSET Agent]
Row == [company: Company, agents: SUBSET Agent, email: Company \cup {Nobody}]
Stage == {"idle", "unknown", "resolved", "found"}

\* A kit: the agents it is made for, the tenant, and the company the request named.
Issued == [agents: SUBSET Agent, tenant: Id, company: Company \cup {Nobody}]

ASSUME ConstantsAssumption ==
    /\ Registered \subseteq Agent
    /\ Literal \subseteq Agent
    /\ MaxTenants \in Nat
    /\ NoId \notin Id
    /\ Nobody \notin Company
    /\ Nobody \notin Body

-----------------------------------------------------------------------------
Known == DOMAIN tenants

\* ORDER BY created_at DESC LIMIT 1 over the tenants in T.
Latest(T) == IF T = {} THEN NoId ELSE CHOOSE t \in T : \A u \in T : u <= t

\* WHERE email = $1, which no NULL equals.
WithEmail(c) == {t \in Known : tenants[t].email = c}

\* One more row of tenants, with its links.
Insert(b, agents) ==
    /\ lastId < MaxTenants
    /\ lastId' = lastId + 1
    /\ tenants' = [t \in Known \cup {lastId'} |->
          IF t = lastId' THEN [company |-> b.company, agents |-> b.agents, email |-> Nobody]
          ELSE tenants[t]]
    /\ links' = [links EXCEPT ![lastId'] = agents]

-----------------------------------------------------------------------------
TenantInit ==
    /\ lastId = 0
    /\ tenants = [t \in {} |-> Nobody]
    /\ links = [t \in Id |-> {}]
    /\ audited = {}
    /\ stage = [r \in Request |-> "idle"]
    /\ body = [r \in Request |-> Nobody]
    /\ target = [r \in Request |-> NoId]
    /\ created = [t \in Id |-> Nobody]
    /\ refused = Nobody
    /\ issued = {}

\* The entry of the audit log, after the commit.  %v prints the agents as [a b], which
\* the JSONB column takes for a single agent that is a JSON literal; its error is ignored.
DetailsAreJSON(b) == \E a \in Literal : b.agents = {a}

Audit(b) == audited' = IF DetailsAreJSON(b) THEN audited \cup {lastId'} ELSE audited

(***************************************************************************)
(* handleCreateTenant.  Its statements are one transaction, invisible until*)
(* the commit, and the registry of agents does not change: one action.  A  *)
(* link to an agent that is not registered violates the foreign key of     *)
(* migration 002 and aborts the transaction; the handler logs the failure, *)
(* goes on, and learns of it at the commit.                                *)
(***************************************************************************)
\* Mutant: each link is inserted under a savepoint, as the comment intends.
CreateTenantUnderSavepoints(b) ==
    /\ b.agents # {}
    /\ Insert(b, b.agents \cap Registered)
    /\ Audit(b)
    /\ created' = [created EXCEPT ![lastId'] = b]
    /\ UNCHANGED <<inflight, refused, issued>>

CreateTenant(b) ==
    /\ b.agents # {}
    /\ b.agents \subseteq Registered
    /\ Insert(b, b.agents)
    /\ Audit(b)
    /\ created' = [created EXCEPT ![lastId'] = b]
    /\ UNCHANGED <<inflight, refused, issued>>

\* Mutant: the error of tx.Commit is not looked at.
CreateTenantIgnoresCommit(b) ==
    /\ b.agents # {}
    /\ lastId < MaxTenants
    /\ lastId' = lastId + 1
    /\ created' = [created EXCEPT ![lastId'] = b]
    /\ UNCHANGED <<tenants, links, audited, inflight, refused, issued>>

CreateTenantFails(b) ==
    /\ b.agents # {}
    /\ ~(b.agents \subseteq Registered)
    /\ refused' = b
    /\ UNCHANGED <<tables, inflight, created, issued>>

(***************************************************************************)
(* handleBootstrapKit: a tenant named in the query is taken as it is;      *)
(* otherwise the body names a company, whose tenant is looked for by its   *)
(* e-mail; without a body the tenant created last is taken.                *)
(***************************************************************************)
Settle(r, b, t) ==
    /\ stage[r] = "idle"
    /\ stage' = [stage EXCEPT ![r] = IF t = NoId THEN "unknown" ELSE "resolved"]
    /\ body' = [body EXCEPT ![r] = b]
    /\ target' = [target EXCEPT ![r] = t]
    /\ UNCHANGED <<tables, created, refused, issued>>

KitForNamed(r, t) == Settle(r, Nobody, t)

\* Mutant: the lookup takes the tenant created last, not the company's.
KitForAnyCompany(r, b) == Settle(r, b, Latest(Known))

KitForCompany(r, b) == Settle(r, b, Latest(WithEmail(b.company)))

\* With no tenant at all this answers 400.
KitForLatest(r) ==
    /\ Known # {}
    /\ Settle(r, Nobody, Latest(Known))

\* Only a row of tenants is inserted: no links, no policy, no transaction.
KitCreatesTenant(r) ==
    /\ stage[r] = "unknown"
    /\ Insert(body[r], {})
    /\ stage' = [stage EXCEPT ![r] = "resolved"]
    /\ target' = [target EXCEPT ![r] = lastId']
    /\ UNCHANGED <<audited, body, created, refused, issued>>

\* The row is read into Go strings: a NULL e-mail is answered like a missing row.
Readable(t) == t \in Known /\ tenants[t].email # Nobody

FetchTenant(r) ==
    /\ stage[r] = "resolved"
    /\ Readable(target[r])
    /\ stage' = [stage EXCEPT ![r] = "found"]
    /\ UNCHANGED <<tables, body, target, created, refused, issued>>

Forget(r) ==
    /\ stage' = [stage EXCEPT ![r] = "idle"]
    /\ body' = [body EXCEPT ![r] = Nobody]
    /\ target' = [target EXCEPT ![r] = NoId]

FetchFails(r) ==
    /\ stage[r] = "resolved"
    /\ ~Readable(target[r])
    /\ Forget(r)
    /\ UNCHANGED <<tables, created, refused, issued>>

Asker(r) == IF body[r] = Nobody THEN Nobody ELSE body[r].company

\* The agents are those of the links or, without links, of the stored request.
GenerateKit(r) ==
    /\ stage[r] = "found"
    /\ LET t == target[r]
           agents == IF links[t] = {} THEN tenants[t].agents ELSE links[t]
       IN  issued' = issued \cup {[agents |-> agents, tenant |-> t, company |-> Asker(r)]}
    /\ Forget(r)
    /\ UNCHANGED <<tables, created, refused>>

\* Outside this code: somebody fills in the e-mail of a tenant.
FillEmail(t) ==
    /\ t \in Known
    /\ tenants[t].email = Nobody
    /\ tenants' = [tenants EXCEPT ![t].email = tenants[t].company]
    /\ UNCHANGED <<lastId, links, audited, inflight, created, refused, issued>>

-----------------------------------------------------------------------------
TenantNext ==
    \/ \E b \in Body : CreateTenant(b) \/ CreateTenantFails(b)
    \/ \E r \in Request, t \in Id : KitForNamed(r, t)
    \/ \E r \in Request, b \in Body : KitForCompany(r, b)
    \/ \E r \in Request :
          \/ KitForLatest(r)
          \/ KitCreatesTenant(r)
          \/ FetchTenant(r)
          \/ FetchFails(r)
          \/ GenerateKit(r)
    \/ \E t \in Id : FillEmail(t)

TenantSpec == TenantInit /\ [][TenantNext]_tenantVars

-----------------------------------------------------------------------------
(* Properties *)

\* Type invariant: a request past its lookup has a tenant to look at, and one that
\* found no tenant has the data to create it from.
TenantTypeOK ==
    /\ lastId \in 0..MaxTenants
    /\ Known \subseteq 1..lastId
    /\ \A t \in Known : tenants[t] \in Row
    /\ links \in [Id -> SUBSET Agent]
    /\ audited \subseteq Id
    /\ stage \in [Request -> Stage]
    /\ body \in [Request -> Body \cup {Nobody}]
    /\ target \in [Request -> Id \cup {NoId}]
    /\ \A r \in Request : stage[r] = "unknown" => body[r] # Nobody
    /\ \A r \in Request : stage[r] \in {"resolved", "found"} => target[r] # NoId
    /\ created \in [Id -> Body \cup {Nobody}]
    /\ refused \in Body \cup {Nobody}
    /\ issued \subseteq Issued

\* A create request that was answered with a tenant has left that tenant whole: the
\* row and one link for every agent it selected; a failed one has left nothing, and
\* the audit log claims no other creation.
CreatedIsWhole ==
    /\ \A t \in Id : created[t] # Nobody =>
          /\ t \in Known
          /\ tenants[t].company = created[t].company
          /\ links[t] = created[t].agents
    /\ \A t \in Known : created[t] = Nobody => links[t] = {} /\ t \notin audited

\* A kit that was asked for with a company's data belongs to a tenant of that company,
\* whatever other tenants were created meanwhile.
KitForOwnCompany ==
    \A k \in issued : k.company # Nobody => tenants[k.tenant].company = k.company

-----------------------------------------------------------------------------
(* What comments and documents say and the code does not do. *)

\* "Try to find existing tenant by email", and PHASE_2: "creates tenant if it doesn't
\* exist": a request that creates a tenant does so for a company that has none.
CreatesOnlyMissing ==
    [][\A r \in Request :
          stage[r] = "idle" /\ stage'[r] = "unknown" =>
              ~ \E t \in Known : tenants[t].company = body'[r].company]_tenantVars

\* "If agents table doesn't exist or agent not found, still create the link": a request
\* that passes validation creates its tenant, also for an agent nobody registered.
UnknownAgentIsLinked == refused = Nobody

=============================================================================
