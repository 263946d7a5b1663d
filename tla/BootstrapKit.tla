---------------------------- MODULE BootstrapKit ----------------------------
(***************************************************************************)
(* The life of a bootstrap kit in the onboarding backend: generated and    *)
(* stored by handleBootstrapKit, activated by handleBootstrapVerify and    *)
(* handleBootstrapScan (onboarding/backend/handlers.go), with the audit log*)
(* of audit.go.                                                            *)
(*                                                                         *)
(* Each SQL statement is atomic and a handler is not: it reads the row of  *)
(* the kit, decides on what it read, and then writes.  An audit entry is   *)
(* written by a goroutine of its own under the context of the request,     *)
(* which net/http cancels when the handler returns.  The tenants here are  *)
(* those whose row handleBootstrapKit can read; TenantOnboarding says which*)
(* those are.                                                              *)
(***************************************************************************)
EXTENDS Naturals, FiniteSets

CONSTANTS
    Kit,        \* fingerprints; a new kit has a fresh RSA key and so a new one
    Tenant,     \* tenants whose row can be read
    Request,    \* requests that can be in flight at once
    NoTenant,   \* a verification that names no tenant
    NoRow,      \* a fingerprint the table does not have
    NoTask,     \* no request in flight
    Null,       \* activated_at of a kit that is not activated
    Lifetime,   \* what expires_at adds to created_at, 15 minutes in the code
    MaxClock    \* bound: last tick of the clock

VARIABLES
    clock,      \* time
    made,       \* the kits that have been generated
    kits,       \* the table bootstrap_kits
    audit,      \* what bootstrap_kit_audit_log and activity_events say
    auditors,   \* goroutines that have still to write their entry there
    stage,      \* where each request is in its handler
    task,       \* what that request is about and what it has read
    checked,    \* history: when a kit was found not to have expired
    verdicts    \* history: the answers that called a kit valid

inflight == <<stage, task>>
history == <<checked, verdicts>>
vars == <<clock, made, kits, audit, auditors, inflight, history>>

Time == 0..MaxClock

Row == [tenant: Tenant, expires: 0..(MaxClock + Lifetime), activated: Time \cup {Null}]

\* The actions of the audit log, and the two event types of the activity feed.
Action == {"KIT_GENERATED", "KIT_DOWNLOADED", "VERIFY_SUCCESS", "VERIFY_FAILED",
           "activity generated", "activity verified"}

Entry == [action: Action, tenant: Tenant, kit: Kit]

Auditor == [entry: Entry, of: Request]

\* op is the route; asked is the tenant the caller named, row what was read.
Task == [op: {"kit", "verify", "scan"}, kit: Kit, asked: Tenant \cup {NoTenant},
         row: Row \cup {NoRow}]

Stage == {"idle", "generated", "looked", "activating", "valid", "returning"}

Verdict == [kit: Kit, asked: Tenant \cup {NoTenant}, tenant: Tenant]

ASSUME ConstantsAssumption ==
    /\ Lifetime \in Nat
    /\ MaxClock \in Nat
    /\ NoTenant \notin Tenant
    /\ NoRow \notin Row
    /\ NoTask \notin Task
    /\ Null \notin Time

-----------------------------------------------------------------------------
\* go RecordAuditEvent(ctx, ...) and go RecordActivityEvent(ctx, ...) of request r.
Spawn(r, actions, t, k) ==
    auditors' = auditors \cup
        {[entry |-> [action |-> a, tenant |-> t, kit |-> k], of |-> r] : a \in actions}

Goto(r, to) == stage' = [stage EXCEPT ![r] = to]

Begin(r, to, tk) ==
    /\ stage[r] = "idle"
    /\ Goto(r, to)
    /\ task' = [task EXCEPT ![r] = tk]

\* The kit of r, what it has read of it, and its route.
K(r) == task[r].kit
Held(r) == task[r].row
Op(r) == task[r].op

-----------------------------------------------------------------------------
Init ==
    /\ clock = 0
    /\ made = {}
    /\ kits = [k \in Kit |-> NoRow]
    /\ audit = {}
    /\ auditors = {}
    /\ stage = [r \in Request |-> "idle"]
    /\ task = [r \in Request |-> NoTask]
    /\ checked = {}
    /\ verdicts = {}

(***************************************************************************)
(* handleBootstrapKit, from GenerateBootstrapKit on.                       *)
(***************************************************************************)
GenerateKit(r, k, t) ==
    /\ k \notin made
    /\ Begin(r, "generated", [op |-> "kit", kit |-> k, asked |-> t, row |-> NoRow])
    /\ made' = made \cup {k}
    /\ UNCHANGED <<clock, kits, audit, auditors, history>>

\* The kit goes out whether or not it could be stored.
Deliver(r, actions) ==
    /\ Spawn(r, {"KIT_GENERATED", "KIT_DOWNLOADED"} \cup actions, task[r].asked, K(r))
    /\ Goto(r, "returning")
    /\ UNCHANGED <<clock, made, audit, task, history>>

StoreKit(r) ==
    /\ stage[r] = "generated"
    /\ kits' = [kits EXCEPT ![K(r)] =
          [tenant |-> task[r].asked, expires |-> clock + Lifetime, activated |-> Null]]
    /\ Deliver(r, {"activity generated"})

StoreKitFails(r) ==
    /\ stage[r] = "generated"
    /\ UNCHANGED kits
    /\ Deliver(r, {})

(***************************************************************************)
(* handleBootstrapVerify (op "verify") and handleBootstrapScan (op "scan").*)
(* A verification may name a tenant, a scan does not.                      *)
(***************************************************************************)
Matches(k, t) == kits[k] # NoRow /\ t \in {NoTenant, kits[k].tenant}

Found(r, op, k, t) ==
    /\ Begin(r, "looked", [op |-> op, kit |-> k, asked |-> t, row |-> kits[k]])
    /\ UNCHANGED <<clock, made, kits, audit, auditors, history>>

Lookup(r, op, k, t) ==
    /\ op = "scan" => t = NoTenant
    /\ Matches(k, t)
    /\ Found(r, op, k, t)

\* There is no such row, or the query fails.  Only a verification that names a tenant
\* leaves an audit entry.
LookupFails(r, op, k, t) ==
    /\ op = "scan" => t = NoTenant
    /\ Begin(r, "returning", [op |-> op, kit |-> k, asked |-> t, row |-> NoRow])
    /\ Spawn(r, IF t = NoTenant THEN {} ELSE {"VERIFY_FAILED"}, t, k)
    /\ UNCHANGED <<clock, made, kits, audit, history>>

RefuseExpired(r) ==
    /\ stage[r] = "looked"
    /\ clock > Held(r).expires
    /\ Spawn(r, IF Op(r) = "verify" THEN {"VERIFY_FAILED"} ELSE {}, Held(r).tenant, K(r))
    /\ Goto(r, "returning")
    /\ UNCHANGED <<clock, made, kits, audit, task, history>>

\* Mutant: an expired kit goes through.
PassExpired(r) ==
    /\ stage[r] = "looked"
    /\ Goto(r, IF Held(r).activated = Null THEN "activating" ELSE "valid")
    /\ checked' = checked \cup {[kit |-> K(r), at |-> clock]}
    /\ UNCHANGED <<clock, made, kits, audit, auditors, task, verdicts>>

\* Mutant: a verification is logged as a success before the kit is activated.
PassCheckLoggingEarly(r) ==
    /\ stage[r] = "looked"
    /\ ~(clock > Held(r).expires)
    /\ Goto(r, IF Held(r).activated = Null THEN "activating" ELSE "valid")
    /\ checked' = checked \cup {[kit |-> K(r), at |-> clock]}
    /\ Spawn(r, {"VERIFY_SUCCESS"}, Held(r).tenant, K(r))
    /\ UNCHANGED <<clock, made, kits, audit, task, verdicts>>

PassCheck(r) ==
    /\ stage[r] = "looked"
    /\ ~(clock > Held(r).expires)
    /\ Goto(r, IF Held(r).activated = Null THEN "activating" ELSE "valid")
    /\ checked' = checked \cup {[kit |-> K(r), at |-> clock]}
    /\ UNCHANGED <<clock, made, kits, audit, auditors, task, verdicts>>

\* The UPDATE names the fingerprint and nothing else.
Activated(k) == [kits EXCEPT ![k] = [@ EXCEPT !.activated = clock]]

\* The scan writes its audit entry here, and only for a kit it activates.
Activate(r) ==
    /\ stage[r] = "activating"
    /\ kits' = Activated(K(r))
    /\ Spawn(r, IF Op(r) = "scan" THEN {"VERIFY_SUCCESS"} ELSE {"activity verified"},
             Held(r).tenant, K(r))
    /\ Goto(r, "valid")
    /\ UNCHANGED <<clock, made, audit, task, history>>

\* The statement fails, or its answer is lost after it was executed: status 500.
\* Mutant: the failure is logged and the handler goes on.
ActivateFailsSilently(r) ==
    /\ stage[r] = "activating"
    /\ kits' \in {kits, Activated(K(r))}
    /\ Goto(r, "valid")
    /\ UNCHANGED <<clock, made, audit, auditors, task, history>>

ActivateFails(r) ==
    /\ stage[r] = "activating"
    /\ kits' \in {kits, Activated(K(r))}
    /\ Goto(r, "returning")
    /\ UNCHANGED <<clock, made, audit, auditors, task, history>>

\* "valid": true.  A verification always logs it.
AnswerValid(r) ==
    /\ stage[r] = "valid"
    /\ verdicts' = verdicts \cup
          {[kit |-> K(r), asked |-> task[r].asked, tenant |-> Held(r).tenant]}
    /\ Spawn(r, IF Op(r) = "verify" THEN {"VERIFY_SUCCESS"} ELSE {}, Held(r).tenant, K(r))
    /\ Goto(r, "returning")
    /\ UNCHANGED <<clock, made, kits, audit, task, checked>>

\* The handler has returned: its context is cancelled, and the goroutines that have
\* not written their entry yet can only log that they failed to.
Return(r) ==
    /\ stage[r] = "returning"
    /\ Goto(r, "idle")
    /\ task' = [task EXCEPT ![r] = NoTask]
    /\ auditors' = {g \in auditors : g.of # r}
    /\ UNCHANGED <<clock, made, kits, audit, history>>

(***************************************************************************)
(* RecordAuditEvent and RecordActivityEvent, while the context of their    *)
(* request lives.                                                          *)
(***************************************************************************)
RecordAuditEvent(g) ==
    /\ g \in auditors
    /\ audit' = audit \cup {g.entry}
    /\ auditors' = auditors \ {g}
    /\ UNCHANGED <<clock, made, kits, inflight, history>>

Tick ==
    /\ clock < MaxClock
    /\ clock' = clock + 1
    /\ UNCHANGED <<made, kits, audit, auditors, inflight, history>>

-----------------------------------------------------------------------------
Handle(r) ==
    \/ StoreKit(r)
    \/ StoreKitFails(r)
    \/ RefuseExpired(r)
    \/ PassCheck(r)
    \/ Activate(r)
    \/ ActivateFails(r)
    \/ AnswerValid(r)
    \/ Return(r)

Next ==
    \/ \E r \in Request, k \in Kit, t \in Tenant : GenerateKit(r, k, t)
    \/ \E r \in Request, op \in {"verify", "scan"}, k \in Kit, t \in Tenant \cup {NoTenant} :
          Lookup(r, op, k, t) \/ LookupFails(r, op, k, t)
    \/ \E r \in Request : Handle(r)
    \/ \E g \in auditors : RecordAuditEvent(g)
    \/ Tick

Spec == Init /\ [][Next]_vars

-----------------------------------------------------------------------------
(* Properties *)

\* Type invariant: a request that is past its lookup has found a row, and the
\* goroutines that can still write belong to a request that has not returned.
TypeOK ==
    /\ clock \in Time
    /\ made \subseteq Kit
    /\ kits \in [Kit -> Row \cup {NoRow}]
    /\ audit \subseteq Entry
    /\ auditors \subseteq Auditor
    /\ \A g \in auditors : stage[g.of] # "idle"
    /\ stage \in [Request -> Stage]
    /\ task \in [Request -> Task \cup {NoTask}]
    /\ \A r \in Request : stage[r] # "idle" => task[r] # NoTask
    /\ \A r \in Request : stage[r] \in {"looked", "activating", "valid"} =>
          Held(r) # NoRow /\ Op(r) # "kit"
    /\ checked \subseteq [kit: Kit, at: Time]
    /\ verdicts \subseteq Verdict

\* A caller that was told "valid" can rely on the kit being activated from then on,
\* whatever other verifications, failed updates and regenerations run beside it.
ValidIsActivated ==
    \A v \in verdicts : kits[v.kit] # NoRow /\ kits[v.kit].activated # Null

\* No kit becomes activated unless some handler found it unexpired before that: its
\* expiry can pass between check and update, but it is never left unchecked.
ActivatedWasFresh ==
    \A k \in Kit : kits[k] # NoRow /\ kits[k].activated # Null =>
        \E c \in checked : /\ c.kit = k
                           /\ c.at <= kits[k].expires
                           /\ c.at <= kits[k].activated

\* A kit is called valid only for the tenant it was stored for, also when the caller
\* names a tenant and the kit is stored between the caller's two attempts.
ValidForItsTenant ==
    \A v \in verdicts :
        kits[v.kit].tenant = v.tenant /\ v.asked \in {NoTenant, v.tenant}

\* What an entry says has happened: a success is about an activated kit of that
\* tenant, a generation about a kit that was generated, or stored for that tenant.
Truthful(e) ==
    /\ e.action \in {"VERIFY_SUCCESS", "activity verified", "activity generated"} =>
          kits[e.kit] # NoRow /\ kits[e.kit].tenant = e.tenant
    /\ e.action \in {"VERIFY_SUCCESS", "activity verified"} =>
          kits[e.kit].activated # Null
    /\ e.action \in {"KIT_GENERATED", "KIT_DOWNLOADED"} => e.kit \in made

\* The audit log and the activity feed, written later and by other goroutines, never
\* claim what did not happen.
AuditIsTruthful == \A e \in audit : Truthful(e)

-----------------------------------------------------------------------------
(* What comments and documents say and the code does not do. *)

\* PHASE_9: "All verification events logged to audit table": a success is in the log
\* or a goroutine is about to write it.
SuccessIsAudited ==
    \A v \in verdicts : \E e \in audit \cup {g.entry : g \in auditors} :
        e.action = "VERIFY_SUCCESS" /\ e.kit = v.kit /\ e.tenant = v.tenant

=============================================================================
