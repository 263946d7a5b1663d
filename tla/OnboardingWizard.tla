-------------------------- MODULE OnboardingWizard ---------------------------
(***************************************************************************)
(* The onboarding wizard of the front end (app/onboarding): five pages     *)
(* that fill a persisted store, the review page that creates the tenant    *)
(* and has its bootstrap kit made, and the guard that hides the pages when *)
(* the operator's capability token (OCT) has run out.                      *)
(*                                                                         *)
(* A handler goes on when its page has been left: it may still write the   *)
(* browser's storage, but no longer the state of a page.  Nothing under    *)
(* src/ puts a token into the storage, so that is the environment's.       *)
(***************************************************************************)
EXTENDS Naturals, Sequences, FiniteSets

CONSTANTS
    Company,        \* valid company profiles
    None,           \* nothing stored, entered, known or shown
    Placeholder,    \* a fingerprint that the page has made up
    Ttl,            \* ticks a kit lives: 15 minutes on both sides
    MaxClock,       \* bound: ticks
    MaxClicks,      \* bound: presses of "Generate Bootstrap Kit"
    MaxKits         \* bound: kits the server makes

ASSUME NumbersAssumption == Ttl \in Nat /\ MaxClock \in Nat
ASSUME NoneAssumption == None \notin Nat

VARIABLES
    bypass,         \* NEXT_PUBLIC_BYPASS_YUBIKEY
    oct, seen,      \* the stored token, and what the guard last saw of it
    store,          \* onboarding-storage: the entry of every step, or None
    lastTenantId,   \* in the browser's storage
    page, form,     \* the page that is mounted, and what is entered there
    step,           \* the step of the personal page
    validation,     \* of the access page: the answer shown, or pending
    review,         \* the state of the review page that is mounted
    handler,        \* every run of handleGenerateKit
    tenants, kits,  \* on the server
    excuses,        \* history: tenants whose number the browser may have missed
    now

storage == <<bypass, oct, store, lastTenantId>>
server == <<tenants, kits>>
vars == <<storage, seen, page, form, step, validation, review, handler, server, excuses, now>>

Steps == <<"company", "data-regions", "agents", "access">>
Step == {Steps[i] : i \in DOMAIN Steps}
Page == Step \cup {"review", "personal", "other"}

\* What the schema or the page's own check accepts.
CompanyEntry == Company             \* with a name and an address
RegionsEntry == {"chosen"}          \* a region
AgentsEntry == {"chosen"}           \* an agent
AccessEntry == {"local", "sso"}     \* an administrator's address; a provider's client

Entry == [s \in Step |-> CASE s = "company"      -> CompanyEntry
                           [] s = "data-regions" -> RegionsEntry
                           [] s = "agents"       -> AgentsEntry
                           [] s = "access"       -> AccessEntry]

NoReview == [busy |-> FALSE, success |-> FALSE, tenant |-> None, fingerprint |-> None,
             left |-> Ttl, expired |-> FALSE, downloads |-> <<>>]

Visible == bypass \/ seen

Init ==
    /\ bypass \in BOOLEAN
    /\ oct \in {"none", "valid"}
    /\ seen = FALSE
    /\ store = [s \in Step |-> None]
    /\ lastTenantId = None
    /\ page = "other"
    /\ form = None
    /\ step = 1
    /\ validation = "none"
    /\ review = NoReview
    /\ handler = <<>>
    /\ tenants = <<>>
    /\ kits = <<>>
    /\ excuses = 0
    /\ now = 0

-----------------------------------------------------------------------------
(* The pages. *)

\* A page is mounted with what is stored for it; what belonged to the old one is gone,
\* and the handlers it started find nothing mounted.
Mount(p) ==
    /\ page' = p
    /\ form' = IF p \in Step THEN store'[p] ELSE None
    /\ step' = 1
    /\ seen' = (oct = "valid")
    /\ validation' = "none"
    /\ review' = NoReview
    /\ handler' = [i \in DOMAIN handler |-> [handler[i] EXCEPT !.mounted = FALSE]]

\* The review page sends the user to the first step that is not filled in.
MissingStep == {i \in DOMAIN Steps : store[Steps[i]] = None}
Landing(p) ==
    IF p # "review" \/ MissingStep = {} THEN p
    ELSE Steps[CHOOSE i \in MissingStep : \A j \in MissingStep : i <= j]

\* A link, a button, the address bar or the history leads to a page.
Go(p) ==
    /\ UNCHANGED <<storage, server, excuses, now>>
    /\ Mount(Landing(p))

InFlight == {i \in DOMAIN handler : handler[i].phase \in {"tenant", "created"}}

\* The tab is loaded again: the storage is kept, and nothing hears the answers.
Reload ==
    /\ excuses' = excuses + Cardinality(InFlight)
    /\ UNCHANGED <<storage, server, now>>
    /\ page' = page
    /\ form' = IF page \in Step THEN store[page] ELSE None
    /\ step' = 1
    /\ seen' = (oct = "valid")
    /\ validation' = "none"
    /\ review' = NoReview
    /\ handler' = [i \in DOMAIN handler |-> [handler[i] EXCEPT !.phase = "over", !.mounted = FALSE]]

\* Typing and choosing.  An answer that is shown for another configuration stays.
Edit ==
    /\ Visible
    /\ form' \in Entry[page] \cup {None}
    /\ UNCHANGED <<storage, seen, page, step, validation, review, handler, server, excuses, now>>

\* Next: what is valid is stored, and the next page follows.
NextStep(p) ==
    /\ Visible
    /\ form \in Entry[page]
    /\ store' = [store EXCEPT ![page] = form]
    /\ UNCHANGED <<bypass, oct, lastTenantId, server, excuses, now>>
    /\ Mount(p)

\* handleValidateIdentity asks the server only when a tenant is known already.
ValidateIdentity ==
    /\ Visible
    /\ form = "sso" /\ validation # "pending"
    /\ validation' = IF lastTenantId = None THEN "invalid" ELSE "pending"
    /\ UNCHANGED <<storage, seen, page, form, step, review, handler, server, excuses, now>>

IdentityValidated ==
    /\ validation = "pending"
    /\ validation' \in {"valid", "invalid"}
    /\ UNCHANGED <<storage, seen, page, form, step, review, handler, server, excuses, now>>

CompanyPage == page = "company" /\ (Edit \/ NextStep("data-regions"))
DataRegionsPage == page = "data-regions" /\ (Edit \/ NextStep("agents"))
AgentsPage == page = "agents" /\ (Edit \/ NextStep("access"))
AccessPage ==
    page = "access" /\ (Edit \/ NextStep("review") \/ ValidateIdentity \/ IdentityValidated)

\* The buttons of the personal page: identity, intent, and a last look.
PersonalStep ==
    \/ step < 3 /\ step' = step + 1 /\ page' = page
    \/ step > 1 /\ step' = step - 1 /\ page' = page
    \/ step \in {1, 3} /\ step' = 1 /\ page' = "other"

\* It has no guard, and what it leads to is a page that the layout does not render.
PersonalPage ==
    /\ page = "personal"
    /\ PersonalStep
    /\ UNCHANGED <<storage, seen, form, validation, review, handler, server, excuses, now>>

-----------------------------------------------------------------------------
(* The review page. *)

Pressable ==
    /\ Visible /\ page = "review"
    /\ ~review.busy /\ ~review.success
    /\ MissingStep = {}

KnownTenant == IF review.tenant # None THEN review.tenant ELSE lastTenantId

\* handleGenerateKit, up to its first request.
GenerateKit ==
    /\ Pressable
    /\ Len(handler) < MaxClicks
    /\ review' = [review EXCEPT !.busy = bypass \/ oct # "none"]
    /\ handler' = Append(handler,
           [company |-> store["company"], mounted |-> TRUE, tenant |-> KnownTenant, kit |-> None,
            phase |-> IF bypass THEN "pretend"
                      ELSE IF oct = "none" THEN "over"
                      ELSE IF KnownTenant = None THEN "tenant" ELSE "kit",
            fingerprint |-> None])
    /\ excuses' = IF ~bypass /\ KnownTenant = None /\ InFlight # {}
                  THEN excuses + 1 ELSE excuses
    /\ UNCHANGED <<storage, seen, page, form, step, validation, server, now>>

\* The server creates the tenant.
TenantCreated(i) ==
    /\ handler[i].phase = "tenant"
    /\ tenants' = Append(tenants, handler[i].company)
    /\ handler' = [handler EXCEPT ![i].phase = "created", ![i].tenant = Len(tenants')]
    /\ UNCHANGED <<storage, seen, page, form, step, validation, review, kits, excuses, now>>

\* Mutant: the tenant is remembered by the page only.
TenantKnownHere(i) ==
    /\ handler[i].phase = "created"
    /\ handler' = [handler EXCEPT ![i].phase = "kit"]
    /\ review' = IF handler[i].mounted
                 THEN [review EXCEPT !.tenant = handler[i].tenant] ELSE review
    /\ UNCHANGED <<storage, seen, page, form, step, validation, server, excuses, now>>

\* Its number arrives, and is kept in the page and in the storage.
TenantKnown(i) ==
    /\ handler[i].phase = "created"
    /\ handler' = [handler EXCEPT ![i].phase = "kit"]
    /\ review' = IF handler[i].mounted
                 THEN [review EXCEPT !.tenant = handler[i].tenant] ELSE review
    /\ lastTenantId' = handler[i].tenant
    /\ UNCHANGED <<bypass, oct, seen, store, page, form, step, validation, server, excuses, now>>

\* The server makes a kit for the tenant that is asked for, from the body of the request.
KitMade(i) ==
    /\ handler[i].phase = "kit"
    /\ Len(kits) < MaxKits
    /\ kits' = Append(kits, [tenant |-> handler[i].tenant, at |-> now])
    /\ handler' = [handler EXCEPT ![i].phase = "made", ![i].kit = Len(kits')]
    /\ UNCHANGED <<storage, seen, page, form, step, validation, review, tenants, excuses, now>>

LatestKitOf(t) ==
    LET of == {k \in DOMAIN kits : kits[k].tenant = t}
    IN  CHOOSE k \in of : \A l \in of : l <= k

\* The kit arrives and its fingerprint is asked for: it is that of the tenant's latest
\* kit, none, or one that the page makes up.
MetaRead(i) ==
    /\ handler[i].phase = "made"
    /\ \E f \in {LatestKitOf(handler[i].tenant), None, Placeholder} :
           handler' = [handler EXCEPT ![i].phase = "meta", ![i].fingerprint = f]
    /\ UNCHANGED <<storage, seen, page, form, step, validation, review, server, excuses, now>>

\* The simulation of a build that bypasses the key.
Pretend(i) ==
    /\ handler[i].phase = "pretend"
    /\ handler' = [handler EXCEPT ![i].phase = "meta", ![i].fingerprint = Placeholder]
    /\ UNCHANGED <<storage, seen, page, form, step, validation, review, server, excuses, now>>

\* The page shows the kit, and the countdown starts.
Succeed(i) ==
    /\ handler[i].phase = "meta"
    /\ handler' = [handler EXCEPT ![i].phase = "over"]
    /\ review' = IF handler[i].mounted
                 THEN [review EXCEPT !.busy = FALSE, !.success = TRUE, !.left = Ttl,
                                     !.expired = FALSE, !.fingerprint = handler[i].fingerprint,
                                     !.downloads = IF bypass THEN <<>> ELSE <<handler[i].kit>>]
                 ELSE review
    /\ UNCHANGED <<storage, seen, page, form, step, validation, server, excuses, now>>

\* A request is refused, fails, or its answer is lost: an alert, and the button is back.
Fail(i) ==
    /\ handler[i].phase \in {"tenant", "created", "kit", "made"}
    /\ handler' = [handler EXCEPT ![i].phase = "over"]
    /\ review' = IF handler[i].mounted THEN [review EXCEPT !.busy = FALSE] ELSE review
    /\ excuses' = IF handler[i].phase = "created" THEN excuses + 1 ELSE excuses
    /\ UNCHANGED <<storage, seen, page, form, step, validation, server, now>>

\* "Download Kit" has another kit made; fingerprint and countdown stay as they are.
DownloadAgain ==
    /\ Visible /\ page = "review" /\ review.success /\ ~review.expired
    /\ KnownTenant # None
    /\ Len(kits) < MaxKits
    /\ kits' = Append(kits, [tenant |-> KnownTenant, at |-> now])
    /\ review' = [review EXCEPT !.downloads = Append(@, Len(kits'))]
    /\ UNCHANGED <<storage, seen, page, form, step, validation, handler, tenants, excuses, now>>

-----------------------------------------------------------------------------
(* Time and the environment. *)

\* Mutant: the last minute is taken for the end.
CountdownEndingEarly(r) ==
    IF r.success /\ ~r.expired
    THEN [r EXCEPT !.left = IF @ <= 2 THEN 0 ELSE @ - 1, !.expired = r.left <= 2]
    ELSE r

\* The interval of the review page.
Countdown(r) ==
    IF r.success /\ ~r.expired
    THEN [r EXCEPT !.left = IF @ <= 1 THEN 0 ELSE @ - 1, !.expired = r.left <= 1]
    ELSE r

\* A tick; the browser may have put the interval of the page off.
Tick ==
    /\ now < MaxClock
    /\ now' = now + 1
    /\ review' \in {review, Countdown(review)}
    /\ UNCHANGED <<storage, seen, page, form, step, validation, handler, server, excuses>>

\* The guard looks every five seconds.
CheckOCT ==
    /\ seen' = (oct = "valid")
    /\ UNCHANGED <<storage, page, form, step, validation, review, handler, server, excuses, now>>

\* A token runs out, or is put into the storage by something outside this code.
OCTChanges ==
    /\ oct' = IF oct = "valid" THEN "expired" ELSE "valid"
    /\ UNCHANGED <<bypass, store, lastTenantId, seen, page, form, step, validation, review,
                   handler, server, excuses, now>>

ReviewPage == GenerateKit \/ DownloadAgain

Handler(i) ==
    \/ TenantCreated(i) \/ TenantKnown(i) \/ KitMade(i) \/ MetaRead(i)
    \/ Pretend(i) \/ Succeed(i) \/ Fail(i)

Next ==
    \/ \E p \in Page : Go(p)
    \/ Reload
    \/ CompanyPage \/ DataRegionsPage \/ AgentsPage \/ AccessPage
    \/ PersonalPage
    \/ ReviewPage
    \/ \E i \in DOMAIN handler : Handler(i)
    \/ Tick \/ CheckOCT \/ OCTChanges

Spec == Init /\ [][Next]_vars

-----------------------------------------------------------------------------
\* Type correctness of the browser's storage, the page and the server; a kit is asked for
\* only with the number of a tenant there is.
TypeOK ==
    /\ bypass \in BOOLEAN /\ seen \in BOOLEAN
    /\ oct \in {"none", "valid", "expired"}
    /\ \A s \in Step : store[s] \in Entry[s] \cup {None}
    /\ lastTenantId \in DOMAIN tenants \cup {None}
    /\ page \in Page
    /\ tenants \in Seq(Company)
    /\ \A k \in DOMAIN kits : kits[k].tenant \in DOMAIN tenants /\ kits[k].at \in 0..now
    /\ review.fingerprint \in DOMAIN kits \cup {None, Placeholder}
    /\ review.left \in 0..Ttl
    /\ \A i \in DOMAIN handler : handler[i].phase = "kit" => handler[i].tenant \in DOMAIN tenants

\* The server never holds more tenants than one and those whose number the browser could
\* not learn in time: the answer was lost, or two presses overlapped.  Retries, reloads
\* and new visits use the tenant that is known.
TenantsAccountedFor == Len(tenants) <= 1 + excuses

\* When the page calls the kit expired, so does the server, for the kit that came with the
\* fingerprint on the page.
ExpiryIsReal ==
    review.expired /\ review.downloads # <<>> => now >= kits[Head(review.downloads)].at + Ttl
=============================================================================
