---------------------------- MODULE ExecutionGate -----------------------------
(***************************************************************************)
(* The execution gate of the backend (src/backend): what an operator would *)
(* be allowed, the ledger of the simulations that were asked for, the      *)
(* challenge for the hardware key, and the plans made for an action        *)
(* (candidates, chain of responsibility, risk, forecast, dry run).         *)
(*                                                                         *)
(* Handlers are synchronous, so each is one step.  Nothing is ever         *)
(* executed: checkExecutionGate answers allowed = false whatever it finds, *)
(* and what can be told apart are its requirements.  The setters of        *)
(* operator, approval and mode are exported, and no endpoint calls them.   *)
(***************************************************************************)
EXTENDS Integers, Sequences, FiniteSets

CONSTANTS
    None,           \* no operator, no pending challenge, nothing answered
    Registries,     \* agent registries: sequences of [role, status, capabilities]
    MaxLedger,      \* entries the ledger keeps: 1000
    MaxAttempts,    \* bound: simulations asked for
    MaxChallenges,  \* bound: challenges generated
    MaxAnswers      \* bound: plans asked for

ASSUME LedgerAssumption == MaxLedger \in Nat \ {0}
ASSUME BoundAssumption == MaxAttempts \in Nat /\ MaxChallenges \in Nat /\ MaxAnswers \in Nat
ASSUME NoneAssumption == None \notin Nat

VARIABLES
    agents,             \* agent-registry.js, which nothing changes
    operator,           \* currentOperatorSession
    approvedActions,
    executionMode,
    hardwareKey,        \* a key is registered
    pendingChallenge,
    issued,             \* challenges generated so far; they are numbered
    validated,          \* history: the challenges that were answered "verified"
    attempts,           \* history: simulations so far
    ledger,
    answer, answers     \* the last plan that was answered; how many were

gate == <<operator, approvedActions, executionMode>>
hardware == <<hardwareKey, pendingChallenge, issued, validated>>
record == <<attempts, ledger>>
plan == <<answer, answers>>
vars == <<agents, gate, hardware, record, plan>>

Action == {"get-status", "deploy"}
Role == {"viewer", "sovereign"}
Mode == {"disabled", "enabled"}     \* the three modes that are not "disabled" are alike
Destination == {"local", "prime", "operator", "federation"}
Operator == [role : Role, mfa : BOOLEAN]

ASSUME RegistryAssumption ==
    Registries \subseteq Seq([role : {"core", "edge", "observer"},
                             status : {"online", "offline"}, capabilities : SUBSET Action])

AllowedRoles == [a \in Action |-> IF a = "deploy" THEN {"sovereign"} ELSE Role]

Init ==
    /\ agents \in Registries
    /\ operator = None
    /\ approvedActions = {}
    /\ executionMode = "disabled"
    /\ hardwareKey = FALSE
    /\ pendingChallenge = None
    /\ issued = 0
    /\ validated = <<>>
    /\ attempts = 0
    /\ ledger = <<>>
    /\ answer = None
    /\ answers = 0

-----------------------------------------------------------------------------
(* The gate. *)

\* checkExecutionGate: what is required, and whether it is satisfied.
Requirements(a) ==
    [identity |-> operator # None,
     mfa      |-> operator # None /\ operator.mfa,
     policy   |-> operator # None /\ operator.role \in AllowedRoles[a],
     approval |-> a \in approvedActions,
     mode     |-> executionMode # "disabled"]

\* previewExecutionGate
WouldAllow(a) == \A r \in DOMAIN Requirements(a) : Requirements(a)[r]

\* Only the way to prime asks for a verified key.
HardwareValidFor(destination, verified) == destination # "prime" \/ verified

\* simulateExecution: everything but the second factor.
SimulationAllows(a, destination, verified) ==
    /\ \A r \in {"identity", "mode", "policy", "approval"} : Requirements(a)[r]
    /\ HardwareValidFor(destination, verified)

SetOperator ==
    /\ operator' \in Operator \cup {None}
    /\ UNCHANGED <<agents, approvedActions, executionMode, hardware, record, plan>>

SetApproval(a) ==
    /\ approvedActions' \in {approvedActions \cup {a}, approvedActions \ {a}, {}}
    /\ UNCHANGED <<agents, operator, executionMode, hardware, record, plan>>

SetExecutionMode ==
    /\ executionMode' \in Mode
    /\ UNCHANGED <<agents, operator, approvedActions, hardware, record, plan>>

\* Mutant: the newest entry is the one that goes.
KeepOldest(entries) ==
    IF Len(entries) > MaxLedger THEN SubSeq(entries, 1, MaxLedger) ELSE entries

\* recordExecutionAttempt keeps the latest entries.
Keep(entries) == IF Len(entries) > MaxLedger THEN Tail(entries) ELSE entries

\* POST /execution/simulate: the envelope names destination and key, and says itself
\* whether the key was verified.
Simulate(a, destination, verified) ==
    /\ attempts < MaxAttempts
    /\ attempts' = attempts + 1
    /\ ledger' = Keep(Append(ledger,
                     [id |-> attempts', allowed |-> SimulationAllows(a, destination, verified)]))
    /\ UNCHANGED <<agents, gate, hardware, plan>>

-----------------------------------------------------------------------------
(* The hardware key. *)

RegisterHardware ==
    /\ hardwareKey' = TRUE
    /\ UNCHANGED <<agents, gate, pendingChallenge, issued, validated, record, plan>>

GenerateChallenge ==
    /\ issued < MaxChallenges
    /\ issued' = issued + 1
    /\ pendingChallenge' = issued'
    /\ UNCHANGED <<agents, gate, hardwareKey, validated, record, plan>>

\* Mutant: the challenge stays pending.
ValidateKeeping(c) ==
    /\ operator # None
    /\ c = pendingChallenge /\ hardwareKey
    /\ Len(validated) <= MaxChallenges
    /\ validated' = Append(validated, c)
    /\ UNCHANGED <<agents, gate, hardwareKey, pendingChallenge, issued, record, plan>>

\* POST /operator/hardware/validate, with a signature; any other answer changes nothing.
Validate(c) ==
    /\ operator # None
    /\ c = pendingChallenge /\ hardwareKey
    /\ pendingChallenge' = None
    /\ validated' = Append(validated, c)
    /\ UNCHANGED <<agents, gate, hardwareKey, issued, record, plan>>

\* The console's button asks for a challenge, has the key sign it, and sends it back; of
\* several consoles any may answer last, with a challenge that was issued long before.
VerifyKey == GenerateChallenge \/ \E c \in 1..issued : Validate(c)

-----------------------------------------------------------------------------
(* Plans.  Chances are in percent. *)

SafetyLevel == [a \in Action |-> IF a = "deploy" THEN "elevated" ELSE "safe"]
Surcharge == [a \in Action |-> IF a = "deploy" THEN 10 ELSE 0]

FailureChance == [core |-> 3, edge |-> 12, observer |-> 5]
Confidence == [core |-> 95, edge |-> 85, observer |-> 80]
FallbackTier == [core |-> 1, edge |-> 2, observer |-> 3]

Online(c) == c.status = "online"

\* An eligible agent, as it is scored.
Candidate(i, a) ==
    [agent |-> i, role |-> agents[i].role, status |-> agents[i].status,
     tier |-> FallbackTier[agents[i].role],
     confidence |-> IF Online(agents[i]) THEN Confidence[agents[i].role] ELSE 10,
     risk |-> FailureChance[agents[i].role] + Surcharge[a]]

\* getEligibleAgents
Eligible(a) == {j \in DOMAIN agents : a \in agents[j].capabilities}

Scored(a) == {Candidate(i, a) : i \in Eligible(a)}

\* Mutant: the tier comes before the status.
BeforeByTier(c, d) ==
    \/ c.tier < d.tier
    \/ c.tier = d.tier /\ Online(c) /\ ~Online(d)
    \/ c.tier = d.tier /\ c.status = d.status /\ c.agent < d.agent

\* The order of the candidates.  Agents of a tier and a status are scored alike, and the
\* sort is stable.
Before(c, d) ==
    \/ Online(c) /\ ~Online(d)
    \/ c.status = d.status /\ c.tier < d.tier
    \/ c.status = d.status /\ c.tier = d.tier /\ c.agent < d.agent

InOrder(cs) == \A k, l \in DOMAIN cs : k < l => Before(cs[k], cs[l])

\* buildExecutionCandidates: the scored agents, sorted.  As the order is strict, none of
\* them is there twice.
Candidates(C) == CHOOSE cs \in [1..Cardinality(C) -> C] : InOrder(cs)

Primary(C) == {c \in C : c.tier = 1}
Fallback(C) == {c \in C : c.tier > 1}
Ready(C) == {c \in C : Online(c)}

\* The sum of a score over candidates: those of a role are scored alike.
Total(C, score) ==
    LET sum(role) == score[role] * Cardinality({c \in C : c.role = role})
    IN  sum("core") + sum("edge") + sum("observer")

\* buildExecutionChain: who is responsible, in which order, and who follows.
Chain(cs) ==
    [k \in DOMAIN cs |-> [agent |-> cs[k].agent, online |-> Online(cs[k]),
                          isPrimary |-> cs[k].tier = 1, fallback |-> k + 1 \in DOMAIN cs]]

Risky(C, limit) == \E c \in C : c.risk > limit

\* calculateRiskScore.  Only observers average 15, and binary fractions put them above it.
FailureLikelihood(a, C) ==
    LET risk == Total(C, FailureChance) + Surcharge[a] * Cardinality(C)
    IN  IF Ready(C) = {} THEN "high"
        ELSE IF 2 * Cardinality(Ready(C)) < Cardinality(C) THEN "moderate"
        ELSE IF risk >= 15 * Cardinality(C) \/ Risky(C, 30) THEN "moderate" ELSE "low"

AvailabilityImpact(C) ==
    IF Primary(C) = {} THEN "high"
    ELSE IF Ready(Primary(C)) # {} THEN "low"
    ELSE IF Fallback(C) = {} THEN "high" ELSE "moderate"

AllPrimaryReady(C) == Primary(C) \subseteq Ready(C)

\* forecastOutcome
ExpectedState(C) ==
    IF C = {} THEN "unknown"
    ELSE IF Ready(C) = {} THEN "degraded"
    ELSE IF Ready(Primary(C)) = {} /\ Fallback(C) = {} THEN "degraded"
    ELSE IF Risky(Ready(C), 30) THEN "at-risk"
    ELSE IF ~AllPrimaryReady(C) /\ Fallback(C) = {} THEN "degraded" ELSE "healthy"

Availability(C) ==
    IF C = {} THEN "unknown"
    ELSE IF Ready(Primary(C)) = {}
         THEN IF Ready(Fallback(C)) # {} THEN "moderate" ELSE "low"
    ELSE IF ~AllPrimaryReady(C) \/ Risky(C, 20) THEN "moderate" ELSE "high"

\* What the agents that are online are trusted with, on average, is at least x.
Trusted(C, x) == Total(Ready(C), Confidence) >= x * Cardinality(Ready(C))

ForecastConfidence(C) ==
    IF C = {} THEN "low"
    ELSE IF Ready(C) # {} /\ Trusted(C, 90) /\ AllPrimaryReady(C) /\ ~Risky(C, 9)
         THEN "high"
    ELSE IF Ready(C) = {} \/ ~Trusted(C, 60) \/ 2 * Cardinality(Ready(C)) < Cardinality(C)
         THEN "low"
    ELSE "moderate"

\* GET /execution/candidates, /chain, /risk and /forecast.
Plan(a) ==
    /\ answers < MaxAnswers
    /\ answers' = answers + 1
    /\ LET C == Scored(a)
       IN  answer' = [kind |-> "plan", chain |-> Chain(Candidates(C)),
                      failureLikelihood |-> FailureLikelihood(a, C),
                      availabilityImpact |-> AvailabilityImpact(C),
                      expectedState |-> ExpectedState(C), availability |-> Availability(C),
                      confidence |-> ForecastConfidence(C)]
    /\ UNCHANGED <<agents, gate, hardware, record>>

-----------------------------------------------------------------------------
(* The dry run. *)

Scenario == {"normal", "edge-degraded", "core-offline", "pi-cluster-only"}

\* What a roll may say of an agent; the first agent is the one a scenario takes offline.
Outcomes(i, scenarios) ==
    IF "core-offline" \in scenarios /\ i = 1 THEN {"unreachable"}
    ELSE IF "pi-cluster-only" \in scenarios /\ agents[i].role = "observer"
         THEN {"failed", "unreachable"}
    ELSE {"ok", "failed", "unreachable"}

\* executor: the feedback is summed up.
Summary(targets, status) ==
    LET number(s) == Cardinality({i \in targets : status[i] \in s})
    IN  [kind |-> "run", total |-> Cardinality(targets), ok |-> number({"ok"}),
         retryAttempts |-> number({"failed", "unreachable"}),
         fallbackUsed |-> number({"unreachable"}),
         converged |-> number({"failed"}) = 0 /\ number({"unreachable"}) = 0]

\* POST /api/simulate and /api/channel/dryrun.
DryRun(a, scenarios) ==
    /\ answers < MaxAnswers
    /\ answers' = answers + 1
    /\ \E status \in [Eligible(a) -> {"ok", "failed", "unreachable"}] :
          /\ \A i \in Eligible(a) : status[i] \in Outcomes(i, scenarios)
          /\ answer' = Summary(Eligible(a), status)
    /\ UNCHANGED <<agents, gate, hardware, record>>

Next ==
    \/ SetOperator \/ SetExecutionMode
    \/ \E a \in Action :
          \/ SetApproval(a) \/ Plan(a)
          \/ \E d \in Destination, verified \in BOOLEAN : Simulate(a, d, verified)
          \/ \E scenarios \in SUBSET Scenario \ {{}} : DryRun(a, scenarios)
    \/ RegisterHardware \/ VerifyKey

Spec == Init /\ [][Next]_vars

-----------------------------------------------------------------------------
\* Type correctness of the gate's stores.
TypeOK ==
    /\ agents \in Registries
    /\ operator \in Operator \cup {None}
    /\ approvedActions \subseteq Action
    /\ executionMode \in Mode
    /\ hardwareKey \in BOOLEAN
    /\ issued \in 0..MaxChallenges
    /\ pendingChallenge \in 1..issued \cup {None}
    /\ validated \in Seq(1..issued)
    /\ attempts \in 0..MaxAttempts
    /\ ledger \in Seq([id : 1..attempts, allowed : BOOLEAN])
    /\ answers \in 0..MaxAnswers

\* The ledger holds the latest attempts, all of them and in order, whatever was dropped.
LedgerIsTail ==
    /\ Len(ledger) = IF attempts < MaxLedger THEN attempts ELSE MaxLedger
    /\ \A k \in DOMAIN ledger : ledger[k].id = attempts - Len(ledger) + k

\* No challenge is accepted twice, nor one that a later one has replaced, however
\* generations, validations and changes of operator interleave.
ChallengeSpentOnce ==
    \A i, j \in DOMAIN validated : i < j => validated[i] < validated[j]

\* The preview and the simulation, which check the same state separately, do not
\* contradict each other: what would be allowed is allowed for every destination that
\* needs no key.
PreviewIsHonoured ==
    \A a \in Action, d \in Destination \ {"prime"} :
        WouldAllow(a) => SimulationAllows(a, d, FALSE)

\* What the plan for an action says: an agent that is offline never comes before one that
\* is online; the forecast is only confident of a healthy, available state that the risk
\* score does not contradict; and a failure is certain only with nobody online.
PlanFits(p) ==
    /\ p.kind = "plan"
    /\ \A k, l \in DOMAIN p.chain : k < l /\ p.chain[l].online => p.chain[k].online
    /\ p.confidence = "high" =>
          /\ p.expectedState = "healthy" /\ p.availability = "high"
          /\ p.failureLikelihood # "high" /\ p.availabilityImpact = "low"
    /\ p.failureLikelihood = "high" <=> \A k \in DOMAIN p.chain : ~p.chain[k].online
    /\ p.expectedState = "healthy" => p.availability # "low"

\* What a dry run sums up: every agent that did not answer well was retried, and it
\* converges only if none was.
RunFits(r) ==
    /\ r.kind = "run"
    /\ r.ok + r.retryAttempts = r.total
    /\ r.converged <=> r.retryAttempts = 0

\* What is answered of one action fits together, although chain, risk, forecast and dry
\* run are worked out apart.
AnswersAgree == answer # None => PlanFits(answer) \/ RunFits(answer)
=============================================================================
