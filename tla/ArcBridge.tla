------------------------------ MODULE ArcBridge ------------------------------
(***************************************************************************)
(* The arc bridge (arc-bridge-local/src/server.ts): the federation stores, *)
(* the operator slot, and the two routes by which a text becomes an intent *)
(* (services/intentEngine.ts) and an intent an action                      *)
(* (services/actionRouter.ts).  All of them live in one process: a request *)
(* that ends it empties every store.                                       *)
(***************************************************************************)
EXTENDS ArcFederation, ArcOperator

CONSTANT
    MaxRequests     \* bound: requests one process takes

ASSUME ArcBridgeAssumption == MaxRequests \in Nat

VARIABLES
    requests        \* requests this process has taken

bridgeVars == <<now, fedVars, opVars, requests>>

\* What the patterns of the engine look for in a text.
Phrase == {"open arc", "arc name", "mesh", "spawn agent", "agent name"}

\* The first pattern that the text has decides; the name may still be missing.
AnalyzeIntent(text) ==
    IF "open arc" \in text
    THEN [intent |-> "OPEN_ARC", target |-> IF "arc name" \in text THEN "arc" ELSE "null"]
    ELSE IF "mesh" \in text THEN [intent |-> "QUERY_STATUS", target |-> "mesh"]
    ELSE IF "spawn agent" \in text
    THEN [intent |-> "SPAWN_AGENT", target |-> IF "agent name" \in text THEN "agent" ELSE "null"]
    ELSE [intent |-> "UNKNOWN", target |-> "null"]

\* The message of OPEN_ARC is made of the target's upper case, and null has none.
RouteActionThrows(i) == i.intent = "OPEN_ARC" /\ i.target = "null"

-----------------------------------------------------------------------------
BridgeInit == FedInit /\ OpInit /\ requests = 0

BridgeRestart ==
    /\ FedRestart
    /\ OpRestart
    /\ requests' = 0

TakeRequest ==
    /\ requests < MaxRequests
    /\ requests' = requests + 1

Federation ==
    /\ FedNext
    /\ IF now' = now THEN TakeRequest ELSE UNCHANGED requests
    /\ UNCHANGED opVars

OperatorRoutes ==
    /\ OpRequest
    /\ TakeRequest
    /\ UNCHANGED <<now, fedVars>>

FiveMinutes ==
    /\ ChallengeExpires
    /\ UNCHANGED <<now, fedVars, requests>>

\* POST /api/intent, whose answer the client posts to /api/act.  That handler is
\* async and its rejection is not caught, which ends the process; an intent that
\* can be routed changes nothing.
Act(text) ==
    /\ RouteActionThrows(AnalyzeIntent(text))
    /\ BridgeRestart

BridgeNext ==
    \/ Federation
    \/ OperatorRoutes
    \/ FiveMinutes
    \/ \E text \in SUBSET Phrase : Act(text)

BridgeSpec == BridgeInit /\ [][BridgeNext]_bridgeVars

-----------------------------------------------------------------------------
\* Type correctness of the whole process.
BridgeTypeOK ==
    /\ FedTypeOK
    /\ OpTypeOK
    /\ requests \in 0..MaxRequests
=============================================================================
