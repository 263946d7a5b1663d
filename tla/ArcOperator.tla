----------------------------- MODULE ArcOperator -----------------------------
(***************************************************************************)
(* The operator slot of the arc bridge (arc-bridge-local/src): one         *)
(* identity, one challenge for everybody and one verified flag, written by *)
(* the handlers of routes/operator.ts, which run to their end.             *)
(*                                                                         *)
(* A signature is the pair of its key and what it was made over.           *)
(***************************************************************************)
EXTENDS Naturals

CONSTANTS
    OperatorId,       \* operator ids
    Key,            \* public keys that can be imported
    None,           \* no operator, no credential, no challenge
    MaxChallenge    \* bound: challenges the bridge hands out

VARIABLES
    operator,            \* the slot: id, source and credential
    currentChallenge,    \* the challenge, and whether its five minutes are over
    lastChallenge,       \* number of the challenge handed out last
    operatorSession,     \* the verified flag
    verifiedFor          \* history: the slot when an assertion was last verified

opVars == <<operator, currentChallenge, lastChallenge, operatorSession, verifiedFor>>

ChallengeNo == 1..MaxChallenge

\* A credential may lack its key, or have it in a form that is not PEM.
Credential == [publicKey : Key \cup {"", "raw"}, attested : BOOLEAN]
Identity == [id : OperatorId, source : {"pending", "webauthn"}, credential : Credential \cup {None}]

\* What it is signed over: nothing, the challenge, or its own client data.
Assertion == [challenge : ChallengeNo \cup {None}, signature : {"", "challenge", "clientData"},
              key : Key, over : ChallengeNo \cup {None}]

ASSUME ArcOperatorAssumption ==
    /\ None \notin OperatorId \cup ChallengeNo \cup Credential \cup Identity
    /\ {"", "raw"} \cap Key = {}
    /\ MaxChallenge \in Nat

-----------------------------------------------------------------------------
OpInit ==
    /\ operator = None
    /\ currentChallenge = [value |-> None, expired |-> FALSE]
    /\ lastChallenge = 0
    /\ operatorSession = FALSE
    /\ verifiedFor = None

NoChallenge == [value |-> None, expired |-> FALSE]

\* getCurrentChallenge: looking at an expired challenge removes it.
LiveChallenge == IF currentChallenge.expired THEN None ELSE currentChallenge.value
LookedAt == IF currentChallenge.expired THEN NoChallenge ELSE currentChallenge

\* registerOperator replaces the whole identity.
RegisterOperator(id, source, credential) ==
    operator' = [id |-> id, source |-> source, credential |-> credential]

Register(id, source, credential) ==
    /\ RegisterOperator(id, source, credential)
    /\ UNCHANGED <<currentChallenge, lastChallenge, operatorSession, verifiedFor>>

StoreCredential(id, credential) ==
    /\ RegisterOperator(id, IF credential.attested THEN "webauthn" ELSE "pending", credential)
    /\ UNCHANGED <<currentChallenge, lastChallenge, operatorSession, verifiedFor>>

GenerateChallenge ==
    /\ lastChallenge < MaxChallenge
    /\ lastChallenge' = lastChallenge + 1
    /\ currentChallenge' = [value |-> lastChallenge + 1, expired |-> FALSE]
    /\ UNCHANGED <<operator, operatorSession, verifiedFor>>

ReadChallenge ==
    /\ currentChallenge' = LookedAt
    /\ UNCHANGED <<operator, lastChallenge, operatorSession, verifiedFor>>

\* The assertion is stored as a new identity, without a credential.
StoreAssertion(id) ==
    /\ RegisterOperator(id, "webauthn", None)
    /\ currentChallenge' = LookedAt
    /\ UNCHANGED <<lastChallenge, operatorSession, verifiedFor>>

\* The signature is checked if there is one and there is a key to check it with.
SignatureHolds(a, key) ==
    /\ key \in Key
    /\ a.key = key
    /\ a.signature = "challenge" => LiveChallenge # None /\ a.over = LiveChallenge

\* Mutant: an operator without a credential passes like one without a key.
VerifyAssertionOfAnyone(a) ==
    /\ ~(a.challenge # None /\ LiveChallenge # None /\ a.challenge # LiveChallenge)
    /\ \/ a.signature = "" \/ operator = None
       \/ operator # None /\ operator.credential = None
       \/ operator # None /\ operator.credential # None /\ SignatureHolds(a, operator.credential.publicKey)

VerifyAssertion(a) ==
    /\ operator # None /\ operator.credential # None
    /\ ~(a.challenge # None /\ LiveChallenge # None /\ a.challenge # LiveChallenge)
    /\ (a.signature # "" /\ operator.credential.publicKey # "") =>
          SignatureHolds(a, operator.credential.publicKey)

\* POST /verify: the flag is set by an assertion that verifies, and never cleared.
Verify(a) ==
    /\ operatorSession' = (operatorSession \/ VerifyAssertion(a))
    /\ verifiedFor' = IF VerifyAssertion(a) THEN operator ELSE verifiedFor
    /\ currentChallenge' = LookedAt
    /\ UNCHANGED <<operator, lastChallenge>>

\* Five minutes pass.
ChallengeExpires ==
    /\ currentChallenge.value # None
    /\ currentChallenge' = [currentChallenge EXCEPT !.expired = TRUE]
    /\ UNCHANGED <<operator, lastChallenge, operatorSession, verifiedFor>>

\* Everything is in memory; challenges are random and do not come back.
OpRestart ==
    /\ operator' = None
    /\ currentChallenge' = NoChallenge
    /\ operatorSession' = FALSE
    /\ verifiedFor' = None
    /\ UNCHANGED lastChallenge

OpRequest ==
    \/ \E id \in OperatorId, source \in {"pending", "webauthn"}, credential \in Credential \cup {None} :
          Register(id, source, credential)
    \/ \E id \in OperatorId, credential \in Credential : StoreCredential(id, credential)
    \/ GenerateChallenge
    \/ ReadChallenge
    \/ \E id \in OperatorId : StoreAssertion(id)
    \/ \E a \in Assertion : Verify(a)

-----------------------------------------------------------------------------
OpTypeOK ==
    /\ operator \in Identity \cup {None}
    /\ currentChallenge \in [value : ChallengeNo \cup {None}, expired : BOOLEAN]
    /\ lastChallenge \in 0..MaxChallenge
    /\ operatorSession \in BOOLEAN
    /\ verifiedFor \in Identity \cup {None}

(***************************************************************************)
(* The state endpoint never shows a verified session next to an empty slot,*)
(* and the flag goes back to an identity of this process that had a        *)
(* credential when its assertion was verified (webauthn-verify.ts:30,      *)
(* operator-session.ts:18), whatever has been registered since.            *)
(***************************************************************************)
VerifiedWasCredentialed ==
    operatorSession =>
        /\ operator # None
        /\ verifiedFor # None
        /\ verifiedFor.credential # None

(***************************************************************************)
(* The verified session is that of the operator who is in the slot         *)
(* (operator-session.ts:3).                                                *)
(***************************************************************************)
VerifiedIsOfSlot == operatorSession => operator.id = verifiedFor.id
=============================================================================
