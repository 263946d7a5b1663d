--------------------------- MODULE FederationAuth ---------------------------
(***************************************************************************)
(* The federation handshake of the onboarding backend                      *)
(* (onboarding/backend/federation_auth.go), its session table              *)
(* (middleware/federation_session.go, middleware/agent_federation.go) and  *)
(* its token key (federation/crypto.go).                                   *)
(*                                                                         *)
(* Every HTTP request is a goroutine.  handleFederationAssert takes the    *)
(* challenge lock twice, first to read the entry and then to delete it, and*)
(* decides in between on the copy it holds, so it is split at those points.*)
(* A handler that touches shared state once is one action.                 *)
(***************************************************************************)
EXTENDS Naturals, FiniteSets

CONSTANTS
    Node,         \* node identifiers (nodeId)
    Tenant,       \* tenant identifiers
    Fingerprint,  \* bootstrap-kit fingerprints, the HMAC secrets
    Request,      \* assert requests that can be in flight at once
    NoEntry,      \* the answer of a map lookup that finds nothing
    TTL,          \* lifetime of a challenge, 30 s in the code
    MaxClock,     \* bound: last tick of the clock
    MaxNonce,     \* bound: handshakes accepted
    MaxKey        \* bound: process restarts

VARIABLES
    clock,        \* wall-clock time
    key,          \* which process instance's Ed25519 key signs
    lastNonce,    \* challenges generated so far; a nonce never repeats
    pending,      \* pendingChallenges, by node
    challenges,   \* every challenge a handshake has answered with
    stage,        \* where each assert request is in its handler, or its answer
    input,        \* what that request sent
    held,         \* the entry that request read under the read lock
    signed,       \* every token signed and given out, by any process instance
    sessions,     \* activeFederationSessions
    grants        \* history: which proof of which challenge earned which token

tables == <<pending, sessions>>
history == <<challenges, signed, grants>>
inflight == <<stage, input, held>>
vars == <<clock, key, lastNonce, tables, history, inflight>>

Time == 0..MaxClock
Nonce == 1..MaxNonce
KeyId == 0..MaxKey

Challenge == [nonce: Nonce, node: Node, tenant: Tenant, fp: Fingerprint,
              at: Time, key: KeyId]

Proof == [secret: Fingerprint, nonce: Nonce]

AssertInput == [node: Node, fp: Fingerprint, proof: Proof]

Token == [key: KeyId, node: Node, tenant: Tenant, fp: Fingerprint, iat: Time]

Grant == [token: Token, nonce: Nonce, proof: Proof, by: Request]

\* A handler between two of its critical sections.
Running == {"read", "expired", "proven", "consumed"}

\* The answers of handleFederationAssert; "idle" has not asked yet.
Answer == {"idle", "NO_CHALLENGE_FOUND", "CHALLENGE_TIMEOUT",
           "FINGERPRINT_MISMATCH", "INVALID_SIGNATURE", "OK"}

ASSUME ConstantsAssumption ==
    /\ TTL \in Nat
    /\ MaxClock \in Nat
    /\ MaxNonce \in Nat
    /\ MaxKey \in Nat
    /\ NoEntry \notin Challenge
    /\ NoEntry \notin AssertInput

-----------------------------------------------------------------------------
(* Helpers *)

\* The HMAC is injective in its secret and its message.
SignChallenge(secret, nonce) == [secret |-> secret, nonce |-> nonce]

Expired(c) == clock - c.at > TTL

\* Only the process that signed a token verifies it: the key pair is made anew
\* in every process, and nothing in a token limits its age.
Verifies(t) == t \in signed /\ t.key = key

\* An assert request leaves its handler with an answer.
Finish(r, answer) ==
    /\ stage' = [stage EXCEPT ![r] = answer]
    /\ input' = [input EXCEPT ![r] = NoEntry]
    /\ held' = [held EXCEPT ![r] = NoEntry]

Advance(r, to) ==
    /\ stage' = [stage EXCEPT ![r] = to]
    /\ UNCHANGED <<input, held>>

-----------------------------------------------------------------------------
Init ==
    /\ clock = 0
    /\ key = 0
    /\ lastNonce = 0
    /\ pending = [n \in Node |-> NoEntry]
    /\ challenges = {}
    /\ stage = [r \in Request |-> "idle"]
    /\ input = [r \in Request |-> NoEntry]
    /\ held = [r \in Request |-> NoEntry]
    /\ signed = {}
    /\ sessions = {}
    /\ grants = {}

(***************************************************************************)
(* handleFederationHandshake: whatever the node already had pending is     *)
(* overwritten.                                                            *)
(***************************************************************************)
\* Mutant: the nonce of the previous challenge is answered again.
HandshakeReusingNonce(n, t, f) ==
    /\ lastNonce < MaxNonce
    /\ LET c == [nonce |-> 1, node |-> n, tenant |-> t, fp |-> f,
                 at |-> clock, key |-> key]
       IN  /\ pending' = [pending EXCEPT ![n] = c]
           /\ challenges' = challenges \cup {c}
    /\ lastNonce' = lastNonce + 1
    /\ UNCHANGED <<clock, key, inflight, signed, sessions, grants>>

Handshake(n, t, f) ==
    /\ lastNonce < MaxNonce
    /\ LET c == [nonce |-> lastNonce + 1, node |-> n, tenant |-> t, fp |-> f,
                 at |-> clock, key |-> key]
       IN  /\ pending' = [pending EXCEPT ![n] = c]
           /\ challenges' = challenges \cup {c}
    /\ lastNonce' = lastNonce + 1
    /\ UNCHANGED <<clock, key, inflight, signed, sessions, grants>>

(***************************************************************************)
(* handleFederationAssert.                                                 *)
(***************************************************************************)
\* The read-locked lookup.
AssertRead(r, in) ==
    /\ stage[r] \in Answer
    /\ in.proof.nonce <= lastNonce
    /\ pending[in.node] # NoEntry
    /\ stage' = [stage EXCEPT ![r] = "read"]
    /\ input' = [input EXCEPT ![r] = in]
    /\ held' = [held EXCEPT ![r] = pending[in.node]]
    /\ UNCHANGED <<clock, key, lastNonce, tables, history>>

AssertNotFound(r, in) ==
    /\ stage[r] \in Answer
    /\ in.proof.nonce <= lastNonce
    /\ pending[in.node] = NoEntry
    /\ Finish(r, "NO_CHALLENGE_FOUND")
    /\ UNCHANGED <<clock, key, lastNonce, tables, history>>

\* The tests on the copy the handler holds.
AssertTooLate(r) ==
    /\ stage[r] = "read"
    /\ Expired(held[r])
    /\ Advance(r, "expired")
    /\ UNCHANGED <<clock, key, lastNonce, tables, history>>

AssertWrongFingerprint(r) ==
    /\ stage[r] = "read"
    /\ ~Expired(held[r])
    /\ input[r].fp # held[r].fp
    /\ Finish(r, "FINGERPRINT_MISMATCH")
    /\ UNCHANGED <<clock, key, lastNonce, tables, history>>

AssertWrongSignature(r) ==
    /\ stage[r] = "read"
    /\ ~Expired(held[r])
    /\ input[r].fp = held[r].fp
    /\ input[r].proof # SignChallenge(input[r].fp, held[r].nonce)
    /\ Finish(r, "INVALID_SIGNATURE")
    /\ UNCHANGED <<clock, key, lastNonce, tables, history>>

\* Mutant: the signature is compared with one made from the request alone.
AssertProvenByAnySignature(r) ==
    /\ stage[r] = "read"
    /\ ~Expired(held[r])
    /\ input[r].fp = held[r].fp
    /\ Advance(r, "proven")
    /\ UNCHANGED <<clock, key, lastNonce, tables, history>>

\* Mutant: the fingerprint of the request is not compared with the entry's.
AssertProvenForAnyFingerprint(r) ==
    /\ stage[r] = "read"
    /\ ~Expired(held[r])
    /\ input[r].proof = SignChallenge(input[r].fp, held[r].nonce)
    /\ Advance(r, "proven")
    /\ UNCHANGED <<clock, key, lastNonce, tables, history>>

AssertProven(r) ==
    /\ stage[r] = "read"
    /\ ~Expired(held[r])
    /\ input[r].fp = held[r].fp
    /\ input[r].proof = SignChallenge(input[r].fp, held[r].nonce)
    /\ Advance(r, "proven")
    /\ UNCHANGED <<clock, key, lastNonce, tables, history>>

\* The two deletions are by node, whichever challenge the node has by now.
AssertDropExpired(r) ==
    /\ stage[r] = "expired"
    /\ pending' = [pending EXCEPT ![input[r].node] = NoEntry]
    /\ Finish(r, "CHALLENGE_TIMEOUT")
    /\ UNCHANGED <<clock, key, lastNonce, history, sessions>>

AssertConsume(r) ==
    /\ stage[r] = "proven"
    /\ pending' = [pending EXCEPT ![input[r].node] = NoEntry]
    /\ Advance(r, "consumed")
    /\ UNCHANGED <<clock, key, lastNonce, history, sessions>>

\* SignFederationToken on the copied entry, then RegisterFederationSession.
AssertGrant(r) ==
    /\ stage[r] = "consumed"
    /\ LET t == [key |-> key, node |-> input[r].node, tenant |-> held[r].tenant,
                 fp |-> input[r].fp, iat |-> clock]
       IN  /\ signed' = signed \cup {t}
           /\ sessions' = sessions \cup {t}
           /\ grants' = grants \cup {[token |-> t, nonce |-> held[r].nonce,
                                      proof |-> input[r].proof, by |-> r]}
    /\ Finish(r, "OK")
    /\ UNCHANGED <<clock, key, lastNonce, pending, challenges>>

(***************************************************************************)
(* cleanupExpiredChallenges: one tick of its ticker, under the write lock. *)
(***************************************************************************)
\* Mutant: init() does not start the cleanup goroutine.
CleanupNothing == FALSE /\ UNCHANGED vars

Cleanup ==
    /\ \E n \in Node : pending[n] # NoEntry /\ Expired(pending[n])
    /\ pending' = [n \in Node |-> IF pending[n] # NoEntry /\ Expired(pending[n])
                                  THEN NoEntry ELSE pending[n]]
    /\ UNCHANGED <<clock, key, lastNonce, history, inflight, sessions>>

(***************************************************************************)
(* The three ways a token presented by a caller enters the session table.  *)
(* The table is read, the signature checked and the token stored under     *)
(* separate locks; only the last of these changes state, and its guard     *)
(* cannot become false while the handler runs.                             *)
(***************************************************************************)
RegisterFederationSession(t) ==
    /\ sessions' = sessions \cup {t}
    /\ UNCHANGED <<clock, key, lastNonce, pending, history, inflight>>

NodeJoin(t) ==
    /\ Verifies(t)
    /\ RegisterFederationSession(t)

RequireFederationSession(t) ==
    /\ t \notin sessions
    /\ Verifies(t)
    /\ RegisterFederationSession(t)

RequireAgentFederation(t) ==
    /\ Verifies(t)
    /\ RegisterFederationSession(t)

\* Exported by the middleware package; no route reaches it yet.
RevokeFederationSession(t) ==
    /\ sessions' = sessions \ {t}
    /\ UNCHANGED <<clock, key, lastNonce, pending, history, inflight>>

(***************************************************************************)
(* The environment: time passes, and the process dies and starts again with*)
(* empty tables and a new key.                                             *)
(***************************************************************************)
Tick ==
    /\ clock < MaxClock
    /\ clock' = clock + 1
    /\ UNCHANGED <<key, lastNonce, tables, history, inflight>>

Restart ==
    /\ key < MaxKey
    /\ key' = key + 1
    /\ pending' = [n \in Node |-> NoEntry]
    /\ sessions' = {}
    /\ stage' = [r \in Request |-> "idle"]
    /\ input' = [r \in Request |-> NoEntry]
    /\ held' = [r \in Request |-> NoEntry]
    /\ UNCHANGED <<clock, lastNonce, history>>

-----------------------------------------------------------------------------
\* What the goroutine of a request does once it has read the entry.
AssertStep(r) ==
    \/ AssertTooLate(r)
    \/ AssertWrongFingerprint(r)
    \/ AssertWrongSignature(r)
    \/ AssertProven(r)
    \/ AssertDropExpired(r)
    \/ AssertConsume(r)
    \/ AssertGrant(r)

Next ==
    \/ \E n \in Node, t \in Tenant, f \in Fingerprint : Handshake(n, t, f)
    \/ \E r \in Request, in \in AssertInput : AssertRead(r, in)
    \/ \E r \in Request, in \in AssertInput : AssertNotFound(r, in)
    \/ \E r \in Request : AssertStep(r)
    \/ Cleanup
    \/ \E t \in Token : NodeJoin(t)
    \/ \E t \in Token : RequireFederationSession(t)
    \/ \E t \in Token : RequireAgentFederation(t)
    \/ \E t \in Token : RevokeFederationSession(t)
    \/ Tick
    \/ Restart

Spec == Init /\ [][Next]_vars

(***************************************************************************)
(* The ticker goroutine is started by init() and never stopped.  Nothing   *)
(* is assumed of clients, of request goroutines, of time or of restarts.   *)
(***************************************************************************)
FairSpec == Spec /\ WF_vars(Cleanup)

-----------------------------------------------------------------------------
(* Properties *)

\* Type invariant of the handshake tables, the request goroutines and the tokens; a
\* handler past its lookup holds the entry it found and the request it answers.
TypeOK ==
    /\ clock \in Time
    /\ key \in KeyId
    /\ lastNonce \in 0..MaxNonce
    /\ pending \in [Node -> Challenge \cup {NoEntry}]
    /\ challenges \subseteq Challenge
    /\ stage \in [Request -> Running \cup Answer]
    /\ input \in [Request -> AssertInput \cup {NoEntry}]
    /\ held \in [Request -> Challenge \cup {NoEntry}]
    /\ \A r \in Request : stage[r] \in Running =>
          input[r] # NoEntry /\ held[r] # NoEntry
    /\ signed \subseteq Token
    /\ sessions \subseteq Token
    /\ grants \subseteq Grant

\* A grant and a challenge that account for a token: the token repeats the challenge's
\* claim and process, is not dated before it, and was earned by a proof of it.
Backs(g, c, t) ==
    /\ g.token = t
    /\ g.nonce = c.nonce
    /\ g.proof = SignChallenge(c.fp, c.nonce)
    /\ t.node = c.node /\ t.tenant = c.tenant /\ t.fp = c.fp
    /\ t.key = c.key /\ c.at <= t.iat

\* Authenticity: behind every token this backend signed there is a challenge that
\* the same process issued, to that node, for that tenant and fingerprint, not
\* after the token's date, and a proof of exactly that challenge was received.
TokensAreBacked ==
    \A t \in signed : \E g \in grants, c \in challenges : Backs(g, c, t)

\* A challenge that has earned a token is never pending again, so no request that
\* arrives later can be measured against it (delete before sign, fresh nonces).
GrantedNotPending ==
    \A g \in grants, n \in Node :
        pending[n] # NoEntry => pending[n].nonce # g.nonce

\* A client that sends one assert at a time earns at most one token from a
\* challenge: the replay it sends after its answer finds the challenge gone.
SequentialReplayRefused ==
    \A g, h \in grants : g.nonce = h.nonce /\ g.by = h.by => g = h

\* The session table never holds a token the running process would not verify:
\* not a forged one, and not one of the process before a restart.
SessionsAreVerifiable ==
    \A t \in sessions : Verifies(t)

\* An expired challenge does not stay: the ticker, a late assert or a new handshake
\* takes it out of the map.
ExpiredIsRemoved ==
    \A n \in Node :
        (pending[n] # NoEntry /\ Expired(pending[n]))
            ~> (pending[n] = NoEntry \/ ~Expired(pending[n]))

\* The promise of the component, FederationTrust: asked are the claims this process
\* has challenged, issued the tokens signed, admitted the session table.
Claim(c) == [node |-> c.node, tenant |-> c.tenant, fp |-> c.fp]

Trust == INSTANCE FederationTrust WITH
    epoch <- key,
    time <- clock,
    asked <- {Claim(c) : c \in {d \in challenges : d.key = key}},
    issued <- signed,
    admitted <- sessions

\* Handshake, sessions and restarts together implement FederationTrust.
ImplementsTrust == Trust!Spec

-----------------------------------------------------------------------------
(* What the documents say and the code does not do. *)

\* PHASE_13.1: "Challenge-response prevents replay attacks".
ChallengeSingleUse ==
    \A g, h \in grants : g.nonce = h.nonce => g.by = h.by

\* PHASE_13.1, Challenge Lifecycle: a challenge lives for 30 seconds and goes when
\* it has expired, was asserted successfully, was replaced, or the process ended.
ChallengeLivesUntilExpired ==
    [][\A n \in Node :
          LET c == pending[n] IN
          c # NoEntry /\ pending'[n] = NoEntry =>
              \/ Expired(c)
              \/ key' # key
              \/ \E r \in Request : stage[r] = "proven" /\ held[r].nonce = c.nonce
      ]_vars

=============================================================================
