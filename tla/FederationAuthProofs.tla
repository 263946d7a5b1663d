------------------------ MODULE FederationAuthProofs ------------------------
(***************************************************************************)
(* Proofs about FederationAuth, for every set of nodes, tenants,           *)
(* fingerprints and requests and every value of the bounds.                *)
(*                                                                         *)
(* IInv is the inductive invariant.  Its parts follow a challenge through  *)
(* the system: it is issued once and with a nonce of its own, the map and  *)
(* the handlers only ever hold issued challenges of the running process,   *)
(* a proven handler has compared its copy with the request, and once a     *)
(* handler has deleted a challenge the map cannot show it again.           *)
(***************************************************************************)
EXTENDS FederationAuth, TLAPS

\* Every challenge has the nonce that was fresh when it was made, not used again.
NoncesAreUnique ==
    /\ \A c \in challenges : c.nonce <= lastNonce
    /\ \A c, d \in challenges : c.nonce = d.nonce => c = d

\* A process instance that has not started has challenged nobody.
ChallengesAreOfPast == \A c \in challenges : c.key <= key

\* The map holds, for each node, a challenge this process issued to that node.
PendingIsIssued ==
    \A n \in Node : pending[n] # NoEntry =>
        /\ pending[n] \in challenges
        /\ pending[n].node = n
        /\ pending[n].key = key
        /\ pending[n].at <= clock

\* So does the copy a handler works on.
HeldIsIssued ==
    \A r \in Request : stage[r] \in Running =>
        /\ held[r] \in challenges
        /\ held[r].node = input[r].node
        /\ held[r].key = key
        /\ held[r].at <= clock

\* A handler past its tests has found the request to prove the challenge it holds.
ProvenIsCompared ==
    \A r \in Request : stage[r] \in {"proven", "consumed"} =>
        /\ input[r].fp = held[r].fp
        /\ input[r].proof = SignChallenge(held[r].fp, held[r].nonce)

\* What a handler has deleted is not in the map any more.
ConsumedNotPending ==
    \A r \in Request : stage[r] = "consumed" =>
        \A n \in Node : pending[n] # NoEntry => pending[n].nonce # held[r].nonce

\* No handler holds a challenge that its own client has already cashed in.
GrantedNotHeldAgain ==
    \A g \in grants : \A r \in Request :
        stage[r] \in Running /\ held[r].nonce = g.nonce => g.by # r

GrantsAreOfIssued == \A g \in grants : g.nonce <= lastNonce

IInv ==
    /\ TypeOK
    /\ NoncesAreUnique
    /\ ChallengesAreOfPast
    /\ PendingIsIssued
    /\ HeldIsIssued
    /\ ProvenIsCompared
    /\ ConsumedNotPending
    /\ GrantsAreOfIssued
    /\ GrantedNotPending
    /\ GrantedNotHeldAgain
    /\ SequentialReplayRefused
    /\ SessionsAreVerifiable
    /\ TokensAreBacked

-----------------------------------------------------------------------------
(* Type correctness *)

\* Adding one entry to a table, or blanking it, keeps the table well-typed; stated once
\* for the in-flight tables, which most actions change through Finish or Advance.
LEMMA FinishType ==
    ASSUME TypeOK, NEW r \in Request, NEW answer \in Answer, Finish(r, answer)
    PROVE  /\ stage' \in [Request -> Running \cup Answer]
           /\ input' \in [Request -> AssertInput \cup {NoEntry}]
           /\ held' \in [Request -> Challenge \cup {NoEntry}]
           /\ \A q \in Request : stage'[q] \in Running =>
                 input'[q] # NoEntry /\ held'[q] # NoEntry
  BY DEF TypeOK, Finish, Running, Answer

LEMMA AdvanceType ==
    ASSUME TypeOK, NEW r \in Request, stage[r] \in Running,
           NEW to \in Running, Advance(r, to)
    PROVE  /\ stage' \in [Request -> Running \cup Answer]
           /\ input' \in [Request -> AssertInput \cup {NoEntry}]
           /\ held' \in [Request -> Challenge \cup {NoEntry}]
           /\ \A q \in Request : stage'[q] \in Running =>
                 input'[q] # NoEntry /\ held'[q] # NoEntry
  BY DEF TypeOK, Advance, Running, Answer

\* TypeOK is inductive by itself: every action writes well-typed values.
LEMMA TypeStep == TypeOK /\ [Next]_vars => TypeOK'
<1> SUFFICES ASSUME TypeOK, [Next]_vars PROVE TypeOK'
  OBVIOUS
<1> USE ConstantsAssumption DEF tables, history, inflight
<1>1. CASE UNCHANGED vars
  BY <1>1 DEF TypeOK, vars, Running, Answer
<1>2. ASSUME NEW n \in Node, NEW t \in Tenant, NEW f \in Fingerprint,
             Handshake(n, t, f)
      PROVE  TypeOK'
  <2> DEFINE c == [nonce |-> lastNonce + 1, node |-> n, tenant |-> t, fp |-> f,
                   at |-> clock, key |-> key]
  <2>1. c \in Challenge /\ lastNonce + 1 \in 0..MaxNonce
    BY <1>2 DEF TypeOK, Handshake, Challenge, Nonce, Time, KeyId
  <2>2. pending' = [pending EXCEPT ![n] = c] /\ challenges' = challenges \cup {c}
    BY <1>2 DEF Handshake
  <2> QED
    BY <1>2, <2>1, <2>2 DEF TypeOK, Handshake
<1>3. ASSUME NEW r \in Request, NEW in \in AssertInput, AssertRead(r, in)
      PROVE  TypeOK'
  <2>1. pending[in.node] \in Challenge
    BY <1>3 DEF AssertRead, TypeOK, AssertInput
  <2> QED
    BY <1>3, <2>1 DEF TypeOK, AssertRead, Running, Answer
<1>4. ASSUME NEW r \in Request, NEW in \in AssertInput, AssertNotFound(r, in)
      PROVE  TypeOK'
  BY <1>4, FinishType DEF TypeOK, AssertNotFound, Answer
<1>5. ASSUME NEW r \in Request, AssertStep(r) PROVE TypeOK'
  <2>1. CASE AssertTooLate(r)
    BY <2>1, AdvanceType DEF TypeOK, AssertTooLate, Running
  <2>2. CASE AssertWrongFingerprint(r)
    BY <2>2, FinishType DEF TypeOK, AssertWrongFingerprint, Answer
  <2>3. CASE AssertWrongSignature(r)
    BY <2>3, FinishType DEF TypeOK, AssertWrongSignature, Answer
  <2>4. CASE AssertProven(r)
    BY <2>4, AdvanceType DEF TypeOK, AssertProven, Running
  <2>5. CASE AssertDropExpired(r)
    BY <2>5, FinishType DEF TypeOK, AssertDropExpired, Answer
  <2>6. CASE AssertConsume(r)
    BY <2>6, AdvanceType DEF TypeOK, AssertConsume, Running
  <2>7. CASE AssertGrant(r)
    <3> DEFINE t == [key |-> key, node |-> input[r].node, tenant |-> held[r].tenant,
                     fp |-> input[r].fp, iat |-> clock]
               g == [token |-> t, nonce |-> held[r].nonce,
                     proof |-> input[r].proof, by |-> r]
    <3>1. input[r] \in AssertInput /\ held[r] \in Challenge
      BY <2>7 DEF AssertGrant, TypeOK, Running
    <3>2. t \in Token
      BY <3>1 DEF TypeOK, AssertInput, Challenge, Token
    <3>3. g \in Grant
      BY <3>1, <3>2 DEF AssertInput, Challenge, Grant
    <3>4. /\ signed' = signed \cup {t}
          /\ sessions' = sessions \cup {t}
          /\ grants' = grants \cup {g}
      BY <2>7 DEF AssertGrant
    <3> QED
      BY <2>7, <3>2, <3>3, <3>4, FinishType DEF TypeOK, AssertGrant, Answer
  <2> QED
    BY <1>5, <2>1, <2>2, <2>3, <2>4, <2>5, <2>6, <2>7 DEF AssertStep
<1>6. CASE Cleanup
  BY <1>6 DEF TypeOK, Cleanup
<1>7. ASSUME NEW t \in Token,
             NodeJoin(t) \/ RequireFederationSession(t) \/ RequireAgentFederation(t)
      PROVE  TypeOK'
  BY <1>7 DEF TypeOK, NodeJoin, RequireFederationSession, RequireAgentFederation,
              RegisterFederationSession
<1>8. ASSUME NEW t \in Token, RevokeFederationSession(t) PROVE TypeOK'
  BY <1>8 DEF TypeOK, RevokeFederationSession
<1>9. CASE Tick
  BY <1>9 DEF TypeOK, Tick, Time
<1>10. CASE Restart
  BY <1>10 DEF TypeOK, Restart, KeyId, Running, Answer
<1> QED
  BY <1>1, <1>2, <1>3, <1>4, <1>5, <1>6, <1>7, <1>8, <1>9, <1>10 DEF Next

LEMMA TypeInit == Init => TypeOK
  BY ConstantsAssumption DEF Init, TypeOK, Time, KeyId, Running, Answer

\* The state of the handshake stays well-typed in every behaviour, and a handler past
\* its lookup always holds an entry and a request.
THEOREM TypeCorrect == Spec => []TypeOK
<1> QED
  BY TypeInit, TypeStep, PTL DEF Spec

-----------------------------------------------------------------------------
(* The inductive invariant *)

\* What the facts about the handlers become when a handler only moves on or answers.
LEMMA RunningStep ==
    ASSUME IInv, TypeOK', NEW r \in Request, AssertStep(r)
    PROVE  IInv'
<1> USE ConstantsAssumption
    DEF IInv, TypeOK, Running, Answer, tables, history, inflight,
        NoncesAreUnique, PendingIsIssued, HeldIsIssued, GrantsAreOfIssued,
        ChallengesAreOfPast
<1>1. CASE AssertTooLate(r)
  BY <1>1 DEF AssertTooLate, Advance, ProvenIsCompared, ConsumedNotPending,
      GrantedNotPending, GrantedNotHeldAgain, SequentialReplayRefused,
      SessionsAreVerifiable, TokensAreBacked, Verifies
<1>2. CASE AssertWrongFingerprint(r)
  BY <1>2 DEF AssertWrongFingerprint, Finish, ProvenIsCompared, ConsumedNotPending,
      GrantedNotPending, GrantedNotHeldAgain, SequentialReplayRefused,
      SessionsAreVerifiable, TokensAreBacked, Verifies
<1>3. CASE AssertWrongSignature(r)
  BY <1>3 DEF AssertWrongSignature, Finish, ProvenIsCompared, ConsumedNotPending,
      GrantedNotPending, GrantedNotHeldAgain, SequentialReplayRefused,
      SessionsAreVerifiable, TokensAreBacked, Verifies
<1>4. CASE AssertProven(r)
  BY <1>4 DEF AssertProven, Advance, ProvenIsCompared, ConsumedNotPending,
      GrantedNotPending, GrantedNotHeldAgain, SequentialReplayRefused,
      SessionsAreVerifiable, TokensAreBacked, Verifies
<1>5. CASE AssertDropExpired(r)
  BY <1>5 DEF AssertDropExpired, Finish, ProvenIsCompared, ConsumedNotPending,
      GrantedNotPending, GrantedNotHeldAgain, SequentialReplayRefused,
      SessionsAreVerifiable, TokensAreBacked, Verifies
<1>6. CASE AssertConsume(r)
  <2>1. /\ pending' = [pending EXCEPT ![input[r].node] = NoEntry]
        /\ stage' = [stage EXCEPT ![r] = "consumed"]
        /\ stage[r] = "proven"
        /\ UNCHANGED <<clock, key, lastNonce, challenges, signed, grants, sessions,
                       input, held>>
    BY <1>6 DEF AssertConsume, Advance
  <2>2. ASSUME NEW n \in Node, pending'[n] # NoEntry
        PROVE  pending'[n].nonce # held[r].nonce
    \* Another node's challenge is another challenge, so it has another nonce.
    <3>1. n # input[r].node /\ pending'[n] = pending[n]
      BY <2>1, <2>2
    <3>2. pending[n] \in challenges /\ pending[n].node = n
      BY <3>1, <2>2
    <3>3. held[r] \in challenges /\ held[r].node = input[r].node
      BY <2>1
    <3> QED
      BY <3>1, <3>2, <3>3
  <2>3. ConsumedNotPending'
    BY <2>1, <2>2 DEF ConsumedNotPending
  <2> QED
    BY <2>1, <2>3 DEF ProvenIsCompared, GrantedNotPending, GrantedNotHeldAgain,
        SequentialReplayRefused, SessionsAreVerifiable, TokensAreBacked, Verifies
<1>7. CASE AssertGrant(r)
  <2> DEFINE t == [key |-> key, node |-> input[r].node, tenant |-> held[r].tenant,
                   fp |-> input[r].fp, iat |-> clock]
             g == [token |-> t, nonce |-> held[r].nonce,
                   proof |-> input[r].proof, by |-> r]
  <2>1. /\ stage[r] = "consumed"
        /\ signed' = signed \cup {t}
        /\ sessions' = sessions \cup {t}
        /\ grants' = grants \cup {g}
        /\ stage' = [stage EXCEPT ![r] = "OK"]
        /\ input' = [input EXCEPT ![r] = NoEntry]
        /\ held' = [held EXCEPT ![r] = NoEntry]
        /\ UNCHANGED <<clock, key, lastNonce, pending, challenges>>
    BY <1>7 DEF AssertGrant, Finish
  <2>2. /\ held[r] \in challenges /\ held[r] \in Challenge
        /\ held[r].node = input[r].node /\ held[r].fp = input[r].fp
        /\ held[r].key = key /\ held[r].at <= clock
        /\ input[r].proof = SignChallenge(held[r].fp, held[r].nonce)
    BY <2>1 DEF ProvenIsCompared
  <2>3. /\ g.token = t /\ g.nonce = held[r].nonce /\ g.proof = input[r].proof
        /\ g.by = r
    OBVIOUS
  <2>4. GrantsAreOfIssued'
    BY <2>1, <2>2, <2>3
  <2>5. GrantedNotPending'
    BY <2>1, <2>3 DEF GrantedNotPending, ConsumedNotPending
  <2>6. GrantedNotHeldAgain'
    BY <2>1, <2>3 DEF GrantedNotHeldAgain
  <2>7. SequentialReplayRefused'
    \* The grants so far from this challenge were earned by other clients.
    <3>1. \A h \in grants : h.nonce = g.nonce => h.by # g.by
      BY <2>1, <2>3 DEF GrantedNotHeldAgain
    <3> QED
      BY <2>1, <3>1 DEF SequentialReplayRefused
  <2>8. TokensAreBacked'
    <3>1. Backs(g, held[r], t)
      BY <2>2, <2>3 DEF Backs
    <3>2. g \in grants' /\ held[r] \in challenges'
      BY <2>1, <2>2
    <3>3. \A u \in signed' : u = t \/ u \in signed
      BY <2>1
    <3>4. grants \subseteq grants' /\ challenges \subseteq challenges'
      BY <2>1
    <3>5. \A u \in signed : \E h \in grants, d \in challenges : Backs(h, d, u)
      BY DEF TokensAreBacked
    <3> HIDE DEF t, g
    <3>6. \A u \in signed' : \E h \in grants', d \in challenges' : Backs(h, d, u)
      <4> SUFFICES ASSUME NEW u \in signed'
                   PROVE  \E h \in grants', d \in challenges' : Backs(h, d, u)
        OBVIOUS
      <4>1. CASE u = t
        BY <4>1, <3>1, <3>2
      <4>2. CASE u \in signed
        BY <4>2, <3>4, <3>5
      <4> QED
        BY <4>1, <4>2, <3>3
    <3> QED
      BY <3>6 DEF TokensAreBacked, Backs
  <2>9. SessionsAreVerifiable'
    BY <2>1 DEF SessionsAreVerifiable, Verifies
  <2> QED
    BY <2>1, <2>4, <2>5, <2>6, <2>7, <2>8, <2>9 DEF ProvenIsCompared, ConsumedNotPending
<1> QED
  BY <1>1, <1>2, <1>3, <1>4, <1>5, <1>6, <1>7 DEF AssertStep

\* A new challenge has a nonce nobody has seen: not the map, no handler, no grant.
LEMMA HandshakeStep ==
    ASSUME IInv, TypeOK', NEW n \in Node, NEW t \in Tenant, NEW f \in Fingerprint,
           Handshake(n, t, f)
    PROVE  IInv'
<1> DEFINE c == [nonce |-> lastNonce + 1, node |-> n, tenant |-> t, fp |-> f,
                 at |-> clock, key |-> key]
<1> USE ConstantsAssumption DEF IInv, TypeOK, Running
<1>1. /\ pending' = [pending EXCEPT ![n] = c]
      /\ challenges' = challenges \cup {c}
      /\ lastNonce' = lastNonce + 1
      /\ UNCHANGED <<clock, key, stage, input, held, signed, sessions, grants>>
  BY DEF Handshake, inflight
<1>2. lastNonce \in Nat /\ \A d \in challenges : d.nonce \in Nat /\ d.nonce <= lastNonce
  BY DEF NoncesAreUnique, Challenge, Nonce
<1>3. \A d \in challenges : d.nonce # c.nonce
  BY <1>2
<1>4. NoncesAreUnique'
  BY <1>1, <1>2, <1>3 DEF NoncesAreUnique
<1>5. PendingIsIssued' /\ HeldIsIssued'
  BY <1>1 DEF PendingIsIssued, HeldIsIssued, Time
<1>6. ConsumedNotPending'
  BY <1>1, <1>3 DEF ConsumedNotPending, HeldIsIssued
<1>7. \A g \in grants : g.nonce \in Nat /\ g.nonce <= lastNonce
  BY DEF GrantsAreOfIssued, Grant, Nonce
<1>8. GrantsAreOfIssued' /\ GrantedNotPending'
  BY <1>1, <1>2, <1>7 DEF GrantsAreOfIssued, GrantedNotPending
<1> QED
  BY <1>1, <1>4, <1>5, <1>6, <1>8 DEF KeyId, ChallengesAreOfPast, ProvenIsCompared, GrantedNotHeldAgain,
      SequentialReplayRefused, SessionsAreVerifiable, TokensAreBacked, Verifies

\* A handler starts from what is pending now, which no client has cashed in.
LEMMA ReadStep ==
    ASSUME IInv, TypeOK', NEW r \in Request, NEW in \in AssertInput, AssertRead(r, in)
    PROVE  IInv'
<1> USE ConstantsAssumption DEF IInv, TypeOK, Running, Answer
<1>1. /\ in.node \in Node /\ pending[in.node] # NoEntry
      /\ stage' = [stage EXCEPT ![r] = "read"]
      /\ input' = [input EXCEPT ![r] = in]
      /\ held' = [held EXCEPT ![r] = pending[in.node]]
      /\ UNCHANGED <<clock, key, lastNonce, pending, sessions, challenges, signed, grants>>
  BY DEF AssertRead, AssertInput, tables, history
<1>2. HeldIsIssued'
  BY <1>1 DEF HeldIsIssued, PendingIsIssued
<1>3. GrantedNotHeldAgain'
  BY <1>1 DEF GrantedNotHeldAgain, GrantedNotPending
<1> QED
  BY <1>1, <1>2, <1>3 DEF NoncesAreUnique, ChallengesAreOfPast, PendingIsIssued, ProvenIsCompared,
      ConsumedNotPending, GrantsAreOfIssued, GrantedNotPending,
      SequentialReplayRefused, SessionsAreVerifiable, TokensAreBacked, Verifies

\* The remaining steps only take away from the tables, admit a verified token, let
\* time pass, or start a process with nothing in flight.
LEMMA OtherStep ==
    ASSUME IInv, TypeOK',
           \/ UNCHANGED vars
           \/ \E r \in Request, in \in AssertInput : AssertNotFound(r, in)
           \/ Cleanup
           \/ \E t \in Token : Verifies(t) /\ RegisterFederationSession(t)
           \/ \E t \in Token : RevokeFederationSession(t)
           \/ Tick
           \/ Restart
    PROVE  IInv'
<1> USE ConstantsAssumption
    DEF IInv, TypeOK, Running, Answer, tables, history, inflight,
        NoncesAreUnique, ChallengesAreOfPast, PendingIsIssued, HeldIsIssued,
        ProvenIsCompared, ConsumedNotPending, GrantsAreOfIssued, GrantedNotPending, GrantedNotHeldAgain,
        SequentialReplayRefused, SessionsAreVerifiable, TokensAreBacked, Verifies
<1>1. CASE UNCHANGED vars
  BY <1>1 DEF vars
<1>2. ASSUME NEW r \in Request, NEW in \in AssertInput, AssertNotFound(r, in)
      PROVE  IInv'
  BY <1>2 DEF AssertNotFound, Finish
<1>3. CASE Cleanup
  BY <1>3 DEF Cleanup
<1>4. ASSUME NEW t \in Token, Verifies(t), RegisterFederationSession(t) PROVE IInv'
  BY <1>4 DEF RegisterFederationSession
<1>5. ASSUME NEW t \in Token, RevokeFederationSession(t) PROVE IInv'
  BY <1>5 DEF RevokeFederationSession
<1>6. CASE Tick
  BY <1>6 DEF Tick, Challenge, Time
<1>7. CASE Restart
  BY <1>7 DEF Restart, KeyId, Challenge
<1> QED
  BY <1>1, <1>2, <1>3, <1>4, <1>5, <1>6, <1>7

LEMMA InvStep == IInv /\ [Next]_vars => IInv'
<1> SUFFICES ASSUME IInv, [Next]_vars PROVE IInv'
  OBVIOUS
<1>1. TypeOK'
  BY TypeStep DEF IInv
<1>2. ASSUME NEW n \in Node, NEW t \in Tenant, NEW f \in Fingerprint,
             Handshake(n, t, f)
      PROVE  IInv'
  BY <1>1, <1>2, HandshakeStep
<1>3. ASSUME NEW r \in Request, NEW in \in AssertInput, AssertRead(r, in)
      PROVE  IInv'
  BY <1>1, <1>3, ReadStep
<1>4. ASSUME NEW r \in Request, AssertStep(r) PROVE IInv'
  BY <1>1, <1>4, RunningStep
<1>5. ASSUME NEW t \in Token,
             NodeJoin(t) \/ RequireFederationSession(t) \/ RequireAgentFederation(t)
      PROVE  IInv'
  <2>1. Verifies(t) /\ RegisterFederationSession(t)
    BY <1>5 DEF NodeJoin, RequireFederationSession, RequireAgentFederation
  <2> QED
    BY <1>1, <2>1, OtherStep
<1> QED
  BY <1>1, <1>2, <1>3, <1>4, <1>5, OtherStep DEF Next

LEMMA InvInit == Init => IInv
<1> SUFFICES ASSUME Init PROVE IInv
  OBVIOUS
<1>1. TypeOK
  BY TypeInit
<1> QED
  BY <1>1, ConstantsAssumption DEF Init, IInv, Running, NoncesAreUnique,
      ChallengesAreOfPast, PendingIsIssued, HeldIsIssued, ProvenIsCompared, ConsumedNotPending,
      GrantsAreOfIssued, GrantedNotPending, GrantedNotHeldAgain,
      SequentialReplayRefused, SessionsAreVerifiable, TokensAreBacked

LEMMA InvAlways == Spec => []IInv
<1> QED
  BY InvInit, InvStep, PTL DEF Spec

\* Authenticity of every token the backend ever signed.
THEOREM TokensBacked == Spec => []TokensAreBacked
<1>1. IInv => TokensAreBacked
  BY DEF IInv
<1> QED
  BY <1>1, InvAlways, PTL

\* A challenge that earned a token is out of the map for good.
THEOREM GrantedGone == Spec => []GrantedNotPending
<1>1. IInv => GrantedNotPending
  BY DEF IInv
<1> QED
  BY <1>1, InvAlways, PTL

\* A client that waits for its answers never earns two tokens from one challenge.
THEOREM NoSequentialReplay == Spec => []SequentialReplayRefused
<1>1. IInv => SequentialReplayRefused
  BY DEF IInv
<1> QED
  BY <1>1, InvAlways, PTL

\* The session table only holds tokens of the running process.
THEOREM SessionsVerify == Spec => []SessionsAreVerifiable
<1>1. IInv => SessionsAreVerifiable
  BY DEF IInv
<1> QED
  BY <1>1, InvAlways, PTL

-----------------------------------------------------------------------------
(* The handshake implements FederationTrust *)

Asked == {Claim(c) : c \in {d \in challenges : d.key = key}}

LEMMA TrustInit == Init => Trust!Init
  BY DEF Init, Trust!Init

\* Signing is the abstract Issue: the copied entry is a challenge of this process, and
\* the request was compared with it.
LEMMA GrantIssues ==
    ASSUME IInv, NEW r \in Request, AssertGrant(r)
    PROVE  \E c \in Trust!Claims : Trust!Issue(c)
<1> DEFINE c == Claim(held[r])
<1>1. /\ stage[r] = "consumed" /\ held[r] \in challenges /\ held[r].key = key
      /\ held[r] \in Challenge
      /\ input[r].fp = held[r].fp /\ input[r].node = held[r].node
  BY DEF IInv, TypeOK, AssertGrant, HeldIsIssued, ProvenIsCompared, Running
<1>2. c \in Trust!Claims /\ c \in Asked
  BY <1>1 DEF Claim, Trust!Claims, Challenge, Asked
<1>3. Trust!TokenFor(c) = [key |-> key, node |-> input[r].node,
                           tenant |-> held[r].tenant, fp |-> input[r].fp, iat |-> clock]
  BY <1>1 DEF Trust!TokenFor, Claim
<1>4. Trust!Issue(c)
  BY <1>2, <1>3 DEF AssertGrant, Trust!Issue, Asked
<1> QED
  BY <1>2, <1>4

\* A handshake is the abstract Ask.
LEMMA HandshakeAsks ==
    ASSUME NEW n \in Node, NEW t \in Tenant, NEW f \in Fingerprint, Handshake(n, t, f)
    PROVE  \E c \in Trust!Claims : Trust!Ask(c)
<1> DEFINE new == [nonce |-> lastNonce + 1, node |-> n, tenant |-> t, fp |-> f,
                   at |-> clock, key |-> key]
           c == Claim(new)
<1>1. /\ challenges' = challenges \cup {new}
      /\ UNCHANGED <<clock, key, signed, sessions>>
  BY DEF Handshake
<1>2. c \in Trust!Claims
  BY DEF Claim, Trust!Claims
<1>3. {d \in challenges' : d.key = key'} = {d \in challenges : d.key = key} \cup {new}
  BY <1>1
<1>4. Asked' = Asked \cup {c}
  BY <1>3 DEF Asked, Claim
<1>5. Trust!Ask(c)
  BY <1>1, <1>4 DEF Trust!Ask, Asked
<1> HIDE DEF c
<1> QED
  BY <1>2, <1>5 DEF Trust!Ask

LEMMA TrustStep == IInv /\ IInv' /\ [Next]_vars => [Trust!Next]_(Trust!trustVars)
<1> SUFFICES ASSUME IInv, IInv', [Next]_vars
             PROVE  Trust!Next \/ UNCHANGED Trust!trustVars
  OBVIOUS
<1> USE DEF Trust!trustVars, tables, history, inflight
<1>1. CASE UNCHANGED vars
  BY <1>1 DEF vars
<1>2. ASSUME NEW n \in Node, NEW t \in Tenant, NEW f \in Fingerprint,
             Handshake(n, t, f)
      PROVE  Trust!Next
  BY <1>2, HandshakeAsks DEF Trust!Next
<1>3. ASSUME NEW r \in Request, NEW in \in AssertInput,
             AssertRead(r, in) \/ AssertNotFound(r, in)
      PROVE  UNCHANGED Trust!trustVars
  BY <1>3 DEF AssertRead, AssertNotFound
<1>4. ASSUME NEW r \in Request, AssertStep(r)
      PROVE  Trust!Next \/ UNCHANGED Trust!trustVars
  <2>1. CASE AssertGrant(r)
    BY <2>1, GrantIssues DEF Trust!Next
  <2>2. CASE ~AssertGrant(r)
    BY <1>4, <2>2 DEF AssertStep, AssertTooLate, AssertWrongFingerprint,
        AssertWrongSignature, AssertProven, AssertDropExpired, AssertConsume
  <2> QED
    BY <2>1, <2>2
<1>5. CASE Cleanup
  BY <1>5 DEF Cleanup
<1>6. ASSUME NEW t \in Token,
             NodeJoin(t) \/ RequireFederationSession(t) \/ RequireAgentFederation(t)
      PROVE  Trust!Next
  <2>1. t \in signed /\ Trust!Admit(t)
    BY <1>6 DEF NodeJoin, RequireFederationSession, RequireAgentFederation,
        RegisterFederationSession, Verifies, Trust!Admit
  <2> QED
    BY <2>1 DEF Trust!Next
<1>7. ASSUME NEW t \in Token, RevokeFederationSession(t) PROVE Trust!Next
  BY <1>7 DEF RevokeFederationSession, Trust!Next, Trust!Expel
<1>8. CASE Tick
  BY <1>8 DEF Tick, Trust!Next, Trust!Pass
<1>9. CASE Restart
  <2>1. \A c \in challenges : c.key \in Nat /\ key \in Nat /\ c.key <= key
    BY DEF IInv, TypeOK, ChallengesAreOfPast, Challenge, KeyId
  <2>2. {d \in challenges' : d.key = key'} = {}
    BY <1>9, <2>1 DEF Restart
  <2>3. Trust!Renew
    BY <1>9, <2>2 DEF Restart, Trust!Renew
  <2> QED
    BY <2>3 DEF Trust!Next
<1> QED
  BY <1>1, <1>2, <1>3, <1>4, <1>5, <1>6, <1>7, <1>8, <1>9 DEF Next

\* The tables, the two-lock assert handler, the clean-up and the restarts keep the
\* promise of FederationTrust: tokens only for claims put to the running process.
THEOREM Implements == Spec => ImplementsTrust
<1> QED
  BY TrustInit, TrustStep, InvAlways, PTL DEF Spec, ImplementsTrust, Trust!Spec

=============================================================================
