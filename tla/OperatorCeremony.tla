-------------------------- MODULE OperatorCeremony --------------------------
(***************************************************************************)
(* The WebAuthn ceremonies of the onboarding backend                       *)
(* (onboarding/backend/webauthn_handlers.go, handlers/register.go) and the *)
(* operator slot of the arc bridge that a verification fills               *)
(* (arc-bridge-local/src/routes/operator.ts).                              *)
(*                                                                         *)
(* An operator registers a key and later verifies with it.  Either is a    *)
(* ceremony of two requests: begin hands out a challenge, finish takes the *)
(* client's answer to it.  What is to be remembered between the two lies   *)
(* in one row per operator, whichever ceremony it is.                      *)
(*                                                                         *)
(* Challenges are numbered.  An authenticator makes a new key pair for     *)
(* each registration, so a key has the number of the challenge it answered *)
(* and 0 is no key.  The answer to a challenge is determined by it; an     *)
(* element of Challenge stands for both.                                   *)
(***************************************************************************)
EXTENDS Naturals

CONSTANTS
    Operator,
    Request,      \* requests that can be in flight at once
    NoSession,    \* an operator without a row in operator_keys
    Nobody,       \* the bridge's slot when no operator is registered
    MaxNonce      \* bound: challenges handed out

VARIABLES
    credential,   \* operators.credential
    session,      \* operator_keys.session_data
    nonce,        \* number of challenges so far
    offered,      \* the challenges that clients have got
    stage,        \* where each request is
    task,         \* what it has found out so far
    calls,        \* each request's call of the bridge, if it is under way
    slot,         \* the operator the bridge knows; history: who told it
    latest,       \* history: what the last begin of each operator has saved
    keysSeen,     \* history: the keys an operator has had while a request ran
    rowsSeen,     \* history: the session rows likewise
    steady,       \* history: the requests that nothing has got in the way of
    verified      \* history: the operators that have been verified

tables == <<credential, session>>
history == <<latest, keysSeen, rowsSeen, steady, verified>>
vars == <<tables, nonce, offered, stage, task, calls, slot, history>>

\* A login names the key that is to answer.
Challenge ==
    [operator : Operator, kind : {"register"}, nonce : 1..MaxNonce, key : {0}]
      \cup [operator : Operator, kind : {"login"}, nonce : 1..MaxNonce, key : 1..MaxNonce]
Slot == [operator : Operator, sender : {"backend", "client"}]
Working == {"saving", "load", "user", "store", "activating"}
Answered == {"registered", "verified", "refused"}
Task == [operator : Operator \cup {Nobody}, answer : Challenge \cup {NoSession},
         row : Challenge \cup {NoSession}]

ASSUME ConstantsAssumption ==
    /\ NoSession \notin Challenge
    /\ Nobody \notin Operator \cup Slot
    /\ MaxNonce \in Nat

Idle == [operator |-> Nobody, answer |-> NoSession, row |-> NoSession]

Free(r) == stage[r] = "idle" /\ calls[r] = Nobody

Goto(r, st) == stage' = [stage EXCEPT ![r] = st]

-----------------------------------------------------------------------------
Init ==
    /\ credential = [o \in Operator |-> 0]
    /\ session = [o \in Operator |-> NoSession]
    /\ nonce = 0
    /\ offered = {}
    /\ stage = [r \in Request |-> "idle"]
    /\ task = [r \in Request |-> Idle]
    /\ calls = [r \in Request |-> Nobody]
    /\ slot = Nobody
    /\ latest = session
    /\ keysSeen = [r \in Request |-> {}]
    /\ rowsSeen = [r \in Request |-> {}]
    /\ steady = {}
    /\ verified = {}

-----------------------------------------------------------------------------
(* Begin *)

\* BeginRegistration or BeginLogin makes a challenge, which is to be saved next.
Challenged(r, o, kind, key) ==
    /\ Free(r)
    /\ nonce < MaxNonce
    /\ nonce' = nonce + 1
    /\ task' = [task EXCEPT ![r] =
          [Idle EXCEPT !.operator = o,
                       !.row = [operator |-> o, kind |-> kind, nonce |-> nonce + 1, key |-> key]]]
    /\ Goto(r, "saving")
    /\ UNCHANGED <<tables, offered, calls, slot, history>>

\* The operator's row is read, and only a failure to read it matters.
WebAuthnBegin(r, o) == Challenged(r, o, "register", 0)

\* The challenge is for the key that is read now.  Without one the request is refused.
WebAuthnVerifyBegin(r, o) ==
    /\ credential[o] # 0
    /\ Challenged(r, o, "login", credential[o])

\* The client gets the challenge, saved or not.
Offer(r) ==
    /\ offered' = offered \cup {task[r].row}
    /\ task' = [task EXCEPT ![r] = Idle]
    /\ Goto(r, "idle")

\* The requests that are for the operator that r is for.
Alike(r) == {s \in Request : task[s].operator = task[r].operator}

\* SaveSession: the row has room for one ceremony.
\* Mutant: an operator's row is not overwritten.
SaveSessionOnce(r) ==
    /\ stage[r] = "saving"
    /\ LET o == task[r].operator
       IN  /\ session' = IF session[o] = NoSession
                         THEN [session EXCEPT ![o] = task[r].row] ELSE session
           /\ latest' = [latest EXCEPT ![o] = task[r].row]
           /\ rowsSeen' = [s \in Request |-> IF s \in Alike(r)
                              THEN rowsSeen[s] \cup {session'[o]} ELSE rowsSeen[s]]
    /\ steady' = steady \ Alike(r)
    /\ Offer(r)
    /\ UNCHANGED <<credential, nonce, calls, slot, keysSeen, verified>>

SaveSession(r) ==
    /\ stage[r] = "saving"
    /\ LET o == task[r].operator
       IN  /\ session' = [session EXCEPT ![o] = task[r].row]
           /\ latest' = [latest EXCEPT ![o] = task[r].row]
           /\ rowsSeen' = [s \in Request |-> IF s \in Alike(r)
                              THEN rowsSeen[s] \cup {task[r].row} ELSE rowsSeen[s]]
    /\ steady' = steady \ Alike(r)
    /\ Offer(r)
    /\ UNCHANGED <<credential, nonce, calls, slot, keysSeen, verified>>

\* "Continue anyway": the client gets a challenge that the program does not remember.
SaveSessionFails(r) ==
    /\ stage[r] = "saving"
    /\ latest' = [latest EXCEPT ![task[r].operator] = NoSession]
    /\ steady' = steady \ Alike(r)
    /\ Offer(r)
    /\ UNCHANGED <<tables, nonce, calls, slot, keysSeen, rowsSeen, verified>>

-----------------------------------------------------------------------------
(* Finish *)

\* A client answers a challenge it has got, for the first time or again.
Finish(r, a) ==
    /\ Free(r)
    /\ task' = [task EXCEPT ![r] = [Idle EXCEPT !.operator = a.operator, !.answer = a]]
    /\ keysSeen' = [keysSeen EXCEPT ![r] = {credential[a.operator]}]
    /\ rowsSeen' = [rowsSeen EXCEPT ![r] = {session[a.operator]}]
    /\ steady' = IF /\ latest[a.operator] = a
                    /\ a.kind = "login" => credential[a.operator] = a.key
                 THEN steady \cup {r} ELSE steady
    /\ Goto(r, "load")
    /\ UNCHANGED <<tables, nonce, offered, calls, slot, latest, verified>>

Refuse(r) ==
    /\ Goto(r, "refused")
    /\ task' = [task EXCEPT ![r] = [Idle EXCEPT !.operator = task[r].operator]]

\* LoadSession.  FinishRegistration asks for an answer to the challenge of the row; in a
\* verification the row is kept until the operator's key has been read.
\* Mutant: the challenge of a registration is not compared.
LoadSessionUnchecked(r) ==
    /\ stage[r] = "load"
    /\ LET row == session[task[r].operator]
       IN  IF row = NoSession
           THEN Refuse(r)
           ELSE /\ task' = [task EXCEPT ![r].row = row]
                /\ Goto(r, IF task[r].answer.kind = "login" THEN "user" ELSE "store")
    /\ UNCHANGED <<tables, nonce, offered, calls, slot, history>>

LoadSession(r) ==
    /\ stage[r] = "load"
    /\ LET row == session[task[r].operator]
           a == task[r].answer
       IN  IF row = NoSession \/ (a.kind = "register" /\ row.nonce # a.nonce)
           THEN Refuse(r)
           ELSE /\ task' = [task EXCEPT ![r].row = row]
                /\ Goto(r, IF a.kind = "login" THEN "user" ELSE "store")
    /\ UNCHANGED <<tables, nonce, offered, calls, slot, history>>

\* SaveOperatorKey writes the new key.
Stored(r) ==
    /\ stage[r] = "store"
    /\ LET o == task[r].operator
           key == task[r].answer.nonce
       IN  /\ credential' = [credential EXCEPT ![o] = key]
           /\ keysSeen' = [s \in Request |-> IF s \in Alike(r)
                              THEN keysSeen[s] \cup {key} ELSE keysSeen[s]]
    /\ task' = task
    /\ UNCHANGED <<session, nonce, offered, calls, slot, latest, rowsSeen, verified>>

StoreKey(r) ==
    /\ Stored(r)
    /\ Goto(r, "registered")
    /\ steady' = steady \ (Alike(r) \ {r})

\* It has written, and the answer is lost.
StoreKeyUnanswered(r) ==
    /\ Stored(r)
    /\ Goto(r, "refused")
    /\ steady' = steady \ Alike(r)

\* FinishLogin: the answer is to the challenge of the row, and by the key that the row
\* and the operator have.
\* Mutant: the operator's key is the one of the row.
VerifyUserByRow(r) ==
    /\ stage[r] = "user"
    /\ IF task[r].row.nonce = task[r].answer.nonce
       THEN /\ calls' = [calls EXCEPT ![r] = task[r].operator]
            /\ verified' = verified \cup {task[r].operator}
            /\ task' = task
            /\ Goto(r, "activating")
       ELSE Refuse(r) /\ UNCHANGED <<calls, verified>>
    /\ UNCHANGED <<tables, nonce, offered, slot, latest, keysSeen, rowsSeen, steady>>

VerifyUser(r) ==
    /\ stage[r] = "user"
    /\ IF /\ task[r].row.nonce = task[r].answer.nonce
          /\ task[r].answer.key = credential[task[r].operator]
       THEN /\ calls' = [calls EXCEPT ![r] = task[r].operator]
            /\ verified' = verified \cup {task[r].operator}
            /\ task' = task
            /\ Goto(r, "activating")
       ELSE Refuse(r) /\ UNCHANGED <<calls, verified>>
    /\ UNCHANGED <<tables, nonce, offered, slot, latest, keysSeen, rowsSeen, steady>>

\* A query fails.
QueryFails(r) ==
    /\ stage[r] \in {"load", "user", "store"}
    /\ Refuse(r)
    /\ steady' = steady \ {r}
    /\ UNCHANGED <<tables, nonce, offered, calls, slot, latest, keysSeen, rowsSeen, verified>>

\* activateOperatorInFederation has returned: the bridge has answered, or failed, or five
\* seconds are over.  The client is told "verified" in any case.
AnswerVerified(r) ==
    /\ stage[r] = "activating"
    /\ Goto(r, "verified")
    /\ UNCHANGED <<tables, nonce, offered, task, calls, slot, history>>

-----------------------------------------------------------------------------
(* The ends of requests, the bridge *)

Return(r) ==
    /\ stage[r] \in Answered
    /\ Goto(r, "idle")
    /\ task' = [task EXCEPT ![r] = Idle]
    /\ keysSeen' = [keysSeen EXCEPT ![r] = {}]
    /\ rowsSeen' = [rowsSeen EXCEPT ![r] = {}]
    /\ steady' = steady \ {r}
    /\ UNCHANGED <<tables, nonce, offered, calls, slot, latest, verified>>

\* The backend restarts; calls that it has made are still under way.
Restart ==
    /\ stage' = [r \in Request |-> "idle"]
    /\ task' = [r \in Request |-> Idle]
    /\ keysSeen' = [r \in Request |-> {}]
    /\ rowsSeen' = [r \in Request |-> {}]
    /\ steady' = {}
    /\ UNCHANGED <<tables, nonce, offered, calls, slot, latest, verified>>

\* registerOperator overwrites whatever the slot holds.  The identity's source is left out:
\* everyone may send "webauthn", so it tells nothing of who has registered.
BridgeRegisters(r) ==
    /\ calls[r] # Nobody
    /\ slot' = [operator |-> calls[r], sender |-> "backend"]
    /\ calls' = [calls EXCEPT ![r] = Nobody]
    /\ UNCHANGED <<tables, nonce, offered, stage, task, history>>

CallIsLost(r) ==
    /\ calls[r] # Nobody
    /\ calls' = [calls EXCEPT ![r] = Nobody]
    /\ UNCHANGED <<tables, nonce, offered, stage, task, slot, history>>

\* Another client of the bridge registers an operator, with whatever source it likes.
BridgeEnrols(o) ==
    /\ slot' = [operator |-> o, sender |-> "client"]
    /\ UNCHANGED <<tables, nonce, offered, stage, task, calls, history>>

BridgeRestarts ==
    /\ slot' = Nobody
    /\ UNCHANGED <<tables, nonce, offered, stage, task, calls, history>>

-----------------------------------------------------------------------------
Handle(r) ==
    \/ \E o \in Operator : WebAuthnBegin(r, o) \/ WebAuthnVerifyBegin(r, o)
    \/ SaveSession(r) \/ SaveSessionFails(r)
    \/ \E a \in offered : Finish(r, a)
    \/ LoadSession(r)
    \/ StoreKey(r) \/ StoreKeyUnanswered(r)
    \/ VerifyUser(r) \/ AnswerVerified(r)
    \/ QueryFails(r)
    \/ Return(r)

Next ==
    \/ \E r \in Request : Handle(r) \/ BridgeRegisters(r) \/ CallIsLost(r)
    \/ \E o \in Operator : BridgeEnrols(o)
    \/ BridgeRestarts
    \/ Restart

Spec == Init /\ [][Next]_vars

-----------------------------------------------------------------------------
(* Properties *)

\* Type invariant: a finish request has an answer to a challenge, and a verification a row
\* to compare it with; no login is begun without a key.
TypeOK ==
    /\ credential \in [Operator -> 0..MaxNonce]
    /\ session \in [Operator -> Challenge \cup {NoSession}]
    /\ latest \in [Operator -> Challenge \cup {NoSession}]
    /\ nonce \in 0..MaxNonce
    /\ offered \subseteq Challenge
    /\ stage \in [Request -> Working \cup Answered \cup {"idle"}]
    /\ task \in [Request -> Task]
    /\ calls \in [Request -> Operator \cup {Nobody}]
    /\ slot \in Slot \cup {Nobody}
    /\ keysSeen \in [Request -> SUBSET (0..MaxNonce)]
    /\ rowsSeen \in [Request -> SUBSET (Challenge \cup {NoSession})]
    /\ steady \subseteq Request
    /\ verified \subseteq Operator
    /\ \A r \in Request : stage[r] \in Working => task[r].operator \in Operator
    /\ \A r \in Request : stage[r] \in {"saving", "user", "store"} => task[r].row \in Challenge
    /\ \A r \in Request :
          stage[r] \in {"load", "user", "store", "activating", "registered", "verified"} =>
              task[r].answer \in Challenge

\* An operator that has replaced its key cannot be verified with the old one by a request
\* that comes afterwards, whatever ceremonies interleave: the key that a verification
\* accepts is one the operator had while the request ran.
VerifiedByHeldKey ==
    \A r \in Request :
        stage[r] \in {"activating", "verified"} => task[r].answer.key \in keysSeen[r]

\* Beginning a new ceremony puts an end to the old one: a finish request that comes after
\* a newer challenge was saved is refused, and of overlapping ones only those that
\* answer a challenge which was the last when they ran succeed.
AnswersLastChallenge ==
    \A r \in Request :
        stage[r] \in {"store", "registered", "activating", "verified"} =>
            \E row \in rowsSeen[r] \ {NoSession} : row.nonce = task[r].answer.nonce

\* A ceremony that nothing gets in the way of succeeds: an answer to the last challenge
\* is refused only if a query fails, another ceremony of the operator begins, or its key
\* changes.
UndisturbedSucceeds ==
    \A r \in Request : stage[r] = "refused" => r \notin steady

\* The operator that the backend has activated in the bridge was verified, however late
\* its call arrives and whatever the requests and the bridge do meanwhile.  (Of an operator
\* the bridge knows from elsewhere that is not so, whatever the source it is stored with.)
ActivatedWasVerified ==
    slot # Nobody /\ slot.sender = "backend" => slot.operator \in verified
=============================================================================
