----------------------- MODULE CeremonyAndBridgeProofs -----------------------
(***************************************************************************)
(* Proofs about OperatorCeremony, for every set of operators and requests  *)
(* and any number of challenges, and about ArcBridge, for every set of     *)
(* names, channels and keys and every size of its stores.                  *)
(*                                                                         *)
(* The ceremonies.  The properties speak of requests that have been        *)
(* decided.  IInv says what a request must know before: as long as it      *)
(* reads, its operator's key and row of now are among those seen; a row    *)
(* that it has read is one of these; and nothing has come between a steady *)
(* request and what its answer is compared with.                           *)
(*                                                                         *)
(* The arc bridge.  The registry and the stream are both written by every  *)
(* message; FedInv says where in what was heard each of them stands.       *)
(***************************************************************************)
EXTENDS OperatorCeremony, ArcBridge, FiniteSetTheorems, WellFoundedInduction, TLAPS

Reading == {"load", "user", "store"}
Granted == {"registered", "activating", "verified"}

\* The request answers the challenge of a row that it might have read.
Matched(r) == \E row \in rowsSeen[r] \ {NoSession} : row.nonce = task[r].answer.nonce

\* What a finish request has seen.
Seen(r) ==
    /\ stage[r] \in Reading =>
          /\ task[r].answer.operator = task[r].operator
          /\ credential[task[r].operator] \in keysSeen[r]
          /\ session[task[r].operator] \in rowsSeen[r]
    /\ stage[r] = "user" => task[r].row \in rowsSeen[r] /\ task[r].answer.kind = "login"
    /\ stage[r] \in {"activating", "verified"} => task[r].answer.key \in keysSeen[r]
    /\ stage[r] \in {"store"} \cup Granted => Matched(r)

\* Nothing hinders a steady request.
Unhindered(r) ==
    r \in steady =>
        /\ stage[r] \in Reading \cup Granted
        /\ stage[r] = "load" => latest[task[r].operator] = task[r].answer
        /\ stage[r] = "user" => task[r].row.nonce = task[r].answer.nonce
        /\ stage[r] \in {"load", "user"} /\ task[r].answer.kind = "login" =>
              credential[task[r].operator] = task[r].answer.key

CallVerified(r) == calls[r] # Nobody => calls[r] \in verified

RequestOK(r) == Seen(r) /\ Unhindered(r) /\ CallVerified(r)

\* What a begin has saved is there.
LatestSaved == \A o \in Operator : latest[o] # NoSession => session[o] = latest[o]

IInv ==
    /\ TypeOK
    /\ LatestSaved
    /\ ActivatedWasVerified
    /\ \A r \in Request : RequestOK(r)

\* The part of TypeOK that is about stages, for one request.
Staged(st, tk) ==
    /\ st \in Working \cup Answered \cup {"idle"}
    /\ tk \in Task
    /\ st \in Working => tk.operator \in Operator
    /\ st \in {"saving", "user", "store"} => tk.row \in Challenge
    /\ st \in {"load", "user", "store", "activating", "registered", "verified"} =>
          tk.answer \in Challenge

\* The part that is about the rest.
RestOK ==
    /\ credential \in [Operator -> 0..MaxNonce]
    /\ session \in [Operator -> Challenge \cup {NoSession}]
    /\ latest \in [Operator -> Challenge \cup {NoSession}]
    /\ nonce \in 0..MaxNonce
    /\ offered \subseteq Challenge
    /\ calls \in [Request -> Operator \cup {Nobody}]
    /\ slot \in Slot \cup {Nobody}
    /\ keysSeen \in [Request -> SUBSET (0..MaxNonce)]
    /\ rowsSeen \in [Request -> SUBSET (Challenge \cup {NoSession})]
    /\ steady \subseteq Request
    /\ verified \subseteq Operator

-----------------------------------------------------------------------------
(* What TypeOK is made of *)

LEMMA TypeParts ==
    TypeOK <=> /\ RestOK
               /\ stage \in [Request -> Working \cup Answered \cup {"idle"}]
               /\ task \in [Request -> Task]
               /\ \A r \in Request : Staged(stage[r], task[r])
BY DEF TypeOK, RestOK, Staged

LEMMA ChallengeFields ==
    ASSUME NEW c \in Challenge
    PROVE  c.operator \in Operator /\ c.nonce \in 1..MaxNonce /\ c.key \in 0..MaxNonce
BY ConstantsAssumption DEF Challenge

LEMMA IdleFields ==
    /\ Idle \in Task
    /\ \A o \in Operator : [Idle EXCEPT !.operator = o] \in Task
    /\ \A o \in Operator, c \in Challenge :
          /\ [Idle EXCEPT !.operator = o, !.row = c] \in Task
          /\ [Idle EXCEPT !.operator = o, !.answer = c] \in Task
BY DEF Idle, Task

\* A step of one request that leaves the tables and what was seen alone keeps IInv if it
\* does for that request.
LEMMA OneRequest ==
    ASSUME IInv, NEW r \in Request, NEW st, NEW tk, Staged(st, tk),
           stage' = [stage EXCEPT ![r] = st], task' = [task EXCEPT ![r] = tk],
           UNCHANGED <<credential, session, offered, slot, latest, keysSeen, rowsSeen>>,
           nonce' \in 0..MaxNonce,
           calls' \in [Request -> Operator \cup {Nobody}],
           \A s \in Request \ {r} : calls'[s] = calls[s],
           steady' \subseteq steady,
           verified \subseteq verified', verified' \subseteq Operator,
           RequestOK(r)'
    PROVE  IInv'
<1>1. TypeOK /\ RestOK
  BY TypeParts DEF IInv
<1>2. /\ stage' \in [Request -> Working \cup Answered \cup {"idle"}]
      /\ task' \in [Request -> Task]
      /\ stage'[r] = st /\ task'[r] = tk
      /\ \A s \in Request \ {r} : stage'[s] = stage[s] /\ task'[s] = task[s]
  BY <1>1 DEF TypeOK, Staged
<1>3. TypeOK'
  <2>1. RestOK'
    BY <1>1 DEF RestOK
  <2>2. \A s \in Request : Staged(stage'[s], task'[s])
    BY <1>1, <1>2, TypeParts
  <2> QED
    BY <1>2, <2>1, <2>2 DEF TypeOK, RestOK, Staged
<1>4. LatestSaved' /\ ActivatedWasVerified'
  BY DEF IInv, LatestSaved, ActivatedWasVerified
<1>5. ASSUME NEW s \in Request \ {r} PROVE RequestOK(s)'
  <2>1. RequestOK(s)
    BY DEF IInv
  <2>2. Seen(s)'
    BY <1>2, <2>1 DEF RequestOK, Seen, Matched
  <2>3. Unhindered(s)'
    BY <1>2, <2>1 DEF RequestOK, Unhindered
  <2>4. CallVerified(s)'
    BY <2>1 DEF RequestOK, CallVerified
  <2> QED
    BY <2>2, <2>3, <2>4 DEF RequestOK
<1> QED
  BY <1>3, <1>4, <1>5 DEF IInv

-----------------------------------------------------------------------------
(* IInv is inductive *)

LEMMA InitIInv == Init => IInv
<1> SUFFICES ASSUME Init PROVE IInv
  OBVIOUS
<1>1. RestOK
  BY ConstantsAssumption DEF Init, RestOK
<1>2. \A r \in Request : Staged(stage[r], task[r])
  BY IdleFields DEF Init, Staged, Working, Answered
<1>3. TypeOK
  BY <1>1, <1>2, IdleFields DEF Init, TypeOK, RestOK, Staged
<1>4. LatestSaved /\ ActivatedWasVerified
  BY DEF Init, LatestSaved, ActivatedWasVerified
<1>5. \A r \in Request : RequestOK(r)
  BY DEF Init, RequestOK, Seen, Unhindered, CallVerified, Reading, Granted
<1> QED
  BY <1>3, <1>4, <1>5 DEF IInv

\* A new challenge, by either begin.
LEMMA ChallengedKeeps ==
    ASSUME IInv, NEW r \in Request, NEW o \in Operator, NEW kind, NEW key,
           \/ kind = "register" /\ key = 0
           \/ kind = "login" /\ key \in 1..MaxNonce,
           Challenged(r, o, kind, key)
    PROVE  IInv'
<1> DEFINE c == [operator |-> o, kind |-> kind, nonce |-> nonce + 1, key |-> key]
           tk == [Idle EXCEPT !.operator = o, !.row = c]
<1>1. TypeOK
  BY DEF IInv
<1>2. nonce + 1 \in 1..MaxNonce
  BY <1>1, ConstantsAssumption DEF TypeOK, Challenged
<1>3. c \in Challenge
  BY <1>2 DEF Challenge
<1>4. tk \in Task /\ tk.operator = o /\ tk.row = c
  <2> HIDE DEF c
  <2> QED
    BY <1>3, IdleFields DEF Idle
<1>5. task' = [task EXCEPT ![r] = tk] /\ stage' = [stage EXCEPT ![r] = "saving"]
  BY DEF Challenged, Goto
<1> HIDE DEF c, tk
<1>6. Staged("saving", tk)
  BY <1>3, <1>4 DEF Staged, Working
<1>7. RequestOK(r)'
  <2>1. stage'[r] = "saving" /\ stage[r] = "idle"
    BY <1>1, <1>5 DEF TypeOK, Challenged, Free
  <2>2. RequestOK(r) /\ r \notin steady
    BY <2>1 DEF IInv, RequestOK, Unhindered, Reading, Granted
  <2> QED
    BY <2>1, <2>2 DEF Challenged, history, RequestOK, Seen, Unhindered, CallVerified,
                      Reading, Granted
<1>8. nonce' \in 0..MaxNonce
  BY <1>2 DEF Challenged
<1> QED
  BY <1>1, <1>5, <1>6, <1>7, <1>8, OneRequest DEF Challenged, tables, history, TypeOK

LEMMA BeginKeeps ==
    ASSUME IInv, NEW r \in Request, NEW o \in Operator,
           WebAuthnBegin(r, o) \/ WebAuthnVerifyBegin(r, o)
    PROVE  IInv'
<1>1. CASE WebAuthnBegin(r, o)
  BY <1>1, ChallengedKeeps DEF WebAuthnBegin
<1>2. CASE WebAuthnVerifyBegin(r, o)
  <2>1. credential[o] \in 1..MaxNonce
    BY <1>2, ConstantsAssumption DEF IInv, TypeOK, WebAuthnVerifyBegin
  <2> QED
    BY <1>2, <2>1, ChallengedKeeps DEF WebAuthnVerifyBegin
<1> QED
  BY <1>1, <1>2

\* The end of a begin: the row and the seen rows change for the requests of one operator,
\* and none of these stays steady.
LEMMA SaveKeeps ==
    ASSUME IInv, NEW r \in Request, SaveSession(r) \/ SaveSessionFails(r)
    PROVE  IInv'
<1> DEFINE o == task[r].operator
           c == task[r].row
<1>1. TypeOK /\ RestOK /\ o \in Operator /\ c \in Challenge /\ c # NoSession
  BY TypeParts, ConstantsAssumption
     DEF IInv, TypeOK, SaveSession, SaveSessionFails, Working
<1>2. /\ stage' = [stage EXCEPT ![r] = "idle"]
      /\ task' = [task EXCEPT ![r] = Idle]
      /\ offered' = offered \cup {c}
      /\ steady' = steady \ Alike(r)
      /\ UNCHANGED <<credential, nonce, calls, slot, keysSeen, verified>>
  BY DEF SaveSession, SaveSessionFails, Offer, Goto, tables
<1>3. /\ session' \in [Operator -> Challenge \cup {NoSession}]
      /\ latest' \in [Operator -> Challenge \cup {NoSession}]
      /\ rowsSeen' \in [Request -> SUBSET (Challenge \cup {NoSession})]
      /\ \A q \in Operator \ {o} : session'[q] = session[q] /\ latest'[q] = latest[q]
      /\ latest'[o] # NoSession => session'[o] = latest'[o]
      /\ \A s \in Request : rowsSeen[s] \subseteq rowsSeen'[s]
      /\ \A s \in Alike(r) : session'[o] \in rowsSeen'[s] \/ session'[o] = session[o]
  <2>1. CASE SaveSession(r)
    BY <1>1, <2>1 DEF SaveSession, RestOK, Alike
  <2>2. CASE SaveSessionFails(r)
    BY <1>1, <2>2 DEF SaveSessionFails, RestOK, tables
  <2> QED
    BY <2>1, <2>2
<1>4. RestOK'
  BY <1>1, <1>2, <1>3 DEF RestOK
<1>5. /\ stage' \in [Request -> Working \cup Answered \cup {"idle"}]
      /\ task' \in [Request -> Task]
      /\ stage'[r] = "idle" /\ task'[r] = Idle
      /\ \A s \in Request \ {r} : stage'[s] = stage[s] /\ task'[s] = task[s]
  BY <1>1, <1>2, IdleFields DEF TypeOK
<1>6. TypeOK'
  <2>1. \A s \in Request : Staged(stage'[s], task'[s])
    BY <1>1, <1>5, TypeParts, IdleFields DEF Staged, Working, Answered
  <2> QED
    BY <1>4, <1>5, <2>1 DEF TypeOK, RestOK, Staged
<1>7. LatestSaved' /\ ActivatedWasVerified'
  BY <1>2, <1>3 DEF IInv, LatestSaved, ActivatedWasVerified
<1>8. r \notin steady'
  BY <1>2 DEF Alike
<1>9. RequestOK(r)'
  BY <1>2, <1>5, <1>8 DEF IInv, RequestOK, Seen, Unhindered, CallVerified, Reading, Granted
<1>10. ASSUME NEW s \in Request \ {r} PROVE RequestOK(s)'
  <2>1. RequestOK(s) /\ Staged(stage[s], task[s])
    BY <1>1, TypeParts DEF IInv
  <2>2. Seen(s)'
    <3>1. stage[s] \in Reading => session'[task[s].operator] \in rowsSeen'[s]
      <4> SUFFICES ASSUME stage[s] \in Reading
                   PROVE  session'[task[s].operator] \in rowsSeen'[s]
        OBVIOUS
      <4>1. task[s].operator \in Operator /\ session[task[s].operator] \in rowsSeen[s]
        BY <2>1 DEF RequestOK, Seen, Reading, Staged, Working
      <4>2. CASE task[s].operator = o
        BY <1>3, <4>1, <4>2 DEF Alike
      <4>3. CASE task[s].operator # o
        BY <1>3, <4>1, <4>3
      <4> QED
        BY <4>2, <4>3
    <3>2. Matched(s) => Matched(s)'
      BY <1>3, <1>5 DEF Matched
    <3> QED
      BY <1>2, <1>3, <1>5, <2>1, <3>1, <3>2 DEF RequestOK, Seen, Reading
  <2>3. Unhindered(s)'
    <3>1. s \in steady' => s \in steady /\ task[s].operator # o
      BY <1>2 DEF Alike
    <3>2. s \in steady /\ stage[s] = "load" => task[s].operator \in Operator
      BY <2>1 DEF Staged, Working
    <3> QED
      BY <1>2, <1>3, <1>5, <2>1, <3>1, <3>2 DEF RequestOK, Unhindered
  <2>4. CallVerified(s)'
    BY <1>2, <2>1 DEF RequestOK, CallVerified
  <2> QED
    BY <2>2, <2>3, <2>4 DEF RequestOK
<1> QED
  BY <1>6, <1>7, <1>9, <1>10 DEF IInv

LEMMA FinishKeeps ==
    ASSUME IInv, NEW r \in Request, NEW a \in offered, Finish(r, a)
    PROVE  IInv'
<1> DEFINE tk == [Idle EXCEPT !.operator = a.operator, !.answer = a]
<1>1. TypeOK /\ RestOK /\ a \in Challenge /\ a.operator \in Operator
  BY TypeParts, ChallengeFields DEF IInv, RestOK
<1>2. tk \in Task /\ tk.operator = a.operator /\ tk.answer = a
  BY <1>1, IdleFields DEF Idle
<1>3. /\ stage' = [stage EXCEPT ![r] = "load"]
      /\ task' = [task EXCEPT ![r] = tk]
      /\ UNCHANGED <<credential, session, nonce, offered, calls, slot, latest, verified>>
  BY DEF Finish, Goto, tables
<1> HIDE DEF tk
<1>4. /\ stage' \in [Request -> Working \cup Answered \cup {"idle"}]
      /\ task' \in [Request -> Task]
      /\ stage'[r] = "load" /\ task'[r] = tk
      /\ \A s \in Request \ {r} : stage'[s] = stage[s] /\ task'[s] = task[s]
  BY <1>1, <1>2, <1>3 DEF TypeOK, Working
<1>5. /\ keysSeen' \in [Request -> SUBSET (0..MaxNonce)]
      /\ rowsSeen' \in [Request -> SUBSET (Challenge \cup {NoSession})]
      /\ keysSeen'[r] = {credential[a.operator]}
      /\ rowsSeen'[r] = {session[a.operator]}
      /\ \A s \in Request \ {r} : keysSeen'[s] = keysSeen[s] /\ rowsSeen'[s] = rowsSeen[s]
      /\ steady' \subseteq Request
      /\ \A s \in Request \ {r} : s \in steady' => s \in steady
      /\ r \in steady \/ (r \in steady' => /\ latest[a.operator] = a
                                           /\ a.kind = "login" => credential[a.operator] = a.key)
  BY <1>1 DEF Finish, RestOK
<1>6. TypeOK'
  <2>1. \A s \in Request : Staged(stage'[s], task'[s])
    BY <1>1, <1>2, <1>4, TypeParts DEF Staged, Working
  <2>2. RestOK'
    BY <1>1, <1>3, <1>5 DEF RestOK
  <2> QED
    BY <1>4, <2>1, <2>2 DEF TypeOK, RestOK, Staged
<1>7. LatestSaved' /\ ActivatedWasVerified'
  BY <1>3 DEF IInv, LatestSaved, ActivatedWasVerified
<1>8. RequestOK(r)'
  <2>1. RequestOK(r) /\ r \notin steady
    BY DEF IInv, RequestOK, Unhindered, Finish, Free, Reading, Granted
  <2> QED
    BY <1>2, <1>3, <1>4, <1>5, <2>1
       DEF RequestOK, Seen, Unhindered, CallVerified, Reading, Granted
<1>9. ASSUME NEW s \in Request \ {r} PROVE RequestOK(s)'
  <2>1. RequestOK(s)
    BY DEF IInv
  <2> QED
    BY <1>3, <1>4, <1>5, <2>1 DEF RequestOK, Seen, Matched, Unhindered, CallVerified
<1> QED
  BY <1>6, <1>7, <1>8, <1>9 DEF IInv

\* A refused request knows nothing that matters.
LEMMA RefuseKeeps ==
    ASSUME IInv, NEW r \in Request, stage[r] \in Reading, Refuse(r), r \notin steady',
           steady' \subseteq steady,
           UNCHANGED <<tables, nonce, offered, calls, slot, latest, keysSeen, rowsSeen, verified>>
    PROVE  IInv'
<1> DEFINE tk == [Idle EXCEPT !.operator = task[r].operator]
<1>1. TypeOK /\ task[r].operator \in Operator
  BY DEF IInv, TypeOK, Reading, Working
<1>2. tk \in Task
  BY <1>1, IdleFields
<1>3. task' = [task EXCEPT ![r] = tk] /\ stage' = [stage EXCEPT ![r] = "refused"]
  BY DEF Refuse, Goto
<1> HIDE DEF tk
<1>4. Staged("refused", tk)
  BY <1>2 DEF Staged, Working, Answered
<1>5. RequestOK(r)'
  <2>1. RequestOK(r) /\ stage'[r] = "refused"
    BY <1>1, <1>3 DEF IInv, TypeOK
  <2> QED
    BY <2>1 DEF RequestOK, Seen, Unhindered, CallVerified, Reading, Granted
<1> QED
  BY <1>1, <1>3, <1>4, <1>5, OneRequest DEF TypeOK, tables

LEMMA LoadKeeps ==
    ASSUME IInv, NEW r \in Request, LoadSession(r)
    PROVE  IInv'
<1> DEFINE o == task[r].operator
           a == task[r].answer
           row == session[o]
           bad == row = NoSession \/ (a.kind = "register" /\ row.nonce # a.nonce)
<1>1. /\ TypeOK /\ RequestOK(r) /\ LatestSaved
      /\ stage[r] = "load" /\ task[r] \in Task
      /\ o \in Operator /\ a \in Challenge /\ a # NoSession
      /\ row \in Challenge \cup {NoSession}
  BY ConstantsAssumption DEF IInv, TypeOK, LoadSession, Working
<1>2. row \in rowsSeen[r] /\ a.operator = o /\ credential[o] \in keysSeen[r]
  BY <1>1 DEF RequestOK, Seen, Reading
<1>3. r \in steady => row = a
  BY <1>1 DEF RequestOK, Unhindered, LatestSaved
<1>4. UNCHANGED <<tables, nonce, offered, calls, slot, history>>
  BY DEF LoadSession
<1>5. CASE bad
  <2>1. r \notin steady
    BY <1>1, <1>3, <1>5
  <2>2. Refuse(r)
    BY <1>5 DEF LoadSession
  <2> QED
    BY <1>1, <1>4, <2>1, <2>2, RefuseKeeps DEF Reading, history
<1>6. CASE ~bad
  <2> DEFINE st == IF a.kind = "login" THEN "user" ELSE "store"
             tk == [task[r] EXCEPT !.row = row]
  <2>1. row \in Challenge /\ row # NoSession
    BY <1>1, <1>6
  <2>2. /\ tk \in Task /\ tk.row = row /\ tk.operator = o /\ tk.answer = a
    BY <1>1 DEF Task
  <2>3. task' = [task EXCEPT ![r] = tk] /\ stage' = [stage EXCEPT ![r] = st]
    BY <1>6 DEF LoadSession, Goto
  <2>4. a.kind # "login" => a.kind = "register" /\ row.nonce = a.nonce
    BY <1>1, <1>6 DEF Challenge
  <2> HIDE DEF tk
  <2>5. Staged(st, tk)
    BY <1>1, <2>1, <2>2 DEF Staged, Working
  <2>6. stage'[r] = st /\ task'[r] = tk
    BY <1>1, <2>3 DEF TypeOK
  <2>7. RequestOK(r)'
    <3>1. Seen(r)'
      BY <1>1, <1>2, <1>4, <2>1, <2>2, <2>4, <2>6
         DEF Seen, Matched, tables, history, Reading, Granted
    <3>2. Unhindered(r)'
      BY <1>1, <1>3, <1>4, <2>2, <2>6
         DEF RequestOK, Unhindered, tables, history, Reading, Granted
    <3>3. CallVerified(r)'
      BY <1>1, <1>4 DEF RequestOK, CallVerified, history
    <3> QED
      BY <3>1, <3>2, <3>3 DEF RequestOK
  <2> QED
    BY <1>1, <1>4, <2>3, <2>5, <2>7, OneRequest DEF tables, history, TypeOK
<1> QED
  BY <1>5, <1>6

LEMMA VerifyKeeps ==
    ASSUME IInv, NEW r \in Request, VerifyUser(r)
    PROVE  IInv'
<1> DEFINE o == task[r].operator
           a == task[r].answer
           good == task[r].row.nonce = a.nonce /\ a.key = credential[o]
<1>1. /\ TypeOK /\ RequestOK(r)
      /\ stage[r] = "user" /\ task[r] \in Task
      /\ o \in Operator /\ a \in Challenge /\ task[r].row \in Challenge
      /\ task[r].row # NoSession
  BY ConstantsAssumption DEF IInv, TypeOK, VerifyUser, Working
<1>2. UNCHANGED <<tables, nonce, offered, slot, latest, keysSeen, rowsSeen, steady>>
  BY DEF VerifyUser
<1>3. r \in steady => good
  BY <1>1 DEF RequestOK, Unhindered, Seen
<1>4. CASE ~good
  BY <1>1, <1>2, <1>3, <1>4, RefuseKeeps DEF VerifyUser, Reading
<1>5. CASE good
  <2>1. /\ task' = [task EXCEPT ![r] = task[r]]
        /\ stage' = [stage EXCEPT ![r] = "activating"]
        /\ calls' = [calls EXCEPT ![r] = o]
        /\ verified' = verified \cup {o}
    BY <1>1, <1>5 DEF VerifyUser, Goto, TypeOK
  <2>2. Staged("activating", task[r])
    BY <1>1 DEF Staged, Working
  <2>3. stage'[r] = "activating" /\ task'[r] = task[r] /\ calls'[r] = o
    BY <1>1, <2>1 DEF TypeOK
  <2>4. RequestOK(r)'
    <3>1. Matched(r)'
      BY <1>1, <1>2, <1>5, <2>3 DEF RequestOK, Seen, Matched
    <3> QED
      BY <1>1, <1>2, <1>5, <2>1, <2>3, <3>1
         DEF RequestOK, Seen, Unhindered, CallVerified, tables, Reading, Granted
  <2> QED
    BY <1>1, <1>2, <2>1, <2>2, <2>4, OneRequest DEF tables, TypeOK
<1> QED
  BY <1>4, <1>5

LEMMA QueryFailsKeeps ==
    ASSUME IInv, NEW r \in Request, QueryFails(r)
    PROVE  IInv'
BY RefuseKeeps DEF QueryFails, Reading

LEMMA AnswerKeeps ==
    ASSUME IInv, NEW r \in Request, AnswerVerified(r)
    PROVE  IInv'
<1>1. /\ TypeOK /\ RequestOK(r) /\ stage[r] = "activating"
      /\ task[r] \in Task /\ task[r].answer \in Challenge
  BY DEF IInv, TypeOK, AnswerVerified
<1>2. task' = [task EXCEPT ![r] = task[r]] /\ stage' = [stage EXCEPT ![r] = "verified"]
  BY <1>1 DEF AnswerVerified, Goto, TypeOK
<1>3. Staged("verified", task[r])
  BY <1>1 DEF Staged, Working, Answered
<1>4. RequestOK(r)'
  <2>1. stage'[r] = "verified" /\ task'[r] = task[r]
    BY <1>1, <1>2 DEF TypeOK
  <2> QED
    BY <1>1, <2>1 DEF AnswerVerified, RequestOK, Seen, Matched, Unhindered, CallVerified,
                      tables, history, Reading, Granted
<1> QED
  BY <1>1, <1>2, <1>3, <1>4, OneRequest DEF AnswerVerified, tables, history, TypeOK

\* A new key hinders the operator's other requests, not the one that stores it.
LEMMA StoreKeeps ==
    ASSUME IInv, NEW r \in Request, StoreKey(r) \/ StoreKeyUnanswered(r)
    PROVE  IInv'
<1> DEFINE o == task[r].operator
           key == task[r].answer.nonce
<1>1. /\ TypeOK /\ RestOK /\ stage[r] = "store" /\ o \in Operator
      /\ task[r].answer \in Challenge
  BY TypeParts DEF IInv, TypeOK, StoreKey, StoreKeyUnanswered, Stored, Working
<1>2. key \in 0..MaxNonce
  BY <1>1, ChallengeFields
<1>3. /\ credential' = [credential EXCEPT ![o] = key]
      /\ keysSeen' = [s \in Request |-> IF s \in Alike(r) THEN keysSeen[s] \cup {key}
                                                          ELSE keysSeen[s]]
      /\ task' = task
      /\ UNCHANGED <<session, nonce, offered, calls, slot, latest, rowsSeen, verified>>
  BY DEF StoreKey, StoreKeyUnanswered, Stored
<1>4. PICK st \in {"registered", "refused"} :
          /\ stage' = [stage EXCEPT ![r] = st]
          /\ steady' \subseteq steady
          /\ \A s \in Alike(r) \ {r} : s \notin steady'
          /\ st = "refused" => r \notin steady'
  BY DEF StoreKey, StoreKeyUnanswered, Goto, Alike
<1>5. /\ stage' \in [Request -> Working \cup Answered \cup {"idle"}]
      /\ stage'[r] = st
      /\ \A s \in Request \ {r} : stage'[s] = stage[s]
  BY <1>1, <1>4 DEF TypeOK, Answered
<1>6. TypeOK'
  <2>1. RestOK'
    BY <1>1, <1>2, <1>3, <1>4 DEF RestOK
  <2>2. \A s \in Request : Staged(stage'[s], task'[s])
    BY <1>1, <1>3, <1>5, TypeParts DEF Staged, Working, Answered
  <2> QED
    BY <1>1, <1>3, <1>5, <2>1, <2>2 DEF TypeOK, RestOK, Staged
<1>7. LatestSaved' /\ ActivatedWasVerified'
  BY <1>3 DEF IInv, LatestSaved, ActivatedWasVerified
<1>8. RequestOK(r)'
  <2>1. RequestOK(r)
    BY DEF IInv
  <2>2. Matched(r)'
    BY <1>1, <1>3, <2>1 DEF RequestOK, Seen, Matched
  <2> QED
    BY <1>3, <1>4, <1>5, <2>1, <2>2
       DEF RequestOK, Seen, Unhindered, CallVerified, Reading, Granted
<1>9. ASSUME NEW s \in Request \ {r} PROVE RequestOK(s)'
  <2>1. RequestOK(s) /\ Staged(stage[s], task[s])
    BY <1>1, TypeParts DEF IInv
  <2>2. Seen(s)'
    <3>1. stage[s] \in Reading => credential'[task[s].operator] \in keysSeen'[s]
      <4> SUFFICES ASSUME stage[s] \in Reading
                   PROVE  credential'[task[s].operator] \in keysSeen'[s]
        OBVIOUS
      <4>1. task[s].operator \in Operator /\ credential[task[s].operator] \in keysSeen[s]
        BY <2>1 DEF RequestOK, Seen, Reading, Staged, Working
      <4> QED
        BY <1>1, <1>3, <4>1 DEF RestOK, Alike
    <3>2. keysSeen[s] \subseteq keysSeen'[s]
      BY <1>3
    <3> QED
      BY <1>3, <1>5, <2>1, <3>1, <3>2 DEF RequestOK, Seen, Matched
  <2>3. Unhindered(s)'
    <3>1. s \in steady' => s \in steady /\ task[s].operator # o
      BY <1>4 DEF Alike
    <3>2. stage[s] \in {"load", "user"} => task[s].operator \in Operator
      BY <2>1 DEF Staged, Working
    <3> QED
      BY <1>1, <1>3, <1>5, <2>1, <3>1, <3>2 DEF RequestOK, Unhindered, RestOK
  <2>4. CallVerified(s)'
    BY <1>3, <2>1 DEF RequestOK, CallVerified
  <2> QED
    BY <2>2, <2>3, <2>4 DEF RequestOK
<1> QED
  BY <1>6, <1>7, <1>8, <1>9 DEF IInv

\* Requests that end, one or all, leave nothing behind.
LEMMA EndKeeps ==
    ASSUME IInv, (\E r \in Request : Return(r)) \/ Restart
    PROVE  IInv'
<1>1. TypeOK /\ RestOK
  BY TypeParts DEF IInv
<1>2. /\ UNCHANGED <<credential, session, nonce, offered, calls, slot, latest, verified>>
      /\ stage' \in [Request -> Working \cup Answered \cup {"idle"}]
      /\ task' \in [Request -> Task]
      /\ keysSeen' \in [Request -> SUBSET (0..MaxNonce)]
      /\ rowsSeen' \in [Request -> SUBSET (Challenge \cup {NoSession})]
      /\ steady' \subseteq steady
      /\ \A s \in Request :
            \/ stage'[s] = "idle" /\ task'[s] = Idle /\ s \notin steady'
            \/ /\ stage'[s] = stage[s] /\ task'[s] = task[s]
               /\ keysSeen'[s] = keysSeen[s] /\ rowsSeen'[s] = rowsSeen[s]
  <2>1. CASE \E r \in Request : Return(r)
    <3>1. PICK r \in Request : Return(r)
      BY <2>1
    <3> QED
      BY <1>1, <3>1, IdleFields DEF Return, Goto, TypeOK, RestOK, tables
  <2>2. CASE Restart
    BY <1>1, <2>2, IdleFields DEF Restart, TypeOK, RestOK, tables
  <2> QED
    BY <2>1, <2>2
<1>3. TypeOK'
  <2>1. RestOK'
    BY <1>1, <1>2 DEF RestOK
  <2>2. \A s \in Request : Staged(stage'[s], task'[s])
    BY <1>1, <1>2, TypeParts, IdleFields DEF Staged, Working
  <2> QED
    BY <1>2, <2>1, <2>2 DEF TypeOK, RestOK, Staged
<1>4. LatestSaved' /\ ActivatedWasVerified'
  BY <1>2 DEF IInv, LatestSaved, ActivatedWasVerified
<1>5. ASSUME NEW s \in Request PROVE RequestOK(s)'
  <2>1. RequestOK(s)
    BY DEF IInv
  <2>2. CASE stage'[s] = "idle" /\ task'[s] = Idle /\ s \notin steady'
    BY <1>2, <2>1, <2>2 DEF RequestOK, Seen, Unhindered, CallVerified, Reading, Granted
  <2>3. CASE /\ stage'[s] = stage[s] /\ task'[s] = task[s]
             /\ keysSeen'[s] = keysSeen[s] /\ rowsSeen'[s] = rowsSeen[s]
    BY <1>2, <2>1, <2>3 DEF RequestOK, Seen, Matched, Unhindered, CallVerified
  <2> QED
    BY <1>2, <2>2, <2>3
<1> QED
  BY <1>3, <1>4, <1>5 DEF IInv

\* The bridge registers only operators whose call was made.
LEMMA BridgeKeeps ==
    ASSUME IInv,
           \/ \E r \in Request : BridgeRegisters(r) \/ CallIsLost(r)
           \/ \E o \in Operator : BridgeEnrols(o)
           \/ BridgeRestarts
    PROVE  IInv'
<1>1. TypeOK
  BY DEF IInv
<1>2. UNCHANGED <<tables, nonce, offered, stage, task, history>>
  BY DEF BridgeRegisters, CallIsLost, BridgeEnrols, BridgeRestarts
<1>3. /\ calls' \in [Request -> Operator \cup {Nobody}]
      /\ slot' \in Slot \cup {Nobody}
      /\ \A s \in Request : calls'[s] = calls[s] \/ calls'[s] = Nobody
      /\ ActivatedWasVerified'
  <2>1. ASSUME NEW r \in Request, BridgeRegisters(r)
        PROVE  /\ calls' \in [Request -> Operator \cup {Nobody}]
               /\ slot' \in Slot \cup {Nobody}
               /\ \A s \in Request : calls'[s] = calls[s] \/ calls'[s] = Nobody
               /\ ActivatedWasVerified'
    <3>1. calls[r] \in Operator /\ calls[r] \in verified
      BY <1>1, <2>1 DEF BridgeRegisters, TypeOK, IInv, RequestOK, CallVerified
    <3> QED
      BY <1>1, <1>2, <2>1, <3>1 DEF BridgeRegisters, TypeOK, Slot, ActivatedWasVerified, history
  <2>2. ASSUME NEW r \in Request, CallIsLost(r)
        PROVE  /\ calls' \in [Request -> Operator \cup {Nobody}]
               /\ slot' \in Slot \cup {Nobody}
               /\ \A s \in Request : calls'[s] = calls[s] \/ calls'[s] = Nobody
               /\ ActivatedWasVerified'
    BY <1>1, <1>2, <2>2 DEF CallIsLost, TypeOK, ActivatedWasVerified, IInv, history
  <2>3. ASSUME NEW o \in Operator, BridgeEnrols(o)
        PROVE  slot' \in Slot /\ ActivatedWasVerified' /\ calls' = calls
    BY <2>3 DEF BridgeEnrols, Slot, ActivatedWasVerified
  <2>4. CASE BridgeRestarts
    BY <1>1, <2>4 DEF BridgeRestarts, TypeOK, ActivatedWasVerified
  <2> QED
    BY <1>1, <2>1, <2>2, <2>3, <2>4 DEF TypeOK
<1>4. TypeOK' /\ LatestSaved'
  BY <1>1, <1>2, <1>3 DEF IInv, TypeOK, LatestSaved, tables, history
<1>5. ASSUME NEW s \in Request PROVE RequestOK(s)'
  <2>1. RequestOK(s)
    BY DEF IInv
  <2> QED
    BY <1>2, <1>3, <2>1
       DEF RequestOK, Seen, Matched, Unhindered, CallVerified, tables, history
<1> QED
  BY <1>3, <1>4, <1>5 DEF IInv

LEMMA NextIInv == IInv /\ [Next]_vars => IInv'
<1> SUFFICES ASSUME IInv, [Next]_vars PROVE IInv'
  OBVIOUS
<1>1. ASSUME NEW r \in Request, Handle(r) PROVE IInv'
  <2>1. CASE \E o \in Operator : WebAuthnBegin(r, o) \/ WebAuthnVerifyBegin(r, o)
    BY <2>1, BeginKeeps
  <2>2. CASE SaveSession(r) \/ SaveSessionFails(r)
    BY <2>2, SaveKeeps
  <2>3. CASE \E a \in offered : Finish(r, a)
    BY <2>3, FinishKeeps
  <2>4. CASE LoadSession(r)
    BY <2>4, LoadKeeps
  <2>5. CASE StoreKey(r) \/ StoreKeyUnanswered(r)
    BY <2>5, StoreKeeps
  <2>6. CASE VerifyUser(r)
    BY <2>6, VerifyKeeps
  <2>7. CASE AnswerVerified(r)
    BY <2>7, AnswerKeeps
  <2>8. CASE QueryFails(r)
    BY <2>8, QueryFailsKeeps
  <2>9. CASE Return(r)
    BY <2>9, EndKeeps
  <2> QED
    BY <1>1, <2>1, <2>2, <2>3, <2>4, <2>5, <2>6, <2>7, <2>8, <2>9 DEF Handle
<1>2. CASE \/ \E r \in Request : BridgeRegisters(r) \/ CallIsLost(r)
           \/ \E o \in Operator : BridgeEnrols(o)
           \/ BridgeRestarts
  BY <1>2, BridgeKeeps
<1>3. CASE Restart
  BY <1>3, EndKeeps
<1>4. CASE UNCHANGED vars
  <2>1. UNCHANGED <<credential, session, nonce, offered, stage, task, calls, slot, latest,
                    keysSeen, rowsSeen, steady, verified>>
    BY <1>4 DEF vars, tables, history
  <2>2. \A r \in Request : RequestOK(r)' <=> RequestOK(r)
    BY <2>1 DEF RequestOK, Seen, Matched, Unhindered, CallVerified
  <2> QED
    BY <2>1, <2>2 DEF IInv, TypeOK, LatestSaved, ActivatedWasVerified
<1> QED
  BY <1>1, <1>2, <1>3, <1>4 DEF Next

LEMMA Inductive == Spec => []IInv
BY InitIInv, NextIInv, PTL DEF Spec

-----------------------------------------------------------------------------
(* The theorems *)

\* Every request has what its stage needs.
THEOREM TypeCorrect == Spec => []TypeOK
<1>1. IInv => TypeOK
  BY DEF IInv
<1> QED
  BY <1>1, Inductive, PTL

\* No key that was replaced before a verification began is accepted by it.
THEOREM HeldKeyOnly == Spec => []VerifiedByHeldKey
<1>1. IInv => VerifiedByHeldKey
  BY DEF IInv, RequestOK, Seen, VerifiedByHeldKey
<1> QED
  BY <1>1, Inductive, PTL

\* What is granted answers a challenge that was the last while the request ran.
THEOREM LastChallengeOnly == Spec => []AnswersLastChallenge
<1>1. IInv => AnswersLastChallenge
  BY DEF IInv, RequestOK, Seen, Matched, Granted, AnswersLastChallenge
<1> QED
  BY <1>1, Inductive, PTL

\* A ceremony that nothing gets in the way of succeeds.
THEOREM SteadySucceeds == Spec => []UndisturbedSucceeds
<1>1. IInv => UndisturbedSucceeds
  BY DEF IInv, RequestOK, Unhindered, Reading, Granted, UndisturbedSucceeds
<1> QED
  BY <1>1, Inductive, PTL

\* Whom the backend has activated in the bridge was verified, however late its call arrives.
THEOREM ActivatedVerified == Spec => []ActivatedWasVerified
<1>1. IInv => ActivatedWasVerified
  BY DEF IInv
<1> QED
  BY <1>1, Inductive, PTL

-----------------------------------------------------------------------------
(* What the stores of the arc bridge hold, and when *)

\* The stream is the end of what was heard.
StreamFollows ==
    /\ Len(events) = IF Len(heard) < MAX_EVENTS THEN Len(heard) ELSE MAX_EVENTS
    /\ \A k \in 1..Len(events) :
          LET h == heard[Len(heard) - Len(events) + k]
          IN  events[k].type = h.type /\ events[k].nodeId = h.from /\ events[k].ts = h.at

\* A message that names a node is taken to be that node's.
NamedIsFrom == \A k \in 1..Len(heard) : heard[k].named # Missing => heard[k].from = heard[k].named

HeartbeatOf(k, n) == heard[k].type = "heartbeat" /\ heard[k].named = n

LastHeartbeat(k, n) ==
    /\ k \in 1..Len(heard)
    /\ HeartbeatOf(k, n)
    /\ \A j \in k + 1..Len(heard) : ~HeartbeatOf(j, n)

\* A node is listed as of its last heartbeat.
SeenLast(n) ==
    /\ nodes[n] = Never => \A k \in 1..Len(heard) : ~HeartbeatOf(k, n)
    /\ nodes[n] # Never => \E k \in 1..Len(heard) : LastHeartbeat(k, n) /\ nodes[n] = heard[k].at

FedInv ==
    /\ FedTypeOK
    /\ StreamFollows
    /\ NamedIsFrom
    /\ \A n \in Id : SeenLast(n)

BridgeInv ==
    /\ FedInv
    /\ OpTypeOK
    /\ VerifiedWasCredentialed
    /\ requests \in 0..MaxRequests

EventRecord == [ts : Time, type : MessageType, nodeId : Id \cup {"unknown"}, channel : Route]
HeardRecord == [type : MessageType, from : Id \cup {"unknown"}, named : Name, at : Time]

\* What the proofs need of the constants.
LEMMA Bounds == MAX_EVENTS \in Nat \ {0} /\ MaxClock \in Nat \ {0}
BY ArcFederationAssumption

LEMMA NamesNotEmpty == Missing \notin Id /\ Missing \notin Channel
BY ArcFederationAssumption

LEMMA TimeNotNever == ASSUME NEW t \in Time PROVE t # Never
BY DEF Time, Never

\* A sequence t is the end of s that has at most n elements.
IsEnd(t, s, n) ==
    /\ Len(t) = IF Len(s) < n THEN Len(s) ELSE n
    /\ \A k \in 1..Len(t) : t[k] = s[Len(s) - Len(t) + k]

LEMMA LastOfIsEnd ==
    ASSUME NEW S, NEW s \in Seq(S), NEW n \in Nat \ {0}
    PROVE  LastOf(s, n) \in Seq(S) /\ IsEnd(LastOf(s, n), s, n)
<1>1. CASE Len(s) > n
  <2>1. LastOf(s, n) = SubSeq(s, Len(s) - n + 1, Len(s))
    BY <1>1 DEF LastOf
  <2>2. /\ Len(s) - n + 1 \in 1..Len(s)
        /\ Len(SubSeq(s, Len(s) - n + 1, Len(s))) = n
        /\ SubSeq(s, Len(s) - n + 1, Len(s)) \in Seq(S)
        /\ \A k \in 1..n : SubSeq(s, Len(s) - n + 1, Len(s))[k] = s[Len(s) - n + k]
    BY <1>1
  <2> QED
    BY <1>1, <2>1, <2>2 DEF IsEnd
<1>2. CASE ~(Len(s) > n)
  <2>1. LastOf(s, n) = s /\ Len(s) <= n
    BY <1>2 DEF LastOf
  <2> QED
    BY <2>1 DEF IsEnd
<1> QED
  BY <1>1, <1>2

\* Recording a message and hearing it keep the stream the end of what was heard.
LEMMA RecordKeeps ==
    ASSUME FedInv, NEW type \in MessageType, NEW data \in Body, NEW from \in Id \cup {"unknown"},
           RecordEvent(type, data, from),
           heard' = Append(heard, [type |-> type, from |-> from, named |-> data.nodeId, at |-> now])
    PROVE  events' \in Seq(EventRecord) /\ Len(events') <= MAX_EVENTS /\ StreamFollows'
<1> DEFINE e == [ts |-> now, type |-> type, nodeId |-> from,
                 channel |-> Or(data.channel, "broadcast")]
           h == [type |-> type, from |-> from, named |-> data.nodeId, at |-> now]
<1>1. /\ events \in Seq(EventRecord) /\ heard \in Seq(HeardRecord) /\ now \in Time
      /\ StreamFollows /\ MAX_EVENTS \in Nat \ {0}
  BY Bounds DEF FedInv, FedTypeOK, EventRecord, HeardRecord
<1>2. e \in EventRecord
  BY <1>1 DEF EventRecord, Or, Body, Route
<1>3. e.type = h.type /\ e.nodeId = h.from /\ e.ts = h.at
  OBVIOUS
<1>4. events' = LastOf(Append(events, e), MAX_EVENTS) /\ heard' = Append(heard, h)
  BY DEF RecordEvent
<1> HIDE DEF e, h
<1> DEFINE s == Append(events, e)
<1>5. /\ s \in Seq(EventRecord) /\ Len(s) = Len(events) + 1 /\ s[Len(s)] = e
      /\ \A k \in 1..Len(events) : s[k] = events[k]
  BY <1>1, <1>2
<1>6. /\ Len(heard') = Len(heard) + 1 /\ heard'[Len(heard')] = h
      /\ \A k \in 1..Len(heard) : heard'[k] = heard[k]
  BY <1>1, <1>4
<1>7. /\ events' \in Seq(EventRecord)
      /\ Len(events') = IF Len(s) < MAX_EVENTS THEN Len(s) ELSE MAX_EVENTS
      /\ \A k \in 1..Len(events') : events'[k] = s[Len(s) - Len(events') + k]
  <2> HIDE DEF s
  <2>1. events' = LastOf(s, MAX_EVENTS)
    BY <1>4 DEF s
  <2> QED
    <3>1. events' \in Seq(EventRecord) /\ IsEnd(events', s, MAX_EVENTS)
      BY <1>1, <1>5, <2>1, LastOfIsEnd
    <3> QED
      BY <3>1 DEF IsEnd
<1> HIDE DEF s
<1>8. Len(events) = IF Len(heard) < MAX_EVENTS THEN Len(heard) ELSE MAX_EVENTS
  BY <1>1 DEF StreamFollows
<1>9. /\ Len(heard) \in Nat /\ Len(events) \in Nat /\ Len(events') \in Nat
       /\ Len(events) <= Len(heard)
  <2>1. Len(heard) \in Nat /\ Len(events) \in Nat
    BY <1>1
  <2>2. Len(events') \in Nat
    BY <1>7
  <2> QED
    BY <1>1, <1>8, <2>1, <2>2
<1>10. Len(events') = IF Len(heard') < MAX_EVENTS THEN Len(heard') ELSE MAX_EVENTS
  BY <1>1, <1>5, <1>6, <1>7, <1>8
<1>11. ASSUME NEW k \in 1..Len(events')
       PROVE  /\ events'[k].type = heard'[Len(heard') - Len(events') + k].type
              /\ events'[k].nodeId = heard'[Len(heard') - Len(events') + k].from
              /\ events'[k].ts = heard'[Len(heard') - Len(events') + k].at
  <2>1. CASE k = Len(events')
    <3>1. Len(s) - Len(events') + k = Len(s) /\ Len(heard') - Len(events') + k = Len(heard')
      BY <1>6, <1>9, <2>1
    <3>2. events'[k] = e /\ heard'[Len(heard') - Len(events') + k] = h
      BY <1>5, <1>6, <1>7, <3>1
    <3> QED
      BY <1>3, <3>2
  <2>2. CASE k # Len(events')
    <3> DEFINE m == Len(s) - Len(events') + k
    <3>1. m \in 1..Len(events) /\ Len(heard') - Len(events') + k = Len(heard) - Len(events) + m
      <4>1. Len(s) = Len(events) + 1 /\ Len(heard') = Len(heard) + 1
        BY <1>5, <1>6
      <4>2. Len(events') <= Len(events) + 1
        BY <1>1, <1>7, <1>9, <4>1
      <4>3. k \in Nat /\ 1 <= k /\ k < Len(events')
        BY <1>9, <2>2
      <4> QED
        BY <1>9, <4>1, <4>2, <4>3
    <3>2. Len(heard) - Len(events) + m \in 1..Len(heard)
      BY <1>9, <3>1
    <3>3. events'[k] = events[m]
      BY <1>5, <1>7, <3>1
    <3>4. heard'[Len(heard') - Len(events') + k] = heard[Len(heard) - Len(events) + m]
      BY <1>6, <3>1, <3>2
    <3>5. /\ events[m].type = heard[Len(heard) - Len(events) + m].type
          /\ events[m].nodeId = heard[Len(heard) - Len(events) + m].from
          /\ events[m].ts = heard[Len(heard) - Len(events) + m].at
      BY <1>1, <3>1 DEF StreamFollows
    <3> QED
      BY <3>3, <3>4, <3>5
  <2> QED
    BY <2>1, <2>2
<1>12. Len(events') <= MAX_EVENTS
  BY <1>1, <1>6, <1>10
<1> QED
  BY <1>7, <1>10, <1>11, <1>12 DEF StreamFollows

\* A heartbeat is its node's last one, and no other node's.
LEMMA RegistryKeeps ==
    ASSUME FedInv, NEW type \in MessageType, NEW data \in Body, NEW from \in Id \cup {"unknown"},
           type = "heartbeat" => Heartbeat(data), type # "heartbeat" => nodes' = nodes,
           data.nodeId \in {Missing, from},
           heard' = Append(heard, [type |-> type, from |-> from, named |-> data.nodeId, at |-> now])
    PROVE  /\ nodes' \in [Id -> Time \cup {Never}] /\ NamedIsFrom'
           /\ heard' \in Seq(HeardRecord)
           /\ \A n \in Id : SeenLast(n)'
<1> DEFINE h == [type |-> type, from |-> from, named |-> data.nodeId, at |-> now]
<1>1. /\ heard \in Seq(HeardRecord) /\ now \in Time /\ nodes \in [Id -> Time \cup {Never}]
      /\ NamedIsFrom /\ data.nodeId \in Name /\ Missing \notin Id /\ now # Never
  <2>1. /\ heard \in Seq(HeardRecord) /\ now \in Time /\ nodes \in [Id -> Time \cup {Never}]
        /\ NamedIsFrom
    BY DEF FedInv, FedTypeOK, HeardRecord
  <2>2. data.nodeId \in Name /\ Missing \notin Id
    BY NamesNotEmpty DEF Body
  <2>3. now # Never
    BY <2>1, TimeNotNever
  <2> QED
    BY <2>1, <2>2, <2>3
<1>2. PICK L \in Nat : Len(heard) = L
  BY <1>1
<1>3. /\ h \in HeardRecord /\ h.type = type /\ h.named = data.nodeId /\ h.at = now
      /\ h.from = from
  BY <1>1 DEF HeardRecord
<1>4. heard' = Append(heard, h)
  OBVIOUS
<1> HIDE DEF h
<1>5. /\ heard' \in Seq(HeardRecord) /\ Len(heard') = L + 1 /\ heard'[L + 1] = h
      /\ \A k \in 1..L : heard'[k] = heard[k]
  BY <1>1, <1>3, <1>4, <1>2
<1>6. NamedIsFrom'
  BY <1>1, <1>3, <1>5, <1>2 DEF NamedIsFrom
<1>7. /\ nodes' \in [Id -> Time \cup {Never}]
      /\ \A n \in Id : nodes'[n] = IF type = "heartbeat" /\ data.nodeId = n THEN now ELSE nodes[n]
  BY <1>1 DEF Heartbeat, Name
<1>8. ASSUME NEW n \in Id PROVE SeenLast(n)'
  <2>1. SeenLast(n)
    BY DEF FedInv
  <2>2. /\ HeartbeatOf(L + 1, n)' <=> type = "heartbeat" /\ data.nodeId = n
        /\ \A k \in 1..L : HeartbeatOf(k, n)' <=> HeartbeatOf(k, n)
    BY <1>3, <1>5 DEF HeartbeatOf
  <2>3. CASE type = "heartbeat" /\ data.nodeId = n
    <3>1. nodes'[n] = now /\ nodes'[n] = heard'[L + 1].at /\ nodes'[n] # Never
      BY <1>1, <1>3, <1>5, <1>7, <2>3
    <3>2. LastHeartbeat(L + 1, n)'
      BY <1>1, <1>5, <2>2, <2>3 DEF LastHeartbeat
    <3>3. L + 1 \in 1..Len(heard')
      BY <1>1, <1>5
    <3> QED
      BY <3>1, <3>2, <3>3 DEF SeenLast
  <2>4. CASE ~(type = "heartbeat" /\ data.nodeId = n)
    <3>1. nodes'[n] = nodes[n] /\ 1..Len(heard') = 1..L \cup {L + 1}
      BY <1>1, <1>5, <1>7, <2>4
    <3>2. CASE nodes[n] = Never
      <4>1. \A k \in 1..Len(heard') : ~HeartbeatOf(k, n)'
        BY <1>2, <2>1, <2>2, <2>4, <3>1, <3>2 DEF SeenLast
      <4> QED
        BY <3>1, <3>2, <4>1 DEF SeenLast
    <3>3. CASE nodes[n] # Never
      <4>1. PICK k \in 1..L : LastHeartbeat(k, n) /\ nodes[n] = heard[k].at
        BY <1>2, <2>1, <3>3 DEF SeenLast
      <4>2. k \in 1..Len(heard') /\ nodes'[n] = heard'[k].at /\ HeartbeatOf(k, n)'
        BY <1>5, <2>2, <3>1, <4>1 DEF LastHeartbeat
      <4>3. ASSUME NEW j \in k + 1..Len(heard') PROVE ~HeartbeatOf(j, n)'
        <5>1. j = L + 1 \/ (j \in 1..L /\ j \in k + 1..L)
          BY <1>1, <1>5, <4>1
        <5> QED
          BY <1>2, <2>2, <2>4, <4>1, <5>1 DEF LastHeartbeat
      <4>4. LastHeartbeat(k, n)'
        BY <4>2, <4>3 DEF LastHeartbeat
      <4> QED
        BY <3>1, <3>3, <4>2, <4>4 DEF SeenLast
    <3> QED
      BY <3>2, <3>3
  <2> QED
    BY <2>3, <2>4
<1> QED
  BY <1>5, <1>6, <1>7, <1>8

\* What the other stores get is of their type.
LEMMA StoresTyped ==
    ASSUME FedTypeOK, NEW data \in Body
    PROVE  /\ EnqueueCommand(data) => commands' \in Seq([target : Name, channel : Route, ts : Time])
           /\ RegisterSubscription(data) =>
                 subscriptions' \in Seq([id : Name, channel : Channel \cup {Missing}])
           /\ DeclareIntent(data) =>
                 intents' \in Seq([target : Id \cup {"undefined"},
                                   channel : Channel \cup {"undefined"}, ts : Time])
<1>1. data.subject \in Name /\ data.channel \in Channel \cup {Missing} /\ now \in Time
  BY DEF Body, FedTypeOK
<1>2. ASSUME EnqueueCommand(data)
      PROVE  commands' \in Seq([target : Name, channel : Route, ts : Time])
  <2>1. [target |-> data.subject, channel |-> Or(data.channel, "node"), ts |-> now]
           \in [target : Name, channel : Route, ts : Time]
    BY <1>1 DEF Or, Route
  <2> QED
    BY <1>2, <2>1 DEF EnqueueCommand, FedTypeOK
<1>3. ASSUME RegisterSubscription(data)
      PROVE  subscriptions' \in Seq([id : Name, channel : Channel \cup {Missing}])
  BY <1>1, <1>3 DEF RegisterSubscription, FedTypeOK
<1>4. ASSUME DeclareIntent(data)
      PROVE  intents' \in Seq([target : Id \cup {"undefined"},
                               channel : Channel \cup {"undefined"}, ts : Time])
  <2>1. [target |-> Or(data.subject, "undefined"), channel |-> Or(data.channel, "undefined"), ts |-> now]
           \in [target : Id \cup {"undefined"}, channel : Channel \cup {"undefined"}, ts : Time]
    BY <1>1 DEF Or, Name
  <2> QED
    BY <1>4, <2>1 DEF DeclareIntent, FedTypeOK
<1> QED
  BY <1>2, <1>3, <1>4

\* FedTypeOK is the type of every store and of what was heard.
LEMMA BusKeeps ==
    ASSUME FedInv, NEW type \in MessageType, NEW data \in Body, NEW token \in Name,
           Bus(type, data, token)
    PROVE  FedInv'
<1> DEFINE from == Or(Or(data.nodeId, token), "unknown")
<1>1. /\ from \in Id \cup {"unknown"} /\ data.nodeId \in {Missing, from}
      /\ FedTypeOK
  BY NamesNotEmpty DEF Or, Name, Body, FedInv
<1>2. /\ RecordEvent(type, data, from)
      /\ type = "heartbeat" => Heartbeat(data)
      /\ type # "heartbeat" => nodes' = nodes
      /\ IF type = "command" THEN EnqueueCommand(data) ELSE UNCHANGED commands
      /\ IF type = "subscribe" THEN RegisterSubscription(data) ELSE UNCHANGED subscriptions
      /\ IF type = "intent" THEN DeclareIntent(data) ELSE UNCHANGED intents
      /\ heard' = Append(heard, [type |-> type, from |-> from, named |-> data.nodeId, at |-> now])
      /\ UNCHANGED <<now, actionLog>>
  <2> HIDE DEF from
  <2>1. RouteMessage(type, data, from)
    BY DEF Bus, from
  <2>2. /\ heard' = Append(heard, [type |-> type, from |-> from, named |-> data.nodeId, at |-> now])
        /\ UNCHANGED <<now, actionLog>>
    BY DEF Bus, from
  <2> QED
    BY <2>1, <2>2 DEF RouteMessage
<1> HIDE DEF from
<1>3. events' \in Seq(EventRecord) /\ Len(events') <= MAX_EVENTS /\ StreamFollows'
  BY <1>1, <1>2, RecordKeeps
<1>4. /\ nodes' \in [Id -> Time \cup {Never}] /\ NamedIsFrom'
      /\ heard' \in Seq(HeardRecord)
      /\ \A n \in Id : SeenLast(n)'
  BY <1>1, <1>2, RegistryKeeps
<1>5. /\ commands' \in Seq([target : Name, channel : Route, ts : Time])
      /\ subscriptions' \in Seq([id : Name, channel : Channel \cup {Missing}])
      /\ intents' \in Seq([target : Id \cup {"undefined"},
                            channel : Channel \cup {"undefined"}, ts : Time])
  BY <1>1, <1>2, StoresTyped DEF FedTypeOK
<1>6. FedTypeOK'
  BY <1>1, <1>2, <1>3, <1>4, <1>5 DEF FedTypeOK, EventRecord, HeardRecord
<1> QED
  BY <1>3, <1>4, <1>6 DEF FedInv

\* Steps that leave the registry, the stream and what was heard alone.
LEMMA StoryStays ==
    ASSUME FedInv, UNCHANGED <<events, nodes, heard>>, FedTypeOK'
    PROVE  FedInv'
<1>1. StreamFollows' /\ NamedIsFrom'
  BY DEF FedInv, StreamFollows, NamedIsFrom
<1>2. ASSUME NEW n \in Id PROVE SeenLast(n)'
  BY DEF FedInv, SeenLast, LastHeartbeat, HeartbeatOf
<1> QED
  BY <1>1, <1>2 DEF FedInv

\* Nothing has been heard: at the start, and after every restart.
Emptied ==
    /\ now \in Time
    /\ events = <<>> /\ nodes = [n \in Id |-> Never]
    /\ commands = <<>> /\ subscriptions = <<>> /\ intents = <<>>
    /\ actionLog = <<>> /\ heard = <<>>

LEMMA EmptiedIsFine == Emptied => FedInv
<1> SUFFICES ASSUME Emptied PROVE FedInv
  OBVIOUS
<1>1. FedTypeOK
  BY ArcFederationAssumption DEF FedTypeOK, Emptied
<1>2. StreamFollows /\ NamedIsFrom
  BY Bounds DEF StreamFollows, NamedIsFrom, Emptied
<1>3. \A n \in Id : SeenLast(n)
  BY DEF SeenLast, Emptied
<1> QED
  BY <1>1, <1>2, <1>3 DEF FedInv

LEMMA LastOfTyped ==
    ASSUME NEW S, NEW s \in Seq(S), NEW n \in Nat \ {0}
    PROVE  LastOf(s, n) \in Seq(S) /\ Len(LastOf(s, n)) <= n
BY LastOfIsEnd DEF IsEnd

LEMMA FedNextKeeps == FedInv /\ FedNext => FedInv'
<1> SUFFICES ASSUME FedInv, FedNext PROVE FedInv'
  OBVIOUS
<1>1. ASSUME NEW type \in {"heartbeat", "telemetry", "event"}, NEW node \in Name, NEW token \in Name,
             Bus(type, [NoBody EXCEPT !.nodeId = node], token)
      PROVE  FedInv'
  <2>1. [NoBody EXCEPT !.nodeId = node] \in Body /\ type \in MessageType
    BY DEF NoBody, Body, Name, MessageType
  <2> QED
    BY <1>1, <2>1, BusKeeps
<1>2. ASSUME NEW type \in {"command", "subscribe", "intent"}, NEW subject \in Name,
             NEW channel \in Channel \cup {Missing},
             Bus(type, [NoBody EXCEPT !.subject = subject, !.channel = channel], Missing)
      PROVE  FedInv'
  <2>1. /\ [NoBody EXCEPT !.subject = subject, !.channel = channel] \in Body
        /\ type \in MessageType /\ Missing \in Name
    BY DEF NoBody, Body, Name, MessageType
  <2> QED
    BY <1>2, <2>1, BusKeeps
<1>3. ASSUME NEW type \in {"DEPLOY", "REBOOT"}, NEW target \in Name, RecordAction(type, target, Missing)
      PROVE  FedInv'
  <2>1. /\ [type |-> type, target |-> target, channel |-> Missing]
              \in [type : ActionType, target : Name, channel : Channel \cup {Missing}]
        /\ MAX_LOG_SIZE \in Nat \ {0}
        /\ actionLog \in Seq([type : ActionType, target : Name, channel : Channel \cup {Missing}])
    BY <1>3, ArcFederationAssumption DEF RecordAction, FedInv, FedTypeOK
  <2>2. /\ Append(actionLog, [type |-> type, target |-> target, channel |-> Missing])
               \in Seq([type : ActionType, target : Name, channel : Channel \cup {Missing}])
        /\ actionLog' = LastOf(Append(actionLog, [type |-> type, target |-> target, channel |-> Missing]),
                               MAX_LOG_SIZE)
        /\ UNCHANGED <<now, events, nodes, commands, subscriptions, intents, heard>>
    BY <1>3, <2>1 DEF RecordAction
  <2>3. /\ actionLog' \in Seq([type : ActionType, target : Name, channel : Channel \cup {Missing}])
        /\ Len(actionLog') <= MAX_LOG_SIZE
    BY <2>1, <2>2, LastOfTyped
  <2>4. FedTypeOK'
    BY <2>2, <2>3 DEF FedInv, FedTypeOK
  <2> QED
    BY <2>2, <2>4, StoryStays
<1>4. ASSUME FedTick PROVE FedInv'
  <2>1. FedTypeOK'
    BY <1>4, Bounds DEF FedTick, fedVars, FedInv, FedTypeOK, Time
  <2> QED
    BY <1>4, <2>1, StoryStays DEF FedTick, fedVars
<1> QED
  BY <1>1, <1>2, <1>3, <1>4 DEF FedNext

\* Where an element of a sequence of H elements is in the end of it that has E elements.
LEMMA PlaceInEnd ==
    ASSUME NEW H \in Nat, NEW E \in Nat, NEW M \in Nat, NEW k \in 1..H,
           E = IF H < M THEN H ELSE M, H - k < M
    PROVE  k - (H - E) \in 1..E /\ H - E + (k - (H - E)) = k
<1>1. CASE H < M
  BY <1>1
<1>2. CASE ~(H < M)
  BY <1>2
<1> QED
  BY <1>1, <1>2

LEMMA FedInvStory == FedInv => RegistryMatchesStream
<1> SUFFICES ASSUME FedInv, NEW n \in Id
             PROVE  LET Last == {k \in 1..Len(heard) : LastHeartbeat(k, n)}
                    IN  /\ nodes[n] = Never <=> Last = {}
                        /\ \A k \in Last :
                              /\ nodes[n] = heard[k].at
                              /\ Len(heard) - k < MAX_EVENTS =>
                                    \E e \in Elements(events) :
                                        e.type = "heartbeat" /\ e.nodeId = n /\ e.ts = nodes[n]
  BY DEF RegistryMatchesStream, LastHeartbeat, HeartbeatOf
<1> DEFINE Last == {k \in 1..Len(heard) : LastHeartbeat(k, n)}
<1>1. /\ SeenLast(n) /\ StreamFollows /\ NamedIsFrom /\ n # Missing /\ MAX_EVENTS \in Nat
      /\ Len(heard) \in Nat /\ Len(events) \in Nat
  <2>1. SeenLast(n) /\ StreamFollows /\ NamedIsFrom /\ n # Missing /\ MAX_EVENTS \in Nat
    BY NamesNotEmpty, Bounds DEF FedInv
  <2>2. Len(heard) \in Nat /\ Len(events) \in Nat
    BY DEF FedInv, FedTypeOK
  <2> QED
    BY <2>1, <2>2
<1>2. nodes[n] = Never <=> Last = {}
  BY <1>1 DEF SeenLast, LastHeartbeat
<1>3. ASSUME NEW k \in Last PROVE nodes[n] = heard[k].at
  <2>1. LastHeartbeat(k, n) /\ k \in 1..Len(heard)
    OBVIOUS
  <2>2. nodes[n] # Never
    BY <1>2
  <2>3. PICK j \in 1..Len(heard) : LastHeartbeat(j, n) /\ nodes[n] = heard[j].at
    BY <1>1, <2>2 DEF SeenLast
  <2>4. ~(j < k) /\ ~(k < j)
    BY <1>1, <2>1, <2>3 DEF LastHeartbeat
  <2> QED
    BY <1>1, <2>1, <2>3, <2>4
<1>4. ASSUME NEW k \in Last, Len(heard) - k < MAX_EVENTS
      PROVE  \E e \in Elements(events) :
                 e.type = "heartbeat" /\ e.nodeId = n /\ e.ts = nodes[n]
  <2> DEFINE p == k - (Len(heard) - Len(events))
  <2>1. k \in 1..Len(heard) /\ heard[k].type = "heartbeat" /\ heard[k].named = n
    BY DEF LastHeartbeat, HeartbeatOf
  <2>2. Len(events) = IF Len(heard) < MAX_EVENTS THEN Len(heard) ELSE MAX_EVENTS
    BY <1>1 DEF StreamFollows
  <2>3. p \in 1..Len(events) /\ Len(heard) - Len(events) + p = k
    BY <1>1, <1>4, <2>1, <2>2, PlaceInEnd
  <2>4. heard[k].from = n
    BY <1>1, <2>1 DEF NamedIsFrom
  <2>5. /\ events[p].type = heard[k].type /\ events[p].nodeId = heard[k].from
        /\ events[p].ts = heard[k].at
    BY <1>1, <2>3 DEF StreamFollows
  <2> QED
    BY <1>3, <2>1, <2>3, <2>4, <2>5 DEF Elements
<1> QED
  BY <1>2, <1>3, <1>4

-----------------------------------------------------------------------------
(* The four loops over subscriptions and intents agree *)

LEMMA IndicesCounted ==
    ASSUME NEW n \in Nat, NEW S \in SUBSET (1..n)
    PROVE  /\ Cardinality(S) = 0 <=> S = {}
           /\ S # {} => Cardinality(S) > 0
<1>1. IsFiniteSet(1..n)
  <2>1. 1 \in Int /\ n \in Int
    OBVIOUS
  <2> QED
    BY <2>1, FS_Interval
<1>2. IsFiniteSet(S)
  BY <1>1, FS_Subset
<1>3. Cardinality(S) \in Nat
  BY <1>2, FS_CardinalityType
<1>4. Cardinality(S) = 0 <=> S = {}
  BY <1>2, FS_EmptySet
<1>5. ASSUME S # {} PROVE Cardinality(S) > 0
  <2>1. PICK c \in Nat : c = Cardinality(S)
    BY <1>3
  <2>2. c # 0
    BY <1>4, <1>5, <2>1
  <2>3. c > 0
    BY <2>2
  <2> QED
    BY <2>1, <2>3
<1> QED
  BY <1>4, <1>5

\* A set of numbers that is not empty has a least one.
LEMMA LeastOfNumbers ==
    ASSUME NEW S \in SUBSET Nat, S # {}
    PROVE  \E k \in S : \A j \in S : k <= j
<1>1. PICK k \in S : \A j \in S : <<j, k>> \notin OpToRel(<, Nat)
  BY NatLessThanWellFounded, WFMin
<1>2. ASSUME NEW j \in S PROVE k <= j
  <2>1. j \in Nat /\ k \in Nat /\ ~(j < k)
    BY <1>1 DEF OpToRel
  <2> QED
    BY <2>1
<1> QED
  BY <1>2

\* The subscription an intent is held against is one to its channel.
LEMMA FirstIsOfChannel ==
    ASSUME FedTypeOK, NEW i
    PROVE  LET found == {k \in 1..Len(subscriptions) : subscriptions[k].channel = i.channel}
           IN  /\ FirstSubscription(i) = <<>> <=> found = {}
               /\ found # {} => \E k \in found : FirstSubscription(i) = <<subscriptions[k]>>
<1> DEFINE found == {k \in 1..Len(subscriptions) : subscriptions[k].channel = i.channel}
<1>1. CASE found = {}
  BY <1>1 DEF FirstSubscription
<1>2. CASE found # {}
  <2> DEFINE first == CHOOSE k \in found : \A j \in found : k <= j
  <2>1. found \in SUBSET Nat
    BY DEF FedTypeOK
  <2>2. \E k \in found : \A j \in found : k <= j
    BY <1>2, <2>1, LeastOfNumbers
  <2>3. first \in found
    BY <2>2
  <2>4. FirstSubscription(i) = <<subscriptions[first]>>
    BY <1>2 DEF FirstSubscription
  <2> HIDE DEF first
  <2>5. PICK k \in found : FirstSubscription(i) = <<subscriptions[k]>>
    BY <2>3, <2>4
  <2>6. FirstSubscription(i) # <<>>
    BY <2>5
  <2> QED
    BY <1>2, <2>5, <2>6
<1> QED
  BY <1>1, <1>2

LEMMA ListedTyped ==
    ASSUME FedTypeOK
    PROVE  ListIntents \in Seq([target : Id \cup {"undefined"},
                               channel : Channel \cup {"undefined"}, ts : Time])
BY ArcFederationAssumption, LastOfTyped DEF ListIntents, FedTypeOK

LEMMA ElementTyped == ASSUME NEW S, NEW s \in Seq(S), NEW k \in 1..Len(s) PROVE s[k] \in S
OBVIOUS

LEMMA TypedReportsAgree == FedTypeOK => ReportsAgree
<1> SUFFICES ASSUME FedTypeOK, NEW i \in Elements(ListIntents),
                    i.target # "undefined", i.channel # "undefined"
             PROVE  LET flagged == [type |-> "intent-without-subscription",
                                    target |-> i.target, channel |-> i.channel] \in DeriveReasons
                        absent == [type |-> "missing-node",
                                   target |-> i.target, channel |-> i.channel] \in DeriveReasons
                        preview == PreviewAction(i.target, i.channel)
                        status == DetectDivergence(i)
                    IN  /\ status = "missing" <=> preview.matchingSubscriptions = 0
                        /\ status = "missing" => flagged
                        /\ status = "aligned" => ~flagged
                        /\ preview.matchingIntents > 0
                        /\ preview.targets = IF absent THEN {} ELSE {i.target}
                        /\ absent <=> i.target \in Blank
  BY DEF ReportsAgree
<1> DEFINE found == {k \in 1..Len(subscriptions) : subscriptions[k].channel = i.channel}
           alike == {k \in 1..Len(ListIntents) :
                        ListIntents[k].target = i.target /\ ListIntents[k].channel = i.channel}
           flagged == [type |-> "intent-without-subscription",
                       target |-> i.target, channel |-> i.channel] \in DeriveReasons
           absent == [type |-> "missing-node",
                      target |-> i.target, channel |-> i.channel] \in DeriveReasons
           preview == PreviewAction(i.target, i.channel)
           unheld == \A k \in found : subscriptions[k].id # i.target
<1>1. /\ i.target \in Id /\ i.channel \in Channel
      /\ i.target # Missing /\ i.channel # Missing
      /\ Len(subscriptions) \in Nat /\ Len(ListIntents) \in Nat
      /\ DOMAIN subscriptions = 1..Len(subscriptions) /\ DOMAIN ListIntents = 1..Len(ListIntents)
  <2>1. i.target \in Id /\ i.channel \in Channel
    <3>1. PICK k \in 1..Len(ListIntents) : i = ListIntents[k]
      BY DEF Elements
    <3>2. ListIntents \in Seq([target : Id \cup {"undefined"},
                              channel : Channel \cup {"undefined"}, ts : Time])
      BY ListedTyped
    <3>3. ListIntents[k] \in [target : Id \cup {"undefined"},
                             channel : Channel \cup {"undefined"}, ts : Time]
      BY <3>2, ElementTyped
    <3> QED
      BY <3>1, <3>3
  <2>2. /\ Len(subscriptions) \in Nat /\ Len(ListIntents) \in Nat
        /\ DOMAIN subscriptions = 1..Len(subscriptions) /\ DOMAIN ListIntents = 1..Len(ListIntents)
    BY ListedTyped DEF FedTypeOK
  <2> QED
    BY <2>1, <2>2, NamesNotEmpty
<1>2. /\ FirstSubscription(i) = <<>> <=> found = {}
      /\ found # {} => \E k \in found : FirstSubscription(i) = <<subscriptions[k]>>
  BY FirstIsOfChannel
<1>3. /\ DetectDivergence(i) = "missing" <=> found = {}
      /\ DetectDivergence(i) = "aligned" => ~unheld
  BY <1>2 DEF DetectDivergence
<1>4. flagged <=> unheld
  <2>1. flagged => unheld
    BY <1>1 DEF DeriveReasons, Elements
  <2>2. unheld => flagged
    BY <1>1 DEF DeriveReasons, Elements
  <2> QED
    BY <2>1, <2>2
<1>5. /\ preview.matchingSubscriptions = Cardinality(found)
      /\ preview.matchingIntents = Cardinality(alike)
      /\ preview.targets = {n \in FederationTopology.nodes : n = i.target}
  BY <1>1 DEF PreviewAction
<1>6. preview.matchingSubscriptions = 0 <=> found = {}
  BY <1>1, <1>5, IndicesCounted
<1>7. preview.matchingIntents > 0
  <2>1. alike # {}
    BY <1>1 DEF Elements
  <2> QED
    BY <1>1, <1>5, <2>1, IndicesCounted
<1>8. i.target \in FederationTopology.nodes <=> i.target \notin Blank
  BY <1>1 DEF FederationTopology
<1>9. absent <=> i.target \in Blank
  <2>1. absent => i.target \notin FederationTopology.nodes
    BY <1>1 DEF DeriveReasons
  <2>2. i.target \notin FederationTopology.nodes => absent
    BY <1>1 DEF DeriveReasons
  <2> QED
    BY <1>8, <2>1, <2>2
<1>10. preview.targets = IF absent THEN {} ELSE {i.target}
  BY <1>5, <1>8, <1>9
<1> QED
  BY <1>3, <1>4, <1>6, <1>7, <1>9, <1>10

-----------------------------------------------------------------------------
(* The operator slot *)

SlotOK == OpTypeOK /\ VerifiedWasCredentialed

LEMMA NoneIsNothing == None \notin Credential /\ None \notin Identity
BY ArcOperatorAssumption, Zenon

LEMMA MaxChallengeNat == MaxChallenge \in Nat
BY ArcOperatorAssumption, Zenon

LEMMA SlotInit == OpInit => SlotOK
<1> SUFFICES ASSUME OpInit PROVE SlotOK
  OBVIOUS
<1>1. currentChallenge \in [value : ChallengeNo \cup {None}, expired : BOOLEAN]
  BY DEF OpInit
<1>2. operatorSession = FALSE /\ lastChallenge \in 0..MaxChallenge
  BY MaxChallengeNat DEF OpInit
<1>3. operator = None /\ verifiedFor = None
  BY DEF OpInit
<1> QED
  BY <1>1, <1>2, <1>3, Zenon DEF SlotOK, OpTypeOK, VerifiedWasCredentialed

LEMMA ChallengeTyped ==
    ASSUME OpTypeOK
    PROVE  LookedAt \in [value : ChallengeNo \cup {None}, expired : BOOLEAN]
BY DEF OpTypeOK, LookedAt, NoChallenge

LEMMA IdentityTyped ==
    ASSUME NEW id \in OperatorId, NEW source \in {"pending", "webauthn"},
           NEW c \in Credential \cup {None}
    PROVE  [id |-> id, source |-> source, credential |-> c] \in Identity
BY DEF Identity

\* A new identity in the slot; the flag is left alone.
LEMMA RegisterKeeps ==
    ASSUME SlotOK, NEW id \in OperatorId, NEW source \in {"pending", "webauthn"},
           NEW c \in Credential \cup {None}, RegisterOperator(id, source, c),
           currentChallenge' \in {currentChallenge, LookedAt},
           UNCHANGED <<lastChallenge, operatorSession, verifiedFor>>
    PROVE  SlotOK'
<1>1. operator' \in Identity
  BY IdentityTyped DEF RegisterOperator
<1>2. OpTypeOK'
  BY <1>1, ChallengeTyped DEF SlotOK, OpTypeOK
<1>3. VerifiedWasCredentialed'
  BY <1>1, NoneIsNothing DEF SlotOK, VerifiedWasCredentialed
<1> QED
  BY <1>2, <1>3 DEF SlotOK

\* Only an operator with a credential can set the flag.
LEMMA FlagKeeps ==
    ASSUME SlotOK, NEW a \in Assertion, Verify(a)
    PROVE  SlotOK'
<1>1. /\ currentChallenge' = LookedAt /\ operator' = operator /\ lastChallenge' = lastChallenge
      /\ operatorSession' = (operatorSession \/ VerifyAssertion(a))
      /\ verifiedFor' = IF VerifyAssertion(a) THEN operator ELSE verifiedFor
  BY DEF Verify
<1>2. OpTypeOK /\ VerifiedWasCredentialed
  BY DEF SlotOK
<1>3. VerifyAssertion(a) => operator # None /\ operator.credential # None
  BY DEF VerifyAssertion
<1>4. OpTypeOK'
  <2> HIDE DEF VerifyAssertion
  <2>1. operatorSession' \in BOOLEAN
    BY <1>1 DEF OpTypeOK
  <2>2. verifiedFor' \in Identity \cup {None}
    BY <1>1, <1>2 DEF OpTypeOK
  <2> QED
    BY <1>1, <1>2, <2>1, <2>2, ChallengeTyped DEF OpTypeOK
<1>5. VerifiedWasCredentialed'
  BY <1>1, <1>2, <1>3, Zenon DEF VerifiedWasCredentialed
<1> QED
  BY <1>4, <1>5 DEF SlotOK

LEMMA OpRequestKeeps == SlotOK /\ OpRequest => SlotOK'
<1> SUFFICES ASSUME SlotOK, OpRequest PROVE SlotOK'
  OBVIOUS
<1>1. ASSUME NEW id \in OperatorId, NEW source \in {"pending", "webauthn"},
             NEW c \in Credential \cup {None}, Register(id, source, c)
      PROVE  SlotOK'
  BY <1>1, RegisterKeeps DEF Register
<1>2. ASSUME NEW id \in OperatorId, NEW c \in Credential, StoreCredential(id, c)
      PROVE  SlotOK'
  BY <1>2, RegisterKeeps DEF StoreCredential
<1>3. ASSUME GenerateChallenge PROVE SlotOK'
  <2>1. /\ lastChallenge' \in 0..MaxChallenge
        /\ currentChallenge' \in [value : ChallengeNo \cup {None}, expired : BOOLEAN]
    BY <1>3, MaxChallengeNat DEF GenerateChallenge, SlotOK, OpTypeOK, ChallengeNo
  <2> QED
    BY <1>3, <2>1 DEF GenerateChallenge, SlotOK, OpTypeOK, VerifiedWasCredentialed
<1>4. ASSUME ReadChallenge PROVE SlotOK'
  BY <1>4, ChallengeTyped DEF ReadChallenge, SlotOK, OpTypeOK, VerifiedWasCredentialed
<1>5. ASSUME NEW id \in OperatorId, StoreAssertion(id) PROVE SlotOK'
  BY <1>5, RegisterKeeps DEF StoreAssertion
<1>6. ASSUME NEW a \in Assertion, Verify(a) PROVE SlotOK'
  BY <1>6, FlagKeeps
<1> QED
  BY <1>1, <1>2, <1>3, <1>4, <1>5, <1>6 DEF OpRequest

LEMMA ExpiryKeeps == SlotOK /\ ChallengeExpires => SlotOK'
<1> SUFFICES ASSUME SlotOK, ChallengeExpires PROVE SlotOK'
  OBVIOUS
<1>1. currentChallenge' \in [value : ChallengeNo \cup {None}, expired : BOOLEAN]
  BY DEF ChallengeExpires, SlotOK, OpTypeOK
<1> QED
  BY <1>1 DEF ChallengeExpires, SlotOK, OpTypeOK, VerifiedWasCredentialed

-----------------------------------------------------------------------------
(* The bridge *)

LEMMA BridgeInitInv == BridgeInit => BridgeInv
<1> SUFFICES ASSUME BridgeInit PROVE BridgeInv
  OBVIOUS
<1>1. Emptied
  BY Bounds DEF BridgeInit, FedInit, Emptied, Time
<1>2. SlotOK /\ requests \in 0..MaxRequests
  BY SlotInit, ArcBridgeAssumption DEF BridgeInit
<1> QED
  BY <1>1, <1>2, EmptiedIsFine DEF BridgeInv, SlotOK

LEMMA BridgeStep == BridgeInv /\ [BridgeNext]_bridgeVars => BridgeInv'
<1> SUFFICES ASSUME BridgeInv, [BridgeNext]_bridgeVars PROVE BridgeInv'
  OBVIOUS
<1>1. FedInv /\ SlotOK /\ requests \in 0..MaxRequests /\ MaxRequests \in Nat /\ now \in Time
  BY ArcBridgeAssumption DEF BridgeInv, SlotOK, FedInv, FedTypeOK
<1>2. CASE Federation
  <2>1. FedInv'
    BY <1>1, <1>2, FedNextKeeps DEF Federation
  <2>2. SlotOK'
    BY <1>1, <1>2 DEF Federation, opVars, SlotOK, OpTypeOK, VerifiedWasCredentialed
  <2>3. requests' \in 0..MaxRequests
    BY <1>1, <1>2 DEF Federation, TakeRequest
  <2> QED
    BY <2>1, <2>2, <2>3 DEF BridgeInv, SlotOK
<1>3. CASE OperatorRoutes
  <2>1. FedInv'
    <3>1. UNCHANGED <<now, fedVars>>
      BY <1>3 DEF OperatorRoutes
    <3>2. FedTypeOK'
      BY <1>1, <3>1 DEF fedVars, FedInv, FedTypeOK
    <3> QED
      BY <1>1, <3>1, <3>2, StoryStays DEF fedVars
  <2>2. SlotOK'
    BY <1>1, <1>3, OpRequestKeeps DEF OperatorRoutes
  <2>3. requests' \in 0..MaxRequests
    BY <1>1, <1>3 DEF OperatorRoutes, TakeRequest
  <2> QED
    BY <2>1, <2>2, <2>3 DEF BridgeInv, SlotOK
<1>4. CASE FiveMinutes
  <2>1. UNCHANGED <<now, fedVars, requests>> /\ ChallengeExpires
    BY <1>4 DEF FiveMinutes
  <2>2. FedTypeOK'
    BY <1>1, <2>1 DEF fedVars, FedInv, FedTypeOK
  <2>3. FedInv'
    BY <1>1, <2>1, <2>2, StoryStays DEF fedVars
  <2> QED
    BY <1>1, <2>1, <2>3, ExpiryKeeps DEF BridgeInv, SlotOK
<1>5. ASSUME NEW text \in SUBSET Phrase, Act(text) PROVE BridgeInv'
  <2>1. Emptied'
    BY <1>1, <1>5 DEF Act, BridgeRestart, FedRestart, Emptied
  <2>2. FedInv'
    BY <2>1, EmptiedIsFine, PTL
  <2>3. SlotOK'
    BY <1>1, <1>5 DEF Act, BridgeRestart, OpRestart, NoChallenge, SlotOK, OpTypeOK,
                      VerifiedWasCredentialed
  <2>4. requests' \in 0..MaxRequests
    BY <1>1, <1>5 DEF Act, BridgeRestart
  <2> QED
    BY <2>2, <2>3, <2>4 DEF BridgeInv, SlotOK
<1>6. CASE UNCHANGED bridgeVars
  <2>1. UNCHANGED <<now, fedVars, opVars, requests>>
    BY <1>6 DEF bridgeVars
  <2>2. FedTypeOK'
    BY <1>1, <2>1 DEF fedVars, FedInv, FedTypeOK
  <2>3. FedInv'
    BY <1>1, <2>1, <2>2, StoryStays DEF fedVars
  <2>4. SlotOK'
    BY <1>1, <2>1 DEF opVars, SlotOK, OpTypeOK, VerifiedWasCredentialed
  <2> QED
    BY <1>1, <2>1, <2>3, <2>4 DEF BridgeInv, SlotOK
<1> QED
  BY <1>2, <1>3, <1>4, <1>5, <1>6 DEF BridgeNext

LEMMA BridgeInvAlways == BridgeSpec => []BridgeInv
<1> QED
  BY BridgeInitInv, BridgeStep, PTL DEF BridgeSpec

(***************************************************************************)
(* Type correctness of the whole process.                                  *)
(***************************************************************************)
THEOREM BridgeTypeCorrect == BridgeSpec => []BridgeTypeOK
<1>1. BridgeInv => BridgeTypeOK
  BY DEF BridgeInv, FedInv, BridgeTypeOK
<1> QED
  BY <1>1, BridgeInvAlways, PTL

(***************************************************************************)
(* A listed node was last seen at its last heartbeat, which the stream     *)
(* still shows unless later messages pushed it out, through every message  *)
(* and every restart of the bridge.                                        *)
(***************************************************************************)
THEOREM RegistryAndStreamAgree == BridgeSpec => []RegistryMatchesStream
<1>1. BridgeInv => RegistryMatchesStream
  BY FedInvStory DEF BridgeInv
<1> QED
  BY <1>1, BridgeInvAlways, PTL

(***************************************************************************)
(* The four loops over subscriptions and intents never contradict each     *)
(* other within one answer, for every content of the stores, blank names   *)
(* included.                                                               *)
(***************************************************************************)
THEOREM ReportsFitTogether == BridgeSpec => []ReportsAgree
<1>1. BridgeInv => ReportsAgree
  BY TypedReportsAgree DEF BridgeInv, FedInv
<1> QED
  BY <1>1, BridgeInvAlways, PTL

(***************************************************************************)
(* A verified session never stands next to an empty slot and goes back to  *)
(* an identity that had a credential.                                      *)
(***************************************************************************)
THEOREM VerifiedHadCredential == BridgeSpec => []VerifiedWasCredentialed
<1>1. BridgeInv => VerifiedWasCredentialed
  BY DEF BridgeInv
<1> QED
  BY <1>1, BridgeInvAlways, PTL
=============================================================================
