--------------------------- MODULE OnboardingProofs ---------------------------
(***************************************************************************)
(* Proofs about the two ends of onboarding: TabRouting, for every number   *)
(* of visits and ceremonies, and TenantOnboarding, for every number of     *)
(* companies, agents, requests and tenants (second part).                  *)
(*                                                                         *)
(* That no page behind the ceremonies is rendered for an operator without  *)
(* a key rests on what a status may say when it is applied late: a status  *)
(* that reports a key was answered by a server that had it, and the server *)
(* never loses one.                                                        *)
(***************************************************************************)
EXTENDS TabRouting, TenantOnboarding, WellFoundedInduction, TLAPS

\* The statuses that do not report a key the server lacks.
Reported == {s \in Status : s.registered => operator.registered}

\* Neither the status applied last nor any answer under way reports such a key.
StatusIsReported ==
    /\ authStatus \in Reported \cup {None}
    /\ flights \in Seq(Reported \cup {Sent})

IInv == TypeOK /\ StatusIsReported /\ BusyPageHasCeremony

-----------------------------------------------------------------------------
\* A sequence without one of its elements.
LEMMA RemoveAtType ==
    ASSUME NEW S, NEW s \in Seq(S), NEW i \in DOMAIN s
    PROVE  RemoveAt(s, i) \in Seq(S)
<1>1. i \in 1..Len(s)
  OBVIOUS
<1>2. SubSeq(s, 1, i - 1) \in Seq(S)
  BY <1>1
<1>3. SubSeq(s, i + 1, Len(s)) \in Seq(S)
  BY <1>1
<1> QED
  BY <1>2, <1>3 DEF RemoveAt

\* An element of a sequence is exchanged.
LEMMA ReplaceType ==
    ASSUME NEW S, NEW s \in Seq(S), NEW i \in DOMAIN s, NEW e \in S
    PROVE  /\ [s EXCEPT ![i] = e] \in Seq(S)
           /\ Len([s EXCEPT ![i] = e]) = Len(s)
  OBVIOUS

\* A sequence of a single element.
LEMMA SingleType ==
    ASSUME NEW S, NEW e \in S
    PROVE  <<e>> \in Seq(S)
  OBVIOUS

\* As long as the server keeps its key, what was reported remains so.
LEMMA ReportedStays ==
    ASSUME StatusIsReported, operator.registered => operator'.registered
    PROVE  /\ Reported \subseteq Reported'
           /\ authStatus \in (Reported \cup {None})'
           /\ flights \in Seq((Reported \cup {Sent})')
<1>1. Reported \subseteq Reported'
  BY DEF Reported
<1>2. Reported \cup {Sent} \subseteq (Reported \cup {Sent})'
  BY <1>1
<1>3. ASSUME NEW S, NEW T, S \subseteq T, NEW s \in Seq(S)
      PROVE  s \in Seq(T)
  BY <1>3
<1> QED
  BY <1>1, <1>2, <1>3 DEF StatusIsReported

\* Only a status with a key has the pages behind the ceremonies rendered.
LEMMA ReportedIsEnough ==
    ASSUME StatusIsReported
    PROVE  PagesBehindAuthAreOfRegistered
<1> SUFFICES ASSUME Shown \in AllowedRoute PROVE operator.registered
  BY DEF PagesBehindAuthAreOfRegistered
<1>1. authStatus # None
  BY DEF Shown, AllowedRoute
<1>2. authStatus \in Reported
  BY <1>1 DEF StatusIsReported
<1>3. authStatus.registered
  BY <1>1 DEF Shown, AllowedRoute, GetExpectedRoute, IsAuthenticated
<1> QED
  BY <1>2, <1>3 DEF Reported

CeremonyRecord == [kind : {"register", "verify"},
                   step : {"begin", "touch", "finish", "answered", "over"}]

\* A ceremony is another step along.
LEMMA StepOfRecord ==
    ASSUME NEW c \in CeremonyRecord,
           NEW s \in {"begin", "touch", "finish", "answered", "over"}
    PROVE  /\ [c EXCEPT !.step = s] \in CeremonyRecord
           /\ [c EXCEPT !.step = s].step = s
  BY DEF CeremonyRecord

-----------------------------------------------------------------------------
LEMMA InitIInv == Init => IInv
<1> SUFFICES ASSUME Init PROVE IInv
  OBVIOUS
<1>1. TypeOK
  <2>1. flights \in Seq(Status \cup {Sent})
    BY SingleType DEF Init
  <2>2. ceremony \in Seq([kind : {"register", "verify"},
                          step : {"begin", "touch", "finish", "answered", "over"}])
        /\ Len(ceremony) = 0
    BY DEF Init
  <2>3. operator \in Status
    BY DEF Init
  <2>4. mine \in 0..Len(ceremony) /\ visits \in 0..MaxVisits
    BY <2>2, BoundAssumption DEF Init
  <2>5. /\ path \in Path /\ nav \in Path \cup {None} /\ authStatus \in Status \cup {None}
        /\ trouble \subseteq {"degraded", "lost"} /\ button \in {"idle", "busy", "error"}
        /\ told \in BOOLEAN
    BY DEF Init
  <2> QED
    BY <2>1, <2>2, <2>3, <2>4, <2>5 DEF TypeOK
<1>2. StatusIsReported
  <2>1. flights \in Seq(Reported \cup {Sent})
    BY SingleType DEF Init
  <2> QED
    BY <2>1 DEF Init, StatusIsReported
<1>3. BusyPageHasCeremony
  BY DEF Init, BusyPageHasCeremony
<1> QED
  BY <1>1, <1>2, <1>3 DEF IInv

\* A page that is exchanged loses its ceremony, and one that stays keeps it.
LEMMA RemountKeeps ==
    ASSUME TypeOK, BusyPageHasCeremony, Remount, UNCHANGED ceremony
    PROVE  /\ button' \in {"idle", "busy", "error"}
           /\ mine' \in 0..Len(ceremony')
           /\ BusyPageHasCeremony'
<1>1. Len(ceremony) \in Nat
  BY DEF TypeOK
<1>2. CASE Shown' = Shown
  BY <1>1, <1>2 DEF TypeOK, BusyPageHasCeremony, Remount
<1>3. CASE Shown' # Shown
  BY <1>1, <1>3 DEF BusyPageHasCeremony, Remount
<1> QED
  BY <1>2, <1>3

LEMMA AnswerIInv ==
    ASSUME IInv, NEW i \in DOMAIN flights, Answer(i)
    PROVE  IInv'
<1> USE DEF IInv
<1>1. UNCHANGED <<operator, path, nav, authStatus, button, mine, ceremony, told, visits>>
  BY DEF Answer
<1>2. flights' \in Seq(Reported \cup {Sent})
  <2>1. flights \in Seq(Reported \cup {Sent})
    BY DEF StatusIsReported
  <2>2. Unregistered \in Reported
    BY DEF Unregistered, Reported, Status
  <2>3. Answerable \subseteq Reported
    BY DEF Answerable, Reported
  <2>4. CASE \E s \in Answerable : flights' = [flights EXCEPT ![i] = s]
    BY <2>1, <2>3, <2>4, ReplaceType
  <2>5. CASE flights' = [flights EXCEPT ![i] = Unregistered]
    BY <2>1, <2>2, <2>5, ReplaceType
  <2>6. CASE flights' = RemoveAt(flights, i)
    BY <2>1, <2>6, RemoveAtType
  <2> QED
    BY <2>4, <2>5, <2>6 DEF Answer
<1>3. Reported' = Reported
  BY <1>1 DEF Reported
<1>4. StatusIsReported'
  BY <1>1, <1>2, <1>3 DEF StatusIsReported
<1>5. trouble' \subseteq {"degraded", "lost"}
  BY DEF Answer, TypeOK
<1>6. flights' \in Seq(Status \cup {Sent})
  <2>1. Reported \cup {Sent} \subseteq Status \cup {Sent}
    BY DEF Reported
  <2> QED
    BY <1>2, <2>1
<1>7. TypeOK'
  BY <1>1, <1>5, <1>6 DEF TypeOK
<1>8. BusyPageHasCeremony'
  BY <1>1 DEF BusyPageHasCeremony
<1> QED
  BY <1>4, <1>7, <1>8

LEMMA ApplyAnswerIInv ==
    ASSUME IInv, NEW i \in DOMAIN flights, ApplyAnswer(i)
    PROVE  IInv'
<1> USE DEF IInv
<1>1. UNCHANGED <<operator, path, trouble, ceremony, told, visits>> /\ Remount
  BY DEF ApplyAnswer
<1>2. flights[i] \in Reported
  BY DEF ApplyAnswer, StatusIsReported
<1>3. Reported' = Reported
  BY <1>1 DEF Reported
<1>4. flights' \in Seq(Reported \cup {Sent})
  BY RemoveAtType DEF ApplyAnswer, StatusIsReported
<1>5. StatusIsReported'
  BY <1>2, <1>3, <1>4 DEF StatusIsReported, ApplyAnswer
<1>6. nav' \in Path \cup {None}
  <2>1. Destination(flights[i]) \in Path
    BY DEF Destination, GetExpectedRoute, Path, AllowedRoute
  <2> QED
    BY <2>1 DEF ApplyAnswer, TypeOK
<1>7. authStatus' \in Status \cup {None} /\ flights' \in Seq(Status \cup {Sent})
  <2>1. flights' \in Seq(Status \cup {Sent})
    BY RemoveAtType DEF ApplyAnswer, TypeOK
  <2> QED
    BY <1>2, <2>1 DEF ApplyAnswer, Reported
<1>8. BusyPageHasCeremony' /\ mine' \in 0..Len(ceremony') /\ button' \in {"idle", "busy", "error"}
  BY <1>1, RemountKeeps
<1>9. TypeOK'
  BY <1>1, <1>6, <1>7, <1>8 DEF TypeOK
<1> QED
  BY <1>5, <1>8, <1>9

LEMMA NavigateIInv ==
    ASSUME IInv, Navigate
    PROVE  IInv'
<1> USE DEF IInv
<1>1. UNCHANGED <<operator, authStatus, ceremony, told, visits>> /\ Remount
  BY DEF Navigate
<1>2. flights' \in {flights, <<Sent>>}
  BY DEF Navigate
<1>3. Reported' = Reported
  BY <1>1 DEF Reported
<1>4. StatusIsReported'
  <2>1. <<Sent>> \in Seq(Reported \cup {Sent})
    BY SingleType
  <2> QED
    BY <1>1, <1>2, <1>3, <2>1 DEF StatusIsReported
<1>5. path' \in Path /\ nav' \in Path \cup {None} /\ trouble' \subseteq {"degraded", "lost"}
  BY DEF Navigate, TypeOK
<1>6. flights' \in Seq(Status \cup {Sent})
  <2>1. <<Sent>> \in Seq(Status \cup {Sent})
    BY SingleType
  <2> QED
    BY <1>2, <2>1 DEF TypeOK
<1>7. BusyPageHasCeremony' /\ mine' \in 0..Len(ceremony') /\ button' \in {"idle", "busy", "error"}
  BY <1>1, RemountKeeps
<1>8. TypeOK'
  BY <1>1, <1>5, <1>6, <1>7 DEF TypeOK
<1> QED
  BY <1>4, <1>7, <1>8

LEMMA VisitIInv ==
    ASSUME IInv, NEW p \in Path, Visit(p)
    PROVE  IInv'
<1> USE DEF IInv
<1>1. UNCHANGED <<operator, path, authStatus, flights, trouble, button, mine, ceremony, told>>
  BY DEF Visit
<1>2. StatusIsReported' /\ BusyPageHasCeremony'
  BY <1>1 DEF StatusIsReported, Reported, BusyPageHasCeremony
<1>3. nav' \in Path /\ visits' \in 0..MaxVisits
  BY BoundAssumption DEF Visit, TypeOK
<1>4. TypeOK'
  BY <1>1, <1>3 DEF TypeOK
<1> QED
  BY <1>2, <1>4

LEMMA LoadIInv ==
    ASSUME IInv, NEW p \in Path, Load(p)
    PROVE  IInv'
<1> USE DEF IInv
<1>1. UNCHANGED <<operator, told>>
  BY DEF Load
<1>2. StatusIsReported' /\ BusyPageHasCeremony'
  <2>1. flights' \in Seq((Reported \cup {Sent})')
    BY SingleType DEF Load
  <2> QED
    BY <2>1 DEF Load, StatusIsReported, BusyPageHasCeremony
<1>3. ceremony' \in Seq(CeremonyRecord)
  <2>1. ceremony \in Seq(CeremonyRecord)
    BY DEF TypeOK, CeremonyRecord
  <2>2. \A i \in DOMAIN ceremony : [ceremony[i] EXCEPT !.step = "over"] \in CeremonyRecord
    <3> SUFFICES ASSUME NEW i \in DOMAIN ceremony
                 PROVE  [ceremony[i] EXCEPT !.step = "over"] \in CeremonyRecord
      OBVIOUS
    <3>1. ceremony[i] \in CeremonyRecord
      BY <2>1
    <3> QED
      BY <3>1, StepOfRecord
  <2>3. DOMAIN ceremony = 1..Len(ceremony) /\ Len(ceremony) \in Nat
    BY <2>1
  <2>4. ceremony' = [i \in 1..Len(ceremony) |-> [ceremony[i] EXCEPT !.step = "over"]]
    BY <2>3 DEF Load
  <2>5. ceremony' \in [1..Len(ceremony) -> CeremonyRecord]
    BY <2>2, <2>3, <2>4
  <2> QED
    BY <2>3, <2>5
<1>4. visits' \in 0..MaxVisits
  BY BoundAssumption DEF Load, TypeOK
<1>5. mine' \in 0..Len(ceremony')
  BY <1>3 DEF Load
<1>6. flights' \in Seq(Status \cup {Sent})
  BY SingleType DEF Load
<1>7. TypeOK'
  BY <1>1, <1>3, <1>4, <1>5, <1>6 DEF Load, TypeOK, CeremonyRecord
<1> QED
  BY <1>2, <1>7

-----------------------------------------------------------------------------
(* Ceremonies. *)

LEMMA PressIInv ==
    ASSUME IInv, NEW kind \in DOMAIN CeremonyPage, Press(kind)
    PROVE  IInv'
<1> USE DEF IInv
<1>1. UNCHANGED <<operator, path, nav, authStatus, flights, trouble, told, visits>>
  BY DEF Press
<1>2. [kind |-> kind, step |-> "begin"] \in CeremonyRecord
  BY DEF CeremonyPage, CeremonyRecord
<1>3. /\ ceremony' \in Seq(CeremonyRecord)
      /\ Len(ceremony') = Len(ceremony) + 1
      /\ ceremony'[Len(ceremony')] = [kind |-> kind, step |-> "begin"]
  BY <1>2 DEF Press, TypeOK, CeremonyRecord
<1>4. mine' \in 0..Len(ceremony') /\ mine' # 0
  BY <1>3 DEF Press, TypeOK
<1>5. BusyPageHasCeremony'
  BY <1>3, <1>4 DEF Press, BusyPageHasCeremony
<1>6. StatusIsReported'
  BY <1>1 DEF StatusIsReported, Reported
<1>7. TypeOK'
  BY <1>1, <1>3, <1>4 DEF Press, TypeOK, CeremonyRecord
<1> QED
  BY <1>5, <1>6, <1>7

\* A ceremony goes on or ends: of the others nothing changes.
LEMMA StepType ==
    ASSUME TypeOK, NEW i \in DOMAIN ceremony,
           NEW s \in {"begin", "touch", "finish", "answered", "over"},
           ceremony' = [ceremony EXCEPT ![i].step = s]
    PROVE  /\ ceremony' \in Seq(CeremonyRecord)
           /\ Len(ceremony') = Len(ceremony)
           /\ ceremony'[i].step = s
           /\ \A j \in DOMAIN ceremony : j # i => ceremony'[j] = ceremony[j]
<1>1. ceremony \in Seq(CeremonyRecord)
  BY DEF TypeOK, CeremonyRecord
<1>2. /\ [ceremony[i] EXCEPT !.step = s] \in CeremonyRecord
      /\ [ceremony[i] EXCEPT !.step = s].step = s
  <2>1. ceremony[i] \in CeremonyRecord
    BY <1>1
  <2> QED
    BY <2>1, StepOfRecord
<1>3. ceremony' = [ceremony EXCEPT ![i] = [ceremony[i] EXCEPT !.step = s]]
  OBVIOUS
<1>4. ceremony' \in Seq(CeremonyRecord) /\ Len(ceremony') = Len(ceremony)
  BY <1>1, <1>2, <1>3, ReplaceType
<1>5. ceremony'[i] = [ceremony[i] EXCEPT !.step = s]
  BY <1>1, <1>3
<1>6. ceremony'[i].step = s
  BY <1>2, <1>5
<1> QED
  BY <1>1, <1>3, <1>4, <1>6

LEMMA ProceedIInv ==
    ASSUME IInv, NEW i \in DOMAIN ceremony, Proceed(i)
    PROVE  IInv'
<1> USE DEF IInv
<1>1. UNCHANGED <<path, nav, authStatus, flights, trouble, button, mine, told, visits>>
  BY DEF Proceed
<1>2. PICK s \in {"touch", "finish", "answered"} : ceremony' = [ceremony EXCEPT ![i].step = s]
  <2>1. NextPhase[ceremony[i].step] \in {"touch", "finish", "answered"}
    BY DEF Proceed, NextPhase
  <2>2. ceremony' = [ceremony EXCEPT ![i].step = NextPhase[ceremony[i].step]]
    BY DEF Proceed
  <2> QED
    BY <2>1, <2>2
<1>3. /\ ceremony' \in Seq(CeremonyRecord)
      /\ Len(ceremony') = Len(ceremony)
      /\ ceremony'[i].step # "over"
      /\ \A j \in DOMAIN ceremony : j # i => ceremony'[j] = ceremony[j]
  BY <1>2, StepType
<1>4. BusyPageHasCeremony'
  BY <1>1, <1>3 DEF BusyPageHasCeremony, TypeOK
<1>5. operator' \in Status /\ (operator.registered => operator'.registered)
  <2>1. operator.registered \in BOOLEAN /\ operator.authenticated \in BOOLEAN
    BY DEF TypeOK, Status
  <2>2. operator' = [registered    |-> operator.registered \/ StoresKey(ceremony[i]),
                     authenticated |-> operator.authenticated \/ ceremony[i].step = "begin"]
    BY DEF Proceed
  <2>3. (operator.registered \/ StoresKey(ceremony[i])) \in BOOLEAN
        /\ (operator.authenticated \/ ceremony[i].step = "begin") \in BOOLEAN
    BY <2>1
  <2> QED
    BY <2>2, <2>3 DEF Status
<1>6. StatusIsReported'
  <2>1. /\ authStatus \in (Reported \cup {None})'
        /\ flights \in Seq((Reported \cup {Sent})')
    BY <1>5, ReportedStays
  <2> QED
    BY <1>1, <2>1 DEF StatusIsReported
<1>7. TypeOK'
  BY <1>1, <1>3, <1>5 DEF TypeOK, CeremonyRecord
<1> QED
  BY <1>4, <1>6, <1>7

\* What the end of a ceremony does to the page that waits for it.
LEMMA OverKeeps ==
    ASSUME IInv, NEW i \in DOMAIN ceremony,
           NEW idle \in {"idle", "error"},
           ceremony' = [ceremony EXCEPT ![i].step = "over"],
           button' = IF mine = i THEN idle ELSE button,
           UNCHANGED <<operator, path, nav, authStatus, trouble, mine, visits>>,
           flights' \in {flights, Append(flights, Sent)},
           told' \in BOOLEAN
    PROVE  IInv'
<1> USE DEF IInv
<1>1. /\ ceremony' \in Seq(CeremonyRecord)
      /\ Len(ceremony') = Len(ceremony)
      /\ \A j \in DOMAIN ceremony : j # i => ceremony'[j] = ceremony[j]
  BY StepType
<1>2. BusyPageHasCeremony'
  BY <1>1 DEF BusyPageHasCeremony, TypeOK
<1>3. Reported' = Reported
  BY DEF Reported
<1>4. flights' \in Seq(Reported \cup {Sent})
  BY DEF StatusIsReported
<1>5. StatusIsReported'
  BY <1>3, <1>4 DEF StatusIsReported
<1>6. flights' \in Seq(Status \cup {Sent})
  <2>1. flights \in Seq(Status \cup {Sent})
    BY DEF TypeOK
  <2> QED
    BY <2>1
<1>7. button' \in {"idle", "busy", "error"}
  BY DEF TypeOK
<1>8. TypeOK'
  BY <1>1, <1>6, <1>7 DEF TypeOK, CeremonyRecord
<1> QED
  BY <1>2, <1>5, <1>8

-----------------------------------------------------------------------------
LEMMA NextIInv == IInv /\ [Next]_vars => IInv'
<1> SUFFICES ASSUME IInv, [Next]_vars PROVE IInv'
  OBVIOUS
<1>1. ASSUME NEW i \in DOMAIN flights, Answer(i) PROVE IInv'
  BY <1>1, AnswerIInv
<1>2. ASSUME NEW i \in DOMAIN flights, ApplyAnswer(i) PROVE IInv'
  BY <1>2, ApplyAnswerIInv
<1>3. ASSUME Navigate PROVE IInv'
  BY <1>3, NavigateIInv
<1>4. ASSUME NEW i \in DOMAIN ceremony, Proceed(i) PROVE IInv'
  BY <1>4, ProceedIInv
<1>5. ASSUME NEW i \in DOMAIN ceremony, Succeed(i) PROVE IInv'
  <2>1. told' \in BOOLEAN
    BY <1>5 DEF Succeed, IInv, TypeOK
  <2>2. /\ ceremony' = [ceremony EXCEPT ![i].step = "over"]
        /\ button' = IF mine = i THEN "idle" ELSE button
        /\ UNCHANGED <<operator, path, nav, authStatus, trouble, mine, visits>>
        /\ flights' \in {flights, Append(flights, Sent)}
    BY <1>5 DEF Succeed
  <2> QED
    BY <2>1, <2>2, OverKeeps
<1>6. ASSUME NEW i \in DOMAIN ceremony, Fail(i) PROVE IInv'
  <2>1. told' \in BOOLEAN
    BY <1>6 DEF Fail, IInv, TypeOK
  <2>2. /\ ceremony' = [ceremony EXCEPT ![i].step = "over"]
        /\ button' = IF mine = i THEN "error" ELSE button
        /\ UNCHANGED <<operator, path, nav, authStatus, trouble, mine, visits>>
        /\ flights' \in {flights, Append(flights, Sent)}
    BY <1>6 DEF Fail
  <2> QED
    BY <2>1, <2>2, OverKeeps
<1>7. ASSUME NEW kind \in DOMAIN CeremonyPage, Press(kind) PROVE IInv'
  BY <1>7, PressIInv
<1>8. ASSUME NEW p \in Path, Visit(p) PROVE IInv'
  BY <1>8, VisitIInv
<1>9. ASSUME NEW p \in Path, Load(p) PROVE IInv'
  BY <1>9, LoadIInv
<1>10. CASE UNCHANGED vars
  BY <1>10 DEF vars, IInv, TypeOK, StatusIsReported, Reported, BusyPageHasCeremony
<1> QED
  BY <1>1, <1>2, <1>3, <1>4, <1>5, <1>6, <1>7, <1>8, <1>9, <1>10 DEF Next, Tab, Ceremony

LEMMA Invariance == Spec => []IInv
<1> QED
  BY InitIInv, NextIInv, PTL DEF Spec

-----------------------------------------------------------------------------
\* The tab and the operator's record stay well formed, for every bound.
THEOREM TypeCorrect == Spec => []TypeOK
<1>1. IInv => TypeOK
  BY DEF IInv
<1> QED
  BY <1>1, Invariance, PTL

\* However late a status is applied, and in whichever order, the pages behind the
\* ceremonies are rendered only for an operator that the server has a key of.
THEOREM OnlyTheRegistered == Spec => []PagesBehindAuthAreOfRegistered
<1>1. IInv => PagesBehindAuthAreOfRegistered
  BY ReportedIsEnough DEF IInv
<1> QED
  BY <1>1, Invariance, PTL

\* The spinner of a ceremony's page always belongs to a ceremony that is going on.
THEOREM BusyForAReason == Spec => []BusyPageHasCeremony
<1>1. IInv => BusyPageHasCeremony
  BY DEF IInv
<1> QED
  BY <1>1, Invariance, PTL

-----------------------------------------------------------------------------
(***************************************************************************)
(* TenantOnboarding.  A tenant's identifier is new when its row is inserted*)
(* and nothing was kept under it before (Untouched); rows never leave and  *)
(* never change their company; and the e-mail a request is looked up by is *)
(* that of the row's own company, so whatever a request has settled on     *)
(* (OwnTenant) stays a tenant of the company it named.                     *)
(***************************************************************************)
Untouched ==
    \A t \in Id : t > lastId => links[t] = {} /\ created[t] = Nobody /\ t \notin audited

OwnEmail == \A t \in Known : tenants[t].email \in {tenants[t].company, Nobody}

OwnTenant(r) ==
    /\ stage[r] = "found" => target[r] \in Known
    /\ stage[r] \in {"resolved", "found"} /\ body[r] # Nobody =>
          target[r] \in Known /\ tenants[target[r]].company = body[r].company

IssuedKnown == \A k \in issued : k.tenant \in Known

TenantInv ==
    /\ TenantTypeOK
    /\ Untouched
    /\ OwnEmail
    /\ CreatedIsWhole
    /\ \A r \in Request : OwnTenant(r)
    /\ IssuedKnown
    /\ KitForOwnCompany

\* Rows stay and keep their company.
RowsStay ==
    /\ Known \subseteq Known'
    /\ \A t \in Known : tenants'[t].company = tenants[t].company

\* Latest picks a member of any set of identifiers that is not empty.
LEMMA LatestIsMember ==
    ASSUME NEW T \in SUBSET Id, T # {}
    PROVE  Latest(T) \in T
<1> DEFINE D == {MaxTenants - t : t \in T}
<1>1. D \subseteq Nat /\ D # {}
  BY ConstantsAssumption DEF Id
<1>2. PICK d \in D : \A e \in D : <<e, d>> \notin OpToRel(<, Nat)
  BY <1>1, NatLessThanWellFounded, WFMin
<1>3. PICK t \in T : d = MaxTenants - t
  OBVIOUS
<1>4. ASSUME NEW u \in T PROVE u <= t
  <2>1. MaxTenants - u \in D /\ MaxTenants - u \in Nat /\ d \in Nat
    BY <1>1
  <2>2. ~(MaxTenants - u < d)
    BY <1>2, <2>1 DEF OpToRel
  <2> QED
    BY <1>3, <2>2, ConstantsAssumption DEF Id
<1>5. \E x \in T : \A u \in T : u <= x
  BY <1>4
<1> QED
  BY <1>5 DEF Latest

LEMMA TenantInitInv == TenantInit => TenantInv
BY ConstantsAssumption DEF TenantInit, TenantInv, TenantTypeOK, Untouched, OwnEmail,
   CreatedIsWhole, OwnTenant, IssuedKnown, KitForOwnCompany, Known, Id, Stage

\* What an INSERT leaves: the new row under a new identifier, and the rest as it was.
Inserted(b, agents) ==
    /\ lastId' = lastId + 1 /\ lastId' \in Id /\ lastId' \in 0..MaxTenants
    /\ lastId' \notin Known /\ Known' = Known \cup {lastId'}
    /\ Known' \subseteq 1..lastId'
    /\ tenants'[lastId'] =
          [company |-> b.company, agents |-> b.agents, email |-> Nobody]
    /\ \A t \in Known : tenants'[t] = tenants[t]
    /\ \A t \in Known' : tenants'[t] \in Row
    /\ links' \in [Id -> SUBSET Agent] /\ links'[lastId'] = agents
    /\ \A t \in Id \ {lastId'} : links'[t] = links[t]
    /\ RowsStay /\ OwnEmail'

\* An INSERT does that: one new identifier, nothing else changes.
LEMMA InsertStep ==
    ASSUME TenantInv, NEW b \in Body, NEW agents \in SUBSET Agent, Insert(b, agents)
    PROVE  Inserted(b, agents)
<1>1. /\ lastId \in 0..MaxTenants /\ Known \subseteq 1..lastId
      /\ links \in [Id -> SUBSET Agent] /\ \A t \in Known : tenants[t] \in Row
      /\ OwnEmail
  BY DEF TenantInv, TenantTypeOK
<1>2. lastId < MaxTenants /\ lastId' = lastId + 1
  BY DEF Insert
<1>3. /\ lastId' \in Id /\ lastId' \in 0..MaxTenants /\ lastId' \notin Known
      /\ 1..lastId \subseteq 1..lastId' /\ lastId' \in 1..lastId'
  BY <1>1, <1>2, ConstantsAssumption DEF Id
<1>4. /\ Known' = Known \cup {lastId'}
      /\ tenants'[lastId'] =
            [company |-> b.company, agents |-> b.agents, email |-> Nobody]
      /\ \A t \in Known : tenants'[t] = tenants[t]
  BY <1>3 DEF Insert, Known
<1>5. /\ links' \in [Id -> SUBSET Agent] /\ links'[lastId'] = agents
      /\ \A t \in Id \ {lastId'} : links'[t] = links[t]
  BY <1>1, <1>3 DEF Insert
<1>6. [company |-> b.company, agents |-> b.agents, email |-> Nobody] \in Row
  BY DEF Body, Row
<1>7. \A t \in Known' : tenants'[t] \in Row
  BY <1>1, <1>4, <1>6
<1>8. RowsStay
  BY <1>4 DEF RowsStay
<1>9. OwnEmail'
  BY <1>1, <1>4 DEF OwnEmail
<1> QED
  BY <1>1, <1>2, <1>3, <1>4, <1>5, <1>7, <1>8, <1>9 DEF Inserted

\* The tables change and the requests and kits do not: they keep what they had.
LEMMA OthersKept ==
    ASSUME TenantInv, RowsStay, UNCHANGED issued,
           NEW r \in Request, UNCHANGED <<stage[r], body[r], target[r]>>
    PROVE  OwnTenant(r)' /\ IssuedKnown' /\ KitForOwnCompany'
<1>1. OwnTenant(r) /\ IssuedKnown /\ KitForOwnCompany
  BY DEF TenantInv
<1> QED
  BY <1>1 DEF OwnTenant, IssuedKnown, KitForOwnCompany, RowsStay

LEMMA KitsKept ==
    ASSUME TenantInv, RowsStay, UNCHANGED issued
    PROVE  IssuedKnown' /\ KitForOwnCompany'
<1>1. IssuedKnown /\ KitForOwnCompany
  BY DEF TenantInv
<1> QED
  BY <1>1 DEF IssuedKnown, KitForOwnCompany, RowsStay

LEMMA CreateKeeps ==
    ASSUME TenantInv, NEW b \in Body, CreateTenant(b) \/ CreateTenantFails(b)
    PROVE  TenantInv'
<1>1. TenantTypeOK /\ Untouched /\ CreatedIsWhole
  BY DEF TenantInv
<1>2. CASE CreateTenantFails(b)
  BY <1>2 DEF CreateTenantFails, tables, inflight, TenantInv, TenantTypeOK, Untouched,
              OwnEmail, CreatedIsWhole, OwnTenant, IssuedKnown, KitForOwnCompany, Known
<1>3. CASE CreateTenant(b)
  <2>1. b.agents \in SUBSET Agent /\ b # Nobody
    BY ConstantsAssumption DEF Body
  <2>2. /\ Insert(b, b.agents)
        /\ audited' \in {audited, audited \cup {lastId'}}
        /\ created' = [created EXCEPT ![lastId'] = b]
        /\ UNCHANGED <<stage, body, target, refused, issued>>
    BY <1>3 DEF CreateTenant, Audit, inflight
  <2>3. /\ lastId' = lastId + 1 /\ lastId' \in Id /\ lastId' \in 0..MaxTenants
        /\ lastId' \notin Known /\ Known' = Known \cup {lastId'}
        /\ Known' \subseteq 1..lastId'
        /\ tenants'[lastId'].company = b.company
        /\ \A t \in Known : tenants'[t] = tenants[t]
        /\ \A t \in Known' : tenants'[t] \in Row
        /\ links' \in [Id -> SUBSET Agent] /\ links'[lastId'] = b.agents
        /\ \A t \in Id \ {lastId'} : links'[t] = links[t]
        /\ RowsStay /\ OwnEmail'
    <3>1. Inserted(b, b.agents)
      BY <2>1, <2>2, InsertStep
    <3> QED
      BY <3>1 DEF Inserted
  <2>4. /\ created' \in [Id -> Body \cup {Nobody}] /\ created'[lastId'] = b
        /\ \A t \in Id \ {lastId'} : created'[t] = created[t]
        /\ audited' \subseteq Id
    BY <1>1, <2>2, <2>3 DEF TenantTypeOK
  <2>5. TenantTypeOK'
    BY <1>1, <2>2, <2>3, <2>4 DEF TenantTypeOK
  <2>6. Untouched'
    <3>1. \A t \in Id : t > lastId' => t > lastId /\ t # lastId'
      BY <1>1, <2>3 DEF TenantTypeOK, Id
    <3> QED
      BY <1>1, <2>2, <2>3, <2>4, <3>1 DEF Untouched
  <2>7. CreatedIsWhole'
    <3>1. Known \subseteq Id
      BY <1>1, ConstantsAssumption DEF TenantTypeOK, Id
    <3>2. ASSUME NEW t \in Id, created'[t] # Nobody
          PROVE  /\ t \in Known' /\ tenants'[t].company = created'[t].company
                 /\ links'[t] = created'[t].agents
      <4>1. CASE t = lastId'
        BY <2>3, <2>4, <4>1
      <4>2. CASE t # lastId'
        BY <1>1, <2>3, <2>4, <3>2, <4>2 DEF CreatedIsWhole
      <4> QED
        BY <4>1, <4>2
    <3>3. ASSUME NEW t \in Known', created'[t] = Nobody
          PROVE  links'[t] = {} /\ t \notin audited'
      <4>1. t # lastId' /\ t \in Known
        BY <2>1, <2>3, <2>4, <3>3
      <4> QED
        BY <1>1, <2>2, <2>3, <2>4, <3>1, <3>3, <4>1 DEF CreatedIsWhole
    <3> QED
      BY <3>2, <3>3 DEF CreatedIsWhole
  <2>8. \A r \in Request : OwnTenant(r)'
    BY <2>2, <2>3, OthersKept
  <2>9. IssuedKnown' /\ KitForOwnCompany'
    BY <2>2, <2>3, KitsKept
  <2> QED
    BY <2>3, <2>5, <2>6, <2>7, <2>8, <2>9 DEF TenantInv
<1> QED
  BY <1>2, <1>3

\* A request that settles on a tenant, or that is forgotten, leaves the tables alone.
LEMMA RequestStep ==
    ASSUME TenantInv, NEW r \in Request, NEW st \in Stage, NEW b \in Body \cup {Nobody},
           NEW t \in Id \cup {NoId},
           stage' = [stage EXCEPT ![r] = st], body' = [body EXCEPT ![r] = b],
           target' = [target EXCEPT ![r] = t],
           UNCHANGED <<lastId, tenants, links, audited, created, refused>>,
           issued' \subseteq Issued, IssuedKnown', KitForOwnCompany',
           st = "unknown" => b # Nobody,
           st \in {"resolved", "found"} => t # NoId,
           st = "found" => t \in Known,
           st \in {"resolved", "found"} /\ b # Nobody =>
               t \in Known /\ tenants[t].company = b.company
    PROVE  TenantInv'
<1>1. TenantTypeOK /\ Untouched /\ OwnEmail /\ CreatedIsWhole
  BY DEF TenantInv
<1>2. /\ stage' \in [Request -> Stage] /\ body' \in [Request -> Body \cup {Nobody}]
      /\ target' \in [Request -> Id \cup {NoId}]
      /\ stage'[r] = st /\ body'[r] = b /\ target'[r] = t
      /\ \A q \in Request \ {r} :
            stage'[q] = stage[q] /\ body'[q] = body[q] /\ target'[q] = target[q]
      /\ Known' = Known
  BY <1>1 DEF TenantTypeOK, Known
<1>3. TenantTypeOK'
  BY <1>1, <1>2 DEF TenantTypeOK
<1>4. Untouched' /\ OwnEmail' /\ CreatedIsWhole'
  BY <1>1, <1>2 DEF Untouched, OwnEmail, CreatedIsWhole
<1>5. ASSUME NEW q \in Request PROVE OwnTenant(q)'
  <2>1. OwnTenant(q)
    BY DEF TenantInv
  <2> QED
    BY <1>2, <2>1 DEF OwnTenant
<1> QED
  BY <1>3, <1>4, <1>5 DEF TenantInv

LEMMA SettleKeeps ==
    ASSUME TenantInv, NEW r \in Request,
           \/ \E t \in Id : KitForNamed(r, t)
           \/ \E b \in Body : KitForCompany(r, b)
           \/ KitForLatest(r)
    PROVE  TenantInv'
<1>1. /\ TenantTypeOK /\ OwnEmail /\ issued \subseteq Issued
      /\ IssuedKnown /\ KitForOwnCompany
  BY DEF TenantInv, TenantTypeOK
<1>2. Known \subseteq Id
  BY <1>1, ConstantsAssumption DEF TenantTypeOK, Id
<1>3. PICK b \in Body \cup {Nobody}, t \in Id \cup {NoId} :
        /\ Settle(r, b, t)
        /\ b = Nobody => t # NoId
        /\ b # Nobody /\ t # NoId => t \in Known /\ tenants[t].company = b.company
  <2>1. CASE \E t \in Id : KitForNamed(r, t)
    BY <2>1, ConstantsAssumption DEF KitForNamed
  <2>2. CASE \E b \in Body : KitForCompany(r, b)
    <3>1. PICK b \in Body : Settle(r, b, Latest(WithEmail(b.company)))
      BY <2>2 DEF KitForCompany
    <3> DEFINE t == Latest(WithEmail(b.company))
    <3>2. CASE WithEmail(b.company) = {}
      <4>1. t = NoId
        BY <3>2 DEF Latest
      <4> QED
        BY <3>1, <4>1, ConstantsAssumption
    <3>3. CASE WithEmail(b.company) # {}
      <4>1. t \in WithEmail(b.company)
        BY <1>2, <3>3, LatestIsMember DEF WithEmail
      <4>2. t \in Known /\ tenants[t].company = b.company
        BY <1>1, <4>1, ConstantsAssumption DEF WithEmail, OwnEmail, Body
      <4> QED
        BY <1>2, <3>1, <4>2, ConstantsAssumption
    <3> QED
      BY <3>2, <3>3
  <2>3. CASE KitForLatest(r)
    <3>1. Latest(Known) \in Known
      BY <1>2, <2>3, LatestIsMember DEF KitForLatest
    <3> QED
      BY <1>2, <2>3, <3>1, ConstantsAssumption DEF KitForLatest
  <2> QED
    BY <2>1, <2>2, <2>3
<1>4. IssuedKnown' /\ KitForOwnCompany' /\ issued' \subseteq Issued
  BY <1>1, <1>3 DEF Settle, tables, IssuedKnown, KitForOwnCompany, Known
<1> DEFINE st == IF t = NoId THEN "unknown" ELSE "resolved"
<1>5. /\ stage' = [stage EXCEPT ![r] = st] /\ body' = [body EXCEPT ![r] = b]
      /\ target' = [target EXCEPT ![r] = t]
      /\ UNCHANGED <<lastId, tenants, links, audited, created, refused>>
  BY <1>3 DEF Settle, tables
<1>6. /\ st \in Stage /\ st # "found"
      /\ st = "unknown" <=> t = NoId
  BY DEF Stage
<1> HIDE DEF st
<1> QED
  BY <1>3, <1>4, <1>5, <1>6, RequestStep

LEMMA KitCreatesKeeps ==
    ASSUME TenantInv, NEW r \in Request, KitCreatesTenant(r)
    PROVE  TenantInv'
<1> DEFINE b == body[r]
<1>1. TenantTypeOK /\ Untouched /\ CreatedIsWhole
  BY DEF TenantInv
<1>2. b \in Body
  BY <1>1 DEF TenantTypeOK, KitCreatesTenant
<1>3. Insert(b, {}) /\ UNCHANGED <<audited, body, created, refused, issued>>
  BY DEF KitCreatesTenant
<1>4. /\ lastId' = lastId + 1 /\ lastId' \in Id /\ lastId' \in 0..MaxTenants
      /\ lastId' \notin Known /\ Known' = Known \cup {lastId'}
      /\ Known' \subseteq 1..lastId'
      /\ tenants'[lastId'].company = b.company
      /\ \A t \in Known : tenants'[t] = tenants[t]
      /\ \A t \in Known' : tenants'[t] \in Row
      /\ links' \in [Id -> SUBSET Agent] /\ links'[lastId'] = {}
      /\ \A t \in Id \ {lastId'} : links'[t] = links[t]
      /\ RowsStay /\ OwnEmail'
  <2>1. Inserted(b, {})
    BY <1>2, <1>3, InsertStep
  <2> QED
    BY <2>1 DEF Inserted
<1>5. /\ stage' \in [Request -> Stage] /\ stage'[r] = "resolved"
      /\ target' \in [Request -> Id \cup {NoId}] /\ target'[r] = lastId'
      /\ \A q \in Request \ {r} : stage'[q] = stage[q] /\ target'[q] = target[q]
  BY <1>1, <1>4 DEF KitCreatesTenant, TenantTypeOK, Stage
<1>6. TenantTypeOK'
  BY <1>1, <1>3, <1>4, <1>5, ConstantsAssumption DEF TenantTypeOK
<1>7. \A t \in Id : t > lastId' => t > lastId /\ t # lastId'
  BY <1>1, <1>4 DEF TenantTypeOK, Id
<1>8. Untouched'
  BY <1>1, <1>3, <1>4, <1>7 DEF Untouched
<1>9. created[lastId'] = Nobody /\ lastId' \notin audited
  BY <1>1, <1>4 DEF Untouched, TenantTypeOK
<1>10. CreatedIsWhole'
  <2>1. Known \subseteq Id
    BY <1>1, ConstantsAssumption DEF TenantTypeOK, Id
  <2>2. ASSUME NEW t \in Id, created[t] # Nobody
        PROVE  /\ t \in Known' /\ tenants'[t].company = created[t].company
               /\ links'[t] = created[t].agents
    BY <1>1, <1>4, <1>9, <2>2 DEF CreatedIsWhole
  <2>3. ASSUME NEW t \in Known', created[t] = Nobody
        PROVE  links'[t] = {} /\ t \notin audited
    BY <1>1, <1>4, <1>9, <2>1, <2>3 DEF CreatedIsWhole
  <2> QED
    BY <1>3, <2>2, <2>3 DEF CreatedIsWhole
<1>11. ASSUME NEW q \in Request PROVE OwnTenant(q)'
  <2>1. CASE q = r
    BY <1>3, <1>4, <1>5, <2>1 DEF OwnTenant
  <2>2. CASE q # r
    BY <1>3, <1>4, <1>5, <2>2, OthersKept
  <2> QED
    BY <2>1, <2>2
<1>12. IssuedKnown' /\ KitForOwnCompany'
  BY <1>3, <1>4, KitsKept
<1> QED
  BY <1>4, <1>6, <1>8, <1>10, <1>11, <1>12 DEF TenantInv

\* The row is fetched, or it is not and the request fails; or its kit is generated.
LEMMA FetchKeeps ==
    ASSUME TenantInv, NEW r \in Request, FetchTenant(r) \/ FetchFails(r) \/ GenerateKit(r)
    PROVE  TenantInv'
<1>1. TenantTypeOK /\ IssuedKnown /\ KitForOwnCompany /\ OwnTenant(r)
  BY DEF TenantInv
<1>2. /\ body[r] \in Body \cup {Nobody} /\ target[r] \in Id \cup {NoId}
      /\ stage[r] \in {"resolved", "found"} => target[r] # NoId
      /\ Known \subseteq Id /\ \A t \in Known : tenants[t] \in Row
      /\ links \in [Id -> SUBSET Agent] /\ issued \subseteq Issued
  BY <1>1, ConstantsAssumption DEF TenantTypeOK, Id
<1>3. CASE FetchTenant(r)
  <2>1. /\ stage' = [stage EXCEPT ![r] = "found"]
        /\ body' = [body EXCEPT ![r] = body[r]]
        /\ target' = [target EXCEPT ![r] = target[r]]
        /\ UNCHANGED <<lastId, tenants, links, audited, created, refused, issued>>
    BY <1>1, <1>3 DEF FetchTenant, tables, TenantTypeOK
  <2>2. /\ stage[r] = "resolved" /\ target[r] \in Known
        /\ body[r] # Nobody => tenants[target[r]].company = body[r].company
    BY <1>1, <1>3 DEF FetchTenant, Readable, OwnTenant
  <2>3. IssuedKnown' /\ KitForOwnCompany'
    BY <1>1, <2>1 DEF IssuedKnown, KitForOwnCompany, Known
  <2> QED
    BY <1>2, <2>1, <2>2, <2>3, RequestStep DEF Stage
<1>4. CASE FetchFails(r)
  <2>1. /\ stage' = [stage EXCEPT ![r] = "idle"]
        /\ body' = [body EXCEPT ![r] = Nobody] /\ target' = [target EXCEPT ![r] = NoId]
        /\ UNCHANGED <<lastId, tenants, links, audited, created, refused, issued>>
    BY <1>4 DEF FetchFails, Forget, tables
  <2>2. IssuedKnown' /\ KitForOwnCompany'
    BY <1>1, <2>1 DEF IssuedKnown, KitForOwnCompany, Known
  <2> QED
    BY <1>2, <2>1, <2>2, RequestStep DEF Stage
<1>5. CASE GenerateKit(r)
  <2> DEFINE t == target[r]
             agents == IF links[t] = {} THEN tenants[t].agents ELSE links[t]
             k == [agents |-> agents, tenant |-> t, company |-> Asker(r)]
  <2>1. /\ stage' = [stage EXCEPT ![r] = "idle"]
        /\ body' = [body EXCEPT ![r] = Nobody] /\ target' = [target EXCEPT ![r] = NoId]
        /\ UNCHANGED <<lastId, tenants, links, audited, created, refused>>
        /\ issued' = issued \cup {k}
    BY <1>5 DEF GenerateKit, Forget, tables
  <2>2. /\ t \in Known /\ t \in Id
        /\ body[r] # Nobody => tenants[t].company = body[r].company
    BY <1>1, <1>2, <1>5 DEF GenerateKit, OwnTenant
  <2>3. /\ Asker(r) \in Company \cup {Nobody}
        /\ Asker(r) # Nobody => tenants[t].company = Asker(r)
    BY <1>2, <2>2 DEF Asker, Body
  <2>4. agents \in SUBSET Agent
    BY <1>2, <2>2 DEF Row
  <2>5. k \in Issued
    BY <2>2, <2>3, <2>4 DEF Issued
  <2>6. k.tenant = t /\ k.company = Asker(r)
    OBVIOUS
  <2> HIDE DEF k, t
  <2>7. issued' \subseteq Issued
    BY <1>2, <2>1, <2>5
  <2>8. IssuedKnown' /\ KitForOwnCompany'
    BY <1>1, <2>1, <2>2, <2>3, <2>6 DEF IssuedKnown, KitForOwnCompany, Known
  <2> QED
    BY <1>2, <2>1, <2>7, <2>8, RequestStep DEF Stage
<1> QED
  BY <1>3, <1>4, <1>5

LEMMA FillEmailKeeps ==
    ASSUME TenantInv, NEW t \in Id, FillEmail(t)
    PROVE  TenantInv'
<1>1. TenantTypeOK /\ Untouched /\ OwnEmail /\ CreatedIsWhole
  BY DEF TenantInv
<1>2. /\ t \in Known /\ tenants[t] \in Row
      /\ tenants' = [tenants EXCEPT ![t].email = tenants[t].company]
      /\ UNCHANGED <<lastId, links, audited, stage, body, target, created, refused, issued>>
  BY <1>1 DEF FillEmail, TenantTypeOK, inflight
<1>3. /\ Known' = Known
      /\ tenants'[t] = [tenants[t] EXCEPT !.email = tenants[t].company]
      /\ \A u \in Known \ {t} : tenants'[u] = tenants[u]
  BY <1>2 DEF Known
<1>4. /\ tenants'[t] \in Row /\ tenants'[t].company = tenants[t].company
      /\ tenants'[t].email = tenants[t].company
  BY <1>2, <1>3 DEF Row
<1>5. RowsStay
  BY <1>3, <1>4 DEF RowsStay
<1>6. TenantTypeOK'
  BY <1>1, <1>2, <1>3, <1>4 DEF TenantTypeOK
<1>7. Untouched' /\ OwnEmail'
  BY <1>1, <1>2, <1>3, <1>4 DEF Untouched, OwnEmail
<1>8. CreatedIsWhole'
  BY <1>1, <1>2, <1>3, <1>4 DEF CreatedIsWhole
<1>9. \A r \in Request : OwnTenant(r)'
  BY <1>2, <1>5, OthersKept
<1>10. IssuedKnown' /\ KitForOwnCompany'
  BY <1>2, <1>5, KitsKept
<1> QED
  BY <1>6, <1>7, <1>8, <1>9, <1>10 DEF TenantInv

LEMMA TenantNextInv == TenantInv /\ [TenantNext]_tenantVars => TenantInv'
<1> SUFFICES ASSUME TenantInv, [TenantNext]_tenantVars PROVE TenantInv'
  OBVIOUS
<1>1. CASE \E b \in Body : CreateTenant(b) \/ CreateTenantFails(b)
  BY <1>1, CreateKeeps
<1>2. CASE \E r \in Request :
          \/ \E t \in Id : KitForNamed(r, t)
          \/ \E b \in Body : KitForCompany(r, b)
          \/ KitForLatest(r)
  BY <1>2, SettleKeeps
<1>3. CASE \E r \in Request : KitCreatesTenant(r)
  BY <1>3, KitCreatesKeeps
<1>4. CASE \E r \in Request : FetchTenant(r) \/ FetchFails(r) \/ GenerateKit(r)
  BY <1>4, FetchKeeps
<1>5. CASE \E t \in Id : FillEmail(t)
  BY <1>5, FillEmailKeeps
<1>6. CASE UNCHANGED tenantVars
  BY <1>6 DEF tenantVars, tables, inflight, TenantInv, TenantTypeOK, Untouched, OwnEmail,
              CreatedIsWhole, OwnTenant, IssuedKnown, KitForOwnCompany, Known
<1> QED
  BY <1>1, <1>2, <1>3, <1>4, <1>5, <1>6 DEF TenantNext

LEMMA TenantInductive == TenantSpec => []TenantInv
BY TenantInitInv, TenantNextInv, PTL DEF TenantSpec

\* A creation that was answered has left a row and all its links, and a failed one
\* nothing; the audit log claims no other.
THEOREM CreationIsWhole == TenantSpec => []CreatedIsWhole
<1>1. TenantInv => CreatedIsWhole
  BY DEF TenantInv
<1> QED
  BY <1>1, TenantInductive, PTL

\* However lookups, creations and filled-in e-mails interleave, a kit asked for with a
\* company's data is made for a tenant of that company.
THEOREM KitsForOwnCompany == TenantSpec => []KitForOwnCompany
<1>1. TenantInv => KitForOwnCompany
  BY DEF TenantInv
<1> QED
  BY <1>1, TenantInductive, PTL

\* The tables and the requests keep their types.
THEOREM TenantTypeCorrect == TenantSpec => []TenantTypeOK
<1>1. TenantInv => TenantTypeOK
  BY DEF TenantInv
<1> QED
  BY <1>1, TenantInductive, PTL

=============================================================================
