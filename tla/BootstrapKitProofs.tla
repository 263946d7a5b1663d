-------------------------- MODULE BootstrapKitProofs --------------------------
(***************************************************************************)
(* Proofs about BootstrapKit, for every set of kits, tenants and requests. *)
(*                                                                         *)
(* IInv says what stays true of the row a handler has read while others    *)
(* write: the table only grows (Grows), so the tenant and the expiry it    *)
(* holds are those of the table, and what it saw activated still is.       *)
(***************************************************************************)
EXTENDS BootstrapKit, TLAPS

\* A stored kit was generated.
RowsAreMade == \A k \in Kit : kits[k] # NoRow => k \in made

\* A kit between its generation and its storing is in one handler only, and in no row.
GeneratedIsUnstored ==
    \A r \in Request : stage[r] = "generated" =>
        /\ K(r) \in made
        /\ kits[K(r)] = NoRow
        /\ task[r].asked \in Tenant
        /\ \A q \in Request : stage[q] = "generated" /\ K(q) = K(r) => q = r

\* A handler past its lookup.
Past == {"looked", "activating", "valid"}

\* What it holds of the row is what the table still has, activation aside.
HeldIsCurrent ==
    \A r \in Request : stage[r] \in Past =>
        /\ kits[K(r)] # NoRow
        /\ kits[K(r)].tenant = Held(r).tenant
        /\ kits[K(r)].expires = Held(r).expires
        /\ Held(r).activated # Null => kits[K(r)].activated # Null
        /\ task[r].asked \in {NoTenant, Held(r).tenant}

\* One of the checks found kit k of the table unexpired, no later than t.
CheckedBy(checks, table, k, t) ==
    \E c \in checks : c.kit = k /\ c.at <= table[k].expires /\ c.at <= t

ActivatingIsChecked ==
    \A r \in Request : stage[r] = "activating" => CheckedBy(checked, kits, K(r), clock)

ValidIsMarked ==
    \A r \in Request : stage[r] = "valid" => kits[K(r)].activated # Null

\* Truthful, with the table and the generated kits named.
TruthIn(table, generated, e) ==
    /\ e.action \in {"VERIFY_SUCCESS", "activity verified", "activity generated"} =>
          table[e.kit] # NoRow /\ table[e.kit].tenant = e.tenant
    /\ e.action \in {"VERIFY_SUCCESS", "activity verified"} =>
          table[e.kit].activated # Null
    /\ e.action \in {"KIT_GENERATED", "KIT_DOWNLOADED"} => e.kit \in generated

AuditorsAreTruthful == \A g \in auditors : Truthful(g.entry)

IInv ==
    /\ TypeOK
    /\ RowsAreMade
    /\ GeneratedIsUnstored
    /\ HeldIsCurrent
    /\ ActivatingIsChecked
    /\ ValidIsMarked
    /\ AuditorsAreTruthful
    /\ ValidIsActivated
    /\ ActivatedWasFresh
    /\ ValidForItsTenant
    /\ AuditIsTruthful

-----------------------------------------------------------------------------
(* The table only grows *)

Grows ==
    /\ made \subseteq made'
    /\ \A k \in Kit : kits[k] # NoRow =>
          /\ kits'[k] # NoRow
          /\ kits'[k].tenant = kits[k].tenant
          /\ kits'[k].expires = kits[k].expires
          /\ kits[k].activated # Null => kits'[k].activated # Null

\* What has become true of an entry stays true.
LEMMA TruthStays ==
    ASSUME TypeOK, Grows, NEW e \in Entry, Truthful(e)
    PROVE  Truthful(e)'
BY DEF Grows, Truthful, Entry, Action

\* Every step lets the table grow.
LEMMA StepGrows == IInv /\ [Next]_vars => Grows
<1> SUFFICES ASSUME IInv, [Next]_vars PROVE Grows
  OBVIOUS
<1> USE DEF IInv
<1>1. ASSUME made \subseteq made', kits' = kits PROVE Grows
  BY <1>1 DEF Grows
<1>2. ASSUME NEW r \in Request, StoreKit(r) PROVE Grows
  <2>1. K(r) \in Kit /\ kits[K(r)] = NoRow
    BY <1>2 DEF StoreKit, K, GeneratedIsUnstored, TypeOK, Task
  <2>2. \A k \in Kit : k # K(r) => kits'[k] = kits[k]
    BY <1>2, <2>1 DEF StoreKit, TypeOK
  <2> QED
    BY <1>2, <2>1, <2>2 DEF Grows, StoreKit, Deliver
<1>3. ASSUME NEW r \in Request, stage[r] = "activating", kits' = Activated(K(r)), made' = made
      PROVE  Grows
  <2>1. K(r) \in Kit /\ kits[K(r)] \in Row /\ clock # Null
    BY <1>3, ConstantsAssumption DEF HeldIsCurrent, Past, K, TypeOK, Task
  <2>2. \A k \in Kit : kits'[k] = IF k = K(r) THEN [kits[k] EXCEPT !.activated = clock] ELSE kits[k]
    BY <1>3, <2>1 DEF Activated, TypeOK
  <2>3. [kits[K(r)] EXCEPT !.activated = clock] \in Row
    BY <2>1 DEF Row, TypeOK
  <2>4. [kits[K(r)] EXCEPT !.activated = clock].tenant = kits[K(r)].tenant
    BY <2>1 DEF Row
  <2>5. [kits[K(r)] EXCEPT !.activated = clock].expires = kits[K(r)].expires
    BY <2>1 DEF Row
  <2>6. [kits[K(r)] EXCEPT !.activated = clock].activated = clock
    BY <2>1 DEF Row
  <2> QED
    BY <1>3, <2>1, <2>2, <2>3, <2>4, <2>5, <2>6, ConstantsAssumption DEF Grows
<1>4. ASSUME NEW r \in Request, Activate(r) PROVE Grows
  BY <1>3, <1>4 DEF Activate
<1>5. ASSUME NEW r \in Request, ActivateFails(r) PROVE Grows
  BY <1>1, <1>3, <1>5 DEF ActivateFails
<1> QED
  BY <1>1, <1>2, <1>4, <1>5
     DEF Next, Handle, GenerateKit, Lookup, LookupFails, Found, StoreKitFails, Deliver,
         RefuseExpired, PassCheck, AnswerValid, Return, RecordAuditEvent, Tick, vars

-----------------------------------------------------------------------------
(* IInv is inductive: one lemma for each part that steps can disturb *)

LEMMA InitIInv == Init => IInv
BY ConstantsAssumption
   DEF Init, IInv, TypeOK, Time, Stage, RowsAreMade, GeneratedIsUnstored, HeldIsCurrent,
       Past, ActivatingIsChecked, ValidIsMarked, AuditorsAreTruthful, ValidIsActivated,
       ActivatedWasFresh, ValidForItsTenant, AuditIsTruthful

\* What a request holds, by its stage.
LEMMA TaskFacts ==
    ASSUME TypeOK, NEW r \in Request, stage[r] # "idle"
    PROVE  /\ K(r) \in Kit
           /\ task[r] \in Task
           /\ stage[r] \in Past => Held(r) \in Row /\ Held(r).tenant \in Tenant
BY DEF TypeOK, Task, Row, K, Held, Past

\* The goroutines a handler starts are well formed.
LEMMA SpawnType ==
    ASSUME TypeOK, NEW r \in Request, NEW S \in SUBSET Action,
           NEW t, S # {} => t \in Tenant, NEW k \in Kit, Spawn(r, S, t, k)
    PROVE  /\ auditors' \subseteq Auditor
           /\ \A g \in auditors' : g \in auditors \/ g.of = r
BY DEF TypeOK, Spawn, Auditor, Entry

\* The row an activation writes is a row.
LEMMA ActivatedType ==
    ASSUME TypeOK, NEW k \in Kit, kits[k] # NoRow
    PROVE  /\ Activated(k) \in [Kit -> Row \cup {NoRow}]
           /\ \A j \in Kit : j # k => Activated(k)[j] = kits[j]
           /\ Activated(k)[k] \in Row
           /\ Activated(k)[k].activated = clock
           /\ Activated(k)[k].tenant = kits[k].tenant
           /\ Activated(k)[k].expires = kits[k].expires
<1>1. kits[k] \in Row /\ clock \in Time
  BY DEF TypeOK
<1>2. [kits[k] EXCEPT !.activated = clock] \in Row
  BY <1>1 DEF Row
<1>3. /\ [kits[k] EXCEPT !.activated = clock].activated = clock
      /\ [kits[k] EXCEPT !.activated = clock].tenant = kits[k].tenant
      /\ [kits[k] EXCEPT !.activated = clock].expires = kits[k].expires
  BY <1>1 DEF Row
<1> QED
  BY <1>2, <1>3 DEF Activated, TypeOK

LEMMA TypeStep == IInv /\ [Next]_vars => TypeOK'
<1> SUFFICES ASSUME IInv, [Next]_vars PROVE TypeOK'
  OBVIOUS
<1>0. TypeOK
  BY DEF IInv
<1>1. ASSUME NEW r \in Request, NEW k \in Kit, NEW t \in Tenant, GenerateKit(r, k, t)
      PROVE  TypeOK'
  <2>1. [op |-> "kit", kit |-> k, asked |-> t, row |-> NoRow] \in Task
    BY DEF Task
  <2> QED
    BY <1>0, <1>1, <2>1, ConstantsAssumption
       DEF GenerateKit, Begin, Goto, TypeOK, Stage, history, Held, Op
<1>2. ASSUME NEW r \in Request, stage[r] = "generated", NEW S \in SUBSET Action,
             Deliver(r, S), kits' \in [Kit -> Row \cup {NoRow}]
      PROVE  TypeOK'
  <2>1. task[r] \in Task /\ task[r].asked \in Tenant /\ K(r) \in Kit
    BY <1>2, TaskFacts DEF IInv, GeneratedIsUnstored
  <2>2. {"KIT_GENERATED", "KIT_DOWNLOADED"} \cup S \in SUBSET Action
    BY DEF Action
  <2>3. /\ auditors' \subseteq Auditor
        /\ \A g \in auditors' : g \in auditors \/ g.of = r
    BY <1>0, <1>2, <2>1, <2>2, SpawnType DEF Deliver
  <2> QED
    BY <1>0, <1>2, <2>3 DEF Deliver, Goto, TypeOK, Stage, history, Held, Op
<1>3. ASSUME NEW r \in Request, StoreKit(r) PROVE TypeOK'
  <2>1. [tenant |-> task[r].asked, expires |-> clock + Lifetime, activated |-> Null] \in Row
    <3>1. task[r].asked \in Tenant
      BY <1>3 DEF StoreKit, IInv, GeneratedIsUnstored
    <3>2. clock + Lifetime \in 0..(MaxClock + Lifetime)
      BY <1>0, ConstantsAssumption DEF TypeOK, Time
    <3> QED
      BY <3>1, <3>2 DEF Row
  <2>2. kits' \in [Kit -> Row \cup {NoRow}]
    BY <1>0, <1>3, <2>1 DEF StoreKit, TypeOK
  <2> QED
    BY <1>2, <1>3, <2>2 DEF StoreKit, Action
<1>4. ASSUME NEW r \in Request, StoreKitFails(r) PROVE TypeOK'
  BY <1>0, <1>2, <1>4 DEF StoreKitFails, TypeOK
<1>5. ASSUME NEW r \in Request, NEW op \in {"verify", "scan"}, NEW k \in Kit,
             NEW t \in Tenant \cup {NoTenant}, Lookup(r, op, k, t)
      PROVE  TypeOK'
  <2>1. kits[k] # NoRow
    BY <1>5 DEF Lookup, Matches
  <2>2. [op |-> op, kit |-> k, asked |-> t, row |-> kits[k]] \in Task
    BY <1>0 DEF Task, TypeOK
  <2> QED
    BY <1>0, <1>5, <2>1, <2>2, ConstantsAssumption
       DEF Lookup, Found, Begin, Goto, TypeOK, Stage, history, Held, Op
<1>6. ASSUME NEW r \in Request, NEW op \in {"verify", "scan"}, NEW k \in Kit,
             NEW t \in Tenant \cup {NoTenant}, LookupFails(r, op, k, t)
      PROVE  TypeOK'
  <2>1. [op |-> op, kit |-> k, asked |-> t, row |-> NoRow] \in Task
    BY DEF Task
  <2> DEFINE S == IF t = NoTenant THEN {} ELSE {"VERIFY_FAILED"}
  <2>2. S \in SUBSET Action /\ (S # {} => t \in Tenant)
    BY DEF Action
  <2>3. /\ auditors' \subseteq Auditor
        /\ \A g \in auditors' : g \in auditors \/ g.of = r
    <3>1. Spawn(r, S, t, k)
      BY <1>6 DEF LookupFails
    <3> HIDE DEF S
    <3> QED
      BY <1>0, <2>2, <3>1, SpawnType
  <2> QED
    BY <1>0, <1>6, <2>1, <2>3, ConstantsAssumption
       DEF LookupFails, Begin, Goto, TypeOK, Stage, history, Held, Op
<1>7. ASSUME NEW r \in Request, stage[r] \in Past, NEW S \in SUBSET Action,
             Spawn(r, S, Held(r).tenant, K(r)), NEW s \in Past \cup {"returning"}, Goto(r, s),
             kits' \in [Kit -> Row \cup {NoRow}], checked' \subseteq [kit: Kit, at: Time],
             verdicts' \subseteq Verdict, UNCHANGED <<clock, made, audit, task>>
      PROVE  TypeOK'
  <2>1. K(r) \in Kit /\ Held(r).tenant \in Tenant
    BY <1>0, <1>7, TaskFacts DEF Past
  <2>2. /\ auditors' \subseteq Auditor
        /\ \A g \in auditors' : g \in auditors \/ g.of = r
    BY <1>0, <1>7, <2>1, SpawnType
  <2> QED
    BY <1>0, <1>7, <2>2 DEF Goto, TypeOK, Stage, Past, Held, Op
<1>8. ASSUME NEW r \in Request, RefuseExpired(r) PROVE TypeOK'
  <2> DEFINE S == IF Op(r) = "verify" THEN {"VERIFY_FAILED"} ELSE {}
  <2>1. S \in SUBSET Action
    BY DEF Action
  <2>2. Spawn(r, S, Held(r).tenant, K(r))
    BY <1>8 DEF RefuseExpired
  <2> HIDE DEF S
  <2> QED
    BY <1>0, <1>7, <1>8, <2>1, <2>2 DEF RefuseExpired, Past, history, TypeOK
<1>9. ASSUME NEW r \in Request, PassCheck(r) PROVE TypeOK'
  <2>1. K(r) \in Kit
    BY <1>0, <1>9, TaskFacts DEF PassCheck
  <2>2. Spawn(r, {}, Held(r).tenant, K(r))
    BY <1>9 DEF PassCheck, Spawn
  <2>3. checked' \subseteq [kit: Kit, at: Time]
    BY <1>0, <1>9, <2>1 DEF PassCheck, TypeOK
  <2> QED
    BY <1>0, <1>7, <1>9, <2>2, <2>3 DEF PassCheck, Past, TypeOK, Action
<1>10. ASSUME NEW r \in Request, stage[r] = "activating" PROVE
           K(r) \in Kit /\ kits[K(r)] # NoRow /\ Activated(K(r)) \in [Kit -> Row \cup {NoRow}]
  BY <1>0, <1>10, TaskFacts, ActivatedType DEF IInv, HeldIsCurrent, Past
<1>11. ASSUME NEW r \in Request, Activate(r) PROVE TypeOK'
  <2> DEFINE S == IF Op(r) = "scan" THEN {"VERIFY_SUCCESS"} ELSE {"activity verified"}
  <2>1. S \in SUBSET Action
    BY DEF Action
  <2>2. Spawn(r, S, Held(r).tenant, K(r))
    BY <1>11 DEF Activate
  <2> HIDE DEF S
  <2> QED
    BY <1>0, <1>7, <1>10, <1>11, <2>1, <2>2 DEF Activate, Past, history, TypeOK
<1>12. ASSUME NEW r \in Request, ActivateFails(r) PROVE TypeOK'
  <2>1. Spawn(r, {}, Held(r).tenant, K(r))
    BY <1>12 DEF ActivateFails, Spawn
  <2> QED
    BY <1>0, <1>7, <1>10, <1>12, <2>1 DEF ActivateFails, Past, history, TypeOK, Action
<1>13. ASSUME NEW r \in Request, AnswerValid(r) PROVE TypeOK'
  <2> DEFINE S == IF Op(r) = "verify" THEN {"VERIFY_SUCCESS"} ELSE {}
  <2>1. S \in SUBSET Action
    BY DEF Action
  <2>2. Spawn(r, S, Held(r).tenant, K(r))
    BY <1>13 DEF AnswerValid
  <2>3. [kit |-> K(r), asked |-> task[r].asked, tenant |-> Held(r).tenant] \in Verdict
    BY <1>0, <1>13, TaskFacts DEF AnswerValid, Verdict, Task, Past
  <2>4. verdicts' \subseteq Verdict
    BY <1>0, <1>13, <2>3 DEF AnswerValid, TypeOK
  <2> HIDE DEF S
  <2> QED
    BY <1>0, <1>7, <1>13, <2>1, <2>2, <2>4 DEF AnswerValid, Past, TypeOK
<1>14. ASSUME NEW r \in Request, Return(r) PROVE TypeOK'
  BY <1>0, <1>14 DEF Return, Goto, TypeOK, Stage, history, Held, Op, Auditor
<1>15. ASSUME NEW g \in auditors, RecordAuditEvent(g) PROVE TypeOK'
  BY <1>0, <1>15 DEF RecordAuditEvent, TypeOK, inflight, history, Held, Op, Auditor
<1>16. CASE Tick
  BY <1>0, <1>16, ConstantsAssumption DEF Tick, TypeOK, Time, inflight, history, Held, Op
<1>17. CASE UNCHANGED vars
  BY <1>0, <1>17 DEF vars, TypeOK, inflight, history, Held, Op
<1> QED
  BY <1>1, <1>3, <1>4, <1>5, <1>6, <1>8, <1>9, <1>11, <1>12, <1>13, <1>14, <1>15, <1>16, <1>17
     DEF Next, Handle

-----------------------------------------------------------------------------
(* The row a handler holds *)

\* A step changes the table only by storing a generated kit or activating a held one,
\* and the stage and the task of a request only where it says so.
LEMMA HeldStep == IInv /\ [Next]_vars => RowsAreMade' /\ GeneratedIsUnstored' /\ HeldIsCurrent'
<1> SUFFICES ASSUME IInv, [Next]_vars
             PROVE  RowsAreMade' /\ GeneratedIsUnstored' /\ HeldIsCurrent'
  OBVIOUS
<1>0. TypeOK /\ RowsAreMade /\ GeneratedIsUnstored /\ HeldIsCurrent /\ Grows
  BY StepGrows DEF IInv
<1>1. ASSUME NEW r \in Request, NEW k \in Kit, NEW t \in Tenant, GenerateKit(r, k, t)
      PROVE  RowsAreMade' /\ GeneratedIsUnstored' /\ HeldIsCurrent'
  <2>1. kits[k] = NoRow /\ k \notin made
    BY <1>0, <1>1 DEF GenerateKit, RowsAreMade
  <2>2. \A q \in Request : stage'[q] = (IF q = r THEN "generated" ELSE stage[q])
    BY <1>0, <1>1 DEF GenerateKit, Begin, Goto, TypeOK
  <2>3. \A q \in Request : q # r => task'[q] = task[q]
    BY <1>0, <1>1 DEF GenerateKit, Begin, TypeOK
  <2>4. task'[r] = [op |-> "kit", kit |-> k, asked |-> t, row |-> NoRow]
    BY <1>0, <1>1 DEF GenerateKit, Begin, TypeOK
  <2> QED
    BY <1>0, <1>1, <2>1, <2>2, <2>3, <2>4
       DEF GenerateKit, RowsAreMade, GeneratedIsUnstored, HeldIsCurrent, Past, K, Held
<1>2. ASSUME NEW r \in Request, NEW s \in Stage, Goto(r, s), task' = task, Grows,
             \/ kits' = kits
             \/ /\ K(r) \in made
                /\ \A q \in Request : stage[q] = "generated" /\ K(q) = K(r) => q = r
                /\ \A k \in Kit : k # K(r) => kits'[k] = kits[k],
             made' = made,
             s # "generated", s \in Past => stage[r] \in Past
      PROVE  RowsAreMade' /\ GeneratedIsUnstored' /\ HeldIsCurrent'
  <2>1. \A q \in Request : stage'[q] = (IF q = r THEN s ELSE stage[q])
    BY <1>0, <1>2 DEF Goto, TypeOK
  <2>2. \A q \in Request : stage[q] # "idle" => K(q) \in Kit
    BY <1>0, TaskFacts
  <2>3. RowsAreMade'
    BY <1>0, <1>2 DEF RowsAreMade
  <2>4. GeneratedIsUnstored'
    BY <1>0, <1>2, <2>1, <2>2 DEF GeneratedIsUnstored, K
  <2>5. HeldIsCurrent'
    BY <1>0, <1>2, <2>1, <2>2 DEF HeldIsCurrent, K, Held, Grows, Past
  <2> QED
    BY <2>3, <2>4, <2>5
<1>3. ASSUME NEW r \in Request, StoreKit(r)
      PROVE  RowsAreMade' /\ GeneratedIsUnstored' /\ HeldIsCurrent'
  BY <1>0, <1>2, <1>3 DEF StoreKit, Deliver, TypeOK, GeneratedIsUnstored, Stage, Past
<1>4. ASSUME NEW r \in Request, StoreKitFails(r)
      PROVE  RowsAreMade' /\ GeneratedIsUnstored' /\ HeldIsCurrent'
  BY <1>0, <1>2, <1>4 DEF StoreKitFails, Deliver, Stage, Past
<1>5. ASSUME NEW r \in Request, NEW op \in {"verify", "scan"}, NEW k \in Kit,
             NEW t \in Tenant \cup {NoTenant}, NEW s \in {"looked", "returning"}, NEW row,
             Begin(r, s, [op |-> op, kit |-> k, asked |-> t, row |-> row]),
             s = "looked" => row = kits[k] /\ Matches(k, t),
             kits' = kits, made' = made
      PROVE  RowsAreMade' /\ GeneratedIsUnstored' /\ HeldIsCurrent'
  <2>1. \A q \in Request : stage'[q] = (IF q = r THEN s ELSE stage[q])
    BY <1>0, <1>5 DEF Begin, Goto, TypeOK
  <2>2. \A q \in Request : q # r => task'[q] = task[q]
    BY <1>0, <1>5 DEF Begin, TypeOK
  <2>3. task'[r] = [op |-> op, kit |-> k, asked |-> t, row |-> row]
    BY <1>0, <1>5 DEF Begin, TypeOK
  <2> QED
    BY <1>0, <1>5, <2>1, <2>2, <2>3
       DEF RowsAreMade, GeneratedIsUnstored, HeldIsCurrent, Past, K, Held, Matches
<1>6. ASSUME NEW r \in Request, NEW op \in {"verify", "scan"}, NEW k \in Kit,
             NEW t \in Tenant \cup {NoTenant}, Lookup(r, op, k, t) \/ LookupFails(r, op, k, t)
      PROVE  RowsAreMade' /\ GeneratedIsUnstored' /\ HeldIsCurrent'
  BY <1>5, <1>6 DEF Lookup, LookupFails, Found
<1>7. ASSUME NEW r \in Request, stage[r] = "activating"
      PROVE  /\ K(r) \in made
             /\ \A q \in Request : stage[q] = "generated" /\ K(q) = K(r) => q = r
             /\ \A k \in Kit : k # K(r) => Activated(K(r))[k] = kits[k]
  <2>1. K(r) \in Kit /\ kits[K(r)] # NoRow
    BY <1>0, <1>7, TaskFacts DEF HeldIsCurrent, Past
  <2> QED
    BY <1>0, <2>1, ActivatedType DEF RowsAreMade, GeneratedIsUnstored
<1>8. ASSUME NEW r \in Request, RefuseExpired(r)
      PROVE  RowsAreMade' /\ GeneratedIsUnstored' /\ HeldIsCurrent'
  BY <1>0, <1>2, <1>8 DEF RefuseExpired, Stage, Past
<1>9. ASSUME NEW r \in Request, PassCheck(r)
      PROVE  RowsAreMade' /\ GeneratedIsUnstored' /\ HeldIsCurrent'
  BY <1>0, <1>2, <1>9 DEF PassCheck, Stage, Past
<1>10. ASSUME NEW r \in Request, Activate(r)
       PROVE  RowsAreMade' /\ GeneratedIsUnstored' /\ HeldIsCurrent'
  BY <1>0, <1>2, <1>7, <1>10 DEF Activate, Stage, Past
<1>11. ASSUME NEW r \in Request, ActivateFails(r)
       PROVE  RowsAreMade' /\ GeneratedIsUnstored' /\ HeldIsCurrent'
  BY <1>0, <1>2, <1>7, <1>11 DEF ActivateFails, Stage, Past
<1>12. ASSUME NEW r \in Request, AnswerValid(r)
       PROVE  RowsAreMade' /\ GeneratedIsUnstored' /\ HeldIsCurrent'
  BY <1>0, <1>2, <1>12 DEF AnswerValid, Stage, Past
<1>13. ASSUME NEW r \in Request, Return(r)
       PROVE  RowsAreMade' /\ GeneratedIsUnstored' /\ HeldIsCurrent'
  BY <1>0, <1>13
     DEF Return, Goto, TypeOK, RowsAreMade, GeneratedIsUnstored, HeldIsCurrent, Past, K, Held
<1>14. ASSUME UNCHANGED <<made, kits, inflight>>
       PROVE  RowsAreMade' /\ GeneratedIsUnstored' /\ HeldIsCurrent'
  BY <1>0, <1>14 DEF inflight, RowsAreMade, GeneratedIsUnstored, HeldIsCurrent, Past, K, Held
<1> QED
  BY <1>1, <1>3, <1>4, <1>6, <1>8, <1>9, <1>10, <1>11, <1>12, <1>13, <1>14
     DEF Next, Handle, RecordAuditEvent, Tick, vars

-----------------------------------------------------------------------------
(* Checks, verdicts and the log *)

LEMMA CheckStep == IInv /\ [Next]_vars => ActivatingIsChecked' /\ ActivatedWasFresh'
<1> SUFFICES ASSUME IInv, [Next]_vars PROVE ActivatingIsChecked' /\ ActivatedWasFresh'
  OBVIOUS
<1>0. TypeOK /\ HeldIsCurrent /\ Grows /\ TypeOK'
  BY StepGrows, TypeStep DEF IInv
<1>1. clock \in Nat /\ clock' \in Nat /\ clock <= clock' /\ checked \subseteq checked'
  <2>1. clock \in Nat /\ clock' \in Nat
    BY <1>0, ConstantsAssumption DEF TypeOK, Time
  <2>2. clock' = clock \/ clock' = clock + 1
    BY DEF Next, Handle, GenerateKit, Lookup, LookupFails, Found, StoreKit,
           StoreKitFails, Deliver, RefuseExpired, PassCheck, Activate, ActivateFails,
           AnswerValid, Return, RecordAuditEvent, Tick, vars
  <2>3. checked \subseteq checked'
    BY DEF Next, Handle, GenerateKit, Lookup, LookupFails, Found, StoreKit,
           StoreKitFails, Deliver, RefuseExpired, PassCheck, Activate, ActivateFails,
           AnswerValid, Return, RecordAuditEvent, Tick, vars, history
  <2> QED
    BY <2>1, <2>2, <2>3
\* A kit that was checked in time stays so.
<1>2. ASSUME NEW k \in Kit, NEW t \in Nat, NEW u \in Nat, t <= u, kits[k] # NoRow,
             CheckedBy(checked, kits, k, t)
      PROVE  CheckedBy(checked', kits', k, u)
  <2>1. PICK c \in checked : c.kit = k /\ c.at <= kits[k].expires /\ c.at <= t
    BY <1>2 DEF CheckedBy
  <2>2. c.at \in Nat
    BY <1>0, ConstantsAssumption DEF TypeOK, Time
  <2>3. kits'[k].expires = kits[k].expires /\ c \in checked' /\ c.at <= u
    BY <1>0, <1>1, <1>2, <2>1, <2>2 DEF Grows
  <2> QED
    BY <2>1, <2>3 DEF CheckedBy
<1>3. ASSUME NEW r \in Request, stage'[r] = "activating"
      PROVE  CheckedBy(checked', kits', K(r)', clock')
  <2>1. CASE stage[r] = "activating"
    <3>1. K(r)' = K(r) /\ K(r) \in Kit /\ kits[K(r)] # NoRow
      <4>1. K(r) \in Kit /\ kits[K(r)] # NoRow
        BY <1>0, <2>1, TaskFacts DEF HeldIsCurrent, Past
      <4>2. task'[r] = task[r]
        BY <1>0, <1>3, <2>1
           DEF TypeOK, Next, Handle, GenerateKit, Lookup, LookupFails, Found, StoreKit,
               StoreKitFails, Deliver, RefuseExpired, PassCheck, Activate, ActivateFails,
               AnswerValid, Return, RecordAuditEvent, Tick, vars, inflight, Begin, Goto
      <4> QED
        BY <4>1, <4>2 DEF K
    <3>2. CheckedBy(checked, kits, K(r), clock)
      BY <2>1 DEF IInv, ActivatingIsChecked
    <3> DEFINE k == K(r)
    <3>3. k \in Kit /\ kits[k] # NoRow /\ CheckedBy(checked, kits, k, clock)
      BY <3>1, <3>2
    <3> HIDE DEF k
    <3>4. CheckedBy(checked', kits', k, clock')
      BY <1>1, <1>2, <3>3
    <3> QED
      BY <3>1, <3>4 DEF k, CheckedBy
  <2>2. CASE stage[r] # "activating"
    <3>1. PassCheck(r)
      BY <1>0, <1>3, <2>2
         DEF TypeOK, Next, Handle, GenerateKit, Lookup, LookupFails, Found, StoreKit,
             StoreKitFails, Deliver, RefuseExpired, PassCheck, Activate, ActivateFails,
             AnswerValid, Return, RecordAuditEvent, Tick, vars, inflight, Begin, Goto
    <3>2. /\ K(r)' = K(r) /\ clock' = clock /\ kits' = kits
          /\ [kit |-> K(r), at |-> clock] \in checked'
          /\ ~(clock > Held(r).expires)
      BY <3>1 DEF PassCheck, K
    <3>3. kits[K(r)].expires = Held(r).expires /\ Held(r) \in Row
      BY <1>0, <3>1, TaskFacts DEF PassCheck, HeldIsCurrent, Past
    <3>4. Held(r).expires \in Nat
      BY <3>3, ConstantsAssumption DEF Row
    <3> QED
      BY <1>1, <3>2, <3>3, <3>4 DEF CheckedBy
  <2> QED
    BY <2>1, <2>2
<1>4. ASSUME NEW k \in Kit, kits'[k] # NoRow, kits'[k].activated # Null
      PROVE  CheckedBy(checked', kits', k, kits'[k].activated)
  <2>1. CASE kits[k] # NoRow /\ kits[k].activated # Null /\ kits'[k].activated = kits[k].activated
    <3>1. kits[k].activated \in Nat
      BY <1>0, <2>1, ConstantsAssumption DEF TypeOK, Row, Time
    <3>2. CheckedBy(checked, kits, k, kits[k].activated)
      BY <2>1 DEF IInv, ActivatedWasFresh, CheckedBy
    <3> DEFINE t == kits[k].activated
    <3>3. t \in Nat /\ CheckedBy(checked, kits, k, t)
      BY <3>1, <3>2
    <3> HIDE DEF t
    <3>4. CheckedBy(checked', kits', k, t)
      BY <1>2, <2>1, <3>3
    <3> QED
      BY <2>1, <3>4 DEF t, CheckedBy
  <2>2. CASE ~(kits[k] # NoRow /\ kits[k].activated # Null /\ kits'[k].activated = kits[k].activated)
    <3>1. PICK r \in Request : /\ stage[r] = "activating" /\ K(r) = k /\ kits' = Activated(k)
                              /\ clock' = clock /\ checked' = checked
      <4>1. kits'[k] # kits[k]
        BY <1>4, <2>2
      <4>2. ASSUME NEW r \in Request, StoreKit(r) PROVE FALSE
        <5>1. K(r) \in Kit
          BY <1>0, <4>2, TaskFacts DEF StoreKit
        <5>2. k = K(r)
          BY <1>0, <4>1, <4>2, <5>1 DEF StoreKit, TypeOK
        <5> QED
          BY <1>0, <1>4, <4>2, <5>1, <5>2 DEF StoreKit, TypeOK
      <4>3. ASSUME NEW r \in Request, stage[r] = "activating", kits' \in {kits, Activated(K(r))}
            PROVE  K(r) = k /\ kits' = Activated(k)
        <5>1. K(r) \in Kit /\ kits[K(r)] # NoRow
          BY <1>0, <4>3, TaskFacts DEF HeldIsCurrent, Past
        <5>2. kits' = Activated(K(r))
          BY <4>1, <4>3
        <5>3. K(r) = k
          BY <1>0, <4>1, <5>1, <5>2, ActivatedType
        <5> QED
          BY <5>2, <5>3
      <4> QED
        BY <4>1, <4>2, <4>3
           DEF Next, Handle, GenerateKit, Lookup, LookupFails, Found, StoreKitFails,
               Deliver, RefuseExpired, PassCheck, Activate, ActivateFails, AnswerValid,
               Return, RecordAuditEvent, Tick, vars, history
    <3>2. kits[k] # NoRow /\ CheckedBy(checked, kits, k, clock)
      BY <1>0, <3>1 DEF IInv, ActivatingIsChecked, HeldIsCurrent, Past
    <3>3. kits'[k].activated = clock
      BY <1>0, <3>1, <3>2, ActivatedType
    <3>4. CheckedBy(checked', kits', k, clock)
      BY <1>1, <1>2, <3>1, <3>2
    <3> QED
      BY <3>1, <3>3, <3>4 DEF CheckedBy
  <2> QED
    BY <2>1, <2>2
<1> QED
  BY <1>3, <1>4 DEF ActivatingIsChecked, ActivatedWasFresh, CheckedBy

\* A verdict is given only on a marked row, and marks stay.
LEMMA VerdictStep ==
    IInv /\ [Next]_vars => ValidIsMarked' /\ ValidIsActivated' /\ ValidForItsTenant'
<1> SUFFICES ASSUME IInv, [Next]_vars
             PROVE  ValidIsMarked' /\ ValidIsActivated' /\ ValidForItsTenant'
  OBVIOUS
<1>0. /\ TypeOK /\ HeldIsCurrent /\ ValidIsMarked /\ Grows /\ TypeOK'
      /\ ValidIsActivated /\ ValidForItsTenant
  BY StepGrows, TypeStep DEF IInv
<1>1. ASSUME NEW r \in Request, stage'[r] = "valid"
      PROVE  kits'[K(r)'].activated # Null
  <2>1. stage[r] \in Past => K(r) \in Kit /\ kits[K(r)] # NoRow
    BY <1>0, TaskFacts DEF HeldIsCurrent, Past
  <2>2. stage[r] \in Past /\ K(r)' = K(r)
    <3>1. stage[r] \in Past
      BY <1>0, <1>1
         DEF TypeOK, Next, Handle, GenerateKit, Lookup, LookupFails, Found, StoreKit,
             StoreKitFails, Deliver, RefuseExpired, PassCheck, Activate, ActivateFails,
             AnswerValid, Return, RecordAuditEvent, Tick, vars, inflight, Begin, Goto, Past
    <3>2. task'[r] = task[r]
      BY <1>0, <1>1, <3>1
         DEF TypeOK, Next, Handle, GenerateKit, Lookup, LookupFails, Found, StoreKit,
             StoreKitFails, Deliver, RefuseExpired, PassCheck, Activate, ActivateFails,
             AnswerValid, Return, RecordAuditEvent, Tick, vars, inflight, Begin, Goto, Past
    <3> QED
      BY <3>1, <3>2 DEF K
  <2>3. CASE kits[K(r)].activated # Null
    BY <1>0, <2>1, <2>2, <2>3 DEF Grows
  <2>4. CASE kits[K(r)].activated = Null
    <3>1. stage[r] # "valid"
      BY <2>4, <1>0 DEF ValidIsMarked
    <3>2. Held(r).activated = Null
      BY <1>0, <2>2, <2>4 DEF HeldIsCurrent
    <3>3. Activate(r)
      <4>1. ~PassCheck(r)
        BY <1>0, <1>1, <3>2 DEF PassCheck, Goto, TypeOK
      <4> QED
        BY <1>0, <1>1, <3>1, <4>1
           DEF TypeOK, Next, Handle, GenerateKit, Lookup, LookupFails, Found, StoreKit,
               StoreKitFails, Deliver, RefuseExpired, PassCheck, Activate, ActivateFails,
               AnswerValid, Return, RecordAuditEvent, Tick, vars, inflight, Begin, Goto
    <3>4. kits' = Activated(K(r)) /\ clock # Null
      BY <1>0, <3>3, ConstantsAssumption DEF Activate, TypeOK
    <3> QED
      BY <1>0, <2>1, <2>2, <3>4, ActivatedType
  <2> QED
    BY <2>3, <2>4
<1>2. ASSUME NEW v \in verdicts'
      PROVE  /\ kits'[v.kit] # NoRow /\ kits'[v.kit].activated # Null
             /\ kits'[v.kit].tenant = v.tenant /\ v.asked \in {NoTenant, v.tenant}
  <2>1. CASE v \in verdicts
    BY <1>0, <2>1 DEF TypeOK, Verdict, ValidIsActivated, ValidForItsTenant, Grows
  <2>2. CASE v \notin verdicts
    <3>1. PICK r \in Request : AnswerValid(r)
      BY <1>2, <2>2
         DEF Next, Handle, GenerateKit, Lookup, LookupFails, Found, StoreKit,
             StoreKitFails, Deliver, RefuseExpired, PassCheck, Activate, ActivateFails,
             Return, RecordAuditEvent, Tick, vars, history
    <3>2. v = [kit |-> K(r), asked |-> task[r].asked, tenant |-> Held(r).tenant]
      BY <1>2, <2>2, <3>1 DEF AnswerValid
    <3> QED
      BY <1>0, <3>1, <3>2 DEF AnswerValid, ValidIsMarked, HeldIsCurrent, Past
  <2> QED
    BY <2>1, <2>2
<1> QED
  BY <1>1, <1>2 DEF ValidIsMarked, ValidIsActivated, ValidForItsTenant

\* A goroutine is started only with an entry that is true by then.
LEMMA LogStep == IInv /\ [Next]_vars => AuditorsAreTruthful' /\ AuditIsTruthful'
<1> SUFFICES ASSUME IInv, [Next]_vars PROVE AuditorsAreTruthful' /\ AuditIsTruthful'
  OBVIOUS
<1>0. /\ TypeOK /\ HeldIsCurrent /\ GeneratedIsUnstored /\ ValidIsMarked /\ Grows
      /\ AuditorsAreTruthful /\ AuditIsTruthful /\ TypeOK'
  BY StepGrows, TypeStep DEF IInv
<1>1. \A e \in audit' : e \in audit \/ \E g \in auditors : e = g.entry
  BY DEF Next, Handle, GenerateKit, Lookup, LookupFails, Found, StoreKit,
         StoreKitFails, Deliver, RefuseExpired, PassCheck, Activate, ActivateFails,
         AnswerValid, Return, RecordAuditEvent, Tick, vars
<1>2. \A e \in audit : Truthful(e)'
  <2> SUFFICES ASSUME NEW e \in audit PROVE Truthful(e)'
    OBVIOUS
  <2>1. e \in Entry /\ Truthful(e)
    BY <1>0 DEF TypeOK, AuditIsTruthful
  <2> QED
    BY <1>0, <2>1, TruthStays
<1>3. \A g \in auditors : Truthful(g.entry)'
  <2> SUFFICES ASSUME NEW g \in auditors PROVE Truthful(g.entry)'
    OBVIOUS
  <2> DEFINE e == g.entry
  <2>1. e \in Entry /\ Truthful(e)
    BY <1>0 DEF TypeOK, AuditorsAreTruthful, Auditor
  <2>2. g.entry' = e
    OBVIOUS
  <2> HIDE DEF e
  <2>3. Truthful(e)'
    BY <1>0, <2>1, TruthStays
  <2> QED
    BY <2>3 DEF e
<1>4. ASSUME NEW r \in Request, NEW S \in SUBSET Action, NEW t, NEW k \in Kit,
             Spawn(r, S, t, k),
             \A a \in S : TruthIn(kits', made', [action |-> a, tenant |-> t, kit |-> k])
      PROVE  \A g \in auditors' : Truthful(g.entry)'
  <2> SUFFICES ASSUME NEW g \in auditors' PROVE Truthful(g.entry)'
    OBVIOUS
  <2>1. CASE g \in auditors
    BY <1>3, <2>1
  <2>2. CASE g \notin auditors
    <3>1. PICK a \in S : g.entry = [action |-> a, tenant |-> t, kit |-> k]
      BY <1>4, <2>2 DEF Spawn
    <3>2. TruthIn(kits', made', g.entry)
      BY <1>4, <3>1
    <3> QED
      BY <3>2 DEF Truthful, TruthIn
  <2> QED
    BY <2>1, <2>2
<1>5. ASSUME NEW r \in Request, StoreKit(r) PROVE \A g \in auditors' : Truthful(g.entry)'
  <2>1. K(r) \in Kit /\ K(r) \in made /\ task[r].asked \in Tenant
    BY <1>0, <1>5, TaskFacts DEF StoreKit, GeneratedIsUnstored
  <2>2. made' = made /\ kits'[K(r)] = [tenant |-> task[r].asked, expires |-> clock + Lifetime,
                                      activated |-> Null]
    BY <1>0, <1>5, <2>1 DEF StoreKit, Deliver, TypeOK
  <2>3. kits'[K(r)] # NoRow
    <3>1. task[r].asked \in Tenant /\ clock + Lifetime \in 0..(MaxClock + Lifetime)
      BY <1>0, <2>1, ConstantsAssumption DEF TypeOK, Time
    <3> QED
      BY <2>2, <3>1, ConstantsAssumption DEF Row
  <2> DEFINE S == {"KIT_GENERATED", "KIT_DOWNLOADED"} \cup {"activity generated"}
             t == task[r].asked
             k == K(r)
  <2>4. S \in SUBSET Action
    BY DEF Action
  <2>5. Spawn(r, S, t, k)
    BY <1>5 DEF StoreKit, Deliver
  <2>6. \A a \in S : TruthIn(kits', made', [action |-> a, tenant |-> t, kit |-> k])
    <3>1. kits'[k] # NoRow /\ kits'[k].tenant = t /\ k \in made'
      BY <2>1, <2>2, <2>3
    <3>2. \A a \in S : a \notin {"VERIFY_SUCCESS", "activity verified"}
      OBVIOUS
    <3> HIDE DEF S, t, k
    <3> QED
      BY <3>1, <3>2 DEF TruthIn
  <2>7. k \in Kit
    BY <2>1
  <2> HIDE DEF S, t, k
  <2> QED
    BY <1>4, <2>4, <2>5, <2>6, <2>7
<1>6. ASSUME NEW r \in Request, StoreKitFails(r) PROVE \A g \in auditors' : Truthful(g.entry)'
  <2>1. K(r) \in Kit /\ K(r) \in made
    BY <1>0, <1>6, TaskFacts DEF StoreKitFails, GeneratedIsUnstored
  <2>2. made' = made
    BY <1>6 DEF StoreKitFails, Deliver
  <2> DEFINE S == {"KIT_GENERATED", "KIT_DOWNLOADED"} \cup {}
             t == task[r].asked
             k == K(r)
  <2>4. S \in SUBSET Action
    BY DEF Action
  <2>5. Spawn(r, S, t, k)
    BY <1>6 DEF StoreKitFails, Deliver
  <2>6. \A a \in S : TruthIn(kits', made', [action |-> a, tenant |-> t, kit |-> k])
    BY <2>1, <2>2 DEF TruthIn
  <2>7. k \in Kit
    BY <2>1
  <2> HIDE DEF S, t, k
  <2> QED
    BY <1>4, <2>4, <2>5, <2>6, <2>7
\* An entry about the failure of a verification claims nothing.
<1>7. \A t, k : TruthIn(kits', made', [action |-> "VERIFY_FAILED", tenant |-> t, kit |-> k])
  BY DEF TruthIn
<1>8. ASSUME NEW r \in Request, NEW op \in {"verify", "scan"}, NEW k \in Kit,
             NEW t \in Tenant \cup {NoTenant}, LookupFails(r, op, k, t)
      PROVE  \A g \in auditors' : Truthful(g.entry)'
  <2> DEFINE S == IF t = NoTenant THEN {} ELSE {"VERIFY_FAILED"}
  <2>1. S \in SUBSET Action /\ S \subseteq {"VERIFY_FAILED"}
    BY DEF Action
  <2>2. Spawn(r, S, t, k)
    BY <1>8 DEF LookupFails
  <2> HIDE DEF S
  <2>3. \A a \in S : TruthIn(kits', made', [action |-> a, tenant |-> t, kit |-> k])
    BY <1>7, <2>1
  <2> QED
    BY <1>4, <2>1, <2>2, <2>3
<1>9. ASSUME NEW r \in Request, RefuseExpired(r) PROVE \A g \in auditors' : Truthful(g.entry)'
  <2> DEFINE S == IF Op(r) = "verify" THEN {"VERIFY_FAILED"} ELSE {}
             t == Held(r).tenant
             k == K(r)
  <2>1. S \in SUBSET Action /\ S \subseteq {"VERIFY_FAILED"}
    BY DEF Action
  <2>2. Spawn(r, S, t, k) /\ k \in Kit
    BY <1>0, <1>9, TaskFacts DEF RefuseExpired
  <2> HIDE DEF S, t, k
  <2>3. \A a \in S : TruthIn(kits', made', [action |-> a, tenant |-> t, kit |-> k])
    BY <1>7, <2>1
  <2> QED
    BY <1>4, <2>1, <2>2, <2>3
\* What a handler says of the row it holds, once it is marked.
<1>10. ASSUME NEW r \in Request, stage[r] \in {"activating", "valid"},
              NEW S \in SUBSET {"VERIFY_SUCCESS", "activity verified"},
              Spawn(r, S, Held(r).tenant, K(r)), kits'[K(r)].activated # Null
       PROVE  \A g \in auditors' : Truthful(g.entry)'
  <2> DEFINE t == Held(r).tenant
             k == K(r)
  <2>1. k \in Kit /\ kits'[k] # NoRow /\ kits'[k].tenant = t
    BY <1>0, <1>10, TaskFacts DEF HeldIsCurrent, Past, Grows
  <2>2. Spawn(r, S, t, k) /\ kits'[k].activated # Null /\ S \in SUBSET Action
    BY <1>10 DEF Action
  <2> HIDE DEF t, k
  <2>3. \A a \in S : TruthIn(kits', made', [action |-> a, tenant |-> t, kit |-> k])
    BY <1>10, <2>1, <2>2 DEF TruthIn
  <2> QED
    BY <1>4, <2>1, <2>2, <2>3
<1>11. ASSUME NEW r \in Request, Activate(r) PROVE \A g \in auditors' : Truthful(g.entry)'
  <2> DEFINE S == IF Op(r) = "scan" THEN {"VERIFY_SUCCESS"} ELSE {"activity verified"}
  <2>1. S \in SUBSET {"VERIFY_SUCCESS", "activity verified"}
    OBVIOUS
  <2>2. Spawn(r, S, Held(r).tenant, K(r)) /\ stage[r] = "activating"
    BY <1>11 DEF Activate
  <2>3. K(r) \in Kit /\ kits[K(r)] # NoRow
    BY <1>0, <2>2, TaskFacts DEF HeldIsCurrent, Past
  <2>4. kits'[K(r)].activated = clock /\ clock # Null
    BY <1>0, <1>11, <2>3, ActivatedType, ConstantsAssumption DEF Activate, TypeOK
  <2> HIDE DEF S
  <2> QED
    BY <1>10, <2>1, <2>2, <2>4
<1>12. ASSUME NEW r \in Request, AnswerValid(r) PROVE \A g \in auditors' : Truthful(g.entry)'
  <2> DEFINE S == IF Op(r) = "verify" THEN {"VERIFY_SUCCESS"} ELSE {}
  <2>1. S \in SUBSET {"VERIFY_SUCCESS", "activity verified"}
    OBVIOUS
  <2>2. Spawn(r, S, Held(r).tenant, K(r)) /\ stage[r] = "valid" /\ kits' = kits
    BY <1>12 DEF AnswerValid
  <2>3. kits'[K(r)].activated # Null
    BY <1>0, <2>2 DEF ValidIsMarked
  <2> HIDE DEF S
  <2> QED
    BY <1>10, <2>1, <2>2, <2>3
<1>13. \A g \in auditors' : Truthful(g.entry)'
  BY <1>3, <1>5, <1>6, <1>8, <1>9, <1>11, <1>12
     DEF Next, Handle, GenerateKit, Lookup, Found, PassCheck, ActivateFails, Return,
         RecordAuditEvent, Tick, vars
<1> QED
  BY <1>1, <1>2, <1>3, <1>13 DEF AuditorsAreTruthful, AuditIsTruthful

-----------------------------------------------------------------------------
\* IInv holds in every reachable state.
THEOREM Invariance == Spec => []IInv
<1>1. IInv /\ [Next]_vars => IInv'
  BY TypeStep, HeldStep, CheckStep, VerdictStep, LogStep DEF IInv
<1> QED
  BY InitIInv, <1>1, PTL DEF Spec

\* The types of the tables, the handlers and the goroutines.
THEOREM TypeCorrect == Spec => []TypeOK
BY Invariance, PTL DEF IInv

\* Whoever was told "valid" can rely on the activation.
THEOREM ValidMeansActivated == Spec => []ValidIsActivated
BY Invariance, PTL DEF IInv

\* No kit is activated that was not found unexpired before.
THEOREM ActivatedWhenFresh == Spec => []ActivatedWasFresh
BY Invariance, PTL DEF IInv

\* A kit is valid only for its own tenant.
THEOREM ValidForOwner == Spec => []ValidForItsTenant
BY Invariance, PTL DEF IInv

\* The log and the feed never claim what did not happen.
THEOREM LogIsTruthful == Spec => []AuditIsTruthful
BY Invariance, PTL DEF IInv
=============================================================================
