------------------------- MODULE ExecutionGateProofs --------------------------
(***************************************************************************)
(* Proofs about ExecutionGate, for every set of registries and every       *)
(* bound.  That no challenge counts twice, nor after a later one, rests on *)
(* the pending challenge being newer than all that were validated.  That   *)
(* the answers agree rests on the order of the candidates being strict and *)
(* total, so that they can be sorted.                                      *)
(***************************************************************************)
EXTENDS ExecutionGate, FiniteSetTheorems, WellFoundedInduction, TLAPS

\* What was validated was generated, and before the challenge that is pending.
ValidatedBefore ==
    /\ \A i \in DOMAIN validated : validated[i] \in 1..issued
    /\ pendingChallenge # None =>
          \A i \in DOMAIN validated : validated[i] < pendingChallenge

IInv == TypeOK /\ LedgerIsTail /\ ValidatedBefore /\ ChallengeSpentOnce

\* A step that leaves the hardware key's part alone keeps what is said about it.
LEMMA HardwareKept ==
    ASSUME IInv, UNCHANGED hardware
    PROVE  (ValidatedBefore /\ ChallengeSpentOnce)'
BY DEF IInv, hardware, ValidatedBefore, ChallengeSpentOnce

\* A step that leaves the ledger alone keeps what is said about it.
LEMMA LedgerKept ==
    ASSUME IInv, UNCHANGED record
    PROVE  LedgerIsTail'
BY DEF IInv, record, LedgerIsTail

\* A sequence over a set is one over a larger set.
LEMMA SequenceGrows ==
    ASSUME NEW S, NEW T, S \subseteq T, NEW s \in Seq(S)
    PROVE  s \in Seq(T)
  OBVIOUS

Entry(n) == [id : 1..n, allowed : BOOLEAN]

\* Records are not lost in a larger numbering.
LEMMA EntriesGrow ==
    ASSUME NEW n \in Nat
    PROVE  Entry(n) \subseteq Entry(n + 1)
<1>1. 1..n \subseteq 1..n + 1
  OBVIOUS
<1> QED
  BY <1>1 DEF Entry

\* Appending and cutting: the entries kept are the last ones.
LEMMA KeepsTheLatest ==
    ASSUME NEW S, NEW s \in Seq(S), Len(s) <= MaxLedger, NEW e \in S
    PROVE  LET k == Keep(Append(s, e))
           IN  /\ k \in Seq(S)
               /\ Len(k) = IF Len(s) < MaxLedger THEN Len(s) + 1 ELSE MaxLedger
               /\ \A i \in DOMAIN k :
                     k[i] = Append(s, e)[i + Len(s) + 1 - Len(k)]
<1> DEFINE a == Append(s, e)
<1>1. /\ a \in Seq(S) /\ Len(a) = Len(s) + 1 /\ Len(s) \in Nat /\ MaxLedger \in Nat \ {0}
  BY LedgerAssumption
<1> HIDE DEF a
<1>2. CASE Len(a) > MaxLedger
  <2>1. Keep(a) = Tail(a)
    BY <1>2 DEF Keep
  <2>2. /\ Tail(a) \in Seq(S) /\ Len(Tail(a)) = Len(a) - 1
        /\ \A i \in DOMAIN Tail(a) : Tail(a)[i] = a[i + 1]
    BY <1>1, <1>2
  <2> QED
    BY <1>1, <1>2, <2>1, <2>2 DEF a
<1>3. CASE ~(Len(a) > MaxLedger)
  <2>1. Keep(a) = a
    BY <1>3 DEF Keep
  <2> QED
    BY <1>1, <1>3, <2>1 DEF a
<1> QED
  BY <1>2, <1>3

-----------------------------------------------------------------------------
(* The plans.  The order of the candidates is strict and total, so that they can be      *)
(* sorted; what is answered of them then follows from who is ready.                       *)

Agent == [role : {"core", "edge", "observer"}, status : {"online", "offline"},
          capabilities : SUBSET Action]
Score == [agent : Nat, role : {"core", "edge", "observer"}, status : {"online", "offline"},
          tier : 1..3, confidence : Nat, risk : Nat]

\* Finitely many candidates, no two of which the order leaves undecided.
Comparable(C) ==
    /\ C \subseteq Score /\ IsFiniteSet(C)
    /\ \A c, d \in C : c # d => Before(c, d) \/ Before(d, c)

\* An agent that comes before another before a third comes before the third, and none
\* before itself.
LEMMA BeforeIsStrict ==
    /\ \A c, d, e \in Score : Before(c, d) /\ Before(d, e) => Before(c, e)
    /\ \A c \in Score : ~Before(c, c)
<1>1. ASSUME NEW c \in Score, NEW d \in Score, NEW e \in Score, Before(c, d), Before(d, e)
      PROVE  Before(c, e)
  <2>1. /\ c.tier \in Int /\ d.tier \in Int /\ e.tier \in Int
        /\ c.agent \in Int /\ d.agent \in Int /\ e.agent \in Int
        /\ c.status \in {"online", "offline"} /\ d.status \in {"online", "offline"}
        /\ e.status \in {"online", "offline"}
    BY DEF Score
  <2> QED
    BY <1>1, <2>1 DEF Before, Online
<1>2. ASSUME NEW c \in Score PROVE ~Before(c, c)
  <2>1. c.tier \in Int /\ c.agent \in Int
    BY DEF Score
  <2> QED
    BY <2>1 DEF Before
<1> QED
  BY <1>1, <1>2

\* Part of what is comparable is.
LEMMA ComparableWithin ==
    ASSUME NEW C, Comparable(C), NEW D \in SUBSET C
    PROVE  Comparable(D)
<1>1. IsFiniteSet(D)
  BY FS_Subset DEF Comparable
<1> QED
  BY <1>1 DEF Comparable

\* Of candidates one comes last.
LEMMA OneComesLast ==
    ASSUME NEW C, Comparable(C), C # {}
    PROVE  \E m \in C : \A c \in C \ {m} : Before(c, m)
<1> DEFINE Ends(D) == \E m \in D : \A c \in D \ {m} : Before(c, m)
           Bad == {D \in FiniteSubsetsOf(C) : D # {} /\ ~Ends(D)}
<1>1. ASSUME Bad # {} PROVE FALSE
  <2>1. PICK D \in Bad : \A E \in Bad : <<E, D>> \notin StrictSubsetOrdering(C)
    BY <1>1, FS_StrictSubsetOrderingWellFounded, WFMin
  <2>2. PICK x \in D : TRUE
    OBVIOUS
  <2> DEFINE E == D \ {x}
  <2>3. /\ D \subseteq C /\ E \in FiniteSubsetsOf(C)
        /\ <<E, D>> \in StrictSubsetOrdering(C)
    BY FS_Subset DEF FiniteSubsetsOf, StrictSubsetOrdering
  <2>4. E = {} \/ Ends(E)
    BY <2>1, <2>3
  <2>5. CASE E = {}
    <3>1. \A c \in D \ {x} : Before(c, x)
      BY <2>5
    <3> QED
      BY <3>1
  <2>6. CASE Ends(E)
    <3>1. PICK m \in E : \A c \in E \ {m} : Before(c, m)
      BY <2>6
    <3>2. m \in D /\ m # x /\ x \in Score /\ D \subseteq Score
      BY <2>3 DEF Comparable
    <3>3. CASE Before(x, m)
      <4>1. \A c \in D \ {m} : Before(c, m)
        BY <3>1, <3>3
      <4> QED
        BY <3>2, <4>1
    <3>4. CASE Before(m, x)
      <4>1. ASSUME NEW c \in D \ {x} PROVE Before(c, x)
        <5>1. c = m \/ Before(c, m)
          BY <3>1
        <5> QED
          BY <3>2, <3>4, <5>1, BeforeIsStrict
      <4> QED
        BY <4>1
    <3> QED
      BY <2>3, <3>2, <3>3, <3>4 DEF Comparable
  <2> QED
    BY <2>4, <2>5, <2>6
<1>2. C \in FiniteSubsetsOf(C)
  BY DEF FiniteSubsetsOf, Comparable
<1> QED
  BY <1>1, <1>2

IsSorting(cs, C) == cs \in [1..Cardinality(C) -> C] /\ InOrder(cs)

\* A sorting of all but the last, and the last, are a sorting.
LEMMA LastIsAppended ==
    ASSUME NEW C, Comparable(C), NEW m \in C, \A c \in C \ {m} : Before(c, m),
           NEW cs, IsSorting(cs, C \ {m})
    PROVE  \E ds : IsSorting(ds, C)
<1> DEFINE n == Cardinality(C)
           ds == [k \in 1..n |-> IF k = n THEN m ELSE cs[k]]
<1>1. /\ Cardinality(C \ {m}) = n - 1 /\ n \in Nat /\ n - 1 \in Nat
  <2>1. IsFiniteSet(C) /\ IsFiniteSet(C \ {m}) /\ Cardinality(C \ {m}) = n - 1
    BY FS_RemoveElement DEF Comparable
  <2>2. n \in Nat /\ Cardinality(C \ {m}) \in Nat
    BY <2>1, FS_CardinalityType
  <2> QED
    BY <2>1, <2>2
<1> HIDE DEF n
<1>2. /\ cs \in [1..n - 1 -> C \ {m}]
      /\ \A k, l \in 1..n - 1 : k < l => Before(cs[k], cs[l])
  BY <1>1 DEF IsSorting, InOrder
<1>3. ds \in [1..n -> C]
  BY <1>1, <1>2
<1>4. ASSUME NEW k \in 1..n, NEW l \in 1..n, k < l
      PROVE  Before(ds[k], ds[l])
  <2>1. k \in 1..n - 1 /\ ds[k] = cs[k] /\ cs[k] \in C \ {m}
    BY <1>1, <1>2, <1>4
  <2>2. CASE l = n
    BY <2>1, <2>2
  <2>3. CASE l # n
    <3>1. l \in 1..n - 1 /\ ds[l] = cs[l]
      BY <1>1, <2>3
    <3> QED
      BY <1>2, <1>4, <2>1, <3>1
  <2> QED
    BY <2>2, <2>3
<1>5. IsSorting(ds, C)
  BY <1>3, <1>4 DEF IsSorting, InOrder, n
<1> QED
  BY <1>5

\* Candidates can be sorted.
LEMMA CanBeSorted ==
    ASSUME NEW C, Comparable(C)
    PROVE  \E cs : IsSorting(cs, C)
<1> DEFINE Bad == {D \in FiniteSubsetsOf(C) : ~ \E cs : IsSorting(cs, D)}
<1>1. ASSUME Bad # {} PROVE FALSE
  <2>1. PICK D \in Bad : \A E \in Bad : <<E, D>> \notin StrictSubsetOrdering(C)
    BY <1>1, FS_StrictSubsetOrderingWellFounded, WFMin
  <2>2. D \in SUBSET C /\ Comparable(D)
    BY ComparableWithin DEF FiniteSubsetsOf
  <2>3. CASE D = {}
    <3>1. Cardinality(D) = 0
      BY <2>3, FS_EmptySet
    <3>2. IsSorting([k \in {} |-> k], D)
      BY <3>1 DEF IsSorting, InOrder
    <3> QED
      BY <3>2
  <2>4. CASE D # {}
    <3>1. PICK m \in D : \A c \in D \ {m} : Before(c, m)
      BY <2>2, <2>4, OneComesLast
    <3> DEFINE E == D \ {m}
    <3>2. E \in FiniteSubsetsOf(C) /\ <<E, D>> \in StrictSubsetOrdering(C)
      BY FS_Subset DEF FiniteSubsetsOf, StrictSubsetOrdering
    <3>3. PICK cs : IsSorting(cs, E)
      BY <2>1, <3>2
    <3>4. \E ds : IsSorting(ds, D)
      BY <2>2, <3>1, <3>3, LastIsAppended
    <3> QED
      BY <3>4
  <2> QED
    BY <2>3, <2>4
<1>2. C \in FiniteSubsetsOf(C)
  BY DEF FiniteSubsetsOf, Comparable
<1> QED
  BY <1>1, <1>2

\* Every candidate is in the sorted list.
LEMMA SortedAndComplete ==
    ASSUME NEW C, Comparable(C)
    PROVE  LET cs == Candidates(C)
           IN  IsSorting(cs, C) /\ \A c \in C : \E k \in DOMAIN cs : cs[k] = c
<1> DEFINE n == Cardinality(C)
<1>1. PICK cs : cs = Candidates(C)
  OBVIOUS
<1>2. IsSorting(cs, C)
  <2>1. \E ds \in [1..n -> C] : InOrder(ds)
    BY CanBeSorted DEF IsSorting
  <2> QED
    BY <1>1, <2>1 DEF IsSorting, Candidates
<1>3. cs \in [1..n -> C] /\ n \in Nat /\ IsFiniteSet(1..n) /\ Cardinality(1..n) = n
  <2>1. n \in Nat
    BY FS_CardinalityType DEF Comparable
  <2>2. IsFiniteSet(1..n) /\ Cardinality(1..n) = n
    BY <2>1, FS_Interval
  <2> QED
    BY <1>2, <2>1, <2>2 DEF IsSorting
<1>4. ASSUME NEW k \in 1..n, NEW l \in 1..n, cs[k] = cs[l] PROVE k = l
  <2>1. ~(k < l) /\ ~(l < k)
    BY <1>2, <1>3, <1>4, BeforeIsStrict DEF IsSorting, InOrder, Comparable
  <2> QED
    BY <1>3, <2>1
<1>5. cs \in Injection(1..n, C)
  BY <1>3, <1>4 DEF Injection, IsInjective
<1>6. cs \in Surjection(1..n, C)
  BY <1>3, <1>5, FS_Injection DEF Comparable
<1> QED
  BY <1>1, <1>2, <1>3, <1>6 DEF Surjection

\* The scored agents of a registry are comparable, and each role has its tier.
LEMMA ScoredAreComparable ==
    ASSUME agents \in Registries, NEW a \in Action
    PROVE  /\ Comparable(Scored(a))
           /\ \A c \in Scored(a) : c.tier = FallbackTier[c.role]
<1>1. agents \in Seq(Agent)
  BY RegistryAssumption DEF Agent
<1>2. ASSUME NEW i \in DOMAIN agents
      PROVE  Candidate(i, a) \in Score
  <2>1. i \in Nat /\ agents[i] \in Agent
    BY <1>1
  <2>2. /\ agents[i].role \in {"core", "edge", "observer"}
        /\ agents[i].status \in {"online", "offline"}
    BY <2>1 DEF Agent
  <2>3. /\ FallbackTier[agents[i].role] \in 1..3 /\ Confidence[agents[i].role] \in Nat
        /\ FailureChance[agents[i].role] + Surcharge[a] \in Nat
    BY <2>2 DEF FallbackTier, Confidence, FailureChance, Surcharge, Action
  <2> QED
    BY <2>1, <2>2, <2>3 DEF Candidate, Score
<1>3. /\ Eligible(a) \subseteq DOMAIN agents /\ IsFiniteSet(Eligible(a))
  <2>1. IsFiniteSet(DOMAIN agents)
    BY <1>1, FS_Interval
  <2> QED
    BY <2>1, FS_Subset DEF Eligible
<1>4. Scored(a) \subseteq Score
  BY <1>2, <1>3 DEF Scored
<1>5. IsFiniteSet(Scored(a))
  <2> DEFINE f == [i \in Eligible(a) |-> Candidate(i, a)]
  <2>1. f \in Surjection(Eligible(a), Scored(a))
    BY DEF Surjection, Scored
  <2> QED
    BY <1>3, <2>1, FS_Surjection
<1>6. ASSUME NEW c \in Scored(a), NEW d \in Scored(a), c # d
      PROVE  Before(c, d) \/ Before(d, c)
  <2>1. PICK i \in Eligible(a) : c = Candidate(i, a)
    BY DEF Scored
  <2>2. PICK j \in Eligible(a) : d = Candidate(j, a)
    BY DEF Scored
  <2>3. c.agent = i /\ d.agent = j /\ i # j
    BY <1>6, <2>1, <2>2 DEF Candidate
  <2>4. /\ c.agent \in Nat /\ d.agent \in Nat /\ c.tier \in Int /\ d.tier \in Int
        /\ c.status \in {"online", "offline"} /\ d.status \in {"online", "offline"}
    BY <1>4 DEF Score
  <2> QED
    BY <2>3, <2>4 DEF Before, Online
<1>7. ASSUME NEW c \in Scored(a) PROVE c.tier = FallbackTier[c.role]
  <2>1. PICK i \in Eligible(a) : c = Candidate(i, a)
    BY DEF Scored
  <2> QED
    BY <2>1 DEF Candidate
<1> QED
  BY <1>4, <1>5, <1>6, <1>7 DEF Comparable

\* Whoever is trusted with 90 on average has a core agent: the others have at most 85.
LEMMA TrustNeedsCore ==
    ASSUME NEW R, IsFiniteSet(R), R # {}, \A c \in R : c.role \in {"edge", "observer"}
    PROVE  ~(Total(R, Confidence) >= 90 * Cardinality(R))
<1> DEFINE of(role) == {c \in R : c.role = role}
<1>1. of("core") = {} /\ R = of("edge") \cup of("observer")
      /\ of("edge") \cap of("observer") = {}
  OBVIOUS
<1>2. Cardinality(of("core")) = 0
  BY <1>1, FS_EmptySet
<1>3. IsFiniteSet(of("edge")) /\ IsFiniteSet(of("observer"))
  BY FS_Subset
<1>4. Cardinality(R) = Cardinality(of("edge")) + Cardinality(of("observer"))
  <2>1. Cardinality(of("edge") \cap of("observer")) = 0
    BY <1>1, FS_EmptySet
  <2>2. Cardinality(of("edge") \cup of("observer")) =
          Cardinality(of("edge")) + Cardinality(of("observer"))
             - Cardinality(of("edge") \cap of("observer"))
    BY <1>3, FS_Union
  <2>3. Cardinality(of("edge")) \in Nat /\ Cardinality(of("observer")) \in Nat
    BY <1>3, FS_CardinalityType
  <2> HIDE DEF of
  <2> QED
    BY <1>1, <2>1, <2>2, <2>3
<1>5. /\ Cardinality(of("edge")) \in Nat /\ Cardinality(of("observer")) \in Nat
      /\ Cardinality(R) \in Nat /\ Cardinality(R) # 0
  BY <1>3, FS_CardinalityType, FS_EmptySet
<1>6. Total(R, Confidence) = 95 * Cardinality(of("core")) + 85 * Cardinality(of("edge"))
                                + 80 * Cardinality(of("observer"))
  BY DEF Total, Confidence
<1> HIDE DEF of
<1>7. PICK e \in Nat, o \in Nat : e = Cardinality(of("edge")) /\ o = Cardinality(of("observer"))
  BY <1>5
<1>8. Total(R, Confidence) = 85 * e + 80 * o
  BY <1>2, <1>6, <1>7
<1>9. Cardinality(R) = e + o /\ e + o # 0
  BY <1>4, <1>5, <1>7
<1>10. ~(85 * e + 80 * o >= 90 * (e + o))
  BY <1>9
<1> QED
  BY <1>8, <1>9, <1>10

\* Chains: those online come first, and some is online if any candidate is.
LEMMA ChainFollowsOrder ==
    ASSUME NEW C, Comparable(C), NEW chain, chain = Chain(Candidates(C))
    PROVE  /\ \A k, l \in DOMAIN chain : k < l /\ chain[l].online => chain[k].online
           /\ Ready(C) = {} <=> \A k \in DOMAIN chain : ~chain[k].online
<1>1. PICK cs : cs = Candidates(C)
  OBVIOUS
<1>2. /\ cs \in [1..Cardinality(C) -> C] /\ InOrder(cs)
      /\ \A c \in C : \E k \in DOMAIN cs : cs[k] = c
  BY <1>1, SortedAndComplete DEF IsSorting
<1>3. /\ DOMAIN chain = DOMAIN cs
      /\ \A k \in DOMAIN cs : chain[k].online = Online(cs[k])
  BY <1>1 DEF Chain
<1>4. ASSUME NEW k \in DOMAIN cs, NEW l \in DOMAIN cs, k < l, Online(cs[l])
      PROVE  Online(cs[k])
  <2>1. Before(cs[k], cs[l])
    BY <1>2, <1>4 DEF InOrder
  <2> QED
    BY <1>4, <2>1 DEF Before, Online
<1>5. Ready(C) = {} <=> \A k \in DOMAIN cs : ~Online(cs[k])
  BY <1>2 DEF Ready
<1> QED
  BY <1>3, <1>4, <1>5

\* A confident forecast: a primary agent is ready, and so are all.
LEMMA ConfidentHasPrimary ==
    ASSUME NEW C, Comparable(C), \A c \in C : c.tier = FallbackTier[c.role],
           ForecastConfidence(C) = "high"
    PROVE  /\ C # {} /\ Ready(Primary(C)) # {} /\ AllPrimaryReady(C)
           /\ \A c \in C : c.risk <= 9
<1>1. /\ C # {} /\ Ready(C) # {} /\ Trusted(C, 90) /\ AllPrimaryReady(C) /\ ~Risky(C, 9)
  BY DEF ForecastConfidence
<1>2. \A c \in C : c.risk \in Nat /\ c.role \in {"core", "edge", "observer"}
  BY DEF Comparable, Score
<1>3. \A c \in C : c.risk <= 9
  BY <1>1, <1>2 DEF Risky
<1>4. \E c \in Ready(C) : c.role = "core"
  <2>1. IsFiniteSet(Ready(C)) /\ Ready(C) \subseteq C
    BY FS_Subset DEF Ready, Comparable
  <2>2. ~ \A c \in Ready(C) : c.role \in {"edge", "observer"}
    BY <1>1, <2>1, TrustNeedsCore DEF Trusted
  <2> QED
    BY <1>2, <2>1, <2>2
<1>5. PICK c \in Ready(C) : c.role = "core"
  BY <1>4
<1>6. c \in C /\ Online(c) /\ c.tier = 1
  BY <1>5 DEF Ready, FallbackTier
<1> QED
  BY <1>1, <1>3, <1>6 DEF Ready, Primary

LEMMA PlansFit ==
    ASSUME agents \in Registries, NEW a \in Action, Plan(a)
    PROVE  PlanFits(answer')
<1> DEFINE C == Scored(a)
<1>1. Comparable(C) /\ \A c \in C : c.tier = FallbackTier[c.role]
  BY ScoredAreComparable
<1>2. PICK chain : chain = Chain(Candidates(C))
  OBVIOUS
<1>3. PICK failure : failure = FailureLikelihood(a, C)
  OBVIOUS
<1>4. PICK impact : impact = AvailabilityImpact(C)
  OBVIOUS
<1>5. PICK state : state = ExpectedState(C)
  OBVIOUS
<1>6. PICK available : available = Availability(C)
  OBVIOUS
<1>7. PICK confidence : confidence = ForecastConfidence(C)
  OBVIOUS
<1>8. answer' = [kind |-> "plan", chain |-> chain, failureLikelihood |-> failure,
                 availabilityImpact |-> impact, expectedState |-> state,
                 availability |-> available, confidence |-> confidence]
  BY <1>2, <1>3, <1>4, <1>5, <1>6, <1>7 DEF Plan
<1> HIDE DEF C
<1>9. /\ \A k, l \in DOMAIN chain : k < l /\ chain[l].online => chain[k].online
      /\ Ready(C) = {} <=> \A k \in DOMAIN chain : ~chain[k].online
  BY <1>1, <1>2, ChainFollowsOrder
<1>10. failure = "high" <=> Ready(C) = {}
  BY <1>3 DEF FailureLikelihood
<1>11. Ready(Primary(C)) \subseteq Ready(C) /\ Ready(Primary(C)) \subseteq Primary(C)
  BY DEF Ready, Primary
<1>12. ASSUME confidence = "high"
       PROVE  state = "healthy" /\ available = "high" /\ failure # "high" /\ impact = "low"
  <2>1. /\ C # {} /\ Ready(Primary(C)) # {} /\ AllPrimaryReady(C)
        /\ \A c \in C : c.risk <= 9
    BY <1>1, <1>7, <1>12, ConfidentHasPrimary
  <2>2. Ready(C) # {} /\ Primary(C) # {} /\ Ready(C) \subseteq C
    BY <1>11, <2>1 DEF Ready
  <2>3. ~Risky(Ready(C), 30) /\ ~Risky(C, 20)
    <3>1. \A c \in C : c.risk \in Nat
      BY <1>1 DEF Comparable, Score
    <3> QED
      BY <2>1, <2>2, <3>1 DEF Risky
  <2>4. state = "healthy"
    BY <1>5, <2>1, <2>2, <2>3 DEF ExpectedState
  <2>5. available = "high"
    BY <1>6, <2>1, <2>3 DEF Availability
  <2>6. impact = "low"
    BY <1>4, <2>1, <2>2 DEF AvailabilityImpact
  <2> QED
    BY <1>10, <2>2, <2>4, <2>5, <2>6
<1>13. ASSUME state = "healthy" PROVE available # "low"
  <2>1. C # {} /\ Ready(C) # {}
    BY <1>5, <1>13 DEF ExpectedState
  <2>2. Ready(Primary(C)) # {} \/ Ready(Fallback(C)) # {}
    <3>1. PICK c \in Ready(C) : TRUE
      BY <2>1
    <3>2. c \in C /\ Online(c) /\ c.tier \in 1..3
      BY <1>1, <3>1 DEF Ready, Comparable, Score
    <3>3. c.tier = 1 \/ c.tier > 1
      BY <3>2
    <3> QED
      BY <3>2, <3>3 DEF Ready, Primary, Fallback
  <2> QED
    BY <1>6, <2>1, <2>2 DEF Availability
<1> QED
  BY <1>8, <1>9, <1>10, <1>12, <1>13 DEF PlanFits

LEMMA RunsFit ==
    ASSUME agents \in Registries, NEW a \in Action, NEW s \in SUBSET Scenario, DryRun(a, s)
    PROVE  RunFits(answer')
<1> DEFINE T == Eligible(a)
<1>1. IsFiniteSet(T)
  <2>1. agents \in Seq(Agent)
    BY RegistryAssumption DEF Agent
  <2>2. IsFiniteSet(DOMAIN agents)
    BY <2>1, FS_Interval
  <2> QED
    BY <2>2, FS_Subset DEF Eligible
<1>2. PICK status \in [T -> {"ok", "failed", "unreachable"}] : answer' = Summary(T, status)
  BY DEF DryRun
<1> HIDE DEF T
<1> DEFINE Ok == {i \in T : status[i] \in {"ok"}}
           Failed == {i \in T : status[i] \in {"failed"}}
           Unreachable == {i \in T : status[i] \in {"unreachable"}}
           Retried == {i \in T : status[i] \in {"failed", "unreachable"}}
<1>3. /\ IsFiniteSet(Ok) /\ IsFiniteSet(Failed) /\ IsFiniteSet(Unreachable)
      /\ IsFiniteSet(Retried)
  BY <1>1, FS_Subset
<1>4. /\ T = Ok \cup Retried /\ Ok \cap Retried = {}
      /\ Retried = {} <=> Failed = {} /\ Unreachable = {}
  OBVIOUS
<1>5. /\ answer'.kind = "run" /\ answer'.total = Cardinality(T)
      /\ answer'.ok = Cardinality(Ok) /\ answer'.retryAttempts = Cardinality(Retried)
      /\ answer'.converged <=> Cardinality(Failed) = 0 /\ Cardinality(Unreachable) = 0
  BY <1>2 DEF Summary
<1> HIDE DEF Ok, Failed, Unreachable, Retried
<1>6. Cardinality(T) = Cardinality(Ok) + Cardinality(Retried)
  <2>1. /\ Cardinality(Ok) \in Nat /\ Cardinality(Retried) \in Nat
        /\ Cardinality(Ok \cap Retried) = 0
    BY <1>3, <1>4, FS_CardinalityType, FS_EmptySet
  <2>2. Cardinality(Ok \cup Retried) =
          Cardinality(Ok) + Cardinality(Retried) - Cardinality(Ok \cap Retried)
    BY <1>3, FS_Union
  <2> QED
    BY <1>4, <2>1, <2>2
<1>7. Cardinality(Retried) = 0 <=> Cardinality(Failed) = 0 /\ Cardinality(Unreachable) = 0
  BY <1>3, <1>4, FS_EmptySet
<1> QED
  BY <1>5, <1>6, <1>7 DEF RunFits

-----------------------------------------------------------------------------
LEMMA InitIInv == Init => IInv
<1> SUFFICES ASSUME Init PROVE IInv
  OBVIOUS
<1>1. TypeOK
  <2>1. /\ validated \in Seq(1..issued)
        /\ ledger \in Seq([id : 1..attempts, allowed : BOOLEAN])
    BY DEF Init
  <2>2. /\ attempts \in 0..MaxAttempts /\ issued \in 0..MaxChallenges
        /\ answers \in 0..MaxAnswers
    BY BoundAssumption DEF Init
  <2>3. /\ agents \in Registries /\ operator \in Operator \cup {None}
        /\ approvedActions \subseteq Action /\ executionMode \in Mode
        /\ hardwareKey \in BOOLEAN /\ pendingChallenge \in 1..issued \cup {None}
    BY DEF Init, Mode
  <2> QED
    BY <2>1, <2>2, <2>3 DEF TypeOK
<1>2. LedgerIsTail
  BY LedgerAssumption DEF Init, LedgerIsTail
<1>3. ValidatedBefore /\ ChallengeSpentOnce
  BY DEF Init, ValidatedBefore, ChallengeSpentOnce
<1> QED
  BY <1>1, <1>2, <1>3 DEF IInv

\* An attempt is recorded.
LEMMA SimulateKeeps ==
    ASSUME IInv, NEW a \in Action, NEW d \in Destination, NEW v \in BOOLEAN, Simulate(a, d, v)
    PROVE  IInv'
<1> DEFINE E == Entry(attempts + 1)
           e == [id |-> attempts + 1, allowed |-> SimulationAllows(a, d, v)]
<1>1. attempts \in Nat /\ attempts' = attempts + 1 /\ attempts' \in 0..MaxAttempts
  BY BoundAssumption DEF IInv, TypeOK, Simulate
<1>2. ledger' = Keep(Append(ledger, e))
  BY <1>1 DEF Simulate
<1>3. SimulationAllows(a, d, v) \in BOOLEAN
  BY DEF SimulationAllows
<1>4. e \in E
  BY <1>1, <1>3 DEF Entry
<1>5. ledger \in Seq(E)
  <2>1. ledger \in Seq(Entry(attempts))
    BY DEF IInv, TypeOK, Entry
  <2> QED
    BY <1>1, <2>1, EntriesGrow, SequenceGrows
<1>6. /\ Len(ledger) <= MaxLedger
      /\ Len(ledger) = IF attempts < MaxLedger THEN attempts ELSE MaxLedger
      /\ \A k \in DOMAIN ledger : ledger[k].id = attempts - Len(ledger) + k
  BY <1>1, LedgerAssumption DEF IInv, LedgerIsTail
<1> HIDE DEF E
<1>7. /\ ledger' \in Seq(E)
      /\ Len(ledger') = IF Len(ledger) < MaxLedger THEN Len(ledger) + 1 ELSE MaxLedger
      /\ \A i \in DOMAIN ledger' :
            ledger'[i] = Append(ledger, e)[i + Len(ledger) + 1 - Len(ledger')]
  BY <1>2, <1>4, <1>5, <1>6, KeepsTheLatest
<1>8. TypeOK'
  <2>1. ledger' \in Seq([id : 1..attempts', allowed : BOOLEAN])
    BY <1>1, <1>7 DEF E, Entry
  <2> QED
    BY <1>1, <2>1 DEF IInv, TypeOK, Simulate, gate, hardware, plan
<1>9. LedgerIsTail'
  <2>1. Len(ledger') = IF attempts' < MaxLedger THEN attempts' ELSE MaxLedger
    BY <1>1, <1>6, <1>7, LedgerAssumption
  <2>2. ASSUME NEW k \in DOMAIN ledger'
        PROVE  ledger'[k].id = attempts' - Len(ledger') + k
    <3> DEFINE n == k + Len(ledger) + 1 - Len(ledger')
    <3>1. /\ Len(ledger) \in Nat /\ k \in 1..Len(ledger') /\ Len(ledger') \in Nat
          /\ n \in 1..Len(ledger) + 1 /\ ledger'[k] = Append(ledger, e)[n]
      BY <1>5, <1>6, <1>7, <2>2, LedgerAssumption
    <3>2. CASE n = Len(ledger) + 1
      <4>1. Append(ledger, e)[n] = e
        BY <1>5, <3>2
      <4> QED
        BY <1>1, <3>1, <3>2, <4>1
    <3>3. CASE n \in 1..Len(ledger)
      <4>1. Append(ledger, e)[n] = ledger[n] /\ n \in DOMAIN ledger
        BY <1>5, <3>3
      <4>2. ledger[n].id = attempts - Len(ledger) + n
        BY <1>6, <4>1
      <4> QED
        BY <1>1, <3>1, <4>1, <4>2
    <3> QED
      BY <3>1, <3>2, <3>3
  <2> QED
    BY <2>1, <2>2 DEF LedgerIsTail
<1>10. UNCHANGED hardware
  BY DEF Simulate
<1> QED
  BY <1>8, <1>9, <1>10, HardwareKept DEF IInv

\* A challenge is generated: newer than all before.
LEMMA GenerateKeeps ==
    ASSUME IInv, GenerateChallenge
    PROVE  IInv'
<1>1. /\ issued \in Nat /\ issued' = issued + 1 /\ issued' \in 0..MaxChallenges
      /\ pendingChallenge' = issued' /\ validated' = validated
  BY BoundAssumption DEF IInv, TypeOK, GenerateChallenge
<1>2. validated \in Seq(1..issued')
  <2>1. 1..issued \subseteq 1..issued'
    BY <1>1
  <2> QED
    BY <1>1, <2>1, SequenceGrows DEF IInv, TypeOK
<1>3. TypeOK'
  BY <1>1, <1>2 DEF IInv, TypeOK, GenerateChallenge, gate, record, plan
<1>4. (ValidatedBefore /\ ChallengeSpentOnce)'
  BY <1>1 DEF IInv, ValidatedBefore, ChallengeSpentOnce
<1>5. UNCHANGED record
  BY DEF GenerateChallenge
<1> QED
  BY <1>3, <1>4, <1>5, LedgerKept DEF IInv

\* A challenge is validated: it is the pending one, and newer than all that were.
LEMMA ValidateKeeps ==
    ASSUME IInv, NEW c \in 1..issued, Validate(c)
    PROVE  IInv'
<1>1. /\ pendingChallenge = c /\ pendingChallenge' = None /\ issued' = issued
      /\ validated' = Append(validated, c) /\ c # None
  BY NoneAssumption DEF IInv, TypeOK, Validate
<1>2. /\ validated \in Seq(1..issued) /\ issued \in Nat
  BY DEF IInv, TypeOK
<1>3. /\ validated' \in Seq(1..issued) /\ Len(validated') = Len(validated) + 1
      /\ Len(validated) \in Nat /\ DOMAIN validated' = 1..Len(validated) + 1
      /\ \A i \in 1..Len(validated) : validated'[i] = validated[i]
      /\ validated'[Len(validated) + 1] = c
  BY <1>1, <1>2
<1>4. TypeOK'
  BY <1>1, <1>3 DEF IInv, TypeOK, Validate, gate, record, plan
<1>5. ValidatedBefore'
  <2>1. \A i \in DOMAIN validated' : validated'[i] \in 1..issued
    <3>1. \A i \in 1..Len(validated) : validated[i] \in 1..issued
      BY <1>2
    <3> QED
      BY <1>1, <1>3, <3>1
  <2>2. ~(pendingChallenge' # None)
    BY <1>1
  <2> QED
    BY <1>1, <2>1, <2>2 DEF ValidatedBefore
<1>6. ChallengeSpentOnce'
  <2>1. \A i \in 1..Len(validated) : validated[i] < c
    BY <1>1, <1>2 DEF IInv, ValidatedBefore
  <2>2. \A i, j \in 1..Len(validated) : i < j => validated[i] < validated[j]
    BY <1>2 DEF IInv, ChallengeSpentOnce
  <2> QED
    BY <1>3, <2>1, <2>2 DEF ChallengeSpentOnce
<1>7. UNCHANGED record
  BY DEF Validate
<1> QED
  BY <1>4, <1>5, <1>6, <1>7, LedgerKept DEF IInv

LEMMA NextIInv == IInv /\ [Next]_vars => IInv'
<1> SUFFICES ASSUME IInv, [Next]_vars PROVE IInv'
  OBVIOUS
<1>1. ASSUME UNCHANGED <<hardware, record>>, TypeOK' PROVE IInv'
  BY <1>1, HardwareKept, LedgerKept DEF IInv
<1>2. CASE SetOperator
  <2>1. TypeOK'
    BY <1>2 DEF IInv, TypeOK, SetOperator, hardware, record, plan
  <2> QED
    BY <1>1, <1>2, <2>1 DEF SetOperator
<1>3. CASE SetExecutionMode
  <2>1. TypeOK'
    BY <1>3 DEF IInv, TypeOK, SetExecutionMode, hardware, record, plan
  <2> QED
    BY <1>1, <1>3, <2>1 DEF SetExecutionMode
<1>4. ASSUME NEW a \in Action, SetApproval(a) PROVE IInv'
  <2>1. TypeOK'
    BY <1>4 DEF IInv, TypeOK, SetApproval, hardware, record, plan
  <2> QED
    BY <1>1, <1>4, <2>1 DEF SetApproval
<1>5. ASSUME NEW a \in Action, Plan(a) PROVE IInv'
  <2>1. answers' \in 0..MaxAnswers
    BY <1>5, BoundAssumption DEF IInv, TypeOK, Plan
  <2>2. TypeOK'
    BY <1>5, <2>1 DEF IInv, TypeOK, Plan, gate, hardware, record
  <2> QED
    BY <1>1, <1>5, <2>2 DEF Plan
<1>6. ASSUME NEW a \in Action, NEW s \in SUBSET Scenario \ {{}}, DryRun(a, s) PROVE IInv'
  <2>1. answers' \in 0..MaxAnswers
    BY <1>6, BoundAssumption DEF IInv, TypeOK, DryRun
  <2>2. TypeOK'
    BY <1>6, <2>1 DEF IInv, TypeOK, DryRun, gate, hardware, record
  <2> QED
    BY <1>1, <1>6, <2>2 DEF DryRun
<1>7. CASE RegisterHardware
  <2>1. TypeOK'
    BY <1>7 DEF IInv, TypeOK, RegisterHardware, gate, record, plan
  <2>2. (ValidatedBefore /\ ChallengeSpentOnce)'
    BY <1>7 DEF IInv, ValidatedBefore, ChallengeSpentOnce, RegisterHardware
  <2> QED
    BY <1>7, <2>1, <2>2, LedgerKept DEF IInv, RegisterHardware
<1>8. CASE VerifyKey
  BY <1>8, GenerateKeeps, ValidateKeeps DEF VerifyKey
<1>9. CASE UNCHANGED vars
  <2>1. TypeOK'
    BY <1>9 DEF IInv, TypeOK, vars, gate, hardware, record, plan
  <2> QED
    BY <1>1, <1>9, <2>1 DEF vars
<1> QED
  BY <1>2, <1>3, <1>4, <1>5, <1>6, <1>7, <1>8, <1>9, SimulateKeeps DEF Next

\* No other step touches the answer, and the registry never changes.
LEMMA AnswersKept == TypeOK /\ AnswersAgree /\ [Next]_vars => AnswersAgree'
<1> SUFFICES ASSUME TypeOK, AnswersAgree, [Next]_vars PROVE AnswersAgree'
  OBVIOUS
<1>1. agents \in Registries
  BY DEF TypeOK
<1>2. ASSUME UNCHANGED answer PROVE AnswersAgree'
  BY <1>2 DEF AnswersAgree
<1>3. ASSUME NEW a \in Action, Plan(a) PROVE AnswersAgree'
  BY <1>1, <1>3, PlansFit DEF AnswersAgree
<1>4. ASSUME NEW a \in Action, NEW s \in SUBSET Scenario, DryRun(a, s) PROVE AnswersAgree'
  BY <1>1, <1>4, RunsFit DEF AnswersAgree
<1>5. CASE SetOperator \/ SetExecutionMode \/ RegisterHardware
  BY <1>2, <1>5 DEF SetOperator, SetExecutionMode, RegisterHardware, plan
<1>6. CASE VerifyKey
  BY <1>2, <1>6 DEF VerifyKey, GenerateChallenge, Validate, plan
<1>7. ASSUME NEW a \in Action,
             \/ SetApproval(a)
             \/ \E d \in Destination, v \in BOOLEAN : Simulate(a, d, v)
      PROVE  AnswersAgree'
  BY <1>2, <1>7 DEF SetApproval, Simulate, plan
<1>8. CASE UNCHANGED vars
  BY <1>2, <1>8 DEF vars, plan
<1> QED
  BY <1>3, <1>4, <1>5, <1>6, <1>7, <1>8 DEF Next

LEMMA Invariance == Spec => []IInv
<1> QED
  BY InitIInv, NextIInv, PTL DEF Spec

-----------------------------------------------------------------------------
\* The gate's stores stay well formed, for every bound.
THEOREM TypeCorrect == Spec => []TypeOK
<1>1. IInv => TypeOK
  BY DEF IInv
<1> QED
  BY <1>1, Invariance, PTL

\* Whatever was cut, the ledger holds the latest attempts, all of them and in order.
THEOREM LedgerKeepsLatest == Spec => []LedgerIsTail
<1>1. IInv => LedgerIsTail
  BY DEF IInv
<1> QED
  BY <1>1, Invariance, PTL

\* No challenge of the hardware key counts twice, nor one that was replaced.
THEOREM SpentOnce == Spec => []ChallengeSpentOnce
<1>1. IInv => ChallengeSpentOnce
  BY DEF IInv
<1> QED
  BY <1>1, Invariance, PTL

\* What the preview would allow, the simulation allows where no key is needed.
THEOREM PreviewHonoured == Spec => []PreviewIsHonoured
<1>1. PreviewIsHonoured
  BY DEF PreviewIsHonoured, WouldAllow, SimulationAllows, Requirements, HardwareValidFor,
         Destination
<1> QED
  BY <1>1, PTL

\* Chain, risk, forecast and dry run never contradict each other, for every registry of
\* agents: those online come first, and confidence needs a primary agent that is ready.
THEOREM AnswersAlwaysAgree == Spec => []AnswersAgree
<1>1. Init => AnswersAgree
  BY DEF Init, AnswersAgree
<1>2. IInv /\ AnswersAgree /\ [Next]_vars => AnswersAgree'
  BY AnswersKept DEF IInv
<1> QED
  BY <1>1, <1>2, Invariance, PTL DEF Spec
=============================================================================
