--------------------------- MODULE FrontEndProofs ----------------------------
(***************************************************************************)
(* Proofs about the two front ends.                                        *)
(*                                                                         *)
(* About OnboardingWizard, for every number of companies, presses, kits    *)
(* and ticks, and every life of a kit.  The tenants are counted together   *)
(* with the requests that may still create one.  The countdown is compared *)
(* with the clock: what is left on the page never runs out before the kit  *)
(* that came with the fingerprint.                                         *)
(*                                                                         *)
(* About LiveViews, for every number of effects, entries, commands, agents *)
(* and messages, and whatever the fairness.  The views share no variable,  *)
(* so each has an invariant of its own: FeedInv follows what a socket, its *)
(* timer and its interval of made-up data have to do with each other,      *)
(* FrameInv where the reader is, TermInv the order of a log that loses its *)
(* oldest entries and is loaded again, ForgeInv what polls and messages    *)
(* under way say of a genesis, and FormInv the form's two verdicts.        *)
(***************************************************************************)
EXTENDS OnboardingWizard, LiveViews, FiniteSetTheorems, TLAPS

-----------------------------------------------------------------------------
(* The wizard *)

IsASeq(s) == \E S : s \in Seq(S)

IsRun(h) == \E S : h \in [company : S, mounted : S, tenant : S, kit : S, phase : S,
                          fingerprint : S]

IsReview(r) == \E S : r \in [busy : S, success : S, tenant : S, fingerprint : S,
                             left : S, expired : S, downloads : S]

\* The runs of the handler that may still create a tenant, and those that have it created
\* or may, and have not told the browser.
Calls(h) == {i \in DOMAIN h : h[i].phase = "tenant"}
Flying(h) == {i \in DOMAIN h : h[i].phase \in {"tenant", "created"}}

Shaped ==
    /\ bypass \in BOOLEAN
    /\ excuses \in Nat /\ now \in Nat
    /\ IsASeq(handler) /\ IsASeq(tenants) /\ IsASeq(kits)
    /\ \A i \in DOMAIN handler : IsRun(handler[i])
    /\ IsReview(review) /\ IsASeq(review.downloads)
    /\ \A k \in DOMAIN kits : kits[k].at \in 0..now

\* The tenants there are, and those that may still come, are the first and the excused; the
\* first is not spent as long as the browser knows none and has asked for none.
Accounted ==
    /\ Len(tenants) + Cardinality(Calls(handler)) <= 1 + excuses
    /\ lastTenantId = None /\ Flying(handler) = {} => Len(tenants) <= excuses

\* What the page knows the storage knows; a build that bypasses the key knows nothing.
Remembered ==
    /\ review.tenant # None => lastTenantId # None
    /\ \A i \in DOMAIN handler : handler[i].phase = "created" => handler[i].tenant # None
    /\ bypass => /\ lastTenantId = None
                 /\ \A i \in DOMAIN handler : handler[i].phase \in {"pretend", "meta", "over"}

\* A run that is past its kit has one, unless it pretends.
Delivered ==
    \A i \in DOMAIN handler :
        /\ handler[i].phase = "pretend" => bypass
        /\ handler[i].phase = "made" => handler[i].kit \in DOMAIN kits
        /\ handler[i].phase = "meta" => bypass \/ handler[i].kit \in DOMAIN kits

\* The kit that came with the fingerprint does not end after what is left on the page.
CountsDown ==
    /\ review.left \in 0..Ttl
    /\ review.expired => review.left = 0
    /\ ~bypass /\ review.success => review.downloads # <<>>
    /\ review.downloads # <<>> =>
          /\ Head(review.downloads) \in DOMAIN kits
          /\ kits[Head(review.downloads)].at + Ttl <= now + review.left

IInv == Shaped /\ Accounted /\ Remembered /\ Delivered /\ CountsDown

-----------------------------------------------------------------------------
(* Sequences and records of which only the shape is known. *)

LEMMA Sequence ==
    ASSUME NEW s, IsASeq(s)
    PROVE  Len(s) \in Nat /\ DOMAIN s = 1..Len(s)
BY DEF IsASeq

LEMMA NoElements == IsASeq(<<>>)
<1>1. <<>> \in Seq({})
  OBVIOUS
<1> QED
  BY <1>1 DEF IsASeq

LEMMA OneElement ==
    ASSUME NEW e
    PROVE  IsASeq(<<e>>) /\ <<e>> # <<>> /\ Head(<<e>>) = e
<1>1. <<e>> \in Seq({e})
  OBVIOUS
<1>2. <<e>> # <<>>
  OBVIOUS
<1>3. Head(<<e>>) = e
  OBVIOUS
<1> QED
  BY <1>1, <1>2, <1>3 DEF IsASeq

LEMMA Replaced ==
    ASSUME NEW s, IsASeq(s), NEW i \in DOMAIN s, NEW e
    PROVE  LET t == [s EXCEPT ![i] = e]
           IN  /\ IsASeq(t) /\ DOMAIN t = DOMAIN s /\ t[i] = e
               /\ \A j \in DOMAIN s : j # i => t[j] = s[j]
<1>1. PICK S : s \in Seq(S)
  BY DEF IsASeq
<1>2. s \in Seq(S \cup {e})
  BY <1>1
<1>3. [s EXCEPT ![i] = e] \in Seq(S \cup {e})
  BY <1>2
<1> QED
  BY <1>2, <1>3 DEF IsASeq

LEMMA Appended ==
    ASSUME NEW s, IsASeq(s), NEW e
    PROVE  LET t == Append(s, e)
           IN  /\ IsASeq(t) /\ Len(t) = Len(s) + 1 /\ DOMAIN t = DOMAIN s \cup {Len(t)}
               /\ Len(t) \notin DOMAIN s /\ Len(t) \in Nat /\ t[Len(t)] = e
               /\ \A j \in DOMAIN s : t[j] = s[j]
               /\ t # <<>>
               /\ s # <<>> => Head(t) = Head(s)
<1>1. PICK S : s \in Seq(S)
  BY DEF IsASeq
<1>2. s \in Seq(S \cup {e})
  BY <1>1
<1>3. Append(s, e) \in Seq(S \cup {e})
  BY <1>2
<1>4. /\ Len(Append(s, e)) = Len(s) + 1 /\ Len(s) \in Nat
      /\ DOMAIN s = 1..Len(s) /\ DOMAIN Append(s, e) = 1..Len(s) + 1
      /\ Append(s, e)[Len(s) + 1] = e
      /\ \A j \in 1..Len(s) : Append(s, e)[j] = s[j]
  BY <1>2
<1>5. 1..Len(s) + 1 = 1..Len(s) \cup {Len(s) + 1} /\ Len(s) + 1 \notin 1..Len(s)
  BY <1>4
<1>6. Append(s, e) # <<>>
  BY <1>4
<1>7. s # <<>> => Head(Append(s, e)) = Head(s)
  <2> SUFFICES ASSUME s # <<>> PROVE Head(Append(s, e)) = Head(s)
    OBVIOUS
  <2>1. 1 \in 1..Len(s)
    BY <1>2, <1>4
  <2> QED
    BY <1>2, <1>3, <1>4, <2>1
<1> QED
  BY <1>3, <1>4, <1>5, <1>6, <1>7 DEF IsASeq

LEMMA Mapped ==
    ASSUME NEW s, IsASeq(s), NEW t, t = [i \in DOMAIN s |-> t[i]]
    PROVE  IsASeq(t) /\ DOMAIN t = DOMAIN s
<1>1. t = [i \in 1..Len(s) |-> t[i]] /\ Len(s) \in Nat
  BY Sequence
<1> DEFINE S == {t[i] : i \in 1..Len(s)}
<1>2. t \in [1..Len(s) -> S]
  BY <1>1
<1>3. t \in Seq(S)
  BY <1>1, <1>2
<1> QED
  BY <1>3 DEF IsASeq

-----------------------------------------------------------------------------
(* What a step of one run does to the counts. *)

LEMMA CallsFinite ==
    ASSUME NEW h, IsASeq(h)
    PROVE  /\ IsFiniteSet(Calls(h)) /\ Cardinality(Calls(h)) \in Nat
           /\ IsFiniteSet(Flying(h)) /\ Cardinality(Flying(h)) \in Nat
           /\ Calls(h) \subseteq Flying(h)
<1>1. IsFiniteSet(DOMAIN h)
  BY Sequence, FS_Interval
<1>2. Calls(h) \subseteq DOMAIN h /\ Flying(h) \subseteq DOMAIN h /\ Calls(h) \subseteq Flying(h)
  BY DEF Calls, Flying
<1>3. IsFiniteSet(Calls(h)) /\ IsFiniteSet(Flying(h))
  BY <1>1, <1>2, FS_Subset
<1> QED
  BY <1>2, <1>3, FS_CardinalityType

LEMMA NoneFlying ==
    ASSUME NEW h, IsASeq(h), Flying(h) = {}
    PROVE  Cardinality(Calls(h)) = 0
<1>1. Calls(h) = {}
  BY DEF Calls, Flying
<1> QED
  BY <1>1, FS_EmptySet

LEMMA SomeFlying ==
    ASSUME NEW h, IsASeq(h), Flying(h) # {}
    PROVE  Cardinality(Flying(h)) >= 1
BY CallsFinite, FS_EmptySet

LEMMA CallEnds ==
    ASSUME NEW h, IsASeq(h), NEW t, DOMAIN t = DOMAIN h, NEW i \in DOMAIN h,
           \A j \in DOMAIN h : j # i => t[j] = h[j],
           h[i].phase = "tenant", t[i].phase # "tenant"
    PROVE  Cardinality(Calls(t)) = Cardinality(Calls(h)) - 1 /\ Cardinality(Calls(h)) >= 1
<1>1. Calls(t) = Calls(h) \ {i} /\ i \in Calls(h)
  BY DEF Calls
<1>2. Cardinality(Calls(t)) = Cardinality(Calls(h)) - 1
  BY <1>1, CallsFinite, FS_RemoveElement
<1>3. Cardinality(Calls(h)) # 0
  BY <1>1, CallsFinite, FS_EmptySet
<1> QED
  BY <1>2, <1>3, CallsFinite

LEMMA CallStays ==
    ASSUME NEW h, IsASeq(h), NEW t, DOMAIN t = DOMAIN h,
           \A j \in DOMAIN h : t[j].phase = "tenant" <=> h[j].phase = "tenant"
    PROVE  Calls(t) = Calls(h)
BY DEF Calls

LEMMA FlightStays ==
    ASSUME NEW h, IsASeq(h), NEW t, DOMAIN t = DOMAIN h,
           \A j \in DOMAIN h : t[j].phase \in {"tenant", "created"}
                                  <=> h[j].phase \in {"tenant", "created"}
    PROVE  Flying(t) = Flying(h)
BY DEF Flying

LEMMA CallBegins ==
    ASSUME NEW h, IsASeq(h), NEW r, r.phase = "tenant"
    PROVE  /\ Cardinality(Calls(Append(h, r))) = Cardinality(Calls(h)) + 1
           /\ Flying(Append(h, r)) # {}
<1> DEFINE t == Append(h, r)
<1>1. /\ DOMAIN t = DOMAIN h \cup {Len(t)} /\ Len(t) \notin DOMAIN h /\ t[Len(t)] = r
      /\ \A j \in DOMAIN h : t[j] = h[j]
  BY Appended
<1> HIDE DEF t
<1>2. Calls(t) = Calls(h) \cup {Len(t)} /\ Len(t) \notin Calls(h) /\ Len(t) \in Flying(t)
  BY <1>1 DEF Calls, Flying
<1>3. Cardinality(Calls(t)) = Cardinality(Calls(h)) + 1
  BY <1>2, CallsFinite, FS_AddElement
<1> QED
  BY <1>2, <1>3 DEF t

LEMMA NoCallBegins ==
    ASSUME NEW h, IsASeq(h), NEW r, r.phase \notin {"tenant", "created"}
    PROVE  Calls(Append(h, r)) = Calls(h) /\ Flying(Append(h, r)) = Flying(h)
<1> DEFINE t == Append(h, r)
<1>1. /\ DOMAIN t = DOMAIN h \cup {Len(t)} /\ Len(t) \notin DOMAIN h /\ t[Len(t)] = r
      /\ \A j \in DOMAIN h : t[j] = h[j]
  BY Appended
<1> HIDE DEF t
<1>2. Calls(t) = Calls(h) /\ Flying(t) = Flying(h)
  BY <1>1 DEF Calls, Flying
<1> QED
  BY <1>2 DEF t
-----------------------------------------------------------------------------
(* Updates of the two kinds of records. *)

LEMMA RunMoves ==
    ASSUME NEW h, IsRun(h), NEW p
    PROVE  LET g == [h EXCEPT !.phase = p]
           IN  IsRun(g) /\ g.phase = p /\ g.kit = h.kit /\ g.tenant = h.tenant
<1>1. PICK S : h \in [company : S, mounted : S, tenant : S, kit : S, phase : S, fingerprint : S]
  BY DEF IsRun
<1> DEFINE T == S \cup {p}
<1>2. h \in [company : T, mounted : T, tenant : T, kit : T, phase : T, fingerprint : T]
  BY <1>1
<1>3. [h EXCEPT !.phase = p] \in
          [company : T, mounted : T, tenant : T, kit : T, phase : T, fingerprint : T]
  BY <1>2
<1> QED
  BY <1>2, <1>3 DEF IsRun

LEMMA RunGetsTenant ==
    ASSUME NEW h, IsRun(h), NEW t
    PROVE  LET g == [h EXCEPT !.phase = "created", !.tenant = t]
           IN  IsRun(g) /\ g.phase = "created" /\ g.kit = h.kit /\ g.tenant = t
<1>1. PICK S : h \in [company : S, mounted : S, tenant : S, kit : S, phase : S, fingerprint : S]
  BY DEF IsRun
<1> DEFINE T == S \cup {"created", t}
<1>2. h \in [company : T, mounted : T, tenant : T, kit : T, phase : T, fingerprint : T]
  BY <1>1
<1>3. [h EXCEPT !.phase = "created", !.tenant = t] \in
          [company : T, mounted : T, tenant : T, kit : T, phase : T, fingerprint : T]
  BY <1>2
<1> QED
  BY <1>2, <1>3 DEF IsRun

LEMMA RunGetsKit ==
    ASSUME NEW h, IsRun(h), NEW k
    PROVE  LET g == [h EXCEPT !.phase = "made", !.kit = k]
           IN  IsRun(g) /\ g.phase = "made" /\ g.kit = k /\ g.tenant = h.tenant
<1>1. PICK S : h \in [company : S, mounted : S, tenant : S, kit : S, phase : S, fingerprint : S]
  BY DEF IsRun
<1> DEFINE T == S \cup {"made", k}
<1>2. h \in [company : T, mounted : T, tenant : T, kit : T, phase : T, fingerprint : T]
  BY <1>1
<1>3. [h EXCEPT !.phase = "made", !.kit = k] \in
          [company : T, mounted : T, tenant : T, kit : T, phase : T, fingerprint : T]
  BY <1>2
<1> QED
  BY <1>2, <1>3 DEF IsRun

LEMMA RunGetsFingerprint ==
    ASSUME NEW h, IsRun(h), NEW f
    PROVE  LET g == [h EXCEPT !.phase = "meta", !.fingerprint = f]
           IN  IsRun(g) /\ g.phase = "meta" /\ g.kit = h.kit /\ g.tenant = h.tenant
<1>1. PICK S : h \in [company : S, mounted : S, tenant : S, kit : S, phase : S, fingerprint : S]
  BY DEF IsRun
<1> DEFINE T == S \cup {"meta", f}
<1>2. h \in [company : T, mounted : T, tenant : T, kit : T, phase : T, fingerprint : T]
  BY <1>1
<1>3. [h EXCEPT !.phase = "meta", !.fingerprint = f] \in
          [company : T, mounted : T, tenant : T, kit : T, phase : T, fingerprint : T]
  BY <1>2
<1> QED
  BY <1>2, <1>3 DEF IsRun

LEMMA RunUnmounted ==
    ASSUME NEW h, IsRun(h)
    PROVE  LET g == [h EXCEPT !.mounted = FALSE]
           IN  IsRun(g) /\ g.phase = h.phase /\ g.kit = h.kit /\ g.tenant = h.tenant
<1>1. PICK S : h \in [company : S, mounted : S, tenant : S, kit : S, phase : S, fingerprint : S]
  BY DEF IsRun
<1> DEFINE T == S \cup {FALSE}
<1>2. h \in [company : T, mounted : T, tenant : T, kit : T, phase : T, fingerprint : T]
  BY <1>1
<1>3. [h EXCEPT !.mounted = FALSE] \in
          [company : T, mounted : T, tenant : T, kit : T, phase : T, fingerprint : T]
  BY <1>2
<1> QED
  BY <1>2, <1>3 DEF IsRun

LEMMA RunDropped ==
    ASSUME NEW h, IsRun(h)
    PROVE  LET g == [h EXCEPT !.phase = "over", !.mounted = FALSE]
           IN  IsRun(g) /\ g.phase = "over"
<1>1. PICK S : h \in [company : S, mounted : S, tenant : S, kit : S, phase : S, fingerprint : S]
  BY DEF IsRun
<1> DEFINE T == S \cup {"over", FALSE}
<1>2. h \in [company : T, mounted : T, tenant : T, kit : T, phase : T, fingerprint : T]
  BY <1>1
<1>3. [h EXCEPT !.phase = "over", !.mounted = FALSE] \in
          [company : T, mounted : T, tenant : T, kit : T, phase : T, fingerprint : T]
  BY <1>2
<1> QED
  BY <1>2, <1>3 DEF IsRun

\* What the page says of the kit: everything but the spinner and the tenant.
SameKit(r, q) ==
    /\ q.success = r.success /\ q.left = r.left /\ q.expired = r.expired
    /\ q.downloads = r.downloads

LEMMA ReviewSpins ==
    ASSUME NEW r, IsReview(r), NEW b
    PROVE  LET q == [r EXCEPT !.busy = b]
           IN  IsReview(q) /\ SameKit(r, q) /\ q.tenant = r.tenant
<1>1. PICK S : r \in [busy : S, success : S, tenant : S, fingerprint : S, left : S, expired : S,
                      downloads : S]
  BY DEF IsReview
<1> DEFINE T == S \cup {b}
<1>2. r \in [busy : T, success : T, tenant : T, fingerprint : T, left : T, expired : T,
              downloads : T]
  BY <1>1
<1>3. [r EXCEPT !.busy = b] \in
          [busy : T, success : T, tenant : T, fingerprint : T, left : T, expired : T,
           downloads : T]
  BY <1>2
<1> QED
  BY <1>2, <1>3 DEF IsReview, SameKit

LEMMA ReviewLearns ==
    ASSUME NEW r, IsReview(r), NEW t
    PROVE  LET q == [r EXCEPT !.tenant = t]
           IN  IsReview(q) /\ SameKit(r, q) /\ q.tenant = t
<1>1. PICK S : r \in [busy : S, success : S, tenant : S, fingerprint : S, left : S, expired : S,
                      downloads : S]
  BY DEF IsReview
<1> DEFINE T == S \cup {t}
<1>2. r \in [busy : T, success : T, tenant : T, fingerprint : T, left : T, expired : T,
              downloads : T]
  BY <1>1
<1>3. [r EXCEPT !.tenant = t] \in
          [busy : T, success : T, tenant : T, fingerprint : T, left : T, expired : T,
           downloads : T]
  BY <1>2
<1> QED
  BY <1>2, <1>3 DEF IsReview, SameKit

LEMMA ReviewDownloads ==
    ASSUME NEW r, IsReview(r), NEW d
    PROVE  LET q == [r EXCEPT !.downloads = d]
           IN  /\ IsReview(q) /\ q.tenant = r.tenant /\ q.left = r.left
               /\ q.expired = r.expired /\ q.success = r.success /\ q.downloads = d
<1>1. PICK S : r \in [busy : S, success : S, tenant : S, fingerprint : S, left : S, expired : S,
                      downloads : S]
  BY DEF IsReview
<1> DEFINE T == S \cup {d}
<1>2. r \in [busy : T, success : T, tenant : T, fingerprint : T, left : T, expired : T,
              downloads : T]
  BY <1>1
<1>3. [r EXCEPT !.downloads = d] \in
          [busy : T, success : T, tenant : T, fingerprint : T, left : T, expired : T,
           downloads : T]
  BY <1>2
<1> QED
  BY <1>2, <1>3 DEF IsReview

LEMMA ReviewTicks ==
    ASSUME NEW r, IsReview(r), NEW n
    PROVE  LET q == [r EXCEPT !.left = n, !.expired = FALSE]
           IN  /\ IsReview(q) /\ q.tenant = r.tenant /\ q.success = r.success
               /\ q.downloads = r.downloads /\ q.left = n /\ ~q.expired
<1>1. PICK S : r \in [busy : S, success : S, tenant : S, fingerprint : S, left : S, expired : S,
                      downloads : S]
  BY DEF IsReview
<1> DEFINE T == S \cup {n, FALSE}
<1>2. r \in [busy : T, success : T, tenant : T, fingerprint : T, left : T, expired : T,
              downloads : T]
  BY <1>1
<1>3. [r EXCEPT !.left = n, !.expired = FALSE] \in
          [busy : T, success : T, tenant : T, fingerprint : T, left : T, expired : T,
           downloads : T]
  BY <1>2
<1> QED
  BY <1>2, <1>3 DEF IsReview

LEMMA ReviewEnds ==
    ASSUME NEW r, IsReview(r)
    PROVE  LET q == [r EXCEPT !.left = 0, !.expired = TRUE]
           IN  /\ IsReview(q) /\ q.tenant = r.tenant /\ q.success = r.success
               /\ q.downloads = r.downloads /\ q.left = 0
<1>1. PICK S : r \in [busy : S, success : S, tenant : S, fingerprint : S, left : S, expired : S,
                      downloads : S]
  BY DEF IsReview
<1> DEFINE T == S \cup {0, TRUE}
<1>2. r \in [busy : T, success : T, tenant : T, fingerprint : T, left : T, expired : T,
              downloads : T]
  BY <1>1
<1>3. [r EXCEPT !.left = 0, !.expired = TRUE] \in
          [busy : T, success : T, tenant : T, fingerprint : T, left : T, expired : T,
           downloads : T]
  BY <1>2
<1> QED
  BY <1>2, <1>3 DEF IsReview

\* The countdown goes by one, and stops at nothing left.
LEMMA ReviewCounts ==
    ASSUME NEW r, IsReview(r), r.left \in 0..Ttl, r.expired => r.left = 0
    PROVE  LET q == Countdown(r)
           IN  /\ IsReview(q) /\ q.tenant = r.tenant /\ q.success = r.success
               /\ q.downloads = r.downloads
               /\ q.left \in 0..Ttl /\ q.left + 1 >= r.left
               /\ q.expired => q.left = 0
<1>1. CASE r.success /\ ~r.expired /\ r.left <= 1
  <2> DEFINE q == [r EXCEPT !.left = 0, !.expired = TRUE]
  <2>1. IsReview(q) /\ q.tenant = r.tenant /\ q.success = r.success
        /\ q.downloads = r.downloads /\ q.left = 0
    BY ReviewEnds, Zenon
  <2>2. Countdown(r) = q
    <3>1. (r.left <= 1) = TRUE /\ (IF r.left <= 1 THEN 0 ELSE r.left - 1) = 0
      BY <1>1
    <3> QED
      BY <1>1, <3>1, Zenon DEF Countdown
  <2>3. 0 \in 0..Ttl /\ 0 + 1 >= r.left
    BY <1>1, NumbersAssumption
  <2> HIDE DEF q
  <2> QED
    BY <2>1, <2>2, <2>3, Zenon
<1>2. CASE r.success /\ ~r.expired /\ ~(r.left <= 1)
  <2> DEFINE n == r.left - 1
             q == [r EXCEPT !.left = n, !.expired = FALSE]
  <2>1. IsReview(q) /\ q.tenant = r.tenant /\ q.success = r.success
        /\ q.downloads = r.downloads /\ q.left = n /\ ~q.expired
    <3> HIDE DEF n
    <3> QED
      BY ReviewTicks, Zenon
  <2>2. Countdown(r) = q
    <3>1. (r.left <= 1) = FALSE /\ (IF r.left <= 1 THEN 0 ELSE r.left - 1) = n
      BY <1>2
    <3> HIDE DEF n
    <3> QED
      BY <1>2, <3>1, Zenon DEF Countdown
  <2>3. n \in 0..Ttl /\ n + 1 >= r.left
    BY <1>2, NumbersAssumption
  <2> HIDE DEF q, n
  <2> QED
    BY <2>1, <2>2, <2>3, Zenon
<1>3. CASE ~(r.success /\ ~r.expired)
  <2>1. Countdown(r) = r
    BY <1>3 DEF Countdown
  <2> QED
    BY <2>1, NumbersAssumption
<1> QED
  BY <1>1, <1>2, <1>3

-----------------------------------------------------------------------------
(* The steps of the tab. *)

LEMMA Still ==
    ASSUME IInv,
           UNCHANGED <<bypass, lastTenantId, review, handler, tenants, kits, excuses, now>>
    PROVE  IInv'
BY DEF IInv, Shaped, Accounted, Remembered, Delivered, CountsDown, Calls, Flying

LEMMA NothingShown ==
    /\ IsReview(NoReview) /\ IsASeq(NoReview.downloads)
    /\ NoReview.tenant = None /\ NoReview.left = Ttl /\ ~NoReview.expired
    /\ ~NoReview.success /\ NoReview.downloads = <<>>
<1> DEFINE T == {FALSE, None, Ttl, <<>>}
<1>1. NoReview \in [busy : T, success : T, tenant : T, fingerprint : T, left : T,
                    expired : T, downloads : T]
  BY DEF NoReview
<1> QED
  BY <1>1, NoElements DEF NoReview, IsReview

LEMMA InitIInv == Init => IInv
<1> SUFFICES ASSUME Init PROVE IInv
  OBVIOUS
<1>1. handler = <<>> /\ tenants = <<>> /\ kits = <<>> /\ DOMAIN <<>> = {} /\ Len(<<>>) = 0
  BY DEF Init
<1>2. Calls(handler) = {} /\ Flying(handler) = {}
  BY <1>1 DEF Calls, Flying
<1>3. Shaped
  BY <1>1, NoElements, NothingShown DEF Init, Shaped
<1>4. Accounted
  BY <1>1, <1>2, FS_EmptySet DEF Init, Accounted
<1>5. Remembered
  BY <1>1, NothingShown DEF Init, Remembered
<1>6. Delivered
  BY <1>1 DEF Delivered
<1>7. CountsDown
  BY NothingShown, NumbersAssumption DEF Init, CountsDown
<1> QED
  BY <1>3, <1>4, <1>5, <1>6, <1>7 DEF IInv

LEMMA MountKeeps ==
    ASSUME IInv, UNCHANGED <<bypass, lastTenantId, tenants, kits, excuses, now>>,
           review' = NoReview,
           handler' = [i \in DOMAIN handler |-> [handler[i] EXCEPT !.mounted = FALSE]]
    PROVE  IInv'
<1>1. IsASeq(handler') /\ DOMAIN handler' = DOMAIN handler
  <2>1. handler' = [i \in DOMAIN handler |-> handler'[i]]
    OBVIOUS
  <2>2. IsASeq(handler)
    BY DEF IInv, Shaped
  <2> QED
    BY <2>1, <2>2, Mapped, Zenon
<1>2. \A i \in DOMAIN handler :
         /\ IsRun(handler'[i]) /\ handler'[i].phase = handler[i].phase
         /\ handler'[i].kit = handler[i].kit /\ handler'[i].tenant = handler[i].tenant
  <2> TAKE i \in DOMAIN handler
  <2>1. IsRun(handler[i]) /\ handler'[i] = [handler[i] EXCEPT !.mounted = FALSE]
    BY DEF IInv, Shaped
  <2> QED
    BY <2>1, RunUnmounted, Zenon
<1>3. Calls(handler') = Calls(handler) /\ Flying(handler') = Flying(handler)
  BY <1>1, <1>2 DEF Calls, Flying
<1>4. Shaped'
  BY <1>1, <1>2, NothingShown DEF IInv, Shaped
<1>5. Accounted'
  BY <1>3 DEF IInv, Accounted
<1>6. Remembered'
  BY <1>1, <1>2, NothingShown DEF IInv, Remembered
<1>7. Delivered'
  BY <1>1, <1>2 DEF IInv, Delivered
<1>8. CountsDown'
  BY NothingShown, NumbersAssumption DEF CountsDown
<1> QED
  BY <1>4, <1>5, <1>6, <1>7, <1>8 DEF IInv

LEMMA ReloadKeeps == ASSUME IInv, Reload PROVE IInv'
<1>0. UNCHANGED <<bypass, lastTenantId, tenants, kits, now>> /\ review' = NoReview
  BY DEF Reload, storage, server
<1>a. excuses' = excuses + Cardinality(Flying(handler))
  BY DEF Reload, InFlight, Flying
<1>1. handler' = [i \in DOMAIN handler |-> [handler[i] EXCEPT !.phase = "over",
                                                        !.mounted = FALSE]]
  BY DEF Reload
<1>2. IsASeq(handler)
  BY DEF IInv, Shaped
<1>3. IsASeq(handler') /\ DOMAIN handler' = DOMAIN handler
  <2>1. handler' = [i \in DOMAIN handler |-> handler'[i]]
    BY <1>1
  <2> QED
    BY <2>1, <1>2, Mapped, Zenon
<1>4. \A i \in DOMAIN handler : IsRun(handler'[i]) /\ handler'[i].phase = "over"
  <2> TAKE i \in DOMAIN handler
  <2>1. IsRun(handler[i]) /\ handler'[i] = [handler[i] EXCEPT !.phase = "over",
                                                              !.mounted = FALSE]
    BY <1>1 DEF IInv, Shaped
  <2> QED
    BY <2>1, RunDropped, Zenon
<1>5. Flying(handler') = {} /\ Cardinality(Calls(handler')) = 0
  BY <1>3, <1>4, NoneFlying DEF Flying
<1>6. Shaped'
  <2>1. excuses' \in Nat
    BY <1>2, <1>a, CallsFinite DEF IInv, Shaped
  <2> QED
    BY <2>1, <1>0, <1>3, <1>4, NothingShown DEF IInv, Shaped
<1>7. Accounted'
  <2>1. Len(tenants) \in Nat /\ excuses \in Nat /\ Cardinality(Calls(handler)) \in Nat
        /\ Cardinality(Flying(handler)) \in Nat
    BY <1>2, Sequence, CallsFinite DEF IInv, Shaped
  <2>2. Len(tenants) + Cardinality(Calls(handler)) <= 1 + excuses
    BY DEF IInv, Accounted
  <2>3. lastTenantId = None => Len(tenants) <= excuses + Cardinality(Flying(handler))
    <3>1. CASE Flying(handler) = {}
      BY <2>1, <3>1 DEF IInv, Accounted
    <3>2. CASE Flying(handler) # {}
      BY <1>2, <2>1, <2>2, <3>2, SomeFlying
    <3> QED
      BY <3>1, <3>2
  <2> QED
    BY <1>0, <1>a, <1>5, <2>1, <2>2, <2>3 DEF Accounted
<1>8. Remembered'
  BY <1>0, <1>3, <1>4, NothingShown DEF IInv, Remembered
<1>9. Delivered'
  BY <1>3, <1>4 DEF Delivered
<1>10. CountsDown'
  BY <1>0, NothingShown, NumbersAssumption DEF CountsDown
<1> QED
  BY <1>6, <1>7, <1>8, <1>9, <1>10 DEF IInv

-----------------------------------------------------------------------------
(* The steps of a handler. *)

\* One run is replaced by another.
LEMMA RunStep ==
    ASSUME IInv, NEW i \in DOMAIN handler, NEW g, IsRun(g), handler' = [handler EXCEPT ![i] = g]
    PROVE  /\ IsASeq(handler) /\ IsASeq(handler') /\ DOMAIN handler' = DOMAIN handler
           /\ handler'[i] = g /\ IsRun(handler[i])
           /\ \A j \in DOMAIN handler : j # i => handler'[j] = handler[j]
           /\ \A j \in DOMAIN handler' : IsRun(handler'[j])
<1>1. IsASeq(handler) /\ \A j \in DOMAIN handler : IsRun(handler[j])
  BY DEF IInv, Shaped
<1>2. /\ IsASeq(handler') /\ DOMAIN handler' = DOMAIN handler /\ handler'[i] = g
      /\ \A j \in DOMAIN handler : j # i => handler'[j] = handler[j]
  BY <1>1, Replaced
<1> QED
  BY <1>1, <1>2

LEMMA Numbers ==
    ASSUME IInv
    PROVE  /\ Len(tenants) \in Nat /\ excuses \in Nat /\ now \in Nat
           /\ Cardinality(Calls(handler)) \in Nat
           /\ Len(tenants) + Cardinality(Calls(handler)) <= 1 + excuses
BY Sequence, CallsFinite DEF IInv, Shaped, Accounted

LEMMA TenantCreatedKeeps ==
    ASSUME IInv, NEW i \in DOMAIN handler, TenantCreated(i) PROVE IInv'
<1> DEFINE n == Len(tenants')
           g == [handler[i] EXCEPT !.phase = "created", !.tenant = n]
<1>1. /\ UNCHANGED <<bypass, lastTenantId, review, kits, excuses, now>>
      /\ handler[i].phase = "tenant" /\ tenants' = Append(tenants, handler[i].company)
      /\ handler' = [handler EXCEPT ![i] = g]
  BY DEF TenantCreated, storage
<1>2. IsASeq(tenants) /\ IsRun(handler[i])
  BY DEF IInv, Shaped
<1>3. IsASeq(tenants') /\ Len(tenants') = Len(tenants) + 1 /\ Len(tenants') \in Nat
  BY <1>1, <1>2, Appended
<1>4. IsRun(g) /\ g.phase = "created" /\ g.tenant = n
  <2> HIDE DEF n
  <2> QED
    BY <1>2, RunGetsTenant
<1> HIDE DEF g
<1>5. /\ IsASeq(handler) /\ IsASeq(handler') /\ DOMAIN handler' = DOMAIN handler
      /\ handler'[i] = g
      /\ \A j \in DOMAIN handler : j # i => handler'[j] = handler[j]
      /\ \A j \in DOMAIN handler' : IsRun(handler'[j])
  BY <1>1, <1>4, RunStep
<1>6. ~bypass
  BY <1>1 DEF IInv, Remembered
<1>7. Shaped'
  BY <1>1, <1>3, <1>5 DEF IInv, Shaped
<1>8. Accounted'
  <2>1. Cardinality(Calls(handler')) = Cardinality(Calls(handler)) - 1
    BY <1>1, <1>4, <1>5, CallEnds
  <2>2. Flying(handler') # {}
    BY <1>4, <1>5 DEF Flying
  <2>3. excuses' = excuses
    BY <1>1
  <2>4. Len(tenants') + Cardinality(Calls(handler')) <= 1 + excuses'
    BY <1>3, <2>1, <2>3, Numbers
  <2> QED
    BY <2>2, <2>4 DEF Accounted
<1>9. Remembered'
  BY <1>1, <1>3, <1>4, <1>5, <1>6, NoneAssumption DEF IInv, Remembered
<1>10. Delivered'
  BY <1>1, <1>4, <1>5 DEF IInv, Delivered
<1>11. CountsDown'
  BY <1>1 DEF IInv, CountsDown
<1> QED
  BY <1>7, <1>8, <1>9, <1>10, <1>11 DEF IInv

LEMMA TenantKnownKeeps ==
    ASSUME IInv, NEW i \in DOMAIN handler, TenantKnown(i) PROVE IInv'
<1> DEFINE g == [handler[i] EXCEPT !.phase = "kit"]
<1>1. /\ UNCHANGED <<bypass, tenants, kits, excuses, now>> /\ lastTenantId' = handler[i].tenant
      /\ handler[i].phase = "created" /\ handler' = [handler EXCEPT ![i] = g]
      /\ review' = review \/ review' = [review EXCEPT !.tenant = handler[i].tenant]
  BY DEF TenantKnown, server
<1>2. IsRun(handler[i]) /\ IsReview(review)
  BY DEF IInv, Shaped
<1>3. IsRun(g) /\ g.phase = "kit"
  BY <1>2, RunMoves
<1> HIDE DEF g
<1>4. /\ IsASeq(handler) /\ IsASeq(handler') /\ DOMAIN handler' = DOMAIN handler
      /\ handler'[i] = g
      /\ \A j \in DOMAIN handler : j # i => handler'[j] = handler[j]
      /\ \A j \in DOMAIN handler' : IsRun(handler'[j])
  BY <1>1, <1>3, RunStep
<1>5. ~bypass /\ lastTenantId' # None
  BY <1>1 DEF IInv, Remembered
<1>6. IsReview(review') /\ SameKit(review, review')
  <2>1. CASE review' = review
    BY <1>2, <2>1 DEF SameKit
  <2>2. CASE review' = [review EXCEPT !.tenant = handler[i].tenant]
    BY <1>2, <2>2, ReviewLearns
  <2> QED
    BY <1>1, <2>1, <2>2
<1>7. Shaped'
  BY <1>1, <1>4, <1>6 DEF IInv, Shaped, SameKit
<1>8. Accounted'
  <2>1. Calls(handler') = Calls(handler)
    BY <1>1, <1>3, <1>4 DEF Calls
  <2> QED
    BY <1>1, <1>5, <2>1 DEF IInv, Accounted
<1>9. Remembered'
  BY <1>1, <1>3, <1>4, <1>5 DEF IInv, Remembered
<1>10. Delivered'
  BY <1>1, <1>3, <1>4 DEF IInv, Delivered
<1>11. CountsDown'
  BY <1>1, <1>6 DEF IInv, CountsDown, SameKit
<1> QED
  BY <1>7, <1>8, <1>9, <1>10, <1>11 DEF IInv

\* The server makes another kit, and the old ones stay.
LEMMA KitAdded ==
    ASSUME IInv, NEW t, kits' = Append(kits, [tenant |-> t, at |-> now]), now' = now
    PROVE  /\ IsASeq(kits') /\ Len(kits') \in DOMAIN kits'
           /\ DOMAIN kits \subseteq DOMAIN kits'
           /\ \A k \in DOMAIN kits : kits'[k] = kits[k]
           /\ \A k \in DOMAIN kits' : kits'[k].at \in 0..now'
<1>1. IsASeq(kits) /\ now \in Nat /\ \A k \in DOMAIN kits : kits[k].at \in 0..now
  BY DEF IInv, Shaped
<1>2. /\ IsASeq(kits') /\ DOMAIN kits' = DOMAIN kits \cup {Len(kits')}
      /\ kits'[Len(kits')] = [tenant |-> t, at |-> now]
      /\ \A k \in DOMAIN kits : kits'[k] = kits[k]
  BY <1>1, Appended
<1>3. kits'[Len(kits')].at \in 0..now'
  BY <1>1, <1>2
<1> QED
  BY <1>1, <1>2, <1>3

LEMMA KitMadeKeeps ==
    ASSUME IInv, NEW i \in DOMAIN handler, KitMade(i) PROVE IInv'
<1> DEFINE n == Len(kits')
           g == [handler[i] EXCEPT !.phase = "made", !.kit = n]
<1>1. /\ UNCHANGED <<bypass, lastTenantId, review, tenants, excuses, now>>
      /\ handler[i].phase = "kit" /\ handler' = [handler EXCEPT ![i] = g]
      /\ kits' = Append(kits, [tenant |-> handler[i].tenant, at |-> now])
  BY DEF KitMade, storage
<1>2. IsRun(handler[i])
  BY DEF IInv, Shaped
<1>3. IsRun(g) /\ g.phase = "made" /\ g.kit = n
  <2> HIDE DEF n
  <2> QED
    BY <1>2, RunGetsKit
<1> HIDE DEF g
<1>4. /\ IsASeq(handler) /\ IsASeq(handler') /\ DOMAIN handler' = DOMAIN handler
      /\ handler'[i] = g
      /\ \A j \in DOMAIN handler : j # i => handler'[j] = handler[j]
      /\ \A j \in DOMAIN handler' : IsRun(handler'[j])
  BY <1>1, <1>3, RunStep
<1>5. /\ IsASeq(kits') /\ Len(kits') \in DOMAIN kits' /\ DOMAIN kits \subseteq DOMAIN kits'
      /\ \A k \in DOMAIN kits : kits'[k] = kits[k]
      /\ \A k \in DOMAIN kits' : kits'[k].at \in 0..now'
  BY <1>1, KitAdded
<1>6. ~bypass
  BY <1>1 DEF IInv, Remembered
<1>7. Shaped'
  BY <1>1, <1>4, <1>5 DEF IInv, Shaped
<1>8. Accounted'
  <2>1. Calls(handler') = Calls(handler) /\ Flying(handler') = Flying(handler)
    BY <1>1, <1>3, <1>4 DEF Calls, Flying
  <2> QED
    BY <1>1, <2>1 DEF IInv, Accounted
<1>9. Remembered'
  BY <1>1, <1>3, <1>4, <1>6 DEF IInv, Remembered
<1>10. Delivered'
  BY <1>1, <1>3, <1>4, <1>5 DEF IInv, Delivered
<1>11. CountsDown'
  BY <1>1, <1>5 DEF IInv, CountsDown
<1> QED
  BY <1>7, <1>8, <1>9, <1>10, <1>11 DEF IInv

LEMMA MetaReadKeeps ==
    ASSUME IInv, NEW i \in DOMAIN handler, MetaRead(i) PROVE IInv'
<1> PICK f : handler' = [handler EXCEPT ![i].phase = "meta", ![i].fingerprint = f]
  BY DEF MetaRead
<1> DEFINE g == [handler[i] EXCEPT !.phase = "meta", !.fingerprint = f]
<1>1. /\ UNCHANGED <<bypass, lastTenantId, review, tenants, kits, excuses, now>>
      /\ handler[i].phase = "made" /\ handler' = [handler EXCEPT ![i] = g]
  BY DEF MetaRead, storage, server
<1>2. IsRun(handler[i])
  BY DEF IInv, Shaped
<1>3. IsRun(g) /\ g.phase = "meta" /\ g.kit = handler[i].kit
  BY <1>2, RunGetsFingerprint
<1> HIDE DEF g
<1>4. /\ IsASeq(handler) /\ IsASeq(handler') /\ DOMAIN handler' = DOMAIN handler
      /\ handler'[i] = g
      /\ \A j \in DOMAIN handler : j # i => handler'[j] = handler[j]
      /\ \A j \in DOMAIN handler' : IsRun(handler'[j])
  BY <1>1, <1>3, RunStep
<1>5. Calls(handler') = Calls(handler) /\ Flying(handler') = Flying(handler)
  BY <1>1, <1>3, <1>4 DEF Calls, Flying
<1>6. Shaped' /\ Accounted' /\ CountsDown'
  BY <1>1, <1>4, <1>5 DEF IInv, Shaped, Accounted, CountsDown
<1>7. Remembered'
  BY <1>1, <1>3, <1>4 DEF IInv, Remembered
<1>8. Delivered'
  BY <1>1, <1>3, <1>4 DEF IInv, Delivered
<1> QED
  BY <1>6, <1>7, <1>8 DEF IInv

LEMMA PretendKeeps ==
    ASSUME IInv, NEW i \in DOMAIN handler, Pretend(i) PROVE IInv'
<1> DEFINE g == [handler[i] EXCEPT !.phase = "meta", !.fingerprint = Placeholder]
<1>1. /\ UNCHANGED <<bypass, lastTenantId, review, tenants, kits, excuses, now>>
      /\ handler[i].phase = "pretend" /\ handler' = [handler EXCEPT ![i] = g]
  BY DEF Pretend, storage, server
<1>2. IsRun(handler[i]) /\ bypass
  BY <1>1 DEF IInv, Shaped, Delivered
<1>3. IsRun(g) /\ g.phase = "meta"
  BY <1>2, RunGetsFingerprint
<1> HIDE DEF g
<1>4. /\ IsASeq(handler) /\ IsASeq(handler') /\ DOMAIN handler' = DOMAIN handler
      /\ handler'[i] = g
      /\ \A j \in DOMAIN handler : j # i => handler'[j] = handler[j]
      /\ \A j \in DOMAIN handler' : IsRun(handler'[j])
  BY <1>1, <1>3, RunStep
<1>5. Calls(handler') = Calls(handler) /\ Flying(handler') = Flying(handler)
  BY <1>1, <1>3, <1>4 DEF Calls, Flying
<1>6. Shaped' /\ Accounted' /\ CountsDown'
  BY <1>1, <1>4, <1>5 DEF IInv, Shaped, Accounted, CountsDown
<1>7. Remembered'
  BY <1>1, <1>3, <1>4 DEF IInv, Remembered
<1>8. Delivered'
  BY <1>1, <1>2, <1>3, <1>4 DEF IInv, Delivered
<1> QED
  BY <1>6, <1>7, <1>8 DEF IInv

\* What Succeed leaves on the page that is mounted.
Downloaded(i) == IF bypass THEN <<>> ELSE <<handler[i].kit>>
Shows(i) == [review EXCEPT !.busy = FALSE, !.success = TRUE, !.left = Ttl, !.expired = FALSE,
                           !.fingerprint = handler[i].fingerprint,
                           !.downloads = Downloaded(i)]

LEMMA ReviewShows ==
    ASSUME IsReview(review), NEW i
    PROVE  /\ IsReview(Shows(i)) /\ Shows(i).tenant = review.tenant /\ Shows(i).left = Ttl
           /\ ~Shows(i).expired /\ Shows(i).downloads = Downloaded(i)
<1>1. PICK S : review \in [busy : S, success : S, tenant : S, fingerprint : S, left : S,
                           expired : S, downloads : S]
  BY DEF IsReview
<1> DEFINE f == handler[i].fingerprint
           T == S \cup {FALSE, TRUE, Ttl, f, Downloaded(i)}
<1>2. review \in [busy : T, success : T, tenant : T, fingerprint : T, left : T, expired : T,
                  downloads : T]
  BY <1>1
<1>3. Shows(i) \in [busy : T, success : T, tenant : T, fingerprint : T, left : T, expired : T,
                    downloads : T]
  <2>1. {FALSE, TRUE, Ttl, f, Downloaded(i)} \subseteq T
    OBVIOUS
  <2> HIDE DEF T
  <2> QED
    BY <1>2, <2>1 DEF Shows
<1>4. /\ Shows(i).tenant = review.tenant /\ Shows(i).left = Ttl /\ Shows(i).expired = FALSE
      /\ Shows(i).downloads = Downloaded(i)
  BY <1>2 DEF Shows
<1>5. IsReview(Shows(i))
  <2> HIDE DEF T
  <2> QED
    BY <1>3 DEF IsReview
<1> QED
  BY <1>4, <1>5, Zenon

LEMMA SucceedKeeps ==
    ASSUME IInv, NEW i \in DOMAIN handler, Succeed(i) PROVE IInv'
<1> DEFINE g == [handler[i] EXCEPT !.phase = "over"]
           d == Downloaded(i)
<1>1. /\ UNCHANGED <<bypass, lastTenantId, tenants, kits, excuses, now>>
      /\ handler[i].phase = "meta" /\ handler' = [handler EXCEPT ![i] = g]
  BY DEF Succeed, storage, server
<1>2. IsRun(handler[i]) /\ IsReview(review) /\ IsASeq(review.downloads)
  BY DEF IInv, Shaped
<1>3. IsRun(g) /\ g.phase = "over"
  BY <1>2, RunMoves
<1>4. review' = review \/ review' = Shows(i)
  BY DEF Succeed, Shows, Downloaded
<1> HIDE DEF g
<1>5. /\ IsASeq(handler) /\ IsASeq(handler') /\ DOMAIN handler' = DOMAIN handler
      /\ handler'[i] = g
      /\ \A j \in DOMAIN handler : j # i => handler'[j] = handler[j]
      /\ \A j \in DOMAIN handler' : IsRun(handler'[j])
  BY <1>1, <1>3, RunStep
<1>6. Calls(handler') = Calls(handler) /\ Flying(handler') = Flying(handler)
  BY <1>1, <1>3, <1>5 DEF Calls, Flying
<1>7. /\ IsASeq(d)
      /\ ~bypass => d # <<>>
      /\ d # <<>> => Head(d) = handler[i].kit /\ handler[i].kit \in DOMAIN kits
  <2>1. CASE bypass
    BY <2>1, NoElements DEF Downloaded
  <2>2. CASE ~bypass
    BY <1>1, <2>2, OneElement DEF IInv, Delivered, Downloaded
  <2> QED
    BY <2>1, <2>2
<1>8. /\ IsReview(Shows(i)) /\ Shows(i).tenant = review.tenant /\ Shows(i).left = Ttl
      /\ ~Shows(i).expired /\ Shows(i).downloads = d
  BY <1>2, ReviewShows
<1> HIDE DEF d
<1>9. IsReview(review') /\ IsASeq(review'.downloads) /\ review'.tenant = review.tenant
  BY <1>2, <1>4, <1>7, <1>8
<1>10. Shaped' /\ Accounted'
  BY <1>1, <1>5, <1>6, <1>9 DEF IInv, Shaped, Accounted
<1>11. Remembered'
  BY <1>1, <1>3, <1>5, <1>9 DEF IInv, Remembered
<1>12. Delivered'
  BY <1>1, <1>3, <1>5 DEF IInv, Delivered
<1>13. CountsDown'
  <2>1. CASE review' = review
    BY <1>1, <2>1 DEF IInv, CountsDown
  <2>2. CASE review' = Shows(i)
    <3>1. handler[i].kit \in DOMAIN kits => kits[handler[i].kit].at + Ttl <= now + Ttl
      BY NumbersAssumption DEF IInv, Shaped
    <3>2. Ttl \in 0..Ttl
      BY NumbersAssumption
    <3> QED
      BY <1>1, <1>7, <1>8, <2>2, <3>1, <3>2 DEF CountsDown
  <2> QED
    BY <1>4, <2>1, <2>2
<1> QED
  BY <1>10, <1>11, <1>12, <1>13 DEF IInv

LEMMA FailKeeps ==
    ASSUME IInv, NEW i \in DOMAIN handler, Fail(i) PROVE IInv'
<1> DEFINE g == [handler[i] EXCEPT !.phase = "over"]
<1>1. /\ UNCHANGED <<bypass, lastTenantId, tenants, kits, now>>
      /\ handler[i].phase \in {"tenant", "created", "kit", "made"}
      /\ handler' = [handler EXCEPT ![i] = g]
      /\ review' = review \/ review' = [review EXCEPT !.busy = FALSE]
      /\ excuses' = IF handler[i].phase = "created" THEN excuses + 1 ELSE excuses
  BY DEF Fail, storage, server
<1>2. IsRun(handler[i]) /\ IsReview(review)
  BY DEF IInv, Shaped
<1>3. IsRun(g) /\ g.phase = "over"
  BY <1>2, RunMoves
<1> HIDE DEF g
<1>4. /\ IsASeq(handler) /\ IsASeq(handler') /\ DOMAIN handler' = DOMAIN handler
      /\ handler'[i] = g
      /\ \A j \in DOMAIN handler : j # i => handler'[j] = handler[j]
      /\ \A j \in DOMAIN handler' : IsRun(handler'[j])
  BY <1>1, <1>3, RunStep
<1>5. IsReview(review') /\ SameKit(review, review') /\ review'.tenant = review.tenant
  <2>1. CASE review' = review
    BY <1>2, <2>1 DEF SameKit
  <2>2. CASE review' = [review EXCEPT !.busy = FALSE]
    <3>1. /\ IsReview([review EXCEPT !.busy = FALSE])
          /\ SameKit(review, [review EXCEPT !.busy = FALSE])
          /\ [review EXCEPT !.busy = FALSE].tenant = review.tenant
      BY <1>2, ReviewSpins
    <3> QED
      BY <2>2, <3>1
  <2> QED
    BY <1>1, <2>1, <2>2
<1>6. excuses' \in Nat /\ excuses' >= excuses
  BY <1>1, Numbers
<1>7. Shaped'
  BY <1>1, <1>4, <1>5, <1>6 DEF IInv, Shaped, SameKit
<1>8. Accounted'
  <2>1. CASE handler[i].phase = "tenant"
    <3>1. /\ Cardinality(Calls(handler')) = Cardinality(Calls(handler)) - 1
          /\ Cardinality(Calls(handler)) >= 1
      BY <1>3, <1>4, <2>1, CallEnds
    <3> QED
      BY <1>1, <1>6, <3>1, Numbers DEF Accounted
  <2>2. CASE handler[i].phase = "created"
    <3>1. Calls(handler') = Calls(handler)
      BY <1>3, <1>4, <2>2 DEF Calls
    <3>2. excuses' = excuses + 1 /\ tenants' = tenants
      BY <1>1, <2>2
    <3> QED
      BY <3>1, <3>2, Numbers DEF Accounted
  <2>3. CASE handler[i].phase \in {"kit", "made"}
    <3>1. Calls(handler') = Calls(handler) /\ Flying(handler') = Flying(handler)
      BY <1>3, <1>4, <2>3 DEF Calls, Flying
    <3>2. excuses' = excuses /\ tenants' = tenants /\ lastTenantId' = lastTenantId
      BY <1>1, <2>3
    <3> QED
      BY <3>1, <3>2 DEF IInv, Accounted
  <2> QED
    BY <1>1, <2>1, <2>2, <2>3
<1>9. Remembered'
  BY <1>1, <1>3, <1>4, <1>5 DEF IInv, Remembered
<1>10. Delivered'
  BY <1>1, <1>3, <1>4 DEF IInv, Delivered
<1>11. CountsDown'
  BY <1>1, <1>5 DEF IInv, CountsDown, SameKit
<1> QED
  BY <1>7, <1>8, <1>9, <1>10, <1>11 DEF IInv

-----------------------------------------------------------------------------
(* The steps of the review page, and time. *)

\* The run that a press begins.
Begun == [company |-> store["company"], mounted |-> TRUE, tenant |-> KnownTenant, kit |-> None,
          phase |-> IF bypass THEN "pretend"
                    ELSE IF oct = "none" THEN "over"
                    ELSE IF KnownTenant = None THEN "tenant" ELSE "kit",
          fingerprint |-> None]

LEMMA BegunIsRun ==
    ASSUME IInv
    PROVE  /\ IsRun(Begun)
           /\ Begun.phase \in {"pretend", "over", "tenant", "kit"}
           /\ (Begun.phase = "pretend") <=> bypass
           /\ Begun.phase = "tenant" =>
                 ~bypass /\ KnownTenant = None /\ lastTenantId = None
<1> DEFINE c == store["company"]
           t == KnownTenant
           p == IF bypass THEN "pretend"
                ELSE IF oct = "none" THEN "over"
                ELSE IF KnownTenant = None THEN "tenant" ELSE "kit"
           T == {c, TRUE, t, None, p}
<1>1. Begun = [company |-> c, mounted |-> TRUE, tenant |-> t, kit |-> None, phase |-> p,
               fingerprint |-> None]
  BY DEF Begun
<1>2. /\ p \in {"pretend", "over", "tenant", "kit"} /\ ((p = "pretend") <=> bypass)
      /\ p = "tenant" => ~bypass /\ KnownTenant = None
  OBVIOUS
<1>3. KnownTenant = None => lastTenantId = None
  BY DEF KnownTenant
<1> HIDE DEF c, t, p
<1>4. Begun \in [company : T, mounted : T, tenant : T, kit : T, phase : T, fingerprint : T]
  BY <1>1
<1>5. Begun.phase = p
  BY <1>1
<1>6. IsRun(Begun)
  <2> HIDE DEF T
  <2> QED
    BY <1>4 DEF IsRun
<1> QED
  BY <1>2, <1>3, <1>5, <1>6

LEMMA GenerateKitKeeps == ASSUME IInv, GenerateKit PROVE IInv'
<1> DEFINE b == (bypass \/ oct # "none")
<1>1. /\ UNCHANGED <<bypass, lastTenantId, tenants, kits, now>>
      /\ handler' = Append(handler, Begun)
      /\ excuses' = IF ~bypass /\ KnownTenant = None /\ Flying(handler) # {}
                    THEN excuses + 1 ELSE excuses
  BY DEF GenerateKit, storage, server, Begun, InFlight, Flying
<1>2. review' = [review EXCEPT !.busy = TRUE] \/ review' = [review EXCEPT !.busy = FALSE]
  <2>1. review' = [review EXCEPT !.busy = b]
    BY DEF GenerateKit
  <2>2. b = TRUE \/ b = FALSE
    OBVIOUS
  <2> HIDE DEF b
  <2> QED
    BY <2>1, <2>2, Zenon
<1>3. IsReview(review) /\ IsASeq(handler) /\ IsASeq(review.downloads)
  BY DEF IInv, Shaped
<1>4. IsReview(review') /\ SameKit(review, review') /\ review'.tenant = review.tenant
  <2>1. CASE review' = [review EXCEPT !.busy = TRUE]
    <3>1. /\ IsReview([review EXCEPT !.busy = TRUE])
          /\ SameKit(review, [review EXCEPT !.busy = TRUE])
          /\ [review EXCEPT !.busy = TRUE].tenant = review.tenant
      BY <1>3, ReviewSpins
    <3> QED
      BY <2>1, <3>1
  <2>2. CASE review' = [review EXCEPT !.busy = FALSE]
    <3>1. /\ IsReview([review EXCEPT !.busy = FALSE])
          /\ SameKit(review, [review EXCEPT !.busy = FALSE])
          /\ [review EXCEPT !.busy = FALSE].tenant = review.tenant
      BY <1>3, ReviewSpins
    <3> QED
      BY <2>2, <3>1
  <2> QED
    BY <1>2, <2>1, <2>2
<1>5. /\ IsASeq(handler') /\ DOMAIN handler' = DOMAIN handler \cup {Len(handler')}
      /\ handler'[Len(handler')] = Begun
      /\ \A j \in DOMAIN handler : handler'[j] = handler[j]
  BY <1>1, <1>3, Appended
<1>6. excuses' \in Nat /\ excuses' >= excuses
  BY <1>1, Numbers
<1>7. Shaped'
  BY <1>1, <1>3, <1>4, <1>5, <1>6, BegunIsRun DEF IInv, Shaped, SameKit
<1>8. Accounted'
  <2>1. CASE Begun.phase = "tenant"
    <3>1. /\ Cardinality(Calls(handler')) = Cardinality(Calls(handler)) + 1
          /\ Flying(handler') # {}
      BY <1>1, <1>3, <2>1, CallBegins
    <3>2. ~bypass /\ KnownTenant = None /\ lastTenantId = None
      BY <2>1, BegunIsRun
    <3>3. CASE Flying(handler) = {}
      <4>1. Cardinality(Calls(handler)) = 0 /\ excuses' = excuses /\ Len(tenants) <= excuses
        BY <1>1, <1>3, <3>2, <3>3, NoneFlying DEF IInv, Accounted
      <4> QED
        BY <1>1, <3>1, <4>1, Numbers DEF Accounted
    <3>4. CASE Flying(handler) # {}
      <4>1. excuses' = excuses + 1
        BY <1>1, <3>2, <3>4
      <4> QED
        BY <1>1, <3>1, <4>1, Numbers DEF Accounted
    <3> QED
      BY <3>3, <3>4
  <2>2. CASE Begun.phase # "tenant"
    <3>1. Begun.phase \notin {"tenant", "created"}
      BY <2>2, BegunIsRun
    <3>2. Calls(handler') = Calls(handler) /\ Flying(handler') = Flying(handler)
      BY <1>1, <1>3, <3>1, NoCallBegins
    <3>3. lastTenantId = None /\ Flying(handler) = {} => Len(tenants) <= excuses
      BY DEF IInv, Accounted
    <3> QED
      BY <1>1, <1>6, <3>2, <3>3, Numbers DEF Accounted
  <2> QED
    BY <2>1, <2>2
<1>9. Remembered'
  BY <1>1, <1>4, <1>5, BegunIsRun DEF IInv, Remembered
<1>10. Delivered'
  BY <1>1, <1>5, BegunIsRun DEF IInv, Delivered
<1>11. CountsDown'
  BY <1>1, <1>4 DEF IInv, CountsDown, SameKit
<1> QED
  BY <1>7, <1>8, <1>9, <1>10, <1>11 DEF IInv

LEMMA DownloadAgainKeeps == ASSUME IInv, DownloadAgain PROVE IInv'
<1> DEFINE n == Len(kits')
           d == Append(review.downloads, n)
<1>1. /\ UNCHANGED <<bypass, lastTenantId, handler, tenants, excuses, now>>
      /\ kits' = Append(kits, [tenant |-> KnownTenant, at |-> now])
      /\ review' = [review EXCEPT !.downloads = d]
      /\ review.success /\ KnownTenant # None
  BY DEF DownloadAgain, storage
<1>2. IsReview(review) /\ IsASeq(review.downloads)
  BY DEF IInv, Shaped
<1>3. /\ IsASeq(kits') /\ DOMAIN kits \subseteq DOMAIN kits'
      /\ \A k \in DOMAIN kits : kits'[k] = kits[k]
      /\ \A k \in DOMAIN kits' : kits'[k].at \in 0..now'
  BY <1>1, KitAdded
<1>4. lastTenantId # None
  BY <1>1 DEF IInv, Remembered, KnownTenant
<1>5. review.downloads # <<>>
  BY <1>1, <1>4 DEF IInv, Remembered, CountsDown
<1>6. IsASeq(d) /\ d # <<>> /\ Head(d) = Head(review.downloads)
  <2> HIDE DEF n
  <2> QED
    BY <1>2, <1>5, Appended
<1> HIDE DEF d
<1>7. /\ IsReview(review') /\ review'.tenant = review.tenant /\ review'.left = review.left
      /\ review'.expired = review.expired /\ review'.downloads = d
  BY <1>1, <1>2, ReviewDownloads
<1>8. Shaped' /\ Accounted'
  BY <1>1, <1>3, <1>6, <1>7 DEF IInv, Shaped, Accounted, Calls, Flying
<1>9. Remembered'
  BY <1>1, <1>7 DEF IInv, Remembered
<1>10. Delivered'
  BY <1>1, <1>3 DEF IInv, Delivered
<1>11. CountsDown'
  BY <1>1, <1>3, <1>5, <1>6, <1>7 DEF IInv, CountsDown
<1> QED
  BY <1>8, <1>9, <1>10, <1>11 DEF IInv

LEMMA TickKeeps == ASSUME IInv, Tick PROVE IInv'
<1>1. /\ UNCHANGED <<bypass, lastTenantId, handler, tenants, kits, excuses>>
      /\ now' = now + 1 /\ (review' = review \/ review' = Countdown(review))
  BY DEF Tick, storage, server
<1>2. /\ IsReview(review) /\ review.left \in 0..Ttl /\ (review.expired => review.left = 0)
      /\ now \in Nat
  BY DEF IInv, Shaped, CountsDown
<1>3. /\ IsReview(review') /\ review'.tenant = review.tenant
      /\ review'.success = review.success /\ review'.downloads = review.downloads
      /\ review'.left \in 0..Ttl /\ review'.left + 1 >= review.left
      /\ review'.expired => review'.left = 0
  <2>1. CASE review' = review
    BY <1>2, <2>1, NumbersAssumption
  <2>2. CASE review' = Countdown(review)
    BY <1>2, <2>2, ReviewCounts
  <2> QED
    BY <1>1, <2>1, <2>2
<1>4. Shaped'
  BY <1>1, <1>2, <1>3 DEF IInv, Shaped
<1>5. Accounted' /\ Delivered'
  BY <1>1 DEF IInv, Accounted, Delivered, Calls, Flying
<1>6. Remembered'
  BY <1>1, <1>3 DEF IInv, Remembered
<1>7. CountsDown'
  <2>1. review.downloads # <<>> =>
           /\ Head(review.downloads) \in DOMAIN kits
           /\ kits[Head(review.downloads)].at \in 0..now
           /\ kits[Head(review.downloads)].at + Ttl <= now + review.left
    BY DEF IInv, Shaped, CountsDown
  <2>2. review.downloads # <<>> =>
           kits[Head(review.downloads)].at + Ttl <= now' + review'.left
    <3> DEFINE a == kits[Head(review.downloads)].at
               l == review.left
               m == review'.left
    <3>1. l \in Nat /\ m \in Nat /\ m + 1 >= l /\ now' = now + 1 /\ now \in Nat
      BY <1>1, <1>2, <1>3, NumbersAssumption
    <3>2. review.downloads # <<>> => a \in Nat /\ a + Ttl <= now + l
      BY <1>2, <2>1
    <3> HIDE DEF a, l, m
    <3>3. review.downloads # <<>> => a + Ttl <= now' + m
      BY <3>1, <3>2, NumbersAssumption
    <3> QED
      BY <3>3 DEF a, m
  <2> QED
    BY <1>1, <1>3, <2>1, <2>2 DEF IInv, CountsDown
<1> QED
  BY <1>4, <1>5, <1>6, <1>7 DEF IInv

-----------------------------------------------------------------------------

LEMMA NextIInv == IInv /\ [Next]_vars => IInv'
<1> SUFFICES ASSUME IInv, [Next]_vars PROVE IInv'
  OBVIOUS
<1>1. ASSUME NEW p, Mount(p),
             UNCHANGED <<bypass, lastTenantId, tenants, kits, excuses, now>>
      PROVE  IInv'
  BY <1>1, MountKeeps DEF Mount
<1>2. ASSUME NEW p \in Page, Go(p) PROVE IInv'
  BY <1>1, <1>2 DEF Go, storage, server
<1>3. CASE Reload
  BY <1>3, ReloadKeeps
<1>4. ASSUME NEW p, NextStep(p) PROVE IInv'
  BY <1>1, <1>4 DEF NextStep, server
<1>5. CASE Edit \/ ValidateIdentity \/ IdentityValidated
  BY <1>5, Still DEF Edit, ValidateIdentity, IdentityValidated, storage, server
<1>6. CASE CompanyPage \/ DataRegionsPage \/ AgentsPage \/ AccessPage
  BY <1>4, <1>5, <1>6 DEF CompanyPage, DataRegionsPage, AgentsPage, AccessPage
<1>7. CASE PersonalPage
  BY <1>7, Still DEF PersonalPage, storage, server
<1>8. CASE ReviewPage
  BY <1>8, GenerateKitKeeps, DownloadAgainKeeps DEF ReviewPage
<1>9. ASSUME NEW i \in DOMAIN handler, Handler(i) PROVE IInv'
  BY <1>9, TenantCreatedKeeps, TenantKnownKeeps, KitMadeKeeps, MetaReadKeeps, PretendKeeps,
     SucceedKeeps, FailKeeps DEF Handler
<1>10. CASE Tick
  BY <1>10, TickKeeps
<1>11. CASE CheckOCT \/ OCTChanges
  BY <1>11, Still DEF CheckOCT, OCTChanges, storage, server
<1>12. CASE UNCHANGED vars
  BY <1>12, Still DEF vars, storage, server
<1> QED
  BY <1>2, <1>3, <1>6, <1>7, <1>8, <1>9, <1>10, <1>11, <1>12 DEF Next

LEMMA Inductive == Spec => []IInv
BY InitIInv, NextIInv, PTL DEF Spec

\* handleGenerateKit (review/page.tsx) creates a tenant only when none is known: the server
\* has no more than one and those whose number the browser could not learn in time.
THEOREM TenantsCounted == Spec => []TenantsAccountedFor
<1>1. IInv => TenantsAccountedFor
  <2> SUFFICES ASSUME IInv PROVE TenantsAccountedFor
    OBVIOUS
  <2> QED
    BY Numbers DEF TenantsAccountedFor
<1> QED
  BY <1>1, Inductive, PTL

\* The countdown of the review page runs out only when the kit it was started for has.
THEOREM CountdownIsHonest == Spec => []ExpiryIsReal
<1>1. IInv => ExpiryIsReal
  <2> SUFFICES ASSUME IInv, review.expired, review.downloads # <<>>
               PROVE  now >= kits[Head(review.downloads)].at + Ttl
    BY DEF ExpiryIsReal
  <2>1. /\ kits[Head(review.downloads)].at + Ttl <= now + review.left /\ review.left = 0
        /\ kits[Head(review.downloads)].at \in 0..now /\ now \in Nat
    BY DEF IInv, Shaped, CountsDown
  <2> QED
    BY <2>1, NumbersAssumption
<1> QED
  BY <1>1, Inductive, PTL

-----------------------------------------------------------------------------
(* The live views *)

\* What the proof needs to know of the hooks: those that wait for a connection go back to
\* made-up data whenever it ends, and stop it when it stands; the others start it at most
\* once, when the connection has failed.
HookShape ==
    /\ feed.patient \in BOOLEAN /\ feed.patient = feed.stops
    /\ feed.stops => feed.onError = "once" /\ feed.onClose = "once"
    /\ ~feed.stops => feed.onError \in {"always", "never"} /\ feed.onClose = "never"

EffectSound(e) ==
    /\ e.mocks <= 1
    /\ e.socket = "open" => e.mocks = 0
    /\ feed.stops => (e.mocks > 0 => e.started)
    /\ ~feed.stops =>
          /\ ~e.timer
          /\ e.socket \in {"connecting", "open", "closing"} => e.mocks = 0

FeedInv ==
    /\ effect \in Seq(Effect)
    /\ mounted => effect # <<>>
    /\ effect # <<>> => HookShape
    /\ \A i \in DOMAIN effect : EffectSound(effect[i])

FrameInv ==
    /\ len \in 0..MaxEntries
    /\ below \in 0..Over(len)
    /\ reading => ~Near(below)
    /\ timer => TimelineShown
    /\ reading /\ ~scrolled => (LogsShown => away) /\ (TimelineShown => ~bottom)
    /\ ReaderLeftAlone

\* A reply stands after its command, and no later command before it.
InOrder(s) ==
    \A i, j \in DOMAIN s :
        s[i].type = "reply" /\ s[j].type = "command" /\ s[j].of < s[i].of =>
            \E k \in j+1..i-1 : s[k] = Command(s[i].of)

\* The reply to command n may be appended to s.
Answerable(s, n) ==
    \A j \in DOMAIN s :
        s[j].type = "command" /\ s[j].of < n => \E k \in j+1..Len(s) : s[k] = Command(n)

NoneAfter(s, n) == \A i \in DOMAIN s : s[i].of <= n

NoneUpTo(s, n) == \A i \in DOMAIN s : s[i].of > n

\* A log that is kept, with entries up to m.
KeptLog(s, m) ==
    /\ s \in Seq(LogEntry) /\ Len(s) <= KeepLogs
    /\ InOrder(s) /\ NoneAfter(s, m)

\* Nothing is in a log, stored or about to be that was cleared.
NothingOld == NoneUpTo(logs, cleared) /\ NoneUpTo(stored, cleared) /\ NoneUpTo(unsaved, cleared)

TermInv ==
    /\ terminal \in Terminals \cup {NoTerminal}
    /\ shown \in BOOLEAN /\ ready \in BOOLEAN /\ (ready => shown)
    /\ entered \in 0..MaxCommands /\ cleared \in 0..entered
    /\ KeptLog(logs, entered) /\ KeptLog(stored, entered) /\ KeptLog(unsaved, entered)
    /\ awaited \subseteq 1..entered /\ \A n \in awaited : Answerable(logs, n)
    /\ ~shown => awaited = {}
    /\ terminal = Personal => awaited = {}
    /\ terminal = Personal /\ ~overdue => NothingOld

\* What is said to have come to an end has.
Truthful(type, a, status) ==
    /\ type \in Terminal => genesis[a] = type
    /\ status \in Terminal => genesis[a] = status

GenesisRight == genesis \in [Agent -> State]

Tracked ==
    [state : State, subscribed : BOOLEAN, polling : BOOLEAN, verdict : Terminal \cup {"none"}]

TrackerRight ==
    /\ tracker \in [Agent -> Tracked]
    /\ \A a \in Agent : Truthful(tracker[a].verdict, a, tracker[a].state)

PollsRight ==
    /\ BagToSet(polls) \subseteq [of : Agent, status : State]
    /\ \A r \in BagToSet(polls) : Truthful("status", r.of, r.status)

WireRight ==
    /\ wire \in Seq(WireMessage)
    /\ \A k \in 1..Len(wire) : Truthful(wire[k].type, wire[k].of, wire[k].status)

ForgeInv == GenesisRight /\ TrackerRight /\ PollsRight /\ WireRight

FormInv ==
    /\ formState \in [loading : BOOLEAN,
                      id : Agent \cup {Other, NoAgent}, complete : BOOLEAN, failed : BOOLEAN]
    /\ ForgingHasNoVerdict

ViewsInv == FeedInv /\ FrameInv /\ TermInv /\ ForgeInv /\ FormInv

-----------------------------------------------------------------------------
(* The telemetry hooks *)

FeedHooks ==
    {FederationNodes, TopologyNodes, MeshTelemetry, ThermalMetrics, FusionTelemetry,
     NodeSignals, NodeEvents, GenesisStream}

LEMMA HookValues ==
    /\ \A h \in {FederationNodes, TopologyNodes, MeshTelemetry, ThermalMetrics, FusionTelemetry} :
          h.patient = TRUE /\ h.stops = TRUE /\ h.onError = "once" /\ h.onClose = "once"
    /\ \A h \in {NodeSignals, NodeEvents, GenesisStream} :
          /\ h.patient = FALSE /\ h.stops = FALSE
          /\ h.onError \in {"always", "never"} /\ h.onClose = "never"
BY DEF FederationNodes, TopologyNodes, MeshTelemetry, ThermalMetrics, FusionTelemetry,
   NodeSignals, NodeEvents, GenesisStream

LEMMA ViewHooks == ASSUME NEW v \in Views, feed = v[1] PROVE HookShape
<1>1. feed \in FeedHooks
  BY DEF Views, PiClusterChamber, NodesView, NodeDetailsPanel, FederationHealthCore,
         FederationHealthMatrix, SignalHistoryPanel, FeedHooks
<1> QED
  BY <1>1, HookValues, Zenon DEF FeedHooks, HookShape

\* The operators on effects, one by one.
LEMMA EffectFields ==
    ASSUME NEW e \in Effect
    PROVE  /\ e.socket \in {"none", "connecting", "open", "closing", "closed"}
           /\ e.ws \in BOOLEAN /\ e.timer \in BOOLEAN /\ e.started \in BOOLEAN /\ e.mocks \in Nat
BY DEF Effect

WithMocks(e, b, m) == [e EXCEPT !.started = b, !.mocks = m]

LEMMA MocksChanged ==
    ASSUME NEW e \in Effect, NEW b \in BOOLEAN, NEW m \in Nat
    PROVE  /\ WithMocks(e, b, m) \in Effect
           /\ WithMocks(e, b, m).started = b /\ WithMocks(e, b, m).mocks = m
           /\ WithMocks(e, b, m).socket = e.socket /\ WithMocks(e, b, m).timer = e.timer
BY DEF Effect, WithMocks

LEMMA StartMockSound ==
    ASSUME NEW e \in Effect, feed.stops, EffectSound(e), e.socket # "open"
    PROVE  StartMock(e) \in Effect /\ EffectSound(StartMock(e)) /\ StartMock(e).socket = e.socket
<1>1. CASE e.started
  BY <1>1, Zenon DEF StartMock
<1>2. CASE ~e.started
  <2> DEFINE f == WithMocks(e, TRUE, e.mocks + 1)
  <2>1. StartMock(e) = f
    BY <1>2, Zenon DEF StartMock, WithMocks
  <2>2. ~(e.mocks > 0)
    BY <1>2, Zenon DEF EffectSound
  <2>3. e.mocks = 0
    BY <2>2 DEF Effect
  <2>4. e.mocks + 1 = 1 /\ e.mocks + 1 \in Nat
    BY <2>3
  <2>5. f \in Effect /\ f.started = TRUE /\ f.mocks = 1 /\ f.socket = e.socket
    BY <2>3, <2>4, MocksChanged, Zenon
  <2> HIDE DEF f
  <2>6. f.mocks <= 1
    BY <2>5
  <2> QED
    BY <2>1, <2>5, <2>6, Zenon DEF EffectSound
<1> QED
  BY <1>1, <1>2

LEMMA StopMockSound ==
    ASSUME NEW e \in Effect, e.mocks <= 1,
           feed.stops => (e.mocks > 0 => e.started),
           ~feed.stops =>
              /\ ~e.timer
              /\ e.socket \in {"connecting", "open", "closing"} => e.mocks = 0,
           e.socket = "open"
    PROVE  StopMock(e) \in Effect /\ EffectSound(StopMock(e))
<1>1. CASE ~feed.stops \/ e.mocks = 0
  <2>1. StopMock(e) = e
    BY <1>1, Zenon DEF StopMock
  <2>2. ~feed.stops => e.mocks = 0
    BY Zenon
  <2>3. e.mocks = 0
    BY <1>1, <2>2, Zenon
  <2> QED
    BY <2>1, <2>3, Zenon DEF EffectSound
<1>2. CASE ~(~feed.stops \/ e.mocks = 0)
  <2> DEFINE f == WithMocks(e, FALSE, e.mocks - 1)
  <2>1. StopMock(e) = f /\ feed.stops /\ e.mocks # 0
    BY <1>2, Zenon DEF StopMock, WithMocks
  <2>2. e.mocks = 1
    BY <2>1 DEF Effect
  <2>3. e.mocks - 1 = 0 /\ e.mocks - 1 \in Nat
    BY <2>2
  <2>4. f \in Effect /\ f.mocks = 0
    BY <2>3, MocksChanged, Zenon
  <2> HIDE DEF f
  <2>5. f.mocks <= 1 /\ ~(f.mocks > 0)
    BY <2>4
  <2> QED
    BY <2>1, <2>4, <2>5, Zenon DEF EffectSound
<1> QED
  BY <1>1, <1>2

LEMMA EndedSound ==
    ASSUME NEW e \in Effect, EffectSound(e)
    PROVE  /\ Ended(e) \in Effect /\ EffectSound(Ended(e))
           /\ Ended(e).socket = "closed" /\ Ended(e).mocks = e.mocks
<1>1. /\ Ended(e) \in Effect /\ Ended(e).socket = "closed" /\ Ended(e).mocks = e.mocks
      /\ Ended(e).started = e.started /\ Ended(e).timer = FALSE
  BY DEF Effect, Ended
<1>2. "closed" \notin {"connecting", "open", "closing"}
  OBVIOUS
<1> QED
  BY <1>1, <1>2, Zenon DEF EffectSound

LEMMA CleanupSound ==
    ASSUME NEW e \in Effect, EffectSound(e)
    PROVE  Cleanup(e) \in Effect /\ EffectSound(Cleanup(e))
<1> DEFINE m == IF e.mocks = 0 THEN 0 ELSE e.mocks - 1
           s == IF e.ws /\ e.socket \in {"connecting", "open"} THEN "closing" ELSE e.socket
<1>1. Cleanup(e) = [e EXCEPT !.mocks = m, !.socket = s]
  BY DEF Cleanup
<1>2. m \in Nat /\ m <= 1 /\ (m > 0 => e.mocks > 0) /\ (e.mocks = 0 => m = 0) /\ m = 0
  BY DEF Effect, EffectSound
<1>3. /\ s \in {"none", "connecting", "open", "closing", "closed"}
      /\ s \in {"connecting", "open", "closing"} => e.socket \in {"connecting", "open", "closing"}
  BY DEF Effect
<1> HIDE DEF m, s
<1>4. /\ Cleanup(e) \in Effect /\ Cleanup(e).mocks = m /\ Cleanup(e).socket = s
      /\ Cleanup(e).started = e.started /\ Cleanup(e).timer = e.timer
  BY <1>1, <1>2, <1>3 DEF Effect
<1> QED
  BY <1>2, <1>3, <1>4, Zenon DEF EffectSound

\* What running the effect leaves is sound.
LEMMA RunForSound ==
    ASSUME HookShape, NEW n, NEW e \in RunFor(feed, n)
    PROVE  e \in Effect /\ EffectSound(e)
<1>1. CASE e = Unconnected
  <2>1. e \in Effect /\ e.mocks = 0 /\ e.socket = "none" /\ e.timer = FALSE
    BY <1>1 DEF Unconnected, Effect
  <2>2. e.mocks <= 1 /\ ~(e.mocks > 0) /\ e.socket # "open"
    BY <2>1
  <2> QED
    BY <2>1, <2>2, Zenon DEF EffectSound
<1>2. CASE e = Connecting(feed)
  <2>1. PICK p : p = feed.patient
    OBVIOUS
  <2>2. /\ e.mocks = 0 /\ e.socket = "connecting" /\ e.timer = p
        /\ p \in BOOLEAN => e \in Effect
    BY <1>2, <2>1 DEF Connecting, Unconnected, Effect
  <2>3. e.mocks <= 1 /\ ~(e.mocks > 0) /\ e.socket # "open"
    BY <2>2
  <2>4. ~feed.stops => ~e.timer
    BY <2>1, <2>2, Zenon DEF HookShape
  <2>5. p \in BOOLEAN
    BY <2>1, Zenon DEF HookShape
  <2> QED
    BY <2>2, <2>3, <2>4, <2>5, Zenon DEF EffectSound
<1>3. CASE e = StartMock(Unconnected)
  <2> DEFINE u == Unconnected
  <2>1. u \in Effect /\ u.mocks = 0 /\ u.started = FALSE /\ u.socket = "none" /\ u.timer = FALSE
    BY DEF Unconnected, Effect
  <2> HIDE DEF u
  <2>2. e \in Effect /\ e.mocks = 1 /\ e.socket = "none" /\ e.timer = FALSE /\ e.started = TRUE
    <3>1. e = WithMocks(u, TRUE, u.mocks + 1)
      BY <1>3, <2>1, Zenon DEF StartMock, WithMocks, u
    <3>2. u.mocks + 1 = 1 /\ u.mocks + 1 \in Nat
      BY <2>1
    <3> QED
      BY <2>1, <3>1, <3>2, MocksChanged, Zenon
  <2>3. e.mocks <= 1 /\ e.socket \notin {"connecting", "open", "closing"} /\ e.socket # "open"
    BY <2>2
  <2> QED
    BY <2>2, <2>3, Zenon DEF EffectSound
<1> QED
  BY <1>1, <1>2, <1>3, Zenon DEF RunFor, Unserved

\* Made-up data takes over from a connection that has ended.
LEMMA FallbackSound ==
    ASSUME HookShape, NEW e \in Effect, EffectSound(e), e.socket = "closed",
           NEW how \in {feed.onError, feed.onClose},
           how = "always" => e.mocks = 0
    PROVE  /\ Fallback(how, e) \in Effect /\ EffectSound(Fallback(how, e))
           /\ Fallback(how, e).socket = "closed"
<1>1. \/ how = "once" /\ feed.stops
      \/ how = "never"
      \/ how = "always" /\ ~feed.stops
  BY DEF HookShape
<1>2. CASE how = "once" /\ feed.stops
  <2>1. Fallback(how, e) = StartMock(e)
    BY <1>2 DEF Fallback
  <2>2. e.socket # "open"
    OBVIOUS
  <2> QED
    BY <1>2, <2>1, <2>2, StartMockSound, Zenon
<1>3. CASE how = "never"
  <2>1. Fallback(how, e) = e
    BY <1>3 DEF Fallback
  <2> QED
    BY <2>1, Zenon
<1>4. CASE how = "always" /\ ~feed.stops
  <2>1. Fallback(how, e) = [e EXCEPT !.mocks = 1]
    <3>1. Fallback(how, e) = [e EXCEPT !.mocks = e.mocks + 1]
      BY <1>4 DEF Fallback
    <3>2. e.mocks + 1 = 1
      BY <1>4
    <3> QED
      BY <3>1, <3>2, Zenon
  <2> DEFINE f == [e EXCEPT !.mocks = 1]
  <2>2. f \in Effect /\ f.mocks = 1 /\ f.socket = "closed" /\ f.timer = e.timer
    BY DEF Effect
  <2> HIDE DEF f
  <2>3. f.mocks <= 1 /\ f.socket # "open" /\ f.socket \notin {"connecting", "open", "closing"}
    BY <2>2
  <2>4. EffectSound(f)
    BY <1>4, <2>2, <2>3, Zenon DEF EffectSound
  <2> QED
    BY <2>1, <2>2, <2>4, Zenon DEF f
<1> QED
  BY <1>1, <1>2, <1>3, <1>4, Zenon

\* One effect changes.
LEMMA UpdateKeeps ==
    ASSUME FeedInv, NEW i \in DOMAIN effect, NEW e \in Effect, EffectSound(e), Update(i, e)
    PROVE  FeedInv'
<1>1. /\ effect \in Seq(Effect) /\ effect' = [effect EXCEPT ![i] = e]
      /\ feed' = feed /\ mounted' = mounted /\ i \in 1..Len(effect)
  BY DEF FeedInv, Update
<1>2. /\ effect' \in Seq(Effect) /\ DOMAIN effect' = DOMAIN effect
      /\ effect # <<>> /\ effect' # <<>>
      /\ \A j \in DOMAIN effect : effect'[j] = IF j = i THEN e ELSE effect[j]
  BY <1>1
<1>3. HookShape'
  BY <1>1, <1>2 DEF FeedInv, HookShape
<1>4. ASSUME NEW j \in DOMAIN effect' PROVE EffectSound(effect[j])'
  <2>1. PICK f : f = effect'[j] /\ EffectSound(f)
    BY <1>2, Zenon DEF FeedInv
  <2> QED
    BY <1>1, <2>1, Zenon DEF EffectSound
<1> QED
  BY <1>2, <1>3, <1>4 DEF FeedInv

LEMMA FeedNextKeeps == FeedInv /\ FeedNext => FeedInv'
<1> SUFFICES ASSUME FeedInv, FeedNext PROVE FeedInv'
  OBVIOUS
<1>1. ASSUME NEW i \in DOMAIN effect
      PROVE  effect[i] \in Effect /\ EffectSound(effect[i]) /\ HookShape
  BY DEF FeedInv
<1>2. ASSUME NEW i \in DOMAIN effect, Open(i) PROVE FeedInv'
  <2> DEFINE e == [effect[i] EXCEPT !.socket = "open"]
             f == IF feed.patient THEN [e EXCEPT !.timer = FALSE] ELSE e
  <2>1. PICK d \in Effect : d = effect[i]
    BY <1>1
  <2>2. EffectSound(d) /\ d.socket = "connecting" /\ HookShape
    BY <1>1, <1>2, <2>1 DEF Open
  <2>3. PICK b \in BOOLEAN : b = FALSE
    OBVIOUS
  <2>4. /\ [d EXCEPT !.socket = "open"] \in Effect
        /\ [d EXCEPT !.socket = "open", !.timer = b] \in Effect
        /\ \A g \in {[d EXCEPT !.socket = "open"], [d EXCEPT !.socket = "open", !.timer = b]} :
              /\ g.socket = "open" /\ g.mocks = d.mocks
              /\ g.started = d.started /\ g.timer \in {d.timer, b}
    BY DEF Effect
  <2>5. f \in {[d EXCEPT !.socket = "open"], [d EXCEPT !.socket = "open", !.timer = b]}
    BY <2>1, <2>3, Zenon
  <2>6. PICK g \in Effect : /\ g = f /\ g.socket = "open" /\ g.mocks = d.mocks
                            /\ g.started = d.started /\ g.timer \in {d.timer, b}
    BY <2>4, <2>5, Zenon
  <2>7. /\ g.mocks <= 1 /\ (feed.stops => (g.mocks > 0 => g.started))
        /\ ~feed.stops => /\ ~g.timer
                          /\ g.socket \in {"connecting", "open", "closing"} => g.mocks = 0
    <3>1. d.socket \in {"connecting", "open", "closing"}
      BY <2>2
    <3> QED
      BY <2>2, <2>3, <2>6, <3>1, Zenon DEF EffectSound
  <2>8. PICK h \in Effect : h = StopMock(g) /\ EffectSound(h)
    BY <2>6, <2>7, StopMockSound
  <2>9. Update(i, h)
    BY <1>2, <2>6, <2>8, Zenon DEF Open
  <2> QED
    BY <2>8, <2>9, UpdateKeeps
<1>3. ASSUME NEW i \in DOMAIN effect, Message(i) PROVE FeedInv'
  <2>1. PICK d \in Effect : d = effect[i]
    BY <1>1
  <2>2. EffectSound(d) /\ d.socket = "open" /\ Update(i, StopMock(d))
    BY <1>1, <1>3, <2>1, Zenon DEF Message
  <2>3. PICK h \in Effect : h = StopMock(d) /\ EffectSound(h)
    BY <2>1, <2>2, StopMockSound DEF EffectSound
  <2> QED
    BY <2>2, <2>3, UpdateKeeps
<1>4. ASSUME NEW i \in DOMAIN effect, ConnectionTimeout(i) PROVE FeedInv'
  <2>1. PICK d \in Effect : d = effect[i]
    BY <1>1
  <2>2. PICK b \in BOOLEAN : b = FALSE
    OBVIOUS
  <2> DEFINE e == [d EXCEPT !.timer = b]
             f == [e EXCEPT !.socket = "closing", !.ws = b]
  <2>3. EffectSound(d) /\ d.timer
    BY <1>1, <1>4, <2>1, Zenon DEF ConnectionTimeout
  <2>4. Update(i, IF e.ws /\ e.socket = "connecting" THEN StartMock(f) ELSE e)
    BY <1>4, <2>1, <2>2, Zenon DEF ConnectionTimeout
  <2>5. feed.stops
    BY <2>3, Zenon DEF EffectSound
  <2>6. /\ e \in Effect /\ e.mocks = d.mocks /\ e.started = d.started /\ e.timer = b
        /\ e.socket = d.socket
    BY DEF Effect
  <2>7. /\ f \in Effect /\ f.mocks = d.mocks /\ f.started = d.started /\ f.timer = b
        /\ f.socket = "closing"
    BY DEF Effect
  <2> HIDE DEF e, f
  <2>8. EffectSound(e)
    BY <2>3, <2>5, <2>6, Zenon DEF EffectSound
  <2>9. "closing" # "open"
    OBVIOUS
  <2>10. EffectSound(f)
    BY <2>3, <2>5, <2>7, <2>9, Zenon DEF EffectSound
  <2>11. PICK g \in Effect : g = StartMock(f) /\ EffectSound(g)
    BY <2>5, <2>7, <2>9, <2>10, StartMockSound
  <2>12. Update(i, g) \/ Update(i, e)
    BY <2>4, <2>11, Zenon
  <2> QED
    BY <2>6, <2>8, <2>11, <2>12, UpdateKeeps
<1>5. ASSUME NEW i \in DOMAIN effect, Error(i) PROVE FeedInv'
  <2>1. PICK d \in Effect : d = effect[i]
    BY <1>1
  <2>2. /\ EffectSound(d) /\ HookShape /\ d.socket \in {"connecting", "open", "closing"}
        /\ Update(i, Fallback(feed.onClose, Fallback(feed.onError, Ended(d))))
    BY <1>1, <1>5, <2>1, Zenon DEF Error
  <2>3. PICK e \in Effect : /\ e = Ended(d) /\ EffectSound(e)
                            /\ e.socket = "closed" /\ e.mocks = d.mocks
    BY <2>2, EndedSound
  <2>4. feed.onError = "always" => e.mocks = 0
    <3>1. feed.onError = "always" => ~feed.stops
      BY <2>2 DEF HookShape
    <3> QED
      BY <2>2, <2>3, <3>1, Zenon DEF EffectSound
  <2>5. PICK f \in Effect : f = Fallback(feed.onError, e) /\ EffectSound(f) /\ f.socket = "closed"
    BY <2>2, <2>3, <2>4, FallbackSound
  <2>6. feed.onClose # "always"
    BY <2>2 DEF HookShape
  <2>7. PICK g \in Effect : g = Fallback(feed.onClose, f) /\ EffectSound(g)
    BY <2>2, <2>5, <2>6, FallbackSound
  <2>8. Update(i, g)
    BY <2>2, <2>3, <2>5, <2>7, Zenon
  <2> QED
    BY <2>7, <2>8, UpdateKeeps
<1>6. ASSUME NEW i \in DOMAIN effect, Close(i) PROVE FeedInv'
  <2>1. PICK d \in Effect : d = effect[i]
    BY <1>1
  <2>2. EffectSound(d) /\ HookShape
    BY <1>1, <2>1
  <2>3. \/ Update(i, Fallback(feed.onClose, Ended(d)))
        \/ Update(i, [d EXCEPT !.socket = "closed"])
    BY <1>6, <2>1, Zenon DEF Close
  <2>4. PICK e \in Effect : e = Ended(d) /\ EffectSound(e) /\ e.socket = "closed"
    BY <2>2, EndedSound
  <2>5. feed.onClose # "always"
    BY <2>2 DEF HookShape
  <2>6. PICK f \in Effect : f = Fallback(feed.onClose, e) /\ EffectSound(f)
    BY <2>2, <2>4, <2>5, FallbackSound
  <2> DEFINE g == [d EXCEPT !.socket = "closed"]
  <2>7. /\ g \in Effect /\ g.socket = "closed"
        /\ g.mocks = d.mocks /\ g.started = d.started /\ g.timer = d.timer
    BY DEF Effect
  <2>8. "closed" \notin {"connecting", "open", "closing"}
    OBVIOUS
  <2> HIDE DEF g
  <2>9. EffectSound(g)
    BY <2>2, <2>7, <2>8, Zenon DEF EffectSound
  <2>10. Update(i, f) \/ Update(i, g)
    BY <2>3, <2>4, <2>6, Zenon DEF g
  <2> QED
    BY <2>6, <2>7, <2>9, <2>10, UpdateKeeps
<1>7. CASE RunAgain
  <2>1. PICK e \in RunFor(feed, node') :
           effect' = Append([effect EXCEPT ![Current] = Cleanup(@)], e)
    BY <1>7 DEF RunAgain
  <2>2. /\ mounted /\ mounted' = mounted /\ feed' = feed
        /\ effect \in Seq(Effect) /\ effect # <<>> /\ HookShape
    BY <1>7 DEF RunAgain, FeedInv
  <2>3. Current \in DOMAIN effect /\ DOMAIN effect = 1..Len(effect)
    BY <2>2 DEF Current
  <2>4. PICK d \in Effect : d = Cleanup(effect[Current]) /\ EffectSound(d)
    BY <1>1, <2>3, CleanupSound
  <2>5. e \in Effect /\ EffectSound(e)
    BY <2>2, RunForSound
  <2>6. effect' = Append([effect EXCEPT ![Current] = d], e)
    BY <2>1, <2>4
  <2>7. /\ effect' \in Seq(Effect) /\ effect' # <<>>
        /\ \A j \in DOMAIN effect' :
              effect'[j] \in {d, e} \/ (j \in DOMAIN effect /\ effect'[j] = effect[j])
    BY <2>2, <2>3, <2>4, <2>5, <2>6
  <2>8. ASSUME NEW j \in DOMAIN effect' PROVE EffectSound(effect[j])'
    <3>1. PICK f : f = effect'[j] /\ EffectSound(f)
      BY <1>1, <2>4, <2>5, <2>7, Zenon
    <3> QED
      BY <2>2, <3>1, Zenon DEF EffectSound
  <2>9. HookShape'
    BY <2>2 DEF HookShape
  <2> QED
    BY <2>7, <2>8, <2>9 DEF FeedInv
<1>8. CASE Unmount
  <2>1. /\ mounted /\ mounted' = FALSE /\ feed' = feed
        /\ effect \in Seq(Effect) /\ effect # <<>> /\ HookShape
    BY <1>8 DEF Unmount, FeedInv
  <2>2. Current \in DOMAIN effect /\ DOMAIN effect = 1..Len(effect)
    BY <2>1 DEF Current
  <2>3. PICK d \in Effect : d = Cleanup(effect[Current]) /\ EffectSound(d)
    BY <1>1, <2>2, CleanupSound
  <2>4. effect' = [effect EXCEPT ![Current] = d]
    BY <1>8, <2>3 DEF Unmount
  <2>5. /\ effect' \in Seq(Effect) /\ effect' # <<>> /\ DOMAIN effect' = DOMAIN effect
        /\ \A j \in DOMAIN effect' : effect'[j] = d \/ effect'[j] = effect[j]
    BY <2>1, <2>2, <2>3, <2>4
  <2>6. ASSUME NEW j \in DOMAIN effect' PROVE EffectSound(effect[j])'
    <3>1. PICK f : f = effect'[j] /\ EffectSound(f)
      BY <1>1, <2>3, <2>5, Zenon
    <3> QED
      BY <2>1, <3>1, Zenon DEF EffectSound
  <2>7. HookShape'
    BY <2>1 DEF HookShape
  <2> QED
    BY <2>1, <2>5, <2>6, <2>7 DEF FeedInv
<1> QED
  BY <1>2, <1>3, <1>4, <1>5, <1>6, <1>7, <1>8 DEF FeedNext, Browser

LEMMA FeedInitInv == FeedInit => FeedInv
<1> SUFFICES ASSUME FeedInit PROVE FeedInv
  OBVIOUS
<1>1. CASE effect = <<>> /\ mounted = FALSE
  BY <1>1 DEF FeedInv
<1>2. ASSUME NEW v \in Views, feed = v[1], NEW e \in RunFor(v[1], v[2]), effect = <<e>>
      PROVE  FeedInv
  <2>1. HookShape
    BY <1>2, ViewHooks
  <2>2. e \in Effect /\ EffectSound(e)
    BY <1>2, <2>1, RunForSound
  <2>3. effect \in Seq(Effect) /\ effect # <<>> /\ \A i \in DOMAIN effect : effect[i] = e
    BY <1>2, <2>2
  <2> QED
    BY <2>1, <2>2, <2>3, Zenon DEF FeedInv
<1> QED
  BY <1>1, <1>2, Zenon DEF FeedInit

-----------------------------------------------------------------------------
(* The lists of the console *)

LEMMA FrameBounds == View \in Nat /\ NearEnd \in Nat /\ MaxEntries \in Nat
BY ConsoleFrameAssumption

LEMMA FrameInitInv == FrameInit => FrameInv
<1> SUFFICES ASSUME FrameInit PROVE FrameInv
  OBVIOUS
<1>1. len \in 0..MaxEntries /\ below \in 0..Over(len)
  BY FrameBounds DEF FrameInit, Over
<1> QED
  BY <1>1 DEF FrameInit, FrameInv, ReaderLeftAlone

\* The pane shows another item, or goes on showing this one.
LEMMA PresentKeeps == ASSUME FrameInv, NEW i, Present(i) PROVE FrameInv'
<1>1. CASE i = item
  BY <1>1 DEF Present, listVars, FrameInv, Over, Near, LogsShown, TimelineShown, ReaderLeftAlone
<1>2. CASE i # item
  <2>1. Fresh
    BY <1>2 DEF Present
  <2>2. len' \in 0..MaxEntries /\ below' \in 0..Over(len')
    BY <2>1, FrameBounds DEF Fresh, Over
  <2> QED
    BY <2>1, <2>2 DEF Fresh, FrameInv, ReaderLeftAlone
<1> QED
  BY <1>1, <1>2

\* More entries come below the reader, and none goes.
LEMMA MoreBelow ==
    ASSUME FrameInv, len' \in 0..MaxEntries, below' \in 0..Over(len'), below' >= below,
           UNCHANGED <<item, auto, away, bottom, timer, frame, reading>>,
           scrolled' = scrolled \/ scrolled' = TRUE
    PROVE  FrameInv'
<1>1. reading' => ~Near(below')
  BY FrameBounds DEF FrameInv, Near, Over
<1> QED
  BY <1>1 DEF FrameInv, LogsShown, TimelineShown, ReaderLeftAlone

\* Entries that are appended to a list that is not full.
LEMMA EntryAppended ==
    ASSUME FrameInv
    PROVE  LET n == Least(len + 1, MaxEntries)
           IN  /\ n \in 0..MaxEntries
               /\ below + Over(n) - Over(len) \in 0..Over(n)
               /\ below + Over(n) - Over(len) >= below
               /\ Least(below + 1, Over(len)) \in 0..Over(len)
               /\ Least(below + 1, Over(len)) >= below
BY FrameBounds DEF FrameInv, Least, Over

LEMMA FrameNextKeeps == FrameInv /\ FrameNext => FrameInv'
<1> SUFFICES ASSUME FrameInv, FrameNext PROVE FrameInv'
  OBVIOUS
<1> USE FrameBounds
<1>1. ASSUME NEW i \in Item, SelectItem(i) PROVE FrameInv'
  BY <1>1, PresentKeeps DEF SelectItem
<1>2. ASSUME NEW n \in Node, OpenNode(n) PROVE FrameInv'
  BY <1>2, PresentKeeps DEF OpenNode
<1>3. CASE Deselect
  BY <1>3, PresentKeeps DEF Deselect
<1>4. CASE Back
  BY <1>4, PresentKeeps DEF Back
<1>5. CASE ToggleSidebar
  BY <1>5 DEF ToggleSidebar, listVars, FrameInv, Over, Near, LogsShown, TimelineShown,
              ReaderLeftAlone
<1>6. CASE LogArrives
  <2>1. CASE UNCHANGED <<len, below>>
    BY <1>6, <2>1, MoreBelow DEF LogArrives, FrameInv
  <2>2. CASE /\ len' = Least(len + 1, MaxEntries)
             /\ below' = IF len = MaxEntries THEN Least(below + 1, Over(len))
                         ELSE below + Over(len') - Over(len)
    <3>1. len = MaxEntries => len' = len
      BY <2>2 DEF Least
    <3>2. len' \in 0..MaxEntries /\ below' \in 0..Over(len') /\ below' >= below
      BY <2>2, <3>1, EntryAppended
    <3> QED
      BY <1>6, <3>2, MoreBelow DEF LogArrives
  <2> QED
    BY <1>6, <2>1, <2>2 DEF LogArrives
<1>7. CASE EventArrives
  <2>1. len' \in 0..MaxEntries /\ below' \in 0..Over(len') /\ below' >= below
    <3>1. CASE len < MaxEntries /\ len' = len + 1 /\ below' = below + Over(len') - Over(len)
      BY <3>1 DEF FrameInv, Over
    <3>2. CASE len = MaxEntries /\ Top > 0 /\ below' = below + 1 /\ len' = len
      BY <3>2 DEF FrameInv, Over, Top
    <3> QED
      BY <1>7, <3>1, <3>2 DEF EventArrives
  <2> QED
    BY <1>7, <2>1, MoreBelow DEF EventArrives
<1>8. CASE Filter
  <2>1. PICK n \in 0..MaxEntries : Filtered(n)
    BY <1>8 DEF Filter
  <2>2. len' \in 0..MaxEntries /\ below' \in 0..Over(len')
    BY <2>1 DEF Filtered, FrameInv, Over, Top, Least
  <2>3. (reading' => reading /\ ~Near(below')) /\ (scrolled => scrolled')
    BY <2>1 DEF Filtered
  <2>4. UNCHANGED <<item, away, bottom, timer, frame>>
    BY <1>8 DEF Filter
  <2> QED
    BY <2>2, <2>3, <2>4 DEF FrameInv, LogsShown, TimelineShown, ReaderLeftAlone
<1>9. CASE ToggleAutoScroll
  BY <1>9 DEF ToggleAutoScroll, FrameInv, Over, Near, LogsShown, TimelineShown, ReaderLeftAlone
<1>10. CASE ReaderScrolls
  <2>1. below' \in 0..Over(len') /\ len' = len
    BY <1>10 DEF ReaderScrolls
  <2> QED
    BY <1>10, <2>1 DEF ReaderScrolls, FrameInv, LogsShown, TimelineShown, ReaderLeftAlone
<1>11. CASE LogsScrolled
  <2>1. below' \in 0..Over(len') /\ len' = len
    BY <1>11 DEF LogsScrolled, FrameInv, Over
  <2>2. (reading' => ~Near(below')) /\ (reading' => away') /\ ~TimelineShown'
    BY <1>11 DEF LogsScrolled, FrameInv, Near, LogsShown, TimelineShown, Node
  <2> QED
    BY <1>11, <2>1, <2>2 DEF LogsScrolled, FrameInv, LogsShown, TimelineShown, ReaderLeftAlone
<1>12. CASE TimelineScrolled
  <2>1. below' \in 0..Over(len') /\ len' = len
    BY <1>12 DEF TimelineScrolled, FrameInv, Over
  <2>2. (reading' => ~Near(below')) /\ ~LogsShown' /\ TimelineShown'
    BY <1>12 DEF TimelineScrolled, FrameInv, Near, LogsShown, TimelineShown, Node
  <2>3. reading' => ~bottom'
    BY <1>12, <2>2 DEF TimelineScrolled, Near
  <2> QED
    BY <1>12, <2>1, <2>2, <2>3 DEF TimelineScrolled, FrameInv, ReaderLeftAlone
<1>13. CASE TwoSecondsPass
  <2>1. below' \in 0..Over(len') /\ len' = len
    BY <1>13 DEF TwoSecondsPass, FrameInv, Over
  <2>2. (reading' => ~Near(below')) /\ ~LogsShown'
    BY <1>13 DEF TwoSecondsPass, FrameInv, Near, LogsShown, TimelineShown, Node
  <2>3. reading' => ~bottom'
    BY <1>13, <2>2 DEF TwoSecondsPass, Near
  <2> QED
    BY <1>13, <2>1, <2>2, <2>3 DEF TwoSecondsPass, FrameInv, ReaderLeftAlone
<1>14. CASE AskForFrame
  <2>1. below' \in 0..Over(len') /\ len' = len
    BY <1>14 DEF AskForFrame, FrameInv, Over
  <2>2. Following => ~(reading /\ ~scrolled)
    BY DEF FrameInv, Following
  <2>3. frame' # "unwanted"
    BY <1>14, <2>2 DEF AskForFrame, FrameInv, ReaderLeftAlone
  <2> QED
    BY <1>14, <2>1, <2>3 DEF AskForFrame, FrameInv, Near, LogsShown, TimelineShown, ReaderLeftAlone
<1>15. CASE ScrollToEnd
  <2>1. below' \in 0..Over(len') /\ len' = len
    BY <1>15 DEF ScrollToEnd, FrameInv, Over
  <2> QED
    BY <1>15, <2>1 DEF ScrollToEnd, FrameInv, TimelineShown, ReaderLeftAlone
<1> QED
  BY <1>1, <1>2, <1>3, <1>4, <1>5, <1>6, <1>7, <1>8, <1>9, <1>10, <1>11, <1>12, <1>13, <1>14,
     <1>15 DEF FrameNext

-----------------------------------------------------------------------------
(* The command logs *)

LEMMA TermBounds == KeepLogs \in Nat /\ MaxCommands \in Nat
BY CommandTerminalAssumption

\* t is s without its first d entries.
Without(d, s, t) ==
    /\ Len(s) = Len(t) + d
    /\ \A k \in 1..Len(t) : t[k] = s[k + d]

EndOf(t, s) == \E d \in Nat : Without(d, s, t)

LEMMA KeepIsEnd ==
    ASSUME NEW s \in Seq(LogEntry)
    PROVE  Keep(s) \in Seq(LogEntry) /\ Len(Keep(s)) <= KeepLogs /\ EndOf(Keep(s), s)
<1>1. CASE Len(s) <= KeepLogs
  <2>1. Keep(s) = s /\ Without(0, s, s)
    BY <1>1 DEF Keep, Without
  <2> QED
    BY <1>1, <2>1 DEF EndOf
<1>2. CASE ~(Len(s) <= KeepLogs)
  <2>1. Keep(s) = SubSeq(s, Len(s) - KeepLogs + 1, Len(s))
    BY <1>2 DEF Keep
  <2>2. PICK d \in Nat : d = Len(s) - KeepLogs
    BY <1>2, TermBounds
  <2>3. /\ Keep(s) = SubSeq(s, d + 1, Len(s)) /\ Len(s) \in Nat /\ Len(s) - d = KeepLogs
        /\ d + 1 \in 1..Len(s) + 1 /\ KeepLogs \in Nat
    BY <2>1, <2>2, TermBounds
  <2>4. /\ Len(Keep(s)) = KeepLogs /\ Keep(s) \in Seq(LogEntry)
        /\ \A k \in 1..KeepLogs : Keep(s)[k] = s[k + d]
    BY <2>3
  <2>5. Without(d, s, Keep(s))
    BY <2>2, <2>4, TermBounds DEF Without
  <2> QED
    BY <2>4, <2>5, TermBounds DEF EndOf
<1> QED
  BY <1>1, <1>2

\* Entries of the end are entries further on.
LEMMA FurtherOn ==
    ASSUME NEW s \in Seq(LogEntry), NEW t \in Seq(LogEntry), NEW d \in Nat, Without(d, s, t)
    PROVE  /\ \A k \in DOMAIN t : k \in Nat /\ k + d \in DOMAIN s /\ t[k] = s[k + d]
           /\ \A k \in DOMAIN s : k \in Nat /\ (k > d => k - d \in DOMAIN t /\ t[k - d] = s[k])
           /\ Len(s) \in Nat /\ Len(t) \in Nat /\ Len(s) = Len(t) + d
           /\ DOMAIN s = 1..Len(s) /\ DOMAIN t = 1..Len(t)
<1>1. /\ Len(s) \in Nat /\ Len(t) \in Nat /\ Len(s) = Len(t) + d
      /\ DOMAIN s = 1..Len(s) /\ DOMAIN t = 1..Len(t)
  BY DEF Without
<1>2. ASSUME NEW k \in DOMAIN t PROVE k \in Nat /\ k + d \in DOMAIN s /\ t[k] = s[k + d]
  BY <1>1 DEF Without
<1>3. ASSUME NEW k \in DOMAIN s, k > d PROVE k - d \in DOMAIN t /\ t[k - d] = s[k]
  <2>1. k - d \in 1..Len(t) /\ (k - d) + d = k
    BY <1>1, <1>3
  <2> QED
    BY <1>1, <2>1 DEF Without
<1> QED
  BY <1>1, <1>2, <1>3

LEMMA ShiftedBack ==
    ASSUME NEW i \in Nat, NEW j \in Nat, NEW d \in Nat, NEW k \in (j + d)+1..(i + d)-1
    PROVE  k \in Nat /\ k > d /\ k - d \in j+1..i-1
OBVIOUS

\* What holds of a log holds of its end.
LEMMA EndInOrder ==
    ASSUME NEW s \in Seq(LogEntry), NEW t \in Seq(LogEntry), EndOf(t, s), InOrder(s)
    PROVE  InOrder(t)
<1> SUFFICES ASSUME NEW i \in DOMAIN t, NEW j \in DOMAIN t,
                    t[i].type = "reply", t[j].type = "command", t[j].of < t[i].of
             PROVE  \E k \in j+1..i-1 : t[k] = Command(t[i].of)
  BY DEF InOrder
<1>1. PICK d \in Nat : Without(d, s, t)
  BY DEF EndOf
<1>2. /\ i + d \in DOMAIN s /\ j + d \in DOMAIN s /\ t[i] = s[i + d] /\ t[j] = s[j + d]
      /\ i \in Nat /\ j \in Nat
  BY <1>1, FurtherOn
<1>3. PICK k \in (j + d)+1..(i + d)-1 : s[k] = Command(t[i].of)
  BY <1>2 DEF InOrder
<1>4. /\ \A m \in DOMAIN s : m > d => t[m - d] = s[m]
      /\ Len(s) \in Nat /\ DOMAIN s = 1..Len(s)
  BY <1>1, FurtherOn
<1>5. k \in Nat /\ k > d /\ k - d \in j+1..i-1
  BY <1>2, ShiftedBack
<1>6. k \in DOMAIN s
  <2>1. i \in Nat /\ i + d \in 1..Len(s) /\ Len(s) \in Nat /\ k \in Nat /\ k > d
    BY <1>2, <1>4, <1>5
  <2>2. k \in 1..Len(s)
    BY <2>1
  <2> QED
    BY <1>4, <2>2, Zenon
<1>7. t[k - d] = s[k]
  BY <1>4, <1>5, <1>6
<1> QED
  BY <1>3, <1>5, <1>7

LEMMA EndAnswerable ==
    ASSUME NEW s \in Seq(LogEntry), NEW t \in Seq(LogEntry), EndOf(t, s), NEW n, Answerable(s, n)
    PROVE  Answerable(t, n)
<1> SUFFICES ASSUME NEW j \in DOMAIN t, t[j].type = "command", t[j].of < n
             PROVE  \E k \in j+1..Len(t) : t[k] = Command(n)
  BY DEF Answerable
<1>1. PICK d \in Nat : Without(d, s, t)
  BY DEF EndOf
<1>2. /\ j + d \in DOMAIN s /\ t[j] = s[j + d] /\ j \in Nat
      /\ Len(s) \in Nat /\ Len(t) \in Nat /\ Len(s) = Len(t) + d /\ DOMAIN s = 1..Len(s)
  BY <1>1, FurtherOn
<1>3. PICK k \in (j + d)+1..Len(s) : s[k] = Command(n)
  BY <1>2 DEF Answerable
<1>4. k \in Nat /\ k > d /\ k - d \in j+1..Len(t) /\ k \in DOMAIN s
  BY <1>2
<1>5. t[k - d] = s[k]
  BY <1>1, <1>4, FurtherOn
<1> QED
  BY <1>3, <1>4, <1>5

LEMMA EndBounded ==
    ASSUME NEW s \in Seq(LogEntry), NEW t \in Seq(LogEntry), EndOf(t, s), NEW n
    PROVE  (NoneAfter(s, n) => NoneAfter(t, n)) /\ (NoneUpTo(s, n) => NoneUpTo(t, n))
<1>1. PICK d \in Nat : Without(d, s, t)
  BY DEF EndOf
<1>2. ASSUME NEW i \in DOMAIN t PROVE i + d \in DOMAIN s /\ t[i] = s[i + d]
  BY <1>1, FurtherOn
<1> QED
  BY <1>2 DEF NoneAfter, NoneUpTo

\* t is s, except for how entries that are not yet complete are marked.
SameBut(t, s) ==
    /\ DOMAIN t = DOMAIN s
    /\ \A i \in DOMAIN s : /\ t[i].of = s[i].of /\ t[i].type = s[i].type
                           /\ s[i].streaming = "no" => t[i] = s[i]

LEMMA SameLog ==
    ASSUME NEW s \in Seq(LogEntry), NEW t \in Seq(LogEntry), SameBut(t, s)
    PROVE  /\ InOrder(s) => InOrder(t)
           /\ \A n : Answerable(s, n) => Answerable(t, n)
           /\ \A n : NoneAfter(s, n) => NoneAfter(t, n)
           /\ \A n : NoneUpTo(s, n) => NoneUpTo(t, n)
<1>1. Len(t) = Len(s) /\ DOMAIN s = 1..Len(s) /\ DOMAIN t = 1..Len(s) /\ Len(s) \in Nat
  BY DEF SameBut
<1>2. ASSUME NEW n, NEW k \in DOMAIN s, s[k] = Command(n) PROVE t[k] = Command(n)
  BY <1>2 DEF SameBut, Command
<1>3. ASSUME InOrder(s) PROVE InOrder(t)
  <2> SUFFICES ASSUME NEW i \in DOMAIN t, NEW j \in DOMAIN t,
                      t[i].type = "reply", t[j].type = "command", t[j].of < t[i].of
               PROVE  \E k \in j+1..i-1 : t[k] = Command(t[i].of)
    BY DEF InOrder
  <2>1. PICK k \in j+1..i-1 : s[k] = Command(t[i].of)
    BY <1>1, <1>3 DEF SameBut, InOrder
  <2>2. k \in DOMAIN s
    BY <1>1
  <2> QED
    BY <1>2, <2>1, <2>2
<1>4. ASSUME NEW n, Answerable(s, n) PROVE Answerable(t, n)
  <2> SUFFICES ASSUME NEW j \in DOMAIN t, t[j].type = "command", t[j].of < n
               PROVE  \E k \in j+1..Len(t) : t[k] = Command(n)
    BY DEF Answerable
  <2>1. PICK k \in j+1..Len(s) : s[k] = Command(n)
    BY <1>1, <1>4 DEF SameBut, Answerable
  <2>2. k \in DOMAIN s
    BY <1>1
  <2> QED
    BY <1>1, <1>2, <2>1, <2>2
<1>5. \A n : (NoneAfter(s, n) => NoneAfter(t, n)) /\ (NoneUpTo(s, n) => NoneUpTo(t, n))
  BY DEF SameBut, NoneAfter, NoneUpTo
<1> QED
  BY <1>3, <1>4, <1>5

\* A command is appended that is newer than every entry.
LEMMA CommandAppended ==
    ASSUME NEW s \in Seq(LogEntry), NEW m \in Nat, NEW n \in 1..MaxCommands, m < n,
           InOrder(s), NoneAfter(s, m)
    PROVE  LET t == Append(s, Command(n))
           IN  /\ t \in Seq(LogEntry) /\ InOrder(t) /\ NoneAfter(t, n) /\ Answerable(t, n)
               /\ \A p \in 1..m : Answerable(s, p) => Answerable(t, p)
<1> DEFINE t == Append(s, Command(n))
           c == Command(n)
<1>1. c \in LogEntry /\ c.of = n /\ c.type = "command"
  BY DEF Command, LogEntry
<1>2. c = Command(n) /\ t = Append(s, c)
  OBVIOUS
<1> HIDE DEF c, t
<1>3. /\ t \in Seq(LogEntry) /\ Len(t) = Len(s) + 1 /\ Len(s) \in Nat /\ t[Len(s) + 1] = c
      /\ DOMAIN t = 1..Len(s) + 1 /\ DOMAIN s = 1..Len(s)
      /\ \A k \in DOMAIN s : t[k] = s[k] /\ s[k].of \in Nat /\ s[k].of <= m
  <2>1. ASSUME NEW k \in DOMAIN s PROVE s[k].of \in Nat
    <3>1. s[k] \in LogEntry
      OBVIOUS
    <3> QED
      BY <3>1, TermBounds DEF LogEntry
  <2> QED
    BY <1>1, <1>2, <2>1 DEF NoneAfter
<1>4. InOrder(t)
  <2> SUFFICES ASSUME NEW i \in DOMAIN t, NEW j \in DOMAIN t,
                      t[i].type = "reply", t[j].type = "command", t[j].of < t[i].of
               PROVE  \E k \in j+1..i-1 : t[k] = Command(t[i].of)
    BY DEF InOrder
  <2>1. i \in DOMAIN s
    BY <1>1, <1>2, <1>3
  <2>2. j \in DOMAIN s
    BY <1>1, <1>2, <1>3, <2>1
  <2>3. PICK k \in j+1..i-1 : s[k] = Command(t[i].of)
    BY <1>3, <2>1, <2>2 DEF InOrder
  <2> QED
    BY <1>3, <2>1, <2>2, <2>3
<1>5. NoneAfter(t, n)
  BY <1>1, <1>2, <1>3 DEF NoneAfter
<1>6. Answerable(t, n)
  <2> SUFFICES ASSUME NEW j \in DOMAIN t, t[j].type = "command", t[j].of < n
               PROVE  \E k \in j+1..Len(t) : t[k] = Command(n)
    BY DEF Answerable
  <2>1. j # Len(s) + 1
    BY <1>1, <1>2, <1>3
  <2>2. Len(s) + 1 \in j+1..Len(t)
    BY <1>3, <2>1
  <2> QED
    BY <1>1, <1>2, <1>3, <2>2
<1>7. ASSUME NEW p \in 1..m, Answerable(s, p) PROVE Answerable(t, p)
  <2> SUFFICES ASSUME NEW j \in DOMAIN t, t[j].type = "command", t[j].of < p
               PROVE  \E k \in j+1..Len(t) : t[k] = Command(p)
    BY DEF Answerable
  <2>1. j \in DOMAIN s
    BY <1>1, <1>2, <1>3
  <2>2. PICK k \in j+1..Len(s) : s[k] = Command(p)
    BY <1>3, <1>7, <2>1 DEF Answerable
  <2>3. k \in DOMAIN s /\ k \in j+1..Len(t)
    BY <1>3, <2>1
  <2> QED
    BY <1>3, <2>2, <2>3
<1> QED
  BY <1>3, <1>4, <1>5, <1>6, <1>7 DEF t

\* A reply is appended that may be.
LEMMA ReplyAppended ==
    ASSUME NEW s \in Seq(LogEntry), NEW m \in Nat, NEW n \in 1..MaxCommands, n <= m,
           NEW x \in {"no", "written", "left"},
           InOrder(s), NoneAfter(s, m), Answerable(s, n)
    PROVE  LET t == Append(s, Reply(n, x))
           IN  /\ t \in Seq(LogEntry) /\ InOrder(t) /\ NoneAfter(t, m)
               /\ \A p : Answerable(s, p) => Answerable(t, p)
<1> DEFINE t == Append(s, Reply(n, x))
           c == Reply(n, x)
<1>1. c \in LogEntry /\ c.of = n /\ c.type = "reply"
  BY DEF Reply, LogEntry
<1>2. t = Append(s, c)
  OBVIOUS
<1> HIDE DEF c, t
<1>3. /\ t \in Seq(LogEntry) /\ Len(t) = Len(s) + 1 /\ Len(s) \in Nat /\ t[Len(s) + 1] = c
      /\ DOMAIN t = 1..Len(s) + 1 /\ DOMAIN s = 1..Len(s)
      /\ \A k \in DOMAIN s : t[k] = s[k]
  BY <1>1, <1>2
<1>4. InOrder(t)
  <2> SUFFICES ASSUME NEW i \in DOMAIN t, NEW j \in DOMAIN t,
                      t[i].type = "reply", t[j].type = "command", t[j].of < t[i].of
               PROVE  \E k \in j+1..i-1 : t[k] = Command(t[i].of)
    BY DEF InOrder
  <2>1. j \in DOMAIN s /\ t[j] = s[j]
    BY <1>1, <1>3
  <2>2. CASE i \in DOMAIN s
    <3>1. PICK k \in j+1..i-1 : s[k] = Command(t[i].of)
      BY <1>3, <2>1, <2>2 DEF InOrder
    <3> QED
      BY <1>3, <2>1, <2>2, <3>1
  <2>3. CASE i = Len(s) + 1
    <3>1. PICK k \in j+1..Len(s) : s[k] = Command(n)
      BY <1>1, <1>3, <2>1, <2>3 DEF Answerable
    <3> QED
      BY <1>1, <1>3, <2>1, <2>3, <3>1
  <2> QED
    BY <1>3, <2>2, <2>3
<1>5. NoneAfter(t, m)
  BY <1>1, <1>3 DEF NoneAfter
<1>6. ASSUME NEW p, Answerable(s, p) PROVE Answerable(t, p)
  <2> SUFFICES ASSUME NEW j \in DOMAIN t, t[j].type = "command", t[j].of < p
               PROVE  \E k \in j+1..Len(t) : t[k] = Command(p)
    BY DEF Answerable
  <2>1. j \in DOMAIN s
    BY <1>1, <1>3
  <2>2. PICK k \in j+1..Len(s) : s[k] = Command(p)
    BY <1>3, <1>6, <2>1 DEF Answerable
  <2>3. k \in DOMAIN s /\ k \in j+1..Len(t)
    BY <1>3, <2>1
  <2> QED
    BY <1>3, <2>2, <2>3
<1> QED
  BY <1>3, <1>4, <1>5, <1>6 DEF t

\* The log is set to s: what is stored or due to be is what was, or an end of s.
LEMMA LogsSet ==
    ASSUME NEW s \in Seq(LogEntry), SetLogs(s)
    PROVE  /\ logs' \in Seq(LogEntry) /\ Len(logs') <= KeepLogs /\ EndOf(logs', s)
           /\ stored' \in {stored, unsaved, logs'} /\ unsaved' \in {unsaved, logs'}
BY KeepIsEnd DEF SetLogs, Flushed

LEMMA EndKept ==
    ASSUME NEW s \in Seq(LogEntry), NEW t \in Seq(LogEntry), Len(t) <= KeepLogs, EndOf(t, s),
           NEW m, InOrder(s), NoneAfter(s, m)
    PROVE  KeptLog(t, m)
BY EndInOrder, EndBounded DEF KeptLog

LEMMA KeptLater ==
    ASSUME NEW s, NEW m \in Nat, NEW n \in Nat, m <= n, KeptLog(s, m)
    PROVE  KeptLog(s, n)
<1>1. ASSUME NEW k \in DOMAIN s PROVE s[k].of <= n
  <2>1. s[k] \in LogEntry /\ s[k].of <= m
    BY DEF KeptLog, NoneAfter
  <2>2. s[k].of \in Nat
    BY <2>1, TermBounds DEF LogEntry
  <2> QED
    BY <2>1, <2>2
<1> QED
  BY <1>1 DEF KeptLog, NoneAfter

LEMMA EmptyKept == \A m : KeptLog(<<>>, m) /\ NoneUpTo(<<>>, m) /\ Answerable(<<>>, m)
BY TermBounds DEF KeptLog, InOrder, NoneAfter, NoneUpTo, Answerable

LEMMA LogsAsStated == TermInv => RepliesFollow /\ ClearedForGood
<1> SUFFICES ASSUME TermInv PROVE RepliesFollow /\ ClearedForGood
  OBVIOUS
<1>1. RepliesFollow
  BY DEF TermInv, KeptLog, InOrder, RepliesFollow
<1>2. ClearedForGood
  BY Zenon DEF TermInv, NothingOld, NoneUpTo, ClearedForGood
<1> QED
  BY <1>1, <1>2

\* A step that sets the log to s, whatever else it does to who is awaited.
LEMMA SettingKeeps ==
    ASSUME TermInv, NEW s \in Seq(LogEntry), SetLogs(s), InOrder(s), NoneAfter(s, entered'),
           entered' \in entered..MaxCommands, UNCHANGED <<terminal, cleared, overdue>>,
           shown' \in BOOLEAN, ready' \in BOOLEAN, ready' => shown',
           awaited' \subseteq 1..entered', \A n \in awaited' : Answerable(s, n),
           ~shown' => awaited' = {},
           terminal = Personal => awaited' = {},
           terminal = Personal /\ ~overdue => NoneUpTo(s, cleared)
    PROVE  TermInv'
<1>1. /\ terminal \in Terminals \cup {NoTerminal}
      /\ entered \in 0..MaxCommands /\ cleared \in 0..entered
      /\ KeptLog(stored, entered) /\ KeptLog(unsaved, entered)
  BY DEF TermInv
<1>2. /\ logs' \in Seq(LogEntry) /\ Len(logs') <= KeepLogs /\ EndOf(logs', s)
      /\ stored' \in {stored, unsaved, logs'} /\ unsaved' \in {unsaved, logs'}
  BY LogsSet
<1>3. /\ entered' \in 0..MaxCommands /\ cleared' \in 0..entered'
      /\ entered \in Nat /\ entered <= entered' /\ entered' \in Nat
  BY <1>1, TermBounds
<1>4. KeptLog(logs', entered')
  BY <1>2, EndKept
<1>5. KeptLog(stored', entered') /\ KeptLog(unsaved', entered')
  <2>1. KeptLog(stored, entered') /\ KeptLog(unsaved, entered')
    BY <1>1, <1>3, KeptLater
  <2> QED
    BY <1>2, <1>4, <2>1
<1>6. \A n \in awaited' : Answerable(logs', n)
  BY <1>2, EndAnswerable
<1>7. ASSUME terminal' = Personal, ~overdue' PROVE NothingOld'
  <2>1. NothingOld /\ NoneUpTo(s, cleared)
    BY <1>7, Zenon DEF TermInv
  <2>2. NoneUpTo(logs', cleared)
    BY <1>2, <2>1, EndBounded
  <2>3. /\ NoneUpTo(stored, cleared) /\ NoneUpTo(unsaved, cleared) /\ cleared' = cleared
    BY <2>1 DEF NothingOld
  <2>4. NoneUpTo(stored', cleared) /\ NoneUpTo(unsaved', cleared)
    BY <1>2, <2>2, <2>3
  <2> QED
    BY <2>2, <2>3, <2>4, Zenon DEF NothingOld
<1>8. terminal' \in Terminals \cup {NoTerminal} /\ (terminal' = Personal => awaited' = {})
  BY <1>1
<1> QED
  BY <1>3, <1>4, <1>5, <1>6, <1>7, <1>8, Zenon DEF TermInv

LEMMA TerminalKinds ==
    /\ Console # Personal /\ Federation # Personal /\ EventFeed # Personal
    /\ "storage" \in Personal.clears
BY DEF Console, Federation, EventFeed, Personal

LEMMA TermInitInv == TermInit => TermInv
<1> SUFFICES ASSUME TermInit PROVE TermInv
  OBVIOUS
<1>1. /\ terminal \in Terminals \cup {NoTerminal} /\ shown = FALSE /\ ready = FALSE
      /\ logs = <<>> /\ stored = <<>> /\ unsaved = <<>> /\ awaited = {}
      /\ entered = 0 /\ cleared = 0
  BY DEF TermInit
<1>2. entered \in 0..MaxCommands /\ cleared \in 0..entered /\ awaited \subseteq 1..entered
  BY <1>1, TermBounds
<1>3. KeptLog(logs, entered) /\ KeptLog(stored, entered) /\ KeptLog(unsaved, entered) /\ NothingOld
  BY <1>1, EmptyKept, Zenon DEF NothingOld
<1> QED
  BY <1>1, <1>2, <1>3, Zenon DEF TermInv

\* What is loaded is what was stored.
LEMMA LoadedSame ==
    ASSUME NEW s \in Seq(LogEntry),
           NEW t, t = [i \in DOMAIN s |->
                          [s[i] EXCEPT !.streaming = IF @ = "no" THEN "no" ELSE "left"]]
    PROVE  t \in Seq(LogEntry) /\ SameBut(t, s)
<1>1. ASSUME NEW i \in DOMAIN s
      PROVE  t[i] \in LogEntry /\ t[i].of = s[i].of /\ t[i].type = s[i].type
             /\ (s[i].streaming = "no" => t[i] = s[i])
  <2>1. PICK e \in LogEntry : e = s[i]
    OBVIOUS
  <2>2. PICK x : x = IF e.streaming = "no" THEN "no" ELSE "left"
    OBVIOUS
  <2>3. t[i] = [e EXCEPT !.streaming = x]
    BY <2>1, <2>2, Zenon
  <2>4. x \in {"no", "left"} /\ (e.streaming = "no" => x = e.streaming)
    BY <2>2
  <2>5. PICK f : f = [e EXCEPT !.streaming = x]
    OBVIOUS
  <2>6. f \in LogEntry /\ f.of = e.of /\ f.type = e.type /\ f.streaming = x
    BY <2>4, <2>5 DEF LogEntry
  <2>7. x = e.streaming => f = e
    BY <2>6 DEF LogEntry
  <2> QED
    BY <2>1, <2>3, <2>4, <2>5, <2>6, <2>7, Zenon
<1>2. DOMAIN t = DOMAIN s /\ DOMAIN s = 1..Len(s) /\ Len(s) \in Nat
  OBVIOUS
<1>3. t \in Seq(LogEntry)
  <2>1. t = [i \in 1..Len(s) |-> t[i]]
    BY <1>2
  <2> QED
    BY <1>1, <1>2, <2>1
<1> QED
  BY <1>1, <1>2, <1>3 DEF SameBut

LEMMA StreamedSame ==
    ASSUME NEW s \in Seq(LogEntry), NEW J, \A i \in J : s[i].streaming = "written",
           NEW x \in {"written", "no"}, NEW t, t = [i \in DOMAIN s |->
                          IF i \in J THEN [s[i] EXCEPT !.streaming = x] ELSE s[i]]
    PROVE  t \in Seq(LogEntry) /\ SameBut(t, s)
<1>1. ASSUME NEW i \in DOMAIN s
      PROVE  t[i] \in LogEntry /\ t[i].of = s[i].of /\ t[i].type = s[i].type
             /\ (s[i].streaming = "no" => t[i] = s[i])
  <2>1. PICK e \in LogEntry : e = s[i]
    OBVIOUS
  <2>2. t[i] = IF i \in J THEN [e EXCEPT !.streaming = x] ELSE e
    BY <2>1
  <2>3. e.streaming = "no" => i \notin J
    BY <2>1
  <2> QED
    BY <2>1, <2>2, <2>3 DEF LogEntry
<1>2. DOMAIN t = DOMAIN s /\ DOMAIN s = 1..Len(s) /\ Len(s) \in Nat
  OBVIOUS
<1>3. t \in Seq(LogEntry)
  <2>1. t = [i \in 1..Len(s) |-> t[i]]
    BY <1>2
  <2> QED
    BY <1>1, <1>2, <2>1
<1> QED
  BY <1>1, <1>2, <1>3 DEF SameBut

LEMMA ShowKeeps == TermInv /\ Show => TermInv'
<1> SUFFICES ASSUME TermInv, Show PROVE TermInv'
  OBVIOUS
<1>1. PICK s : s = stored
  OBVIOUS
<1>2. PICK t : t = [i \in DOMAIN s |->
                       [s[i] EXCEPT !.streaming = IF @ = "no" THEN "no" ELSE "left"]]
  OBVIOUS
<1>3. SetLogs(t)
  BY <1>1, <1>2, Zenon DEF Show, Load
<1>4. s \in Seq(LogEntry) /\ InOrder(s) /\ NoneAfter(s, entered)
  BY <1>1, Zenon DEF TermInv, KeptLog
<1>5. t \in Seq(LogEntry) /\ SameBut(t, s)
  BY <1>2, <1>4, LoadedSame
<1>6. InOrder(t) /\ NoneAfter(t, entered) /\ (NoneUpTo(s, cleared) => NoneUpTo(t, cleared))
  BY <1>4, <1>5, SameLog
<1>7. /\ shown' = TRUE /\ terminal' = terminal /\ awaited' = awaited /\ entered' = entered
      /\ cleared' = cleared /\ awaited = {} /\ entered' \in entered..MaxCommands
      /\ overdue' = overdue
  BY TermBounds DEF Show, TermInv
<1>8. ready' \in BOOLEAN
  BY Zenon DEF Show, ReadyAtOnce
<1>9. terminal = Personal /\ ~overdue => NoneUpTo(t, cleared)
  BY <1>1, <1>6, Zenon DEF TermInv, NothingOld
<1> QED
  BY <1>3, <1>5, <1>6, <1>7, <1>8, <1>9, SettingKeeps

\* The steps that enter a command: it is the newest, and everything awaited is older.
LEMMA Entering ==
    ASSUME TermInv, Enter
    PROVE  /\ entered \in Nat /\ entered' \in 1..MaxCommands /\ entered < entered'
           /\ entered' \in entered..MaxCommands
           /\ shown' = TRUE /\ ready' = TRUE /\ terminal' = terminal /\ shown = TRUE
           /\ awaited \subseteq 1..entered /\ awaited \subseteq 1..entered'
           /\ cleared \in 0..entered /\ entered' \in Nat
BY TermBounds DEF TermInv, Enter

LEMMA LoggedCommandKeeps ==
    ASSUME TermInv, Enter, terminal # Personal, SetLogs(Append(logs, Command(entered'))),
           awaited' \in {awaited, awaited \cup {entered'}}, UNCHANGED <<cleared, overdue>>
    PROVE  TermInv'
<1>1. PICK n : n = entered'
  OBVIOUS
<1>2. PICK s : s = Append(logs, Command(n))
  OBVIOUS
<1>3. logs \in Seq(LogEntry) /\ InOrder(logs) /\ NoneAfter(logs, entered)
  BY DEF TermInv, KeptLog
<1>4. n \in 1..MaxCommands /\ entered \in Nat /\ entered < n
  BY <1>1, Entering
<1>5. /\ s \in Seq(LogEntry) /\ InOrder(s) /\ NoneAfter(s, n) /\ Answerable(s, n)
      /\ \A p \in 1..entered : Answerable(logs, p) => Answerable(s, p)
  BY <1>2, <1>3, <1>4, CommandAppended
<1>6. \A p \in awaited' : Answerable(s, p)
  BY <1>1, <1>5 DEF TermInv
<1>7. awaited' \subseteq 1..entered'
  BY Entering
<1>8. SetLogs(s)
  BY <1>1, <1>2
<1> QED
  BY <1>1, <1>5, <1>6, <1>7, <1>8, Entering, SettingKeeps

LEMMA AnsweredCommandKeeps ==
    ASSUME TermInv, Enter, NEW x \in {"no", "written", "left"},
           SetLogs(logs \o <<Command(entered'), Reply(entered', x)>>),
           awaited' = awaited, UNCHANGED <<cleared, overdue>>
    PROVE  TermInv'
<1>1. PICK n : n = entered'
  OBVIOUS
<1>2. PICK s : s = Append(logs, Command(n))
  OBVIOUS
<1>3. PICK t : t = Append(s, Reply(n, x))
  OBVIOUS
<1>4. logs \in Seq(LogEntry) /\ InOrder(logs) /\ NoneAfter(logs, entered)
  BY DEF TermInv, KeptLog
<1>5. n \in 1..MaxCommands /\ entered \in Nat /\ entered < n /\ n \in Nat /\ n <= n
  BY <1>1, Entering
<1>6. /\ s \in Seq(LogEntry) /\ InOrder(s) /\ NoneAfter(s, n) /\ Answerable(s, n)
      /\ \A p \in 1..entered : Answerable(logs, p) => Answerable(s, p)
  BY <1>2, <1>4, <1>5, CommandAppended
<1>7. /\ t \in Seq(LogEntry) /\ InOrder(t) /\ NoneAfter(t, n)
      /\ \A p : Answerable(s, p) => Answerable(t, p)
  BY <1>3, <1>5, <1>6, ReplyAppended
<1>8. \A p \in awaited' : Answerable(t, p)
  BY <1>6, <1>7 DEF TermInv
<1>9. SetLogs(t)
  <2>1. PICK c : c = Command(n)
    OBVIOUS
  <2>2. PICK r : r = Reply(n, x)
    OBVIOUS
  <2>3. c \in LogEntry /\ r \in LogEntry
    BY <1>5, <2>1, <2>2 DEF Command, Reply, LogEntry
  <2>4. logs \o <<c, r>> = Append(Append(logs, c), r)
    BY <1>4, <2>3
  <2> QED
    BY <1>1, <1>2, <1>3, <2>1, <2>2, <2>4
<1>10. ASSUME terminal = Personal, ~overdue PROVE NoneUpTo(t, cleared)
  <2>1. NoneUpTo(logs, cleared)
    BY <1>10, Zenon DEF TermInv, NothingOld
  <2>2. \A i \in DOMAIN t : (i \in DOMAIN logs /\ t[i] = logs[i]) \/ t[i].of = n
    BY <1>2, <1>3, <1>4 DEF Command, Reply
  <2>3. n > cleared
    BY <1>1, <1>5, Entering
  <2> QED
    BY <2>1, <2>2, <2>3 DEF NoneUpTo
<1>11. terminal = Personal => awaited' = {}
  BY DEF TermInv
<1> QED
  BY <1>1, <1>7, <1>8, <1>9, <1>10, <1>11, Entering, SettingKeeps

LEMMA ClearScreenKeeps == TermInv /\ ClearScreen => TermInv'
<1> SUFFICES ASSUME TermInv, ClearScreen PROVE TermInv'
  OBVIOUS
<1>1. PICK n : n = entered'
  OBVIOUS
<1>2. PICK s : s = Append(logs, Command(n))
  OBVIOUS
<1>3. logs \in Seq(LogEntry) /\ InOrder(logs) /\ NoneAfter(logs, entered)
  BY DEF TermInv, KeptLog
<1>4. Enter /\ terminal # Personal
  BY TerminalKinds DEF ClearScreen
<1>5. n \in 1..MaxCommands /\ entered \in Nat /\ entered < n
  BY <1>1, <1>4, Entering
<1>6. s \in Seq(LogEntry) /\ InOrder(s) /\ NoneAfter(s, n)
  BY <1>2, <1>3, <1>5, CommandAppended
<1>7. /\ stored' \in {stored, unsaved} /\ unsaved' = Keep(s)
      /\ logs' = <<>> /\ cleared' = n /\ awaited' = awaited
  BY <1>1, <1>2 DEF ClearScreen, Flushed
<1>8. KeptLog(stored', n) /\ KeptLog(unsaved', n)
  <2>1. KeptLog(stored, n) /\ KeptLog(unsaved, n)
    BY <1>5, KeptLater DEF TermInv
  <2> QED
    BY <1>6, <1>7, <2>1, KeepIsEnd, EndKept
<1>9. KeptLog(logs', n) /\ \A p \in awaited' : Answerable(logs', p)
  BY <1>7, EmptyKept
<1>10. terminal \in Terminals \cup {NoTerminal}
  BY DEF TermInv
<1>11. /\ terminal' = terminal /\ shown' = TRUE /\ ready' = TRUE
       /\ entered' \in 0..MaxCommands /\ cleared' \in 0..entered' /\ awaited' \subseteq 1..entered'
  BY <1>1, <1>4, <1>5, <1>7, Entering, TermBounds
<1> QED
  BY <1>1, <1>4, <1>8, <1>9, <1>10, <1>11, Zenon DEF TermInv

LEMMA ClearLogsKeeps == TermInv /\ ClearLogs => TermInv'
<1> SUFFICES ASSUME TermInv, ClearLogs PROVE TermInv'
  OBVIOUS
<1>1. PICK n : n = entered'
  OBVIOUS
<1>2. Enter
  BY DEF ClearLogs
<1>3. n \in 1..MaxCommands /\ entered \in Nat /\ entered < n
  BY <1>1, <1>2, Entering
<1>4. /\ stored' = <<>> /\ logs' = <<>> /\ cleared' = n /\ awaited' = awaited
      /\ unsaved' \in {unsaved, <<>>} /\ overdue' = (unsaved' # <<>>)
  BY <1>1 DEF ClearLogs
<1>5. /\ KeptLog(logs', n) /\ KeptLog(stored', n) /\ \A p \in awaited' : Answerable(logs', p)
      /\ NoneUpTo(logs', n) /\ NoneUpTo(stored', n) /\ NoneUpTo(<<>>, n)
  BY <1>4, EmptyKept
<1>6. KeptLog(unsaved', n)
  <2>1. KeptLog(unsaved, n)
    BY <1>3, KeptLater DEF TermInv
  <2> QED
    BY <1>4, <2>1, EmptyKept
<1>7. ~overdue' => NothingOld'
  BY <1>4, <1>5, Zenon DEF NothingOld
<1>8. terminal \in Terminals \cup {NoTerminal} /\ (terminal = Personal => awaited = {})
  BY DEF TermInv
<1>9. /\ terminal' = terminal /\ shown' = TRUE /\ ready' = TRUE
      /\ entered' \in 0..MaxCommands /\ cleared' \in 0..entered' /\ awaited' \subseteq 1..entered'
  BY <1>1, <1>2, <1>3, <1>4, Entering, TermBounds
<1> QED
  BY <1>1, <1>4, <1>5, <1>6, <1>7, <1>8, <1>9, Zenon DEF TermInv

LEMMA AnsweredKeeps ==
    ASSUME TermInv, NEW n \in awaited, Answered(n)
    PROVE  TermInv'
<1>1. PICK x \in {"no", "written", "left"} : SetLogs(Append(logs, Reply(n, x)))
  BY DEF Answered
<1>2. PICK s : s = Append(logs, Reply(n, x))
  OBVIOUS
<1>3. /\ logs \in Seq(LogEntry) /\ InOrder(logs) /\ NoneAfter(logs, entered)
      /\ entered \in 0..MaxCommands /\ awaited \subseteq 1..entered /\ Answerable(logs, n)
      /\ shown = TRUE /\ terminal # Personal /\ ready \in BOOLEAN
  BY DEF TermInv, KeptLog
<1>4. entered \in Nat /\ n \in 1..MaxCommands /\ n <= entered /\ entered \in entered..MaxCommands
  BY <1>3, TermBounds
<1>5. /\ s \in Seq(LogEntry) /\ InOrder(s) /\ NoneAfter(s, entered)
      /\ \A p : Answerable(logs, p) => Answerable(s, p)
  BY <1>2, <1>3, <1>4, ReplyAppended
<1>6. /\ awaited' = awaited \ {n} /\ terminal' = terminal /\ shown' = shown /\ ready' = ready
      /\ entered' = entered /\ cleared' = cleared /\ overdue' = overdue
  BY DEF Answered
<1>7. \A p \in awaited' : Answerable(s, p)
  BY <1>5, <1>6 DEF TermInv
<1>8. SetLogs(s)
  BY <1>1, <1>2
<1> QED
  BY <1>3, <1>4, <1>5, <1>6, <1>7, <1>8, SettingKeeps DEF TermInv

LEMMA StreamedKeeps ==
    ASSUME TermInv, NEW n, NEW x \in {"written", "no"}, Streamed(n, x)
    PROVE  TermInv'
<1>1. PICK J : J = Streaming(n)
  OBVIOUS
<1>2. PICK t : t = [i \in DOMAIN logs |->
                       IF i \in J THEN [logs[i] EXCEPT !.streaming = x] ELSE logs[i]]
  OBVIOUS
<1>3. SetLogs(t)
  BY <1>1, <1>2, Zenon DEF Streamed
<1>4. /\ logs \in Seq(LogEntry) /\ InOrder(logs) /\ NoneAfter(logs, entered)
      /\ entered \in 0..MaxCommands /\ awaited \subseteq 1..entered
      /\ shown \in BOOLEAN /\ ready \in BOOLEAN /\ (ready => shown)
  BY DEF TermInv, KeptLog
<1>5. \A i \in J : logs[i].streaming = "written"
  BY <1>1 DEF Streaming
<1>6. t \in Seq(LogEntry) /\ SameBut(t, logs)
  BY <1>2, <1>4, <1>5, StreamedSame
<1>7. /\ InOrder(t) /\ NoneAfter(t, entered) /\ (NoneUpTo(logs, cleared) => NoneUpTo(t, cleared))
      /\ \A p : Answerable(logs, p) => Answerable(t, p)
  BY <1>4, <1>6, SameLog
<1>8. /\ awaited' = awaited /\ terminal' = terminal /\ shown' = shown /\ ready' = ready
      /\ entered' = entered /\ cleared' = cleared /\ entered' \in entered..MaxCommands
      /\ overdue' = overdue
  BY <1>4, TermBounds DEF Streamed
<1>9. \A p \in awaited' : Answerable(t, p)
  BY <1>7, <1>8 DEF TermInv
<1>10. (~shown' => awaited' = {}) /\ (terminal = Personal => awaited' = {})
  BY <1>8 DEF TermInv
<1>11. terminal = Personal /\ ~overdue => NoneUpTo(t, cleared)
  BY <1>7, Zenon DEF TermInv, NothingOld
<1> QED
  BY <1>3, <1>4, <1>6, <1>7, <1>8, <1>9, <1>10, <1>11, SettingKeeps

LEMMA TermNextKeeps == TermInv /\ TermNext => TermInv'
<1> SUFFICES ASSUME TermInv, TermNext PROVE TermInv'
  OBVIOUS
<1>1. CASE Show
  BY <1>1, ShowKeeps
<1>2. CASE Activate
  <2>1. /\ UNCHANGED <<terminal, logs, stored, unsaved, awaited, entered, cleared, overdue>>
        /\ shown' = shown /\ shown /\ ready' \in BOOLEAN
    BY <1>2 DEF Activate
  <2> QED
    BY <2>1, Zenon DEF TermInv, NothingOld
<1>3. CASE Leave
  <2>1. /\ logs' = <<>> /\ KeptLog(logs', entered) /\ NoneUpTo(logs', cleared)
        /\ awaited' = {} /\ ~shown' /\ ~ready' /\ shown' \in BOOLEAN /\ ready' \in BOOLEAN
        /\ UNCHANGED <<terminal, entered, cleared, overdue>>
        /\ unsaved' = <<>> /\ KeptLog(unsaved', entered) /\ NoneUpTo(unsaved', cleared)
        /\ stored' \in {stored, unsaved}
    BY <1>3, EmptyKept DEF Leave, Flushed
  <2>2. KeptLog(stored', entered) /\ (NothingOld => NoneUpTo(stored', cleared))
    BY <2>1 DEF TermInv, NothingOld
  <2> QED
    BY <2>1, <2>2, Zenon DEF TermInv, NothingOld
<1>4. CASE Route
  BY <1>4, TerminalKinds, LoggedCommandKeeps DEF Route
<1>5. CASE RouteAtOnce
  BY <1>5, AnsweredCommandKeeps DEF RouteAtOnce
<1>6. CASE Delay
  BY <1>6, TerminalKinds, LoggedCommandKeeps DEF Delay, HandleSubmit
<1>7. CASE Answer
  BY <1>7, AnsweredCommandKeeps DEF Answer
<1>8. CASE AddEvent
  BY <1>8, TerminalKinds, LoggedCommandKeeps DEF AddEvent
<1>9. CASE shown /\ (ClearScreen \/ ClearLogs)
  BY <1>9, ClearScreenKeeps, ClearLogsKeeps
<1>10. CASE \E n \in awaited : Answered(n)
  BY <1>10, AnsweredKeeps
<1>11. CASE \E n \in 1..entered, x \in {"written", "no"} : Streamed(n, x)
  BY <1>11, StreamedKeeps
<1>12. CASE Persist
  <2>1. /\ UNCHANGED <<terminal, shown, ready, logs, awaited, entered, cleared, overdue>>
        /\ stored' = unsaved /\ unsaved' = <<>>
        /\ KeptLog(unsaved', entered) /\ NoneUpTo(unsaved', cleared)
    BY <1>12, EmptyKept DEF Persist
  <2> QED
    BY <2>1, Zenon DEF TermInv, NothingOld
<1> QED
  BY <1>1, <1>2, <1>3, <1>4, <1>5, <1>6, <1>7, <1>8, <1>9, <1>10, <1>11, <1>12 DEF TermNext

-----------------------------------------------------------------------------
(* Agent genesis *)

LEMMA StatesKnown ==
    /\ Terminal = {"completed", "failed"} /\ Terminal \subseteq State
    /\ "none" \notin Terminal /\ "status" \notin Terminal
    /\ "validating" \in State \ Terminal
    /\ "forging" \in State \ Terminal /\ "deploying" \in State \ Terminal
BY DEF Terminal, State

LEMMA VerdictsAsStated == ForgeInv => VerdictIsReal
<1> SUFFICES ASSUME ForgeInv, NEW a \in Agent, tracker[a].verdict # "none"
             PROVE  genesis[a] = tracker[a].verdict
  BY DEF VerdictIsReal
<1>1. tracker[a].verdict \in Terminal
  BY DEF ForgeInv, TrackerRight, Tracked
<1> QED
  BY <1>1 DEF ForgeInv, TrackerRight, Truthful

\* What is under way and followed is not disturbed by what it does not depend on.
LEMMA GenesisRightKept == genesis' = genesis => (GenesisRight => GenesisRight')
BY DEF GenesisRight

LEMMA TrackerRightKept ==
    UNCHANGED <<genesis, tracker>> => (TrackerRight => TrackerRight')
BY DEF TrackerRight, Truthful

LEMMA PollsRightKept ==
    ASSUME genesis' = genesis, PollsRight, BagToSet(polls') \subseteq BagToSet(polls)
    PROVE  PollsRight'
BY DEF PollsRight, Truthful

LEMMA WireRightKept == UNCHANGED <<genesis, wire>> => (WireRight => WireRight')
BY DEF WireRight, Truthful

LEMMA WireEmptied == wire' = <<>> => WireRight'
BY DEF WireRight

LEMMA WireTaken ==
    ASSUME genesis' = genesis, WireRight, wire # <<>>, wire' = Tail(wire)
    PROVE  /\ WireRight' /\ Head(wire) \in WireMessage
           /\ Truthful(Head(wire).type, Head(wire).of, Head(wire).status)
<1>1. /\ wire' \in Seq(WireMessage) /\ Head(wire) = wire[1] /\ 1 \in 1..Len(wire)
      /\ wire[1] \in WireMessage
      /\ \A k \in 1..Len(wire') : k + 1 \in 1..Len(wire) /\ wire'[k] = wire[k + 1]
  BY DEF WireRight
<1> QED
  BY <1>1 DEF WireRight, Truthful

LEMMA BagAdded ==
    ASSUME NEW r PROVE BagToSet(polls (+) SetToBag({r})) = BagToSet(polls) \cup {r}
BY DEF (+), SetToBag, BagToSet

LEMMA BagTaken ==
    ASSUME NEW r PROVE BagToSet(polls (-) SetToBag({r})) \subseteq BagToSet(polls)
BY DEF (-), SetToBag, BagToSet

\* The tracking of a is set.
LEMMA TrackerSet ==
    ASSUME TrackerRight, genesis' = genesis, NEW a \in Agent, NEW d \in Tracked,
           tracker' = [tracker EXCEPT ![a] = d], Truthful(d.verdict, a, d.state)
    PROVE  TrackerRight'
<1>1. /\ tracker' \in [Agent -> Tracked] /\ tracker'[a] = d
      /\ \A c \in Agent : c # a => tracker'[c] = tracker[c]
  BY DEF TrackerRight
<1>2. ASSUME NEW c \in Agent PROVE Truthful(tracker[c].verdict, c, tracker[c].state)'
  BY <1>1 DEF TrackerRight, Truthful
<1> QED
  BY <1>1, <1>2 DEF TrackerRight

\* An event that is true takes the tracking to a state that is.
LEMMA TransitionTruthful ==
    ASSUME NEW a, NEW old \in State, old \in Terminal => genesis[a] = old,
           NEW event, event.status \in State, Truthful(event.type, a, event.status)
    PROVE  /\ Transition(old, event) \in State
           /\ Transition(old, event) \in Terminal => genesis[a] = Transition(old, event)
BY StatesKnown DEF Transition, Truthful, State, Terminal

\* The verdict that an event gives is true.
LEMMA VerdictTruthful ==
    ASSUME NEW a, NEW event, NEW state \in State, Truthful(event.type, a, event.status),
           state \in Terminal => genesis[a] = state,
           NEW verdict,
           verdict = CASE event.type = "completed" \/ state = "completed" -> "completed"
                       [] event.type = "failed" \/ state = "failed" -> "failed"
                       [] OTHER -> "none"
    PROVE  verdict \in Terminal \cup {"none"} /\ (verdict # "none" => genesis[a] = verdict)
BY StatesKnown DEF Truthful

LEMMA FollowKeeps ==
    ASSUME TrackerRight, genesis' = genesis, NEW a \in Agent, NEW event \in WireMessage,
           Truthful(event.type, a, event.status), Follow(a, event)
    PROVE  TrackerRight'
<1>1. PICK d \in Tracked : d = tracker[a] /\ Truthful(d.verdict, a, d.state)
  BY DEF TrackerRight
<1>2. d.state \in State /\ (d.state \in Terminal => genesis[a] = d.state) /\ event.status \in State
  BY <1>1 DEF Tracked, Truthful, WireMessage
<1>3. PICK s : s = Transition(d.state, event)
  OBVIOUS
<1>4. s \in State /\ (s \in Terminal => genesis[a] = s)
  BY <1>2, <1>3, TransitionTruthful
<1>5. PICK v : v = CASE event.type = "completed" \/ s = "completed" -> "completed"
                     [] event.type = "failed" \/ s = "failed" -> "failed"
                     [] OTHER -> "none"
  OBVIOUS
<1>6. v \in Terminal \cup {"none"} /\ (v # "none" => genesis[a] = v)
  BY <1>4, <1>5, VerdictTruthful
<1>7. PICK b \in BOOLEAN : b = (v = "none")
  OBVIOUS
<1>8. PICK w : w = IF v = "none" THEN d.verdict ELSE v
  OBVIOUS
<1>9. tracker' = [tracker EXCEPT ![a].state = s, ![a].subscribed = b, ![a].verdict = w]
  BY <1>1, <1>3, <1>5, <1>7, <1>8 DEF Follow
<1>10. PICK e : e = [d EXCEPT !.state = s, !.subscribed = b, !.verdict = w]
  OBVIOUS
<1>11. w \in Terminal \cup {"none"} /\ Truthful(w, a, s)
  BY <1>1, <1>4, <1>6, <1>8, StatesKnown DEF Tracked, Truthful
<1>12. e \in Tracked /\ e.state = s /\ e.verdict = w
  BY <1>4, <1>10, <1>11 DEF Tracked
<1>13. tracker' = [tracker EXCEPT ![a] = e]
  BY <1>1, <1>9, <1>10 DEF TrackerRight
<1> QED
  BY <1>11, <1>12, <1>13, TrackerSet

LEMMA ApplyPollKeeps ==
    ASSUME TrackerRight, PollsRight, NEW r \in BagToSet(polls), ApplyPoll(r)
    PROVE  TrackerRight'
<1>1. PICK a \in Agent : a = r.of
  BY DEF PollsRight
<1>2. PICK d \in Tracked : d = tracker[a] /\ Truthful(d.verdict, a, d.state)
  BY DEF TrackerRight
<1>3. PICK event : event = [type |-> "status", status |-> r.status]
  OBVIOUS
<1>4. /\ event.status \in State /\ event.type = "status"
      /\ Truthful(event.type, a, event.status)
  BY <1>1, <1>3 DEF PollsRight
<1>5. d.state \in State /\ (d.state \in Terminal => genesis[a] = d.state)
  BY <1>2 DEF Tracked, Truthful
<1>6. PICK s : s = Transition(d.state, event)
  OBVIOUS
<1>7. s \in State /\ (s \in Terminal => genesis[a] = s)
  BY <1>4, <1>5, <1>6, TransitionTruthful
<1>8. PICK v : v = IF s \in Terminal THEN s ELSE "none"
  OBVIOUS
<1>9. PICK b \in BOOLEAN : b = (d.subscribed /\ v = "none")
  OBVIOUS
<1>10. PICK p \in BOOLEAN : p = (d.polling /\ v = "none")
  OBVIOUS
<1>11. PICK w : w = IF v = "none" THEN d.verdict ELSE v
  OBVIOUS
<1>12. PICK e : e = [d EXCEPT !.state = s, !.subscribed = b, !.polling = p, !.verdict = w]
  OBVIOUS
<1>13. w \in Terminal \cup {"none"} /\ Truthful(w, a, s)
  BY <1>2, <1>7, <1>8, <1>11, StatesKnown DEF Tracked, Truthful
<1>14. e \in Tracked /\ e.state = s /\ e.verdict = w
  BY <1>7, <1>12, <1>13 DEF Tracked
<1>15. tracker' = [tracker EXCEPT ![a].state = s,
                                  ![a].subscribed = (@ /\ v = "none"),
                                  ![a].polling = (@ /\ v = "none"),
                                  ![a].verdict = IF v = "none" THEN @ ELSE v]
  BY <1>1, <1>2, <1>3, <1>6, <1>8, Zenon DEF ApplyPoll
<1>16. tracker' = [tracker EXCEPT ![a] = e]
  BY <1>2, <1>9, <1>10, <1>11, <1>12, <1>15 DEF TrackerRight, Tracked
<1> QED
  BY <1>1, <1>13, <1>14, <1>16, TrackerSet DEF ApplyPoll

\* What the orchestrator does of its own accord gives no verdict.
LEMMA TrackingKeeps ==
    ASSUME TrackerRight, genesis' = genesis, NEW a \in Agent, NEW b \in BOOLEAN,
           \/ tracker' = [tracker EXCEPT ![a].polling = b]
           \/ tracker' = [tracker EXCEPT ![a].subscribed = b, ![a].polling = b]
    PROVE  TrackerRight'
<1>1. PICK d \in Tracked : d = tracker[a] /\ Truthful(d.verdict, a, d.state)
  BY DEF TrackerRight
<1>2. PICK e : /\ e \in {[d EXCEPT !.polling = b], [d EXCEPT !.subscribed = b, !.polling = b]}
               /\ tracker' = [tracker EXCEPT ![a] = e]
  BY <1>1 DEF TrackerRight
<1>3. e \in Tracked /\ e.verdict = d.verdict /\ e.state = d.state
  BY <1>2 DEF Tracked
<1> QED
  BY <1>1, <1>2, <1>3, TrackerSet, Zenon

\* The service gets on with what has not come to an end; nothing said the contrary.
LEMMA ServeKeeps ==
    ASSUME ForgeInv, NEW a \in Agent, Serve(a)
    PROVE  ForgeInv'
<1>1. PICK s \in State \ {"validating"} : genesis' = [genesis EXCEPT ![a] = s]
                            /\ \/ wire' = wire
                               \/ \E type \in {"status"} \cup ({s} \cap Terminal) :
                                     wire' = Append(wire, [type |-> type, of |-> a, status |-> s])
  <2>1. genesis[a] \in {"validating", "forging", "deploying"}
    BY DEF Serve, ForgeInv, GenesisRight, State, Terminal
  <2>2. PICK n : n = CASE genesis[a] = "validating" -> "forging"
                       [] genesis[a] = "forging" -> "deploying"
                       [] genesis[a] = "deploying" -> "completed"
    OBVIOUS
  <2>3. n \in {"forging", "deploying", "completed"}
    BY <2>1, <2>2
  <2>4. PICK s \in {"failed", n} :
           /\ genesis' = [genesis EXCEPT ![a] = s]
           /\ \/ wire' = wire
              \/ \E type \in {"status"} \cup ({s} \cap Terminal) :
                    wire' = Append(wire, [type |-> type, of |-> a, status |-> s])
    BY <2>2, Zenon DEF Serve
  <2> QED
    BY <2>3, <2>4 DEF State
<1>2. /\ genesis \in [Agent -> State] /\ genesis' \in [Agent -> State] /\ genesis'[a] = s
      /\ genesis[a] \notin Terminal
      /\ \A c \in Agent : c # a => genesis'[c] = genesis[c]
  BY <1>1 DEF ForgeInv, GenesisRight, Serve
<1>3. \A type, c, status : c \in Agent /\ Truthful(type, c, status) =>
          /\ type \in Terminal => genesis'[c] = type
          /\ status \in Terminal => genesis'[c] = status
  BY <1>2 DEF Truthful
<1>4. GenesisRight'
  BY <1>2 DEF GenesisRight
<1>5. TrackerRight'
  <2>1. tracker' = tracker
    BY DEF Serve
  <2> QED
    BY <1>3, <2>1 DEF ForgeInv, TrackerRight, Truthful
<1>6. PollsRight'
  <2>1. polls' = polls
    BY DEF Serve
  <2>2. \A r \in BagToSet(polls) : r.of \in Agent
    BY DEF ForgeInv, PollsRight
  <2> QED
    BY <1>3, <2>1, <2>2 DEF ForgeInv, PollsRight, Truthful
<1>7. WireRight'
  <2>1. wire \in Seq(WireMessage)
    BY DEF ForgeInv, WireRight
  <2>2. ASSUME NEW k \in 1..Len(wire)
        PROVE  /\ wire[k].type \in Terminal => genesis'[wire[k].of] = wire[k].type
               /\ wire[k].status \in Terminal => genesis'[wire[k].of] = wire[k].status
    <3>1. wire[k] \in WireMessage
      BY <2>1
    <3>2. wire[k].of \in Agent
      BY <3>1 DEF WireMessage
    <3>3. Truthful(wire[k].type, wire[k].of, wire[k].status)
      BY Zenon DEF ForgeInv, WireRight
    <3> QED
      BY <1>3, <3>2, <3>3
  <2>3. CASE wire' = wire
    BY <2>1, <2>2, <2>3 DEF WireRight, Truthful
  <2>4. CASE wire' # wire
    <3>1. PICK type \in {"status"} \cup ({s} \cap Terminal) :
             wire' = Append(wire, [type |-> type, of |-> a, status |-> s])
      BY <1>1, <2>4
    <3>2. PICK m : m = [type |-> type, of |-> a, status |-> s]
      OBVIOUS
    <3>3. m \in WireMessage /\ m.type = type /\ m.of = a /\ m.status = s
      BY <3>1, <3>2 DEF WireMessage, Terminal
    <3>4. /\ wire' \in Seq(WireMessage) /\ Len(wire') = Len(wire) + 1 /\ Len(wire) \in Nat
          /\ wire'[Len(wire) + 1] = m
          /\ \A k \in 1..Len(wire) : wire'[k] = wire[k]
      BY <2>1, <3>1, <3>2, <3>3
    <3>5. type \in Terminal => type = s
      BY <3>1, StatesKnown
    <3>6. ASSUME NEW k \in 1..Len(wire')
          PROVE  /\ wire'[k].type \in Terminal => genesis'[wire'[k].of] = wire'[k].type
                 /\ wire'[k].status \in Terminal => genesis'[wire'[k].of] = wire'[k].status
      <4>1. CASE k \in 1..Len(wire)
        BY <2>2, <3>4, <4>1
      <4>2. CASE k = Len(wire) + 1
        BY <1>2, <3>3, <3>4, <3>5, <4>2
      <4> QED
        BY <3>4, <4>1, <4>2
    <3> QED
      BY <3>4, <3>6 DEF WireRight, Truthful
  <2> QED
    BY <2>3, <2>4
<1> QED
  BY <1>4, <1>5, <1>6, <1>7 DEF ForgeInv

LEMMA ForgeInitInv == ForgeInit => ForgeInv
<1> SUFFICES ASSUME ForgeInit PROVE ForgeInv
  OBVIOUS
<1>1. GenesisRight
  BY StatesKnown DEF ForgeInit, GenesisRight
<1>2. TrackerRight
  <2>1. PICK b \in BOOLEAN : b = FALSE
    OBVIOUS
  <2>2. PICK d : d = [state |-> "validating", subscribed |-> b, polling |-> b, verdict |-> "none"]
    OBVIOUS
  <2>3. tracker = [a \in Agent |-> d]
    BY <2>1, <2>2, Zenon DEF ForgeInit, Untracked
  <2>4. d \in Tracked /\ d.state = "validating" /\ d.verdict = "none"
    BY <2>2, StatesKnown DEF Tracked
  <2> QED
    BY <2>3, <2>4, StatesKnown DEF TrackerRight, Truthful
<1>3. PollsRight
  BY DEF ForgeInit, PollsRight, EmptyBag, SetToBag, BagToSet
<1>4. WireRight
  BY DEF ForgeInit, WireRight
<1> QED
  BY <1>1, <1>2, <1>3, <1>4 DEF ForgeInv

\* A step that changes none of the four parts.
LEMMA ForgeUndisturbed ==
    UNCHANGED <<genesis, tracker, polls, wire>> => (ForgeInv => ForgeInv')
BY GenesisRightKept, TrackerRightKept, PollsRightKept, WireRightKept DEF ForgeInv

LEMMA ForgeNextKeeps == ForgeInv /\ ForgeNext => ForgeInv'
<1> SUFFICES ASSUME ForgeInv, ForgeNext PROVE ForgeInv'
  OBVIOUS
<1> USE DEF ForgeInv
<1>1. ASSUME NEW a \in Agent, ForgeTimer(a) PROVE ForgeInv'
  BY <1>1, ForgeUndisturbed DEF ForgeTimer
<1>2. ASSUME NEW a \in Agent, AskStatus(a) PROVE ForgeInv'
  <2>1. PICK s : s = GenesisStatus(a)
    OBVIOUS
  <2>2. s \in State /\ (s \in Terminal => genesis[a] = s)
    BY <2>1, StatesKnown DEF GenesisStatus, GenesisRight
  <2>3. PICK r : r = [of |-> a, status |-> s]
    OBVIOUS
  <2>4. UNCHANGED <<genesis, tracker, wire>> /\ polls' = polls (+) SetToBag({r})
    BY <1>2, <2>1, <2>3 DEF AskStatus
  <2>5. BagToSet(polls') = BagToSet(polls) \cup {r}
    BY <2>4, BagAdded, Zenon
  <2>6. r \in [of : Agent, status : State] /\ r.of = a /\ r.status = s
    BY <2>2, <2>3
  <2>7. PollsRight'
    BY <2>2, <2>4, <2>5, <2>6, StatesKnown DEF PollsRight, Truthful
  <2> QED
    BY <2>4, <2>7, GenesisRightKept, TrackerRightKept, WireRightKept
<1>3. ASSUME NEW a \in Agent, StopPolling(a) PROVE ForgeInv'
  <2>1. PICK b \in BOOLEAN : b = FALSE
    OBVIOUS
  <2>2. /\ UNCHANGED <<genesis, polls, wire>>
        /\ tracker' = [tracker EXCEPT ![a].polling = b]
    BY <1>3, <2>1, Zenon DEF StopPolling
  <2> QED
    BY <2>2, TrackingKeeps, GenesisRightKept, PollsRightKept, WireRightKept
<1>4. ASSUME NEW a \in Agent, Serve(a) PROVE ForgeInv'
  BY <1>4, ServeKeeps
<1>5. ASSUME NEW r \in BagToSet(polls), FailPoll(r) PROVE ForgeInv'
  <2>1. UNCHANGED <<genesis, tracker, wire>> /\ polls' = polls (-) SetToBag({r})
    BY <1>5 DEF FailPoll
  <2>2. BagToSet(polls') \subseteq BagToSet(polls)
    BY <2>1, BagTaken
  <2> QED
    BY <2>1, <2>2, GenesisRightKept, TrackerRightKept, PollsRightKept, WireRightKept
<1>6. ASSUME NEW r \in BagToSet(polls), ApplyPoll(r) PROVE ForgeInv'
  <2>1. UNCHANGED <<genesis, wire>> /\ polls' = polls (-) SetToBag({r})
    BY <1>6 DEF ApplyPoll
  <2>2. BagToSet(polls') \subseteq BagToSet(polls)
    BY <2>1, BagTaken
  <2> QED
    BY <1>6, <2>1, <2>2, ApplyPollKeeps, GenesisRightKept, PollsRightKept, WireRightKept
<1>7. CASE OthersHeard
  BY <1>7, ForgeUndisturbed DEF OthersHeard
<1>8. CASE Deliver
  <2>1. UNCHANGED <<genesis, polls>> /\ wire # <<>> /\ wire' = Tail(wire)
    BY <1>8 DEF Deliver
  <2>2. PICK event \in WireMessage : /\ WireRight' /\ event = Head(wire)
                                     /\ Truthful(event.type, event.of, event.status)
    BY <2>1, WireTaken
  <2>3. PICK a \in Agent : a = event.of
    BY <2>2 DEF WireMessage
  <2>4. Follow(a, event) \/ tracker' = tracker
    BY <1>8, <2>2, <2>3 DEF Deliver
  <2>5. TrackerRight'
    BY <2>1, <2>2, <2>3, <2>4, FollowKeeps, TrackerRightKept
  <2> QED
    BY <2>1, <2>2, <2>5, GenesisRightKept, PollsRightKept
<1>9. CASE ChannelOpens \/ ChannelFails
  <2>1. UNCHANGED <<genesis, tracker, polls>> /\ wire' = <<>>
    BY <1>9 DEF ChannelOpens, ChannelFails
  <2> QED
    BY <2>1, WireEmptied, GenesisRightKept, TrackerRightKept, PollsRightKept
<1>10. CASE Reconnect
  BY <1>10, ForgeUndisturbed DEF Reconnect
<1>11. CASE \E p \in Panel : Select(p)
  BY <1>11, ForgeUndisturbed DEF Select
<1>12. CASE HandleForge
  <2>1. PICK b \in BOOLEAN : b = TRUE
    OBVIOUS
  <2>2. /\ UNCHANGED <<genesis, polls, wire>>
        /\ \/ tracker' = tracker
           \/ \E a \in Agent :
                 tracker' = [tracker EXCEPT ![a].subscribed = b, ![a].polling = b]
    BY <1>12, <2>1, Zenon DEF HandleForge
  <2> QED
    BY <2>2, TrackingKeeps, TrackerRightKept, GenesisRightKept, PollsRightKept, WireRightKept
<1>13. CASE ResetForm
  BY <1>13, ForgeUndisturbed DEF ResetForm
<1> QED
  BY <1>1, <1>2, <1>3, <1>4, <1>5, <1>6, <1>7, <1>8, <1>9, <1>10, <1>11, <1>12, <1>13
     DEF ForgeNext

-----------------------------------------------------------------------------
(* The form *)

Forms == [loading : BOOLEAN, id : Agent \cup {Other, NoAgent}, complete : BOOLEAN, failed : BOOLEAN]

FormSound(f) == f \in Forms /\ (f.loading => ~f.complete /\ ~f.failed)

LEMMA FormInvIs == FormInv <=> FormSound(formState)
BY DEF FormInv, FormSound, Forms, ForgingHasNoVerdict

LEMMA FormSet == ASSUME NEW f, FormSound(f), formState' = f PROVE FormInv'
BY DEF FormInv, FormSound, Forms, ForgingHasNoVerdict

LEMMA BlankFormSound == FormSound(BlankForm)
<1>1. PICK b \in BOOLEAN : b = FALSE
  OBVIOUS
<1>2. PICK f : f = [loading |-> b, id |-> NoAgent, complete |-> b, failed |-> b]
  OBVIOUS
<1>3. f \in Forms /\ f.loading = b
  BY <1>2 DEF Forms
<1>4. f = BlankForm
  BY <1>1, <1>2, Zenon DEF BlankForm
<1> QED
  BY <1>1, <1>3, <1>4, Zenon DEF FormSound

LEMMA HearBusSound ==
    ASSUME NEW a, FormSound(formState) PROVE FormSound(HearBus(a))
<1>1. CASE FormShown /\ formState.id = a
  <2>1. PICK l \in BOOLEAN : l = FALSE
    OBVIOUS
  <2>2. PICK c \in BOOLEAN : c = TRUE
    OBVIOUS
  <2>3. PICK g : g = [formState EXCEPT !.complete = c, !.loading = l]
    OBVIOUS
  <2>4. g = HearBus(a)
    BY <1>1, <2>1, <2>2, <2>3, Zenon DEF HearBus
  <2>5. formState \in Forms
    BY Zenon DEF FormSound
  <2>6. g \in Forms /\ g.loading = l
    BY <2>3, <2>5 DEF Forms
  <2> QED
    BY <2>1, <2>4, <2>6, Zenon DEF FormSound
<1>2. CASE ~(FormShown /\ formState.id = a)
  BY <1>2, Zenon DEF HearBus
<1> QED
  BY <1>1, <1>2

LEMMA HearSound ==
    ASSUME NEW a \in Agent \cup {Other}, NEW changed, NEW verdict, FormSound(formState)
    PROVE  FormSound(Hear(a, changed, verdict))
<1>1. PICK f : f = IF changed THEN HearProgress(formState, a) ELSE formState
  OBVIOUS
<1>2. FormSound(f)
  <2>1. CASE f = formState
    BY <2>1
  <2>2. CASE f = [formState EXCEPT !.id = a]
    <3>1. formState \in Forms
      BY Zenon DEF FormSound
    <3>2. /\ f \in Forms /\ f.loading = formState.loading
          /\ f.complete = formState.complete /\ f.failed = formState.failed
      BY <2>2, <3>1 DEF Forms
    <3> QED
      BY <3>2, Zenon DEF FormSound
  <2> QED
    BY <1>1, <2>1, <2>2, Zenon DEF HearProgress
<1>3. Hear(a, changed, verdict) = HearVerdict(f, verdict)
  BY <1>1, Zenon DEF Hear
<1>4. CASE ~FormShown \/ verdict = "none"
  BY <1>2, <1>3, <1>4, Zenon DEF HearVerdict
<1>5. CASE ~(~FormShown \/ verdict = "none")
  <2>1. PICK l \in BOOLEAN : l = FALSE
    OBVIOUS
  <2>2. PICK c \in BOOLEAN : c = (verdict = "completed")
    OBVIOUS
  <2>3. PICK x \in BOOLEAN : x = (verdict = "failed")
    OBVIOUS
  <2>4. PICK g : g = [f EXCEPT !.loading = l, !.complete = c, !.failed = x]
    OBVIOUS
  <2>5. HearVerdict(f, verdict) = g
    BY <1>5, <2>1, <2>2, <2>3, <2>4, Zenon DEF HearVerdict
  <2>6. f \in Forms
    BY <1>2, Zenon DEF FormSound
  <2>7. g \in Forms /\ g.loading = l
    BY <2>4, <2>6 DEF Forms
  <2> QED
    BY <1>3, <2>1, <2>5, <2>7, Zenon DEF FormSound
<1> QED
  BY <1>4, <1>5

\* handleForge is only there when nothing is being forged.
LEMMA HandleForgeKeeps == FormInv /\ HandleForge => FormInv'
<1> SUFFICES ASSUME FormInv, HandleForge PROVE FormInv'
  OBVIOUS
<1>1. formState \in Forms /\ ~formState.loading
  BY FormInvIs, Zenon DEF FormSound, HandleForge, CanForge
<1>2. PICK b \in BOOLEAN : b = FALSE
  OBVIOUS
<1>3. PICK x \in BOOLEAN : x = TRUE
  OBVIOUS
<1>4. PICK r : r = [formState EXCEPT !.id = NoAgent, !.complete = b, !.failed = b]
  OBVIOUS
<1>5. r = Reset(formState)
  BY <1>2, <1>4, Zenon DEF Reset
<1>6. PICK g : g = formState' /\ (g = [r EXCEPT !.loading = x] \/ g = [r EXCEPT !.failed = x])
  BY <1>3, <1>5, Zenon DEF HandleForge
<1>7. r \in Forms /\ r.loading = formState.loading /\ r.complete = b /\ r.failed = b
  BY <1>1, <1>4 DEF Forms
<1>8. /\ g \in Forms
      /\ g = [r EXCEPT !.loading = x] => g.complete = b /\ g.failed = b
      /\ g = [r EXCEPT !.failed = x] => g.loading = r.loading
  BY <1>6, <1>7 DEF Forms
<1>9. FormSound(g)
  BY <1>1, <1>2, <1>6, <1>7, <1>8, Zenon DEF FormSound
<1> QED
  BY <1>6, <1>9, FormSet

LEMMA FormNextKeeps == FormInv /\ ForgeInv /\ ForgeNext => FormInv'
<1> SUFFICES ASSUME FormInv, ForgeInv, ForgeNext PROVE FormInv'
  OBVIOUS
<1>1. FormSound(formState)
  BY FormInvIs
<1>2. CASE formState' = formState
  BY <1>1, <1>2, FormSet
<1>3. ASSUME NEW a \in Agent, ForgeTimer(a) PROVE FormInv'
  <2>1. formState' = HearBus(a) \/ formState' = formState
    BY <1>3, Zenon DEF ForgeTimer
  <2> QED
    BY <1>1, <1>2, <2>1, HearBusSound, FormSet
<1>4. ASSUME NEW a \in Agent, AskStatus(a) \/ StopPolling(a) \/ Serve(a) PROVE FormInv'
  BY <1>2, <1>4 DEF AskStatus, StopPolling, Serve
<1>5. ASSUME NEW r \in BagToSet(polls), FailPoll(r) PROVE FormInv'
  BY <1>2, <1>5 DEF FailPoll
<1>6. ASSUME NEW r \in BagToSet(polls), ApplyPoll(r) PROVE FormInv'
  <2>1. PICK a \in Agent : a = r.of
    BY DEF ForgeInv, PollsRight
  <2>2. \E changed, verdict : formState' = Hear(a, changed, verdict)
    BY <1>6, <2>1, Zenon DEF ApplyPoll
  <2> QED
    BY <1>1, <2>2, HearSound, FormSet
<1>7. CASE OthersHeard
  <2>1. \/ formState' = HearBus(Other)
        \/ \E changed \in BOOLEAN, verdict \in Terminal \cup {"none"} :
              formState' = Hear(Other, changed, verdict)
    BY <1>7 DEF OthersHeard
  <2> QED
    BY <1>1, <2>1, HearBusSound, HearSound, FormSet
<1>8. CASE Deliver
  <2>1. wire # <<>> /\ wire \in Seq(WireMessage)
    BY <1>8 DEF Deliver, ForgeInv, WireRight
  <2>2. PICK event \in WireMessage : event = Head(wire)
    BY <2>1
  <2>3. PICK a \in Agent : a = event.of
    BY <2>2 DEF WireMessage
  <2>4. formState' = formState \/ \E changed, verdict : formState' = Hear(a, changed, verdict)
    BY <1>8, <2>2, <2>3, Zenon DEF Deliver, Follow
  <2> QED
    BY <1>1, <1>2, <2>4, HearSound, FormSet
<1>9. CASE ChannelOpens \/ ChannelFails \/ Reconnect
  BY <1>2, <1>9 DEF ChannelOpens, ChannelFails, Reconnect
<1>10. CASE (\E p \in Panel : Select(p)) \/ ResetForm
  BY <1>10, BlankFormSound, FormSet DEF Select, ResetForm
<1>11. CASE HandleForge
  BY <1>11, HandleForgeKeeps
<1> QED
  BY <1>3, <1>4, <1>5, <1>6, <1>7, <1>8, <1>9, <1>10, <1>11 DEF ForgeNext

-----------------------------------------------------------------------------
(* All views *)

LEMMA ViewsInitInv == ViewsInit => ViewsInv
<1> SUFFICES ASSUME ViewsInit PROVE ViewsInv
  OBVIOUS
<1>1. FormInv
  <2>1. formState = BlankForm
    BY DEF ViewsInit, ForgeInit
  <2> QED
    BY <2>1, BlankFormSound, FormInvIs
<1> QED
  BY <1>1, FeedInitInv, FrameInitInv, TermInitInv, ForgeInitInv DEF ViewsInit, ViewsInv

LEMMA FeedUndisturbed == UNCHANGED feedVars => (FeedInv => FeedInv')
BY DEF feedVars, FeedInv, HookShape, EffectSound

LEMMA FrameUndisturbed == UNCHANGED frameVars => (FrameInv => FrameInv')
BY DEF frameVars, listVars, FrameInv, ReaderLeftAlone, LogsShown, TimelineShown, Over, Near

LEMMA TermUndisturbed == UNCHANGED termVars => (TermInv => TermInv')
BY DEF termVars, TermInv, NothingOld

LEMMA ForgeUndisturbedToo ==
    UNCHANGED forgeVars => (ForgeInv /\ FormInv => ForgeInv' /\ FormInv')
BY ForgeUndisturbed, FormInvIs, FormSet DEF forgeVars

LEMMA ViewsStep == ViewsInv /\ [ViewsNext]_viewsVars => ViewsInv'
<1> SUFFICES ASSUME ViewsInv, [ViewsNext]_viewsVars PROVE ViewsInv'
  OBVIOUS
<1> USE DEF ViewsInv
<1>1. CASE FeedNext /\ UNCHANGED <<pollVars, termVars, forgeVars, frameVars>>
  BY <1>1, FeedNextKeeps, FrameUndisturbed, TermUndisturbed, ForgeUndisturbedToo
<1>2. CASE PollNext /\ UNCHANGED <<feedVars, termVars, forgeVars, frameVars>>
  BY <1>2, FeedUndisturbed, FrameUndisturbed, TermUndisturbed, ForgeUndisturbedToo
<1>3. CASE TermNext /\ UNCHANGED <<feedVars, pollVars, forgeVars, frameVars>>
  BY <1>3, FeedUndisturbed, FrameUndisturbed, TermNextKeeps, ForgeUndisturbedToo
<1>4. CASE ForgeNext /\ UNCHANGED <<feedVars, pollVars, termVars, frameVars>>
  BY <1>4, FeedUndisturbed, FrameUndisturbed, TermUndisturbed, ForgeNextKeeps, FormNextKeeps
<1>5. CASE FrameNext /\ UNCHANGED <<feedVars, pollVars, termVars, forgeVars>>
  BY <1>5, FeedUndisturbed, FrameNextKeeps, TermUndisturbed, ForgeUndisturbedToo
<1>6. CASE UNCHANGED viewsVars
  BY <1>6, FeedUndisturbed, FrameUndisturbed, TermUndisturbed, ForgeUndisturbedToo DEF viewsVars
<1> QED
  BY <1>1, <1>2, <1>3, <1>4, <1>5, <1>6 DEF ViewsNext

LEMMA ViewsAlways == ViewsSpec => []ViewsInv
BY ViewsInitInv, ViewsStep, PTL DEF ViewsSpec

\* Whatever the order of timeouts, opens, errors, closes, cleanups and new effects, no effect
\* of a telemetry hook makes data up while its own connection stands, or runs two intervals.
THEOREM OneSourceAlways == ViewsSpec => []OneSource
<1>1. ViewsInv => OneSource
  BY Zenon DEF ViewsInv, FeedInv, EffectSound, OneSource
<1> QED
  BY <1>1, ViewsAlways, PTL

\* However long the list, the pane and the margin, no new entry, filter, toggle or timer
\* makes a list scroll under a reader of whose scrolling it has been told.
THEOREM ReaderAlwaysLeftAlone == ViewsSpec => []ReaderLeftAlone
<1>1. ViewsInv => ReaderLeftAlone
  BY DEF ViewsInv, FrameInv
<1> QED
  BY <1>1, ViewsAlways, PTL

\* However many commands overlap, in whatever order they are answered and however few
\* entries are kept, a reply stands after its command if the log still goes back that far.
THEOREM RepliesAlwaysFollow == ViewsSpec => []RepliesFollow
<1>1. ViewsInv => RepliesFollow
  BY LogsAsStated DEF ViewsInv
<1> QED
  BY <1>1, ViewsAlways, PTL

\* What the personal terminal has cleared stays away, from the screen and from localStorage,
\* unless an effect was due when it was cleared: whatever streams, effects and visits follow.
THEOREM ClearedStaysCleared == ViewsSpec => []ClearedForGood
<1>1. ViewsInv => ClearedForGood
  BY LogsAsStated DEF ViewsInv
<1> QED
  BY <1>1, ViewsAlways, PTL

\* Of any number of agents, followed by overlapping polls and a WebSocket that reconnects,
\* none is said to have completed or failed whose genesis has not.
THEOREM VerdictsAreReal == ViewsSpec => []VerdictIsReal
<1>1. ViewsInv => VerdictIsReal
  BY VerdictsAsStated DEF ViewsInv
<1> QED
  BY <1>1, ViewsAlways, PTL

\* Whichever agents the form hears of while it is forging one, and in any order, it shows no
\* verdict before it has stopped forging.
THEOREM ForgingShowsNoVerdict == ViewsSpec => []ForgingHasNoVerdict
<1>1. ViewsInv => ForgingHasNoVerdict
  BY DEF ViewsInv, FormInv
<1> QED
  BY <1>1, ViewsAlways, PTL
=============================================================================
