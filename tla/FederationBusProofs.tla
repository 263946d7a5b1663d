------------------------- MODULE FederationBusProofs -------------------------
(***************************************************************************)
(* Proofs about FederationBus, for every set of nodes, requests and message*)
(* kinds and every value of maxEvents, the threshold and the bounds.       *)
(*                                                                         *)
(* IInv adds to the properties what the two locks leave true in between:   *)
(* stamps never lie in the future, a heartbeat waiting for the registry    *)
(* lock is in the log already, and one that waits for its answer is in the *)
(* registry with a time not before it came in.                             *)
(***************************************************************************)
EXTENDS FederationBus, TLAPS

\* No time stamp lies in the future.
StampsArePast ==
    /\ \A i \in 1..Len(log) : log[i].ts <= clock
    /\ \A n \in Node : nodes[n] # Absent => nodes[n] <= clock
    /\ \A r \in Request : stage[r] # "idle" => message[r].at <= clock

\* A heartbeat of node n is in the log.
Heard(n) == \E i \in 1..Len(log) :
                log[i].type = "heartbeat" /\ log[i].node = n /\ log[i].ts <= clock

\* A heartbeat on its way to the registry has been recorded.
WaitingIsRecorded ==
    \A r \in Request : stage[r] = "recorded" => Heard(message[r].node)

\* The registry has node n, seen at time t or later.
SeenSince(n, t) == nodes[n] # Absent /\ t <= nodes[n]

\* A heartbeat that is answered, or about to be, is in the registry and stays there.
AnsweringIsSeen ==
    \A r \in Request : stage[r] = "answering" /\ message[r].type = "heartbeat" =>
        SeenSince(message[r].node, message[r].at)

AckedIsSeen == \A a \in acked : SeenSince(a.node, a.at)

IInv ==
    /\ TypeOK
    /\ StreamIsTail
    /\ StreamInOrder
    /\ RegistryIsRecorded
    /\ StampsArePast
    /\ WaitingIsRecorded
    /\ AnsweringIsSeen
    /\ AckedIsSeen

-----------------------------------------------------------------------------
(* The stream *)

\* The end of a sequence is a sequence of the same elements and no longer than asked.
LEMMA LastOfType ==
    ASSUME NEW S, NEW s \in Seq(S), NEW n \in Nat \ {0}
    PROVE  LastOf(s, n) \in Seq(S) /\ Len(LastOf(s, n)) <= n
<1>1. CASE Len(s) > n
  <2>1. /\ Len(s) - n + 1 \in 1..Len(s)
        /\ Len(s) \in 1..Len(s)
    BY <1>1
  <2>2. SubSeq(s, Len(s) - n + 1, Len(s)) \in Seq(S)
    BY <2>1
  <2>3. Len(SubSeq(s, Len(s) - n + 1, Len(s))) = n
    BY <1>1, <2>1
  <2> QED
    BY <1>1, <2>2, <2>3 DEF LastOf
<1>2. CASE ~(Len(s) > n)
  BY <1>2 DEF LastOf
<1> QED
  BY <1>1, <1>2

\* Pruning after every event loses nothing that pruning once at the end would keep.
LEMMA PruningStepwise ==
    ASSUME NEW S, NEW s \in Seq(S), NEW e \in S, NEW n \in Nat \ {0}
    PROVE  LastOf(Append(LastOf(s, n), e), n) = LastOf(Append(s, e), n)
<1> DEFINE p == LastOf(s, n)
           a == LastOf(Append(p, e), n)
           b == LastOf(Append(s, e), n)
<1>1. CASE Len(s) > n
  <2>1. p = SubSeq(s, Len(s) - n + 1, Len(s))
    BY <1>1 DEF LastOf
  <2>2. p \in Seq(S) /\ Len(p) = n /\ \A i \in 1..n : p[i] = s[Len(s) - n + i]
    BY <1>1, <2>1
  <2> DEFINE pe == Append(p, e)
             se == Append(s, e)
  <2>3. /\ pe \in Seq(S) /\ Len(pe) = n + 1
        /\ \A i \in 1..(n + 1) : pe[i] = IF i = n + 1 THEN e ELSE p[i]
    BY <2>2
  <2>4. /\ se \in Seq(S) /\ Len(se) = Len(s) + 1
        /\ \A i \in 1..(Len(s) + 1) : se[i] = IF i = Len(s) + 1 THEN e ELSE s[i]
    OBVIOUS
  <2>5. a = SubSeq(pe, 2, n + 1)
    BY <2>2, <2>3 DEF LastOf
  <2>6. b = SubSeq(se, Len(s) - n + 2, Len(s) + 1)
    <3>1. Len(se) > n /\ Len(se) - n + 1 = Len(s) - n + 2
      BY <1>1, <2>4
    <3> QED
      BY <2>4, <3>1 DEF LastOf
  <2> HIDE DEF a, b, p, pe, se
  <2>7. a \in Seq(S) /\ Len(a) = n /\ \A i \in 1..n : a[i] = pe[i + 1]
    BY <2>3, <2>5
  <2>8. b \in Seq(S) /\ Len(b) = n /\ \A i \in 1..n : b[i] = se[Len(s) - n + 1 + i]
    BY <1>1, <2>4, <2>6
  <2>9. ASSUME NEW i \in 1..n PROVE a[i] = b[i]
    <3>1. CASE i = n
      BY <1>1, <3>1, <2>3, <2>4, <2>7, <2>8
    <3>2. CASE i < n
      <4>1. a[i] = p[i + 1]
        BY <3>2, <2>3, <2>7
      <4>2. b[i] = s[Len(s) - n + 1 + i]
        BY <1>1, <3>2, <2>4, <2>8
      <4>3. p[i + 1] = s[Len(s) - n + (i + 1)]
        BY <3>2, <2>2
      <4> QED
        BY <4>1, <4>2, <4>3, <1>1
    <3> QED
      BY <3>1, <3>2
  <2>10. a = b
    BY <2>7, <2>8, <2>9
  <2> QED
    BY <2>10 DEF a, b, p
<1>2. CASE ~(Len(s) > n)
  BY <1>2 DEF LastOf
<1> QED
  BY <1>1, <1>2

-----------------------------------------------------------------------------
(* IInv is inductive *)

LEMMA InitIInv == Init => IInv
BY ConstantsAssumption
   DEF Init, IInv, TypeOK, StreamIsTail, LastOf, StreamInOrder, RegistryIsRecorded,
       StampsArePast, WaitingIsRecorded, AnsweringIsSeen, AckedIsSeen, Time, Stage

\* The events of the log are stamped with times.
LEMMA LogStamps == IInv => \A i \in 1..Len(log) : log[i].ts \in Time
<1> SUFFICES ASSUME IInv, NEW i \in 1..Len(log) PROVE log[i].ts \in Time
  OBVIOUS
<1>1. log \in Seq(Event)
  BY DEF IInv, TypeOK
<1>2. log[i] \in Event
  BY <1>1
<1> QED
  BY <1>2 DEF Event

\* What AddEvent does to the log.
LEMMA RecordInv ==
    ASSUME IInv, NEW r \in Request, AddEvent(r)
    PROVE  IInv'
<1> DEFINE e == Recorded(r)
<1>1. message[r] \in Message /\ stage[r] = "received"
  BY DEF IInv, TypeOK, AddEvent
<1>2. e \in Event /\ e.ts = clock /\ e.node = message[r].node /\ e.type = message[r].type
  BY <1>1 DEF Recorded, Event, Message, IInv, TypeOK
<1>3. /\ log \in Seq(Event)
      /\ events' = LastOf(Append(events, e), maxEvents)
      /\ log' = Append(log, e)
      /\ stage' = [stage EXCEPT ![r] = AfterRecording(r)]
      /\ UNCHANGED <<clock, process, nodes, message, acked>>
  BY DEF AddEvent, IInv, TypeOK
<1> HIDE DEF e
<1>4. /\ log' \in Seq(Event)
      /\ Len(log') = Len(log) + 1
      /\ \A i \in 1..Len(log) : log'[i] = log[i]
      /\ log'[Len(log) + 1] = e
  BY <1>2, <1>3
<1>5. TypeOK'
  <2>1. events' \in Seq(Event) /\ Len(events') <= maxEvents
    <3>1. Append(events, e) \in Seq(Event)
      BY <1>2 DEF IInv, TypeOK
    <3> QED
      BY <3>1, <1>3, LastOfType, ConstantsAssumption
  <2>2. AfterRecording(r) \in Stage
    BY DEF AfterRecording, Stage
  <2> QED
    BY <1>1, <1>3, <1>4, <2>1, <2>2 DEF IInv, TypeOK, AfterRecording
<1>6. StreamIsTail'
  BY <1>2, <1>3, PruningStepwise, ConstantsAssumption DEF IInv, StreamIsTail
<1>7. StampsArePast'
  <2>1. \A i \in 1..Len(log') : log'[i].ts <= clock
    <3> SUFFICES ASSUME NEW i \in 1..Len(log') PROVE log'[i].ts <= clock
      OBVIOUS
    <3>1. CASE i \in 1..Len(log)
      BY <3>1, <1>4 DEF IInv, StampsArePast
    <3>2. CASE i = Len(log) + 1
      BY <3>2, <1>2, <1>4, ConstantsAssumption DEF IInv, TypeOK, Time
    <3> QED
      BY <1>3, <1>4, <3>1, <3>2
  <2> QED
    BY <1>1, <1>3, <2>1 DEF IInv, StampsArePast, TypeOK
<1>8. StreamInOrder'
  <2> SUFFICES ASSUME NEW i \in 1..Len(log'), NEW j \in 1..Len(log'), i < j
               PROVE  log'[i].ts <= log'[j].ts
    BY DEF StreamInOrder
  <2>1. i \in 1..Len(log)
    BY <1>3, <1>4
  <2>2. CASE j \in 1..Len(log)
    BY <2>1, <2>2, <1>4 DEF IInv, StreamInOrder
  <2>3. CASE j = Len(log) + 1
    BY <2>1, <2>3, <1>2, <1>4 DEF IInv, StampsArePast
  <2> QED
    BY <1>3, <1>4, <2>2, <2>3
<1>9. RegistryIsRecorded'
  <2>1. \A i \in 1..Len(log) : i \in 1..Len(log') /\ log'[i] = log[i]
    BY <1>3, <1>4
  <2> QED
    BY <1>3, <2>1 DEF IInv, RegistryIsRecorded
<1>10. WaitingIsRecorded'
  <2>1. \A i \in 1..Len(log) : i \in 1..Len(log') /\ log'[i] = log[i]
    BY <1>3, <1>4
  <2>2. \A n \in Node : Heard(n) => Heard(n)'
    BY <1>3, <2>1 DEF Heard
  <2>3. message[r].type = "heartbeat" => Heard(message[r].node)'
    <3>1. Len(log) + 1 \in 1..Len(log')
      BY <1>3, <1>4
    <3>2. e.ts <= clock'
      BY <1>2, <1>3 DEF Event, Time
    <3> QED
      BY <1>2, <1>3, <1>4, <3>1, <3>2 DEF Heard
  <2>4. ASSUME NEW q \in Request, stage'[q] = "recorded"
        PROVE  Heard(message[q].node)'
    <3>1. CASE q = r
      <4>1. message[r].type = "heartbeat"
        BY <2>4, <3>1, <1>3 DEF AfterRecording, IInv, TypeOK
      <4> QED
        BY <3>1, <4>1, <2>3
    <3>2. CASE q # r
      <4>1. message[q].node \in Node /\ stage[q] = "recorded"
        BY <2>4, <3>2, <1>3 DEF IInv, TypeOK, Message
      <4>2. Heard(message[q].node)
        BY <4>1 DEF IInv, WaitingIsRecorded
      <4> HIDE DEF Heard
      <4> DEFINE n == message[q].node
      <4>3. n \in Node /\ Heard(n)
        BY <4>1, <4>2
      <4> HIDE DEF n
      <4>4. Heard(n)'
        BY <4>3, <2>2, <1>3 DEF n
      <4> QED
        BY <4>4, <1>3 DEF n
    <3> QED
      BY <3>1, <3>2
  <2> QED
    BY <2>4, <1>3 DEF WaitingIsRecorded, Heard
<1>11. AnsweringIsSeen'
  BY <1>1, <1>3 DEF IInv, TypeOK, AnsweringIsSeen, SeenSince, AfterRecording
<1>12. AckedIsSeen'
  BY <1>3 DEF IInv, AckedIsSeen, SeenSince
<1> QED
  BY <1>5, <1>6, <1>7, <1>8, <1>9, <1>10, <1>11, <1>12 DEF IInv

\* What UpdateNodeHeartbeat does to the registry.
LEMMA UpdateInv ==
    ASSUME IInv, NEW r \in Request, UpdateNodeHeartbeat(r)
    PROVE  IInv'
<1>1. /\ message[r] \in Message /\ message[r].type = "heartbeat"
      /\ stage[r] = "recorded"
      /\ nodes' = [nodes EXCEPT ![message[r].node] = clock]
      /\ stage' = [stage EXCEPT ![r] = "answering"]
      /\ UNCHANGED <<clock, process, events, message, log, acked>>
  BY DEF IInv, TypeOK, UpdateNodeHeartbeat, history
<1>2. message[r].node \in Node /\ clock \in Time /\ message[r].at \in Time
  BY <1>1 DEF IInv, TypeOK, Message
<1>3. clock # Absent /\ clock \in Nat /\ message[r].at <= clock
  BY <1>1, <1>2, ConstantsAssumption DEF Time, IInv, StampsArePast
<1>4. TypeOK'
  BY <1>1, <1>2 DEF IInv, TypeOK, Stage
<1>5. \A n \in Node : nodes'[n] = IF n = message[r].node THEN clock ELSE nodes[n]
  BY <1>1, <1>2 DEF IInv, TypeOK
\* A time that is in the registry is replaced by the present one or stays.
<1>6. ASSUME NEW n \in Node, NEW t \in Time, t <= clock, SeenSince(n, t)
      PROVE  SeenSince(n, t)'
  BY <1>1, <1>3, <1>5, <1>6 DEF SeenSince
<1>7. StreamIsTail' /\ StreamInOrder'
  BY <1>1 DEF IInv, StreamIsTail, StreamInOrder
<1>8. RegistryIsRecorded'
  <2> SUFFICES ASSUME NEW n \in Node, nodes'[n] # Absent
               PROVE  \E i \in 1..Len(log) :
                        log[i].type = "heartbeat" /\ log[i].node = n /\ log[i].ts <= nodes'[n]
    BY <1>1 DEF RegistryIsRecorded
  <2>1. CASE n = message[r].node
    <3>1. Heard(n)
      BY <2>1, <1>1 DEF IInv, WaitingIsRecorded
    <3> QED
      BY <2>1, <3>1, <1>5 DEF Heard
  <2>2. CASE n # message[r].node
    BY <2>2, <1>5 DEF IInv, RegistryIsRecorded
  <2> QED
    BY <2>1, <2>2
<1>9. StampsArePast'
  BY <1>1, <1>3, <1>5 DEF IInv, StampsArePast, TypeOK
<1>10. WaitingIsRecorded'
  BY <1>1 DEF IInv, TypeOK, WaitingIsRecorded, Heard
<1>11. AnsweringIsSeen'
  <2> SUFFICES ASSUME NEW q \in Request, stage'[q] = "answering",
                      message[q].type = "heartbeat"
               PROVE  SeenSince(message[q].node, message[q].at)'
    BY <1>1 DEF AnsweringIsSeen, SeenSince
  <2>1. CASE q = r
    BY <2>1, <1>1, <1>2, <1>3, <1>5 DEF SeenSince
  <2>2. CASE q # r
    <3>1. stage[q] = "answering" /\ message[q] \in Message
      BY <2>2, <1>1 DEF IInv, TypeOK
    <3>2. SeenSince(message[q].node, message[q].at)
      BY <3>1 DEF IInv, AnsweringIsSeen
    <3>3. message[q].node \in Node /\ message[q].at \in Time /\ message[q].at <= clock
      BY <3>1 DEF Message, IInv, StampsArePast
    <3>4. SeenSince(message[q].node, message[q].at)' =
             (nodes'[message[q].node] # Absent /\ message[q].at <= nodes'[message[q].node])
      BY <1>1 DEF SeenSince
    <3> QED
      BY <3>2, <3>3, <3>4, <1>3, <1>5 DEF SeenSince
  <2> QED
    BY <2>1, <2>2
<1>12. AckedIsSeen'
  <2> SUFFICES ASSUME NEW a \in acked PROVE SeenSince(a.node, a.at)'
    BY <1>1 DEF AckedIsSeen, SeenSince
  <2>1. a.node \in Node /\ a.at \in Time /\ SeenSince(a.node, a.at)
    BY DEF IInv, TypeOK, Ack, AckedIsSeen
  <2>2. a.at <= clock
    BY <2>1, ConstantsAssumption DEF SeenSince, IInv, StampsArePast, TypeOK, Time
  <2> QED
    BY <2>1, <2>2, <1>3, <1>5 DEF SeenSince
<1> QED
  BY <1>4, <1>7, <1>8, <1>9, <1>10, <1>11, <1>12 DEF IInv

\* The other steps touch neither the log nor the registry, or empty both.
LEMMA OtherInv ==
    ASSUME IInv,
           \/ \E r \in Request, from \in Node, named \in Node \cup {NoName}, kind \in Kind :
                 Receive(r, from, named, kind)
           \/ \E r \in Request : Reply(r)
           \/ Tick
           \/ Restart
           \/ UNCHANGED vars
    PROVE  IInv'
<1> USE DEF IInv
<1>1. ASSUME NEW r \in Request, NEW from \in Node, NEW named \in Node \cup {NoName},
             NEW kind \in Kind, Receive(r, from, named, kind)
      PROVE  IInv'
  <2> DEFINE m == [type |-> kind, node |-> MessageNode(from, named), at |-> clock]
  <2>1. m \in Message /\ m.at = clock
    BY DEF Message, MessageNode, TypeOK
  <2>2. /\ stage[r] = "idle"
        /\ stage' = [stage EXCEPT ![r] = "received"]
        /\ message' = [message EXCEPT ![r] = m]
        /\ UNCHANGED <<clock, process, events, nodes, log, acked>>
    BY <1>1 DEF Receive, tables, history
  <2> HIDE DEF m
  <2>3. TypeOK'
    BY <2>1, <2>2, ConstantsAssumption DEF TypeOK, Stage
  <2>4. StreamIsTail' /\ StreamInOrder' /\ RegistryIsRecorded' /\ AckedIsSeen'
    BY <2>2 DEF StreamIsTail, StreamInOrder, RegistryIsRecorded, AckedIsSeen, SeenSince
  <2>5. StampsArePast'
    BY <2>1, <2>2 DEF StampsArePast, TypeOK, Time
  <2>6. WaitingIsRecorded' /\ AnsweringIsSeen'
    BY <2>2 DEF WaitingIsRecorded, AnsweringIsSeen, SeenSince, Heard, TypeOK
  <2> QED
    BY <2>3, <2>4, <2>5, <2>6
<1>2. ASSUME NEW r \in Request, Reply(r)
      PROVE  IInv'
  <2>1. /\ stage[r] = "answering" /\ message[r] \in Message
        /\ stage' = [stage EXCEPT ![r] = "idle"]
        /\ message' = [message EXCEPT ![r] = NoMessage]
        /\ UNCHANGED <<clock, process, events, nodes, log>>
    BY <1>2 DEF Reply, TypeOK, tables
  <2>2. \A a \in acked' : a \in acked \/
           (message[r].type = "heartbeat" /\ a = [node |-> message[r].node, at |-> message[r].at])
    BY <1>2 DEF Reply
  <2>3. AckedIsSeen'
    BY <2>1, <2>2 DEF AckedIsSeen, AnsweringIsSeen, SeenSince
  <2>4. TypeOK'
    BY <2>1, <2>2 DEF TypeOK, Stage, Message, Ack
  <2>5. /\ StreamIsTail' /\ StreamInOrder' /\ RegistryIsRecorded'
        /\ StampsArePast' /\ WaitingIsRecorded' /\ AnsweringIsSeen'
    BY <2>1 DEF StreamIsTail, StreamInOrder, RegistryIsRecorded, StampsArePast,
                WaitingIsRecorded, AnsweringIsSeen, SeenSince, Heard, TypeOK
  <2> QED
    BY <2>3, <2>4, <2>5
<1>3. CASE Tick
  <2>1. /\ clock \in Nat /\ clock' = clock + 1 /\ clock' \in Time
        /\ UNCHANGED <<process, events, nodes, stage, message, log, acked>>
    BY <1>3, ConstantsAssumption DEF Tick, tables, inflight, history, TypeOK, Time
  <2>2. TypeOK'
    BY <2>1 DEF TypeOK
  <2>3. StreamIsTail' /\ StreamInOrder' /\ RegistryIsRecorded' /\ AckedIsSeen' /\ AnsweringIsSeen'
    BY <2>1 DEF StreamIsTail, StreamInOrder, RegistryIsRecorded, AckedIsSeen,
                AnsweringIsSeen, SeenSince
  <2>4. \A t \in Time : t <= clock => t <= clock'
    BY <2>1 DEF Time
  <2>5. StampsArePast'
    <3>1. \A i \in 1..Len(log) : log[i].ts \in Time
      BY LogStamps
    <3>2. \A r \in Request : stage[r] # "idle" => message[r].at \in Time
      BY DEF TypeOK, Message
    <3> QED
      BY <2>1, <2>4, <3>1, <3>2 DEF StampsArePast, TypeOK
  <2>6. WaitingIsRecorded'
    <3>1. \A i \in 1..Len(log) : log[i].ts \in Time
      BY LogStamps
    <3> QED
      BY <2>1, <2>4, <3>1 DEF WaitingIsRecorded, Heard
  <2> QED
    BY <2>2, <2>3, <2>5, <2>6
<1>4. CASE Restart
  BY <1>4, ConstantsAssumption
     DEF Restart, TypeOK, StreamIsTail, LastOf, StreamInOrder, RegistryIsRecorded,
         StampsArePast, WaitingIsRecorded, AnsweringIsSeen, AckedIsSeen, Stage
<1>5. CASE UNCHANGED vars
  BY <1>5 DEF vars, tables, inflight, history, TypeOK, StreamIsTail, StreamInOrder,
              RegistryIsRecorded, StampsArePast, WaitingIsRecorded, AnsweringIsSeen,
              AckedIsSeen, SeenSince, Heard
<1> QED
  BY <1>1, <1>2, <1>3, <1>4, <1>5

\* IInv holds in every reachable state.
THEOREM Invariance == Spec => []IInv
<1>1. Init => IInv
  BY InitIInv
<1>2. IInv /\ [Next]_vars => IInv'
  BY RecordInv, UpdateInv, OtherInv DEF Next, Handle
<1> QED
  BY <1>1, <1>2, PTL DEF Spec

-----------------------------------------------------------------------------
(* What follows *)

\* TypeOK: in particular the stream never outgrows maxEvents.
THEOREM TypeCorrect == Spec => []TypeOK
BY Invariance, PTL DEF IInv

\* GetEvents returns the end of what was recorded.
THEOREM TailKept == Spec => []StreamIsTail
BY Invariance, PTL DEF IInv

\* The stream is in the order of its stamps.
THEOREM Ordered == Spec => []StreamInOrder
BY Invariance, PTL DEF IInv

\* The registry says nothing that was not recorded first.
THEOREM RecordedFirst == Spec => []RegistryIsRecorded
BY Invariance, PTL DEF IInv

\* An answered heartbeat keeps its node online for OFFLINE_THRESHOLD.
THEOREM OnlineAfterAnswer == Spec => []AnsweredIsOnline
<1>1. IInv => AnsweredIsOnline
  <2> SUFFICES ASSUME IInv, NEW a \in acked, clock - a.at <= Threshold
               PROVE  Online(a.node)
    BY DEF AnsweredIsOnline
  <2>1. a.node \in Node /\ a.at \in Nat /\ clock \in Nat
    BY ConstantsAssumption DEF IInv, TypeOK, Ack, Time
  <2>2. nodes[a.node] # Absent /\ a.at <= nodes[a.node]
    BY DEF IInv, AckedIsSeen, SeenSince
  <2>3. nodes[a.node] \in Nat
    BY <2>1, <2>2, ConstantsAssumption DEF IInv, TypeOK, Time
  <2> QED
    BY <2>1, <2>2, <2>3, ConstantsAssumption DEF Online
<1> QED
  BY <1>1, Invariance, PTL
=============================================================================
