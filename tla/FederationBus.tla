---------------------------- MODULE FederationBus ----------------------------
(***************************************************************************)
(* The federation bus of the onboarding backend: handleFederationBus       *)
(* (onboarding/backend/handlers.go) routes each message of an              *)
(* authenticated agent (federation/router.go) into the event stream        *)
(* (federation/event_stream.go) and, for a heartbeat, into the node        *)
(* registry (federation/node_registry.go).                                 *)
(*                                                                         *)
(* Requests are goroutines, and the stream and the registry have a lock    *)
(* each, so other requests run between the two halves of one message.  The *)
(* token that admits a message to the bus is FederationAuth's business.    *)
(***************************************************************************)
EXTENDS Naturals, Sequences

CONSTANTS
    Node,         \* node identifiers
    Request,      \* bus requests that can be in flight at once
    Kind,         \* message types, "heartbeat" and those that are only recorded
    NoName,       \* a message body without a nodeId
    Absent,       \* a node the registry does not have
    NoMessage,    \* no request in flight
    maxEvents,    \* events the stream keeps, 200 in the code
    Threshold,    \* OFFLINE_THRESHOLD, 45 s in the code
    MaxClock,     \* bound: last tick of the clock
    MaxMessages   \* bound: messages one process routes

VARIABLES
    clock,        \* wall-clock time
    process,      \* parity of the running process, which tells it from the next
    events,       \* the event stream
    nodes,        \* the registry: when each node was last seen
    stage,        \* where each request is in the handler
    message,      \* what it routes, and when it came in
    log,          \* history: every event this process has recorded
    acked         \* history: the heartbeats this process has answered

tables == <<events, nodes>>
inflight == <<stage, message>>
history == <<log, acked>>
vars == <<clock, process, tables, inflight, history>>

Time == 0..MaxClock
Stage == {"idle", "received", "recorded", "answering"}
Event == [ts: Time, type: Kind, node: Node]
Message == [type: Kind, node: Node, at: Time]
Ack == [node: Node, at: Time]

ASSUME ConstantsAssumption ==
    /\ "heartbeat" \in Kind
    /\ NoName \notin Node
    /\ Absent \notin Time
    /\ NoMessage \notin Message
    /\ maxEvents \in Nat \ {0}
    /\ Threshold \in Nat
    /\ MaxClock \in Nat
    /\ MaxMessages \in Nat

-----------------------------------------------------------------------------
\* A nodeId in the body takes precedence over the one of the token.
MessageNode(from, named) == IF named # NoName THEN named ELSE from

\* The last n elements of s, or all of them.
LastOf(s, n) == IF Len(s) > n THEN SubSeq(s, Len(s) - n + 1, Len(s)) ELSE s

\* GetNodes: the status of a node is worked out when the registry is listed.
Online(n) == nodes[n] # Absent /\ ~(clock - nodes[n] > Threshold)

-----------------------------------------------------------------------------
Init ==
    /\ clock = 0
    /\ process = 0
    /\ events = <<>>
    /\ nodes = [n \in Node |-> Absent]
    /\ stage = [r \in Request |-> "idle"]
    /\ message = [r \in Request |-> NoMessage]
    /\ log = <<>>
    /\ acked = {}

\* handleFederationBus up to its call of RouteMessage.
\* Mutant: a heartbeat goes to the registry without being recorded.
ReceiveUnrecorded(r, from, named, kind) ==
    /\ stage[r] = "idle"
    /\ Len(log) < MaxMessages
    /\ stage' = [stage EXCEPT ![r] = IF kind = "heartbeat" THEN "recorded" ELSE "received"]
    /\ message' = [message EXCEPT ![r] =
          [type |-> kind, node |-> MessageNode(from, named), at |-> clock]]
    /\ UNCHANGED <<clock, process, tables, history>>

Receive(r, from, named, kind) ==
    /\ stage[r] = "idle"
    /\ Len(log) < MaxMessages
    /\ stage' = [stage EXCEPT ![r] = "received"]
    /\ message' = [message EXCEPT ![r] =
          [type |-> kind, node |-> MessageNode(from, named), at |-> clock]]
    /\ UNCHANGED <<clock, process, tables, history>>

\* AddEvent, under eventsMutex; a heartbeat goes on to the registry.
Recorded(r) == [ts |-> clock, type |-> message[r].type, node |-> message[r].node]

AfterRecording(r) == IF message[r].type = "heartbeat" THEN "recorded" ELSE "answering"

\* Mutant: when the stream is full the new event is the one that is cut off.
AddEventKeepingOldest(r) ==
    /\ stage[r] = "received"
    /\ LET longer == Append(events, Recorded(r))
       IN  events' = IF Len(longer) > maxEvents
                     THEN SubSeq(longer, 1, maxEvents) ELSE longer
    /\ log' = Append(log, Recorded(r))
    /\ stage' = [stage EXCEPT ![r] = AfterRecording(r)]
    /\ UNCHANGED <<clock, process, nodes, message, acked>>

AddEvent(r) ==
    /\ stage[r] = "received"
    /\ events' = LastOf(Append(events, Recorded(r)), maxEvents)
    /\ log' = Append(log, Recorded(r))
    /\ stage' = [stage EXCEPT ![r] = AfterRecording(r)]
    /\ UNCHANGED <<clock, process, nodes, message, acked>>

\* UpdateNodeHeartbeat, under nodesMutex, with the time read under that lock.
\* Mutant: the time is the one the request came in with.
UpdateNodeHeartbeatFromArrival(r) ==
    /\ stage[r] = "recorded"
    /\ nodes' = [nodes EXCEPT ![message[r].node] = message[r].at]
    /\ stage' = [stage EXCEPT ![r] = "answering"]
    /\ UNCHANGED <<clock, process, events, message, history>>

\* Mutant: a node the registry does not have is not entered.
UpdateNodeHeartbeatOfKnown(r) ==
    /\ stage[r] = "recorded"
    /\ nodes' = IF nodes[message[r].node] = Absent THEN nodes
                ELSE [nodes EXCEPT ![message[r].node] = clock]
    /\ stage' = [stage EXCEPT ![r] = "answering"]
    /\ UNCHANGED <<clock, process, events, message, history>>

UpdateNodeHeartbeat(r) ==
    /\ stage[r] = "recorded"
    /\ nodes' = [nodes EXCEPT ![message[r].node] = clock]
    /\ stage' = [stage EXCEPT ![r] = "answering"]
    /\ UNCHANGED <<clock, process, events, message, history>>

\* The answer: "alive" to a heartbeat, an acknowledgement to the rest.
Reply(r) ==
    /\ stage[r] = "answering"
    /\ acked' = IF message[r].type = "heartbeat"
                THEN acked \cup {[node |-> message[r].node, at |-> message[r].at]}
                ELSE acked
    /\ stage' = [stage EXCEPT ![r] = "idle"]
    /\ message' = [message EXCEPT ![r] = NoMessage]
    /\ UNCHANGED <<clock, process, tables, log>>

Tick ==
    /\ clock < MaxClock
    /\ clock' = clock + 1
    /\ UNCHANGED <<process, tables, inflight, history>>

\* The process dies; the next one starts with an empty stream and registry.
Restart ==
    /\ process' = 1 - process
    /\ events' = <<>>
    /\ nodes' = [n \in Node |-> Absent]
    /\ stage' = [r \in Request |-> "idle"]
    /\ message' = [r \in Request |-> NoMessage]
    /\ log' = <<>>
    /\ acked' = {}
    /\ UNCHANGED clock

-----------------------------------------------------------------------------
Handle(r) == AddEvent(r) \/ UpdateNodeHeartbeat(r) \/ Reply(r)

Next ==
    \/ \E r \in Request, from \in Node, named \in Node \cup {NoName}, kind \in Kind :
          Receive(r, from, named, kind)
    \/ \E r \in Request : Handle(r)
    \/ Tick
    \/ Restart

Spec == Init /\ [][Next]_vars

(***************************************************************************)
(* The Go runtime schedules every goroutine that can run, and both critical*)
(* sections are short and take no second lock.                             *)
(***************************************************************************)
FairSpec == Spec /\ \A r \in Request : WF_vars(Handle(r))

-----------------------------------------------------------------------------
(* Properties *)

\* Type invariant: the stream holds at most maxEvents events, and a request past
\* its arrival has a message, a heartbeat while it is on the way to the registry.
TypeOK ==
    /\ clock \in Time
    /\ process \in {0, 1}
    /\ events \in Seq(Event) /\ Len(events) <= maxEvents
    /\ nodes \in [Node -> Time \cup {Absent}]
    /\ stage \in [Request -> Stage]
    /\ message \in [Request -> Message \cup {NoMessage}]
    /\ \A r \in Request : stage[r] # "idle" => message[r] # NoMessage
    /\ \A r \in Request : stage[r] = "recorded" => message[r].type = "heartbeat"
    /\ log \in Seq(Event)
    /\ acked \subseteq Ack

\* What GetEvents returns is the end of all that was recorded, however the requests
\* interleave: no event is lost, repeated or reordered but by falling off the front.
StreamIsTail == events = LastOf(log, maxEvents)

\* The stream is in the order of its time stamps, since the stamp is taken under the
\* lock that orders the events; a reader can rely on the order instead of sorting.
StreamInOrder ==
    \A i, j \in 1..Len(log) : i < j => log[i].ts <= log[j].ts

\* RouteMessage's "Always record events first", across the two locks: whatever the
\* registry says of a node, a heartbeat of it was recorded by then.
RegistryIsRecorded ==
    \A n \in Node : nodes[n] # Absent =>
        \E i \in 1..Len(log) :
            log[i].type = "heartbeat" /\ log[i].node = n /\ log[i].ts <= nodes[n]

\* A node whose heartbeat was answered with "alive" is listed online for at least
\* OFFLINE_THRESHOLD from its request on: no slower heartbeat can take it back.
AnsweredIsOnline ==
    \A a \in acked : clock - a.at <= Threshold => Online(a.node)

\* A heartbeat that has come in puts its node into the registry, unless the process
\* dies first.
HeartbeatLands ==
    \A r \in Request, n \in Node, p \in {0, 1} :
        (/\ process = p
         /\ stage[r] = "received"
         /\ message[r].type = "heartbeat"
         /\ message[r].node = n) ~> (process # p \/ nodes[n] # Absent)

=============================================================================
