---------------------------- MODULE ArcFederation ----------------------------
(***************************************************************************)
(* The federation stores of the arc bridge (arc-bridge-local/src), one     *)
(* Node process whose handlers run to their end: the bus                   *)
(* (routes/federation.ts) fills the event stream, the node registry, the   *)
(* command queue, the subscriptions and the intents; divergence, topology, *)
(* reasons and previews are worked out from them whenever they are asked.  *)
(*                                                                         *)
(* Missing is a field that is missing or empty, which the code tells apart *)
(* only where it stores "undefined" for it.                                *)
(***************************************************************************)
EXTENDS Naturals, Sequences, FiniteSets

CONSTANTS
    Id,                 \* names of nodes, agents and targets
    Blank,              \* those of white space only
    Channel,            \* routing channels a message may name
    MAX_EVENTS,         \* events the stream keeps, 200 in the code
    MAX_INTENTS,        \* intents that are listed, 500 in the code
    MAX_COMMANDS,       \* commands that are listed, 200 in the code
    MAX_LOG_SIZE,       \* actions the audit trail keeps, 1000 in the code
    OFFLINE_THRESHOLD,  \* 45 s
    staleAfter,         \* 60 s, of every intent that comes over the bus
    MaxClock,           \* bound: last tick of the clock
    MaxPosts            \* bound: messages one process takes

VARIABLES
    now,                \* Date.now()
    events,             \* the event stream
    nodes,              \* the registry: when each node was last seen
    commands,           \* every command
    subscriptions,      \* every subscription
    intents,            \* every intent, with the time it was declared
    actionLog,          \* the audit trail
    heard               \* history: the messages posted on the bus, and when

fedVars == <<events, nodes, commands, subscriptions, intents, actionLog, heard>>

Never == 0
Missing == ""
Time == 1..MaxClock
Name == Id \cup {Missing}
Route == Channel \cup {Missing, "broadcast", "node", "undefined"}
MessageType == {"heartbeat", "telemetry", "command", "subscribe", "intent", "event"}
ActionType == {"QUERY", "ECHO", "DEPLOY", "CONFIG", "ORCHESTRATE", "POLICY", "FEDERATE"}

ASSUME ArcFederationAssumption ==
    /\ {MAX_EVENTS, MAX_INTENTS, MAX_COMMANDS, MAX_LOG_SIZE} \subseteq Nat \ {0}
    /\ {OFFLINE_THRESHOLD, staleAfter, MaxPosts} \subseteq Nat
    /\ MaxClock \in Nat \ {0}
    /\ Missing \notin Id \cup Channel
    /\ Blank \subseteq Id

-----------------------------------------------------------------------------
\* The idiom x || y.
Or(x, y) == IF x = Missing THEN y ELSE x

LastOf(s, n) == IF Len(s) > n THEN SubSeq(s, Len(s) - n + 1, Len(s)) ELSE s

Elements(s) == {s[k] : k \in 1..Len(s)}

\* The status of a node is worked out when the registry is listed.
NodesStatus ==
    [n \in {m \in Id : nodes[m] # Never} |->
        IF now - nodes[n] > OFFLINE_THRESHOLD THEN "offline" ELSE "online"]

GetFilteredEvents(channel, node) ==
    LET Passes(e) == /\ channel # Missing => e.channel = channel
                     /\ node # Missing => e.nodeId = node
    IN  LastOf(SelectSeq(events, Passes), MAX_EVENTS)

GetRecentCommands == LastOf(commands, MAX_COMMANDS)
GetCommandsForTarget(t) == SelectSeq(commands, LAMBDA c : c.target = t)

ListIntents == LastOf(intents, MAX_INTENTS)

\* Over all intents, not only those that are listed.
SummarizeIntentLifecycle == [stage \in {"pending"} |-> Len(intents)]
DetectStaleIntents == {k \in 1..Len(intents) : now - intents[k].ts > staleAfter}

-----------------------------------------------------------------------------
\* The first subscription to the channel is the one an intent is held against.
FirstSubscription(i) ==
    LET found == {k \in 1..Len(subscriptions) : subscriptions[k].channel = i.channel}
    IN  IF found = {} THEN <<>>
        ELSE <<subscriptions[CHOOSE k \in found : \A j \in found : k <= j]>>

\* Mutant: the first subscription of all is, whatever its channel.
DivergenceByAnyChannel(i) ==
    LET match == IF subscriptions = <<>> THEN <<>> ELSE <<subscriptions[1]>>
    IN  IF match = <<>> THEN "missing"
        ELSE IF i.target # "undefined" /\ match[1].id # i.target THEN "diverged"
        ELSE "aligned"

DetectDivergence(i) ==
    LET match == FirstSubscription(i)
    IN  IF match = <<>> THEN "missing"
        ELSE IF i.target # "undefined" /\ match[1].id # i.target THEN "diverged"
        ELSE "aligned"

\* Names of white space only are left out, of the nodes and of the edges.
FederationTopology ==
    LET targets == {i.target : i \in Elements(ListIntents)} \ {"undefined"}
        ids == {s.id : s \in Elements(subscriptions)} \ {Missing}
    IN  [nodes |-> (targets \cup ids) \ Blank,
         edges |-> {[source |-> s.id, channel |-> s.channel] :
                       s \in {t \in Elements(subscriptions) : t.id \notin Blank \cup {Missing}}}]

\* The reasons, each with what it is about.
DeriveReasons ==
    LET topo == FederationTopology
        listed == Elements(ListIntents)
        targeted == {i \in listed : i.target # "undefined"}
        Reason(type, target, channel) == [type |-> type, target |-> target, channel |-> channel]
    IN  {Reason("missing-node", i.target, i.channel) :
            i \in {j \in targeted : j.target \notin topo.nodes}}
        \cup {Reason("orphan", n, Missing) :
            n \in {m \in topo.nodes : \A e \in topo.edges : e.source # m}}
        \cup {Reason("redundant-edge", e.source, e.channel) :
            e \in {f \in topo.edges : ~\E i \in listed :
                      i.channel = f.channel /\ i.target = f.source}}
        \cup {Reason("intent-without-subscription", i.target, i.channel) :
            i \in {j \in targeted :
                      /\ j.channel # "undefined"
                      /\ ~\E s \in Elements(subscriptions) :
                            s.channel = j.channel /\ s.id = j.target}}

\* What an action would touch, by its optional target and channel.
PreviewAction(target, channel) ==
    [targets |-> {n \in FederationTopology.nodes : target # Missing => n = target},
     affectedChannels |-> IF channel # Missing THEN {channel}
                          ELSE {s.channel : s \in Elements(subscriptions)},
     matchingSubscriptions |->
        Cardinality({k \in DOMAIN subscriptions :
                        channel # Missing => subscriptions[k].channel = channel}),
     matchingIntents |->
        Cardinality({k \in DOMAIN ListIntents :
                        /\ target # Missing => ListIntents[k].target = target
                        /\ channel # Missing => ListIntents[k].channel = channel})]

-----------------------------------------------------------------------------
FedInit ==
    /\ now = 1
    /\ events = <<>>
    /\ nodes = [n \in Id |-> Never]
    /\ commands = <<>>
    /\ subscriptions = <<>>
    /\ intents = <<>>
    /\ actionLog = <<>>
    /\ heard = <<>>

Body == [nodeId : Name, subject : Name, channel : Channel \cup {Missing}]

EnqueueCommand(data) ==
    commands' = Append(commands, [target |-> data.subject, channel |-> Or(data.channel, "node"), ts |-> now])

\* Nothing is removed: a subscription is entered as often as it is asked for.
RegisterSubscription(data) ==
    subscriptions' = Append(subscriptions, [id |-> data.subject, channel |-> data.channel])

DeclareIntent(data) ==
    intents' = Append(intents, [target |-> Or(data.subject, "undefined"),
                                channel |-> Or(data.channel, "undefined"), ts |-> now])

\* Only a heartbeat that names its node reaches the registry.
Heartbeat(data) ==
    nodes' = IF data.nodeId = Missing THEN nodes ELSE [nodes EXCEPT ![data.nodeId] = now]

RecordEvent(type, data, from) ==
    events' = LastOf(Append(events, [ts |-> now, type |-> type, nodeId |-> from,
                                     channel |-> Or(data.channel, "broadcast")]), MAX_EVENTS)

\* Mutant: the handler of a heartbeat returns before the event is recorded.
RouteMessageRecordingLate(type, data, from) ==
    /\ IF type = "heartbeat" THEN UNCHANGED events ELSE RecordEvent(type, data, from)
    /\ IF type = "heartbeat" THEN Heartbeat(data) ELSE UNCHANGED nodes
    /\ IF type = "command" THEN EnqueueCommand(data) ELSE UNCHANGED commands
    /\ IF type = "subscribe" THEN RegisterSubscription(data) ELSE UNCHANGED subscriptions
    /\ IF type = "intent" THEN DeclareIntent(data) ELSE UNCHANGED intents

\* The event is recorded before the message goes to the store of its type.
RouteMessage(type, data, from) ==
    /\ RecordEvent(type, data, from)
    /\ IF type = "heartbeat" THEN Heartbeat(data) ELSE UNCHANGED nodes
    /\ IF type = "command" THEN EnqueueCommand(data) ELSE UNCHANGED commands
    /\ IF type = "subscribe" THEN RegisterSubscription(data) ELSE UNCHANGED subscriptions
    /\ IF type = "intent" THEN DeclareIntent(data) ELSE UNCHANGED intents

\* POST /federation/bus: the node is the body's, or else the token's.
Bus(type, data, token) ==
    /\ Len(heard) < MaxPosts
    /\ LET from == Or(Or(data.nodeId, token), "unknown")
       IN  /\ RouteMessage(type, data, from)
           /\ heard' = Append(heard, [type |-> type, from |-> from, named |-> data.nodeId, at |-> now])
    /\ UNCHANGED <<now, actionLog>>

\* POST /federation/action/record; a type that is not registered is refused.
RecordAction(type, target, channel) ==
    /\ type \in ActionType
    /\ actionLog' = LastOf(Append(actionLog, [type |-> type, target |-> target, channel |-> channel]), MAX_LOG_SIZE)
    /\ UNCHANGED <<now, events, nodes, commands, subscriptions, intents, heard>>

FedTick ==
    /\ now < MaxClock
    /\ now' = now + 1
    /\ UNCHANGED fedVars

\* Everything is in memory.
FedRestart ==
    /\ events' = <<>>
    /\ nodes' = [n \in Id |-> Never]
    /\ commands' = <<>>
    /\ subscriptions' = <<>>
    /\ intents' = <<>>
    /\ actionLog' = <<>>
    /\ heard' = <<>>
    /\ UNCHANGED now

NoBody == [nodeId |-> Missing, subject |-> Missing, channel |-> Missing]

FedNext ==
    \/ \E type \in {"heartbeat", "telemetry", "event"}, node, token \in Name :
          Bus(type, [NoBody EXCEPT !.nodeId = node], token)
    \/ \E type \in {"command", "subscribe", "intent"}, subject \in Name, channel \in Channel \cup {Missing} :
          Bus(type, [NoBody EXCEPT !.subject = subject, !.channel = channel], Missing)
    \/ \E type \in {"DEPLOY", "REBOOT"}, target \in Name : RecordAction(type, target, Missing)
    \/ FedTick

-----------------------------------------------------------------------------
FedTypeOK ==
    /\ now \in Time
    /\ events \in Seq([ts : Time, type : MessageType, nodeId : Id \cup {"unknown"}, channel : Route])
    /\ Len(events) <= MAX_EVENTS
    /\ nodes \in [Id -> Time \cup {Never}]
    /\ commands \in Seq([target : Name, channel : Route, ts : Time])
    /\ subscriptions \in Seq([id : Name, channel : Channel \cup {Missing}])
    /\ intents \in Seq([target : Id \cup {"undefined"}, channel : Channel \cup {"undefined"}, ts : Time])
    /\ actionLog \in Seq([type : ActionType, target : Name, channel : Channel \cup {Missing}])
    /\ Len(actionLog) <= MAX_LOG_SIZE
    /\ heard \in Seq([type : MessageType, from : Id \cup {"unknown"}, named : Name, at : Time])

(***************************************************************************)
(* What the state endpoint says of one intent in one answer fits together: *)
(* an intent without any subscription to its channel is also reported as   *)
(* without subscription, an aligned one is not, what a preview of the same *)
(* target and channel counts agrees with both, and the preview reaches the *)
(* target exactly if its node is not reported missing, which is if its     *)
(* name is not blank (divergence.ts, reasoning.ts, topology.ts and         *)
(* action-preview.ts go over the stores with four different loops).        *)
(***************************************************************************)
ReportsAgree ==
    \A i \in Elements(ListIntents) :
        (i.target # "undefined" /\ i.channel # "undefined") =>
            LET flagged == [type |-> "intent-without-subscription",
                            target |-> i.target, channel |-> i.channel] \in DeriveReasons
                absent == [type |-> "missing-node",
                           target |-> i.target, channel |-> i.channel] \in DeriveReasons
                preview == PreviewAction(i.target, i.channel)
                status == DetectDivergence(i)
            IN  /\ status = "missing" <=> preview.matchingSubscriptions = 0
                /\ status = "missing" => flagged
                /\ status = "aligned" => ~flagged
                /\ preview.matchingIntents > 0
                /\ preview.targets = IF absent THEN {} ELSE {i.target}
                /\ absent <=> i.target \in Blank

(***************************************************************************)
(* The registry and the stream tell one story: a node that is listed was   *)
(* last seen at its last heartbeat that named it, and the stream still     *)
(* shows that heartbeat unless MAX_EVENTS later messages pushed it out.    *)
(***************************************************************************)
RegistryMatchesStream ==
    LET Names(k, n) == heard[k].type = "heartbeat" /\ heard[k].named = n
        Last(n) == {k \in 1..Len(heard) :
                       Names(k, n) /\ \A j \in k + 1..Len(heard) : ~Names(j, n)}
    IN  \A n \in Id :
            /\ nodes[n] = Never <=> Last(n) = {}
            /\ \A k \in Last(n) :
                  /\ nodes[n] = heard[k].at
                  /\ Len(heard) - k < MAX_EVENTS =>
                        \E e \in Elements(events) :
                            e.type = "heartbeat" /\ e.nodeId = n /\ e.ts = nodes[n]
=============================================================================
