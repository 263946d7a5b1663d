---------------------------- MODULE TelemetryFeed -----------------------------
(***************************************************************************)
(* The telemetry hooks of the operator console (src/ui): a WebSocket while *)
(* there is one, and made-up data from an interval otherwise.              *)
(*                                                                         *)
(* Each hook is a record that says where it departs from the shape they    *)
(* share; a view shows some of them, and a behaviour follows one.  A hook  *)
(* that is given another node, or that React.StrictMode mounts twice, runs *)
(* its effect again; sockets and intervals may outlive the cleanup.        *)
(***************************************************************************)
EXTENDS Integers, Sequences

CONSTANTS
    NotRendered,    \* the page shows no such view
    MaxEffects      \* bound: times the effect is run

VARIABLES
    feed,           \* the hook
    configured,     \* VITE_SAGE_WS_URL is set
    node,           \* the kind of node that is shown
    effect,         \* the effects so far, each with what it left behind
    mounted

feedVars == <<feed, configured, node, effect, mounted>>

NodeKind == {"pi", "other", "none"}

\* patient: gives up a connection after two seconds; onError, onClose: whether made-up data
\* takes over ("once", "always" or "never"); unserved: whether it does so without an URL;
\* stops: made-up data stops for a connection; watches: the nodes it runs for.
FederationNodes ==
    [name |-> "useFederationNodes", patient |-> TRUE, onError |-> "once", onClose |-> "once",
     unserved |-> TRUE, stops |-> TRUE, watches |-> NodeKind]
TopologyNodes == [FederationNodes EXCEPT !.name = "useTopologyNodes"]
MeshTelemetry == [FederationNodes EXCEPT !.name = "useMeshTelemetry"]
ThermalMetrics ==
    [FederationNodes EXCEPT !.name = "usePiThermalMetrics", !.watches = {"pi"}]
FusionTelemetry ==
    [FederationNodes EXCEPT !.name = "useNodeFusionTelemetry", !.watches = {"pi", "other"}]
NodeSignals ==
    [name |-> "useNodeSignalStream", patient |-> FALSE, onError |-> "always", onClose |-> "never",
     unserved |-> TRUE, stops |-> FALSE, watches |-> NodeKind]
NodeEvents == [NodeSignals EXCEPT !.name = "useNodeEvents", !.onError = "never"]
GenesisStream ==
    [NodeEvents EXCEPT !.name = "useFederationGenesisStream", !.unserved = FALSE]

\* The hooks of each view, and the nodes it can be shown for.  BridgeFrame puts a static
\* panel in the place of NodesView, and no page has a FederationHealthCore yet.
PiClusterChamber == {MeshTelemetry, FederationNodes, GenesisStream} \X {"none"}
NodesView == {GenesisStream} \X {"none"}
NodeDetailsPanel == {NodeSignals, NodeEvents, ThermalMetrics} \X {"pi", "other"}
FederationHealthCore ==
    ({TopologyNodes} \X {"none"}) \cup ({FusionTelemetry} \X {"pi", "other"})
FederationHealthMatrix == {MeshTelemetry} \X {"none"}
SignalHistoryPanel == {MeshTelemetry} \X {"none"}
Views == PiClusterChamber \cup NodesView \cup NodeDetailsPanel \cup FederationHealthCore
             \cup FederationHealthMatrix \cup SignalHistoryPanel

\* socket: readyState, or none; ws: the hook holds on to it; timer: the two seconds;
\* started: mockStarted; mocks: intervals that run, of which mockInterval knows the last.
Effect == [socket : {"none", "connecting", "open", "closing", "closed"}, ws : BOOLEAN,
           timer : BOOLEAN, started : BOOLEAN, mocks : Nat]

\* Mutant: startMock starts another interval every time.
StartMockAgain(e) == [e EXCEPT !.started = TRUE, !.mocks = @ + 1]

\* startMock: one interval at a time.
StartMock(e) == IF e.started THEN e ELSE [e EXCEPT !.started = TRUE, !.mocks = @ + 1]

\* The stop in onopen and onmessage.
StopMock(e) ==
    IF ~feed.stops \/ e.mocks = 0 THEN e ELSE [e EXCEPT !.started = FALSE, !.mocks = @ - 1]

\* Made-up data takes over, if the hook wants that.
Fallback(how, e) ==
    CASE how = "once"   -> StartMock(e)
      [] how = "always" -> [e EXCEPT !.mocks = @ + 1]
      [] how = "never"  -> e

Unconnected == [socket |-> "none", ws |-> FALSE, timer |-> FALSE, started |-> FALSE, mocks |-> 0]
Connecting(h) == [Unconnected EXCEPT !.socket = "connecting", !.ws = TRUE, !.timer = h.patient]
Unserved(h) == IF h.unserved THEN StartMock(Unconnected) ELSE Unconnected

\* What running the effect of hook h for a node does: without an URL, or when there can be
\* no socket, made-up data is shown at once.
RunFor(h, n) ==
    IF n \notin h.watches THEN {Unconnected}
    ELSE IF configured THEN {Connecting(h), Unserved(h)} ELSE {Unserved(h)}

\* The cleanup: one interval is cleared and the socket closed, but what it knows of them
\* stays, and so does the timeout.
Cleanup(e) ==
    [e EXCEPT !.mocks = IF @ = 0 THEN 0 ELSE @ - 1,
              !.socket = IF e.ws /\ @ \in {"connecting", "open"} THEN "closing" ELSE @]

FeedInit ==
    \/ /\ configured \in BOOLEAN
       /\ mounted = TRUE
       /\ \E v \in Views : /\ feed = v[1]
                           /\ node = v[2]
                           /\ \E e \in RunFor(v[1], v[2]) : effect = <<e>>
    \/ /\ feed = NotRendered /\ configured = FALSE /\ mounted = FALSE
       /\ node = "none" /\ effect = <<>>

Update(i, e) ==
    /\ effect' = [effect EXCEPT ![i] = e]
    /\ UNCHANGED <<feed, configured, node, mounted>>

\* The socket is there.
Open(i) ==
    /\ effect[i].socket = "connecting"
    /\ LET e == [effect[i] EXCEPT !.socket = "open"]
       IN  Update(i, StopMock(IF feed.patient THEN [e EXCEPT !.timer = FALSE] ELSE e))

\* onmessage, with a payload that can be parsed.
Message(i) ==
    /\ effect[i].socket = "open"
    /\ Update(i, StopMock(effect[i]))

\* Two seconds have passed and nobody has answered.
ConnectionTimeout(i) ==
    /\ effect[i].timer
    /\ LET e == [effect[i] EXCEPT !.timer = FALSE]
       IN  Update(i, IF e.ws /\ e.socket = "connecting"
                     THEN StartMock([e EXCEPT !.socket = "closing", !.ws = FALSE]) ELSE e)

Ended(e) == [e EXCEPT !.socket = "closed", !.ws = FALSE, !.timer = FALSE]

\* The connection fails, before it stands or later: onerror, and onclose right after it.
Error(i) ==
    /\ effect[i].socket \in {"connecting", "open", "closing"}
    /\ Update(i, Fallback(feed.onClose, Fallback(feed.onError, Ended(effect[i]))))

\* Mutant: nothing takes over from a connection that was closed.
CloseForGood(i) ==
    /\ effect[i].socket \in {"open", "closing"}
    /\ Update(i, Ended(effect[i]))

\* onclose alone; a hook without one goes on holding its socket.
Close(i) ==
    /\ effect[i].socket \in {"open", "closing"}
    /\ Update(i, IF feed.patient \/ feed = GenesisStream
                 THEN Fallback(feed.onClose, Ended(effect[i]))
                 ELSE [effect[i] EXCEPT !.socket = "closed"])

Current == Len(effect)

\* React.StrictMode runs the effect again; the fusion panel also stays while the operator
\* selects another node, but the details of another node are mounted anew.
RunAgain ==
    /\ mounted /\ Len(effect) < MaxEffects
    /\ node' \in IF feed = FusionTelemetry THEN feed.watches ELSE {node}
    /\ \E e \in RunFor(feed, node') : effect' = Append([effect EXCEPT ![Current] = Cleanup(@)], e)
    /\ UNCHANGED <<feed, configured, mounted>>

\* The operator closes the panel or selects something else.
Unmount ==
    /\ mounted
    /\ mounted' = FALSE
    /\ effect' = [effect EXCEPT ![Current] = Cleanup(@)]
    /\ UNCHANGED <<feed, configured, node>>

\* What the browser owes every socket and timer.
Browser(i) == ConnectionTimeout(i) \/ Open(i) \/ Error(i) \/ Close(i)

FeedNext ==
    \/ \E i \in DOMAIN effect : Browser(i) \/ Message(i)
    \/ RunAgain \/ Unmount

\* A connection attempt comes to an end or the timeout does; a socket that is being closed
\* gets closed.  A connection that stands may stand for ever.
Settling(i) == effect[i].socket \in {"connecting", "closing"} /\ Browser(i)
FeedFairness == \A i \in 1..MaxEffects : WF_feedVars(i \in DOMAIN effect /\ Settling(i))

-----------------------------------------------------------------------------
FeedTypeOK ==
    /\ \/ feed = NotRendered
       \/ \E v \in Views : feed = v[1]
    /\ configured \in BOOLEAN /\ mounted \in BOOLEAN
    /\ node \in NodeKind
    /\ effect \in Seq(Effect)

\* An effect never makes data up while its own connection stands, and never runs two
\* intervals, of which only the last could ever be cleared, whatever the order of timeout,
\* open, error, close and cleanup.
OneSource ==
    \A i \in DOMAIN effect :
        effect[i].mocks <= 1 /\ (effect[i].socket = "open" => effect[i].mocks = 0)

\* A mounted view of the guarded kind is always fed again, by a connection or by made-up
\* data: no order of timeouts, errors and closes leaves it without either.
AlwaysFed ==
    []<>(feed # NotRendered /\ mounted /\ feed.onClose = "once" /\ node \in feed.watches =>
             effect[Current].socket = "open" \/ effect[Current].mocks > 0)
=============================================================================
