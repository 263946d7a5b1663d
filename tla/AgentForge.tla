------------------------------ MODULE AgentForge ------------------------------
(***************************************************************************)
(* Agent genesis in the operator console (src/ui): the form, the registry  *)
(* and its bus with the bridge that echoes events, the orchestrator that   *)
(* follows a genesis by WebSocket and by polling.                          *)
(*                                                                         *)
(* Two things drive an agent.  Timers of the bridge move it through the    *)
(* registry; the orchestrator asks a service about it.  No such service is *)
(* in the repository: on the local ports the client makes its answers up,  *)
(* elsewhere the request fails unless somebody serves it.                  *)
(***************************************************************************)
EXTENDS Naturals, Sequences, Bags

CONSTANTS
    Agent,                  \* agents that are followed all the way
    Other,                  \* all the others, of which only what the form hears is kept
    NoAgent,
    Bridges,                \* times the echo was started: twice under React.StrictMode
    Stack,                  \* bound: nested calls the engine allows
    MaxReconnectAttempts,
    MaxPolls,               \* bound: status requests at a time
    MaxWire                 \* bound: WebSocket messages under way

VARIABLES
    service,        \* who answers for a genesis; "none": the console is not open
    panel,          \* the panel that is shown
    formState,
    others,         \* another agent has been forged
    registry,       \* status per agent
    tracker,        \* per agent: how the orchestrator follows it
    genesis,        \* per agent: its status at the service
    polls,          \* the answers to its status requests, a bag: they overlap
    channel,        \* the WebSocket of the genesis client
    wire,           \* its messages under way
    echoes          \* log entries made of the last event

forgeVars ==
    <<service, panel, formState, others, registry, tracker, genesis, polls, channel, wire, echoes>>

Status == {"unknown", "created", "forging", "deploying", "completed"}
State == {"validating", "forging", "deploying", "completed", "failed"}
Terminal == {"completed", "failed"}
Panel == {"home", "agent-genesis"}

BlankForm == [loading |-> FALSE, id |-> NoAgent, complete |-> FALSE, failed |-> FALSE]
Untracked == [state |-> "validating", subscribed |-> FALSE, polling |-> FALSE,
              verdict |-> "none"]
WireMessage == [type : {"status", "completed", "failed"}, of : Agent, status : State]

ForgeInit ==
    /\ service \in {"none", "mock", "served"}
    /\ panel = "home"
    /\ formState = BlankForm
    /\ others = FALSE
    /\ registry = [a \in Agent |-> "unknown"]
    /\ tracker = [a \in Agent |-> Untracked]
    /\ genesis = [a \in Agent |-> "validating"]
    /\ polls = EmptyBag
    /\ channel = [ws |-> "none", timer |-> FALSE, attempts |-> 0]
    /\ wire = <<>>
    /\ echoes = 0

-----------------------------------------------------------------------------
\* The bridge echoes every event, its own echoes too, until the engine runs out of stack
\* and emitEvent catches the error.
Echoes ==
    LET at[depth \in 0..Stack] == IF depth = Stack THEN 0 ELSE Bridges * (1 + at[depth + 1])
    IN  at[0]

\* register and updateStatus, each with its event on the bus.
Register(a) ==
    /\ registry' = [registry EXCEPT ![a] = "created"]
    /\ echoes' = Echoes
UpdateStatus(a, s) ==
    /\ registry' = [registry EXCEPT ![a] = s]
    /\ echoes' = Echoes

FormShown == panel = "agent-genesis"

\* Mutant: the form goes on forging.
HearBusStillLoading(a) ==
    IF FormShown /\ formState.id = a THEN [formState EXCEPT !.complete = TRUE] ELSE formState

\* What the form makes of "completed" and "forged" on the bus.
HearBus(a) ==
    IF FormShown /\ formState.id = a
    THEN [formState EXCEPT !.complete = TRUE, !.loading = FALSE] ELSE formState

NextStatus == [created |-> "forging", forging |-> "deploying", deploying |-> "completed"]

\* The timers of forgeAgent, in the order of their delays.
ForgeTimer(a) ==
    /\ registry[a] \in DOMAIN NextStatus
    /\ UpdateStatus(a, NextStatus[registry[a]])
    /\ formState' = IF registry'[a] = "completed" THEN HearBus(a) ELSE formState
    /\ UNCHANGED <<service, panel, others, tracker, genesis, polls, channel, wire>>

-----------------------------------------------------------------------------
\* Mutant: an agent that is being deployed counts as completed.
TransitionTooFar(state, event) ==
    IF event.type = "status" /\ event.status = "deploying" /\ state = "forging" THEN "completed"
    ELSE IF event.type = "status" /\ event.status = "forging" /\ state = "validating" THEN "forging"
    ELSE state

\* next: an event that does not fit the state is ignored.
Transition(state, event) ==
    LET says(s) == event.type = "status" /\ event.status = s
    IN  CASE state = "validating" /\ says("forging") -> "forging"
          [] state = "forging" /\ says("deploying") -> "deploying"
          [] state \in {"validating", "forging"} /\ says("failed") -> "failed"
          [] state = "deploying" /\ (event.type = "completed" \/ says("completed")) -> "completed"
          [] state = "deploying" /\ (event.type = "failed" \/ says("failed")) -> "failed"
          [] OTHER -> state

\* genesis.progress, genesis.completed and genesis.failed at the form, whose handlers do
\* not look which genesis it is.
HearProgress(f, a) == IF FormShown THEN [f EXCEPT !.id = a] ELSE f
HearVerdict(f, verdict) ==
    IF ~FormShown \/ verdict = "none" THEN f
    ELSE [f EXCEPT !.loading = FALSE, !.complete = verdict = "completed",
                   !.failed = verdict = "failed"]

Hear(a, changed, verdict) ==
    HearVerdict(IF changed THEN HearProgress(formState, a) ELSE formState, verdict)

\* The form hears of another agent.
OthersHeard ==
    /\ others
    /\ formState' \in {HearBus(Other)} \cup
           {Hear(Other, changed, verdict) : changed \in BOOLEAN, verdict \in Terminal \cup {"none"}}
    /\ UNCHANGED <<service, panel, others, registry, tracker, genesis, polls, channel, wire,
                   echoes>>

\* A WebSocket message at the subscriber for its genesis.  Its verdict ends the
\* subscription, and leaves the polling alone.
Follow(a, event) ==
    LET state == Transition(tracker[a].state, event)
        verdict == CASE event.type = "completed" \/ state = "completed" -> "completed"
                     [] event.type = "failed" \/ state = "failed" -> "failed"
                     [] OTHER -> "none"
    IN  /\ tracker' = [tracker EXCEPT ![a].state = state,
                                      ![a].subscribed = verdict = "none",
                                      ![a].verdict = IF verdict = "none" THEN @ ELSE verdict]
        /\ formState' = Hear(a, state # tracker[a].state, verdict)

Deliver ==
    /\ wire # <<>>
    /\ wire' = Tail(wire)
    /\ LET event == Head(wire)
       IN  IF tracker[event.of].subscribed THEN Follow(event.of, event)
           ELSE UNCHANGED <<tracker, formState>>
    /\ UNCHANGED <<service, panel, others, registry, genesis, polls, channel, echoes>>

\* What the service answers; the mock one always the same.
GenesisStatus(a) == IF service = "mock" THEN "forging" ELSE genesis[a]

\* The interval asks for the status, whether or not the last request was answered; its
\* answer, of the moment the service sees the request, is then on its way back.
AskStatus(a) ==
    /\ tracker[a].polling
    /\ BagCardinality(polls) < MaxPolls
    /\ polls' = polls (+) SetToBag({[of |-> a, status |-> GenesisStatus(a)]})
    /\ UNCHANGED <<service, panel, formState, others, registry, tracker, genesis, channel, wire,
                   echoes>>

\* A request fails, and nothing comes of it.
FailPoll(r) ==
    /\ service # "mock"
    /\ polls' = polls (-) SetToBag({r})
    /\ UNCHANGED <<service, panel, formState, others, registry, tracker, genesis, channel, wire,
                   echoes>>

\* The answer at the poll: every request that was under way when the state became terminal
\* gives the verdict once more.
ApplyPoll(r) ==
    /\ polls' = polls (-) SetToBag({r})
    /\ LET state == Transition(tracker[r.of].state, [type |-> "status", status |-> r.status])
           verdict == IF state \in Terminal THEN state ELSE "none"
       IN  /\ tracker' = [tracker EXCEPT ![r.of].state = state,
                              ![r.of].subscribed = @ /\ verdict = "none",
                              ![r.of].polling = @ /\ verdict = "none",
                              ![r.of].verdict = IF verdict = "none" THEN @ ELSE verdict]
           /\ formState' = Hear(r.of, state # tracker[r.of].state, verdict)
    /\ UNCHANGED <<service, panel, others, registry, genesis, channel, wire, echoes>>

\* Five minutes have passed.
StopPolling(a) ==
    /\ tracker[a].polling
    /\ tracker' = [tracker EXCEPT ![a].polling = FALSE]
    /\ UNCHANGED <<service, panel, formState, others, registry, genesis, polls, channel, wire,
                   echoes>>

\* The service gets on with a genesis, and says so to whoever is connected.
Serve(a) ==
    /\ service = "served"
    /\ registry[a] # "unknown" /\ genesis[a] \notin Terminal
    /\ \E s \in {"failed", CASE genesis[a] = "validating" -> "forging"
                             [] genesis[a] = "forging" -> "deploying"
                             [] genesis[a] = "deploying" -> "completed"} :
           /\ genesis' = [genesis EXCEPT ![a] = s]
           /\ IF channel.ws = "open" /\ Len(wire) < MaxWire
              THEN \E type \in {"status"} \cup ({s} \cap Terminal) :
                       wire' = Append(wire, [type |-> type, of |-> a, status |-> s])
              ELSE wire' = wire
    /\ UNCHANGED <<service, panel, formState, others, registry, tracker, polls, channel, echoes>>

-----------------------------------------------------------------------------
\* connect: not when it is connecting or open.
Connected(c) == IF c.ws = "none" THEN [c EXCEPT !.ws = "connecting"] ELSE c

\* scheduleReconnect: one timer at a time, and so many attempts since the last success.
Scheduled(c) ==
    IF c.timer \/ c.attempts >= MaxReconnectAttempts THEN c ELSE [c EXCEPT !.timer = TRUE]

ChannelOpens ==
    /\ channel.ws = "connecting" /\ service = "served"
    /\ channel' = [channel EXCEPT !.ws = "open", !.attempts = 0]
    /\ wire' = <<>>
    /\ UNCHANGED <<service, panel, formState, others, registry, tracker, genesis, polls, echoes>>

\* onerror and onclose: what was under way is lost.
ChannelFails ==
    /\ channel.ws # "none"
    /\ channel' = Scheduled([channel EXCEPT !.ws = "none"])
    /\ wire' = <<>>
    /\ UNCHANGED <<service, panel, formState, others, registry, tracker, genesis, polls, echoes>>

Reconnect ==
    /\ channel.timer
    /\ channel' = Connected([channel EXCEPT !.timer = FALSE, !.attempts = @ + 1])
    /\ UNCHANGED <<service, panel, formState, others, registry, tracker, genesis, polls, wire,
                   echoes>>

-----------------------------------------------------------------------------
\* The operator opens a panel or another; the form starts blank.
Select(p) ==
    /\ service # "none" /\ p # panel
    /\ panel' = p
    /\ formState' = BlankForm
    /\ UNCHANGED <<service, others, registry, tracker, genesis, polls, channel, wire, echoes>>

\* What the form has when its button can be pressed: enough for the validator, or not.
Manifest == {"good", "bad"}
ValidManifest(manifest) == manifest = "good"

Reset(f) == [f EXCEPT !.id = NoAgent, !.complete = FALSE, !.failed = FALSE]

\* The form under its status box has the button that forges, unless it is forging, or has
\* the one that resets it.
CanForge == FormShown /\ ~formState.complete /\ ~formState.loading

\* handleForge: reset, validation, registration and the start of the tracking are done
\* before anything else can happen.
HandleForge ==
    /\ CanForge
    /\ \E manifest \in Manifest :
       IF ValidManifest(manifest)
       THEN /\ formState' = [Reset(formState) EXCEPT !.loading = TRUE]
            /\ channel' = Connected(channel)
            /\ \/ \E a \in Agent : /\ registry[a] = "unknown"
                                  /\ Register(a)
                                  /\ tracker' = [tracker EXCEPT ![a].subscribed = TRUE,
                                                                ![a].polling = TRUE]
                                  /\ others' = others
               \/ others' = TRUE /\ echoes' = Echoes /\ UNCHANGED <<registry, tracker>>
       ELSE /\ formState' = [Reset(formState) EXCEPT !.failed = TRUE]
            /\ UNCHANGED <<others, registry, tracker, channel, echoes>>
    /\ UNCHANGED <<service, panel, genesis, polls, wire>>

\* resetForm, the button once the form is complete.
ResetForm ==
    /\ FormShown /\ formState.complete
    /\ formState' = BlankForm
    /\ UNCHANGED <<service, panel, others, registry, tracker, genesis, polls, channel, wire,
                   echoes>>

ForgeNext ==
    \/ \E a \in Agent : ForgeTimer(a) \/ AskStatus(a) \/ StopPolling(a) \/ Serve(a)
    \/ \E r \in BagToSet(polls) : FailPoll(r) \/ ApplyPoll(r)
    \/ OthersHeard
    \/ Deliver \/ ChannelOpens \/ ChannelFails \/ Reconnect
    \/ \E p \in Panel : Select(p)
    \/ HandleForge \/ ResetForm

-----------------------------------------------------------------------------
ForgeTypeOK ==
    /\ service \in {"none", "mock", "served"}
    /\ panel \in Panel
    /\ formState \in [loading : BOOLEAN,
                 id : Agent \cup {Other, NoAgent}, complete : BOOLEAN, failed : BOOLEAN]
    /\ others \in BOOLEAN
    /\ registry \in [Agent -> Status]
    /\ tracker \in [Agent -> [state : State, subscribed : BOOLEAN, polling : BOOLEAN,
                              verdict : Terminal \cup {"none"}]]
    /\ genesis \in [Agent -> State]
    /\ IsABag(polls) /\ BagCardinality(polls) <= MaxPolls
    /\ BagToSet(polls) \subseteq [of : Agent, status : State]
    /\ channel \in [ws : {"none", "connecting", "open"}, timer : BOOLEAN,
                    attempts : 0..MaxReconnectAttempts]
    /\ wire \in Seq(WireMessage) /\ Len(wire) <= MaxWire
    /\ echoes \in Nat

\* A genesis is said to have completed, or to have failed, only when it has.
VerdictIsReal ==
    \A a \in Agent : tracker[a].verdict # "none" => genesis[a] = tracker[a].verdict

\* A form that says an agent is being forged shows no verdict of this or an earlier one.
ForgingHasNoVerdict == formState.loading => ~formState.complete /\ ~formState.failed

\* "Echo new agents into federation logs": one event makes one log entry.
EchoedOnce == echoes <= 1
=============================================================================
