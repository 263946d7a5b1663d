----------------------------- MODULE PollingHooks -----------------------------
(***************************************************************************)
(* The views that ask a server again at every interval: in the onboarding  *)
(* front end (src/onboarding/frontend) the operator's lamp, the tenant's   *)
(* status, agents, activity and telemetry, the kit's status, its audit     *)
(* feed and the federation panel; in the operator console (src/ui) the     *)
(* lamp, the state, topology, command and backplane panels and the nexus.  *)
(*                                                                         *)
(* Requests overlap, and their answers come in any order.  An effect that  *)
(* was run again leaves requests behind, and not every view looks whether  *)
(* an answer is for the effect that runs.                                  *)
(***************************************************************************)
EXTENDS Naturals, TLC

CONSTANTS
    NotPolled,      \* the page shows no such view
    Nothing,        \* no data
    LastVersion,    \* bound: the server's last version
    MaxFlights,     \* bound: requests at a time
    MaxFailures,    \* bound: requests that fail
    MaxReruns       \* bound: times React runs the effect again

VARIABLES
    hook,           \* how the view asks
    version,        \* what the server would answer
    content,        \* what there is to say of each version
    data,           \* what the view holds: the versions of its first and last part
    error,          \* an error is set
    loading,        \* the view's loading flag
    captured,       \* the data that the running effect has seen
    flight,         \* per slot: the request there
    failures, reruns

pollVars == <<hook, version, content, data, error, loading, captured, flight, failures, reruns>>

\* polls: when the interval asks; checks: where it looks at isMounted; loses: what a
\* failure takes away; hides: an error is shown in place of the data; lists: the data are a
\* list, which may be empty; waits: which requests set the loading flag, and sees: whether it
\* is shown in place of anything or only of nothing; chained: ten requests one after another,
\* whose answers are applied together.
TenantStatus ==
    [polls |-> "always", checks |-> {"answer"}, loses |-> "nothing", hides |-> FALSE,
     lists |-> FALSE, waits |-> "never", sees |-> "nothing", chained |-> FALSE]
TenantAgents == TenantStatus
TenantActivity == TenantStatus
TenantTelemetry == TenantStatus
BootstrapStatus == [TenantStatus EXCEPT !.polls = "until activated"]
VerifiedPage == BootstrapStatus
Nexus == [TenantStatus EXCEPT !.checks = {}]
BootstrapAuditFeed == [Nexus EXCEPT !.lists = TRUE, !.waits = "always"]
SuccessPage == [Nexus EXCEPT !.polls = "never", !.waits = "always", !.sees = "anything"]
OperatorLamp == [TenantStatus EXCEPT !.checks = {"answer", "body"}, !.loses = "on exception",
                                     !.waits = "at first", !.sees = "anything"]
FederationState == [Nexus EXCEPT !.hides = TRUE, !.waits = "always"]
ConsoleState == FederationState
Topology == FederationState
CommandConsole == [FederationState EXCEPT !.lists = TRUE]
Backplane == [CommandConsole EXCEPT !.chained = TRUE]
ConsoleLamp == [Nexus EXCEPT !.loses = "always", !.waits = "at first", !.sees = "anything"]

\* The hooks of the pages that have several.
Dashboard == {TenantTelemetry, TenantStatus, TenantAgents, TenantActivity, BootstrapStatus}
Hooks == Dashboard \cup {BootstrapAuditFeed, SuccessPage, VerifiedPage, OperatorLamp,
                         FederationState, ConsoleState, Topology, CommandConsole, Backplane, ConsoleLamp, Nexus}

Version == 0..LastVersion
Slot == 1..MaxFlights
Free == [phase |-> "free", mounted |-> FALSE, parts |-> <<0, 0>>]
Sent == [phase |-> "sent", mounted |-> TRUE, parts |-> <<0, 0>>]

\* The latest kit may be activated, and the nodes, commands or events may be none.
Content(h) ==
    {"plain"} \cup (IF h.polls = "until activated" THEN {"activated"} ELSE {})
              \cup (IF h.lists THEN {"empty"} ELSE {})

PollInit ==
    /\ hook \in Hooks \cup {NotPolled}
    /\ version = 0
    /\ IF hook = NotPolled THEN content = <<>> ELSE content \in [{0} -> Content(hook)]
    /\ data = Nothing
    /\ error = FALSE
    /\ loading = (hook # NotPolled /\ hook.waits # "never")
    /\ captured = Nothing
    /\ flight = [s \in Slot |-> IF s = 1 /\ hook # NotPolled THEN Sent ELSE Free]
    /\ failures = 0
    /\ reruns = 0

\* Whether the kit that was the latest when the data were loaded is activated.
Activated(d) == d # Nothing /\ content[d[2]] = "activated"

Send(flights) == {[flights EXCEPT ![s] = Sent] : s \in {t \in Slot : flights[t] = Free}}

\* setLoading(true), by a request that is sent.
Waiting == loading' = (loading \/ hook.waits = "always")

\* Mutant: nothing is asked again once there is data.
DueOnce == hook # NotPolled /\ hook.polls # "never" /\ data = Nothing

\* Whether the interval asks again.
Due ==
    /\ hook # NotPolled
    /\ \/ hook.polls = "always"
       \/ hook.polls = "until activated" /\ captured # Nothing /\ ~Activated(captured)

Poll ==
    /\ Due
    /\ flight' \in Send(flight)
    /\ Waiting
    /\ UNCHANGED <<hook, version, content, data, error, captured, failures, reruns>>

\* The server answers with its version of the moment; a chain goes on to its next request.
Respond(s) ==
    /\ \/ /\ flight[s].phase = "sent"
          /\ flight' = [flight EXCEPT ![s].phase = IF hook.chained THEN "chained" ELSE "answered",
                                      ![s].parts = <<version, version>>]
       \/ /\ flight[s].phase = "chained"
          /\ flight' = [flight EXCEPT ![s].phase = "answered", ![s].parts[2] = version]
    /\ UNCHANGED <<hook, version, content, data, error, loading, captured, failures, reruns>>

\* The answer is there; the hook looks whether its effect is still the one that runs.
Check(s) ==
    /\ flight[s].phase = "answered"
    /\ flight' = [flight EXCEPT ![s] = IF "answer" \in hook.checks /\ ~@.mounted THEN Free
                                       ELSE [@ EXCEPT !.phase = "checked"]]
    /\ UNCHANGED <<hook, version, content, data, error, loading, captured, failures, reruns>>

\* The cleanup: no request in flight is of the running effect.
LeftBehind(flights) ==
    [s \in Slot |-> [flights[s] EXCEPT !.mounted = FALSE]]

\* What data?.activated is to the effect.
Dependency(d) == IF d = Nothing THEN Nothing ELSE Activated(d)

\* What a new value makes of the hook: the bootstrap status runs its effect again when
\* "activated" has changed, and asks at once.
Become(d, flights) ==
    /\ data' = d
    /\ error' = FALSE
    /\ IF hook.polls = "until activated" /\ Dependency(d) # Dependency(data)
       THEN captured' = d /\ flight' \in Send(LeftBehind(flights)) /\ Waiting
       ELSE captured' = captured /\ flight' = flights /\ loading' = FALSE

\* The body is there and is shown.
Apply(s) ==
    /\ flight[s].phase = "checked"
    /\ LET rest == [flight EXCEPT ![s] = Free]
       IN  IF "body" \in hook.checks /\ ~flight[s].mounted
           THEN flight' = rest /\ UNCHANGED <<data, error, loading, captured>>
           ELSE Become(flight[s].parts, rest)
    /\ UNCHANGED <<hook, version, content, failures, reruns>>

Heard(s) == hook.checks = {} \/ flight[s].mounted

\* A request fails or is refused; only an exception is one for the front end's lamp.
Lose(s) ==
    /\ flight[s].phase # "free"
    /\ failures < MaxFailures
    /\ failures' = failures + 1
    /\ flight' = [flight EXCEPT ![s] = Free]
    /\ error' = (error \/ Heard(s))
    /\ loading' = (loading /\ ~Heard(s))
    /\ data' \in CASE ~Heard(s) -> {data}
                   [] hook.loses = "nothing" -> {data}
                   [] hook.loses = "on exception" -> {data, Nothing}
                   [] hook.loses = "always" -> {Nothing}
    /\ UNCHANGED <<hook, version, content, captured, reruns>>

\* React runs the effect again (StrictMode), with the data there is.
Rerun ==
    /\ hook # NotPolled
    /\ reruns < MaxReruns
    /\ reruns' = reruns + 1
    /\ captured' = data
    /\ flight' \in Send(LeftBehind(flight))
    /\ Waiting
    /\ UNCHANGED <<hook, version, content, data, error, failures>>

\* On the server something changes: a kit is activated or made anew, whether or not the one
\* before was activated; a list grows or is emptied.
Change ==
    /\ hook # NotPolled
    /\ version < LastVersion
    /\ version' = version + 1
    /\ \E new \in Content(hook) : content' = content @@ (version' :> new)
    /\ UNCHANGED <<hook, data, error, loading, captured, flight, failures, reruns>>

Advance(s) == Respond(s) \/ Check(s) \/ Apply(s)

PollNext ==
    \/ \E s \in Slot : Advance(s) \/ Lose(s)
    \/ Poll \/ Rerun \/ Change

\* Intervals fire, and every request that does not fail is answered and its answer used.
PollFairness == WF_pollVars(Poll) /\ \A s \in Slot : WF_pollVars(Advance(s))

-----------------------------------------------------------------------------
PollTypeOK ==
    /\ hook \in Hooks \cup {NotPolled}
    /\ version \in Version
    /\ hook # NotPolled => content \in [0..version -> Content(hook)]
    /\ data \in (Version \X Version) \cup {Nothing}
    /\ captured \in (Version \X Version) \cup {Nothing}
    /\ error \in BOOLEAN /\ loading \in BOOLEAN
    /\ flight \in [Slot -> [phase : {"free", "sent", "chained", "answered", "checked"},
                            mounted : BOOLEAN, parts : Version \X Version]]
    /\ failures \in 0..MaxFailures
    /\ reruns \in 0..MaxReruns

\* What is loaded looks like nothing at all to the view.
LooksEmpty == data = Nothing \/ (hook.lists /\ content[data[1]] = "empty")

\* "Loading" is shown in place of the data.
LoadingShown == loading /\ (hook.sees = "anything" \/ LooksEmpty)

\* What the operator sees.
Displayed == IF LoadingShown \/ (hook.hides /\ error) THEN Nothing ELSE data

\* When the server has stopped changing, what a view shows becomes and remains what the
\* server has, however requests overlapped and whichever effect they were sent by; but an
\* empty list gives way to "loading" at every request, and the status of the kit does not
\* recover from a failure before there was any data and stays at a kit that was activated.
ChangeIsShown ==
    <>[](hook # NotPolled /\ hook.polls # "never" =>
            \/ Displayed = <<version, version>>
            \/ data = <<version, version>> /\ hook.lists /\ LooksEmpty /\ ~error
            \/ hook.polls = "until activated" /\ data = Nothing /\ failures > 0
            \/ hook.polls = "until activated" /\ Activated(data))
=============================================================================
