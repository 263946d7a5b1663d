----------------------------- MODULE TabRouting ------------------------------
(***************************************************************************)
(* One tab of the onboarding front end (src/onboarding/frontend): the root *)
(* layout, which asks the server for the operator's status whenever the    *)
(* path changes or a ceremony has ended and then decides what is rendered  *)
(* and where the tab goes, and the two pages with a YubiKey ceremony.      *)
(*                                                                         *)
(* Answers are applied in any order, router.replace takes effect later,    *)
(* and a ceremony goes on after its page is gone.                          *)
(***************************************************************************)
EXTENDS Naturals, Sequences, SequencesExt

CONSTANTS
    None,           \* no status yet, or no navigation under way
    Sent,           \* a status request that has no answer yet
    MaxVisits,      \* bound: navigations and loads by the user
    MaxCeremonies   \* bound: ceremonies begun in this tab

ASSUME BoundAssumption == MaxVisits \in Nat

VARIABLES
    operator,   \* on the server: has a key, has a row in webauthn_sessions
    path,       \* usePathname()
    nav,        \* the navigation that has been asked for, or None
    authStatus, \* the state of the layout: the last status applied, or None
    flights,    \* the status requests of the current effect
    trouble,    \* history: how requests of the current effect went wrong
    button,     \* actionStatus of the ceremony page that is rendered
    mine,       \* the ceremony that this page has started, or 0
    ceremony,   \* every ceremony begun in the tab
    told,       \* history: a registration has ended and dispatched its event
    visits

vars == <<operator, path, nav, authStatus, flights, trouble, button, mine,
          ceremony, told, visits>>

\* "/onboarding" stands for every path that starts with it, "/elsewhere" for the pages
\* that are on no list: /dashboard/personal, /success, /initiator, /federation.
AllowedRoute == {"/onboarding", "/operator/terminal", "/dashboard"}
Path == AllowedRoute \cup {"/", "/register", "/auth", "/elsewhere"}

Status == [registered : BOOLEAN, authenticated : BOOLEAN]
Unregistered == [registered |-> FALSE, authenticated |-> FALSE]

IsAuthenticated(s) == s.registered /\ s.authenticated

\* The page for a status; a table the server could not read counts as empty.
GetExpectedRoute(s) ==
    IF ~s.registered THEN "/register"
    ELSE IF ~s.authenticated THEN "/auth" ELSE "/dashboard"

\* Whether the tab may stay where it is.
StaysAt(s, p) ==
    IF IsAuthenticated(s) THEN p \in AllowedRoute ELSE p = GetExpectedRoute(s)

Destination(s) == IF IsAuthenticated(s) THEN "/onboarding" ELSE GetExpectedRoute(s)

\* Mutant: the pages of the list are rendered for any status.
ShownByPath ==
    IF authStatus = None THEN "nothing"
    ELSE IF path = GetExpectedRoute(authStatus) \/ path \in AllowedRoute
         THEN path ELSE "nothing"

\* What is rendered: the page of the path, or nothing.
Shown ==
    IF authStatus = None THEN "nothing"
    ELSE IF path = GetExpectedRoute(authStatus)
            \/ (IsAuthenticated(authStatus) /\ path \in AllowedRoute)
         THEN path ELSE "nothing"

\* A page that is no longer rendered is unmounted, and its state with it.
Remount ==
    /\ button' = IF Shown' = Shown THEN button ELSE "idle"
    /\ mine' = IF Shown' = Shown THEN mine ELSE 0

Init ==
    /\ operator \in {s \in Status : s.registered => s.authenticated}
    /\ path \in Path
    /\ nav = None
    /\ authStatus = None
    /\ flights = <<Sent>>
    /\ trouble = {}
    /\ button = "idle"
    /\ mine = 0
    /\ ceremony = <<>>
    /\ told = FALSE
    /\ visits = 0

-----------------------------------------------------------------------------
\* The server reads both tables; what it fails to read is reported as false.
Answerable == {s \in Status : (s.registered => operator.registered)
                              /\ (s.authenticated => operator.authenticated)}

\* A status request is answered, answered with an error, or rejected.
Answer(i) ==
    /\ flights[i] = Sent
    /\ \/ \E s \in Answerable :
            /\ flights' = [flights EXCEPT ![i] = s]
            /\ trouble' = trouble \cup (IF s = operator THEN {} ELSE {"degraded"})
       \/ /\ flights' = [flights EXCEPT ![i] = Unregistered]
          /\ trouble' = trouble \cup {"degraded"}
       \/ /\ flights' = RemoveAt(flights, i)
          /\ trouble' = trouble \cup {"lost"}
    /\ UNCHANGED <<operator, path, nav, authStatus, button, mine, ceremony, told, visits>>

\* The rest of fetchAuthStatus: the status is kept, and the tab sent elsewhere if it is
\* not where the status wants it.
ApplyAnswer(i) ==
    /\ flights[i] # Sent
    /\ authStatus' = flights[i]
    /\ nav' = IF StaysAt(flights[i], path) THEN nav ELSE Destination(flights[i])
    /\ flights' = RemoveAt(flights, i)
    /\ UNCHANGED <<operator, path, trouble, ceremony, told, visits>>
    /\ Remount

\* Mutant: the status is fetched once, when the layout is mounted.
NavigateKeepingStatus ==
    /\ nav # None
    /\ path' = nav
    /\ nav' = None
    /\ UNCHANGED <<operator, authStatus, flights, trouble, ceremony, told, visits>>
    /\ Remount

\* The navigation happens.  A new pathname is a new effect: the answers to the requests
\* of the old one find isMounted false.
Navigate ==
    /\ nav # None
    /\ path' = nav
    /\ nav' = None
    /\ flights' = IF nav = path THEN flights ELSE <<Sent>>
    /\ trouble' = IF nav = path THEN trouble ELSE {}
    /\ UNCHANGED <<operator, authStatus, ceremony, told, visits>>
    /\ Remount

\* A link of a page that is rendered, or the browser's back button.
Visit(p) ==
    /\ p # path
    /\ visits < MaxVisits
    /\ visits' = visits + 1
    /\ nav' = p
    /\ UNCHANGED <<operator, path, authStatus, flights, trouble, button, mine,
                   ceremony, told>>

\* The address is entered, or the tab reloaded: everything in the tab is gone.
Load(p) ==
    /\ visits < MaxVisits
    /\ visits' = visits + 1
    /\ path' = p
    /\ nav' = None
    /\ authStatus' = None
    /\ flights' = <<Sent>>
    /\ trouble' = {}
    /\ button' = "idle"
    /\ mine' = 0
    /\ ceremony' = [i \in DOMAIN ceremony |-> [ceremony[i] EXCEPT !.step = "over"]]
    /\ UNCHANGED <<operator, told>>

-----------------------------------------------------------------------------
CeremonyPage == [register |-> "/register", verify |-> "/auth"]

CanPress(kind) == Shown = CeremonyPage[kind] /\ button = "idle"

\* handleRegister and handleAuthenticate, up to the first request.
Press(kind) ==
    /\ CanPress(kind)
    /\ Len(ceremony) < MaxCeremonies
    /\ ceremony' = Append(ceremony, [kind |-> kind, step |-> "begin"])
    /\ mine' = Len(ceremony')
    /\ button' = "busy"
    /\ UNCHANGED <<operator, path, nav, authStatus, flights, trouble, told, visits>>

NextPhase == [begin |-> "touch", touch |-> "finish", finish |-> "answered"]

StoresKey(c) == c.kind = "register" /\ c.step = "finish"

\* The requests of a ceremony and the touch between them.  Its beginning stores a
\* session row, which the status reports as authenticated; its end stores the key.
Proceed(i) ==
    /\ ceremony[i].step \in {"begin", "touch", "finish"}
    /\ ceremony[i] = [kind |-> "verify", step |-> "begin"] => operator.registered
    /\ ceremony' = [ceremony EXCEPT ![i].step = NextPhase[@]]
    /\ operator' = [registered    |-> operator.registered \/ StoresKey(ceremony[i]),
                    authenticated |-> operator.authenticated \/ ceremony[i].step = "begin"]
    /\ UNCHANGED <<path, nav, authStatus, flights, trouble, button, mine, told, visits>>

\* Mutant: the layout does not hear of it.
SucceedUnheard(i) ==
    /\ ceremony[i].step = "answered"
    /\ ceremony' = [ceremony EXCEPT ![i].step = "over"]
    /\ button' = IF mine = i THEN "idle" ELSE button
    /\ told' = (told \/ ceremony[i].kind = "register")
    /\ UNCHANGED <<operator, path, nav, authStatus, flights, trouble, mine, visits>>

\* The event 'auth-status-changed' makes the layout ask again, whatever is rendered.
Succeed(i) ==
    /\ ceremony[i].step = "answered"
    /\ ceremony' = [ceremony EXCEPT ![i].step = "over"]
    /\ button' = IF mine = i THEN "idle" ELSE button
    /\ told' = (told \/ ceremony[i].kind = "register")
    /\ flights' = Append(flights, Sent)
    /\ UNCHANGED <<operator, path, nav, authStatus, trouble, mine, visits>>

\* Mutant: the early return for a failed ceremony leaves the status as it is.
FailSilently(i) ==
    /\ ceremony[i].step # "over"
    /\ ceremony' = [ceremony EXCEPT ![i].step = "over"]
    /\ UNCHANGED <<operator, path, nav, authStatus, flights, trouble, button, mine,
                   told, visits>>

\* A request or the touch fails, or its answer is lost: the error stays on the page.
Fail(i) ==
    /\ ceremony[i].step # "over"
    /\ ceremony' = [ceremony EXCEPT ![i].step = "over"]
    /\ button' = IF mine = i THEN "error" ELSE button
    /\ UNCHANGED <<operator, path, nav, authStatus, flights, trouble, mine, told, visits>>

Tab ==
    \/ \E i \in DOMAIN flights : Answer(i) \/ ApplyAnswer(i)
    \/ Navigate

Ceremony == \E i \in DOMAIN ceremony : Proceed(i) \/ Succeed(i) \/ Fail(i)

Next ==
    \/ Tab
    \/ Ceremony
    \/ \E kind \in DOMAIN CeremonyPage : Press(kind)
    \/ \E p \in Path : Visit(p) \/ Load(p)

\* The browser answers or rejects every request in the end, runs its callbacks, and
\* carries a navigation out.  The user and the key need not do anything.
Spec == Init /\ [][Next]_vars /\ WF_vars(Tab)

-----------------------------------------------------------------------------
\* Type correctness of the tab and of the operator's record.
TypeOK ==
    /\ operator \in Status
    /\ path \in Path
    /\ nav \in Path \cup {None}
    /\ authStatus \in Status \cup {None}
    /\ flights \in Seq(Status \cup {Sent})
    /\ trouble \subseteq {"degraded", "lost"}
    /\ button \in {"idle", "busy", "error"}
    /\ mine \in 0..Len(ceremony)
    /\ ceremony \in Seq([kind : {"register", "verify"},
                         step : {"begin", "touch", "finish", "answered", "over"}])
    /\ told \in BOOLEAN
    /\ visits \in 0..MaxVisits

\* A page that waits for a ceremony waits for one that is still going on: no order of
\* renders, navigations and answers leaves the spinner of a page turning for ever.
BusyPageHasCeremony ==
    button = "busy" => mine # 0 /\ ceremony[mine].step # "over"

\* Whatever status is applied late, what is rendered behind the ceremonies is rendered
\* for an operator that the server has a key of.
PagesBehindAuthAreOfRegistered == Shown \in AllowedRoute => operator.registered

\* An empty tab does not stay empty, unless a request of its path was rejected: stale
\* answers, redirects and ceremonies that end elsewhere are all made good.
Settles == (Shown = "nothing") ~> (Shown # "nothing" \/ "lost" \in trouble)

\* An operator whose registration the tab has seen succeed does not remain on the page
\* that asks for it, unless the server could not tell.
RegisteredMovesOn ==
    told /\ Shown = "/register" ~> (Shown # "/register" \/ trouble # {})
=============================================================================
