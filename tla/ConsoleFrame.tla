----------------------------- MODULE ConsoleFrame -----------------------------
(***************************************************************************)
(* The frame of the operator console (src/ui): what is selected in it, and *)
(* the two lists that follow their newest entry, the federation logs and   *)
(* the timeline of a node's events.                                        *)
(*                                                                         *)
(* A list scrolls to its end in an animation frame that an effect asked    *)
(* for earlier; the browser reports scrolling by an event of its own, that *)
(* the frame, new entries and the reader may come before.                  *)
(***************************************************************************)
EXTENDS Naturals

CONSTANTS
    NotRun,     \* the console is not open
    View,       \* entries that fit the pane
    NearEnd,    \* entries below the pane that still count as the end (100 px)
    MaxEntries  \* the timeline's 200; for the logs, as many or more

VARIABLES
    item,       \* selectedItem
    sidebar,    \* sidebarOpen
    len,        \* entries in the list: all events, or the logs that pass the filters
    below,      \* entries below the pane
    auto,       \* autoScroll of the logs
    away,       \* isUserScrollingRef of the logs, isUserScrolling of the timeline
    bottom,     \* wasAtBottomRef of the timeline
    lastTop,    \* lastScrollTopRef of the timeline
    timer,      \* scrollTimeoutRef of the timeline
    due,        \* the following effect is to run
    frame,      \* the animation frame: none, or how it was asked for
    scrolled,   \* a scroll event is to come
    reading     \* history: the reader left the end, and has not been near it since

listVars == <<len, below, auto, away, bottom, lastTop, timer, due, frame, scrolled, reading>>
frameVars == <<item, sidebar, listVars>>

ASSUME ConsoleFrameAssumption == {View, NearEnd, MaxEntries} \subseteq Nat

Node == {"node:pi-01"}

\* "panel" stands for the items of panelRegistry, "chamber" for the other chambers without
\* a list, "nothing" for no item at all.
Item == {"home", "panel", "chamber", "pi-kluster", "federation-logs"}

LogsShown == item = "federation-logs"
TimelineShown == item \in Node
ListShown == LogsShown \/ TimelineShown

Least(m, n) == IF m < n THEN m ELSE n
Over(n) == IF n > View THEN n - View ELSE 0     \* entries that do not fit
Top == Over(len) - below                        \* scrollTop
Near(b) == b <= NearEnd

\* A list that has just been mounted; its effect runs, but no timeline is there yet.
Fresh ==
    /\ len' = 0 /\ below' = 0 /\ lastTop' = 0
    /\ auto' = TRUE /\ away' = FALSE /\ bottom' = TRUE
    /\ due' = TRUE
    /\ timer' = FALSE /\ scrolled' = FALSE /\ reading' = FALSE
    /\ frame' = "none"

FrameInit ==
    /\ item \in {"home", NotRun}
    /\ sidebar = FALSE
    /\ len = 0 /\ below = 0 /\ lastTop = 0
    /\ auto = TRUE /\ away = FALSE /\ bottom = TRUE
    /\ due = FALSE /\ timer = FALSE /\ scrolled = FALSE /\ reading = FALSE
    /\ frame = "none"

-----------------------------------------------------------------------------
\* BridgeFrame gives the pane the item as its key: another item is another pane.
Present(i) ==
    /\ item' = i
    /\ IF i = item THEN UNCHANGED listVars ELSE Fresh

SelectItem(i) == item # NotRun /\ Present(i) /\ sidebar' = FALSE

\* Escape closes the pane.
Deselect == item \notin {NotRun, "nothing"} /\ Present("nothing") /\ UNCHANGED sidebar

\* The grid of the cluster, or a packet of its telemetry, opens a node; the node's panel
\* goes back to the cluster.
OpenNode(n) == item = "pi-kluster" /\ Present(n) /\ UNCHANGED sidebar
Back == TimelineShown /\ Present("pi-kluster") /\ UNCHANGED sidebar

ToggleSidebar == item # NotRun /\ sidebar' = ~sidebar /\ UNCHANGED <<item, listVars>>

-----------------------------------------------------------------------------
\* Mutant: the effect does not depend on logs.length.
LogArrivesUnheeded ==
    /\ LogsShown
    /\ \/ /\ len' = Least(len + 1, MaxEntries)
          /\ below' = IF len = MaxEntries THEN Least(below + 1, Over(len))
                      ELSE below + Over(len') - Over(len)
       \/ UNCHANGED <<len, below>>
    /\ UNCHANGED <<item, sidebar, auto, away, bottom, lastTop, timer, due, frame, scrolled,
                   reading>>

\* A log arrives; whether or not it passes the filters, logs.length has changed.
LogArrives ==
    /\ LogsShown
    /\ due' = TRUE
    /\ \/ /\ len' = Least(len + 1, MaxEntries)
          /\ below' = IF len = MaxEntries THEN Least(below + 1, Over(len))
                      ELSE below + Over(len') - Over(len)
       \/ UNCHANGED <<len, below>>
    /\ UNCHANGED <<item, sidebar, auto, away, bottom, lastTop, timer, frame, scrolled, reading>>

\* An event arrives.  A full timeline drops its oldest for it, so that events.length stays
\* as it is; a browser that anchors the text then scrolls up by what was dropped.
EventArrives ==
    /\ TimelineShown
    /\ \/ /\ len < MaxEntries
          /\ len' = len + 1
          /\ below' = below + Over(len') - Over(len)
          /\ due' = TRUE
          /\ UNCHANGED scrolled
       \/ /\ len = MaxEntries /\ Top > 0
          /\ below' = below + 1
          /\ scrolled' = TRUE
          /\ UNCHANGED <<len, due>>
    /\ UNCHANGED <<item, sidebar, auto, away, bottom, lastTop, timer, frame, reading>>

\* The filters let n entries through; the browser keeps scrollTop as far as it can.
Filtered(n) ==
    LET top == Least(Top, Over(n))
    IN  /\ len' = n
        /\ below' = Over(n) - top
        /\ scrolled' = (scrolled \/ top # Top)
        /\ reading' = (reading /\ ~Near(below'))

Filter ==
    /\ LogsShown
    /\ \E n \in 0..MaxEntries \ {len} : Filtered(n)
    /\ UNCHANGED <<item, sidebar, auto, away, bottom, lastTop, timer, due, frame>>

ToggleAutoScroll ==
    /\ LogsShown
    /\ auto' = ~auto
    /\ due' = TRUE
    /\ UNCHANGED <<item, sidebar, len, below, away, bottom, lastTop, timer, frame, scrolled,
                   reading>>

ReaderScrolls ==
    /\ ListShown
    /\ below' \in 0..Over(len) \ {below}
    /\ scrolled' = TRUE
    /\ reading' = ~Near(below')
    /\ UNCHANGED <<item, sidebar, len, auto, away, bottom, lastTop, timer, due, frame>>

\* handleScroll of the logs.  Near the end, auto-scroll is switched on again.
LogsScrolled ==
    /\ LogsShown /\ scrolled
    /\ scrolled' = FALSE
    /\ away' = ~Near(below)
    /\ auto' = (auto \/ Near(below))
    /\ due' = (due \/ auto' # auto)
    /\ UNCHANGED <<item, sidebar, len, below, bottom, lastTop, timer, frame, reading>>

\* handleScroll of the timeline.  Up is taken for the reader's doing, and starts the two
\* seconds anew.
TimelineScrolled ==
    /\ TimelineShown /\ scrolled
    /\ scrolled' = FALSE
    /\ IF Top < lastTop
       THEN bottom' = FALSE /\ away' = TRUE /\ timer' = TRUE
       ELSE bottom' = Near(below) /\ away' = (away /\ ~Near(below)) /\ timer' = timer
    /\ lastTop' = Top
    /\ due' = (due \/ away' # away)
    /\ UNCHANGED <<item, sidebar, len, below, auto, frame, reading>>

\* Mutant: after the two seconds the timeline is at its end.
TwoSecondsPassAtEnd ==
    /\ timer
    /\ timer' = FALSE
    /\ away' = FALSE
    /\ bottom' = TRUE
    /\ due' = (due \/ away)
    /\ UNCHANGED <<item, sidebar, len, below, auto, lastTop, frame, scrolled, reading>>

\* Two seconds after the last scroll up.
TwoSecondsPass ==
    /\ timer
    /\ timer' = FALSE
    /\ away' = FALSE
    /\ bottom' = Near(below)
    /\ due' = (due \/ away)
    /\ UNCHANGED <<item, sidebar, len, below, auto, lastTop, frame, scrolled, reading>>

\* What the list takes for a reader who follows it.
Following ==
    \/ LogsShown /\ auto /\ ~away
    \/ TimelineShown /\ ~away /\ bottom

\* The effect asks for a frame.  An empty timeline has no container yet.
AskForFrame ==
    /\ due
    /\ due' = FALSE
    /\ frame' = IF ~Following \/ (TimelineShown /\ len = 0) \/ frame # "none" THEN frame
                ELSE IF reading /\ ~scrolled THEN "unwanted" ELSE "wanted"
    /\ UNCHANGED <<item, sidebar, len, below, auto, away, bottom, lastTop, timer, scrolled,
                   reading>>

\* The frame scrolls to the end, wherever the reader is by now.
ScrollToEnd ==
    /\ frame # "none"
    /\ frame' = "none"
    /\ below' = 0
    /\ scrolled' = (scrolled \/ below # 0)
    /\ bottom' = (bottom \/ TimelineShown)
    /\ reading' = FALSE
    /\ UNCHANGED <<item, sidebar, len, auto, away, lastTop, timer, due>>

FrameNext ==
    \/ \E i \in Item : SelectItem(i)
    \/ \E n \in Node : OpenNode(n)
    \/ Deselect \/ Back \/ ToggleSidebar
    \/ LogArrives \/ EventArrives \/ Filter \/ ToggleAutoScroll
    \/ ReaderScrolls \/ LogsScrolled \/ TimelineScrolled
    \/ TwoSecondsPass \/ AskForFrame \/ ScrollToEnd

\* The logs come from an interval, and the browser runs effects, events and frames.
FrameFairness ==
    /\ WF_frameVars(LogArrives)
    /\ WF_frameVars(LogsScrolled \/ TimelineScrolled)
    /\ WF_frameVars(AskForFrame) /\ WF_frameVars(ScrollToEnd)

-----------------------------------------------------------------------------
FrameTypeOK ==
    /\ item \in Item \cup Node \cup {"nothing", NotRun}
    /\ len \in 0..MaxEntries
    /\ below \in 0..Over(len)
    /\ lastTop \in 0..Over(MaxEntries)
    /\ {sidebar, auto, away, bottom, timer, due, scrolled, reading} \subseteq BOOLEAN
    /\ frame \in {"none", "wanted", "unwanted"}

\* A reader who has left the end, and whose scrolling the list has been told of, is left
\* alone: no new entry, filter, toggle or timer makes it ask for a scroll to the end.
ReaderLeftAlone == frame # "unwanted"

\* A list that takes its reader for a follower gets back near its end again and again, for
\* every order of entries, scrolling, toggles, effects and frames.
Follows == []<>(Following => Near(below))
=============================================================================
