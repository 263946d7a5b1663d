------------------------------ MODULE LiveViews -------------------------------
(***************************************************************************)
(* The live views of the two front ends, next to each other: telemetry,    *)
(* polled data, command logs, agent genesis and the lists of the console's *)
(* frame.  They share nothing, so a behaviour shows one of them.           *)
(***************************************************************************)
EXTENDS TelemetryFeed, PollingHooks, CommandTerminal, AgentForge, ConsoleFrame

viewsVars == <<feedVars, pollVars, termVars, forgeVars, frameVars>>

\* The views that are shown: one.
Opened ==
    {v \in {"feed", "hook", "terminal", "service", "frame"} :
        \/ v = "feed" /\ feed # NotRendered
        \/ v = "hook" /\ hook # NotPolled
        \/ v = "terminal" /\ terminal # NoTerminal
        \/ v = "service" /\ service # "none"
        \/ v = "frame" /\ item # NotRun}

ViewsInit ==
    /\ FeedInit /\ PollInit /\ TermInit /\ ForgeInit /\ FrameInit
    /\ \E v \in {"feed", "hook", "terminal", "service", "frame"} : Opened = {v}

ViewsNext ==
    \/ FeedNext /\ UNCHANGED <<pollVars, termVars, forgeVars, frameVars>>
    \/ PollNext /\ UNCHANGED <<feedVars, termVars, forgeVars, frameVars>>
    \/ TermNext /\ UNCHANGED <<feedVars, pollVars, forgeVars, frameVars>>
    \/ ForgeNext /\ UNCHANGED <<feedVars, pollVars, termVars, frameVars>>
    \/ FrameNext /\ UNCHANGED <<feedVars, pollVars, termVars, forgeVars>>

ViewsSpec ==
    ViewsInit /\ [][ViewsNext]_viewsVars /\ FeedFairness /\ PollFairness /\ FrameFairness

\* Type correctness of all of them.
ViewsTypeOK == FeedTypeOK /\ PollTypeOK /\ TermTypeOK /\ ForgeTypeOK /\ FrameTypeOK
=============================================================================
