---------------------------- MODULE CommandTerminal ----------------------------
(***************************************************************************)
(* The command logs: the terminals of the operator console (src/ui) and of *)
(* the onboarding front end (src/onboarding/frontend), the personal one    *)
(* with its command bar, and the event feed next to it.                    *)
(*                                                                         *)
(* Each keeps its last entries, writes them to localStorage, and loads     *)
(* them when it is shown again.  A terminal writes in an effect that runs  *)
(* after the entries have been rendered, so that something may come        *)
(* between the two.  Replies come at once, when a server has answered, or  *)
(* character by character.                                                 *)
(***************************************************************************)
EXTENDS Naturals, Sequences

CONSTANTS
    NoTerminal,     \* the page shows no such view
    KeepLogs,       \* entries that are kept: 50, in the feed 20
    MaxCommands     \* bound: commands and events

VARIABLES
    terminal,       \* the view
    shown,          \* it is mounted
    ready,          \* the command bar is there
    logs,           \* its entries
    stored,         \* the entries in localStorage
    unsaved,        \* rendered entries that an effect is about to store
    awaited,        \* the commands whose reply is due
    entered,        \* commands so far
    cleared,        \* the last "clear"
    overdue         \* history: an effect was due when it cleared

termVars == <<terminal, shown, ready, logs, stored, unsaved, awaited, entered, cleared, overdue>>

ASSUME CommandTerminalAssumption == {KeepLogs, MaxCommands} \subseteq Nat

\* replies: how a command is answered; clears: what "clear" takes away.
Console == [replies |-> "routed", clears |-> {"screen"}]
Federation == [replies |-> "delayed", clears |-> {}]
Personal == [replies |-> "streamed", clears |-> {"screen", "storage"}]
EventFeed == [replies |-> "never", clears |-> {}]
Terminals == {Console, Federation, Personal, EventFeed}

\* An entry is written by its interval, or was loaded while half written.
LogEntry == [of : 1..MaxCommands, type : {"command", "reply"},
          streaming : {"no", "written", "left"}]
Command(n) == [of |-> n, type |-> "command", streaming |-> "no"]
Reply(n, streaming) == [of |-> n, type |-> "reply", streaming |-> streaming]

\* The last entries.
Keep(entries) ==
    IF Len(entries) <= KeepLogs THEN entries
    ELSE SubSeq(entries, Len(entries) - KeepLogs + 1, Len(entries))

\* An effect that is due has stored its entries.  It does not store an empty log.
Flushed == IF unsaved = <<>> THEN stored ELSE unsaved

\* The entries of a terminal are rendered, after the effect of those before unless React has
\* taken both together; their own effect is then due.  The feed stores with the update.
SetLogs(entries) ==
    /\ logs' = Keep(entries)
    /\ IF terminal = EventFeed
       THEN stored' = Keep(entries) /\ UNCHANGED unsaved
       ELSE stored' \in {stored, Flushed} /\ unsaved' = Keep(entries)

\* The effect that persists the log.
Persist ==
    /\ unsaved # <<>>
    /\ stored' = unsaved
    /\ unsaved' = <<>>
    /\ UNCHANGED <<terminal, shown, ready, logs, awaited, entered, cleared, overdue>>

\* What is shown at first.  No interval writes what was loaded, even if it is half written.
Load ==
    LET loaded == [i \in DOMAIN stored |->
                       [stored[i] EXCEPT !.streaming = IF @ = "no" THEN "no" ELSE "left"]]
    IN  SetLogs(loaded)

TermInit ==
    /\ terminal \in Terminals \cup {NoTerminal}
    /\ shown = FALSE
    /\ ready = FALSE
    /\ logs = <<>>
    /\ stored = <<>>
    /\ unsaved = <<>>
    /\ awaited = {}
    /\ entered = 0
    /\ cleared = 0
    /\ overdue = FALSE

\* The page of the personal terminal has its command bar only after an animation.
ReadyAtOnce(t) == t # Personal

\* The view is mounted.
Show ==
    /\ terminal # NoTerminal
    /\ ~shown
    /\ shown' = TRUE
    /\ ready' = ReadyAtOnce(terminal)
    /\ Load
    /\ UNCHANGED <<terminal, awaited, entered, cleared, overdue>>

Activate ==
    /\ shown /\ ~ready
    /\ ready' = TRUE
    /\ UNCHANGED <<terminal, shown, logs, stored, unsaved, awaited, entered, cleared, overdue>>

\* The view goes.  Timers and requests go on, but nothing shows their results.  An effect
\* that is due still runs, unless the whole page goes.
Leave ==
    /\ shown
    /\ shown' = FALSE
    /\ ready' = FALSE
    /\ logs' = <<>>
    /\ stored' \in {stored, Flushed}
    /\ unsaved' = <<>>
    /\ awaited' = {}
    /\ UNCHANGED <<terminal, entered, cleared, overdue>>

-----------------------------------------------------------------------------
Enter ==
    /\ ready
    /\ entered < MaxCommands
    /\ entered' = entered + 1
    /\ UNCHANGED <<terminal, shown, ready>>

\* Mutant: the command is not logged before it is answered.
RouteUnlogged ==
    /\ terminal = Console
    /\ Enter
    /\ awaited' = awaited \cup {entered'}
    /\ UNCHANGED <<logs, stored, unsaved, cleared, overdue>>

\* A command that asks a server is logged before the answer is awaited.
Route ==
    /\ terminal = Console
    /\ Enter
    /\ SetLogs(Append(logs, Command(entered')))
    /\ awaited' = awaited \cup {entered'}
    /\ UNCHANGED <<cleared, overdue>>

\* The others of the console are answered before anything else happens.
RouteAtOnce ==
    /\ terminal = Console
    /\ Enter
    /\ SetLogs(logs \o <<Command(entered'), Reply(entered', "no")>>)
    /\ UNCHANGED <<awaited, cleared, overdue>>

\* The console's "clear" is logged, and then the screen is emptied; the effect of the log is
\* due in between.
ClearScreen ==
    /\ "screen" \in terminal.clears /\ "storage" \notin terminal.clears
    /\ Enter
    /\ stored' \in {stored, Flushed}
    /\ unsaved' = Keep(Append(logs, Command(entered')))
    /\ logs' = <<>>
    /\ cleared' = entered'
    /\ UNCHANGED <<awaited, overdue>>

\* Mutant: the personal "clear" forgets the storage.
ClearLogsOnScreen ==
    /\ "storage" \in terminal.clears
    /\ Enter
    /\ logs' = <<>>
    /\ cleared' = entered'
    /\ unsaved' \in {unsaved, <<>>}
    /\ overdue' = (unsaved' # <<>>)
    /\ UNCHANGED <<stored, awaited>>

\* clearLogs, by the personal "clear".  An effect that is due runs all the same, unless the
\* entries it is for have not been rendered yet.
ClearLogs ==
    /\ "storage" \in terminal.clears
    /\ Enter
    /\ logs' = <<>>
    /\ stored' = <<>>
    /\ cleared' = entered'
    /\ unsaved' \in {unsaved, <<>>}
    /\ overdue' = (unsaved' # <<>>)
    /\ UNCHANGED awaited

\* The front end's input reaches its terminal by way of the window.
HandleSubmit == terminal = Federation /\ Enter

\* That terminal answers after 300 milliseconds.
Delay ==
    /\ HandleSubmit
    /\ SetLogs(Append(logs, Command(entered')))
    /\ awaited' = awaited \cup {entered'}
    /\ UNCHANGED <<cleared, overdue>>

\* Every other personal command is answered by a stream.
Answer ==
    /\ terminal = Personal
    /\ Enter
    /\ SetLogs(logs \o <<Command(entered'), Reply(entered', "written")>>)
    /\ UNCHANGED <<awaited, cleared, overdue>>

\* The feed adds an event.
AddEvent ==
    /\ terminal = EventFeed
    /\ Enter
    /\ SetLogs(Append(logs, Command(entered')))
    /\ UNCHANGED <<awaited, cleared, overdue>>

\* A reply is there: from the server at any time, after the delay in turn.
Answered(n) ==
    /\ terminal.replies = "delayed" => \A m \in awaited : n <= m
    /\ awaited' = awaited \ {n}
    /\ SetLogs(Append(logs, Reply(n, IF terminal = Federation THEN "written" ELSE "no")))
    /\ UNCHANGED <<terminal, shown, ready, entered, cleared, overdue>>

\* The entries that the interval of a command writes.
Streaming(n) == {i \in DOMAIN logs : logs[i].of = n /\ logs[i].streaming = "written"}

\* The interval of an entry has written a character, the last one or another.
Streamed(n, streaming) ==
    /\ Streaming(n) # {}
    /\ SetLogs([i \in DOMAIN logs |->
                   IF i \in Streaming(n) THEN [logs[i] EXCEPT !.streaming = streaming] ELSE logs[i]])
    /\ UNCHANGED <<terminal, shown, ready, awaited, entered, cleared, overdue>>

TermNext ==
    \/ Show \/ Activate \/ Leave \/ Persist
    \/ Route \/ RouteAtOnce \/ Delay \/ Answer \/ AddEvent
    \/ shown /\ (ClearScreen \/ ClearLogs)
    \/ \E n \in awaited : Answered(n)
    \/ \E n \in 1..entered, streaming \in {"written", "no"} : Streamed(n, streaming)

-----------------------------------------------------------------------------
TermTypeOK ==
    /\ terminal \in Terminals \cup {NoTerminal}
    /\ shown \in BOOLEAN /\ ready \in BOOLEAN
    /\ logs \in Seq(LogEntry) /\ Len(logs) <= KeepLogs
    /\ stored \in Seq(LogEntry) /\ Len(stored) <= KeepLogs
    /\ unsaved \in Seq(LogEntry) /\ Len(unsaved) <= KeepLogs
    /\ awaited \subseteq 1..MaxCommands
    /\ entered \in 0..MaxCommands /\ cleared \in 0..MaxCommands
    /\ overdue \in BOOLEAN

\* A reply stands after its command, unless that was cleared or is older than every entry
\* that is kept: though commands overlap, replies come in any order, the oldest entries go
\* and the log is loaded again.
RepliesFollow ==
    \A i, j \in DOMAIN logs :
        /\ logs[i].type = "reply" /\ logs[i].of > cleared
        /\ logs[j].type = "command" /\ logs[j].of < logs[i].of
        => \E k \in j+1..i-1 : logs[k] = Command(logs[i].of)

\* What the personal terminal has cleared does not come back, neither from localStorage when
\* it is shown again nor by a stream or an effect that was under way, provided no effect was
\* due when it was cleared.
ClearedForGood ==
    terminal = Personal /\ ~overdue =>
        \A entries \in {logs, stored, unsaved} :
            \A i \in DOMAIN entries : entries[i].of > cleared

\* "Clear command log" (PersonalCommandBar.tsx:56) holds whenever it is entered.
ClearedAtAnyTime ==
    terminal = Personal => \A i \in DOMAIN logs : logs[i].of > cleared
=============================================================================
