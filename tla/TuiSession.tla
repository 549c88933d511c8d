----------------------------- MODULE TuiSession -----------------------------
(***************************************************************************)
(* The terminal interface: its event loop, the search thread it starts,    *)
(* the two channels between them, the list of runs it shows and the        *)
(* database rows both of them write.                                       *)
(*                                                                         *)
(* Both channels are drained completely by whoever reads them.  Of queued  *)
(* commands it matters which of pause and resume came last, whether a stop *)
(* was among them and whether there were any; of queued snapshots only the *)
(* last one.  The channels are modelled as that.                           *)
(*                                                                         *)
(* The command palette and the help overlay hold back input and change     *)
(* nothing else, so they are a user who does nothing; the other tabs, the  *)
(* wizard's fields and the toasts are left out.  Commands that retune the  *)
(* search are Save: all of them are answered with a write and a report.    *)
(***************************************************************************)
EXTENDS Integers, Sequences, FiniteSets

CONSTANTS
    Runs,           \* every run there may be
    SessionSetups,  \* what a session may be like: see SetupType
    MaxSearches     \* bound: searches started in one session

InputKinds == {"start", "resume", "delete", "pause", "save", "stop", "dismiss"}
FaultKinds == {"storage",       \* a database write of the search thread
               "terminal",      \* drawing or reading in the event loop
               "terminalEntry"} \* entering raw mode
NoRun == "no run"

SetupType ==
    [saved : Seq(Runs),         \* the runs in the database at first, newest first
     launch : BOOLEAN,          \* `resume --tui`: the first of them is handed over
     inputs : SUBSET InputKinds,
     faults : SUBSET FaultKinds,
     outside : BOOLEAN,         \* another process may finish a run
     searches : 1..MaxSearches] \* bound: searches started in this session

ASSUME RunsAssumption == NoRun \notin Runs /\ MaxSearches \in Nat \ {0}
ASSUME SetupsAssumption ==
    \A s \in SessionSetups :
        /\ s \in SetupType
        /\ \A i, j \in DOMAIN s.saved : s.saved[i] = s.saved[j] => i = j
        /\ s.launch => s.saved # <<>>

VARIABLES
    setup,      \* what this session is like, chosen once
    table,      \* the runs in the database, most recently updated first
    status,     \* the status column
    turn,       \* where the event loop is
    tab,        \* the tab that is open, Hunt or Runs
    list,       \* RunsTab::runs, as last loaded
    selected,   \* the selected index in it, 0 if none
    dialog,     \* pending_delete: the run named in the confirmation
    worker,     \* App::worker
    shouldQuit,
    threads     \* the search threads, in the order they were started

storeVars == <<table, status>>
runsTabVars == <<tab, list, selected, dialog>>
vars == <<setup, storeVars, turn, runsTabVars, worker, shouldQuit, threads>>

Finished == {"perfect", "exhausted"}
Statuses == {"running", "paused"} \cup Finished
Reasons == {"Interrupted", "PerfectFound", "SourceExhausted"}
FinalStatus(reason) ==
    CASE reason = "PerfectFound" -> "perfect"
      [] reason = "SourceExhausted" -> "exhausted"
      [] OTHER -> "paused"    \* a stop, a limit or a ceiling

NoWorker == [thread |-> 0, run |-> NoRun, paused |-> FALSE, finished |-> "none",
             error |-> FALSE, quitAfterStop |-> FALSE]
NoCommands == [pause |-> "keep", stop |-> FALSE, any |-> FALSE]
NewThread(r) == [run |-> r, pc |-> "begin", paused |-> FALSE, reason |-> "none",
                 inbox |-> NoCommands, shown |-> "none", ending |-> "none",
                 recent |-> FALSE]

Attached == worker # NoWorker
IsRunning == Attached /\ worker.finished = "none" /\ ~worker.error
Stored(r) == \E i \in DOMAIN table : table[i] = r

-----------------------------------------------------------------------------
(* The database.                                                           *)

\* A run has one row, which goes.
Without(r) ==
    IF Stored(r)
    THEN LET i == CHOOSE i \in DOMAIN table : table[i] = r
         IN  SubSeq(table, 1, i - 1) \o SubSeq(table, i + 1, Len(table))
    ELSE table

\* update_run: a row that is gone is passed over in silence.
UpdateRow(r, s) ==
    IF Stored(r)
    THEN /\ table' = <<r>> \o Without(r)
         /\ status' = [status EXCEPT ![r] = s]
    ELSE UNCHANGED storeVars

\* list_runs, most recent first.
ListRuns(rows, column) ==
    [i \in DOMAIN rows |-> [run |-> rows[i], status |-> column[rows[i]]]]

Clamped(index, length) ==
    IF length = 0 THEN 0
    ELSE IF index = 0 THEN 1
    ELSE IF index > length THEN length ELSE index

\* RunsTab::reload, after whatever the step did to the database: the index
\* stays, the rows move.
Reload ==
    /\ list' = ListRuns(table', status')
    /\ selected' = Clamped(selected, Len(list'))

Init ==
    /\ setup \in SessionSetups
    /\ table = setup.saved
    /\ status \in [Runs -> Statuses]
    /\ \A r \in Runs : ~Stored(r) => status[r] = "paused"
    /\ turn = "enter"
    /\ tab = "Hunt"
    /\ list = ListRuns(table, status)
    /\ selected = Clamped(0, Len(list))
    /\ dialog = NoRun
    /\ shouldQuit = FALSE
    /\ IF setup.launch
       THEN /\ status[table[1]] \notin Finished
            /\ threads = <<NewThread(table[1])>>
            /\ worker = [NoWorker EXCEPT !.thread = 1, !.run = table[1]]
       ELSE /\ threads = <<>>
            /\ worker = NoWorker

-----------------------------------------------------------------------------
(* The search thread.                                                      *)

Alive(t) == threads[t].pc # "gone" /\ turn \notin {"exited", "refused"}
Becomes(t, record) == threads' = [threads EXCEPT ![t] = record]

\* A snapshot of a session that is as in record is sent: always for a new best
\* (on_new_best), otherwise throttled, except that a pause is always shown.
Shown(record) ==
    [record EXCEPT !.shown = IF record.paused THEN "paused" ELSE "running",
                   !.recent = TRUE]
Reported(record) ==
    IF ~record.recent \/ record.paused THEN Shown(record) ELSE record

\* The thread ends with its last event, or by any error with an Error event;
\* what it had queued for the interface stays queued.
Ends(t, ending) ==
    Becomes(t, [NewThread(threads[t].run) EXCEPT
                  !.pc = "gone", !.shown = threads[t].shown, !.ending = ending])
Fails(t) == Ends(t, "Error")
WriteFails(t) == "storage" \in setup.faults /\ Fails(t) /\ UNCHANGED storeVars

\* Storage::open_default, then run_search_inner up to the pipeline.
Begin(t) ==
    /\ threads[t].pc = "begin"
    /\ \/ /\ UpdateRow(threads[t].run, "running")
          /\ Becomes(t, Reported([threads[t] EXCEPT !.pc = "control"]))
       \/ WriteFails(t)

\* handle_control_commands and what the reducer does with its answer.
Control(t) ==
    /\ threads[t].pc = "control"
    /\ LET batch == threads[t].inbox
           paused == IF batch.pause = "keep" THEN threads[t].paused
                     ELSE batch.pause = "pause"
           handled == [threads[t] EXCEPT !.paused = paused, !.inbox = NoCommands]
           reported == IF batch.any \/ paused THEN Reported(handled) ELSE handled
       IN \/ /\ IF batch.any
                THEN UpdateRow(threads[t].run, IF paused THEN "paused" ELSE "running")
                ELSE UNCHANGED storeVars
             /\ Becomes(t,
                  IF batch.stop
                  THEN [reported EXCEPT !.pc = "finish", !.reason = "Interrupted"]
                  ELSE [reported EXCEPT !.pc = IF paused THEN "control" ELSE "work"])
          \/ batch.any /\ WriteFails(t)

\* The reducer waits for a scored chunk.  One may arrive, with a new best or a
\* checkpoint that is due (both need the row) or without; or nothing arrives;
\* or the search has come to an end.
Chunk(t) ==
    /\ threads[t].pc = "work"
    /\ LET next == [threads[t] EXCEPT !.pc = "control"]
       IN \/ UNCHANGED storeVars /\ Becomes(t, Reported(next))
          \/ Stored(threads[t].run) /\ UpdateRow(threads[t].run, "running")
             /\ (Becomes(t, Reported(next)) \/ Becomes(t, Shown(next)))
          \/ ~Stored(threads[t].run) /\ Fails(t) /\ UNCHANGED storeVars
          \/ WriteFails(t)

NothingArrives(t) ==
    /\ threads[t].pc = "work"
    /\ Becomes(t, [threads[t] EXCEPT !.pc = "control"])
    /\ UNCHANGED storeVars

SearchOver(t) ==
    /\ threads[t].pc = "work"
    /\ \E reason \in Reasons :
          Becomes(t, [threads[t] EXCEPT !.pc = "finish", !.reason = reason])
    /\ UNCHANGED storeVars

\* Seeded fault: the event is sent before the row is written.
Finish_EventFirst(t) ==
    \/ /\ threads[t].pc = "finish"
       /\ Becomes(t, [threads[t] EXCEPT !.pc = "announce", !.ending = threads[t].reason])
       /\ UNCHANGED storeVars
    \/ /\ threads[t].pc = "announce"
       /\ UpdateRow(threads[t].run, FinalStatus(threads[t].reason))
       /\ Becomes(t, [threads[t] EXCEPT !.pc = "gone"])

\* SearchSession::finish: the row first, the event second.
Finish(t) ==
    \/ /\ threads[t].pc = "finish"
       /\ \/ /\ UpdateRow(threads[t].run, FinalStatus(threads[t].reason))
             /\ Becomes(t, [threads[t] EXCEPT !.pc = "announce"])
          \/ WriteFails(t)
    \/ /\ threads[t].pc = "announce"
       /\ Ends(t, threads[t].reason)
       /\ UNCHANGED storeVars

\* The refresh interval since the last snapshot is over.
RefreshDue(t) ==
    /\ threads[t].recent
    /\ Becomes(t, [threads[t] EXCEPT !.recent = FALSE])
    /\ UNCHANGED storeVars

UiKeeps == UNCHANGED <<setup, turn, runsTabVars, worker, shouldQuit>>
ThreadSteps(t) ==
    Begin(t) \/ Control(t) \/ Chunk(t) \/ NothingArrives(t) \/ Finish(t)
ThreadStep(t) == Alive(t) /\ ThreadSteps(t) /\ UiKeeps
ThreadEnds(t) == Alive(t) /\ SearchOver(t) /\ UiKeeps
Tick(t) == Alive(t) /\ RefreshDue(t) /\ UiKeeps

-----------------------------------------------------------------------------
(* The event loop.                                                         *)

\* What SearchWorker::send leaves in the channel.
Sent(inbox, command) ==
    [pause |-> CASE command = "Pause" -> "pause"
                 [] command = "Resume" -> "resume"
                 [] OTHER -> inbox.pause,
     stop |-> inbox.stop \/ command = "Stop",
     any |-> TRUE]
\* A thread that has already ended ignores it.
Send(command) ==
    IF threads[worker.thread].pc = "gone" THEN UNCHANGED threads
    ELSE Becomes(worker.thread,
                 [threads[worker.thread] EXCEPT !.inbox = Sent(@, command)])

\* run_with_launch: the worker of a launch exists before the terminal is ours;
\* if the terminal cannot be entered the function returns at once, without
\* waiting for it.
EnterTerminal ==
    /\ turn = "enter"
    /\ \/ turn' = "poll"
       \/ "terminalEntry" \in setup.faults /\ turn' = "refused"
    /\ UNCHANGED <<setup, storeVars, runsTabVars, worker, shouldQuit, threads>>

\* Seeded fault: a snapshot never takes the pause back.
PauseFlag_Sticky(shown) == worker.paused \/ shown = "paused"

\* A snapshot overrides what toggle_pause assumed.
PauseFlag(shown) == IF shown = "none" THEN worker.paused ELSE shown = "paused"

\* poll_worker with on_finished, then the check of should_quit.
PollWorker ==
    /\ turn = "poll"
    /\ UNCHANGED <<setup, storeVars, tab, dialog>>
    /\ IF ~Attached THEN UNCHANGED <<worker, threads, shouldQuit, list, selected>>
       ELSE LET t == worker.thread
                ending == threads[t].ending
                finishes == ending \in Reasons
            IN /\ worker' = [worker EXCEPT
                     !.paused = PauseFlag(threads[t].shown),
                     !.finished = IF finishes THEN ending ELSE @,
                     !.error = @ \/ ending = "Error"]
               /\ Becomes(t, [threads[t] EXCEPT !.shown = "none", !.ending = "none"])
               /\ shouldQuit' = (shouldQuit \/ (finishes /\ worker.quitAfterStop))
               /\ IF finishes /\ ~worker.quitAfterStop
                  THEN Reload ELSE UNCHANGED <<list, selected>>
    /\ turn' = IF shouldQuit' THEN "shutdown" ELSE "input"

TerminalFails ==
    /\ "terminal" \in setup.faults
    /\ turn \in {"poll", "input"}
    /\ turn' = "shutdown"
    /\ UNCHANGED <<setup, storeVars, runsTabVars, worker, shouldQuit, threads>>

\* Seeded fault: the search is told to stop but not waited for.
Shutdown_NoJoin ==
    /\ turn = "shutdown"
    /\ turn' = "exited"
    /\ IF Attached THEN Send("Stop") ELSE UNCHANGED threads
    /\ UNCHANGED <<setup, storeVars, runsTabVars, worker, shouldQuit>>

\* App::shutdown: stop_and_join.
Shutdown ==
    /\ \/ /\ turn = "shutdown"
          /\ turn' = "join"
          /\ IF Attached THEN Send("Stop") ELSE UNCHANGED threads
       \/ /\ turn = "join"
          /\ Attached => threads[worker.thread].pc = "gone"
          /\ turn' = "exited"
          /\ UNCHANGED threads
    /\ UNCHANGED <<setup, storeVars, runsTabVars, worker, shouldQuit>>

-----------------------------------------------------------------------------
(* Input.  A confirmation holds back every key and click, not the wheel.   *)

Free == dialog = NoRun
Selected == list[selected]
RunsTabKeeps == UNCHANGED <<list, selected, dialog>>
SearchKeeps == UNCHANGED <<worker, threads>>
DatabaseKeeps == UNCHANGED storeVars

Goto(destination) ==
    /\ Free /\ destination # tab
    /\ tab' = destination
    /\ DatabaseKeeps
    /\ IF destination = "Runs" THEN Reload ELSE UNCHANGED <<list, selected>>
    /\ UNCHANGED <<dialog, shouldQuit>> /\ SearchKeeps

Refresh ==
    /\ Free /\ tab = "Runs"
    /\ DatabaseKeeps
    /\ Reload
    /\ UNCHANGED <<tab, dialog, shouldQuit>> /\ SearchKeeps

\* A key or a click selects a row.
Select ==
    /\ Free /\ tab = "Runs"
    /\ \E index \in DOMAIN list : selected' = index
    /\ UNCHANGED <<storeVars, tab, list, dialog, shouldQuit>> /\ SearchKeeps

\* handle_scroll moves the selection whatever lies on top of the list.
Scroll ==
    /\ tab = "Runs" /\ list # <<>>
    /\ \E delta \in {-1, 1} :
          selected' = IF selected + delta < 1 THEN 1
                      ELSE Clamped(selected + delta, Len(list))
    /\ UNCHANGED <<storeVars, tab, list, dialog, shouldQuit>> /\ SearchKeeps

StartWorker(r) ==
    /\ Len(threads) < setup.searches
    /\ threads' = Append(threads, NewThread(r))
    /\ worker' = [NoWorker EXCEPT !.thread = Len(threads) + 1, !.run = r]
    /\ tab' = "Hunt"

\* start_search: create_run, then the worker.
StartSearch ==
    /\ "start" \in setup.inputs
    /\ Free /\ tab = "Hunt" /\ ~Attached
    /\ \E r \in Runs :
          /\ ~Stored(r) /\ \A t \in DOMAIN threads : threads[t].run # r
          /\ table' = <<r>> \o table
          /\ status' = [status EXCEPT ![r] = "paused"]
          /\ StartWorker(r)
    /\ RunsTabKeeps /\ UNCHANGED shouldQuit

\* resume_selected: the status is the listed one, the row is read again but
\* its status is not looked at; preparing ends with a checkpoint, which is one
\* transaction, so a preparation that fails has changed nothing.
ResumeSelected ==
    /\ "resume" \in setup.inputs
    /\ Free /\ tab = "Runs" /\ selected # 0 /\ ~Attached
    /\ Selected.status \notin Finished
    /\ Stored(Selected.run)
    /\ UpdateRow(Selected.run, status[Selected.run])
    /\ StartWorker(Selected.run)
    /\ RunsTabKeeps /\ UNCHANGED shouldQuit

AskDelete ==
    /\ "delete" \in setup.inputs
    /\ Free /\ tab = "Runs" /\ selected # 0
    /\ dialog' = Selected.run
    /\ UNCHANGED <<storeVars, tab, list, selected, shouldQuit>> /\ SearchKeeps

\* resolve_delete(true) and delete_selected: the selected run goes.
ConfirmDelete ==
    /\ ~Free
    /\ dialog' = NoRun
    /\ IF selected # 0 /\ Stored(Selected.run)
       THEN /\ table' = Without(Selected.run)
            /\ UNCHANGED status
            /\ Reload
       ELSE UNCHANGED <<storeVars, list, selected>>
    /\ UNCHANGED <<tab, shouldQuit>> /\ SearchKeeps

CancelDelete ==
    /\ ~Free
    /\ dialog' = NoRun
    /\ UNCHANGED <<storeVars, tab, list, selected, shouldQuit>> /\ SearchKeeps

OnSearch(input) == input \in setup.inputs /\ Free /\ tab = "Hunt" /\ Attached

\* toggle_pause: the flag is flipped at once, whatever the search does.
TogglePause ==
    /\ OnSearch("pause")
    /\ Send(IF worker.paused THEN "Resume" ELSE "Pause")
    /\ worker' = [worker EXCEPT !.paused = ~@]
    /\ UNCHANGED <<storeVars, runsTabVars, shouldQuit>>

SaveCheckpoint ==
    /\ OnSearch("save")
    /\ Send("Save")
    /\ UNCHANGED <<storeVars, runsTabVars, shouldQuit, worker>>

StopSearch ==
    /\ OnSearch("stop") /\ IsRunning
    /\ Send("Stop")
    /\ UNCHANGED <<storeVars, runsTabVars, shouldQuit, worker>>

\* dismiss_finished, also by way of stop_search; the thread is not joined.
DismissFinished ==
    /\ OnSearch("dismiss") /\ ~IsRunning
    /\ worker' = NoWorker
    /\ DatabaseKeeps
    /\ Reload
    /\ UNCHANGED <<tab, dialog, shouldQuit, threads>>

\* Seeded fault: the running search is not told to stop.
RequestQuit_NoStop ==
    /\ IF IsRunning
       THEN /\ worker' = [worker EXCEPT !.quitAfterStop = TRUE]
            /\ UNCHANGED <<threads, shouldQuit>>
       ELSE shouldQuit' = TRUE /\ SearchKeeps
    /\ UNCHANGED <<storeVars, runsTabVars>>

RequestQuit ==
    /\ IF IsRunning
       THEN /\ Send("Stop")
            /\ worker' = [worker EXCEPT !.quitAfterStop = TRUE]
            /\ UNCHANGED shouldQuit
       ELSE shouldQuit' = TRUE /\ SearchKeeps
    /\ UNCHANGED <<storeVars, runsTabVars>>

NoInput == UNCHANGED <<storeVars, runsTabVars, worker, shouldQuit, threads>>

Input ==
    /\ turn = "input"
    /\ turn' = "poll"
    /\ UNCHANGED setup
    /\ \/ \E destination \in {"Hunt", "Runs"} : Goto(destination)
       \/ Refresh \/ Select \/ Scroll
       \/ StartSearch \/ ResumeSelected
       \/ AskDelete \/ ConfirmDelete \/ CancelDelete
       \/ TogglePause \/ SaveCheckpoint \/ StopSearch \/ DismissFinished
       \/ RequestQuit \/ NoInput

EventLoop == EnterTerminal \/ PollWorker \/ Input \/ Shutdown

\* Another process ends a hunt on a run that nobody hunts here.
OutsideFinish ==
    /\ setup.outside
    /\ \E i \in DOMAIN table, s \in Finished :
          /\ table[i] # worker.run
          /\ status[table[i]] \notin Finished
          /\ UpdateRow(table[i], s)
    /\ UNCHANGED <<setup, turn, runsTabVars, worker, shouldQuit, threads>>

-----------------------------------------------------------------------------
Next ==
    \/ EventLoop \/ TerminalFails \/ OutsideFinish
    \/ \E t \in DOMAIN threads : ThreadStep(t) \/ ThreadEnds(t) \/ Tick(t)

\* The threads are scheduled, time passes, and a search that goes on gets its
\* chunks; nothing makes the user act or a search end by itself.
Fairness ==
    /\ WF_vars(EventLoop)
    /\ \A t \in 1..MaxSearches :
          /\ WF_vars(t \in DOMAIN threads /\ ThreadStep(t))
          /\ WF_vars(t \in DOMAIN threads /\ Tick(t))
          /\ SF_vars(t \in DOMAIN threads /\ Alive(t) /\ Chunk(t) /\ UiKeeps)

Spec == Init /\ [][Next]_vars /\ Fairness

-----------------------------------------------------------------------------
(* Properties.                                                             *)

TypeOK ==
    /\ setup \in SessionSetups
    /\ \A i \in DOMAIN table : table[i] \in Runs
    /\ \A i, j \in DOMAIN table : table[i] = table[j] => i = j
    /\ status \in [Runs -> Statuses]
    /\ turn \in {"enter", "poll", "input", "shutdown", "join", "exited", "refused"}
    /\ tab \in {"Hunt", "Runs"}
    /\ \A i \in DOMAIN list : list[i] \in [run : Runs, status : Statuses]
    /\ selected \in 0..Len(list)
    /\ list # <<>> => selected # 0
    /\ dialog \in Runs \cup {NoRun}
    /\ worker \in [thread : 0..Len(threads), run : Runs \cup {NoRun},
                   paused : BOOLEAN, finished : Reasons \cup {"none"},
                   error : BOOLEAN, quitAfterStop : BOOLEAN]
    /\ shouldQuit \in BOOLEAN
    /\ Len(threads) <= setup.searches
    /\ \A t \in DOMAIN threads :
          threads[t] \in [run : Runs,
              pc : {"begin", "control", "work", "finish", "announce", "gone"},
              paused : BOOLEAN, reason : Reasons \cup {"none"},
              inbox : [pause : {"keep", "pause", "resume"},
                       stop : BOOLEAN, any : BOOLEAN],
              shown : {"none", "paused", "running"},
              ending : Reasons \cup {"none", "Error"},
              recent : BOOLEAN]

\* A worker that is dismissed is not joined, yet no second search ever starts
\* while an earlier thread may still write to the database.
OneSearchAtATime ==
    Cardinality({t \in DOMAIN threads : threads[t].pc # "gone"}) <= 1

\* When the interface says how a search ended, the row says so too, unless the
\* user has deleted the run.
FinishShownIsStored ==
    worker.finished # "none" /\ Stored(worker.run)
        => status[worker.run] = FinalStatus(worker.finished)

\* Where nothing but the interface's own search changes the rows, the list it
\* shows whenever no search is attached is the table: order and statuses.
ListCurrentWhenIdle ==
    ~setup.outside /\ ~Attached => list = ListRuns(table, status)

\* Once it has had the terminal, the process never leaves while its search
\* still works (App::shutdown).
ExitJoinsSearch ==
    turn = "exited" => \A t \in DOMAIN threads : threads[t].pc = "gone"

\* No search is abandoned: one at a time, none running when the process leaves.
SessionInvariant == TypeOK /\ OneSearchAtATime /\ ExitJoinsSearch

\* What the interface shows of the database is true: how its search ended, and
\* the list of the runs.
RowsShownAreTrue == FinishShownIsStored /\ ListCurrentWhenIdle

\* Who asks to quit gets out, unless the search that is stopped for it fails.
QuitAsked == shouldQuit \/ worker.quitAfterStop
QuitEnds == QuitAsked ~> turn = "exited" \/ worker.error

\* Pauses and resumes overtake snapshots; when the user stops pressing, the
\* interface shows whether the search is paused again and again.
Searching == IsRunning /\ threads[worker.thread].pc \in {"control", "work"}
PauseShown == Searching => worker.paused = threads[worker.thread].paused
PauseFlagSettles == []<><<TogglePause>>_vars \/ []<>PauseShown

\* What the user asks of a search takes effect, and shows: a quit and a pause.
RequestsTakeEffect == QuitEnds /\ PauseFlagSettles
=============================================================================
