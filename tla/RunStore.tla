------------------------------ MODULE RunStore ------------------------------
(***************************************************************************)
(* The database of runs and the processes that share it: the migration     *)
(* every connection makes when it opens, the statements of Storage with    *)
(* their transactions, and the callers that hunt, create and delete.       *)
(*                                                                         *)
(* SQLite runs one writer at a time; a statement outside a transaction     *)
(* commits by itself; a reader sees what is committed.  A statement that   *)
(* fails ends the command that made it, as a crash does: the process is    *)
(* gone, with its memory and its open transaction.                         *)
(*                                                                         *)
(* A window's offset stands for its bitmap, its details and its score; it  *)
(* is relative to where the run was told to begin (--start-offset).        *)
(* Nobody names a run with the identifier of another.                      *)
(***************************************************************************)
EXTENDS Integers, SequencesExt

CONSTANTS
    Processes,
    Ids,            \* identifiers, fresh for every run
    Names,
    MaxOffset,      \* bound: the windows there are to scan
    Score,          \* the score of the window at each offset
    None,
    StoreSetups     \* what the processes do: see StoreSetupType

Roles == {"hunt", "create", "delete"}
StoreSetupType ==
    [age : {"none", "earlier", "current"}, \* no database, or one of which version
     saved : SUBSET (Ids \X Names),     \* the runs in it
     roles : [Processes -> SUBSET Roles],
     crashes : Nat]                     \* bound: processes that end early

VARIABLES
    setup,
    tables,     \* the tables that exist
    columns,    \* the columns of ColumnsAdded they have
    runs,       \* the rows of runs, by id
    events,     \* the offsets in best_events, by run; twice is once here
    writer,     \* the process whose transaction is open
    proc,       \* what each process is doing
    crashes,
    \* History, for the properties.
    born,       \* identifiers ever given out
    ancient,    \* runs of an earlier version
    shared,     \* runs two processes have hunted at a time
    trimmed     \* runs whose events a deletion has removed, the row not yet

vars == <<setup, tables, columns, runs, events, writer, proc, crashes, born,
          ancient, shared, trimmed>>

Tables == {"runs", "best_events"}
\* The columns migrate adds one by one; four more are treated alike.
ColumnsAdded == <<"canvas_width", "match_mode", "match_json">>
Home(column) == IF column = "match_json" THEN "best_events" ELSE "runs"
AllColumns == {ColumnsAdded[k] : k \in DOMAIN ColumnsAdded}
ColumnsOf(table) == {c \in AllColumns : Home(c) = table}

Offsets == 0..MaxOffset
Absent == [name |-> None, mode |-> "none", canvas |-> "none", offset |-> 0, best |-> None,
           details |-> None, params |-> 0, legacy |-> FALSE]
\* update_run writes offset, best and details; a checkpoint offset, best and params.
Row == [name : Names, mode : {"none", "threshold", "emergence"},
        canvas : {"none", "zero", "set", "as target"},
        offset : Offsets, best : Offsets \cup {None},
        details : Offsets \cup {None},
        params : Offsets,       \* the position in params_json
        legacy : BOOLEAN]       \* params_json has keys this version does not know
NewRow(n, m, l) ==
    [Absent EXCEPT !.name = n, !.mode = m, !.legacy = l,
                   !.canvas = IF m = "none" THEN "none" ELSE "set"]
\* row_to_run: a canvas of no size is one of the target's.
RowToRun(row) == [row EXCEPT !.canvas = IF @ = "zero" THEN "as target" ELSE @]
Stored == {i \in Ids : runs[i] # Absent}

StoreConstants ==
    /\ MaxOffset \in Nat /\ Score \in [Offsets -> Nat]
    /\ None \notin Ids \cup Names \cup Processes \cup Int
    /\ StoreSetups \subseteq StoreSetupType
    /\ \A s \in StoreSetups : \A a, b \in s.saved : a[2] = b[2] => a = b \* names are unique

Idle == [pc |-> "idle", at |-> 1, id |-> None, run |-> Absent, prior |-> FALSE,
         next |-> "none"]
Closed == [Idle EXCEPT !.pc = "closed"]
Becomes(p, record) == proc' = [proc EXCEPT ![p] = record]

\* A window's score beats what is the best so far, which is 0 at first.
Beats(o, best) == Score[o] > IF best = None THEN 0 ELSE Score[best]
Records == {o \in Offsets : Score[o] > 0 /\ \A e \in 0..o-1 : Score[e] < Score[o]}

Init ==
    /\ setup \in StoreSetups
    /\ tables = IF setup.age = "none" THEN {} ELSE Tables
    /\ columns = IF setup.age = "current" THEN AllColumns ELSE {}
    /\ born = {s[1] : s \in setup.saved}
    /\ ancient = IF setup.age = "earlier" THEN born ELSE {}
    /\ runs \in [Ids -> {Absent} \cup
                    {NewRow(n, IF setup.age = "earlier" THEN "none" ELSE "emergence", l) :
                        n \in Names, l \in BOOLEAN}]
    /\ \A i \in Ids :
          IF i \in born THEN <<i, runs[i].name>> \in setup.saved ELSE runs[i] = Absent
    /\ events = [i \in Ids |-> {}]
    /\ writer = None
    /\ proc = [p \in Processes |-> Closed]
    /\ crashes = 0
    /\ shared = {}
    /\ trimmed = {}

-----------------------------------------------------------------------------
(* Storage::open_path: each statement of migrate commits by itself.        *)

StoreKeeps == UNCHANGED <<tables, columns, runs, events, writer>>
HistoryKeeps == UNCHANGED <<setup, crashes, born, ancient, shared, trimmed>>

CreateTables(p) ==
    /\ writer = None
    /\ \E t \in Tables :
          /\ proc[p].pc = (IF t = "runs" THEN "closed" ELSE "events table")
          /\ tables' = tables \cup {t}
          /\ columns' = IF t \in tables THEN columns ELSE columns \cup ColumnsOf(t)
          /\ Becomes(p, [Closed EXCEPT !.pc = IF t = "runs" THEN "events table" ELSE "check"])
    /\ UNCHANGED <<runs, events, writer>> /\ HistoryKeeps

\* column_exists: on to the first column that is missing, if there is one.
CheckColumn(p) ==
    /\ proc[p].pc = "check"
    /\ LET missing == {k \in DOMAIN ColumnsAdded : ColumnsAdded[k] \notin columns}
       IN Becomes(p, IF missing = {} THEN Idle
                     ELSE [proc[p] EXCEPT !.pc = "alter", !.at = Min(missing)])
    /\ StoreKeeps /\ HistoryKeeps

\* Seeded fault: rows already there get the defaults of a new table.
Defaulted_AsNew(row, column) ==
    CASE column = "match_mode" -> [row EXCEPT !.mode = "emergence"]
      [] column = "canvas_width" -> [row EXCEPT !.canvas = "zero"]
      [] OTHER -> row

\* The default that rows already there get, which for the mode is not the one of
\* a new table.
Defaulted(row, column) ==
    CASE column = "match_mode" -> [row EXCEPT !.mode = "threshold"]
      [] column = "canvas_width" -> [row EXCEPT !.canvas = "zero"]
      [] OTHER -> row

\* ALTER TABLE: an error if another connection has added the column meanwhile;
\* the next attempt to open finds it.
AddColumn(p) ==
    /\ proc[p].pc = "alter" /\ writer = None
    /\ LET c == ColumnsAdded[proc[p].at]
       IN IF c \in columns THEN Becomes(p, Closed) /\ UNCHANGED <<columns, runs>>
          ELSE /\ columns' = columns \cup {c}
               /\ runs' = [i \in Ids |-> IF i \in Stored THEN Defaulted(runs[i], c)
                                         ELSE runs[i]]
               /\ Becomes(p, [proc[p] EXCEPT !.pc = "check"])
    /\ UNCHANGED <<tables, events, writer>> /\ HistoryKeeps

-----------------------------------------------------------------------------
(* The statements.                                                         *)

\* resolve_run, by name or identifier.
Resolve(p, role) ==
    /\ proc[p].pc = "idle" /\ role \in setup.roles[p]
    /\ \E i \in Stored :
          Becomes(p, [Idle EXCEPT !.pc = role, !.id = i, !.run = RowToRun(runs[i]),
                                  !.next = IF role = "hunt" THEN "start" ELSE "none"])
    /\ StoreKeeps

\* create_run: one INSERT; names are unique.
CreateRun(p) ==
    /\ proc[p].pc = "idle" /\ "create" \in setup.roles[p] /\ writer = None
    /\ \E i \in Ids \ born, n \in Names :
          /\ \A j \in Stored : runs[j].name # n
          /\ runs' = [runs EXCEPT ![i] = NewRow(n, "emergence", FALSE)]
          /\ born' = born \cup {i}
    /\ UNCHANGED <<setup, tables, columns, events, writer, proc, crashes, ancient, shared,
                   trimmed>>

\* update_run, of the record the process has in memory; no row is no error.
UpdateRun(i, run) ==
    runs' = IF i \in Stored
            THEN [runs EXCEPT ![i].offset = run.offset, ![i].best = run.best,
                              ![i].details = run.details]
            ELSE runs

\* insert_best_event: the foreign key wants the run.
InsertBestEvent(i, o) ==
    /\ i \in Stored
    /\ events' = [events EXCEPT ![i] = @ \cup {o}]

-----------------------------------------------------------------------------
(* checkpoint_with_snapshot.                                               *)

\* What was stored is read before the transaction.
ReadPrior(p) ==
    /\ proc[p].pc \in {"hunt", "scan"} /\ proc[p].id \in Stored
    /\ Becomes(p, [proc[p] EXCEPT !.pc = "begin", !.prior = runs[proc[p].id].legacy])
    /\ StoreKeeps /\ HistoryKeeps

\* The transaction opens with the progress columns, which nobody else sees.
Begin(p) ==
    /\ proc[p].pc = "begin" /\ writer = None /\ proc[p].id \in Stored
    /\ writer' = p
    /\ Becomes(p, [proc[p] EXCEPT !.pc = "commit"])
    /\ UNCHANGED <<tables, columns, runs, events>> /\ HistoryKeeps

\* Seeded fault: the parameters are written over, not merged.
Commit_Overwrites(p) ==
    /\ proc[p].pc = "commit"
    /\ runs' = [runs EXCEPT ![proc[p].id].offset = proc[p].run.offset,
                            ![proc[p].id].best = proc[p].run.best,
                            ![proc[p].id].params = proc[p].run.offset,
                            ![proc[p].id].legacy = FALSE]
    /\ writer' = None
    /\ Becomes(p, [proc[p] EXCEPT !.pc = proc[p].next, !.next = "scan"])
    /\ UNCHANGED <<tables, columns, events>> /\ HistoryKeeps

\* The merged parameters, which keep what this version does not know.
Commit(p) ==
    /\ proc[p].pc = "commit"
    /\ runs' = [runs EXCEPT ![proc[p].id].offset = proc[p].run.offset,
                            ![proc[p].id].best = proc[p].run.best,
                            ![proc[p].id].params = proc[p].run.offset,
                            ![proc[p].id].legacy = proc[p].prior]
    /\ writer' = None
    /\ Becomes(p, [proc[p] EXCEPT !.pc = proc[p].next, !.next = "scan"])
    /\ UNCHANGED <<tables, columns, events>> /\ HistoryKeeps

-----------------------------------------------------------------------------
(* A hunt: prepare_resume, run_search_inner, record_new_bests, finish.     *)

Hunters(i) == {p \in Processes : proc[p].pc # "delete" /\ proc[p].id = i}

\* prepare_resume reads the row; its checkpoint follows.
Resume(p) ==
    /\ Resolve(p, "hunt")
    /\ shared' = shared \cup {i \in Ids : proc'[p].id = i /\ Hunters(i) # {}}
    /\ UNCHANGED <<setup, crashes, born, ancient, trimmed>>

\* The row is marked as running.
Start(p) ==
    /\ proc[p].pc = "start" /\ writer = None
    /\ UpdateRun(proc[p].id, proc[p].run)
    /\ Becomes(p, [proc[p] EXCEPT !.pc = "scan"])
    /\ UNCHANGED <<tables, columns, events, writer>> /\ HistoryKeeps

\* Windows that are no better advance the position in memory.
ScanOn(p) ==
    /\ proc[p].pc = "scan" /\ proc[p].run.offset < MaxOffset
    /\ ~Beats(proc[p].run.offset, proc[p].run.best)
    /\ Becomes(p, [proc[p] EXCEPT !.run.offset = @ + 1])
    /\ StoreKeeps /\ HistoryKeeps

Improved(run) == [run EXCEPT !.offset = @ + 1, !.best = run.offset, !.details = run.offset]

RecordEvent(p) ==
    /\ proc[p].pc = "scan" /\ proc[p].run.offset < MaxOffset /\ writer = None
    /\ Beats(proc[p].run.offset, proc[p].run.best)
    /\ InsertBestEvent(proc[p].id, proc[p].run.offset)
    /\ Becomes(p, [proc[p] EXCEPT !.pc = "persist", !.run = Improved(@)])
    /\ UNCHANGED <<tables, columns, runs, writer>> /\ HistoryKeeps

PersistBest(p) ==
    /\ proc[p].pc = "persist" /\ writer = None
    /\ UpdateRun(proc[p].id, proc[p].run)
    /\ Becomes(p, [proc[p] EXCEPT !.pc = "scan"])
    /\ UNCHANGED <<tables, columns, events, writer>> /\ HistoryKeeps

Finish(p) ==
    /\ proc[p].pc = "scan" /\ writer = None
    /\ UpdateRun(proc[p].id, proc[p].run)
    /\ Becomes(p, Idle)
    /\ UNCHANGED <<tables, columns, events, writer>> /\ HistoryKeeps

-----------------------------------------------------------------------------
(* delete_run: the run is looked up, its events go, then its row, which    *)
(* takes events written meanwhile with it.                                 *)

ResolveForDelete(p) == Resolve(p, "delete") /\ HistoryKeeps

DeleteEvents(p) ==
    /\ proc[p].pc = "delete" /\ writer = None
    /\ events' = [events EXCEPT ![proc[p].id] = {}]
    /\ Becomes(p, [proc[p] EXCEPT !.pc = "delete row"])
    /\ trimmed' = trimmed \cup {proc[p].id}
    /\ UNCHANGED <<setup, tables, columns, runs, writer, crashes, born, ancient, shared>>

DeleteRow(p) ==
    /\ proc[p].pc = "delete row" /\ writer = None
    /\ runs' = [runs EXCEPT ![proc[p].id] = Absent]
    /\ events' = [events EXCEPT ![proc[p].id] = {}]
    /\ Becomes(p, Idle)
    /\ UNCHANGED <<tables, columns, writer>> /\ HistoryKeeps

\* A crash, or a statement that fails: the transaction is rolled back.
Crash(p) ==
    /\ proc[p].pc # "closed" /\ crashes < setup.crashes
    /\ crashes' = crashes + 1
    /\ Becomes(p, Closed)
    /\ writer' = IF writer = p THEN None ELSE writer
    /\ UNCHANGED <<setup, tables, columns, runs, events, born, ancient, shared, trimmed>>

\* The run a hunter works on was deleted: its checkpoint finds no row, its event
\* no parent.
RunGone(p) ==
    /\ proc[p].id \notin Stored
    /\ proc[p].pc \in {"hunt", "begin", "scan"}
    /\ Becomes(p, Closed)
    /\ StoreKeeps /\ HistoryKeeps

Migrate(p) == CreateTables(p) \/ CheckColumn(p) \/ AddColumn(p)
Hunt(p) ==
    \/ Resume(p) \/ ReadPrior(p) \/ Begin(p) \/ Commit(p)
    \/ Start(p) \/ ScanOn(p) \/ RecordEvent(p) \/ PersistBest(p) \/ Finish(p)
    \/ RunGone(p)
Delete(p) == ResolveForDelete(p) \/ DeleteEvents(p) \/ DeleteRow(p)

Next ==
    \E p \in Processes :
        Migrate(p) \/ CreateRun(p) \/ Hunt(p) \/ Delete(p) \/ Crash(p)

Spec == Init /\ [][Next]_vars

-----------------------------------------------------------------------------
(* Properties.                                                             *)

Pcs == {"closed", "events table", "check", "alter", "idle", "hunt", "begin",
        "commit", "start", "scan", "persist", "delete", "delete row"}
TypeOK ==
    /\ setup \in StoreSetups
    /\ tables \subseteq Tables
    /\ columns \subseteq AllColumns
    /\ runs \in [Ids -> Row \cup {Absent}]
    /\ events \in [Ids -> SUBSET Offsets]
    /\ writer \in Processes \cup {None}
    /\ \A p \in Processes :
          /\ proc[p].pc \in Pcs
          /\ proc[p].id \in Ids \cup {None}
          /\ proc[p].run \in Row \cup {Absent}
    /\ crashes \in Nat
    /\ born \subseteq Ids /\ ancient \subseteq born /\ shared \subseteq born
    /\ trimmed \subseteq born

\* A position and a best belong together: the best of the windows before it.
ScannedTo(offset, best) ==
    /\ best # None => best < offset /\ best \in Records
    /\ \A o \in 0..offset-1 : ~Beats(o, best)

\* Whoever writes a row, however many hunt it, wherever they crash: its position
\* and its best are those of one scan from the start, and no window below the
\* position is left out (Storage::update_run, checkpoint_with_snapshot).
ProgressIsAPrefix == \A i \in Stored : ScannedTo(runs[i].offset, runs[i].best)

\* The history has every record below the row's position and nothing that was
\* not one (record_new_bests: the event comes before the row), unless a deletion
\* got half way and left a run without its history (delete_run).
HistoryIsExact ==
    \A i \in Stored :
        /\ events[i] \subseteq Records
        /\ i \notin trimmed => {o \in Records : o < runs[i].offset} \subseteq events[i]

\* No event outlives its run (ON DELETE CASCADE, PRAGMA foreign_keys).
EventsHaveRuns == \A i \in Ids : events[i] # {} => i \in Stored

NamesAreUnique == \A i, j \in Stored : runs[i].name = runs[j].name => i = j

\* The bitmap and details shown are those of the best, unless two processes
\* hunted the run: a checkpoint writes the one, update_run both.
DetailsBelongToBest ==
    \A i \in Stored \ shared : runs[i].details = runs[i].best

\* A connection that is open has every column, and runs of an earlier version
\* are read as the threshold runs of their target's size they were (migrate,
\* row_to_run).
MigrationIsComplete ==
    (\E p \in Processes : proc[p].pc \notin {"closed", "events table", "check", "alter"}) =>
        /\ columns = AllColumns
        /\ \A i \in Stored :
              LET run == RowToRun(runs[i])
              IN <<run.mode, run.canvas>> = IF i \in ancient THEN <<"threshold", "as target">>
                                            ELSE <<"emergence", "set">>

\* The database is sound whatever its processes do to it together.
StoreInvariant ==
    /\ TypeOK
    /\ ProgressIsAPrefix
    /\ HistoryIsExact
    /\ EventsHaveRuns
    /\ NamesAreUnique
    /\ DetailsBelongToBest
    /\ MigrationIsComplete

\* The position in the parameters changes only with the columns, in one step:
\* a checkpoint is there or it is not.
CheckpointIsAtomic ==
    \A i \in Stored : runs'[i].params # runs[i].params /\ runs'[i] # Absent =>
        runs'[i].params = runs'[i].offset
\* A run goes only when its deletion was asked for, by whichever name it had.
DeletesWhatWasResolved ==
    \A i \in Stored : runs'[i] = Absent =>
        \E p \in Processes : proc[p].pc = "delete row" /\ proc[p].id = i
\* Columns, and parameters of other versions, are never lost.
NothingIsForgotten ==
    /\ columns \subseteq columns'
    /\ \A i \in Stored : runs[i].legacy /\ runs'[i] # Absent => runs'[i].legacy

\* What no statement may do to the rows others work on.
StatementIsSafe == CheckpointIsAtomic /\ DeletesWhatWasResolved /\ NothingIsForgotten
StatementsAreSafe == [][StatementIsSafe]_vars
=============================================================================
