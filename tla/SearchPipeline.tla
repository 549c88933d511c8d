--------------------------- MODULE SearchPipeline ---------------------------
(***************************************************************************)
(* One search run: the producer thread that cuts the digit source into     *)
(* chunks, the backend thread that scores them, the reducer that applies   *)
(* the scores in offset order, the commands and the interrupt that reach   *)
(* it, and the database row and event history it leaves behind, over       *)
(* several invocations separated by clean ends, failures and crashes.      *)
(*                                                                         *)
(* Scores are chosen once per behaviour: score[o] is what every backend    *)
(* returns for the window at offset o.  Channels are sequences; a channel  *)
(* end is closed when the thread that owns it has left the states in which *)
(* it holds it.  The chunk leases of the resource budget are those of the  *)
(* chunks in flight, so the queue counter is computed from them.           *)
(*                                                                         *)
(* An offset is a position relative to where the run was told to begin     *)
(* (--start-offset): create_run stores that as current_offset and counts   *)
(* scanned_windows from zero.  Nothing in the pipeline looks at a position *)
(* otherwise than by comparing it with another, or with the end of the text. *)
(***************************************************************************)
EXTENDS Integers, Sequences, FiniteSets

CONSTANTS
    WindowLen,      \* digits in one window
    TopN,           \* top_n
    NoBound,
    MaxDigits,      \* bound: no more digits than this are ever generated
    PerfectScore,
    Setups          \* the searches and their circumstances: see SetupsAssumption

FaultKinds == {"storage", "source", "search", "rebuild", "generator"}
Offsets == 0..(MaxDigits - 1)

ASSUME SizesAssumption ==
    /\ WindowLen \in Nat \ {0}
    /\ TopN \in Nat
    /\ NoBound \notin Nat
    /\ MaxDigits \in Nat
    /\ PerfectScore \in Nat \ {0}

ASSUME SetupsAssumption ==
    \A s \in Setups :
        /\ s.chunkWindows \in Nat \ {0}         \* chunk_windows
        /\ s.queueDepth \in Nat \ {0}           \* queue_depth: both channels and the leases
        /\ s.limit \in Nat \cup {NoBound}       \* count bound of one invocation
        /\ s.maxOffset \in Nat \cup {NoBound}   \* max_offset
        /\ s.growing \in BOOLEAN                \* the source generates digits on demand
        /\ s.accelerator \in BOOLEAN            \* a GPU: generation is prefetched
        /\ s.initialDigits \in 0..MaxDigits     \* digits in the source at first
        /\ s.tables \subseteq [Offsets -> 0..PerfectScore] \* scores a behaviour may have
        /\ s.keepGoing \subseteq BOOLEAN        \* keep_going_after_perfect at each start
        /\ s.faults \subseteq FaultKinds        \* what may fail
        /\ s.crashes \in BOOLEAN                \* whether the process may die
        /\ s.maxCommands \in Nat                \* bound: commands sent per behaviour
        /\ s.maxInvocations \in Nat \ {0}       \* bound: times the run is started

VARIABLES
    setup,          \* chosen once
    score,          \* the score of every window
    published,      \* digits the source holds
    demand,         \* digits asked of the generator
    generatorError, \* the generator's sticky error
    row,            \* the run's row in the database
    history,        \* its best events, in insertion order
    invocations,    \* how often it was started
    session,        \* where and how this invocation started
    run,            \* the run record in memory
    reducer, reorder, producer, backend,
    chunks, results,\* the two bounded channels
    stop,           \* the shared stop flag
    cancelled,      \* generation waiters were cancelled
    inbox,          \* control commands not yet handled
    commandsSent

sourceVars == <<published, demand, generatorError>>
storeVars == <<row, history>>
threadVars == <<reducer, reorder, producer, backend, chunks, results>>
signalVars == <<stop, cancelled, inbox, commandsSent>>
vars == <<setup, score, sourceVars, storeVars, invocations, session, run,
          threadVars, signalVars>>

Commands == {"Pause", "Resume", "Save", "Stop"}
Finishes == {"PerfectFound", "SourceExhausted", "Interrupted",
             "LimitReached", "MaxOffsetReached"}

Lesser(a, b) == IF a <= b THEN a ELSE b
Larger(a, b) == IF a >= b THEN a ELSE b
Bounded(n, bound, used) == IF bound = NoBound THEN n ELSE Lesser(n, bound - used)

-----------------------------------------------------------------------------
(* The ranking of top matches.                                             *)

\* compare_top and compare_window_scores: higher score first, then the
\* earlier window.
Better(p, o) == score[p] > score[o] \/ (score[p] = score[o] /\ p < o)

\* What merging keeps of a set of windows: the TopN best, no window twice.
Best(S) == {o \in S : Cardinality({p \in S : Better(p, o)}) < TopN}

-----------------------------------------------------------------------------
(* Chunks and channel ends.                                                *)

Windows(chunk) == chunk.start..(chunk.start + chunk.windows - 1)
NoChunk == [start |-> 0, scanned |-> 0, windows |-> 0, ok |-> TRUE]

Running == reducer.pc # "off"
ReducerListens == reducer.pc \in {"control", "recv", "drain", "record", "persist"}
ProducerDone == producer.pc \in {"done", "failed"}
ResultSenderGone == backend.pc \in {"dropQueue", "done"}

\* The chunks whose leases are out: held by a thread or queued.
InFlight ==
    {chunks[i] : i \in DOMAIN chunks} \cup {results[i] : i \in DOMAIN results}
      \cup reorder
      \cup (IF producer.pc = "send" THEN {producer.chunk} ELSE {})
      \cup (IF backend.pc \in {"search", "send"} THEN {backend.chunk} ELSE {})
      \cup (IF reducer.pc \in {"record", "persist"} THEN {reducer.chunk} ELSE {})
QueueCurrent == Cardinality({c.start : c \in InFlight})

-----------------------------------------------------------------------------
FreshRow == [offset |-> 0, scanned |-> 0, best |-> 0, bestAt |-> NoBound,
             top |-> {}, status |-> "Paused"]
IdleReducer == [pc |-> "off", paused |-> FALSE, next |-> 0, chunk |-> NoChunk,
                outcome |-> "none"]
IdleProducer == [pc |-> "done", offset |-> 0, scanned |-> 0, chunk |-> NoChunk,
                 prefetched |-> 0]
IdleBackend == [pc |-> "done", chunk |-> NoChunk]

\* A new process: nothing but the database and the digits survives.
NoThreads ==
    /\ reorder' = {}
    /\ producer' = IdleProducer
    /\ backend' = IdleBackend
    /\ chunks' = <<>>
    /\ results' = <<>>

Init ==
    /\ setup \in Setups
    /\ score \in setup.tables
    /\ published = setup.initialDigits
    /\ demand = 0
    /\ generatorError = FALSE
    /\ row = FreshRow
    /\ history = <<>>
    /\ invocations = 0
    /\ session = [offset |-> 0, scanned |-> 0, keepGoing |-> FALSE]
    /\ run = FreshRow
    /\ reducer = IdleReducer
    /\ reorder = {}
    /\ producer = IdleProducer
    /\ backend = IdleBackend
    /\ chunks = <<>>
    /\ results = <<>>
    /\ stop = FALSE
    /\ cancelled = FALSE
    /\ inbox = <<>>
    /\ commandsSent = 0

\* hunt or resume: load the row, mark it running, start the threads.
Start ==
    /\ ~Running
    /\ invocations < setup.maxInvocations
    /\ row.status # "SourceExhausted"
    /\ session' \in [offset : {row.offset}, scanned : {row.scanned},
                    keepGoing : setup.keepGoing]
    /\ row.status = "PerfectFound" => session'.keepGoing
    /\ run' = [row EXCEPT !.status = "Running"]
    /\ row' = run'
    /\ invocations' = invocations + 1
    /\ reducer' = [IdleReducer EXCEPT !.pc = "control", !.next = row.offset]
    /\ producer' = [IdleProducer EXCEPT !.pc = "prefetch", !.offset = row.offset,
                                         !.scanned = row.scanned]
    /\ backend' = [IdleBackend EXCEPT !.pc = "recv"]
    /\ reorder' = {} /\ chunks' = <<>> /\ results' = <<>>
    /\ stop' = FALSE /\ cancelled' = FALSE /\ inbox' = <<>>
    /\ demand' = 0 /\ generatorError' = FALSE
    /\ UNCHANGED <<setup, score, published, history, commandsSent>>

-----------------------------------------------------------------------------
(* The producer thread.                                                    *)

ProducerEnds(result) == producer' = [producer EXCEPT !.pc = result]
ProducerKeepsRest ==
    UNCHANGED <<setup, score, published, generatorError, storeVars, invocations,
                session, run, reducer, reorder, backend, results, signalVars>>

Horizon == Larger(8 * setup.chunkWindows, WindowLen)

\* Before the loop: ask for the digits the bounds allow this invocation.
\* prefetch_generation itself does not wait, and a stop makes it do nothing.
ProducerPrefetch ==
    LET limited == IF setup.limit = NoBound THEN {}
                   ELSE {session.offset + setup.limit + WindowLen}
        capped == IF setup.maxOffset = NoBound THEN {} ELSE {setup.maxOffset + WindowLen}
        bounds == limited \cup capped
        target == IF bounds = {} THEN published + Horizon
                  ELSE CHOOSE t \in bounds : \A u \in bounds : t <= u
    IN  /\ producer.pc = "prefetch"
        /\ IF setup.accelerator /\ setup.growing /\ target > published
           THEN /\ producer' = [producer EXCEPT !.pc = "check",
                                               !.prefetched = target]
                /\ demand' = IF stop THEN demand ELSE Larger(demand, target)
           ELSE producer' = [producer EXCEPT !.pc = "check"] /\ UNCHANGED demand
        /\ ProducerKeepsRest /\ UNCHANGED chunks

BoundReached ==
    \/ setup.limit # NoBound /\ producer.scanned - session.scanned >= setup.limit
    \/ setup.maxOffset # NoBound /\ producer.offset >= setup.maxOffset

\* Seeded fault: the last digit is never asked for.
Available_LastDigit ==
    IF published > producer.offset THEN published - producer.offset - 1 ELSE 0
Available == IF published > producer.offset THEN published - producer.offset ELSE 0

PrefetchTarget == producer.offset + WindowLen + Horizon
Prefetches ==
    /\ setup.accelerator /\ setup.growing
    /\ Available < Horizon
    /\ PrefetchTarget > producer.prefetched
PrefetchedAfter ==
    IF Prefetches THEN PrefetchTarget
    ELSE IF ~(setup.accelerator /\ setup.growing /\ Available < Horizon)
            /\ published >= producer.prefetched
    THEN 0
    ELSE producer.prefetched

\* The size of the next chunk, cut to what is available and to the bounds.
ChunkSize ==
    Bounded(
        Bounded(Lesser(setup.chunkWindows, Available - WindowLen + 1),
                setup.limit, producer.scanned - session.scanned),
        setup.maxOffset, producer.offset)

\* The loop ends: a stop is seen, or a bound of this invocation is reached.
ProducerStops ==
    /\ producer.pc = "check"
    /\ stop \/ BoundReached
    /\ ProducerEnds("done")
    /\ ProducerKeepsRest /\ UNCHANGED <<demand, chunks>>

\* One turn of the loop up to the reservation of the chunk: length, prefetch
\* (which fails on the generator's sticky error), availability, size.
ProducerCheck ==
    /\ producer.pc = "check"
    /\ ~stop /\ ~BoundReached
    /\ IF Prefetches /\ generatorError
       THEN ProducerEnds("failed") /\ UNCHANGED demand
       ELSE /\ demand' = IF Prefetches THEN Larger(demand, PrefetchTarget)
                         ELSE demand
            /\ producer' =
                 IF Available >= WindowLen
                 THEN [producer EXCEPT
                         !.pc = "reserve",
                         !.prefetched = PrefetchedAfter,
                         !.chunk = [start |-> producer.offset,
                                    scanned |-> producer.scanned,
                                    windows |-> ChunkSize, ok |-> TRUE]]
                 ELSE [producer EXCEPT
                         !.pc = IF setup.growing THEN "request" ELSE "done",
                         !.prefetched = PrefetchedAfter]
    /\ ProducerKeepsRest /\ UNCHANGED chunks

\* acquire_chunk waits for a lease; then the digits are read, or cannot be.
ProducerReserve ==
    /\ producer.pc = "reserve"
    /\ QueueCurrent < setup.queueDepth
    /\ \/ producer' = [producer EXCEPT !.pc = "send"]
       \/ "source" \in setup.faults /\ ProducerEnds("failed")
    /\ ProducerKeepsRest /\ UNCHANGED <<demand, chunks>>

\* Seeded fault: a short chunk is passed as if it were a full one.
ProducerSend_FullStep ==
    /\ producer.pc = "send"
    /\ IF backend.pc = "done"
       THEN ProducerEnds("done") /\ UNCHANGED chunks
       ELSE /\ Len(chunks) < setup.queueDepth
            /\ chunks' = Append(chunks, producer.chunk)
            /\ producer' = [producer EXCEPT
                   !.pc = "check",
                   !.offset = @ + setup.chunkWindows,
                   !.scanned = @ + producer.chunk.windows]
    /\ ProducerKeepsRest /\ UNCHANGED demand

\* Hand the chunk over and move on, or stop because nobody receives.
ProducerSend ==
    /\ producer.pc = "send"
    /\ IF backend.pc = "done"
       THEN ProducerEnds("done") /\ UNCHANGED chunks
       ELSE /\ Len(chunks) < setup.queueDepth
            /\ chunks' = Append(chunks, producer.chunk)
            /\ producer' = [producer EXCEPT
                   !.pc = "check",
                   !.offset = @ + producer.chunk.windows,
                   !.scanned = @ + producer.chunk.windows]
    /\ ProducerKeepsRest /\ UNCHANGED demand

\* Seeded fault: the last digit of the next window is not asked for.
GenerationTarget_OneShort == producer.offset + WindowLen - 1
GenerationTarget ==
    producer.offset + WindowLen + Larger(setup.chunkWindows, WindowLen)

\* request_generation: register the demand, unless the digits are there by
\* now or the generator has failed; a stop that is already set ends the wait.
ProducerRequest ==
    /\ producer.pc = "request"
    /\ IF published >= GenerationTarget
       THEN producer' = [producer EXCEPT !.pc = "check"] /\ UNCHANGED demand
       ELSE IF generatorError
       THEN ProducerEnds("failed") /\ UNCHANGED demand
       ELSE /\ demand' = Larger(demand, GenerationTarget)
            /\ IF stop
               THEN ProducerEnds("failed")
               ELSE producer' = [producer EXCEPT !.pc = "waiting"]
    /\ ProducerKeepsRest /\ UNCHANGED chunks

\* The wait ends with a notification: an epoch that reaches the demand is
\* complete, the waiters were cancelled, or the generator failed.  Digits may
\* be there and their epoch not yet complete when a cancellation comes.
ProducerWaitEnds ==
    /\ producer.pc = "waiting"
    /\ \/ /\ published >= GenerationTarget
          /\ producer' = [producer EXCEPT !.pc = "check"]
       \/ /\ cancelled \/ generatorError
          /\ ProducerEnds("failed")
    /\ ProducerKeepsRest /\ UNCHANGED <<demand, chunks>>

\* The stop flag notifies nobody: the waiter sees it only if it happens to
\* wake up, so no fairness is assumed of this step.
ProducerSeesStop ==
    /\ producer.pc = "waiting"
    /\ stop
    /\ ProducerEnds("failed")
    /\ ProducerKeepsRest /\ UNCHANGED <<demand, chunks>>

\* The pi producer: append a batch towards the demand, or fail for good.
Generate ==
    /\ Running /\ setup.growing
    /\ published < demand /\ published < MaxDigits /\ ~generatorError
    /\ \/ published' \in (published + 1)..Lesser(demand, MaxDigits)
          /\ UNCHANGED generatorError
       \/ /\ "generator" \in setup.faults
          /\ generatorError' = TRUE
          /\ UNCHANGED published
    /\ UNCHANGED <<setup, score, demand, storeVars, invocations, session, run,
                   threadVars, signalVars>>

ProducerStep ==
    \/ ProducerPrefetch \/ ProducerStops \/ ProducerCheck \/ ProducerReserve
    \/ ProducerSend \/ ProducerRequest \/ ProducerWaitEnds

-----------------------------------------------------------------------------
(* The backend thread.                                                     *)

BackendKeepsRest ==
    UNCHANGED <<setup, score, sourceVars, storeVars, invocations, session, run,
                reducer, reorder, producer, signalVars>>

\* Seeded fault: an empty queue is taken for the end of the source.
BackendReceive_NoWait ==
    /\ backend.pc = "recv"
    /\ IF chunks = <<>>
       THEN /\ backend' = [backend EXCEPT !.pc = "dropSender"]
            /\ UNCHANGED chunks
       ELSE /\ chunks' = Tail(chunks)
            /\ backend' = IF stop
                          THEN [backend EXCEPT !.pc = "dropSender"]
                          ELSE [pc |-> "search", chunk |-> Head(chunks)]
    /\ UNCHANGED results /\ BackendKeepsRest

\* Take the next chunk; a stop discards it and ends the thread.
BackendReceive ==
    /\ backend.pc = "recv"
    /\ IF chunks = <<>>
       THEN /\ ProducerDone
            /\ backend' = [backend EXCEPT !.pc = "dropSender"]
            /\ UNCHANGED chunks
       ELSE /\ chunks' = Tail(chunks)
            /\ backend' = IF stop
                          THEN [backend EXCEPT !.pc = "dropSender"]
                          ELSE [pc |-> "search", chunk |-> Head(chunks)]
    /\ UNCHANGED results /\ BackendKeepsRest

\* Score the chunk.  A failed accelerator is replaced by the CPU backend; if
\* that one cannot be built or admitted the thread returns with the chunk.
BackendSearch ==
    /\ backend.pc = "search"
    /\ \/ backend' = [backend EXCEPT !.pc = "send"]
       \/ /\ "search" \in setup.faults
          /\ backend' = [backend EXCEPT !.pc = "send", !.chunk.ok = FALSE]
       \/ /\ "rebuild" \in setup.faults
          /\ backend' = [backend EXCEPT !.pc = "dropSender"]
    /\ UNCHANGED <<chunks, results>> /\ BackendKeepsRest

\* Hand the scores over; a failure, or a reducer that is gone, is the end.
BackendSend ==
    /\ backend.pc = "send"
    /\ ReducerListens => Len(results) < setup.queueDepth
    /\ results' = IF ReducerListens THEN Append(results, backend.chunk)
                  ELSE results
    /\ backend' = [backend EXCEPT
           !.pc = IF ReducerListens /\ backend.chunk.ok THEN "recv"
                  ELSE "dropSender"]
    /\ UNCHANGED chunks /\ BackendKeepsRest

\* The thread returns: its parameters are dropped last to first, the result
\* sender before the chunk receiver with whatever is still queued in it.
BackendDropSender ==
    /\ backend.pc = "dropSender"
    /\ backend' = [backend EXCEPT !.pc = "dropQueue"]
    /\ UNCHANGED <<chunks, results>> /\ BackendKeepsRest

BackendDropQueue ==
    /\ backend.pc = "dropQueue"
    /\ backend' = IdleBackend
    /\ chunks' = <<>>
    /\ UNCHANGED results /\ BackendKeepsRest

BackendStep ==
    \/ BackendReceive \/ BackendSearch \/ BackendSend
    \/ BackendDropSender \/ BackendDropQueue

-----------------------------------------------------------------------------
(* The reducer, on the session's own thread.                               *)

\* reduce returns: the result receiver and the reorder map are dropped.
Return(outcome) ==
    /\ reducer' = [reducer EXCEPT !.pc = "cancel", !.outcome = outcome]
    /\ reorder' = {}
    /\ results' = <<>>

Goto(pc) == reducer' = [reducer EXCEPT !.pc = pc] /\ UNCHANGED <<reorder, results>>

ReducerKeepsRest ==
    UNCHANGED <<setup, score, sourceVars, invocations, session, producer, backend,
                chunks, commandsSent>>

\* Seeded fault: only the newest command is looked at.
StopRequested_LastOnly == inbox # <<>> /\ inbox[Len(inbox)] = "Stop"
\* A stop among the queued commands, wherever it stands, ends the search.
StopRequested == \E i \in DOMAIN inbox : inbox[i] = "Stop"

\* handle_control_commands: every queued command in order, then one write.
ReducerControl ==
    LET toggles == {i \in DOMAIN inbox : inbox[i] \in {"Pause", "Resume"}}
        paused == IF toggles = {} THEN reducer.paused
                  ELSE \E i \in toggles : inbox[i] = "Pause" /\ \A j \in toggles : j <= i
        status == IF toggles = {} THEN run.status
                  ELSE IF paused THEN "Paused" ELSE "Running"
    IN  /\ reducer.pc = "control"
        /\ inbox' = <<>>
        /\ run' = [run EXCEPT !.status = status]
        /\ \/ /\ row' = IF inbox = <<>> THEN row ELSE run'
              /\ stop' = (stop \/ StopRequested)
              /\ IF StopRequested
                 THEN Return("Interrupted")
                 ELSE /\ reducer' = [reducer EXCEPT
                            !.paused = paused,
                            !.pc = IF paused THEN "control" ELSE "recv"]
                      /\ UNCHANGED <<reorder, results>>
           \/ /\ "storage" \in setup.faults /\ inbox # <<>>
              /\ Return("Err")
              /\ UNCHANGED <<row, stop>>
        /\ UNCHANGED <<history, cancelled>>
        /\ ReducerKeepsRest

\* recv_timeout: a result, a timeout, or every sender gone.
ReducerReceive ==
    /\ reducer.pc = "recv"
    /\ IF results # <<>>
       THEN /\ reorder' = reorder \cup {Head(results)}
            /\ results' = Tail(results)
            /\ reducer' = [reducer EXCEPT !.pc = "drain"]
       ELSE IF ResultSenderGone
       THEN Goto("conclude")
       ELSE IF stop THEN Return("Interrupted") ELSE Goto("control")
    /\ UNCHANGED <<storeVars, run, stop, cancelled, inbox>>
    /\ ReducerKeepsRest

\* Take the result at the next offset out of the reorder map, if it is there.
ReducerDrain ==
    LET ready == {r \in reorder : r.start = reducer.next}
    IN  /\ reducer.pc = "drain"
        /\ IF ready = {}
           THEN Goto("control") /\ UNCHANGED stop
           ELSE LET result == CHOOSE r \in ready : TRUE
                IN  IF result.ok
                    THEN /\ reducer' = [reducer EXCEPT !.pc = "record",
                                                       !.chunk = result]
                         /\ reorder' = reorder \ {result}
                         /\ UNCHANGED <<results, stop>>
                    ELSE Return("Err") /\ stop' = TRUE
        /\ UNCHANGED <<storeVars, run, cancelled, inbox>>
        /\ ReducerKeepsRest

Improving == {o \in Windows(reducer.chunk) : score[o] > run.best}

\* Seeded fault: the last improvement of the chunk is taken first.
NextBest_Last == CHOOSE p \in Improving : \A q \in Improving : p >= q
NextBest == CHOOSE p \in Improving : \A q \in Improving : p <= q

\* record_new_bests, first half: the next improving window becomes the best
\* in memory and its event is inserted.
RecordEvent ==
    LET o == NextBest
    IN  /\ reducer.pc = "record"
        /\ Improving # {}
        /\ run' = [run EXCEPT
               !.best = score[o], !.bestAt = o,
               !.offset = o + 1,
               !.scanned = reducer.chunk.scanned + (o - reducer.chunk.start) + 1,
               !.top = Best(@ \cup {o})]
        /\ \/ /\ history' = Append(history, [offset |-> o, score |-> score[o]])
              /\ Goto("persist")
           \/ "storage" \in setup.faults /\ Return("Err") /\ UNCHANGED history
        /\ UNCHANGED <<row, stop, cancelled, inbox>>
        /\ ReducerKeepsRest

\* A perfect match ends the search unless it was told to keep going.
MatchEndsSearch == run.best >= PerfectScore /\ ~session.keepGoing

\* Second half: the row is rewritten; a perfect match ends the search.
PersistBest ==
    /\ reducer.pc = "persist"
    /\ \/ /\ row' = run
          /\ IF MatchEndsSearch
             THEN Return("PerfectFound") /\ stop' = TRUE
             ELSE Goto("record") /\ UNCHANGED stop
       \/ "storage" \in setup.faults /\ Return("Err") /\ UNCHANGED <<row, stop>>
    /\ UNCHANGED <<history, run, cancelled, inbox>>
    /\ ReducerKeepsRest

\* Seeded fault: the producer's progress is written, not the reducer's.
CheckpointOf_Producer(r) ==
    [row EXCEPT !.offset = producer.offset, !.scanned = producer.scanned,
                !.best = r.best, !.bestAt = r.bestAt]
\* What a periodic checkpoint writes: progress and best, not the top matches.
CheckpointOf(r) == [row EXCEPT !.offset = r.offset, !.scanned = r.scanned,
                               !.best = r.best, !.bestAt = r.bestAt]

\* Seeded fault: of the matches kept so far only the best stays.
MergedTop_OnlyNew(top, chunk) == Best(Windows(chunk)) \cup {o \in top : o = run.bestAt}
\* merge_chunk_top_matches: the chunk's own top matches join those kept so far.
MergedTop(top, chunk) == Best(top \cup Best(Windows(chunk)))

\* No window of the chunk improves any more: merge its top matches, move past
\* it, and checkpoint if the interval has elapsed.
AdvanceChunk ==
    LET next == reducer.next + reducer.chunk.windows
    IN  /\ reducer.pc = "record"
        /\ Improving = {}
        /\ run' = [run EXCEPT
               !.top = MergedTop(@, reducer.chunk),
               !.offset = next,
               !.scanned = reducer.chunk.scanned + reducer.chunk.windows]
        /\ \/ /\ row' \in {row, CheckpointOf(run')}
              /\ reducer' = [reducer EXCEPT !.pc = "drain", !.next = next]
              /\ UNCHANGED <<reorder, results>>
           \/ "storage" \in setup.faults /\ Return("Err") /\ UNCHANGED row
        /\ UNCHANGED <<history, stop, cancelled, inbox>>
        /\ ReducerKeepsRest

\* After the loop: why did the results end?  The queue counter is what the
\* budget's snapshot shows; generation memory may still be reserved too.
ReducerConclude ==
    /\ reducer.pc = "conclude"
    /\ IF stop THEN Return("Interrupted")
       ELSE IF setup.maxOffset # NoBound /\ run.offset >= setup.maxOffset
       THEN Return("MaxOffsetReached")
       ELSE IF setup.limit # NoBound /\ run.scanned - session.scanned >= setup.limit
       THEN Return("LimitReached")
       ELSE \/ QueueCurrent = 0 /\ Return("SourceExhausted")
            \/ QueueCurrent # 0 /\ Return("Err")
            \/ demand > published /\ Return("Err")
    /\ UNCHANGED <<storeVars, run, stop, cancelled, inbox>>
    /\ ReducerKeepsRest

\* The reducer has returned: generation waiters are cancelled in any case.
CancelWaiters ==
    /\ reducer.pc = "cancel"
    /\ cancelled' = TRUE
    /\ Goto("join")
    /\ UNCHANGED <<storeVars, run, stop, inbox>>
    /\ ReducerKeepsRest

\* Both threads are joined; an error of the producer replaces the outcome.
JoinThreads ==
    /\ reducer.pc = "join"
    /\ ProducerDone
    /\ backend.pc = "done"
    /\ reducer' = [reducer EXCEPT
           !.pc = IF producer.pc = "failed" \/ reducer.outcome = "Err"
                  THEN "off" ELSE "finish",
           !.outcome = IF producer.pc = "failed" THEN "Err" ELSE @]
    /\ UNCHANGED <<reorder, results, storeVars, run, stop, cancelled, inbox>>
    /\ ReducerKeepsRest

\* Only a match and an exhausted source are final; every other end is a pause.
FinalStatus == IF reducer.outcome \in {"PerfectFound", "SourceExhausted"}
               THEN reducer.outcome ELSE "Paused"

\* finish: the terminal status and everything else is written.
Finish ==
    /\ reducer.pc = "finish"
    /\ run' = [run EXCEPT !.status = FinalStatus]
    /\ \/ row' = run' /\ Goto("off")
       \/ /\ "storage" \in setup.faults
          /\ reducer' = [reducer EXCEPT !.pc = "off", !.outcome = "Err"]
          /\ UNCHANGED <<row, reorder, results>>
    /\ UNCHANGED <<history, stop, cancelled, inbox>>
    /\ ReducerKeepsRest

ReducerStep ==
    \/ ReducerControl \/ ReducerReceive \/ ReducerDrain
    \/ RecordEvent \/ PersistBest \/ AdvanceChunk
    \/ ReducerConclude \/ CancelWaiters \/ JoinThreads \/ Finish

-----------------------------------------------------------------------------
(* The outside: the front-end, the signal handler, the end of the process. *)

SendCommand(c) ==
    /\ Running
    /\ commandsSent < setup.maxCommands
    /\ inbox' = Append(inbox, c)
    /\ commandsSent' = commandsSent + 1
    /\ UNCHANGED <<setup, score, sourceVars, storeVars, invocations, session, run,
                   threadVars, stop, cancelled>>

Interrupt ==
    /\ Running
    /\ ~stop
    /\ stop' = TRUE
    /\ UNCHANGED <<setup, score, sourceVars, storeVars, invocations, session, run,
                   threadVars, cancelled, inbox, commandsSent>>

Crash ==
    /\ setup.crashes
    /\ Running
    /\ reducer' = IdleReducer
    /\ NoThreads
    /\ inbox' = <<>>
    /\ UNCHANGED <<setup, score, sourceVars, storeVars, invocations, session, run,
                   stop, cancelled, commandsSent>>

Environment ==
    \/ Start \/ Generate \/ Interrupt \/ Crash \/ ProducerSeesStop
    \/ \E c \in Commands : SendCommand(c)

Next == ProducerStep \/ BackendStep \/ ReducerStep \/ Environment

\* Every thread that can run does, and the generator, while it has a demand
\* it can meet, produces digits.
Fairness ==
    /\ WF_vars(ProducerStep)
    /\ WF_vars(BackendStep)
    /\ WF_vars(ReducerStep)
    /\ WF_vars(Generate)

Spec == Init /\ [][Next]_vars /\ Fairness

-----------------------------------------------------------------------------
(* Properties                                                              *)

ChunkType == [start : Nat, scanned : Nat, windows : Nat, ok : BOOLEAN]
RowType == [offset : Nat, scanned : Nat, best : 0..PerfectScore,
            bestAt : Offsets \cup {NoBound}, top : SUBSET Offsets,
            status : {"Paused", "Running", "PerfectFound", "SourceExhausted"}]
ReducerType ==
    [pc : {"off", "control", "recv", "drain", "record", "persist",
           "conclude", "cancel", "join", "finish"},
     paused : BOOLEAN, next : Nat, chunk : ChunkType,
     outcome : Finishes \cup {"none", "Err"}]
ProducerType ==
    [pc : {"prefetch", "check", "reserve", "send", "request", "waiting",
           "done", "failed"},
     offset : Nat, scanned : Nat, chunk : ChunkType, prefetched : Nat]
BackendType ==
    [pc : {"recv", "search", "send", "dropSender", "dropQueue", "done"},
     chunk : ChunkType]

TypeOK ==
    /\ setup \in Setups /\ score \in setup.tables
    /\ published \in 0..MaxDigits /\ demand \in Nat
    /\ generatorError \in BOOLEAN /\ stop \in BOOLEAN /\ cancelled \in BOOLEAN
    /\ row \in RowType /\ run \in RowType
    /\ history \in Seq([offset : Offsets, score : 0..PerfectScore])
    /\ invocations \in 0..setup.maxInvocations
    /\ session \in [offset : Nat, scanned : Nat, keepGoing : BOOLEAN]
    /\ reducer \in ReducerType /\ producer \in ProducerType /\ backend \in BackendType
    /\ reorder \subseteq ChunkType
    /\ chunks \in Seq(ChunkType) /\ results \in Seq(ChunkType)
    /\ inbox \in Seq(Commands) /\ commandsSent \in 0..setup.maxCommands

\* Whatever a crash, a stop or an error leaves in the row, the best match it
\* names is at least as good as every window before its offset, so a resumed
\* run, which starts there, never misses a better one.
ResumeMissesNothing ==
    \A o \in 0..(row.offset - 1) : score[o] <= row.best

\* The row's best match is a window that was really scanned, with its score,
\* and the history shows the event: it is written before the row.
BestIsOnRecord ==
    row.bestAt # NoBound =>
        /\ row.bestAt < row.offset
        /\ row.best = score[row.bestAt]
        /\ \E i \in DOMAIN history :
               history[i] = [offset |-> row.bestAt, score |-> row.best]

\* The scanned count a row reports is its offset: over any sequence of stops,
\* crashes and resumes no window is counted twice and none is left out.
ScannedIsOffset == row.scanned = row.offset

\* Between the reducer and the producer nothing is lost, repeated or swapped:
\* while the reducer collects and the backend serves, the chunks in flight tile
\* exactly the windows from the reducer's next one to the producer's next one.
InFlightTiles ==
    reducer.pc \in {"control", "recv", "drain", "record", "persist"}
      /\ backend.pc \in {"recv", "search", "send"} =>
        /\ (UNION {Windows(c) : c \in InFlight}) \cap 0..(producer.offset - 1)
              = reducer.next..(producer.offset - 1)
        /\ \A c, d \in InFlight : c # d => Windows(c) \cap Windows(d) = {}

\* The bounds are exact: a run that reports its limit has scanned exactly that
\* many windows in this invocation, and no window at or past max_offset is
\* ever scored.
BoundsExact ==
    /\ reducer.outcome = "LimitReached" => run.scanned - session.scanned = setup.limit
    /\ setup.maxOffset # NoBound =>
          \A c \in InFlight : c.start + c.windows <= Larger(setup.maxOffset, session.offset)

\* A source is only called exhausted when every window it holds was scanned
\* (unless a lost accelerator could not be replaced: its error is dropped).
ExhaustedMeansScanned ==
    "rebuild" \notin setup.faults /\ row.status = "SourceExhausted"
        => row.offset + WindowLen > published

\* The threads agree on what is on its way: well-formed state, and chunks in
\* flight that tile the windows between reducer and producer.
PipelineInvariant == TypeOK /\ InFlightTiles

\* What a crash, a stop or an error leaves in the database is sound: the best
\* is a real one, its event is on record, nothing better was passed over and
\* every window counted once.
RowIsSound == ResumeMissesNothing /\ BestIsOnRecord /\ ScannedIsOffset

\* Without an injected failure a search over a finite source never ends in an
\* error: whatever is stopped when, the budget drains and the threads agree.
EndsWithoutError ==
    setup.faults = {} /\ ~setup.growing => reducer.outcome # "Err"

\* The top matches are the best windows of everything scanned so far, ties to
\* the earlier window, whatever the chunking, over any number of stops and
\* resumes.  A perfect match ends the search before its own chunk is merged, and
\* a checkpoint holds no matches: so an invocation must not go on from a match
\* that ended another one, nor from what an error or a crash left.
TopMatchesExact ==
    setup.faults = {} /\ ~setup.crashes /\ ~setup.growing
      /\ setup.keepGoing # BOOLEAN
      /\ reducer.pc \in {"control", "recv", "drain", "cancel", "join", "finish", "off"}
      /\ reducer.outcome \notin {"PerfectFound", "Err"}
        => run.top = Best(0..(run.offset - 1))

\* What a search found is what there was to find, in the row and in the matches
\* it shows.
ResultsAreSound == RowIsSound /\ TopMatchesExact

\* The run implements the sequential scan: whatever the threads do, the row's
\* writes are those of one reader that goes through the windows in order.
Scan == INSTANCE SequentialScan
            WITH ScoreTables <- UNION {s.tables : s \in Setups},
                 KeepGoingChoices <- UNION {s.keepGoing : s \in Setups},
                 offset <- row.offset, scanned <- row.scanned, best <- row.best,
                 bestAt <- row.bestAt, status <- row.status
ScansSequentially == Scan!Spec

\* A perfect match ends the run for good: a search that was not told to go on,
\* that started where no perfect match had been seen and that comes to an end of
\* its own is marked as having found one exactly if it scanned one.
PerfectMatchEndsRun ==
    reducer.pc = "off" /\ reducer.outcome \in Finishes /\ ~session.keepGoing
      /\ (\A o \in 0..(session.offset - 1) : score[o] < PerfectScore)
        => (row.status = "PerfectFound"
               <=> \E o \in 0..(row.offset - 1) : score[o] >= PerfectScore)

\* A search ends for the reason it reports: its limit, an exhausted source, a
\* perfect match, and an error only if something failed.
EndsForItsReason ==
    BoundsExact /\ ExhaustedMeansScanned /\ PerfectMatchEndsRun /\ EndsWithoutError

\* A search that was told to stop, or that found its match, and whose process
\* then ends by itself, leaves a row that is not marked running.
StopLeavesResumableRun ==
    reducer.pc = "off" /\ stop => row.status # "Running"

\* A stop command ends the search, paused or not, waiting for digits or not.
StopCommandEndsSearch ==
    (\E i \in DOMAIN inbox : inbox[i] = "Stop") ~> ~Running

\* Left alone, a search over a finite source or with a bound comes to an end.
SearchEnds == (Running /\ ~reducer.paused) ~> (~Running \/ reducer.paused)

\* No thread keeps a search from its end, be it of its own or on command.
SearchComesToItsEnd == SearchEnds /\ StopCommandEndsSearch
=============================================================================
