---------------------------- MODULE MCSearchLive ----------------------------
(***************************************************************************)
(* What moves a search on, in one model: its threads, when every chunk is  *)
(* answered (SearchPipeline); when a chunk may be handed to the accelerator *)
(* (DutyPolicy); and how it is scored there (GpuRing).  They share no      *)
(* state: a behaviour is one of one side, the others rest.                 *)
(***************************************************************************)
EXTENDS GpuRing

CONSTANTS
    Percent, WindowMs, Dispatches, Gaps, MaxTime,
    WindowLen, TopN, NoBound, MaxDigits, PerfectScore

VARIABLES
    side,
    now, dutyPc, tokens, lastRefill, steadyStart, steadyActive, allActive,
    maxDispatch, totalWait,
    setup, score, published, demand, generatorError, row, history, invocations,
    session, run, reducer, reorder, producer, backend, chunks, results, stop,
    cancelled, inbox, commandsSent

dutyVars == <<now, dutyPc, tokens, lastRefill, steadyStart, steadyActive,
              allActive, maxDispatch, totalWait>>
searchVars == <<setup, score, published, demand, generatorError, row, history,
                invocations, session, run, reducer, reorder, producer, backend,
                chunks, results, stop, cancelled, inbox, commandsSent>>

\* Quick chunks, the 150 ms of the unit test, and whole windows.
MCShort == {150, 700, 1000}
MCGaps == {0, 333}

Duty == INSTANCE DutyPolicy WITH pc <- dutyPc
ASSUME PolicyAssumption == Duty!PolicyConstants

\* One bounded search, which finds a match at once or none, whose backend may be lost when it is
\* rebuilt, over a source that grows as it is read.
Bound ==
    [chunkWindows |-> 1, queueDepth |-> 2, limit |-> 2, maxOffset |-> NoBound,
     growing |-> TRUE, accelerator |-> FALSE, initialDigits |-> 2,
     tables |-> {[o \in 0..MaxDigits-1 |-> IF o = 0 THEN best ELSE IF o = 1 THEN 1 ELSE 0] :
                    best \in {0, PerfectScore}},
     keepGoing |-> {FALSE}, faults |-> {"rebuild"}, crashes |-> FALSE,
     maxCommands |-> 1, maxInvocations |-> 1]
\* One window, for which digits have to be generated, and two commands.
OneWindow == [Bound EXCEPT !.limit = 1, !.initialDigits = 1, !.maxCommands = 2]
MCSetups == {Bound, OneWindow}

Search == INSTANCE SearchPipeline WITH Setups <- MCSetups

MCInit ==
    /\ side \in {"duty", "ring", "search"}
    /\ Init /\ Duty!Init /\ Search!Init
    /\ side # "search" => setup = Bound /\ score[0] = PerfectScore

MCNext ==
    \/ side = "duty" /\ Duty!Next /\ UNCHANGED <<side, vars, searchVars>>
    \/ side = "ring" /\ Next /\ UNCHANGED <<side, dutyVars, searchVars>>
    \/ side = "search" /\ Search!Next /\ UNCHANGED <<side, dutyVars, vars>>

\* The fairness of GpuRing and of SearchPipeline, each on its side.
MCFairness ==
    /\ WF_vars(side = "ring" /\ Host)
    /\ WF_vars(side = "ring" /\ DeviceStep)
    /\ WF_searchVars(side = "search" /\ Search!ProducerStep)
    /\ WF_searchVars(side = "search" /\ Search!BackendStep)
    /\ WF_searchVars(side = "search" /\ Search!ReducerStep)
    /\ WF_searchVars(side = "search" /\ Search!Generate)

MCSpec == MCInit /\ [][MCNext]_<<side, dutyVars, vars, searchVars>> /\ MCFairness

\* The properties of DutyPolicy, stated there: busy time and waits are bounded.
SteadyRatioIsBounded == Duty!SteadyRatioIsBounded
WaitIsBounded == Duty!WaitIsBounded
\* The properties of SearchPipeline, stated there: a bounded search ends, and so
\* does one that is told to stop.
SearchComesToItsEnd == side = "search" => Search!SearchComesToItsEnd
=============================================================================
