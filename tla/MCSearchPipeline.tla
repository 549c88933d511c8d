-------------------------- MODULE MCSearchPipeline --------------------------
(***************************************************************************)
(* Score tables and setups for the instances of SearchPipeline.            *)
(***************************************************************************)
EXTENDS SearchPipeline

\* A table from the scores of the first windows; the others score nothing.
Table(scores) == [o \in Offsets |-> IF o < Len(scores) THEN scores[o + 1] ELSE 0]

\* Improvements inside one chunk and across chunks, ties, a best window that
\* comes first, and none at all.
ImperfectTables ==
    {Table(<<1, 2, 1, 3, 0>>), Table(<<2, 0, 2, 1, 1>>)}

\* Windows of the perfect score: twice in a row, in the last chunk.
PerfectTables ==
    {Table(<<0, 1, 4, 4, 1>>), Table(<<0, 0, 1, 0, 4>>)}

\* For the runs about control, where only a match or its absence matters.
FewTables == {Table(<<0, 1, 0, 1, 2>>), Table(<<0, 0, 1, 4, 0>>)}

AllTables == ImperfectTables \cup PerfectTables

\* A finite source that is stopped, paused and resumed at will.
Finite ==
    [chunkWindows |-> 2, queueDepth |-> 2, limit |-> NoBound, maxOffset |-> NoBound,
     growing |-> FALSE, accelerator |-> FALSE, initialDigits |-> 6, tables |-> AllTables,
     keepGoing |-> {FALSE}, faults |-> {}, crashes |-> FALSE,
     maxCommands |-> 2, maxInvocations |-> 2]
\* The same with crashes and failing calls; perfect matches may be passed over.
Failing ==
    [Finite EXCEPT !.keepGoing = {TRUE, FALSE}, !.faults = {"storage", "search", "source"},
                   !.crashes = TRUE, !.maxCommands = 1]
\* A bounded search on an accelerator over a source that grows as it is read.
Growing ==
    [Finite EXCEPT !.growing = TRUE, !.accelerator = TRUE, !.initialDigits = 2,
                   !.limit = 3, !.maxOffset = 4, !.tables = FewTables,
                   !.faults = {"generator"}, !.maxCommands = 1]
\* An endless search that is stopped while it waits for digits.
Endless ==
    [Finite EXCEPT !.queueDepth = 1, !.growing = TRUE, !.initialDigits = 2,
                   !.tables = FewTables, !.maxCommands = 1, !.maxInvocations = 1]

SafetySetups == {Finite, Failing, Growing}
EndlessSetups == {Endless}
=============================================================================
