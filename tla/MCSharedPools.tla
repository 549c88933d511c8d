--------------------------- MODULE MCSharedPools ---------------------------
(***************************************************************************)
(* Small instances of what the threads of a search share.                  *)
(***************************************************************************)
EXTENDS SharedPools, TLC

CONSTANTS t1, t2, s1, s2

d == "digit"

\* The 3. prefix; two threads share one slot, and files fail to open, to seek
\* and to be read.
Contended ==
    [threads |-> {t1, t2}, slots |-> {s1},
     files |-> {<<d, "point", d>>},
     maxReadLen |-> 2, faults |-> TRUE, retry |-> TRUE]
\* Each slot keeps what the other thread's reads left behind.
Paired ==
    [threads |-> {t1, t2}, slots |-> {s1, s2}, files |-> {<<d, "space", d>>},
     maxReadLen |-> 1, faults |-> FALSE, retry |-> TRUE]
\* Texts, and 314x, 3.1.4, a point without a prefix, 31x4; the search stops at
\* the first error.
Damaged ==
    [threads |-> {t1}, slots |-> {s1},
     files |-> {<<d, d, d, d, d>>, <<d, "space", d, d, "space">>, <<"space">>,
                <<d, "point", d, d>>, <<d, d, d, "bad">>,
                <<d, "point", d, "point", d>>, <<"point", d>>, <<d, d, "bad", d>>},
     maxReadLen |-> 3, faults |-> TRUE, retry |-> FALSE]

MCSetups == {Contended, Paired, Damaged}

ReadOf(offset, len) == [offset |-> offset, len |-> len]
\* Reads that overlap, go back, skip and pass the end; the file grows under
\* them, by digits, and with the point of its prefix.
Shared ==
    [texts |-> {<<<<d, "space", d, d>>, <<d, "space", d, d, d>>>>,
                <<<<d, "point", d>>, <<d, "point", d, "space", d>>>>},
     allow_decimal_prefix |-> TRUE, imports |-> FALSE, faults |-> FALSE,
     reads |-> {ReadOf(0, 1), ReadOf(1, 2), ReadOf(2, 2), ReadOf(3, 1)}]
\* Imports of texts that are valid, become so, or become invalid; a second point,
\* and a point that is not allowed.
Imported ==
    [texts |-> {<<<<d, d>>, <<d, d, d>>>>, <<<<d, d>>, <<d, d, "bad">>>>,
                <<<<>>, <<d>>>>, <<<<d, "point", d, "point">>>>},
     allow_decimal_prefix |-> TRUE, imports |-> TRUE, faults |-> TRUE,
     reads |-> {ReadOf(1, 1)}]
Undisturbed == [Imported EXCEPT !.faults = FALSE]
Unwanted == [Undisturbed EXCEPT !.texts = {<<<<d, "point", d>>>>}, !.allow_decimal_prefix = FALSE]

MCFileSetups ==
    UNION {{[set EXCEPT !.texts = texts] : texts \in set.texts} :
           set \in {Shared, Imported, Undisturbed, Unwanted}}
MCEarlier == <<-1, -2>>

\* The sides that rest are in one state only.
MCInit ==
    /\ PoolsInit
    /\ side # "readers" =>
           setup = Paired /\ available = <<s1, s2>>
    /\ side # "file" =>
           source = [Shared EXCEPT !.texts = <<<<d, "space", d, d>>, <<d, "space", d, d, d>>>>]

MCSpec == MCInit /\ [][PoolsNext]_poolsVars /\ PoolsFairness
=============================================================================
