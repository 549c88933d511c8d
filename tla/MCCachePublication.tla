------------------------ MODULE MCCachePublication -------------------------
(***************************************************************************)
(* Texts, ranges and setups for the instances of CachePublication.         *)
(***************************************************************************)
EXTENDS CachePublication

AppendBatches == {<<3>>, <<4, 5>>}
\* A continuation of the initial text, one of another text, one that is short.
OfferedTexts == {<<1, 2, 3, 4>>, <<1, 3, 4>>, <<1>>}
\* Imports of the same length, longer, and sharing the prefix.
ImportedTexts == {<<6, 7>>, <<1, 2, 8>>}
TwoRanges == {[offset |-> 0, length |-> 2], [offset |-> 1, length |-> 2]}

\* Writers of every kind, one of which may die, and plain repairs.
Writers ==
    [initial |-> <<1, 2>>, appends |-> AppendBatches, continuations |-> OfferedTexts,
     imports |-> ImportedTexts, repairs |-> {FALSE}, ranges |-> {},
     maxWrites |-> 4, maxFaults |-> 1, maxDamage |-> 0]
\* A reader beside them.
WithReader ==
    [Writers EXCEPT !.appends = {<<3, 4>>}, !.continuations = {}, !.ranges = TwoRanges,
                    !.maxWrites = 3]
\* A cache that starts empty and is never imported; several writers may die.
OnlyGrowing ==
    [Writers EXCEPT !.initial = NoText, !.imports = {}, !.maxFaults = 3]
\* An import of another length, appends and repairs: three of them die.
Deaths ==
    [Writers EXCEPT !.appends = {<<3>>}, !.continuations = {}, !.imports = {<<6>>},
                    !.maxWrites = 6, !.maxFaults = 3]
\* The same where there is no cache at first.
FromNothing ==
    [Deaths EXCEPT !.initial = NoText]
\* The raw file loses a digit, and repairs may be forced.
Damaged ==
    [Deaths EXCEPT !.appends = {<<3, 4>>}, !.repairs = {TRUE, FALSE},
                   !.maxWrites = 5, !.maxFaults = 2, !.maxDamage = 1]

MCSetups == {Writers, WithReader, OnlyGrowing, Deaths, FromNothing, Damaged}
=============================================================================
