--------------------------- MODULE MCCacheGrowth ---------------------------
(* Searches and commands that make one cache longer, for CacheGrowth alone. *)
EXTENDS CacheGrowth, TLC

CONSTANTS s1, s2, c1

\* Two searches that import what an external program computed, and a command.
Importers ==
    [backend |-> (s1 :> "ycruncher" @@ s2 :> "ycruncher"), commands |-> {c1},
     maxDigits |-> 3, maxEpochs |-> 2, maxFaults |-> 1]
\* One search with the resident generator.
Resident ==
    [backend |-> (s1 :> "spigot" @@ s2 :> "none"), commands |-> {},
     maxDigits |-> 5, maxEpochs |-> 3, maxFaults |-> 0]
\* One search with the built-in generator, and a command.
BuiltIn ==
    [backend |-> (s1 :> "chudnovsky" @@ s2 :> "none"), commands |-> {c1},
     maxDigits |-> 5, maxEpochs |-> 2, maxFaults |-> 1]
GuardedSetups == {Importers, Resident, BuiltIn}

\* Two writers that do not know of each other.
SessionAndCommand == {[BuiltIn EXCEPT !.maxDigits = 4, !.maxFaults = 0]}

FairSpec == Spec /\ Fairness
=============================================================================
