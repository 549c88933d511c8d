---------------------------- MODULE MCGeneration ----------------------------
(***************************************************************************)
(* Two sides of the generation of digits in one model: what a producer     *)
(* owes its callers (PiProducer), and how a pi generate command chooses    *)
(* and runs its generator (GenerateCommand).  The first knows the cache as *)
(* a count that grows, the second knows no callers, so they share no state,*)
(* and each behaviour is one of one side.                                  *)
(***************************************************************************)
EXTENDS PiProducer, TLC

CONSTANTS
    None,
    Requests, FirstFiles, FirstDigits,  \* those of GenerateCommand
    MaxReplacements, MaxForeign

VARIABLES
    side, request, files, replacements, text, foreign, generate, output

commandVars == <<request, files, replacements, text, foreign, generate, output>>

\* Every choice of backend, with a path and without, on hosts with y-cruncher
\* in one place, in both or in none.
MCRequests == [backend : {"cpu", "y-cruncher", "auto"}, preferred : BOOLEAN, digits : {2}]
MCFirstFiles == {"missing", "y-cruncher"}

Generate == INSTANCE GenerateCommand WITH cache <- text, command <- generate

ASSUME CommandAssumption == Generate!CommandConstants

MCInit ==
    /\ Init
    /\ side \in {"producer", "command"}
    /\ Generate!Init
    /\ side # "command" =>
           /\ request = CHOOSE r \in Requests : r.backend = "cpu"
           /\ \A path \in Generate!Paths : files[path].content = "missing"
           /\ text = <<>>

MCNext ==
    \/ side = "producer" /\ Next /\ UNCHANGED <<side, commandVars>>
    \/ side = "command" /\ Generate!Next /\ UNCHANGED <<side, vars>>

\* The fairness of PiProducer, on its side.
MCFairness ==
    /\ \A c \in Callers : WF_vars(side = "producer" /\ CallerStep(c))
    /\ WF_vars(side = "producer" /\ WorkerStep)
    /\ WF_vars(side = "producer" /\ ResumeProducer)

MCSpec == MCInit /\ [][MCNext]_<<side, vars, commandVars>> /\ MCFairness

\* A pi generate command runs what it validated, falls back only where it
\* may, and accounts for every digit it added (GenerateCommand).
CommandInvariant == side = "command" => Generate!CommandInvariant
=============================================================================
