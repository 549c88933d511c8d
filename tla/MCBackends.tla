----------------------------- MODULE MCBackends -----------------------------
(***************************************************************************)
(* What makes the backends interchangeable, in one model: which backend a  *)
(* run is given from start to resume (RunSettings), that each of them finds *)
(* the same match in a window (EmergenceScan), and that a chunk's answer is *)
(* the same from each of them, failing or wrong (WindowScores).  They share *)
(* no state: a behaviour is one of one side, the others rest.              *)
(***************************************************************************)
EXTENDS EmergenceScan

CONSTANTS None, AutoMin, SettingsSetups, Digits, Searches

VARIABLES
    side, setup, host, probed, run, phase, live, resolved, engine, keys, answer,
    chosen, toggled, defaulted, emptied,
    search, pooled, active, scores, reply

settingsVars == <<setup, host, probed, run, phase, live, resolved, engine, keys,
                  answer, chosen, toggled, defaulted, emptied>>
chunkVars == <<search, pooled, active, scores, reply>>

\* The hosts, selections and options, and the settings run with them.
Sets == INSTANCE MCRunSettings WITH SettingsSetups <- <<>>
MCSettings == Sets!AllSettings
Settings == INSTANCE RunSettings
ASSUME SettingsAssumption == Settings!SettingsConstants

Exact == INSTANCE EmergenceScore
MCScore == [c \in Counts |-> Exact!EmergenceScoreOf(c[1], c[2])]

\* Every window of so many candidates, by its counts.
MCWindows == {w \in [1..Candidates -> Counts] : \E i \in 1..Candidates : w[i][1] > 0}

\* Targets with and without background, as wide as the canvas or not, or
\* without a shape; chunks of two windows; ties between digits and placements.
Bar == [width |-> 2, height |-> 1, pixels |-> <<1, 0>>]
Stroke == [width |-> 1, height |-> 2, pixels |-> <<1, 1>>]
Corner == [width |-> 2, height |-> 2, pixels |-> <<1, 0, 0, 1>>]
Blank == [width |-> 2, height |-> 1, pixels |-> <<0, 0>>]
Palindromes == {t \in [1..7 -> 0..2] : \A i \in 1..3 : t[i] = t[8 - i]}
Chunks(target, width, height, mode, inverts, texts) ==
    [target : {target}, canvas_width : {width}, canvas_height : {height}, mode : {mode},
     threshold : {1}, invert : inverts, digits : texts]
MCSearches ==
    UNION {Chunks(Bar, 3, 2, "emergence", {FALSE}, Palindromes),
           Chunks(Bar, 2, 2, "emergence", {FALSE}, [1..5 -> {0, 1}]),
           Chunks(Stroke, 2, 2, "emergence", {FALSE}, [1..5 -> {0, 2}]),
           Chunks(Corner, 2, 2, "emergence", {FALSE}, [1..5 -> {1, 2}]),
           Chunks(Blank, 2, 2, "emergence", {FALSE}, {<<0, 1, 2, 1, 0>>}),
           Chunks(Corner, 2, 2, "threshold", BOOLEAN, [1..5 -> {0, 1}])}
Chunk == INSTANCE WindowScores
ASSUME SearchesAssumption == Chunk!SearchesConstants
RestingChunk == CHOOSE s \in Searches : TRUE

MCInit ==
    /\ side \in {"scan", "settings", "chunk"}
    /\ Init
    /\ side # "scan" => window = [i \in 1..Candidates |-> <<1, 0>>]
    /\ Settings!Init
    /\ side # "settings" => setup = "keys" /\ host = Sets!NoHost
    /\ Chunk!Init
    /\ side # "chunk" => search = RestingChunk /\ pooled /\ active = "cpu"

MCNext ==
    \/ side = "scan" /\ Next /\ UNCHANGED <<side, settingsVars, chunkVars>>
    \/ side = "settings" /\ Settings!Next /\ UNCHANGED <<side, vars, chunkVars>>
    \/ side = "chunk" /\ Chunk!Next /\ UNCHANGED <<side, vars, settingsVars>>

MCSpec == MCInit /\ [][MCNext]_<<side, vars, settingsVars, chunkVars>>

-----------------------------------------------------------------------------
(* Properties.                                                             *)

\* A hunt stops at a score of one: no window has it but one whose best digit
\* covers the whole shape and leaks nothing, and every such window has it.
OneMeansPerfect ==
    LET perfect == \E i \in Scanned : window[i] = <<Shape, 0>>
    IN  cpu.score = Exact!One <=> perfect

\* The documented sense of the score: of two digits that cover the shape
\* alike the one that leaks less is taken.
LeakageCosts ==
    position = Candidates =>
        \A i \in Scanned :
            window[i][1] = cpu.covered => window[i][2] >= cpu.leaked

\* What the score means: one is a perfect digit, and leakage is a loss; and
\* every window of a chunk has the score the reference gives it, whichever
\* backend computed it (WindowScores).
ScoreIsSound ==
    /\ side = "scan" => OneMeansPerfect /\ LeakageCosts
    /\ side = "chunk" => Chunk!ChunkInvariant

\* The properties of RunSettings, stated there: every run can be resumed.
RunsResume == side = "settings" => Settings!RunsResume
\* What was asked for is what runs.
ChoicesAreHonoured == side = "settings" => Settings!ChoicesAreHonoured
=============================================================================
