--------------------------- MODULE GenerateCommand ---------------------------
(***************************************************************************)
(* One pi generate command: which generator it takes, how it launches an   *)
(* external program and takes in what the program wrote, and how it falls  *)
(* back on the built-in generator.  Meanwhile executables are replaced and *)
(* another process appends to the cache.                                   *)
(*                                                                         *)
(* The digit at position k of pi is written k, a wrong digit 0 and a byte  *)
(* that is no digit -1, so a text of pi reads 1, 2, 3, ...  How an append  *)
(* is published is the business of CachePublication; here it is one step.  *)
(***************************************************************************)
EXTENDS Integers, Sequences

CONSTANTS
    Requests,         \* [backend, preferred: whether a path is given, digits]
    FirstFiles,       \* what may stand at each path in the beginning
    FirstDigits,      \* how many digits the cache may hold in the beginning
    MaxReplacements,  \* bound: executables replaced
    MaxForeign,       \* bound: digits another process appends
    None

Programs == {"y-cruncher", "other"}
Contents == {"missing", "plain"} \cup Programs
Paths == {"preferred", "found"}
Executable == [content : Contents, version : Nat]

CommandConstants ==
    /\ Requests \subseteq [backend : {"cpu", "y-cruncher", "auto"}, preferred : BOOLEAN, digits : Nat]
    /\ FirstFiles \subseteq Contents
    /\ FirstDigits \subseteq Nat
    /\ MaxReplacements \in Nat /\ MaxForeign \in Nat
    /\ None \notin Executable \cup Paths \cup {"cpu", "y-cruncher"}

VARIABLES
    request,
    files,    \* at each path its content and its version, which is its identity
    replacements,
    cache,    \* the published digits
    foreign,  \* how many of them another process appended
    command,
    output    \* the candidates in the temporary directory, or None: no directory

vars == <<request, files, replacements, cache, foreign, command, output>>

\* The positions from a + 1 to b, in order.
Run(a, b) == [k \in 1..(IF b > a THEN b - a ELSE 0) |-> a + k]
Bad == <<-1>>
IsDigits(text) == text # Bad

Init ==
    /\ request \in Requests
    /\ files \in [Paths -> [content : FirstFiles, version : {0}]]
    /\ replacements = 0
    /\ \E n \in FirstDigits : cache = Run(0, n)
    /\ foreign = 0
    /\ command = [pc |-> "resolve", selected |-> None, path |-> None, validated |-> None,
                  start |-> 0, target |-> 0, existing |-> 0, launched |-> None,
                  raced |-> FALSE, retried |-> FALSE, added |-> 0, reported |-> 0,
                  failures |-> {}]
    /\ output = None

KeepsWorld == UNCHANGED <<request, files, replacements, foreign>>

-----------------------------------------------------------------------------
(* The choice.                                                             *)

\* ValidatedYCruncher::parse succeeds.
Valid(path) == files[path].content \in Programs
FirstValid(paths) ==
    IF \E i \in DOMAIN paths : Valid(paths[i])
    THEN paths[CHOOSE i \in DOMAIN paths :
                  Valid(paths[i]) /\ \A j \in 1..(i - 1) : ~Valid(paths[j])]
    ELSE None

\* Seeded fault: an explicit path that is of no use is made up for by a search.
Candidates_AlwaysSearch ==
    CASE request.backend = "cpu" -> <<>>
      [] request.preferred -> <<"preferred", "found">>
      [] OTHER -> <<"found">>
\* Where an external generator is looked for.  Only auto goes on searching
\* after a path that was given.
Candidates ==
    CASE request.backend = "cpu" -> <<>>
      [] request.backend = "y-cruncher" /\ request.preferred -> <<"preferred">>
      [] request.backend = "auto" /\ request.preferred -> <<"preferred", "found">>
      [] OTHER -> <<"found">>

\* resolve_generator, and the command that gives up at once.
Resolve ==
    /\ command.pc = "resolve"
    /\ LET path == FirstValid(Candidates)
       IN  command' =
             IF path # None
             THEN [command EXCEPT !.pc = "generate", !.selected = "y-cruncher",
                                  !.path = path, !.validated = files[path],
                                  !.start = Len(cache)]
             ELSE IF request.backend = "y-cruncher" THEN [command EXCEPT !.pc = "failed"]
             ELSE [command EXCEPT !.pc = "generate", !.selected = "cpu", !.start = Len(cache)]
    /\ UNCHANGED <<cache, output>>
    /\ KeepsWorld

-----------------------------------------------------------------------------
(* What becomes of a failure: auto tries once more, with the built-in one. *)

Failed(reason, late) ==
    IF request.backend = "auto" /\ ~command.retried
    THEN [command EXCEPT !.pc = "generate", !.selected = "cpu", !.retried = TRUE,
                         !.failures = @ \cup {reason}, !.added = @ + late]
    ELSE [command EXCEPT !.pc = "failed", !.failures = @ \cup {reason}, !.added = @ + late]
Done(command0, generated) ==
    [command0 EXCEPT !.pc = "done", !.reported = generated, !.added = @ + generated]

\* The built-in generator, under the writer lock from the count to the append.
\* It may fail with some of its digits published.
BuiltIn ==
    /\ command.pc = "generate" /\ command.selected = "cpu"
    /\ \E n \in 0..request.digits :
          /\ cache' = cache \o Run(Len(cache), Len(cache) + n)
          /\ \/ n = request.digits /\ command' = Done(command, n)
             \/ command' = Failed("built-in", n)
    /\ UNCHANGED output
    /\ KeepsWorld

\* builtin_selection fails, in the choice or after a failure: it reads the
\* executable of the command itself.
SelectionFails ==
    /\ command.pc = "generate" /\ command.selected = "cpu"
    /\ command' = [command EXCEPT !.pc = "failed", !.failures = @ \cup {"selection"}]
    /\ UNCHANGED <<cache, output>>
    /\ KeepsWorld

-----------------------------------------------------------------------------
(* The external generator.                                                 *)

Target ==
    /\ command.pc = "generate" /\ command.selected = "y-cruncher"
    /\ command' = [command EXCEPT !.pc = "count", !.target = Len(cache) + request.digits]
    /\ UNCHANGED <<cache, output>>
    /\ KeepsWorld

\* Seeded fault: the program is trusted since it was chosen.
Revalidates_Never == TRUE
\* revalidate: the file is there, runs, and is the one that was validated.
Revalidates == Valid(command.path) /\ files[command.path] = command.validated

Count ==
    /\ command.pc = "count"
    /\ command' =
         IF Len(cache) >= command.target THEN Done(command, 0)
         ELSE IF ~Revalidates THEN Failed("executable_changed", 0)
         ELSE [command EXCEPT !.pc = "launch", !.existing = Len(cache)]
    /\ UNCHANGED <<cache, output>>
    /\ KeepsWorld

\* A file that does not run leaves the directory made for it behind.
Launch ==
    /\ command.pc = "launch"
    /\ output' = <<>>
    /\ command' =
         IF Valid(command.path)
         THEN [command EXCEPT !.pc = "running", !.launched = files[command.path]]
         ELSE Failed("process_failed", 0)
    /\ UNCHANGED cache
    /\ KeepsWorld

\* What a program may leave: y-cruncher the digits asked for, and another file
\* before or after them; another program whatever it likes.
Whole == Run(0, command.target)
Outputs ==
    IF command.launched.content = "y-cruncher"
    THEN {<<Whole>>, <<Bad, Whole>>, <<Run(0, command.existing), Whole>>}
    ELSE {<<>>, <<Bad>>, <<<<0>> \o Whole>>, <<Whole \o <<0>>>>}

\* Seeded fault: the files of a program that failed are kept.
ProgramFails_KeepsFiles ==
    /\ command.pc = "running"
    /\ command' = Failed("process_failed", 0)
    /\ UNCHANGED <<cache, output>>
    /\ KeepsWorld
ProgramFails ==
    /\ command.pc = "running"
    /\ command' = Failed("process_failed", 0)
    /\ output' = None
    /\ UNCHANGED cache
    /\ KeepsWorld

ProgramEnds ==
    /\ command.pc = "running"
    /\ command' = [command EXCEPT !.pc = "import"]
    /\ output' \in Outputs
    /\ UNCHANGED cache
    /\ KeepsWorld

\* The first file of digits that has more of them than the cache had.
Usable == {i \in DOMAIN output : IsDigits(output[i]) /\ Len(output[i]) > command.existing}
Chosen == output[CHOOSE i \in Usable : \A j \in Usable : i <= j]

\* append_from_validated_source accepts a text that begins with the cache.
Continues(text) == Len(text) >= Len(cache) /\ SubSeq(text, 1, Len(cache)) = cache

\* import_output, and the removal of the directory.  An append may fail before
\* anything is published, or after: its last step is to flush a directory.
Import ==
    /\ command.pc = "import"
    /\ output' = None
    /\ \/ /\ Usable = {}
          /\ command' = Failed("output_invalid", 0)
          /\ UNCHANGED cache
       \/ /\ Usable # {}
          /\ command' = Failed("import_failed", 0)
          /\ UNCHANGED cache
       \/ /\ Usable # {} /\ Continues(Chosen)
          /\ LET grown == Len(Chosen) - Len(cache)
             IN  command' \in {Done(command, grown), Failed("import_failed", grown)}
          /\ cache' = Chosen
    /\ KeepsWorld

-----------------------------------------------------------------------------
(* The world.                                                              *)

Over == command.pc \in {"done", "failed"}

\* Another file is put in the place of an executable.
Replace(path) ==
    /\ ~Over
    /\ replacements < MaxReplacements
    /\ replacements' = replacements + 1
    /\ \E content \in Contents :
           files' = [files EXCEPT ![path] = [content |-> content, version |-> replacements + 1]]
    /\ command' = [command EXCEPT !.raced = @ \/ (command.pc = "launch" /\ command.path = path)]
    /\ UNCHANGED <<request, cache, foreign, output>>

\* A search's producer publishes another digit.
ForeignAppend ==
    /\ ~Over
    /\ foreign < MaxForeign
    /\ foreign' = foreign + 1
    /\ cache' = Append(cache, Len(cache) + 1)
    /\ UNCHANGED <<request, files, replacements, command, output>>

Next ==
    \/ Resolve \/ SelectionFails \/ BuiltIn \/ Target \/ Count \/ Launch
    \/ ProgramFails \/ ProgramEnds \/ Import
    \/ \E path \in Paths : Replace(path)
    \/ ForeignAppend

-----------------------------------------------------------------------------
(* Properties.                                                             *)

\* The program that was launched is the one that was validated, unless it was
\* replaced in the moment between the last look at it and its launch.
LaunchesWhatItValidated ==
    command.launched # None => command.launched = command.validated \/ command.raced

\* Someone who names a program gets this program or an error.
ExplicitIsExplicit ==
    request.backend = "y-cruncher" =>
        /\ command.selected # "cpu"
        /\ request.preferred => command.path \in {None, "preferred"}

\* Automatic choice ends without the digits only if the built-in generator
\* could not deliver them either, or could not be chosen.
AutoDelivers ==
    request.backend = "auto" /\ command.pc = "failed" =>
        command.failures \cap {"built-in", "selection"} # {}

AnAppendFailed == command.failures \cap {"built-in", "import_failed"} # {}

\* The command is done when the digits asked for are there, unless another
\* program was run, and it reports what it added, unless an append failed
\* after its digits had been published.
DoneMeansThere ==
    command.pc = "done" =>
        /\ \/ Len(cache) >= command.start + request.digits
           \/ command.launched # None /\ command.launched.content = "other"
        /\ command.reported = command.added \/ AnAppendFailed

\* Whatever was tried, the cache is as long as its first digits, the foreign
\* ones and the command's, and all of them are pi if no other program was run.
CacheIsAccountedFor ==
    /\ \E n \in FirstDigits : Len(cache) = n + foreign + command.added
    /\ (command.launched = None \/ command.launched.content = "y-cruncher") =>
           cache = Run(0, Len(cache))

\* No directory is left when the command is over, but that of a program that
\* could not be started.
DirectoryRemoved == Over => output = None \/ (output = <<>> /\ command.raced)

CommandInvariant ==
    /\ LaunchesWhatItValidated /\ ExplicitIsExplicit /\ AutoDelivers
    /\ DoneMeansThere /\ CacheIsAccountedFor /\ DirectoryRemoved
=============================================================================
