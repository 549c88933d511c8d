---------------------------- MODULE SharedPools ----------------------------
(***************************************************************************)
(* What the threads of a search share, each with mutexes of its own: the   *)
(* resource budget (ResourceBudget), the digit readers (DigitReader) and   *)
(* the file behind them (FileSource).  No call waits in one while it holds *)
(* a mutex of another and they share no state: a behaviour is one of one   *)
(* side, the others rest.                                                  *)
(***************************************************************************)
EXTENDS ResourceBudget

CONSTANTS Threads, Slots, ReaderSetups, BufferBytes, DecimalPrefix, FileSetups, Earlier, None

VARIABLES side, setup, file, available, pc, reading, reader, failed,
          source, version, cursor, digit_len, staged, cache, call

readerVars == <<setup, file, available, pc, reading, reader, failed>>
fileVars == <<source, version, cursor, digit_len, staged, cache, call>>
poolsVars == <<side, vars, readerVars, fileVars>>

Files == INSTANCE FileSource
Readers == INSTANCE DigitReader WITH request <- reading

ASSUME PoolsAssumption == Readers!ReaderConstants /\ Files!FileConstants

PoolsInit ==
    /\ side \in {"budget", "readers", "file"}
    /\ Init
    /\ Readers!Init
    /\ Files!Init

PoolsNext ==
    \/ side = "budget" /\ Next /\ UNCHANGED <<side, readerVars, fileVars>>
    \/ side = "readers" /\ Readers!Next /\ UNCHANGED <<side, vars, fileVars>>
    \/ side = "file" /\ Files!Next /\ UNCHANGED <<side, vars, readerVars>>

\* The fairness of ResourceBudget, whose resting side has no lease and no
\* sleeper, and that of DigitReader, where nobody has asked.
PoolsFairness == Fairness /\ Readers!Fairness

PoolsSpec == PoolsInit /\ [][PoolsNext]_poolsVars /\ PoolsFairness

\* The properties of DigitReader and FileSource, stated there: slots are kept
\* and handed on, a lease shows exactly the digits that were asked for, the shared
\* cursor never shifts a read and an import is whole or leaves the cache alone.
PoolInvariant ==
    /\ side = "readers" => Readers!PoolInvariant
    /\ side = "file" => Files!FileInvariant

\* Nobody waits for ever: who sleeps for a grant tests its condition again, and
\* a read that has its slot ends.
WaitersMoveOn == SleepersRetest /\ Readers!ReadsEnd
=============================================================================
