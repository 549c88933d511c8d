----------------------------- MODULE MCWriterLock -----------------------------
(***************************************************************************)
(* Those who write the digit cache and the lock that keeps them apart: the *)
(* growth of the cache (CacheGrowth) and its writer lock (WriterLock),     *)
(* which share no state.  The run is of the lock, the cache rests; its     *)
(* instance has three processes, one of them with two threads.             *)
(***************************************************************************)
EXTENDS CacheGrowth, TLC

CONSTANTS
    tA, tB1, tB2, tC, PA, PB, PC,
    Threads, Processes, Owner, Inodes, None, Empty,     \* those of WriterLock
    Patience, MaxCalls, MaxCrashes, MaxFaults

VARIABLES path, text, flock, alive, mutex, pc, ino, saw, waits, calls, crashes, failures

Lock == INSTANCE WriterLock WITH faults <- failures
ASSUME LockAssumption == Lock!LockConstants

MCThreads == {tA, tB1, tB2, tC}
MCOwner == tA :> PA @@ tB1 :> PB @@ tB2 :> PB @@ tC :> PC
Nobody == {[backend |-> <<>>, commands |-> {}, maxDigits |-> 0, maxEpochs |-> 0, maxFaults |-> 0]}

lockVars == <<path, text, flock, alive, mutex, pc, ino, saw, waits, calls, crashes, failures>>
LockInit == Init /\ Lock!Init
LockNext == Lock!Next /\ UNCHANGED vars
LockSpec == LockInit /\ [][LockNext]_<<lockVars, vars>>

\* Inodes are interchangeable: nothing orders them.
InodeSymmetry == Permutations(Inodes)

-----------------------------------------------------------------------------
(* Properties, stated in WriterLock.                                       *)

\* One operation at a time, over all threads of all processes
\* (with_writer_lock).
MutualExclusion == Lock!MutualExclusion
\* While it runs, the lock file is its own and says so (observe_lock).
OwnerKeepsLock == Lock!OwnerKeepsLock
\* A lock file that names a live process is rewritten or removed by that
\* process only (recover_dead_lock).
LiveLockRespected == [][Lock!OwnerRemoves]_lockVars
=============================================================================
