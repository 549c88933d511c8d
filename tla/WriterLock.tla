------------------------------ MODULE WriterLock ------------------------------
(***************************************************************************)
(* The writer lock of the digit cache: a lock file next to the cache that  *)
(* names the process that owns it.  Threads of several processes take it;  *)
(* a file whose owner is dead is taken over, under an advisory lock of the *)
(* file (flock), by rewriting the record in place.                         *)
(*                                                                         *)
(* The lock path leads to an inode or to nothing; an inode keeps its text  *)
(* while somebody has it open, and is reused afterwards.  A new lock file  *)
(* is written under a private name and linked to the lock path when it is  *)
(* complete, so its creation is one step.  A record is its process: two    *)
(* records of a process differ only in their time stamps.  A process       *)
(* identifier is never reused, and all processes share a pid namespace.    *)
(*                                                                         *)
(* A call that a thread makes inside of another runs under the lock that the *)
(* thread already has (HELD_PATHS) and takes no step of its own.           *)
(***************************************************************************)
EXTENDS Integers, FiniteSets

CONSTANTS
    Threads,
    Processes,
    Owner,          \* the process of a thread
    Inodes,
    None,           \* no thread, no inode
    Empty,          \* the text of a file that was truncated
    Patience,       \* LIVE_LOCK_WAIT / LOCK_RETRY, the waits for a live owner
    MaxCalls,       \* bound: calls of with_writer_lock per thread
    MaxCrashes,     \* bound: processes that die
    MaxFaults       \* bound: file operations that fail

LockConstants ==
    /\ Owner \in [Threads -> Processes]
    /\ None \notin Threads /\ None \notin Inodes /\ Empty \notin Processes
    /\ Patience \in Nat /\ MaxCalls \in Nat /\ MaxCrashes \in Nat /\ MaxFaults \in Nat

VARIABLES
    path,           \* the inode of the lock file
    text,           \* what each inode says: a process, or nothing
    flock,          \* the thread whose descriptor holds the advisory lock
    alive,          \* the processes that live
    mutex,          \* the process-local lock: the thread that holds it
    pc, ino, saw,   \* of each thread: its place, the inode it has open, the
                    \* owner it read in the lock file
    waits, calls,
    crashes, faults

disk == <<path, text, flock>>
threads == <<pc, ino, saw, waits, calls>>
bounds == <<crashes, faults>>
vars == <<disk, alive, mutex, threads, bounds>>

Opened == {"flock", "verify", "truncate", "write", "sync", "hold", "check",
           "unlink", "close"}
Owning == {"sync", "hold", "check", "unlink"}
Places == {"idle", "create", "observe", "probe", "open", "dead"} \cup Opened

Init ==
    /\ path = None
    /\ text = [i \in Inodes |-> Empty]
    /\ flock = [i \in Inodes |-> None]
    /\ alive = Processes
    /\ mutex = [p \in Processes |-> None]
    /\ pc = [t \in Threads |-> "idle"]
    /\ ino = [t \in Threads |-> None]
    /\ saw = [t \in Threads |-> Empty]
    /\ waits = [t \in Threads |-> 0]
    /\ calls = [t \in Threads |-> 0]
    /\ crashes = 0
    /\ faults = 0

-----------------------------------------------------------------------------
Goto(t, place) == pc' = [pc EXCEPT ![t] = place]

\* The call returns: the process-local lock is given back.
Leave(t) ==
    /\ Goto(t, "idle")
    /\ mutex' = [mutex EXCEPT ![Owner[t]] = None]

\* The descriptor is dropped, and the advisory lock with it.
Drop(t) ==
    /\ ino' = [ino EXCEPT ![t] = None]
    /\ flock' = [i \in Inodes |-> IF flock[i] = t THEN None ELSE flock[i]]

LockLocal(t) ==
    /\ pc[t] = "idle"
    /\ mutex[Owner[t]] = None
    /\ calls[t] < MaxCalls
    /\ calls' = [calls EXCEPT ![t] = @ + 1]
    /\ waits' = [waits EXCEPT ![t] = 0]
    /\ mutex' = [mutex EXCEPT ![Owner[t]] = t]
    /\ Goto(t, "create")
    /\ UNCHANGED <<disk, alive, ino, saw, bounds>>

\* The link succeeds only where there is no lock file.
Create(t) ==
    /\ pc[t] = "create"
    /\ \/ /\ path = None
          /\ \E i \in Inodes :
                /\ \A u \in Threads : ino[u] # i
                /\ path' = i
                /\ text' = [text EXCEPT ![i] = Owner[t]]
                /\ flock' = [flock EXCEPT ![i] = t]
                /\ ino' = [ino EXCEPT ![t] = i]
          /\ Goto(t, "sync")
       \/ /\ path # None
          /\ Goto(t, "observe")
          /\ UNCHANGED <<disk, ino>>
    /\ UNCHANGED <<alive, mutex, saw, waits, calls, bounds>>

\* A record that does not parse ends the call with an error.
Observe(t) ==
    /\ pc[t] = "observe"
    /\ \/ /\ path = None
          /\ Goto(t, "create")
          /\ UNCHANGED <<mutex, saw>>
       \/ /\ path # None /\ text[path] = Empty
          /\ Leave(t)
          /\ UNCHANGED saw
       \/ /\ path # None /\ text[path] # Empty
          /\ saw' = [saw EXCEPT ![t] = text[path]]
          /\ Goto(t, "probe")
          /\ UNCHANGED mutex
    /\ UNCHANGED <<disk, alive, ino, waits, calls, bounds>>

Probe(t) ==
    /\ pc[t] = "probe"
    /\ \/ /\ saw[t] \in alive
          /\ waits[t] < Patience
          /\ waits' = [waits EXCEPT ![t] = @ + 1]
          /\ Goto(t, "create")
          /\ UNCHANGED mutex
       \/ /\ saw[t] \in alive
          /\ waits[t] = Patience
          /\ Leave(t)
          /\ UNCHANGED waits
       \/ /\ saw[t] \notin alive
          /\ Goto(t, "open")
          /\ UNCHANGED <<mutex, waits>>
    /\ UNCHANGED <<disk, alive, ino, saw, calls, bounds>>

-----------------------------------------------------------------------------
(* recover_dead_lock: open, lock the file, read it again, rewrite it.      *)

Open(t) ==
    /\ pc[t] = "open"
    /\ ino' = [ino EXCEPT ![t] = path]
    /\ Goto(t, IF path = None THEN "create" ELSE "flock")
    /\ UNCHANGED <<disk, alive, mutex, saw, waits, calls, bounds>>

\* Seeded fault: the result of the advisory lock is ignored.
Flock_Ignored(t) ==
    /\ pc[t] = "flock"
    /\ flock' = [flock EXCEPT ![ino[t]] = t]
    /\ Goto(t, "verify")
    /\ UNCHANGED <<path, text, alive, mutex, ino, saw, waits, calls, bounds>>
Flock(t) ==
    /\ pc[t] = "flock"
    /\ \/ /\ flock[ino[t]] = None
          /\ flock' = [flock EXCEPT ![ino[t]] = t]
          /\ Goto(t, "verify")
          /\ UNCHANGED ino
       \/ /\ flock[ino[t]] # None
          /\ Drop(t)
          /\ Goto(t, "create")
    /\ UNCHANGED <<path, text, alive, mutex, saw, waits, calls, bounds>>

\* Seeded fault: the record is not read again under the advisory lock.
Verify_Unchecked(t) ==
    /\ pc[t] = "verify"
    /\ Goto(t, "truncate")
    /\ UNCHANGED <<disk, alive, mutex, ino, saw, waits, calls, bounds>>
Verify(t) ==
    /\ pc[t] = "verify"
    /\ \/ /\ text[ino[t]] = saw[t] /\ saw[t] \notin alive
          /\ Goto(t, "truncate")
          /\ UNCHANGED <<flock, ino>>
       \/ /\ ~(text[ino[t]] = saw[t] /\ saw[t] \notin alive)
          /\ Drop(t)
          /\ Goto(t, "create")
    /\ UNCHANGED <<path, text, alive, mutex, saw, waits, calls, bounds>>

Truncate(t) ==
    /\ pc[t] = "truncate"
    /\ text' = [text EXCEPT ![ino[t]] = Empty]
    /\ Goto(t, "write")
    /\ UNCHANGED <<path, flock, alive, mutex, ino, saw, waits, calls, bounds>>

\* A write that fails ends the call and leaves the file as it is or, if only the
\* synchronization failed, with the record of a process that does not hold it.
Write(t) ==
    /\ pc[t] = "write"
    /\ \/ /\ text' = [text EXCEPT ![ino[t]] = Owner[t]]
          /\ Goto(t, "sync")
          /\ UNCHANGED <<flock, mutex, ino, faults>>
       \/ /\ faults < MaxFaults
          /\ faults' = faults + 1
          /\ \E left \in {Empty, Owner[t]} : text' = [text EXCEPT ![ino[t]] = left]
          /\ Drop(t)
          /\ Leave(t)
    /\ UNCHANGED <<path, alive, saw, waits, calls, crashes>>

-----------------------------------------------------------------------------
(* The lock is held: from_locked, the protected operation, drop.           *)

\* The directory is synchronized; if that fails the lock is given up.
SyncParent(t) ==
    /\ pc[t] = "sync"
    /\ \/ Goto(t, "hold") /\ UNCHANGED faults
       \/ faults < MaxFaults /\ faults' = faults + 1 /\ Goto(t, "check")
    /\ UNCHANGED <<disk, alive, mutex, ino, saw, waits, calls, crashes>>

\* The operation under the lock is over.
Finish(t) ==
    /\ pc[t] = "hold"
    /\ Goto(t, "check")
    /\ UNCHANGED <<disk, alive, mutex, ino, saw, waits, calls, bounds>>

\* remove_owned_lock reads the lock file first.
Check(t) ==
    /\ pc[t] = "check"
    /\ Goto(t, IF path # None /\ text[path] = Owner[t] THEN "unlink" ELSE "close")
    /\ UNCHANGED <<disk, alive, mutex, ino, saw, waits, calls, bounds>>

Unlink(t) ==
    /\ pc[t] = "unlink"
    /\ \/ path' = None /\ UNCHANGED faults
       \/ faults < MaxFaults /\ faults' = faults + 1 /\ UNCHANGED path
    /\ Goto(t, "close")
    /\ UNCHANGED <<text, flock, alive, mutex, ino, saw, waits, calls, crashes>>

Close(t) ==
    /\ pc[t] = "close"
    /\ Drop(t)
    /\ Leave(t)
    /\ UNCHANGED <<path, text, alive, saw, waits, calls, bounds>>

-----------------------------------------------------------------------------
\* A process dies: its descriptors are closed, its files stay.
Crash(p) ==
    /\ p \in alive
    /\ crashes < MaxCrashes
    /\ crashes' = crashes + 1
    /\ alive' = alive \ {p}
    /\ pc' = [t \in Threads |-> IF Owner[t] = p THEN "dead" ELSE pc[t]]
    /\ ino' = [t \in Threads |-> IF Owner[t] = p THEN None ELSE ino[t]]
    /\ flock' = [i \in Inodes |-> IF \E t \in Threads : Owner[t] = p /\ flock[i] = t
                                  THEN None ELSE flock[i]]
    /\ UNCHANGED <<path, text, mutex, saw, waits, calls, faults>>

Step(t) ==
    \/ LockLocal(t) \/ Create(t) \/ Observe(t) \/ Probe(t)
    \/ Open(t) \/ Flock(t) \/ Verify(t) \/ Truncate(t) \/ Write(t)
    \/ SyncParent(t) \/ Finish(t) \/ Check(t) \/ Unlink(t) \/ Close(t)

Next == (\E t \in Threads : Step(t)) \/ (\E p \in Processes : Crash(p))

Spec == Init /\ [][Next]_vars

-----------------------------------------------------------------------------
(* Properties.                                                             *)

\* Every variable has its type, and a thread has the lock file open exactly
\* between opening or creating it and dropping it (recover_dead_lock and
\* WriterLock): no path out of the takeover leaks a descriptor, which would
\* keep the advisory lock.
TypeOK ==
    /\ path \in Inodes \cup {None}
    /\ text \in [Inodes -> Processes \cup {Empty}]
    /\ flock \in [Inodes -> Threads \cup {None}]
    /\ alive \subseteq Processes
    /\ mutex \in [Processes -> Threads \cup {None}]
    /\ pc \in [Threads -> Places]
    /\ ino \in [Threads -> Inodes \cup {None}]
    /\ saw \in [Threads -> Processes \cup {Empty}]
    /\ waits \in [Threads -> 0..Patience]
    /\ calls \in [Threads -> 0..MaxCalls]
    /\ crashes \in 0..MaxCrashes
    /\ faults \in 0..MaxFaults
    /\ \A t \in Threads : ino[t] # None <=> pc[t] \in Opened
    /\ \A t \in Threads : pc[t] = "dead" <=> Owner[t] \notin alive

\* with_writer_lock runs one operation at a time, over all threads of all
\* processes, however many of them race to take over the file of a dead one.
MutualExclusion ==
    \A t, u \in Threads : pc[t] = "hold" /\ pc[u] = "hold" => t = u

\* While an operation runs, the lock path leads to the file its thread has
\* open and locked, and that file names its process: what observe_lock reads
\* is the truth.
OwnerKeepsLock ==
    \A t \in Threads :
        pc[t] \in {"sync", "hold"} =>
            path = ino[t] /\ text[ino[t]] = Owner[t] /\ flock[ino[t]] = t

OwnerRemoves ==
    \A i \in Inodes :
        path = i /\ text[i] \in alive /\ (path' # i \/ text'[i] # text[i]) =>
            \E t \in Threads :
                Owner[t] = text[i] /\ pc[t] = "unlink" /\ pc'[t] = "close"

\* A lock file that names a live process is rewritten or removed by that
\* process only (recover_dead_lock checks the record again under flock).
LiveLockRespected == [][OwnerRemoves]_vars

=============================================================================
