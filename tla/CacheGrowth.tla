----------------------------- MODULE CacheGrowth -----------------------------
(***************************************************************************)
(* Several processes make one digit cache longer: search sessions, whose   *)
(* pi producers run epochs of batches, and pi generate commands.  The      *)
(* digit at position k of pi is written k, so a cache that holds pi reads  *)
(* 1, 2, 3, ...                                                            *)
(*                                                                         *)
(* A session reads the length of the cache when its epoch begins and counts*)
(* on from there; only its appends take the writer lock.  A command holds  *)
(* the lock from reading the length to its last append.  How a publication *)
(* is made is the business of CachePublication, how the lock is taken of   *)
(* WriterLock, what a producer owes its callers of PiProducer.             *)
(***************************************************************************)
EXTENDS Integers, Sequences, FiniteSets

CONSTANTS
    Sessions,       \* processes that search
    Commands,       \* processes that run pi generate
    InitialDigits,
    GrowthSetups    \* who is there and what may happen: see SetupType

Backends == {"chudnovsky", "spigot", "ycruncher", "none"}
SetupType ==
    [backend : [Sessions -> Backends],  \* "none": this process is not there
     commands : SUBSET Commands,
     maxDigits : Nat,                   \* bound: what epochs and commands reach for
     maxEpochs : Nat,                   \* bound: epochs of a session
     maxFaults : Nat]                   \* bound: batches that cannot be published

VARIABLES
    setup,          \* chosen once
    cache,          \* the published digits
    lock,           \* the commands that hold the writer lock, at most one
    session,
    command,
    faults

vars == <<setup, cache, lock, session, command, faults>>

\* The positions from a + 1 to b, in order.
Run(a, b) == [k \in 1..(IF b > a THEN b - a ELSE 0) |-> a + k]
HoldsPi(digits) == digits = Run(0, Len(digits))

Init ==
    /\ setup \in GrowthSetups
    /\ cache = Run(0, InitialDigits)
    /\ lock = {}
    /\ session = [s \in Sessions |->
          [pc |-> "idle", current |-> 0, target |-> 0, high |-> 0, batch |-> <<>>,
           resident |-> FALSE, position |-> 0, cut |-> FALSE, epochs |-> 0,
           completed |-> 0]]
    /\ command = [c \in Commands |-> [pc |-> "idle", existing |-> 0, target |-> 0]]
    /\ faults = 0

-----------------------------------------------------------------------------
(* A session: run_epoch of the pi producer, batch by batch.                *)

BeginEpoch(s) ==
    /\ session[s].pc = "idle" /\ setup.backend[s] # "none"
    /\ session[s].epochs < setup.maxEpochs
    /\ \E target \in 1..setup.maxDigits :
          session' = [session EXCEPT ![s].pc = "loop",
                                     ![s].current = Len(cache),
                                     ![s].target = target,
                                     ![s].epochs = @ + 1]
    /\ UNCHANGED <<setup, cache, lock, command, faults>>

\* Seeded fault: an epoch ends only at its target, not beyond it.
EndEpoch_Exact(s) ==
    /\ session[s].pc = "loop"
    /\ session[s].current = session[s].target
    /\ session' = [session EXCEPT ![s].pc = "idle", ![s].cut = FALSE,
                                  ![s].completed = session[s].target]
    /\ UNCHANGED <<setup, cache, lock, command, faults>>
EndEpoch(s) ==
    /\ session[s].pc = "loop"
    /\ session[s].current >= session[s].target
    /\ session' = [session EXCEPT ![s].pc = "idle", ![s].cut = FALSE,
                                  ![s].completed = session[s].target]
    /\ UNCHANGED <<setup, cache, lock, command, faults>>

\* The waiters are cancelled: the epoch ends before its next batch.
Cancelled(s) ==
    /\ session[s].pc = "loop"
    /\ session[s].current < session[s].target
    /\ session' = [session EXCEPT ![s].pc = "idle", ![s].cut = FALSE]
    /\ UNCHANGED <<setup, cache, lock, command, faults>>

HighWaters(s) == (session[s].current + 1)..session[s].target
NextBatch(s) == session[s].pc = "loop" /\ ~session[s].cut

\* The whole prefix is computed, and what is beyond the count is taken.  The
\* plan may reach beyond the target (chudnovsky_prefetch_target).
Chudnovsky(s) ==
    /\ NextBatch(s) /\ setup.backend[s] = "chudnovsky"
    /\ \E high \in (session[s].current + 1)..setup.maxDigits :
          session' = [session EXCEPT ![s].pc = "publish",
                                     ![s].batch = Run(session[s].current, high)]
    /\ UNCHANGED <<setup, cache, lock, command, faults>>

\* The generator is positioned once and stays in the producer.
SpigotStart(s) == IF session[s].resident THEN session[s].position ELSE session[s].current

\* The resident generator goes on from where it is; when the waiters are
\* cancelled meanwhile, it stops early (cut), what it has is published, and
\* the epoch is over.
Spigot(s) ==
    LET from == SpigotStart(s)
    IN  /\ NextBatch(s) /\ setup.backend[s] = "spigot"
        /\ \E high \in HighWaters(s) :
              \E to \in from..(from + high - session[s].current) :
                  session' = [session EXCEPT ![s].pc = "publish",
                                             ![s].batch = Run(from, to),
                                             ![s].resident = TRUE,
                                             ![s].cut = to < from + high - session[s].current,
                                             ![s].position = to]
        /\ UNCHANGED <<setup, cache, lock, command, faults>>

\* append_digits: the writer lock is free, the digits go to the end.
Publish(s) ==
    /\ session[s].pc = "publish"
    /\ lock = {}
    /\ cache' = cache \o session[s].batch
    /\ session' = [session EXCEPT ![s].pc = "loop",
                                  ![s].current = @ + Len(session[s].batch),
                                  ![s].batch = <<>>]
    /\ UNCHANGED <<setup, lock, command, faults>>

\* The append fails.  The error is final, unless the waiters were cancelled.
PublishFails(s) ==
    /\ session[s].pc \in {"publish", "import"}
    /\ faults < setup.maxFaults
    /\ faults' = faults + 1
    /\ \E pc \in {"idle", "failed"} :
          session' = [session EXCEPT ![s].pc = pc, ![s].batch = <<>>, ![s].cut = FALSE]
    /\ UNCHANGED <<setup, cache, lock, command>>

\* generate_to_target: nothing to do if the cache is long enough by now.
YCruncher(s) ==
    /\ NextBatch(s) /\ setup.backend[s] = "ycruncher"
    /\ \E high \in HighWaters(s) :
          session' = [session EXCEPT
              ![s].pc = IF Len(cache) >= high THEN "loop" ELSE "import",
              ![s].high = high]
    /\ UNCHANGED <<setup, cache, lock, command, faults>>

\* Seeded fault: the text is taken to continue at the length seen before.
Continuation_Unchecked(s) == {Run(session[s].current, session[s].high)}
\* What a whole text from the first digit on adds to the cache.
\* validate_continuation: it must begin with the whole cache.
Continuation(s) ==
    LET source == Run(0, session[s].high)
    IN  IF Len(source) >= Len(cache) /\ SubSeq(source, 1, Len(cache)) = cache
        THEN {SubSeq(source, Len(cache) + 1, Len(source))} ELSE {}

\* Seeded fault: the digits of the text are counted, not the added ones.
Import_CountsAll(s) ==
    /\ session[s].pc = "import"
    /\ lock = {}
    /\ \E added \in Continuation(s) :
          /\ cache' = cache \o added
          /\ session' = [session EXCEPT ![s].pc = "loop",
                                        ![s].current = @ + session[s].high]
    /\ UNCHANGED <<setup, lock, command, faults>>
Import(s) ==
    /\ session[s].pc = "import"
    /\ lock = {}
    /\ \/ \E added \in Continuation(s) :
             /\ cache' = cache \o added
             /\ session' = [session EXCEPT ![s].pc = "loop",
                                           ![s].current = @ + Len(added)]
       \/ /\ Continuation(s) = {}
          /\ \E pc \in {"idle", "failed"} : session' = [session EXCEPT ![s].pc = pc]
          /\ UNCHANGED cache
    /\ UNCHANGED <<setup, lock, command, faults>>

-----------------------------------------------------------------------------
(* A command: pi generate with a built-in backend, under the writer lock.  *)

BeginCommand(c) ==
    /\ c \in setup.commands
    /\ command[c].pc = "idle"
    /\ lock = {}
    /\ \E target \in (Len(cache) + 1)..setup.maxDigits :
          command' = [command EXCEPT ![c] = [pc |-> "append", existing |-> Len(cache),
                                             target |-> target]]
    /\ lock' = {c}
    /\ UNCHANGED <<setup, cache, session, faults>>

\* One append with the fast generator, several with the spigot.
CommandAppends(c) ==
    /\ command[c].pc = "append"
    /\ \E to \in (command[c].existing + 1)..command[c].target :
          /\ cache' = cache \o Run(command[c].existing, to)
          /\ command' = [command EXCEPT ![c].existing = to]
    /\ UNCHANGED <<setup, lock, session, faults>>

EndCommand(c) ==
    /\ command[c].pc = "append"
    /\ command[c].existing = command[c].target
    /\ command' = [command EXCEPT ![c].pc = "done"]
    /\ lock' = lock \ {c}
    /\ UNCHANGED <<setup, cache, session, faults>>

-----------------------------------------------------------------------------
Epoch(s) ==
    \/ EndEpoch(s) \/ Chudnovsky(s) \/ Spigot(s) \/ Publish(s)
    \/ YCruncher(s) \/ Import(s) \/ (session[s].cut /\ Cancelled(s))

Command(c) == BeginCommand(c) \/ CommandAppends(c) \/ EndCommand(c)

Next ==
    \/ \E s \in Sessions :
          BeginEpoch(s) \/ Cancelled(s) \/ PublishFails(s) \/ Epoch(s)
    \/ \E c \in Commands : Command(c)

Spec == Init /\ [][Next]_vars

\* Nobody is obliged to ask for digits, to cancel or to fail; what was begun
\* is carried on by its thread.
Fairness ==
    /\ \A s \in Sessions : WF_vars(Epoch(s))
    /\ \A c \in Commands : WF_vars(CommandAppends(c) \/ EndCommand(c))

-----------------------------------------------------------------------------
(* Properties.                                                             *)

TypeOK ==
    /\ setup \in GrowthSetups /\ setup \in SetupType
    /\ cache \in Seq(Nat)
    /\ lock \subseteq Commands
    /\ \A s \in Sessions :
          /\ session[s].pc \in {"idle", "loop", "publish", "import", "failed"}
          /\ session[s].batch # <<>> => session[s].pc = "publish"
          /\ session[s].epochs \in 0..setup.maxEpochs
    /\ \A c \in Commands : command[c].pc = "append" <=> c \in lock
    /\ faults \in 0..setup.maxFaults

\* Every text is checked against the whole cache before it is appended, or
\* there is one writer, whose batches are not lost.
Participants == {s \in Sessions : setup.backend[s] # "none"}
Validated == \A s \in Participants : setup.backend[s] = "ycruncher"
Alone == Cardinality(Participants) + Cardinality(setup.commands) <= 1

\* The cache holds the digits of pi, in their places, whoever appended them
\* in whatever order (README, "real generated digits of pi").
CacheHoldsPi == HoldsPi(cache)

\* As far as texts are validated, or one process alone loses no batch, the
\* cache holds the digits of pi in their places: whatever the order of
\* epochs, commands, cancellations and failures.
GuardedCacheHoldsPi ==
    Validated \/ (Alone /\ faults = 0) => HoldsPi(cache)

\* When an epoch has ended well, its target is published: the callers that
\* wait for completed_target find the digits they waited for.
EpochKeepsPromise ==
    \A s \in Sessions : session[s].completed <= Len(cache)

\* The growth of the cache: commands hold its lock exactly while they append,
\* an epoch that ended well has published its target, and what is checked
\* before it is appended is pi.
GrowthInvariant == TypeOK /\ EpochKeepsPromise /\ GuardedCacheHoldsPi

\* An epoch ends: with its target, with an error, or cancelled; a search that
\* caught up with the generator resumes.  (Not claimed of y-cruncher, whose
\* epochs count what was appended from the cache: see the README.)
CountingEpochEnds ==
    \A s \in Sessions :
        session[s].pc = "loop" /\ setup.backend[s] # "ycruncher"
            ~> session[s].pc \in {"idle", "failed"}

=============================================================================
