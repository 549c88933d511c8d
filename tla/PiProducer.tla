----------------------------- MODULE PiProducer -----------------------------
(***************************************************************************)
(* The pi producer behind a growing digit source: one worker thread that   *)
(* runs generation epochs, the callers that wait for digits or prefetch    *)
(* them, and the cancellation and shutdown that end the waiting.  All      *)
(* share one mutex and one condition variable; an action is what one       *)
(* thread does between two points where it does not hold the mutex.        *)
(***************************************************************************)
EXTENDS FiniteSets, GenerationPlan

CONSTANTS
    Callers,        \* threads that ask for digits
    Targets,        \* absolute digit counts they may ask for
    InitialDigits,  \* digits the cache holds at first
    WindowLen,
    AvailableLeads, \* digits the free memory may leave room for
    PrefixLimit,    \* CHUDNOVSKY_PREFIX_CACHE_DIGITS
    MayFail,        \* whether generating or publishing a batch may fail
    StartsPaused,   \* the source was opened with a paused producer
    MaxCancels,     \* bound: calls of cancel_waiters
    MaxRequests     \* bound: calls of request_generation and prefetch

ASSUME DigitsAssumption ==
    /\ Targets \subseteq Nat \ {0}
    /\ InitialDigits \in Nat
    /\ WindowLen \in Nat \ {0}
    /\ AvailableLeads \subseteq Nat
    /\ PrefixLimit \in Nat

ASSUME UseAssumption ==
    /\ IsFiniteSet(Callers)
    /\ MayFail \in BOOLEAN /\ StartsPaused \in BOOLEAN
    /\ MaxCancels \in Nat /\ MaxRequests \in Nat

VARIABLES
    published,      \* digits in the cache
    pending,        \* target of the queued demand, 0 if there is none
    completed,      \* completed_target
    active, target, \* the epoch that runs, and its target_digits
    paused, shutdown, cancelEpoch,
    error,          \* the sticky error is set
    cancelled,      \* the flag an epoch polls
    waiters,        \* callers counted as waiting
    stop,           \* the search's stop flag, which nothing here signals
    worker,         \* the worker thread
    caller,         \* the calling threads
    requests        \* requests made so far, for the bound

shared == <<pending, completed, active, target, paused, shutdown, cancelEpoch,
            error, cancelled, waiters>>
vars == <<published, shared, stop, worker, caller, requests>>

IdleCaller == [pc |-> "idle", target |-> 0, epoch |-> 0]

Init ==
    /\ published = InitialDigits
    /\ pending = 0
    /\ completed = 0
    /\ active = FALSE /\ target = 0
    /\ paused = StartsPaused
    /\ shutdown = FALSE
    /\ cancelEpoch = 0
    /\ error = FALSE
    /\ cancelled = FALSE
    /\ waiters = 0
    /\ stop = FALSE
    /\ worker = [pc |-> "idle", plan |-> 0, ok |-> TRUE]
    /\ caller = [c \in Callers |-> IdleCaller]
    /\ requests = 0

\* Seeded fault: nobody is told.
Woken_Nobody(f) == f
\* changed.notify_all(): sleepers of both kinds test their conditions again.
Woken(f) == [c \in Callers |->
                IF f[c].pc = "asleep" THEN [f[c] EXCEPT !.pc = "awake"] ELSE f[c]]
\* Seeded fault: only the callers are told.
WokenWorker_Never(w) == w
WokenWorker(w) == IF w.pc = "asleep" THEN [w EXCEPT !.pc = "idle"] ELSE w

-----------------------------------------------------------------------------
(* Callers.                                                                *)

\* The cache is looked at before the mutex is taken.
Request(c, t) ==
    /\ caller[c].pc = "idle"
    /\ requests < MaxRequests
    /\ requests' = requests + 1
    /\ caller' = [caller EXCEPT
           ![c].pc = IF published >= t THEN "ok" ELSE "register",
           ![c].target = t]
    /\ UNCHANGED <<published, shared, stop, worker>>

\* One turn of the waiting loop, by a caller that holds the mutex, on the
\* state it finds: where it goes next.
LoopTest(c, epoch) ==
    IF completed >= caller[c].target THEN "ok"
    ELSE IF shutdown \/ cancelEpoch # epoch \/ stop \/ error THEN "err"
    ELSE "asleep"

Leaves(outcome) == outcome \in {"ok", "err"}

\* Seeded fault: a later, smaller demand replaces the queued one.
Register_Overwrites(c) ==
    LET outcome == LoopTest(c, cancelEpoch)
    IN  /\ caller[c].pc = "register"
        /\ IF shutdown \/ error
           THEN /\ caller' = [caller EXCEPT ![c].pc = "err"]
                /\ UNCHANGED <<shared, worker>>
           ELSE /\ pending' = caller[c].target
                /\ waiters' = IF Leaves(outcome) THEN waiters ELSE waiters + 1
                /\ caller' = [Woken(caller) EXCEPT ![c].pc = outcome,
                                                   ![c].epoch = cancelEpoch]
                /\ worker' = WokenWorker(worker)
                /\ UNCHANGED <<completed, active, target, paused, shutdown,
                               cancelEpoch, error, cancelled>>
        /\ UNCHANGED <<published, stop, requests>>

\* Register the demand, wake the worker, and test once before waiting.
Register(c) ==
    LET outcome == LoopTest(c, cancelEpoch)
    IN  /\ caller[c].pc = "register"
        /\ IF shutdown \/ error
           THEN /\ caller' = [caller EXCEPT ![c].pc = "err"]
                /\ UNCHANGED <<shared, worker>>
           ELSE /\ pending' = Greatest(pending, caller[c].target)
                /\ waiters' = IF Leaves(outcome) THEN waiters ELSE waiters + 1
                /\ caller' = [Woken(caller) EXCEPT ![c].pc = outcome,
                                                   ![c].epoch = cancelEpoch]
                /\ worker' = WokenWorker(worker)
                /\ UNCHANGED <<completed, active, target, paused, shutdown,
                               cancelEpoch, error, cancelled>>
        /\ UNCHANGED <<published, stop, requests>>

\* A woken caller tests again.
Retest(c) ==
    LET outcome == LoopTest(c, caller[c].epoch)
    IN  /\ caller[c].pc = "awake"
        /\ caller' = [caller EXCEPT ![c].pc = outcome]
        /\ waiters' = IF Leaves(outcome) THEN Monus(waiters, 1) ELSE waiters
        /\ UNCHANGED <<published, pending, completed, active, target, paused,
                       shutdown, cancelEpoch, error, cancelled, stop, worker,
                       requests>>

SpuriousWakeup(c) ==
    /\ caller[c].pc = "asleep"
    /\ caller' = [caller EXCEPT ![c].pc = "awake"]
    /\ UNCHANGED <<published, shared, stop, worker, requests>>

\* queue_generation_prefetch, up to the mutex and under it: it never waits,
\* and it adds nothing that the running or the queued demand already covers.
Prefetch(c, t) ==
    /\ caller[c].pc = "idle"
    /\ requests < MaxRequests
    /\ requests' = requests + 1
    /\ ~stop /\ published < t
    /\ caller' = [caller EXCEPT ![c].pc = "prefetch", ![c].target = t]
    /\ UNCHANGED <<published, shared, stop, worker>>

QueuePrefetch(c) ==
    LET t == caller[c].target
        covered == (active /\ target >= t) \/ pending >= t
    IN  /\ caller[c].pc = "prefetch"
        /\ IF shutdown \/ error
           THEN /\ caller' = [caller EXCEPT ![c].pc = "err"]
                /\ UNCHANGED <<pending, worker>>
           ELSE IF covered
           THEN /\ caller' = [caller EXCEPT ![c] = IdleCaller]
                /\ UNCHANGED <<pending, worker>>
           ELSE /\ pending' = t
                /\ caller' = [Woken(caller) EXCEPT ![c] = IdleCaller]
                /\ worker' = WokenWorker(worker)
        /\ UNCHANGED <<published, completed, active, target, paused, shutdown,
                       cancelEpoch, error, cancelled, waiters, stop, requests>>

\* The call has returned; the thread may make another one.
Collect(c) ==
    /\ caller[c].pc \in {"ok", "err"}
    /\ caller' = [caller EXCEPT ![c] = IdleCaller]
    /\ UNCHANGED <<published, shared, stop, worker, requests>>

CallerStep(c) == Register(c) \/ Retest(c) \/ QueuePrefetch(c)

-----------------------------------------------------------------------------
(* The worker thread.                                                      *)

\* Wait for a demand, or take it and start an epoch.
TakeDemand ==
    /\ worker.pc = "idle"
    /\ IF shutdown
       THEN /\ worker' = [worker EXCEPT !.pc = "gone"]
            /\ UNCHANGED <<pending, active, target, cancelled, caller>>
       ELSE IF pending = 0 \/ paused
       THEN /\ worker' = [worker EXCEPT !.pc = "asleep"]
            /\ UNCHANGED <<pending, active, target, cancelled, caller>>
       ELSE /\ worker' = [worker EXCEPT !.pc = "guard"]
            /\ cancelled' = FALSE
            /\ pending' = 0
            /\ active' = TRUE
            /\ target' = pending
            /\ caller' = Woken(caller)
    /\ UNCHANGED <<published, completed, paused, shutdown, cancelEpoch, error,
                   waiters, stop, requests>>

WorkerSpuriousWakeup ==
    /\ worker.pc = "asleep"
    /\ worker' = [worker EXCEPT !.pc = "idle"]
    /\ UNCHANGED <<published, shared, stop, caller, requests>>

\* generation_guard_with_stop: wait until no other producer of the process
\* generates, or until the epoch is cancelled.
TakeGuard ==
    /\ worker.pc = "guard"
    /\ worker' = IF cancelled THEN [worker EXCEPT !.pc = "commit", !.ok = FALSE]
                 ELSE [worker EXCEPT !.pc = "epoch"]
    /\ UNCHANGED <<published, shared, stop, caller, requests>>

\* One turn of the epoch loop: done, cancelled, or plan the next batch from
\* the memory that is free now.
EpochTurn ==
    /\ worker.pc = "epoch"
    /\ IF published >= target
       THEN worker' = [worker EXCEPT !.pc = "commit", !.ok = TRUE]
       ELSE IF cancelled
       THEN worker' = [worker EXCEPT !.pc = "commit", !.ok = FALSE]
       ELSE \E lead \in AvailableLeads :
              LET planTarget == ChudnovskyPrefetchTarget(published, target, lead,
                                                         PrefixLimit)
                  digits == Least(lead, Greatest(WindowLen,
                                                 Monus(planTarget, published)))
              IN  worker' =
                    IF lead < WindowLen
                    THEN [worker EXCEPT !.pc = "commit", !.ok = FALSE]
                    ELSE [worker EXCEPT !.pc = "batch",
                            !.plan = HighWaterDigits(planTarget, published, digits)]
    /\ UNCHANGED <<published, shared, stop, caller, requests>>

\* Compute the planned batch and append it to the cache, or fail to.  A
\* cancelled spigot appends what it has got so far.
EpochBatch ==
    /\ worker.pc = "batch"
    /\ \/ /\ published' \in (IF cancelled THEN published ELSE worker.plan)..worker.plan
          /\ worker' = [worker EXCEPT !.pc = "epoch"]
       \/ /\ MayFail \/ cancelled
          /\ worker' = [worker EXCEPT !.pc = "commit", !.ok = FALSE]
          /\ UNCHANGED published
    /\ UNCHANGED <<shared, stop, caller, requests>>

\* The end of an epoch, under the mutex.  An error counts as a cancellation
\* if the flag is up by now, whatever caused it.
CommitEpoch ==
    /\ worker.pc = "commit"
    /\ active' = FALSE
    /\ completed' = IF worker.ok THEN Greatest(completed, target) ELSE completed
    /\ error' = (error \/ (~worker.ok /\ ~cancelled))
    /\ worker' = [worker EXCEPT !.pc = "idle"]
    /\ caller' = Woken(caller)
    /\ UNCHANGED <<published, pending, target, paused, shutdown, cancelEpoch,
                   cancelled, waiters, stop, requests>>

WorkerStep == TakeDemand \/ TakeGuard \/ EpochTurn \/ EpochBatch \/ CommitEpoch

-----------------------------------------------------------------------------
(* The owner of the source.                                                *)

\* The search stops: the flag is set, nobody is notified.
Stop ==
    /\ ~stop
    /\ stop' = TRUE
    /\ UNCHANGED <<published, shared, worker, caller, requests>>

CancelWaiters ==
    /\ cancelEpoch < MaxCancels
    /\ cancelled' = TRUE
    /\ cancelEpoch' = cancelEpoch + 1
    /\ caller' = Woken(caller)
    /\ worker' = WokenWorker(worker)
    /\ UNCHANGED <<published, pending, completed, active, target, paused,
                   shutdown, error, waiters, stop, requests>>

Shutdown ==
    /\ ~shutdown
    /\ shutdown' = TRUE
    /\ cancelled' = TRUE
    /\ caller' = Woken(caller)
    /\ worker' = WokenWorker(worker)
    /\ UNCHANGED <<published, pending, completed, active, target, paused,
                   cancelEpoch, error, waiters, stop, requests>>

ResumeProducer ==
    /\ paused
    /\ paused' = FALSE
    /\ caller' = Woken(caller)
    /\ worker' = WokenWorker(worker)
    /\ UNCHANGED <<published, pending, completed, active, target, shutdown,
                   cancelEpoch, error, cancelled, waiters, stop, requests>>

Next ==
    \/ \E c \in Callers :
          \/ \E t \in Targets : Request(c, t) \/ Prefetch(c, t)
          \/ CallerStep(c) \/ SpuriousWakeup(c) \/ Collect(c)
    \/ WorkerStep \/ WorkerSpuriousWakeup
    \/ Stop \/ CancelWaiters \/ Shutdown \/ ResumeProducer

\* Threads that hold or can take the mutex go on; a paused producer is resumed
\* by the benchmark that paused it.
Fairness ==
    /\ \A c \in Callers : WF_vars(CallerStep(c))
    /\ WF_vars(WorkerStep)
    /\ WF_vars(ResumeProducer)

Spec == Init /\ [][Next]_vars /\ Fairness

-----------------------------------------------------------------------------
(* Properties                                                              *)

CallerStates == {"idle", "register", "prefetch", "asleep", "awake", "ok", "err"}
Waiting(c) == caller[c].pc \in {"asleep", "awake"}

TypeOK ==
    /\ published \in Nat /\ pending \in Nat /\ completed \in Nat
    /\ target \in Nat /\ cancelEpoch \in Nat /\ waiters \in Nat
    /\ active \in BOOLEAN /\ paused \in BOOLEAN /\ shutdown \in BOOLEAN
    /\ error \in BOOLEAN /\ cancelled \in BOOLEAN /\ stop \in BOOLEAN
    /\ worker \in [pc : {"idle", "asleep", "guard", "epoch", "batch", "commit", "gone"},
                   plan : Nat, ok : BOOLEAN]
    /\ caller \in [Callers -> [pc : CallerStates, target : Nat, epoch : Nat]]
    /\ requests \in Nat

\* Digits a caller was told it has are in the cache.
OkMeansPublished ==
    \A c \in Callers : caller[c].pc = "ok" => published >= caller[c].target

\* Coalescing forgets no demand: while a caller sleeps, a queued demand or the
\* running epoch reaches at least as far as it asked, and no cancellation,
\* failure or completion it should have seen has passed it by.
DemandIsCovered ==
    \A c \in Callers : caller[c].pc = "asleep" =>
        /\ pending >= caller[c].target \/ (active /\ target >= caller[c].target)
        /\ caller[c].epoch = cancelEpoch
        /\ completed < caller[c].target
        /\ ~error /\ ~shutdown

\* The worker sleeps only when there is nothing it should do.
WorkerNotForgotten ==
    worker.pc = "asleep" => (pending = 0 \/ paused) /\ ~shutdown

\* The waiter count is the number of waiting callers.
WaitersCounted == waiters = Cardinality({c \in Callers : Waiting(c)})

\* What the producer owes its callers at any moment: a demand in work for each
\* that sleeps, a worker awake to do it, digits for each that was told so.
ProducerInvariant ==
    TypeOK /\ OkMeansPublished /\ DemandIsCovered /\ WorkerNotForgotten /\ WaitersCounted

\* Every caller is answered, whatever is cancelled, coalesced or failing.
EveryCallerAnswered ==
    \A c \in Callers : Waiting(c) ~> ~Waiting(c)

\* A shutdown ends the worker, so the join in shutdown() returns.
ShutdownJoins == shutdown ~> worker.pc = "gone"

\* Nobody waits for the producer for ever, neither for digits nor for its end.
ProducerServes == EveryCallerAnswered /\ ShutdownJoins
=============================================================================
