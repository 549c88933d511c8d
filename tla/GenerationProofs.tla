--------------------------- MODULE GenerationProofs ---------------------------
(***************************************************************************)
(* Proofs about the two sides of MCGeneration.                             *)
(*                                                                         *)
(* The producer, for any callers, demands and failures.  That a sleeper is *)
(* covered is not inductive, because it says nothing of callers that were  *)
(* woken and have not tested yet: WaitersCovered does.  It rests on the    *)
(* flag that an epoch polls: while it is down, an epoch that covers        *)
(* somebody ends by reaching its target or with an error for everybody.    *)
(*                                                                         *)
(* A pi generate command, for any requests, first files, first digits,     *)
(* replacements and foreign appends.  What it ends with says nothing of    *)
(* the steps before: Selection, Counting and Directory relate each of them *)
(* to the choice that was made, the count that was read and the directory  *)
(* that was opened.                                                        *)
(***************************************************************************)
EXTENDS MCGeneration, Sequences, FiniteSetTheorems, TLAPS

-----------------------------------------------------------------------------
(* The producer.                                                           *)

\* The epoch runs while the worker is in it; what it plans lies ahead, and what
\* was completed is in the cache.
EpochState ==
    /\ active <=> worker.pc \in {"guard", "epoch", "batch", "commit"}
    /\ worker.pc = "batch" => worker.plan >= published
    /\ worker.pc = "commit" /\ worker.ok => published >= target
    /\ completed <= published

\* Nobody waits on a cancellation that has not happened yet.
EpochsPassed == \A c \in Callers : Waiting(c) => caller[c].epoch <= cancelEpoch

\* What a sleeper saw when it fell asleep is still so.
SleepersUpToDate ==
    \A c \in Callers : caller[c].pc = "asleep" =>
        /\ caller[c].epoch = cancelEpoch
        /\ completed < caller[c].target
        /\ ~error /\ ~shutdown

\* Whoever waits, awake or asleep, and has no reason to give up, finds its
\* digits complete, queued, or in an epoch that nobody has cancelled.
WaitersCovered ==
    \A c \in Callers : Waiting(c) /\ caller[c].epoch = cancelEpoch /\ ~shutdown /\ ~error =>
        \/ completed >= caller[c].target
        \/ pending >= caller[c].target
        \/ active /\ target >= caller[c].target /\ ~cancelled

IInv ==
    /\ TypeOK /\ EpochState /\ EpochsPassed /\ SleepersUpToDate /\ WaitersCovered
    /\ OkMeansPublished /\ WorkerNotForgotten /\ WaitersCounted

Waiters == {c \in Callers : Waiting(c)}

-----------------------------------------------------------------------------
\* A plan of the Chudnovsky backend reaches as far as was asked for.
LEMMA PrefetchReaches ==
    ASSUME NEW current \in Nat, NEW requested \in Nat, NEW lead \in Nat
    PROVE  /\ ChudnovskyPrefetchTarget(current, requested, lead, PrefixLimit) \in Nat
           /\ ChudnovskyPrefetchTarget(current, requested, lead, PrefixLimit) >= requested
<1>1. NextPowersOfTwo(requested) \subseteq Nat
  BY DEF NextPowersOfTwo, Greatest
<1>2. GeometricTarget(requested, PrefixLimit) \in Nat
  BY <1>1, DigitsAssumption DEF GeometricTarget, Least
<1> QED
  BY <1>2, DigitsAssumption DEF ChudnovskyPrefetchTarget, Greatest, Least

\* A batch is planned ahead of what is published.
LEMMA PlanIsAhead ==
    ASSUME NEW current \in Nat, NEW requested \in Nat, requested > current,
           NEW lead \in Nat,
           NEW plan,
           plan = LET planTarget == ChudnovskyPrefetchTarget(current, requested, lead,
                                                             PrefixLimit)
                      digits == Least(lead, Greatest(WindowLen, Monus(planTarget, current)))
                  IN  HighWaterDigits(planTarget, current, digits)
    PROVE  plan \in Nat /\ plan >= current
<1> DEFINE planTarget == ChudnovskyPrefetchTarget(current, requested, lead, PrefixLimit)
<1>1. planTarget \in Nat /\ planTarget >= requested
  BY PrefetchReaches
<1> HIDE DEF planTarget
<1>2. Least(lead, Greatest(WindowLen, Monus(planTarget, current))) \in Nat
  BY <1>1, DigitsAssumption DEF Least, Greatest, Monus
<1>3. plan = HighWaterDigits(planTarget, current,
                             Least(lead, Greatest(WindowLen, Monus(planTarget, current))))
  BY DEF planTarget
<1> QED
  BY <1>1, <1>2, <1>3 DEF HighWaterDigits, Least

\* Waking everybody changes no type and no waiter, and leaves no sleeper.
LEMMA WokenKeeps ==
    ASSUME TypeOK
    PROVE  /\ Woken(caller) \in [Callers -> [pc : CallerStates, target : Nat, epoch : Nat]]
           /\ \A c \in Callers :
                 /\ Woken(caller)[c].target = caller[c].target
                 /\ Woken(caller)[c].epoch = caller[c].epoch
                 /\ Woken(caller)[c].pc # "asleep"
                 /\ Woken(caller)[c].pc = "awake" <=> Waiting(c)
                 /\ ~Waiting(c) => Woken(caller)[c].pc = caller[c].pc
BY DEF TypeOK, Woken, CallerStates, Waiting

\* A worker that is woken looks again.
LEMMA WokenWorkerKeeps ==
    ASSUME TypeOK
    PROVE  /\ WokenWorker(worker) \in
                  [pc : {"idle", "asleep", "guard", "epoch", "batch", "commit", "gone"},
                   plan : Nat, ok : BOOLEAN]
           /\ WokenWorker(worker).pc # "asleep"
           /\ WokenWorker(worker).plan = worker.plan
           /\ WokenWorker(worker).ok = worker.ok
           /\ WokenWorker(worker).pc = "idle" <=> worker.pc \in {"idle", "asleep"}
           /\ worker.pc # "asleep" => WokenWorker(worker).pc = worker.pc
BY DEF TypeOK, WokenWorker

-----------------------------------------------------------------------------
\* Types.

\* A source is opened with typed counters, a worker and idle callers.
LEMMA TypeInit == Init => TypeOK
<1> SUFFICES ASSUME Init PROVE TypeOK
  OBVIOUS
<1>1. /\ published \in Nat /\ pending \in Nat /\ completed \in Nat
      /\ target \in Nat /\ cancelEpoch \in Nat /\ waiters \in Nat /\ requests \in Nat
  BY DigitsAssumption DEF Init
<1>2. /\ active \in BOOLEAN /\ paused \in BOOLEAN /\ shutdown \in BOOLEAN
      /\ error \in BOOLEAN /\ cancelled \in BOOLEAN /\ stop \in BOOLEAN
  BY UseAssumption, Zenon DEF Init
<1>3. worker \in [pc : {"idle", "asleep", "guard", "epoch", "batch", "commit", "gone"},
                 plan : Nat, ok : BOOLEAN]
  BY DEF Init
<1>4. caller \in [Callers -> [pc : CallerStates, target : Nat, epoch : Nat]]
  BY DEF Init, IdleCaller, CallerStates
<1> QED
  BY <1>1, <1>2, <1>3, <1>4 DEF TypeOK

\* A call that starts keeps the types.
LEMMA RequestTyped ==
    ASSUME TypeOK, NEW c \in Callers, NEW t \in Targets,
           Request(c, t) \/ Prefetch(c, t)
    PROVE  TypeOK'
BY DigitsAssumption DEF Request, Prefetch, TypeOK, CallerStates, shared

\* The calling threads keep the types.
LEMMA CallerTyped ==
    ASSUME TypeOK, NEW c \in Callers,
           CallerStep(c) \/ SpuriousWakeup(c) \/ Collect(c)
    PROVE  TypeOK'
<1>1. CASE Register(c)
  <2>1. CASE shutdown \/ error
    BY <1>1, <2>1 DEF Register, TypeOK, CallerStates, shared
  <2>2. CASE ~(shutdown \/ error)
    <3>1. pending' \in Nat /\ waiters' \in Nat
      BY <1>1, <2>2 DEF Register, TypeOK, Greatest
    <3>2. worker' = WokenWorker(worker)
      BY <1>1, <2>2 DEF Register
    <3>3. caller' \in [Callers -> [pc : CallerStates, target : Nat, epoch : Nat]]
      <4>1. LoopTest(c, cancelEpoch) \in CallerStates
        BY DEF LoopTest, CallerStates
      <4> DEFINE woken == Woken(caller)
      <4>2. woken \in [Callers -> [pc : CallerStates, target : Nat, epoch : Nat]]
        BY WokenKeeps
      <4>3. caller' = [woken EXCEPT ![c].pc = LoopTest(c, cancelEpoch), ![c].epoch = cancelEpoch]
        BY <1>1, <2>2 DEF Register
      <4> HIDE DEF woken
      <4> QED
        BY <4>1, <4>2, <4>3 DEF TypeOK
    <3>4. UNCHANGED <<published, completed, active, target, paused, shutdown, cancelEpoch,
                      error, cancelled, stop, requests>>
      BY <1>1, <2>2 DEF Register
    <3> QED
      BY <3>1, <3>2, <3>3, <3>4, WokenWorkerKeeps DEF TypeOK
  <2> QED
    BY <2>1, <2>2
<1>2. CASE Retest(c)
  <2>1. LoopTest(c, caller[c].epoch) \in CallerStates
    BY DEF LoopTest, CallerStates
  <2> QED
    BY <1>2, <2>1 DEF Retest, TypeOK, Monus
<1>3. CASE QueuePrefetch(c)
  BY <1>3, WokenKeeps, WokenWorkerKeeps
  DEF QueuePrefetch, TypeOK, CallerStates, IdleCaller
<1>4. CASE SpuriousWakeup(c) \/ Collect(c)
  BY <1>4 DEF SpuriousWakeup, Collect, TypeOK, CallerStates, IdleCaller, shared
<1> QED
  BY <1>1, <1>2, <1>3, <1>4 DEF CallerStep

\* The next batch of an epoch, or its end.
LEMMA EpochTurnPlans ==
    ASSUME TypeOK, EpochTurn
    PROVE  /\ worker' \in [pc : {"batch", "commit"}, plan : Nat, ok : BOOLEAN]
           /\ worker'.pc = "batch" => worker'.plan >= published
           /\ worker'.pc = "commit" /\ worker'.ok => published >= target
<1>1. CASE published >= target
  BY <1>1 DEF EpochTurn, TypeOK
<1>2. CASE ~(published >= target) /\ cancelled
  BY <1>2 DEF EpochTurn, TypeOK
<1>3. CASE ~(published >= target) /\ ~cancelled
  <2>1. PICK lead \in AvailableLeads :
          LET planTarget == ChudnovskyPrefetchTarget(published, target, lead, PrefixLimit)
              digits == Least(lead, Greatest(WindowLen, Monus(planTarget, published)))
          IN  worker' = IF lead < WindowLen
                        THEN [worker EXCEPT !.pc = "commit", !.ok = FALSE]
                        ELSE [worker EXCEPT !.pc = "batch",
                                !.plan = HighWaterDigits(planTarget, published, digits)]
    BY <1>3 DEF EpochTurn
  <2> DEFINE plan == LET planTarget == ChudnovskyPrefetchTarget(published, target, lead,
                                                                PrefixLimit)
                         digits == Least(lead, Greatest(WindowLen,
                                                        Monus(planTarget, published)))
                     IN  HighWaterDigits(planTarget, published, digits)
  <2>2. plan \in Nat /\ plan >= published
    BY <1>3, PlanIsAhead, DigitsAssumption DEF TypeOK
  <2>3. worker' = IF lead < WindowLen
                  THEN [worker EXCEPT !.pc = "commit", !.ok = FALSE]
                  ELSE [worker EXCEPT !.pc = "batch", !.plan = plan]
    BY <2>1
  <2> HIDE DEF plan
  <2> QED
    BY <2>2, <2>3 DEF TypeOK
<1> QED
  BY <1>1, <1>2, <1>3

\* The worker and the owner of the source keep the types.
LEMMA OthersTyped ==
    ASSUME TypeOK,
           \/ WorkerStep \/ WorkerSpuriousWakeup
           \/ Stop \/ CancelWaiters \/ Shutdown \/ ResumeProducer
    PROVE  TypeOK'
<1>1. CASE TakeDemand
  <2>1. CASE shutdown \/ pending = 0 \/ paused
    BY <1>1, <2>1 DEF TakeDemand, TypeOK
  <2>2. CASE ~(shutdown \/ pending = 0 \/ paused)
    <3>1. active' \in BOOLEAN /\ cancelled' \in BOOLEAN
      BY <1>1, <2>2, Zenon DEF TakeDemand
    <3>2. caller' \in [Callers -> [pc : CallerStates, target : Nat, epoch : Nat]]
      BY <1>1, <2>2, WokenKeeps DEF TakeDemand
    <3> QED
      BY <1>1, <2>2, <3>1, <3>2 DEF TakeDemand, TypeOK
  <2> QED
    BY <2>1, <2>2
<1>2. CASE TakeGuard \/ EpochTurn
  BY <1>2, EpochTurnPlans DEF TakeGuard, EpochTurn, TypeOK, shared
<1>3. CASE EpochBatch
  <2>1. published' \in Nat
    BY <1>3 DEF EpochBatch, TypeOK
  <2> QED
    BY <1>3, <2>1 DEF EpochBatch, TypeOK, shared
<1>4. CASE CommitEpoch
  BY <1>4, WokenKeeps DEF CommitEpoch, TypeOK, Greatest
<1>5. CASE WorkerSpuriousWakeup \/ Stop
  BY <1>5 DEF WorkerSpuriousWakeup, Stop, TypeOK, shared
<1>6. CASE CancelWaiters \/ Shutdown \/ ResumeProducer
  <2>1. paused' \in BOOLEAN /\ shutdown' \in BOOLEAN /\ cancelled' \in BOOLEAN
    BY <1>6, Zenon DEF CancelWaiters, Shutdown, ResumeProducer, TypeOK
  <2>2. caller' = Woken(caller) /\ worker' = WokenWorker(worker)
    BY <1>6 DEF CancelWaiters, Shutdown, ResumeProducer
  <2>3. /\ cancelEpoch' \in Nat
        /\ UNCHANGED <<published, pending, completed, active, target, error, waiters,
                      stop, requests>>
    BY <1>6 DEF CancelWaiters, Shutdown, ResumeProducer, TypeOK
  <2> QED
    BY <2>1, <2>2, <2>3, WokenKeeps, WokenWorkerKeeps DEF TypeOK
<1> QED
  BY <1>1, <1>2, <1>3, <1>4, <1>5, <1>6 DEF WorkerStep

\* Every step keeps the types.
LEMMA TypeStep == TypeOK /\ [Next]_vars => TypeOK'
<1>1. ASSUME TypeOK, UNCHANGED vars PROVE TypeOK'
  BY <1>1 DEF TypeOK, vars, shared
<1> QED
  BY <1>1, RequestTyped, CallerTyped, OthersTyped DEF Next

\* Counters, demands, the worker and the callers keep their types.
THEOREM TypeCorrect == Spec => []TypeOK
BY TypeInit, TypeStep, PTL DEF Spec

-----------------------------------------------------------------------------
\* What each kind of step leaves alone.

\* What caller c does.
Acts(c) ==
    \/ \E t \in Targets : Request(c, t) \/ Prefetch(c, t)
    \/ CallerStep(c) \/ SpuriousWakeup(c) \/ Collect(c)

\* Nothing has happened to caller d, unless it was woken.
AtMostWoken(d) ==
    /\ caller'[d].target = caller[d].target
    /\ caller'[d].epoch = caller[d].epoch
    /\ Waiting(d)' <=> Waiting(d)
    /\ caller'[d].pc = "asleep" => caller[d].pc = "asleep"
    /\ caller'[d].pc = "ok" => caller[d].pc = "ok"

\* A notification wakes sleepers and does nothing else to a caller.
LEMMA OnlyWoken ==
    ASSUME TypeOK, caller' = Woken(caller) \/ caller' = caller
    PROVE  \A d \in Callers : AtMostWoken(d)
BY WokenKeeps DEF AtMostWoken, Waiting, TypeOK, CallerStates

\* A caller touches nothing of the epoch and takes no demand away; whoever adds
\* one wakes the worker.
LEMMA CallerFrame ==
    ASSUME TypeOK, NEW c \in Callers, Acts(c)
    PROVE  /\ UNCHANGED <<published, completed, active, target, paused, shutdown,
                          cancelEpoch, error, cancelled>>
           /\ \/ pending' = pending /\ worker' = worker
              \/ pending' \in Nat /\ pending' >= pending /\ worker' = WokenWorker(worker)
<1>1. CASE \E t \in Targets : Request(c, t) \/ Prefetch(c, t)
  BY <1>1 DEF Request, Prefetch, shared
<1>2. CASE Register(c)
  BY <1>2 DEF Register, shared, Greatest, TypeOK
<1>3. CASE Retest(c)
  BY <1>3 DEF Retest
<1>4. CASE QueuePrefetch(c)
  BY <1>4 DEF QueuePrefetch, TypeOK
<1>5. CASE SpuriousWakeup(c) \/ Collect(c)
  BY <1>5 DEF SpuriousWakeup, Collect, shared
<1> QED
  BY <1>1, <1>2, <1>3, <1>4, <1>5 DEF Acts, CallerStep

\* What a caller does happens to the other callers as a notification at most.
LEMMA OthersAtMostWoken ==
    ASSUME TypeOK, NEW c \in Callers, Acts(c)
    PROVE  \A d \in Callers \ {c} : AtMostWoken(d)
<1> SUFFICES ASSUME NEW d \in Callers, d # c PROVE AtMostWoken(d)
  OBVIOUS
<1>1. caller'[d] = caller[d] \/ caller'[d] = Woken(caller)[d]
  <2>1. CASE \E t \in Targets : Request(c, t) \/ Prefetch(c, t)
    BY <2>1 DEF Request, Prefetch, TypeOK
  <2>2. CASE Register(c)
    <3> DEFINE woken == Woken(caller)
    <3>1. \/ caller' = [caller EXCEPT ![c].pc = "err"]
          \/ caller' = [woken EXCEPT ![c].pc = LoopTest(c, cancelEpoch),
                                     ![c].epoch = cancelEpoch]
      BY <2>2 DEF Register
    <3>2. woken \in [Callers -> [pc : CallerStates, target : Nat, epoch : Nat]]
      BY WokenKeeps
    <3> HIDE DEF woken
    <3>3. caller'[d] = caller[d] \/ caller'[d] = woken[d]
      BY <3>1, <3>2 DEF TypeOK
    <3> QED
      BY <3>3 DEF woken
  <2>3. CASE Retest(c)
    BY <2>3 DEF Retest, TypeOK
  <2>4. CASE QueuePrefetch(c)
    <3>1. \/ caller' = [caller EXCEPT ![c].pc = "err"]
          \/ caller' = [caller EXCEPT ![c] = IdleCaller]
          \/ caller' = [Woken(caller) EXCEPT ![c] = IdleCaller]
      BY <2>4 DEF QueuePrefetch
    <3> QED
      BY <3>1, WokenKeeps DEF TypeOK
  <2>5. CASE SpuriousWakeup(c) \/ Collect(c)
    BY <2>5 DEF SpuriousWakeup, Collect, TypeOK
  <2> QED
    BY <2>1, <2>2, <2>3, <2>4, <2>5 DEF Acts, CallerStep
<1> QED
  BY <1>1, WokenKeeps DEF AtMostWoken, Waiting, TypeOK, CallerStates

\* A caller that goes on waiting, or begins to, saw a reason to when it looked.
LEMMA WaitsForAReason ==
    ASSUME TypeOK, NEW c \in Callers, Acts(c)
    PROVE  /\ Waiting(c)' => \/ Waiting(c) /\ caller'[c].epoch = caller[c].epoch
                                           /\ caller'[c].target = caller[c].target
                             \/ Register(c) /\ caller'[c].epoch = cancelEpoch
                                            /\ pending' >= caller'[c].target
           /\ caller'[c].pc = "asleep" =>
                /\ caller'[c].epoch = cancelEpoch /\ completed < caller'[c].target
                /\ ~error /\ ~shutdown
           /\ caller'[c].pc = "ok" => \/ published >= caller'[c].target
                                      \/ completed >= caller'[c].target
                                      \/ caller[c].pc = "ok"
                                           /\ caller'[c].target = caller[c].target
<1>1. CASE \E t \in Targets : Request(c, t) \/ Prefetch(c, t)
  BY <1>1 DEF Request, Prefetch, TypeOK, Waiting
<1>2. CASE Register(c)
  <2>1. CASE shutdown \/ error
    BY <1>2, <2>1 DEF Register, TypeOK, Waiting
  <2>2. CASE ~(shutdown \/ error)
    <3> DEFINE woken == Woken(caller)
               outcome == LoopTest(c, cancelEpoch)
    <3>1. /\ caller' = [woken EXCEPT ![c].pc = outcome, ![c].epoch = cancelEpoch]
          /\ pending' = Greatest(pending, caller[c].target)
      BY <1>2, <2>2 DEF Register
    <3>2. /\ woken \in [Callers -> [pc : CallerStates, target : Nat, epoch : Nat]]
          /\ woken[c].target = caller[c].target
      BY WokenKeeps
    <3>3. /\ outcome = "asleep" => completed < caller[c].target
          /\ outcome = "ok" => completed >= caller[c].target
      BY DEF LoopTest, TypeOK
    <3> HIDE DEF woken, outcome
    <3>4. /\ caller'[c].pc = outcome /\ caller'[c].epoch = cancelEpoch
          /\ caller'[c].target = caller[c].target
      BY <3>1, <3>2
    <3>5. pending' >= caller'[c].target
      BY <3>1, <3>4 DEF Greatest, TypeOK
    <3> QED
      BY <1>2, <2>2, <3>3, <3>4, <3>5
  <2> QED
    BY <2>1, <2>2
<1>3. CASE Retest(c)
  <2>1. /\ caller'[c].pc = LoopTest(c, caller[c].epoch)
        /\ caller'[c].epoch = caller[c].epoch /\ caller'[c].target = caller[c].target
        /\ caller[c].pc = "awake"
    BY <1>3 DEF Retest, TypeOK
  <2>2. /\ LoopTest(c, caller[c].epoch) = "asleep" =>
             /\ completed < caller[c].target /\ cancelEpoch = caller[c].epoch
             /\ ~error /\ ~shutdown
        /\ LoopTest(c, caller[c].epoch) = "ok" => completed >= caller[c].target
    BY DEF LoopTest, TypeOK
  <2> QED
    BY <2>1, <2>2 DEF Waiting
<1>4. CASE QueuePrefetch(c)
  BY <1>4, WokenKeeps DEF QueuePrefetch, TypeOK, Waiting, IdleCaller
<1>5. CASE SpuriousWakeup(c) \/ Collect(c)
  BY <1>5 DEF SpuriousWakeup, Collect, TypeOK, Waiting, IdleCaller
<1> QED
  BY <1>1, <1>2, <1>3, <1>4, <1>5 DEF Acts, CallerStep

-----------------------------------------------------------------------------
\* What each kind of step changes, as the invariant's parts see it.

\* A step of the worker, or of the owner of the source.
OtherActs ==
    \/ WorkerStep \/ WorkerSpuriousWakeup
    \/ Stop \/ CancelWaiters \/ Shutdown \/ ResumeProducer
    \/ UNCHANGED vars

\* Every step is one caller's or somebody else's.
LEMMA StepsOf == [Next]_vars => (\E c \in Callers : Acts(c)) \/ OtherActs
BY Zenon DEF Next, Acts, OtherActs

\* The others wake callers, and do nothing else to them.
LEMMA OthersWake ==
    ASSUME TypeOK, OtherActs
    PROVE  \A d \in Callers : AtMostWoken(d)
<1>1. caller' = Woken(caller) \/ caller' = caller
  BY DEF OtherActs, WorkerStep, TakeDemand, TakeGuard, EpochTurn, EpochBatch, CommitEpoch,
         WorkerSpuriousWakeup, Stop, CancelWaiters, Shutdown, ResumeProducer, vars
<1> QED
  BY <1>1, OnlyWoken

\* The owner of the source touches neither the cache nor an epoch.
LEMMA OwnerFrame ==
    ASSUME TypeOK, \/ WorkerSpuriousWakeup \/ Stop \/ CancelWaiters \/ Shutdown
                   \/ ResumeProducer \/ UNCHANGED vars
    PROVE  /\ UNCHANGED <<published, pending, completed, active, target, error>>
           /\ worker' = worker \/ worker' = WokenWorker(worker)
BY DEF WorkerSpuriousWakeup, Stop, CancelWaiters, Shutdown, ResumeProducer, vars, shared,
       WokenWorker

\* The cache only grows.
LEMMA PublishedGrows ==
    ASSUME TypeOK, EpochState, [Next]_vars
    PROVE  published' \in Nat /\ published' >= published
<1>1. CASE \E c \in Callers : Acts(c)
  BY <1>1, CallerFrame DEF TypeOK
<1>2. CASE EpochBatch
  BY <1>2 DEF EpochBatch, EpochState, TypeOK
<1>3. CASE TakeDemand \/ TakeGuard \/ EpochTurn \/ CommitEpoch
  <2>1. published' = published
    BY <1>3 DEF TakeDemand, TakeGuard, EpochTurn, CommitEpoch
  <2> QED
    BY <2>1 DEF TypeOK
<1>4. CASE OtherActs /\ ~WorkerStep
  BY <1>4, OwnerFrame DEF OtherActs, TypeOK
<1> QED
  BY <1>1, <1>2, <1>3, <1>4, StepsOf DEF OtherActs, WorkerStep

\* An epoch is what the worker is in, and it completes what it has published.
LEMMA EpochStateStep ==
    ASSUME TypeOK, EpochState, [Next]_vars
    PROVE  EpochState'
<1>1. ASSUME UNCHANGED <<published, completed, active, target>>,
             worker' = worker \/ worker' = WokenWorker(worker)
      PROVE  EpochState'
  BY <1>1, WokenWorkerKeeps DEF EpochState
<1>2. CASE \E c \in Callers : Acts(c)
  BY <1>1, <1>2, CallerFrame
<1>3. CASE TakeDemand
  BY <1>3 DEF TakeDemand, EpochState, TypeOK
<1>4. CASE TakeGuard \/ EpochTurn
  <2>1. CASE TakeGuard
    BY <2>1 DEF TakeGuard, EpochState, TypeOK, shared
  <2>2. CASE EpochTurn
    BY <2>2, EpochTurnPlans DEF EpochTurn, EpochState, shared
  <2> QED
    BY <1>4, <2>1, <2>2
<1>5. CASE EpochBatch
  <2>1. completed' <= published'
    BY <1>5, PublishedGrows DEF EpochBatch, EpochState, TypeOK, shared
  <2>2. /\ worker'.pc \in {"epoch", "commit"}
        /\ worker'.pc = "commit" => ~worker'.ok
        /\ worker.pc = "batch" /\ active' = active
    BY <1>5 DEF EpochBatch, TypeOK, shared
  <2> QED
    BY <2>1, <2>2 DEF EpochState
<1>6. CASE CommitEpoch
  BY <1>6 DEF CommitEpoch, EpochState, TypeOK, Greatest
<1>7. CASE OtherActs /\ ~WorkerStep
  BY <1>1, <1>7, OwnerFrame DEF OtherActs
<1> QED
  BY <1>2, <1>3, <1>4, <1>5, <1>6, <1>7, StepsOf DEF OtherActs, WorkerStep

\* The worker sleeps with nothing to do.
LEMMA WorkerNotForgottenStep ==
    ASSUME TypeOK, WorkerNotForgotten, [Next]_vars
    PROVE  WorkerNotForgotten'
<1>1. CASE \E c \in Callers : Acts(c)
  BY <1>1, CallerFrame, WokenWorkerKeeps DEF WorkerNotForgotten
<1>2. CASE WorkerStep
  BY <1>2 DEF WorkerStep, TakeDemand, TakeGuard, EpochTurn, EpochBatch, CommitEpoch, TypeOK,
              WorkerNotForgotten, shared
<1>3. CASE CancelWaiters \/ Shutdown \/ ResumeProducer
  BY <1>3, WokenWorkerKeeps DEF CancelWaiters, Shutdown, ResumeProducer, WorkerNotForgotten
<1>4. CASE WorkerSpuriousWakeup \/ Stop \/ UNCHANGED vars
  BY <1>4 DEF WorkerSpuriousWakeup, Stop, WorkerNotForgotten, vars, shared, TypeOK
<1> QED
  BY <1>1, <1>2, <1>3, <1>4, StepsOf DEF OtherActs

\* A cancellation is a later epoch than any that is waited in.
LEMMA EpochsPassedStep ==
    ASSUME TypeOK, TypeOK', EpochsPassed, [Next]_vars
    PROVE  EpochsPassed'
<1>1. CASE \E c \in Callers : Acts(c)
  <2> PICK c \in Callers : Acts(c)
    BY <1>1
  <2> SUFFICES ASSUME NEW d \in Callers, Waiting(d)' PROVE caller'[d].epoch <= cancelEpoch'
    BY DEF EpochsPassed, Waiting
  <2>1. cancelEpoch' = cancelEpoch
    BY CallerFrame
  <2>2. CASE d = c
    BY <2>1, <2>2, WaitsForAReason DEF EpochsPassed, TypeOK
  <2>3. CASE d # c
    BY <2>1, <2>3, OthersAtMostWoken DEF EpochsPassed, AtMostWoken
  <2> QED
    BY <2>2, <2>3
<1>2. CASE OtherActs
  <2>1. cancelEpoch' = cancelEpoch \/ cancelEpoch' = cancelEpoch + 1
    BY <1>2 DEF OtherActs, WorkerStep, TakeDemand, TakeGuard, EpochTurn, EpochBatch, CommitEpoch,
                WorkerSpuriousWakeup, Stop, CancelWaiters, Shutdown, ResumeProducer,
                vars, shared
  <2> SUFFICES ASSUME NEW d \in Callers, Waiting(d)' PROVE caller'[d].epoch <= cancelEpoch'
    BY DEF EpochsPassed, Waiting
  <2>2. caller[d].epoch <= cancelEpoch /\ caller'[d].epoch = caller[d].epoch
    BY <1>2, OthersWake DEF EpochsPassed, AtMostWoken
  <2> QED
    BY <2>1, <2>2 DEF TypeOK
<1> QED
  BY <1>1, <1>2, StepsOf

\* Whatever a sleeper looked at wakes it when it changes.
LEMMA SleepersUpToDateStep ==
    ASSUME TypeOK, SleepersUpToDate, [Next]_vars
    PROVE  SleepersUpToDate'
<1> SUFFICES ASSUME NEW d \in Callers, caller'[d].pc = "asleep"
             PROVE  /\ caller'[d].epoch = cancelEpoch' /\ completed' < caller'[d].target
                    /\ ~error' /\ ~shutdown'
  BY DEF SleepersUpToDate
<1>1. CASE \E c \in Callers : Acts(c)
  <2> PICK c \in Callers : Acts(c)
    BY <1>1
  <2>1. UNCHANGED <<completed, cancelEpoch, error, shutdown>>
    BY CallerFrame
  <2>2. CASE d = c
    BY <2>1, <2>2, WaitsForAReason
  <2>3. CASE d # c
    BY <2>1, <2>3, OthersAtMostWoken DEF SleepersUpToDate, AtMostWoken
  <2> QED
    BY <2>2, <2>3
<1>2. CASE CommitEpoch \/ CancelWaiters \/ Shutdown \/ ResumeProducer
  <2>1. caller' = Woken(caller)
    BY <1>2 DEF CommitEpoch, CancelWaiters, Shutdown, ResumeProducer
  <2> QED
    BY <2>1, WokenKeeps
<1>3. CASE \/ TakeDemand \/ TakeGuard \/ EpochTurn \/ EpochBatch \/ WorkerSpuriousWakeup \/ Stop
           \/ UNCHANGED vars
  <2>1. UNCHANGED <<completed, cancelEpoch, error, shutdown>>
    BY <1>3 DEF TakeDemand, TakeGuard, EpochTurn, EpochBatch, WorkerSpuriousWakeup, Stop,
                vars, shared
  <2>2. AtMostWoken(d)
    BY <1>3, OthersWake DEF OtherActs, WorkerStep
  <2> QED
    BY <2>1, <2>2 DEF SleepersUpToDate, AtMostWoken
<1> QED
  BY <1>1, <1>2, <1>3, StepsOf DEF OtherActs, WorkerStep

\* No step leaves a waiting caller behind with nothing in work for it.
LEMMA WaitersCoveredStep ==
    ASSUME TypeOK, TypeOK', EpochState, EpochsPassed, WaitersCovered, [Next]_vars
    PROVE  WaitersCovered'
<1> SUFFICES ASSUME NEW d \in Callers, Waiting(d)', caller'[d].epoch = cancelEpoch',
                    ~shutdown', ~error'
             PROVE  \/ completed' >= caller'[d].target
                    \/ pending' >= caller'[d].target
                    \/ active' /\ target' >= caller'[d].target /\ ~cancelled'
  BY DEF WaitersCovered, Waiting
<1> DEFINE Covered == \/ completed >= caller[d].target
                      \/ pending >= caller[d].target
                      \/ active /\ target >= caller[d].target /\ ~cancelled
<1>1. CASE \E c \in Callers : Acts(c)
  <2> PICK c \in Callers : Acts(c)
    BY <1>1
  <2>1. /\ UNCHANGED <<completed, active, target, shutdown, cancelEpoch, error, cancelled>>
        /\ pending' >= pending
    BY CallerFrame DEF TypeOK
  <2>2. CASE Waiting(d) /\ caller'[d].epoch = caller[d].epoch
                        /\ caller'[d].target = caller[d].target
    <3>1. Covered
      BY <2>1, <2>2 DEF WaitersCovered
    <3> QED
      BY <2>1, <2>2, <3>1 DEF TypeOK
  <2>3. CASE d = c /\ pending' >= caller'[d].target
    BY <2>3
  <2> QED
    BY <2>2, <2>3, WaitsForAReason, OthersAtMostWoken DEF AtMostWoken
<1>2. ASSUME OtherActs PROVE AtMostWoken(d)
  BY <1>2, OthersWake
<1>3. CASE CancelWaiters
  <2>1. cancelEpoch' = cancelEpoch + 1
    BY <1>3 DEF CancelWaiters
  <2>2. caller'[d].epoch <= cancelEpoch
    BY <1>2, <1>3 DEF EpochsPassed, AtMostWoken, OtherActs
  <2> QED
    BY <2>1, <2>2 DEF TypeOK
<1>4. CASE Shutdown
  BY <1>4, Zenon DEF Shutdown
<1>5. CASE OtherActs /\ ~CancelWaiters /\ ~Shutdown
  <2>1. AtMostWoken(d)
    BY <1>2, <1>5
  <2>2. UNCHANGED <<shutdown, cancelEpoch>>
    BY <1>5 DEF OtherActs, WorkerStep, TakeDemand, TakeGuard, EpochTurn, EpochBatch, CommitEpoch,
                WorkerSpuriousWakeup, Stop, ResumeProducer, vars, shared
  <2>3. ~error
    <3>1. CASE CommitEpoch
      BY <3>1, Zenon DEF CommitEpoch
    <3>2. CASE ~CommitEpoch
      BY <1>5, <3>2 DEF OtherActs, WorkerStep, TakeDemand, TakeGuard, EpochTurn, EpochBatch,
                        WorkerSpuriousWakeup, Stop, ResumeProducer, vars, shared
    <3> QED
      BY <3>1, <3>2
  <2>4. Covered
    BY <2>1, <2>2, <2>3 DEF WaitersCovered, AtMostWoken
  <2> HIDE DEF Covered
  <2>5. CASE TakeDemand
    <3>1. ~active
      BY <2>5 DEF TakeDemand, EpochState
    <3> QED
      BY <2>1, <2>4, <2>5, <3>1 DEF TakeDemand, AtMostWoken, Covered, TypeOK
  <2>6. CASE CommitEpoch
    <3>1. worker.ok \/ cancelled
      BY <2>6, Zenon DEF CommitEpoch
    <3> QED
      BY <2>1, <2>4, <2>6, <3>1 DEF CommitEpoch, AtMostWoken, Covered, TypeOK, Greatest
  <2>7. CASE ~TakeDemand /\ ~CommitEpoch
    <3>1. UNCHANGED <<completed, pending, active, target, cancelled>>
      BY <1>5, <2>7 DEF OtherActs, WorkerStep, TakeGuard, EpochTurn, EpochBatch,
                        WorkerSpuriousWakeup, Stop, ResumeProducer, vars, shared
    <3> QED
      BY <2>1, <2>4, <3>1 DEF AtMostWoken, Covered
  <2> QED
    BY <2>5, <2>6, <2>7
<1> QED
  BY <1>1, <1>3, <1>4, <1>5, StepsOf

\* A caller is told that it has its digits when they are complete, and the
\* cache does not shrink.
LEMMA OkMeansPublishedStep ==
    ASSUME TypeOK, TypeOK', EpochState, OkMeansPublished, [Next]_vars
    PROVE  OkMeansPublished'
<1> SUFFICES ASSUME NEW d \in Callers, caller'[d].pc = "ok"
             PROVE  published' >= caller'[d].target
  BY DEF OkMeansPublished
<1>1. published' >= published /\ completed <= published
  BY PublishedGrows DEF EpochState
<1>2. CASE AtMostWoken(d)
  <2>1. published >= caller'[d].target
    BY <1>2 DEF OkMeansPublished, AtMostWoken
  <2>2. caller'[d].target \in Nat
    BY DEF TypeOK
  <2> QED
    BY <1>1, <2>1, <2>2 DEF TypeOK
<1>3. CASE Acts(d)
  <2>1. published >= caller'[d].target \/ completed >= caller'[d].target
    BY <1>3, WaitsForAReason DEF OkMeansPublished
  <2>2. caller'[d].target \in Nat
    BY DEF TypeOK
  <2> QED
    BY <1>1, <2>1, <2>2 DEF TypeOK
<1> QED
  BY <1>2, <1>3, StepsOf, OthersAtMostWoken, OthersWake

\* The callers that wait are finitely many, and one more or one fewer of them
\* counts as one.
LEMMA CountOne ==
    ASSUME NEW c \in Callers
    PROVE  /\ IsFiniteSet(Waiters) /\ Cardinality(Waiters) \in Nat
           /\ ~Waiting(c) => Cardinality(Waiters \cup {c}) = Cardinality(Waiters) + 1
           /\ Waiting(c) => Cardinality(Waiters \ {c}) = Cardinality(Waiters) - 1
<1>1. Waiters \subseteq Callers /\ (c \in Waiters <=> Waiting(c))
  BY DEF Waiters
<1>2. IsFiniteSet(Waiters)
  BY <1>1, UseAssumption, FS_Subset
<1> QED
  BY <1>1, <1>2, FS_CardinalityType, FS_AddElement, FS_RemoveElement

\* Whoever begins to wait is counted, and whoever leaves is counted off.
LEMMA WaitersCountedStep ==
    ASSUME TypeOK, WaitersCounted, [Next]_vars
    PROVE  WaitersCounted'
<1>1. waiters = Cardinality(Waiters)
  BY DEF WaitersCounted, Waiters
<1>2. SUFFICES waiters' = Cardinality(Waiters')
  BY DEF WaitersCounted, Waiters
<1>3. Waiters' = {d \in Callers : Waiting(d)'}
  BY DEF Waiters
<1>4. CASE OtherActs
  <2>1. Waiters' = Waiters
    BY <1>3, <1>4, OthersWake DEF Waiters, AtMostWoken
  <2>2. waiters' = waiters
    BY <1>4 DEF OtherActs, WorkerStep, TakeDemand, TakeGuard, EpochTurn, EpochBatch, CommitEpoch,
                WorkerSpuriousWakeup, Stop, CancelWaiters, Shutdown, ResumeProducer,
                vars, shared
  <2> QED
    BY <1>1, <2>1, <2>2
<1>5. CASE \E c \in Callers : Acts(c)
  <2> PICK c \in Callers : Acts(c)
    BY <1>5
  <2>1. \A d \in Callers \ {c} : Waiting(d)' <=> Waiting(d)
    BY OthersAtMostWoken DEF AtMostWoken
  <2>2. \/ (Waiting(c)' <=> Waiting(c)) /\ waiters' = waiters
        \/ Waiting(c)' /\ ~Waiting(c) /\ waiters' = waiters + 1
        \/ ~Waiting(c)' /\ Waiting(c) /\ waiters' = Monus(waiters, 1)
    <3>1. CASE Register(c) /\ ~(shutdown \/ error)
      <4> DEFINE woken == Woken(caller)
                 outcome == LoopTest(c, cancelEpoch)
      <4>1. /\ caller' = [woken EXCEPT ![c].pc = outcome, ![c].epoch = cancelEpoch]
            /\ caller[c].pc = "register"
            /\ waiters' = IF outcome \in {"ok", "err"} THEN waiters ELSE waiters + 1
        BY <3>1 DEF Register, Leaves
      <4>2. woken \in [Callers -> [pc : CallerStates, target : Nat, epoch : Nat]]
        BY WokenKeeps
      <4>3. outcome \in {"ok", "err", "asleep"}
        BY DEF LoopTest
      <4> HIDE DEF woken, outcome
      <4>4. caller'[c].pc = outcome
        BY <4>1, <4>2
      <4> QED
        BY <4>1, <4>3, <4>4 DEF Waiting
    <3>2. CASE Register(c) /\ (shutdown \/ error)
      BY <3>2 DEF Register, TypeOK, Waiting, shared
    <3>3. CASE Retest(c)
      <4>1. /\ caller'[c].pc = LoopTest(c, caller[c].epoch) /\ caller[c].pc = "awake"
            /\ waiters' = IF LoopTest(c, caller[c].epoch) \in {"ok", "err"}
                          THEN Monus(waiters, 1) ELSE waiters
        BY <3>3 DEF Retest, Leaves, TypeOK
      <4>2. LoopTest(c, caller[c].epoch) \in {"ok", "err", "asleep"}
        BY DEF LoopTest
      <4> QED
        BY <4>1, <4>2 DEF Waiting
    <3>4. CASE \E t \in Targets : Request(c, t) \/ Prefetch(c, t)
      BY <3>4 DEF Request, Prefetch, TypeOK, Waiting, shared
    <3>5. CASE QueuePrefetch(c)
      BY <3>5, WokenKeeps DEF QueuePrefetch, TypeOK, Waiting, IdleCaller
    <3>6. CASE SpuriousWakeup(c) \/ Collect(c)
      BY <3>6 DEF SpuriousWakeup, Collect, TypeOK, Waiting, IdleCaller, shared
    <3> QED
      BY <3>1, <3>2, <3>3, <3>4, <3>5, <3>6 DEF Acts, CallerStep
  <2>3. \/ (Waiting(c)' <=> Waiting(c)) /\ Waiters' = Waiters
        \/ Waiting(c)' /\ ~Waiting(c) /\ Waiters' = Waiters \cup {c}
        \/ ~Waiting(c)' /\ Waiting(c) /\ Waiters' = Waiters \ {c}
    BY <1>3, <2>1, Zenon DEF Waiters
  <2>4. Waiting(c) => waiters \in Nat \ {0}
    BY <1>1, CountOne, FS_EmptySet DEF Waiters, TypeOK
  <2>5. CASE Waiting(c)' <=> Waiting(c)
    BY <1>1, <2>2, <2>3, <2>5
  <2>6. CASE Waiting(c)' /\ ~Waiting(c)
    <3>1. waiters' = waiters + 1 /\ Waiters' = Waiters \cup {c}
      BY <2>2, <2>3, <2>6
    <3> QED
      BY <1>1, <2>6, <3>1, CountOne
  <2>7. CASE ~Waiting(c)' /\ Waiting(c)
    <3>1. waiters' = Monus(waiters, 1) /\ Waiters' = Waiters \ {c}
      BY <2>2, <2>3, <2>7
    <3>2. Monus(waiters, 1) = waiters - 1
      BY <2>4, <2>7 DEF Monus
    <3> QED
      BY <1>1, <2>7, <3>1, <3>2, CountOne
  <2> QED
    BY <2>5, <2>6, <2>7
<1> QED
  BY <1>4, <1>5, StepsOf

-----------------------------------------------------------------------------
\* The invariant is inductive, and it gives what the runs check.

\* At first nobody waits.
LEMMA IInvInit == Init => IInv
<1> SUFFICES ASSUME Init PROVE IInv
  OBVIOUS
<1>1. TypeOK
  BY TypeInit
<1>2. \A c \in Callers : caller[c].pc = "idle"
  BY DEF Init, IdleCaller
<1>3. EpochState
  BY DigitsAssumption DEF Init, EpochState
<1>4. /\ EpochsPassed /\ SleepersUpToDate /\ WaitersCovered /\ OkMeansPublished
      /\ WorkerNotForgotten
  BY <1>2 DEF Init, EpochsPassed, SleepersUpToDate, WaitersCovered, OkMeansPublished,
              WorkerNotForgotten, Waiting
<1>5. WaitersCounted
  <2>1. {c \in Callers : Waiting(c)} = {}
    BY <1>2 DEF Waiting
  <2> QED
    BY <2>1, FS_EmptySet DEF WaitersCounted, Init
<1> QED
  BY <1>1, <1>3, <1>4, <1>5 DEF IInv

\* Every step keeps every part.
LEMMA IInvStep == IInv /\ [Next]_vars => IInv'
<1> SUFFICES ASSUME IInv, [Next]_vars PROVE IInv'
  OBVIOUS
<1>1. TypeOK'
  BY TypeStep DEF IInv
<1> QED
  BY <1>1, EpochStateStep, EpochsPassedStep, SleepersUpToDateStep, WaitersCoveredStep,
     OkMeansPublishedStep, WorkerNotForgottenStep, WaitersCountedStep DEF IInv

\* A sleeper is a waiter whose reasons to leave have not come up.
LEMMA IInvImplies == IInv => ProducerInvariant
<1>1. ASSUME IInv PROVE DemandIsCovered
  <2> SUFFICES ASSUME NEW c \in Callers, caller[c].pc = "asleep"
               PROVE  /\ pending >= caller[c].target \/ (active /\ target >= caller[c].target)
                      /\ caller[c].epoch = cancelEpoch
                      /\ completed < caller[c].target
                      /\ ~error /\ ~shutdown
    BY DEF DemandIsCovered
  <2>1. /\ caller[c].epoch = cancelEpoch /\ completed < caller[c].target
        /\ ~error /\ ~shutdown
    BY <1>1 DEF IInv, SleepersUpToDate
  <2>2. \/ completed >= caller[c].target
        \/ pending >= caller[c].target
        \/ active /\ target >= caller[c].target
    BY <1>1, <2>1 DEF IInv, WaitersCovered, Waiting
  <2>3. ~(completed >= caller[c].target)
    BY <1>1, <2>1 DEF IInv, TypeOK
  <2> QED
    BY <2>1, <2>2, <2>3
<1> QED
  BY <1>1 DEF IInv, ProducerInvariant

\* Coalescing, cancelling and failing forget nobody: while a caller sleeps its
\* demand is queued or in the running epoch, whoever was told it has its digits
\* has them, and the worker sleeps only with nothing to do.
THEOREM ProducerCorrect == Spec => []ProducerInvariant
<1>1. Spec => []IInv
  BY IInvInit, IInvStep, PTL DEF Spec
<1> QED
  BY <1>1, IInvImplies, PTL

-----------------------------------------------------------------------------
(* The command.                                                            *)

CommandStates == {"resolve", "generate", "count", "launch", "running", "import", "done", "failed"}
Reasons == {"built-in", "selection", "executable_changed", "process_failed", "output_invalid",
            "import_failed"}
CommandType ==
    [pc : CommandStates, selected : {None, "y-cruncher", "cpu"}, path : Generate!Paths \cup {None},
     validated : Generate!Executable \cup {None}, start : Nat, target : Nat, existing : Nat,
     launched : Generate!Executable \cup {None}, raced : BOOLEAN, retried : BOOLEAN,
     added : Nat, reported : Nat, failures : SUBSET Reasons]

CommandTypes ==
    /\ request \in Requests
    /\ files \in [Generate!Paths -> Generate!Executable]
    /\ replacements \in Nat /\ foreign \in Nat
    /\ text \in Seq(Int)
    /\ generate \in CommandType

\* An external program is run only for who did not ask for the built-in one,
\* and never after the built-in one was turned to.
External == generate.pc \in {"count", "launch", "running", "import"}
Selection ==
    /\ External => generate.selected = "y-cruncher"
    /\ generate.pc = "generate" => generate.selected # None
    /\ generate.selected = "y-cruncher" => generate.path \in Generate!Paths /\ ~generate.retried
    /\ generate.selected = "cpu" => request.backend # "y-cruncher"
    /\ generate.retried => generate.selected = "cpu"
    /\ request.backend = "y-cruncher" /\ request.preferred => generate.path \in {None, "preferred"}
    /\ generate.pc = "resolve" =>
           generate.selected = None /\ generate.added = 0 /\ generate.start = 0

\* The program that is run is the validated one, or was replaced just then.
Launching ==
    /\ generate.pc = "launch" =>
           \/ files[generate.path] = generate.validated /\ Generate!Valid(generate.path)
           \/ generate.raced
    /\ Generate!LaunchesWhatItValidated
    /\ generate.pc \in {"running", "import"} =>
           generate.launched \in Generate!Executable /\ generate.launched.content \in Generate!Programs
    /\ generate.pc \notin {"running", "import", "done", "failed"} /\ generate.selected # "cpu" =>
           generate.launched = None

\* Foreign digits never make a target smaller than what was asked for.
Counting ==
    /\ generate.pc # "resolve" => generate.start <= Len(text)
    /\ External => generate.target >= generate.start + request.digits

\* Until the command is done it has added something only if it failed after
\* a publication.
Accounting ==
    /\ Generate!CacheIsAccountedFor
    /\ generate.added = 0 \/ generate.pc = "done" \/ Generate!AnAppendFailed
    /\ Generate!DoneMeansThere

\* The directory lives as long as its program, and holds what that one left.
Directory ==
    /\ output = None \/ (output = <<>> /\ generate.raced) \/ generate.pc \in {"running", "import"}
    /\ generate.pc = "import" => output \in Generate!Outputs

CommandInv ==
    /\ CommandTypes /\ Selection /\ Generate!AutoDelivers /\ Launching
    /\ Counting /\ Accounting /\ Directory

-----------------------------------------------------------------------------
LEMMA RequestFields ==
    ASSUME CommandTypes
    PROVE  /\ request.backend \in {"cpu", "y-cruncher", "auto"} /\ request.preferred \in BOOLEAN
           /\ request.digits \in Nat
<1>1. request \in [backend : {"cpu", "y-cruncher", "auto"}, preferred : BOOLEAN, digits : Nat]
  BY CommandAssumption DEF CommandTypes, Generate!CommandConstants
<1> QED
  BY <1>1

LEMMA CommandFields ==
    ASSUME NEW c \in CommandType
    PROVE  /\ c.pc \in CommandStates /\ c.selected \in {None, "y-cruncher", "cpu"}
           /\ c.path \in Generate!Paths \cup {None}
           /\ c.validated \in Generate!Executable \cup {None}
           /\ c.start \in Nat /\ c.target \in Nat /\ c.existing \in Nat
           /\ c.launched \in Generate!Executable \cup {None} /\ c.raced \in BOOLEAN
           /\ c.retried \in BOOLEAN /\ c.added \in Nat /\ c.reported \in Nat
           /\ c.failures \in SUBSET Reasons
BY DEF CommandType

LEMMA NoneIsNothing ==
    None \notin Generate!Executable /\ None \notin Generate!Paths /\ None # "cpu" /\ None # "y-cruncher"
BY CommandAssumption DEF Generate!CommandConstants

\* What a failure makes of the command.
LEMMA FailedIs ==
    ASSUME CommandTypes, NEW reason \in Reasons, NEW late \in Nat
    PROVE  LET c == Generate!Failed(reason, late)
           IN  /\ c \in CommandType
               /\ \/ c.pc = "generate" /\ c.selected = "cpu" /\ c.retried
                     /\ request.backend = "auto"
                  \/ c.pc = "failed" /\ c.selected = generate.selected
                     /\ c.retried = generate.retried
                     /\ (generate.retried \/ request.backend # "auto")
               /\ c.path = generate.path /\ c.validated = generate.validated
               /\ c.start = generate.start /\ c.launched = generate.launched
               /\ c.raced = generate.raced
               /\ c.added = generate.added + late
               /\ c.failures = generate.failures \cup {reason}
<1>1. generate \in CommandType
  BY DEF CommandTypes
<1> DEFINE f == generate.failures \cup {reason}
           a == generate.added + late
<1>0. f \in SUBSET Reasons /\ a \in Nat
  BY <1>1, CommandFields
<1>2. CASE request.backend = "auto" /\ ~generate.retried
  <2> DEFINE c == [generate EXCEPT !.pc = "generate", !.selected = "cpu", !.retried = TRUE,
                         !.failures = f, !.added = a]
  <2>1. Generate!Failed(reason, late) = c
    BY <1>2 DEF Generate!Failed
  <2>2. /\ c \in CommandType
        /\ c.pc = "generate" /\ c.selected = "cpu" /\ c.retried
        /\ c.path = generate.path /\ c.validated = generate.validated
        /\ c.start = generate.start /\ c.launched = generate.launched
        /\ c.raced = generate.raced
        /\ c.added = a /\ c.failures = f
    <3> HIDE DEF f, a
    <3> QED BY <1>0, <1>1 DEF CommandType, CommandStates
  <2> QED
    BY <1>2, <2>1, <2>2
<1>3. CASE ~(request.backend = "auto" /\ ~generate.retried)
  <2> DEFINE c == [generate EXCEPT !.pc = "failed", !.failures = f, !.added = a]
  <2>1. Generate!Failed(reason, late) = c
    BY <1>3 DEF Generate!Failed
  <2>2. /\ c \in CommandType
        /\ c.pc = "failed" /\ c.selected = generate.selected
        /\ c.retried = generate.retried
        /\ c.path = generate.path /\ c.validated = generate.validated
        /\ c.start = generate.start /\ c.launched = generate.launched
        /\ c.raced = generate.raced
        /\ c.added = a /\ c.failures = f
    <3> HIDE DEF f, a
    <3> QED BY <1>0, <1>1 DEF CommandType, CommandStates
  <2> QED
    BY <1>3, <2>1, <2>2
<1> QED
  BY <1>2, <1>3

LEMMA DoneIs ==
    ASSUME CommandTypes, NEW generated \in Nat
    PROVE  LET c == Generate!Done(generate, generated)
           IN  /\ c \in CommandType /\ c.pc = "done" /\ c.selected = generate.selected
               /\ c.retried = generate.retried
               /\ c.path = generate.path /\ c.validated = generate.validated
               /\ c.start = generate.start /\ c.launched = generate.launched
               /\ c.raced = generate.raced
               /\ c.added = generate.added + generated /\ c.reported = generated
               /\ c.failures = generate.failures
<1> DEFINE a == generate.added + generated
           c == [generate EXCEPT !.pc = "done", !.reported = generated, !.added = a]
<1>1. generate \in CommandType
  BY DEF CommandTypes
<1>2. a \in Nat
  BY <1>1, CommandFields
<1>3. Generate!Done(generate, generated) = c
  BY DEF Generate!Done
<1>4. /\ c \in CommandType /\ c.pc = "done" /\ c.selected = generate.selected
      /\ c.retried = generate.retried
      /\ c.path = generate.path /\ c.validated = generate.validated
      /\ c.start = generate.start /\ c.launched = generate.launched
      /\ c.raced = generate.raced
      /\ c.added = a /\ c.reported = generated
      /\ c.failures = generate.failures
  <2> HIDE DEF a
  <2> QED BY <1>1, <1>2 DEF CommandType, CommandStates
<1> QED
  BY <1>3, <1>4

\* Positions of pi.
LEMMA RunIs ==
    ASSUME NEW a \in Nat, NEW b \in Nat, a <= b
    PROVE  /\ Generate!Run(a, b) \in Seq(Int) /\ Len(Generate!Run(a, b)) = b - a
           /\ \A k \in 1..(b - a) : Generate!Run(a, b)[k] = a + k
BY DEF Generate!Run

LEMMA RunFromStart ==
    ASSUME NEW n \in Nat
    PROVE  /\ Generate!Run(0, n) \in Seq(Int) /\ Len(Generate!Run(0, n)) = n
           /\ \A k \in 1..n : Generate!Run(0, n)[k] = k
<1>1. 0 <= n /\ n - 0 = n /\ \A k \in 1..n : 0 + k = k
  OBVIOUS
<1> QED
  BY <1>1, RunIs

LEMMA JoinedAt ==
    ASSUME NEW s \in Seq(Int), NEW t \in Seq(Int), NEW k \in 1..(Len(s) + Len(t))
    PROVE  (s \o t)[k] = IF k <= Len(s) THEN s[k] ELSE t[k - Len(s)]
OBVIOUS

LEMMA TextsEqual ==
    ASSUME NEW s \in Seq(Int), NEW t \in Seq(Int), Len(s) = Len(t),
           \A i \in 1..Len(s) : s[i] = t[i]
    PROVE  s = t
OBVIOUS

LEMMA RunBeyond ==
    ASSUME NEW n \in Nat, NEW d \in Nat
    PROVE  /\ Generate!Run(n, n + d) \in Seq(Int) /\ Len(Generate!Run(n, n + d)) = d
<1>1. n + d \in Nat /\ n <= n + d /\ n + d - n = d
  OBVIOUS
<1> QED BY <1>1, RunIs

LEMMA RunGrows ==
    ASSUME NEW n \in Nat, NEW d \in Nat
    PROVE  Generate!Run(0, n) \o Generate!Run(n, n + d) = Generate!Run(0, n + d)
<1>1. /\ Generate!Run(0, n) \in Seq(Int) /\ Len(Generate!Run(0, n)) = n
      /\ \A k \in 1..n : Generate!Run(0, n)[k] = k
  BY RunFromStart
<1>2. /\ Generate!Run(n, n + d) \in Seq(Int) /\ Len(Generate!Run(n, n + d)) = d
      /\ \A k \in 1..d : Generate!Run(n, n + d)[k] = n + k
  <2>1. n + d \in Nat /\ n <= n + d /\ n + d - n = d
    OBVIOUS
  <2> QED BY <2>1, RunIs
<1>3. /\ Generate!Run(0, n + d) \in Seq(Int) /\ Len(Generate!Run(0, n + d)) = n + d
      /\ \A k \in 1..(n + d) : Generate!Run(0, n + d)[k] = k
  BY RunFromStart
<1> DEFINE s == Generate!Run(0, n)
           t == Generate!Run(n, n + d)
           u == Generate!Run(0, n + d)
<1> HIDE DEF s, t, u
<1>4. s \o t \in Seq(Int) /\ Len(s \o t) = n + d
  <2>1. s \o t \in Seq(Int) /\ Len(s \o t) = Len(s) + Len(t)
    BY <1>1, <1>2 DEF s, t
  <2> QED BY <1>1, <1>2, <2>1 DEF s, t
<1>5. ASSUME NEW k \in 1..(n + d) PROVE (s \o t)[k] = u[k]
  <2>1. s \in Seq(Int) /\ Len(s) = n /\ t \in Seq(Int) /\ Len(t) = d
    BY <1>1, <1>2 DEF s, t
  <2>2. CASE k <= n
    <3>1. (s \o t)[k] = s[k] /\ k \in 1..n
      BY <2>1, <2>2
    <3> QED BY <1>1, <1>3, <3>1 DEF s, u
  <2>3. CASE k > n
    <3>1. k - n \in 1..d /\ n + (k - n) = k
      BY <2>3
    <3>2. (s \o t)[k] = t[k - n]
      <4>1. (s \o t)[k] = IF k <= Len(s) THEN s[k] ELSE t[k - Len(s)]
        BY <2>1, JoinedAt
      <4> QED BY <2>1, <2>3, <4>1
    <3> QED BY <1>2, <1>3, <3>1, <3>2 DEF t, u
  <2>4. k <= n \/ k > n
    OBVIOUS
  <2> QED BY <2>2, <2>3, <2>4
<1>6. s \o t = u
  BY <1>3, <1>4, <1>5, TextsEqual DEF u
<1> QED
  BY <1>6 DEF s, t, u

LEMMA RunAppends ==
    ASSUME NEW n \in Nat
    PROVE  Append(Generate!Run(0, n), n + 1) = Generate!Run(0, n + 1)
<1>1. /\ Generate!Run(0, n) \in Seq(Int) /\ Len(Generate!Run(0, n)) = n
      /\ \A k \in 1..n : Generate!Run(0, n)[k] = k
  BY RunFromStart
<1>2. /\ Generate!Run(0, n + 1) \in Seq(Int) /\ Len(Generate!Run(0, n + 1)) = n + 1
      /\ \A k \in 1..(n + 1) : Generate!Run(0, n + 1)[k] = k
  BY RunFromStart
<1> DEFINE s == Generate!Run(0, n)
           u == Generate!Run(0, n + 1)
<1> HIDE DEF s, u
<1>3. s \in Seq(Int) /\ Len(s) = n /\ \A k \in 1..n : s[k] = k
  BY <1>1 DEF s
<1>4. Append(s, n + 1) \in Seq(Int) /\ Len(Append(s, n + 1)) = n + 1
      /\ \A k \in 1..(n + 1) : Append(s, n + 1)[k] = k
  BY <1>3
<1>5. Append(s, n + 1) = u
  BY <1>2, <1>4, TextsEqual DEF u
<1> QED
  BY <1>5 DEF s, u

-----------------------------------------------------------------------------
(* The actions of the command.                                             *)

\* Of the world, a step of the command itself changes the cache at most.
LEMMA TypesMove ==
    ASSUME CommandTypes, Generate!KeepsWorld, generate' \in CommandType, text' \in Seq(Int)
    PROVE  CommandTypes'
BY DEF CommandTypes, Generate!KeepsWorld

\* After a failure the selection, the program that was run and the count are
\* what they were, or the built-in generator is next.
LEMMA FailureKeeps ==
    ASSUME CommandInv, Generate!KeepsWorld, text' \in Seq(Int), Len(text) <= Len(text'),
           NEW reason \in Reasons, NEW late \in Nat, generate' = Generate!Failed(reason, late),
           generate.pc \notin {"resolve", "done", "failed"},
           generate.selected = "cpu" => reason = "built-in"
    PROVE  /\ CommandTypes' /\ Selection' /\ Generate!AutoDelivers' /\ Launching' /\ Counting'
           /\ Generate!DoneMeansThere' /\ generate'.pc \notin {"running", "import", "done"}
           /\ generate'.launched = generate.launched /\ generate'.raced = generate.raced
           /\ generate'.added = generate.added + late
           /\ generate'.failures = generate.failures \cup {reason}
<1>1. CommandTypes /\ Selection /\ Generate!AutoDelivers /\ Launching /\ Counting
  BY DEF CommandInv
<1>2. /\ generate' \in CommandType
      /\ \/ generate'.pc = "generate" /\ generate'.selected = "cpu" /\ generate'.retried
            /\ request.backend = "auto"
         \/ generate'.pc = "failed" /\ generate'.selected = generate.selected
            /\ generate'.retried = generate.retried
            /\ (generate.retried \/ request.backend # "auto")
      /\ generate'.path = generate.path /\ generate'.validated = generate.validated
      /\ generate'.start = generate.start /\ generate'.launched = generate.launched
      /\ generate'.raced = generate.raced
      /\ generate'.added = generate.added + late
      /\ generate'.failures = generate.failures \cup {reason}
  BY <1>1, FailedIs
<1>3. request' = request /\ files' = files
  BY DEF Generate!KeepsWorld
<1>4. generate \in CommandType /\ generate.start \in Nat /\ Len(text) \in Nat /\ Len(text') \in Nat
  BY <1>1, CommandFields DEF CommandTypes
<1>5. CommandTypes'
  BY <1>1, <1>2, TypesMove
<1>6. Selection'
  BY <1>1, <1>2, <1>3, NoneIsNothing DEF Selection, External
<1>7. Generate!AutoDelivers'
  BY <1>1, <1>2, <1>3 DEF Generate!AutoDelivers, Selection
<1>8. Launching'
  BY <1>1, <1>2 DEF Launching, Generate!LaunchesWhatItValidated
<1>9. Counting' /\ Generate!DoneMeansThere'
  BY <1>1, <1>2, <1>4 DEF Counting, External, Generate!DoneMeansThere
<1> QED
  BY <1>2, <1>5, <1>6, <1>7, <1>8, <1>9

\* A failure that published nothing keeps the account.
LEMMA FailureAccounts ==
    ASSUME CommandInv, Generate!KeepsWorld, text' = text, NEW reason \in Reasons,
           generate' = Generate!Failed(reason, 0), generate.pc \notin {"resolve", "done", "failed"},
           generate.selected = "cpu" => reason = "built-in"
    PROVE  /\ CommandTypes' /\ Selection' /\ Generate!AutoDelivers' /\ Launching' /\ Counting'
           /\ Accounting' /\ generate'.pc \notin {"running", "import", "done"}
           /\ generate'.raced = generate.raced
<1>1. Len(text) <= Len(text') /\ text' \in Seq(Int) /\ generate \in CommandType
  BY DEF CommandInv, CommandTypes
<1>2. /\ CommandTypes' /\ Selection' /\ Generate!AutoDelivers' /\ Launching' /\ Counting'
      /\ Generate!DoneMeansThere' /\ generate'.pc \notin {"running", "import", "done"}
      /\ generate'.launched = generate.launched /\ generate'.raced = generate.raced
      /\ generate'.added = generate.added + 0
      /\ generate'.failures = generate.failures \cup {reason}
  BY <1>1, FailureKeeps
<1>3. generate'.added = generate.added
  BY <1>1, <1>2, CommandFields
<1>4. Accounting'
  BY <1>2, <1>3 DEF CommandInv, Accounting, Generate!AnAppendFailed,
                    Generate!CacheIsAccountedFor, Generate!KeepsWorld
<1> QED
  BY <1>2, <1>4

LEMMA FirstValidIs ==
    ASSUME NEW paths, NEW S, S \subseteq Generate!Paths, \A i \in DOMAIN paths : paths[i] \in S,
           DOMAIN paths \in {{}, {1}, {1, 2}}
    PROVE  Generate!FirstValid(paths) \in S \cup {None}
<1>1. CASE \E i \in DOMAIN paths : Generate!Valid(paths[i])
  <2> DEFINE P(i) == Generate!Valid(paths[i]) /\ \A j \in 1..(i - 1) : ~Generate!Valid(paths[j])
  <2>1. \E i \in DOMAIN paths : P(i)
    <3>1. CASE 1 \in DOMAIN paths /\ Generate!Valid(paths[1])
      <4>1. 1..(1 - 1) = {}
        OBVIOUS
      <4> QED BY <3>1, <4>1
    <3>2. CASE ~(1 \in DOMAIN paths /\ Generate!Valid(paths[1]))
      <4>1. 2 \in DOMAIN paths /\ Generate!Valid(paths[2])
        BY <1>1, <3>2
      <4>2. ~Generate!Valid(paths[1])
        BY <3>2, <4>1
      <4>3. 1..(2 - 1) = {1}
        OBVIOUS
      <4> QED BY <4>1, <4>2, <4>3
    <3> QED BY <3>1, <3>2
  <2>2. Generate!FirstValid(paths) = paths[CHOOSE i \in DOMAIN paths : P(i)]
    BY <1>1 DEF Generate!FirstValid
  <2> HIDE DEF P
  <2> QED
    BY <2>1, <2>2
<1>2. CASE ~\E i \in DOMAIN paths : Generate!Valid(paths[i])
  BY <1>2 DEF Generate!FirstValid
<1> QED
  BY <1>1, <1>2

LEMMA ResolveKeeps ==
    ASSUME CommandInv, Generate!Resolve PROVE CommandInv'
<1> DEFINE path == Generate!FirstValid(Generate!Candidates)
<1>1. /\ generate.pc = "resolve" /\ UNCHANGED <<text, output>> /\ Generate!KeepsWorld
      /\ request' = request /\ files' = files
      /\ generate' =
             IF path # None
             THEN [generate EXCEPT !.pc = "generate", !.selected = "y-cruncher",
                                  !.path = path, !.validated = files[path],
                                  !.start = Len(text)]
             ELSE IF request.backend = "y-cruncher" THEN [generate EXCEPT !.pc = "failed"]
             ELSE [generate EXCEPT !.pc = "generate", !.selected = "cpu", !.start = Len(text)]
  BY DEF Generate!Resolve, Generate!KeepsWorld
<1>2. /\ CommandTypes /\ Selection /\ Generate!AutoDelivers /\ Launching /\ Accounting /\ Directory
      /\ generate \in CommandType /\ files \in [Generate!Paths -> Generate!Executable]
      /\ text \in Seq(Int)
      /\ request.backend \in {"cpu", "y-cruncher", "auto"}
  BY RequestFields DEF CommandInv, CommandTypes
<1>3. /\ path \in Generate!Paths \cup {None}
      /\ request.backend = "cpu" => path = None
      /\ request.backend = "y-cruncher" /\ request.preferred => path \in {None, "preferred"}
  <2>1. CASE request.backend = "cpu"
    <3>1. Generate!Candidates = <<>>
      BY <2>1 DEF Generate!Candidates
    <3>2. DOMAIN <<>> = {}
      OBVIOUS
    <3>3. path \in {} \cup {None}
      BY <3>1, <3>2, FirstValidIs
    <3> QED BY <2>1, <3>3
  <2>2. CASE request.backend = "y-cruncher" /\ request.preferred
    <3>1. Generate!Candidates = <<"preferred">>
      BY <2>2 DEF Generate!Candidates
    <3>2. DOMAIN <<"preferred">> = {1} /\ <<"preferred">>[1] = "preferred"
      OBVIOUS
    <3>3. path \in {"preferred"} \cup {None}
      BY <3>1, <3>2, FirstValidIs DEF Generate!Paths
    <3> QED BY <2>2, <3>3 DEF Generate!Paths
  <2>3. CASE request.backend = "auto" /\ request.preferred
    <3>1. Generate!Candidates = <<"preferred", "found">>
      BY <2>3 DEF Generate!Candidates
    <3>2. /\ DOMAIN <<"preferred", "found">> = {1, 2}
          /\ <<"preferred", "found">>[1] = "preferred" /\ <<"preferred", "found">>[2] = "found"
      OBVIOUS
    <3>3. path \in Generate!Paths \cup {None}
      BY <3>1, <3>2, FirstValidIs DEF Generate!Paths
    <3> QED BY <2>3, <3>3
  <2>4. CASE request.backend # "cpu" /\ ~request.preferred
    <3>1. Generate!Candidates = <<"found">>
      BY <2>4 DEF Generate!Candidates
    <3>2. DOMAIN <<"found">> = {1} /\ <<"found">>[1] = "found"
      OBVIOUS
    <3>3. path \in Generate!Paths \cup {None}
      BY <3>1, <3>2, FirstValidIs DEF Generate!Paths
    <3> QED BY <2>4, <3>3
  <2> QED
    BY <1>2, <2>1, <2>2, <2>3, <2>4
<1> HIDE DEF path
<1>4. /\ generate.selected = None /\ generate.added = 0 /\ generate.launched = None
      /\ ~generate.retried /\ Len(text) \in Nat /\ generate.start = 0
  BY <1>1, <1>2, NoneIsNothing, CommandFields DEF Selection, Launching
<1>5. CASE path # None
  <2> DEFINE exe == files[path]
             n == Len(text)
  <2>1. exe \in Generate!Executable /\ path \in Generate!Paths /\ n \in Nat
    BY <1>2, <1>3, <1>4, <1>5
  <2>2. generate' = [generate EXCEPT !.pc = "generate", !.selected = "y-cruncher",
                                  !.path = path, !.validated = exe, !.start = n]
    BY <1>1, <1>5
  <2> HIDE DEF exe, n
  <2>3. /\ generate' \in CommandType /\ generate'.pc = "generate"
        /\ generate'.selected = "y-cruncher"
        /\ generate'.path = path /\ generate'.start = n /\ generate'.launched = generate.launched
        /\ generate'.raced = generate.raced /\ generate'.retried = generate.retried
        /\ generate'.added = generate.added /\ generate'.failures = generate.failures
        /\ generate'.reported = generate.reported
    BY <1>2, <2>1, <2>2 DEF CommandType, CommandStates
  <2>4. CommandTypes'
    BY <1>1, <1>2, <2>3, TypesMove
  <2>5. Selection' /\ Generate!AutoDelivers'
    BY <1>1, <1>2, <1>3, <1>4, <1>5, <2>1, <2>3, NoneIsNothing
       DEF Selection, External, Generate!AutoDelivers
  <2>6. Launching' /\ Counting'
    BY <1>1, <1>4, <2>3, <2>1 DEF Launching, Generate!LaunchesWhatItValidated, Counting, External, n
  <2>7. Accounting'
    BY <1>1, <1>2, <1>4, <2>3
       DEF Accounting, Generate!CacheIsAccountedFor, Generate!DoneMeansThere, Generate!KeepsWorld
  <2>8. Directory'
    BY <1>1, <1>2, <2>3 DEF Directory
  <2> QED
    BY <2>4, <2>5, <2>6, <2>7, <2>8 DEF CommandInv
<1>6. CASE path = None /\ request.backend = "y-cruncher"
  <2>1. generate' = [generate EXCEPT !.pc = "failed"]
    BY <1>1, <1>6
  <2>3. /\ generate' \in CommandType /\ generate'.pc = "failed"
        /\ generate'.selected = generate.selected
        /\ generate'.path = generate.path /\ generate'.start = generate.start
        /\ generate'.launched = generate.launched
        /\ generate'.raced = generate.raced /\ generate'.retried = generate.retried
        /\ generate'.added = generate.added /\ generate'.failures = generate.failures
        /\ generate'.reported = generate.reported
    BY <1>2, <2>1 DEF CommandType, CommandStates
  <2>4. CommandTypes'
    BY <1>1, <1>2, <2>3, TypesMove
  <2>5. Selection' /\ Generate!AutoDelivers'
    BY <1>1, <1>2, <1>4, <1>6, <2>3, NoneIsNothing DEF Selection, External, Generate!AutoDelivers
  <2>6. Launching' /\ Counting'
    BY <1>1, <1>2, <1>4, <2>3 DEF Launching, Generate!LaunchesWhatItValidated, Counting, External
  <2>7. Accounting'
    BY <1>1, <1>2, <1>4, <2>3
       DEF Accounting, Generate!CacheIsAccountedFor, Generate!DoneMeansThere, Generate!KeepsWorld
  <2>8. Directory'
    BY <1>1, <1>2, <2>3 DEF Directory
  <2> QED
    BY <2>4, <2>5, <2>6, <2>7, <2>8 DEF CommandInv
<1>7. CASE path = None /\ request.backend # "y-cruncher"
  <2> DEFINE n == Len(text)
  <2>1. generate' = [generate EXCEPT !.pc = "generate", !.selected = "cpu", !.start = n]
    BY <1>1, <1>7
  <2>2. n \in Nat
    BY <1>4
  <2> HIDE DEF n
  <2>3. /\ generate' \in CommandType /\ generate'.pc = "generate" /\ generate'.selected = "cpu"
        /\ generate'.path = generate.path /\ generate'.start = n
        /\ generate'.launched = generate.launched
        /\ generate'.raced = generate.raced /\ generate'.retried = generate.retried
        /\ generate'.added = generate.added /\ generate'.failures = generate.failures
        /\ generate'.reported = generate.reported
    BY <1>2, <2>1, <2>2 DEF CommandType, CommandStates
  <2>4. CommandTypes'
    BY <1>1, <1>2, <2>3, TypesMove
  <2>5. Selection' /\ Generate!AutoDelivers'
    BY <1>1, <1>2, <1>4, <1>7, <2>3, NoneIsNothing DEF Selection, External, Generate!AutoDelivers
  <2>6. Launching' /\ Counting'
    BY <1>1, <1>4, <2>2, <2>3 DEF Launching, Generate!LaunchesWhatItValidated, Counting, External, n
  <2>7. Accounting'
    BY <1>1, <1>2, <1>4, <2>3
       DEF Accounting, Generate!CacheIsAccountedFor, Generate!DoneMeansThere, Generate!KeepsWorld
  <2>8. Directory'
    BY <1>1, <1>2, <2>3 DEF Directory
  <2> QED
    BY <2>4, <2>5, <2>6, <2>7, <2>8 DEF CommandInv
<1> QED
  BY <1>5, <1>6, <1>7

LEMMA BuiltInKeeps ==
    ASSUME CommandInv, Generate!BuiltIn PROVE CommandInv'
<1>1. /\ generate.pc = "generate" /\ generate.selected = "cpu" /\ output' = output
      /\ Generate!KeepsWorld
      /\ request' = request
  BY DEF Generate!BuiltIn, Generate!KeepsWorld
<1>2. /\ CommandTypes /\ Selection /\ Generate!AutoDelivers /\ Launching /\ Counting
      /\ Accounting /\ Directory
      /\ generate \in CommandType /\ text \in Seq(Int) /\ request.digits \in Nat
      /\ foreign \in Nat
  BY RequestFields DEF CommandInv, CommandTypes
<1> DEFINE n == Len(text)
<1>3. PICK d \in 0..request.digits :
          /\ text' = text \o Generate!Run(n, n + d)
          /\ \/ d = request.digits /\ generate' = Generate!Done(generate, d)
             \/ generate' = Generate!Failed("built-in", d)
  BY DEF Generate!BuiltIn
<1>4. /\ n \in Nat /\ d \in Nat /\ n + d \in Nat /\ n <= n + d /\ n + d - n = d
      /\ generate.start \in Nat /\ generate.added \in Nat /\ generate.start <= n
  BY <1>1, <1>2, CommandFields DEF Counting
<1>5. text' \in Seq(Int) /\ Len(text') = n + d
  <2> DEFINE t == Generate!Run(n, n + d)
  <2>1. t \in Seq(Int) /\ Len(t) = d
    BY <1>4, RunBeyond
  <2>2. \A u \in Seq(Int) : text \o u \in Seq(Int) /\ Len(text \o u) = Len(text) + Len(u)
    BY <1>2
  <2> QED BY <1>3, <2>1, <2>2
<1>6. ASSUME generate'.launched = generate.launched, generate'.added = generate.added + d
      PROVE  Generate!CacheIsAccountedFor'
  <2>1. PICK m \in FirstDigits : Len(text) = m + foreign + generate.added
    BY <1>2 DEF Accounting, Generate!CacheIsAccountedFor
  <2>2. m \in Nat
    BY CommandAssumption DEF Generate!CommandConstants
  <2>3. Len(text') = m + foreign + generate'.added
    BY <1>2, <1>4, <1>5, <1>6, <2>1, <2>2
  <2>4. ASSUME generate.launched = None \/ generate.launched.content = "y-cruncher"
        PROVE  text' = Generate!Run(0, Len(text'))
    <3>1. text = Generate!Run(0, n)
      BY <1>2, <2>4 DEF Accounting, Generate!CacheIsAccountedFor
    <3> QED
      BY <1>3, <1>4, <1>5, <3>1, RunGrows
  <2> QED
    BY <1>1, <1>6, <2>3, <2>4 DEF Generate!CacheIsAccountedFor, Generate!KeepsWorld
<1>7. CASE generate' = Generate!Failed("built-in", d)
  <2>1. Len(text) <= Len(text')
    BY <1>4, <1>5
  <2>2. /\ CommandTypes' /\ Selection' /\ Generate!AutoDelivers' /\ Launching' /\ Counting'
        /\ Generate!DoneMeansThere' /\ generate'.pc \notin {"running", "import", "done"}
        /\ generate'.launched = generate.launched /\ generate'.raced = generate.raced
        /\ generate'.added = generate.added + d
        /\ generate'.failures = generate.failures \cup {"built-in"}
    BY <1>1, <1>4, <1>5, <1>7, <2>1, FailureKeeps DEF Reasons
  <2>3. Accounting'
    BY <1>6, <2>2 DEF Accounting, Generate!AnAppendFailed
  <2>4. Directory'
    BY <1>1, <1>2, <2>2 DEF Directory
  <2> QED
    BY <2>2, <2>3, <2>4 DEF CommandInv
<1>8. CASE d = request.digits /\ generate' = Generate!Done(generate, d)
  <2>1. /\ generate' \in CommandType /\ generate'.pc = "done"
        /\ generate'.selected = generate.selected
        /\ generate'.retried = generate.retried
        /\ generate'.path = generate.path /\ generate'.validated = generate.validated
        /\ generate'.start = generate.start /\ generate'.launched = generate.launched
        /\ generate'.raced = generate.raced
        /\ generate'.added = generate.added + d /\ generate'.reported = d
        /\ generate'.failures = generate.failures
    BY <1>2, <1>4, <1>8, DoneIs
  <2>2. CommandTypes'
    BY <1>1, <1>2, <1>5, <2>1, TypesMove
  <2>3. Selection' /\ Generate!AutoDelivers'
    BY <1>1, <1>2, <2>1 DEF Selection, External, Generate!AutoDelivers
  <2>4. Launching'
    BY <1>2, <2>1 DEF Launching, Generate!LaunchesWhatItValidated
  <2>5. Counting'
    BY <1>4, <1>5, <2>1 DEF Counting, External
  <2>6. Generate!DoneMeansThere'
    <3>1. Len(text') >= generate'.start + d
      BY <1>4, <1>5, <2>1
    <3>2. generate'.reported = generate'.added \/ Generate!AnAppendFailed'
      BY <1>1, <1>2, <1>4, <2>1 DEF Accounting, Generate!AnAppendFailed
    <3> QED
      BY <1>1, <1>8, <3>1, <3>2 DEF Generate!DoneMeansThere
  <2>7. Accounting'
    BY <1>6, <2>1, <2>6 DEF Accounting
  <2>8. Directory'
    BY <1>1, <1>2, <2>1 DEF Directory
  <2> QED
    BY <2>2, <2>3, <2>4, <2>5, <2>7, <2>8 DEF CommandInv
<1> QED
  BY <1>3, <1>7, <1>8

LEMMA SelectionFailsKeeps ==
    ASSUME CommandInv, Generate!SelectionFails PROVE CommandInv'
<1> DEFINE f == generate.failures \cup {"selection"}
<1>1. /\ generate.pc = "generate" /\ generate.selected = "cpu"
      /\ output' = output /\ text' = text
      /\ Generate!KeepsWorld /\ request' = request /\ foreign' = foreign
      /\ generate' = [generate EXCEPT !.pc = "failed", !.failures = f]
  BY DEF Generate!SelectionFails, Generate!KeepsWorld
<1>2. /\ CommandTypes /\ Selection /\ Launching /\ Counting /\ Accounting /\ Directory
      /\ generate \in CommandType /\ text \in Seq(Int)
  BY DEF CommandInv, CommandTypes
<1>3. f \in SUBSET Reasons /\ "selection" \in f /\ generate.failures \subseteq f
  BY <1>2, CommandFields DEF Reasons
<1> HIDE DEF f
<1>4. /\ generate' \in CommandType /\ generate'.pc = "failed"
      /\ generate'.selected = generate.selected
      /\ generate'.path = generate.path /\ generate'.validated = generate.validated
      /\ generate'.start = generate.start /\ generate'.launched = generate.launched
      /\ generate'.raced = generate.raced /\ generate'.retried = generate.retried
      /\ generate'.added = generate.added /\ generate'.failures = f
  BY <1>1, <1>2, <1>3 DEF CommandType, CommandStates
<1>5. CommandTypes'
  BY <1>1, <1>2, <1>4, TypesMove
<1>6. Selection' /\ Generate!AutoDelivers' /\ Launching' /\ Counting'
  BY <1>1, <1>2, <1>3, <1>4
     DEF Selection, External, Generate!AutoDelivers, Launching, Generate!LaunchesWhatItValidated,
         Counting
<1>7. Accounting' /\ Directory'
  <2>1. Generate!AnAppendFailed => Generate!AnAppendFailed'
    BY <1>3, <1>4 DEF Generate!AnAppendFailed
  <2>2. Generate!CacheIsAccountedFor' /\ Generate!DoneMeansThere'
    BY <1>1, <1>2, <1>4 DEF Accounting, Generate!CacheIsAccountedFor, Generate!DoneMeansThere
  <2> QED
    BY <1>1, <1>2, <1>4, <2>1, <2>2 DEF Accounting, Directory
<1> QED
  BY <1>5, <1>6, <1>7 DEF CommandInv

LEMMA TargetKeeps ==
    ASSUME CommandInv, Generate!Target PROVE CommandInv'
<1> DEFINE goal == Len(text) + request.digits
<1>1. /\ generate.pc = "generate" /\ generate.selected = "y-cruncher"
      /\ UNCHANGED <<text, output>> /\ Generate!KeepsWorld /\ request' = request
      /\ generate' = [generate EXCEPT !.pc = "count", !.target = goal]
  BY DEF Generate!Target, Generate!KeepsWorld
<1>2. /\ CommandTypes /\ Selection /\ Generate!AutoDelivers /\ Launching /\ Counting
      /\ Accounting /\ Directory
      /\ generate \in CommandType /\ text \in Seq(Int) /\ request.digits \in Nat
      /\ Len(text) \in Nat /\ generate.start \in Nat
  BY RequestFields, CommandFields DEF CommandInv, CommandTypes
<1>3. goal \in Nat /\ goal >= generate.start + request.digits
  BY <1>1, <1>2 DEF Counting
<1> HIDE DEF goal
<1>4. /\ generate' \in CommandType /\ generate'.pc = "count"
      /\ generate'.selected = generate.selected
      /\ generate'.path = generate.path /\ generate'.validated = generate.validated
      /\ generate'.start = generate.start /\ generate'.target = goal
      /\ generate'.launched = generate.launched
      /\ generate'.raced = generate.raced /\ generate'.retried = generate.retried
      /\ generate'.added = generate.added /\ generate'.failures = generate.failures
      /\ generate'.reported = generate.reported
  BY <1>1, <1>2, <1>3 DEF CommandType, CommandStates
<1>5. CommandTypes'
  BY <1>1, <1>2, <1>4, TypesMove
<1>6. Selection' /\ Generate!AutoDelivers'
  BY <1>1, <1>2, <1>4 DEF Selection, External, Generate!AutoDelivers
<1>7. Launching' /\ Counting'
  BY <1>1, <1>2, <1>3, <1>4 DEF Launching, Generate!LaunchesWhatItValidated, Counting, External
<1>8. Accounting'
  BY <1>1, <1>2, <1>4
     DEF Accounting, Generate!AnAppendFailed, Generate!CacheIsAccountedFor,
         Generate!DoneMeansThere, Generate!KeepsWorld
<1>9. Directory'
  BY <1>1, <1>2, <1>4 DEF Directory
<1> QED
  BY <1>5, <1>6, <1>7, <1>8, <1>9 DEF CommandInv

LEMMA CountKeeps ==
    ASSUME CommandInv, Generate!Count PROVE CommandInv'
<1> DEFINE n == Len(text)
<1>1. /\ generate.pc = "count" /\ UNCHANGED <<text, output>> /\ Generate!KeepsWorld
      /\ request' = request /\ files' = files
      /\ generate' =
             IF n >= generate.target THEN Generate!Done(generate, 0)
             ELSE IF ~Generate!Revalidates THEN Generate!Failed("executable_changed", 0)
             ELSE [generate EXCEPT !.pc = "launch", !.existing = n]
  BY DEF Generate!Count, Generate!KeepsWorld
<1>2. /\ CommandTypes /\ Selection /\ Generate!AutoDelivers /\ Launching /\ Counting
      /\ Accounting /\ Directory
      /\ generate \in CommandType /\ text \in Seq(Int) /\ request.digits \in Nat
      /\ n \in Nat /\ generate.start \in Nat /\ generate.target \in Nat /\ generate.added \in Nat
      /\ generate.selected = "y-cruncher" /\ generate.launched = None
  BY <1>1, RequestFields, CommandFields DEF CommandInv, CommandTypes, Selection, External, Launching
<1>3. CASE n >= generate.target
  <2>1. /\ generate' \in CommandType /\ generate'.pc = "done"
        /\ generate'.selected = generate.selected
        /\ generate'.retried = generate.retried
        /\ generate'.path = generate.path /\ generate'.validated = generate.validated
        /\ generate'.start = generate.start /\ generate'.launched = generate.launched
        /\ generate'.raced = generate.raced
        /\ generate'.added = generate.added + 0 /\ generate'.reported = 0
        /\ generate'.failures = generate.failures
    BY <1>1, <1>2, <1>3, DoneIs
  <2>2. generate'.added = generate.added
    BY <1>2, <2>1
  <2>3. CommandTypes'
    BY <1>1, <1>2, <2>1, TypesMove
  <2>4. Selection' /\ Generate!AutoDelivers'
    BY <1>1, <1>2, <2>1 DEF Selection, External, Generate!AutoDelivers
  <2>5. Launching' /\ Counting'
    BY <1>1, <1>2, <2>1 DEF Launching, Generate!LaunchesWhatItValidated, Counting, External
  <2>6. n >= generate.start + request.digits
    BY <1>1, <1>2, <1>3 DEF Counting, External
  <2>7. Generate!CacheIsAccountedFor'
    BY <1>1, <1>2, <2>1, <2>2 DEF Accounting, Generate!CacheIsAccountedFor, Generate!KeepsWorld
  <2>8. Generate!DoneMeansThere'
    <3>1. Len(text') >= generate'.start + request'.digits
      BY <1>1, <2>1, <2>6
    <3>2. generate'.reported = generate'.added \/ Generate!AnAppendFailed'
      BY <1>1, <1>2, <2>1, <2>2 DEF Accounting, Generate!AnAppendFailed
    <3> QED
      BY <3>1, <3>2 DEF Generate!DoneMeansThere
  <2>9. Accounting' /\ Directory'
    BY <1>1, <1>2, <2>1, <2>7, <2>8 DEF Accounting, Directory
  <2> QED
    BY <2>3, <2>4, <2>5, <2>9 DEF CommandInv
<1>4. CASE ~(n >= generate.target) /\ ~Generate!Revalidates
  <2>1. /\ CommandTypes' /\ Selection' /\ Generate!AutoDelivers' /\ Launching' /\ Counting'
        /\ Accounting' /\ generate'.pc \notin {"running", "import", "done"}
        /\ generate'.raced = generate.raced
    BY <1>1, <1>2, <1>4, FailureAccounts DEF Reasons
  <2>2. Directory'
    BY <1>1, <1>2, <2>1 DEF Directory
  <2> QED
    BY <2>1, <2>2 DEF CommandInv
<1>5. CASE ~(n >= generate.target) /\ Generate!Revalidates
  <2>1. generate' = [generate EXCEPT !.pc = "launch", !.existing = n]
    BY <1>1, <1>5
  <2> HIDE DEF n
  <2>2. /\ generate' \in CommandType /\ generate'.pc = "launch"
        /\ generate'.selected = generate.selected
        /\ generate'.path = generate.path /\ generate'.validated = generate.validated
        /\ generate'.start = generate.start /\ generate'.target = generate.target
        /\ generate'.launched = generate.launched
        /\ generate'.raced = generate.raced /\ generate'.retried = generate.retried
        /\ generate'.added = generate.added /\ generate'.failures = generate.failures
        /\ generate'.reported = generate.reported
    BY <1>2, <2>1 DEF CommandType, CommandStates
  <2>3. CommandTypes'
    BY <1>1, <1>2, <2>2, TypesMove
  <2>4. Selection' /\ Generate!AutoDelivers'
    BY <1>1, <1>2, <2>2 DEF Selection, External, Generate!AutoDelivers
  <2>5. Generate!Valid(generate.path)'
    BY <1>1, <1>5, <2>2 DEF Generate!Revalidates, Generate!Valid
  <2>6. Launching' /\ Counting'
    BY <1>1, <1>2, <1>5, <2>2, <2>5
       DEF Launching, Generate!LaunchesWhatItValidated, Counting, External, Generate!Revalidates
  <2>7. Accounting'
    BY <1>1, <1>2, <2>2
       DEF Accounting, Generate!AnAppendFailed, Generate!CacheIsAccountedFor,
           Generate!DoneMeansThere, Generate!KeepsWorld
  <2>8. Directory'
    BY <1>1, <1>2, <2>2 DEF Directory
  <2> QED
    BY <2>3, <2>4, <2>6, <2>7, <2>8 DEF CommandInv
<1> QED
  BY <1>3, <1>4, <1>5

LEMMA LaunchKeeps ==
    ASSUME CommandInv, Generate!Launch PROVE CommandInv'
<1>1. /\ generate.pc = "launch" /\ output' = <<>> /\ text' = text /\ Generate!KeepsWorld
      /\ request' = request /\ files' = files
      /\ generate' =
             IF Generate!Valid(generate.path)
             THEN [generate EXCEPT !.pc = "running", !.launched = files[generate.path]]
             ELSE Generate!Failed("process_failed", 0)
  BY DEF Generate!Launch, Generate!KeepsWorld
<1>2. /\ CommandTypes /\ Selection /\ Generate!AutoDelivers /\ Launching /\ Counting
      /\ Accounting /\ Directory
      /\ generate \in CommandType /\ files \in [Generate!Paths -> Generate!Executable]
      /\ generate.selected = "y-cruncher" /\ generate.launched = None
      /\ generate.path \in Generate!Paths
  BY <1>1, CommandFields DEF CommandInv, CommandTypes, Selection, External, Launching
<1>3. CASE Generate!Valid(generate.path)
  <2> DEFINE exe == files[generate.path]
  <2>1. generate' = [generate EXCEPT !.pc = "running", !.launched = exe]
    BY <1>1, <1>3
  <2>2. exe \in Generate!Executable /\ exe.content \in Generate!Programs
    BY <1>2, <1>3 DEF Generate!Valid
  <2> HIDE DEF exe
  <2>3. /\ generate' \in CommandType /\ generate'.pc = "running"
        /\ generate'.selected = generate.selected
        /\ generate'.path = generate.path /\ generate'.validated = generate.validated
        /\ generate'.start = generate.start /\ generate'.target = generate.target
        /\ generate'.launched = exe
        /\ generate'.raced = generate.raced /\ generate'.retried = generate.retried
        /\ generate'.added = generate.added /\ generate'.failures = generate.failures
        /\ generate'.reported = generate.reported
    BY <1>2, <2>1, <2>2 DEF CommandType, CommandStates
  <2>4. CommandTypes'
    BY <1>1, <1>2, <2>3, TypesMove DEF CommandTypes
  <2>5. Selection' /\ Generate!AutoDelivers'
    BY <1>1, <1>2, <2>3 DEF Selection, External, Generate!AutoDelivers
  <2>6. Launching' /\ Counting'
    BY <1>1, <1>2, <2>2, <2>3
       DEF Launching, Generate!LaunchesWhatItValidated, Counting, External, exe
  <2>7. Generate!CacheIsAccountedFor'
    <3>1. text' = Generate!Run(0, Len(text'))
      BY <1>1, <1>2 DEF Accounting, Generate!CacheIsAccountedFor
    <3> QED
      BY <1>1, <1>2, <2>3, <3>1 DEF Accounting, Generate!CacheIsAccountedFor, Generate!KeepsWorld
  <2>8. Accounting' /\ Directory'
    BY <1>1, <1>2, <2>3, <2>7 DEF Accounting, Generate!AnAppendFailed, Generate!DoneMeansThere,
                                  Directory
  <2> QED
    BY <2>4, <2>5, <2>6, <2>8 DEF CommandInv
<1>4. CASE ~Generate!Valid(generate.path)
  <2>1. /\ CommandTypes' /\ Selection' /\ Generate!AutoDelivers' /\ Launching' /\ Counting'
        /\ Accounting' /\ generate'.pc \notin {"running", "import", "done"}
        /\ generate'.raced = generate.raced
    BY <1>1, <1>2, <1>4, FailureAccounts DEF Reasons
  <2>2. generate.raced
    BY <1>1, <1>2, <1>4 DEF Launching
  <2>3. Directory'
    BY <1>1, <2>1, <2>2 DEF Directory
  <2> QED
    BY <2>1, <2>3 DEF CommandInv
<1> QED
  BY <1>3, <1>4

LEMMA ProgramKeeps ==
    ASSUME CommandInv, Generate!ProgramFails \/ Generate!ProgramEnds PROVE CommandInv'
<1>1. generate.pc = "running" /\ text' = text /\ Generate!KeepsWorld /\ request' = request
  BY DEF Generate!ProgramFails, Generate!ProgramEnds, Generate!KeepsWorld
<1>2. /\ CommandTypes /\ Selection /\ Generate!AutoDelivers /\ Launching /\ Counting
      /\ Accounting /\ Directory
      /\ generate \in CommandType /\ generate.selected = "y-cruncher"
  BY <1>1 DEF CommandInv, CommandTypes, Selection, External
<1>3. CASE Generate!ProgramFails
  <2>1. generate' = Generate!Failed("process_failed", 0) /\ output' = None
    BY <1>3 DEF Generate!ProgramFails
  <2>2. /\ CommandTypes' /\ Selection' /\ Generate!AutoDelivers' /\ Launching' /\ Counting'
        /\ Accounting' /\ generate'.pc \notin {"running", "import", "done"}
    BY <1>1, <1>2, <2>1, FailureAccounts DEF Reasons
  <2>3. Directory'
    BY <2>1, <2>2 DEF Directory
  <2> QED
    BY <2>2, <2>3 DEF CommandInv
<1>4. CASE Generate!ProgramEnds
  <2>1. generate' = [generate EXCEPT !.pc = "import"] /\ output' \in Generate!Outputs
    BY <1>4 DEF Generate!ProgramEnds
  <2>2. /\ generate' \in CommandType /\ generate'.pc = "import"
        /\ generate'.selected = generate.selected
        /\ generate'.path = generate.path /\ generate'.validated = generate.validated
        /\ generate'.start = generate.start /\ generate'.target = generate.target
        /\ generate'.launched = generate.launched /\ generate'.existing = generate.existing
        /\ generate'.raced = generate.raced /\ generate'.retried = generate.retried
        /\ generate'.added = generate.added /\ generate'.failures = generate.failures
        /\ generate'.reported = generate.reported
    BY <1>2, <2>1 DEF CommandType, CommandStates
  <2>3. CommandTypes'
    BY <1>1, <1>2, <2>2, TypesMove DEF CommandTypes
  <2>4. Selection' /\ Generate!AutoDelivers'
    BY <1>1, <1>2, <2>2 DEF Selection, External, Generate!AutoDelivers
  <2>5. Launching' /\ Counting'
    BY <1>1, <1>2, <2>2 DEF Launching, Generate!LaunchesWhatItValidated, Counting, External
  <2>6. Accounting'
    BY <1>1, <1>2, <2>2
       DEF Accounting, Generate!AnAppendFailed, Generate!CacheIsAccountedFor,
           Generate!DoneMeansThere, Generate!KeepsWorld
  <2>7. Generate!Outputs' = Generate!Outputs
    BY <2>2 DEF Generate!Outputs, Generate!Whole
  <2>8. Directory'
    BY <2>1, <2>2, <2>7 DEF Directory
  <2> QED
    BY <2>3, <2>4, <2>5, <2>6, <2>8 DEF CommandInv
<1> QED
  BY <1>3, <1>4

\* The first usable file, and what it holds.
LEMMA ChosenIs ==
    ASSUME CommandTypes, generate.launched \in Generate!Executable, generate.launched.content \in Generate!Programs,
           output \in Generate!Outputs, Generate!Usable # {}
    PROVE  /\ Generate!Chosen \in Seq(Int)
           /\ generate.launched.content = "y-cruncher" => Generate!Chosen = Generate!Run(0, generate.target)
<1> DEFINE w == Generate!Whole
           e == Generate!Run(0, generate.existing)
<1>1. generate.target \in Nat /\ generate.existing \in Nat
  BY CommandFields DEF CommandTypes
<1>2. w \in Seq(Int) /\ e \in Seq(Int) /\ Len(e) = generate.existing /\ Generate!Bad \in Seq(Int)
  BY <1>1, RunFromStart DEF Generate!Whole, Generate!Bad
<1> DEFINE p == <<0>> \o w
           q == w \o <<0>>
<1>3. p \in Seq(Int) /\ q \in Seq(Int)
  <2> HIDE DEF w
  <2>1. <<0>> \in Seq(Int)
    OBVIOUS
  <2> QED BY <1>2, <2>1
<1>4. /\ generate.launched.content = "y-cruncher" => output \in {<<w>>, <<Generate!Bad, w>>, <<e, w>>}
      /\ generate.launched.content # "y-cruncher" => output \in {<<>>, <<Generate!Bad>>, <<p>>, <<q>>}
  BY DEF Generate!Outputs
<1> HIDE DEF w, e, p, q, Generate!Bad
<1>5. /\ DOMAIN output \in {{}, {1}, {1, 2}}
      /\ \A i \in DOMAIN output : output[i] \in {w, e, p, q, Generate!Bad}
      /\ generate.launched.content = "y-cruncher" =>
             \A i \in DOMAIN output : output[i] \in {w, Generate!Bad, e}
  <2>1. CASE generate.launched.content = "y-cruncher"
    <3>1. CASE output = <<w>>
      BY <2>1, <3>1
    <3>2. CASE output = <<Generate!Bad, w>>
      BY <2>1, <3>2
    <3>3. CASE output = <<e, w>>
      BY <2>1, <3>3
    <3> QED BY <1>4, <2>1, <3>1, <3>2, <3>3
  <2>2. CASE generate.launched.content # "y-cruncher"
    <3>1. CASE output = <<>>
      BY <2>2, <3>1
    <3>2. CASE output = <<Generate!Bad>>
      BY <2>2, <3>2
    <3>3. CASE output = <<p>>
      BY <2>2, <3>3
    <3>4. CASE output = <<q>>
      BY <2>2, <3>4
    <3> QED BY <1>4, <2>2, <3>1, <3>2, <3>3, <3>4
  <2> QED BY <2>1, <2>2
<1> DEFINE First(i) == \A j \in Generate!Usable : i <= j
           first == CHOOSE i \in Generate!Usable : First(i)
<1>6. \E i \in Generate!Usable : First(i)
  <2>1. Generate!Usable \subseteq {1, 2}
    BY <1>5 DEF Generate!Usable
  <2>2. CASE 1 \in Generate!Usable
    <3>1. First(1)
      BY <2>1
    <3> QED BY <2>2, <3>1
  <2>3. CASE 1 \notin Generate!Usable
    <3>1. Generate!Usable # {}
      OBVIOUS
    <3>2. 2 \in Generate!Usable
      BY <2>1, <2>3, <3>1
    <3>3. First(2)
      BY <2>1, <2>3
    <3> QED BY <3>2, <3>3
  <2> QED BY <2>2, <2>3
<1> HIDE DEF First
<1>7. first \in Generate!Usable
  BY <1>6
<1>8. Generate!Chosen = output[first]
  BY DEF Generate!Chosen, First
<1> HIDE DEF first
<1>9. first \in DOMAIN output /\ Generate!IsDigits(output[first]) /\ Len(output[first]) > generate.existing
  BY <1>7 DEF Generate!Usable
<1>10. Generate!Chosen \in Seq(Int)
  BY <1>2, <1>3, <1>5, <1>8, <1>9
<1>11. generate.launched.content = "y-cruncher" => Generate!Chosen = w
  <2> SUFFICES ASSUME generate.launched.content = "y-cruncher" PROVE Generate!Chosen = w
    OBVIOUS
  <2>1. output[first] \in {w, Generate!Bad, e}
    BY <1>5, <1>9
  <2>2. output[first] # Generate!Bad
    BY <1>9 DEF Generate!IsDigits
  <2>3. output[first] # e
    BY <1>1, <1>2, <1>9
  <2> QED BY <1>8, <2>1, <2>2, <2>3
<1> QED
  BY <1>10, <1>11 DEF w, Generate!Whole

LEMMA ImportKeeps ==
    ASSUME CommandInv, Generate!Import PROVE CommandInv'
<1>1. generate.pc = "import" /\ output' = None /\ Generate!KeepsWorld /\ request' = request
  BY DEF Generate!Import, Generate!KeepsWorld
<1>2. /\ CommandTypes /\ Selection /\ Generate!AutoDelivers /\ Launching /\ Counting
      /\ Accounting /\ Directory
      /\ generate \in CommandType /\ generate.selected = "y-cruncher" /\ text \in Seq(Int)
      /\ Len(text) \in Nat /\ foreign \in Nat /\ generate.added \in Nat /\ generate.start \in Nat
      /\ generate.target \in Nat
      /\ generate.launched \in Generate!Executable
      /\ generate.launched.content \in Generate!Programs
      /\ request.digits \in Nat
  BY <1>1, CommandFields, RequestFields DEF CommandInv, CommandTypes, Selection, External, Launching
<1>3. ASSUME NEW reason \in Reasons, generate' = Generate!Failed(reason, 0), text' = text
      PROVE  CommandInv'
  <2>1. /\ CommandTypes' /\ Selection' /\ Generate!AutoDelivers' /\ Launching' /\ Counting'
        /\ Accounting' /\ generate'.pc \notin {"running", "import", "done"}
    BY <1>1, <1>2, <1>3, FailureAccounts
  <2>2. Directory'
    BY <1>1, <2>1 DEF Directory
  <2> QED
    BY <2>1, <2>2 DEF CommandInv
<1>4. ASSUME Generate!Usable # {}, Generate!Continues(Generate!Chosen), text' = Generate!Chosen,
             generate' \in {Generate!Done(generate, Len(Generate!Chosen) - Len(text)),
                           Generate!Failed("import_failed", Len(Generate!Chosen) - Len(text))}
      PROVE  CommandInv'
  <2> DEFINE text0 == Generate!Chosen
             grown == Len(text0) - Len(text)
  <2>1. text0 \in Seq(Int)
        /\ (generate.launched.content = "y-cruncher" => text0 = Generate!Run(0, generate.target))
    BY <1>1, <1>2, <1>4, ChosenIs DEF Directory
  <2>2. Len(text0) >= Len(text) /\ text' = text0
    BY <1>4 DEF Generate!Continues
  <2>3. generate' = Generate!Done(generate, grown) \/ generate' = Generate!Failed("import_failed", grown)
    BY <1>4
  <2> HIDE DEF text0
  <2>4. grown \in Nat /\ Len(text0) = Len(text) + grown /\ Len(text') = Len(text) + grown
        /\ Len(text0) \in Nat
    BY <1>2, <2>1, <2>2
  <2> HIDE DEF grown
  <2>5. ASSUME generate.launched.content = "y-cruncher"
        PROVE  text' = Generate!Run(0, Len(text')) /\ Len(text') >= generate.start + request.digits
    <3>1. Len(text') = generate.target /\ text' = Generate!Run(0, generate.target)
      BY <1>2, <2>1, <2>2, <2>5, RunFromStart
    <3> QED
      BY <1>1, <1>2, <3>1 DEF Counting, External
  <2>6. ASSUME generate'.added = generate.added + grown, generate'.launched = generate.launched
        PROVE  Generate!CacheIsAccountedFor'
    <3>1. PICK m \in FirstDigits : Len(text) = m + foreign + generate.added
      BY <1>2 DEF Accounting, Generate!CacheIsAccountedFor
    <3>2. m \in Nat
      BY CommandAssumption DEF Generate!CommandConstants
    <3>3. Len(text') = m + foreign + generate'.added
      BY <1>2, <2>4, <2>6, <3>1, <3>2
    <3>4. generate.launched # None
      BY <1>2, NoneIsNothing
    <3> QED
      BY <1>1, <2>5, <2>6, <3>3, <3>4 DEF Generate!CacheIsAccountedFor, Generate!KeepsWorld
  <2>7. CASE generate' = Generate!Done(generate, grown)
    <3>1. /\ generate' \in CommandType /\ generate'.pc = "done"
          /\ generate'.selected = generate.selected
          /\ generate'.retried = generate.retried
          /\ generate'.path = generate.path /\ generate'.validated = generate.validated
          /\ generate'.start = generate.start /\ generate'.launched = generate.launched
          /\ generate'.raced = generate.raced
          /\ generate'.added = generate.added + grown /\ generate'.reported = grown
          /\ generate'.failures = generate.failures
      BY <1>2, <2>4, <2>7, DoneIs
    <3>2. CommandTypes'
      BY <1>1, <1>2, <2>1, <2>2, <3>1, TypesMove
    <3>3. Selection' /\ Generate!AutoDelivers'
      BY <1>1, <1>2, <3>1 DEF Selection, External, Generate!AutoDelivers
    <3>4. Launching'
      BY <1>2, <3>1 DEF Launching, Generate!LaunchesWhatItValidated
    <3>5. generate.start <= Len(text)
      BY <1>1, <1>2 DEF Counting
    <3>6. Counting'
      BY <1>2, <2>4, <3>1, <3>5 DEF Counting, External
    <3>7. Generate!DoneMeansThere'
      <4>1. generate'.reported = generate'.added \/ Generate!AnAppendFailed'
        BY <1>1, <1>2, <2>4, <3>1 DEF Accounting, Generate!AnAppendFailed
      <4>2. generate.launched # None /\ generate.launched.content \in {"y-cruncher", "other"}
        BY <1>2, NoneIsNothing DEF Generate!Programs
      <4> QED
        BY <1>1, <2>5, <3>1, <4>1, <4>2 DEF Generate!DoneMeansThere
    <3>8. Accounting' /\ Directory'
      BY <1>1, <2>6, <3>1, <3>7 DEF Accounting, Directory
    <3> QED
      BY <3>2, <3>3, <3>4, <3>6, <3>8 DEF CommandInv
  <2>8. CASE generate' = Generate!Failed("import_failed", grown)
    <3>1. text' \in Seq(Int) /\ Len(text) <= Len(text')
      BY <1>2, <2>1, <2>2
    <3>2. /\ CommandTypes' /\ Selection' /\ Generate!AutoDelivers' /\ Launching' /\ Counting'
          /\ Generate!DoneMeansThere' /\ generate'.pc \notin {"running", "import", "done"}
          /\ generate'.launched = generate.launched
          /\ generate'.added = generate.added + grown
          /\ generate'.failures = generate.failures \cup {"import_failed"}
      BY <1>1, <1>2, <2>4, <2>8, <3>1, FailureKeeps DEF Reasons
    <3>3. Accounting' /\ Directory'
      BY <1>1, <2>6, <3>2 DEF Accounting, Generate!AnAppendFailed, Directory
    <3> QED
      BY <3>2, <3>3 DEF CommandInv
  <2> QED
    BY <2>3, <2>7, <2>8
<1>5. \/ generate' = Generate!Failed("output_invalid", 0) /\ text' = text
      \/ generate' = Generate!Failed("import_failed", 0) /\ text' = text
      \/ /\ Generate!Usable # {} /\ Generate!Continues(Generate!Chosen) /\ text' = Generate!Chosen
         /\ generate' \in {Generate!Done(generate, Len(Generate!Chosen) - Len(text)),
                          Generate!Failed("import_failed", Len(Generate!Chosen) - Len(text))}
  BY DEF Generate!Import
<1> QED
  BY <1>3, <1>4, <1>5 DEF Reasons

LEMMA ReplaceKeeps ==
    ASSUME CommandInv, NEW path \in Generate!Paths, Generate!Replace(path) PROVE CommandInv'
<1> DEFINE now0 == generate.raced \/ (generate.pc = "launch" /\ generate.path = path)
<1>1. /\ ~Generate!Over /\ replacements' = replacements + 1
      /\ generate' = [generate EXCEPT !.raced = now0]
      /\ UNCHANGED <<request, text, foreign, output>>
  BY DEF Generate!Replace
<1>2. PICK content \in Generate!Contents :
          files' = [files EXCEPT ![path] = [content |-> content, version |-> replacements + 1]]
  BY DEF Generate!Replace
<1>3. /\ CommandTypes /\ Selection /\ Generate!AutoDelivers /\ Launching /\ Counting
      /\ Accounting /\ Directory
      /\ generate \in CommandType /\ files \in [Generate!Paths -> Generate!Executable]
      /\ replacements \in Nat
      /\ generate.raced \in BOOLEAN
  BY CommandFields DEF CommandInv, CommandTypes
<1>4. now0 \in BOOLEAN /\ (generate.raced => now0)
      /\ (generate.pc = "launch" /\ generate.path = path => now0)
  BY <1>3
<1> HIDE DEF now0
<1>5. /\ generate' \in CommandType /\ generate'.pc = generate.pc
      /\ generate'.selected = generate.selected
      /\ generate'.path = generate.path /\ generate'.validated = generate.validated
      /\ generate'.start = generate.start /\ generate'.target = generate.target
      /\ generate'.launched = generate.launched /\ generate'.existing = generate.existing
      /\ generate'.raced = now0 /\ generate'.retried = generate.retried
      /\ generate'.added = generate.added /\ generate'.failures = generate.failures
      /\ generate'.reported = generate.reported
  BY <1>1, <1>3, <1>4 DEF CommandType
<1>6. files' \in [Generate!Paths -> Generate!Executable] /\ \A p \in Generate!Paths : p # path => files'[p] = files[p]
  BY <1>2, <1>3 DEF Generate!Executable
<1>7. CommandTypes'
  BY <1>1, <1>3, <1>5, <1>6 DEF CommandTypes
<1>8. Selection' /\ Generate!AutoDelivers' /\ Counting'
  BY <1>1, <1>3, <1>5 DEF Selection, External, Generate!AutoDelivers, Counting
<1>9. Launching'
  <2>1. generate.pc = "launch" => generate.path \in Generate!Paths
    BY <1>3 DEF Selection, External
  <2>2. generate.pc = "launch" /\ ~now0 => files'[generate.path] = files[generate.path]
    BY <1>4, <1>6, <2>1
  <2>3. generate'.pc = "launch" =>
            \/ files'[generate'.path] = generate'.validated /\ Generate!Valid(generate.path)'
            \/ generate'.raced
    BY <1>3, <1>4, <1>5, <2>2 DEF Launching, Generate!Valid
  <2> QED
    BY <1>3, <1>4, <1>5, <2>3 DEF Launching, Generate!LaunchesWhatItValidated, Generate!Valid
<1>10. Accounting'
  BY <1>1, <1>3, <1>5 DEF Accounting, Generate!AnAppendFailed, Generate!CacheIsAccountedFor,
                          Generate!DoneMeansThere
<1>11. Generate!Outputs' = Generate!Outputs
  BY <1>5 DEF Generate!Outputs, Generate!Whole
<1>12. Directory'
  BY <1>1, <1>3, <1>4, <1>5, <1>11 DEF Directory
<1> QED
  BY <1>7, <1>8, <1>9, <1>10, <1>12 DEF CommandInv

LEMMA ForeignAppendKeeps ==
    ASSUME CommandInv, Generate!ForeignAppend PROVE CommandInv'
<1>1. /\ ~Generate!Over /\ foreign' = foreign + 1 /\ text' = Append(text, Len(text) + 1)
      /\ UNCHANGED <<request, files, replacements, generate, output>>
  BY DEF Generate!ForeignAppend
<1>2. /\ CommandTypes /\ Selection /\ Generate!AutoDelivers /\ Launching /\ Counting
      /\ Accounting /\ Directory
      /\ text \in Seq(Int) /\ foreign \in Nat /\ generate \in CommandType
      /\ generate.start \in Nat /\ generate.added \in Nat
  BY CommandFields DEF CommandInv, CommandTypes
<1>3. text' \in Seq(Int) /\ Len(text') = Len(text) + 1 /\ Len(text) \in Nat
  BY <1>1, <1>2
<1>4. CommandTypes'
  BY <1>1, <1>2, <1>3 DEF CommandTypes
<1>5. Selection' /\ Generate!AutoDelivers'
  BY <1>1, <1>2 DEF Selection, External, Generate!AutoDelivers
<1>6. Launching'
  BY <1>1, <1>2 DEF Launching, Generate!LaunchesWhatItValidated, Generate!Valid
<1>7. Counting'
  BY <1>1, <1>2, <1>3 DEF Counting, External
<1>8. Generate!CacheIsAccountedFor'
  <2>1. PICK m \in FirstDigits : Len(text) = m + foreign + generate.added
    BY <1>2 DEF Accounting, Generate!CacheIsAccountedFor
  <2>2. m \in Nat
    BY CommandAssumption DEF Generate!CommandConstants
  <2>3. Len(text') = m + foreign' + generate'.added
    BY <1>1, <1>2, <1>3, <2>1, <2>2
  <2>4. ASSUME generate.launched = None \/ generate.launched.content = "y-cruncher"
        PROVE  text' = Generate!Run(0, Len(text'))
    <3>1. text = Generate!Run(0, Len(text))
      BY <1>2, <2>4 DEF Accounting, Generate!CacheIsAccountedFor
    <3> QED
      BY <1>1, <1>3, <3>1, RunAppends
  <2> QED
    BY <1>1, <2>3, <2>4 DEF Generate!CacheIsAccountedFor
<1>9. Accounting'
  BY <1>1, <1>2, <1>8 DEF Accounting, Generate!AnAppendFailed, Generate!DoneMeansThere,
                          Generate!Over
<1>10. Generate!Outputs' = Generate!Outputs
  BY <1>1 DEF Generate!Outputs, Generate!Whole
<1>11. Directory'
  BY <1>1, <1>2, <1>10 DEF Directory
<1> QED
  BY <1>4, <1>5, <1>6, <1>7, <1>9, <1>11 DEF CommandInv

-----------------------------------------------------------------------------
LEMMA CommandBegins ==
    ASSUME Generate!Init PROVE CommandInv
<1>1. /\ request \in Requests /\ files \in [Generate!Paths -> [content : FirstFiles, version : {0}]]
      /\ replacements = 0 /\ foreign = 0 /\ output = None
      /\ generate = [pc |-> "resolve", selected |-> None, path |-> None, validated |-> None,
                  start |-> 0, target |-> 0, existing |-> 0, launched |-> None,
                  raced |-> FALSE, retried |-> FALSE, added |-> 0, reported |-> 0,
                  failures |-> {}]
  BY DEF Generate!Init
<1>2. PICK n \in FirstDigits : text = Generate!Run(0, n)
  BY DEF Generate!Init
<1>3. n \in Nat /\ FirstFiles \subseteq Generate!Contents
  BY CommandAssumption DEF Generate!CommandConstants
<1>4. text \in Seq(Int) /\ Len(text) = n
  BY <1>2, <1>3, RunFromStart
<1>5. /\ generate \in CommandType /\ generate.pc = "resolve" /\ generate.selected = None
      /\ generate.path = None /\ generate.start = 0 /\ generate.launched = None
      /\ ~generate.retried /\ generate.added = 0
  BY <1>1 DEF CommandType, CommandStates
<1>6. files \in [Generate!Paths -> Generate!Executable]
  BY <1>1, <1>3 DEF Generate!Executable
<1>7. CommandTypes
  BY <1>1, <1>4, <1>5, <1>6 DEF CommandTypes
<1>8. Selection /\ Generate!AutoDelivers /\ Counting
  BY <1>5, NoneIsNothing DEF Selection, External, Generate!AutoDelivers, Counting
<1>9. Launching
  BY <1>5 DEF Launching, Generate!LaunchesWhatItValidated
<1>10. Accounting
  <2>1. Len(text) = n + foreign + generate.added
    BY <1>1, <1>3, <1>4, <1>5
  <2>2. Generate!CacheIsAccountedFor
    BY <1>2, <1>4, <2>1 DEF Generate!CacheIsAccountedFor
  <2> QED
    BY <1>5, <2>2 DEF Accounting, Generate!DoneMeansThere
<1>11. Directory
  BY <1>1, <1>5 DEF Directory
<1> QED
  BY <1>7, <1>8, <1>9, <1>10, <1>11 DEF CommandInv

LEMMA CommandStutters ==
    ASSUME CommandInv, UNCHANGED Generate!vars PROVE CommandInv'
<1>1. UNCHANGED <<request, files, replacements, text, foreign, generate, output>>
  BY DEF Generate!vars
<1>2. CommandTypes' /\ Selection' /\ Generate!AutoDelivers' /\ Counting'
  BY <1>1 DEF CommandInv, CommandTypes, Selection, External, Generate!AutoDelivers, Counting
<1>3. Launching'
  BY <1>1 DEF CommandInv, Launching, Generate!LaunchesWhatItValidated, Generate!Valid
<1>4. Accounting'
  BY <1>1 DEF CommandInv, Accounting, Generate!AnAppendFailed, Generate!CacheIsAccountedFor,
              Generate!DoneMeansThere
<1>5. Directory'
  BY <1>1 DEF CommandInv, Directory, Generate!Outputs, Generate!Whole
<1> QED
  BY <1>2, <1>3, <1>4, <1>5 DEF CommandInv

LEMMA CommandGoesOn ==
    ASSUME CommandInv, [Generate!Next]_(Generate!vars) PROVE CommandInv'
BY ResolveKeeps, SelectionFailsKeeps, BuiltInKeeps, TargetKeeps, CountKeeps, LaunchKeeps,
   ProgramKeeps, ImportKeeps, ReplaceKeeps, ForeignAppendKeeps, CommandStutters DEF Generate!Next

LEMMA CommandIsSound ==
    ASSUME CommandInv PROVE Generate!CommandInvariant
<1>1. /\ CommandTypes /\ Selection /\ Generate!AutoDelivers /\ Generate!LaunchesWhatItValidated
      /\ Generate!DoneMeansThere /\ Generate!CacheIsAccountedFor /\ Directory
  BY DEF CommandInv, Launching, Accounting
<1>2. Generate!ExplicitIsExplicit
  BY <1>1, NoneIsNothing DEF Generate!ExplicitIsExplicit, Selection
<1>3. Generate!DirectoryRemoved
  BY <1>1 DEF Generate!DirectoryRemoved, Directory, Generate!Over
<1> QED
  BY <1>1, <1>2, <1>3 DEF Generate!CommandInvariant

-----------------------------------------------------------------------------
\* A pi generate command runs the program it validated or one that was put in
\* its place just then; who names a generator gets no other; auto gives up only
\* after the built-in generator; and whatever failed, raced or was tried again,
\* the cache holds its first digits, the foreign ones and those the command
\* counted, and no directory is left behind but that of a program that did not
\* start.
THEOREM CommandCorrect == MCSpec => []CommandInvariant
<1>1. MCInit => CommandInv
  BY CommandBegins DEF MCInit
<1>2. [MCNext]_<<side, vars, commandVars>> => [Generate!Next]_(Generate!vars)
  BY DEF MCNext, commandVars, Generate!vars
<1>3. CommandInv /\ [MCNext]_<<side, vars, commandVars>> => CommandInv'
  BY <1>2, CommandGoesOn
<1>4. CommandInv => CommandInvariant
  BY CommandIsSound DEF CommandInvariant
<1> QED
  BY <1>1, <1>3, <1>4, PTL DEF MCSpec
=============================================================================
