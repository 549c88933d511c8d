--------------------------- MODULE ResourceBudget ---------------------------
(***************************************************************************)
(* The shared resource budget of a search session: one mutex, one          *)
(* condition variable and six counters that admit queued chunks, reader    *)
(* buffers, CPU and GPU permits and the single pi generator.               *)
(*                                                                         *)
(* A caller stands for one use of an acquire method together with the      *)
(* lease it returns: it is idle, entering (about to take the mutex),       *)
(* asleep on the condition variable, or holding its lease.  Which thread   *)
(* makes the call does not matter to the budget; a thread that holds two   *)
(* leases is two callers.                                                  *)
(***************************************************************************)
EXTENDS FiniteSetsExt, GenerationPlan

CONSTANTS
    Callers,        \* concurrent uses of the budget
    QueueLimit,     \* queue_depth: chunk leases, and GPU permits
    MemoryLimit,    \* memory_limit_bytes
    CpuMax,         \* cpu_permits_max
    ChunkBytes,     \* sizes a chunk reservation may have
    ReaderBytes,    \* sizes a reader-pool reservation may have
    CpuRequests,    \* widths a search backend may ask for
    FixedBytes,     \* the generator's fixed charge
    WindowLen,      \* digits in one search window
    PendingLeads    \* digits a generation demand may lie ahead of the cache

ASSUME LimitsAssumption ==
    /\ QueueLimit \in Nat \ {0}
    /\ MemoryLimit \in Nat \ {0}
    /\ CpuMax \in Nat \ {0}
    /\ WindowLen \in Nat \ {0}
    /\ FixedBytes \in Nat

ASSUME RequestsAssumption ==
    /\ IsFiniteSet(Callers)
    /\ ChunkBytes \subseteq Nat
    /\ ReaderBytes \subseteq Nat
    /\ CpuRequests \subseteq Nat
    /\ PendingLeads \subseteq Nat

VARIABLES
    queueCurrent, memoryReserved, readerCapacity,
    cpuInUse, gpuInUse, generatorsInUse,
    phase,          \* where each caller is
    request         \* what each caller asks for, or holds

counters == <<queueCurrent, memoryReserved, readerCapacity,
              cpuInUse, gpuInUse, generatorsInUse>>
vars == <<counters, phase, request>>

\* What each kind of request charges; a GPU permit costs neither memory nor
\* CPU.
Request ==
    [kind : {"none", "gpu"}, bytes : {0}, cpu : {0}]
      \cup [kind : {"chunk", "reader"}, bytes : Nat, cpu : {0}]
      \cup [kind : {"cpu"}, bytes : {0}, cpu : Nat]
      \cup [kind : {"generator"}, bytes : Nat, cpu : Nat]
NoRequest == [kind |-> "none", bytes |-> 0, cpu |-> 0]

-----------------------------------------------------------------------------
(* Waiting conditions, as the acquire loops test them.                     *)

\* Seeded fault: the size of the request is not looked at.
MemoryAdmits_Unsized(bytes) == memoryReserved < MemoryLimit
MemoryAdmits(bytes) == memoryReserved + bytes <= MemoryLimit
CpuAdmits(permits) == cpuInUse <= CpuMax - permits

Admissible(r) ==
    \/ r.kind = "chunk" /\ queueCurrent < QueueLimit /\ MemoryAdmits(r.bytes)
    \/ r.kind = "cpu" /\ CpuAdmits(r.cpu)
    \/ r.kind = "gpu" /\ gpuInUse < QueueLimit
    \/ /\ r.kind = "generator"
       /\ generatorsInUse < 1
       /\ MemoryAdmits(r.bytes)
       /\ CpuAdmits(r.cpu)

\* Requests that are refused with an error before anything is waited for.
Refused(r) ==
    \/ r.kind \in {"chunk", "generator"} /\ r.bytes > MemoryLimit
    \/ r.kind \in {"cpu", "generator"} /\ r.cpu \notin 1..CpuMax

\* generation_cpu_workers: the producer leaves one permit to the search.
GenerationCpuWorkers == IF CpuMax > 1 THEN CpuMax - 1 ELSE 1

\* The requests of the search threads; a generator's are planned, below.
SearchRequests ==
    [kind : {"chunk"}, bytes : ChunkBytes, cpu : {0}]
      \cup [kind : {"cpu"}, bytes : {0}, cpu : CpuRequests]
      \cup [kind : {"gpu"}, bytes : {0}, cpu : {0}]

-----------------------------------------------------------------------------
Init ==
    /\ queueCurrent = 0
    /\ memoryReserved = 0
    /\ readerCapacity = 0
    /\ cpuInUse = 0
    /\ gpuInUse = 0
    /\ generatorsInUse = 0
    /\ phase = [c \in Callers |-> "idle"]
    /\ request = [c \in Callers |-> NoRequest]

\* A search thread calls acquire_chunk, acquire_cpu or acquire_gpu.
Call(c, r) ==
    /\ phase[c] = "idle"
    /\ ~Refused(r)
    /\ phase' = [phase EXCEPT ![c] = "entering"]
    /\ request' = [request EXCEPT ![c] = r]
    /\ UNCHANGED counters

\* The generator thread plans a batch from what is free now, drops the lock,
\* and only then calls acquire_generation with the planned size.
PlanAndCall(c, pendingLead) ==
    LET lead == LeadDigits(MemoryLimit, memoryReserved, FixedBytes,
                           WindowLen, 0, pendingLead)
        r == [kind |-> "generator",
              bytes |-> GeneratorReservation(FixedBytes, lead),
              cpu |-> GenerationCpuWorkers]
    IN  /\ phase[c] = "idle"
        /\ OneWindowFits(MemoryLimit, memoryReserved, FixedBytes, WindowLen)
        /\ ~Refused(r)
        /\ phase' = [phase EXCEPT ![c] = "entering"]
        /\ request' = [request EXCEPT ![c] = r]
        /\ UNCHANGED counters

\* The loop condition of acquire_* is false: the counters are charged.
Grant(c) ==
    LET r == request[c]
    IN  /\ phase[c] = "entering"
        /\ Admissible(r)
        /\ queueCurrent' = queueCurrent + (IF r.kind = "chunk" THEN 1 ELSE 0)
        /\ gpuInUse' = gpuInUse + (IF r.kind = "gpu" THEN 1 ELSE 0)
        /\ generatorsInUse' =
               generatorsInUse + (IF r.kind = "generator" THEN 1 ELSE 0)
        /\ memoryReserved' = memoryReserved + r.bytes
        /\ cpuInUse' = cpuInUse + r.cpu
        /\ phase' = [phase EXCEPT ![c] = "holding"]
        /\ UNCHANGED <<readerCapacity, request>>

\* The loop condition is true: Condvar::wait releases the mutex.
Sleep(c) ==
    /\ phase[c] = "entering"
    /\ ~Admissible(request[c])
    /\ phase' = [phase EXCEPT ![c] = "asleep"]
    /\ UNCHANGED <<counters, request>>

\* Condvar::wait may return without a notification.
SpuriousWakeup(c) ==
    /\ phase[c] = "asleep"
    /\ phase' = [phase EXCEPT ![c] = "entering"]
    /\ UNCHANGED <<counters, request>>

\* reserve_reader_capacity never waits: it charges the budget or fails.  A
\* session's constructor calls it, before the threads that use the budget run.
ReserveReaderCapacity(c, bytes) ==
    /\ \A d \in Callers : phase[d] = "idle"
    /\ MemoryAdmits(bytes)
    /\ memoryReserved' = memoryReserved + bytes
    /\ readerCapacity' = readerCapacity + bytes
    /\ phase' = [phase EXCEPT ![c] = "holding"]
    /\ request' =
           [request EXCEPT ![c] = [kind |-> "reader", bytes |-> bytes, cpu |-> 0]]
    /\ UNCHANGED <<queueCurrent, cpuInUse, gpuInUse, generatorsInUse>>

\* Seeded fault: one sleeper is woken.
NotifyAll_One(p) ==
    [d \in Callers |->
        IF p[d] = "asleep" /\ d = CHOOSE e \in Callers : p[e] = "asleep"
        THEN "entering" ELSE p[d]]
\* Seeded fault: nobody is woken.
NotifyAll_Nobody(p) == p
\* ready.notify_all(): every sleeper goes back to test its condition.
NotifyAll(p) ==
    [d \in Callers |-> IF p[d] = "asleep" THEN "entering" ELSE p[d]]

\* Seeded fault: the CPU permits are not returned.
Release_CpuKept(c) ==
    LET r == request[c]
    IN  /\ phase[c] = "holding"
        /\ queueCurrent' = Monus(queueCurrent, IF r.kind = "chunk" THEN 1 ELSE 0)
        /\ gpuInUse' = Monus(gpuInUse, IF r.kind = "gpu" THEN 1 ELSE 0)
        /\ generatorsInUse' =
               Monus(generatorsInUse, IF r.kind = "generator" THEN 1 ELSE 0)
        /\ memoryReserved' = Monus(memoryReserved, r.bytes)
        /\ readerCapacity' =
               Monus(readerCapacity, IF r.kind = "reader" THEN r.bytes ELSE 0)
        /\ cpuInUse' = Monus(cpuInUse, IF r.kind = "cpu" THEN r.cpu ELSE 0)
        /\ phase' = NotifyAll([phase EXCEPT ![c] = "idle"])
        /\ request' = [request EXCEPT ![c] = NoRequest]

\* A lease is dropped.
Release(c) ==
    LET r == request[c]
    IN  /\ phase[c] = "holding"
        /\ queueCurrent' = Monus(queueCurrent, IF r.kind = "chunk" THEN 1 ELSE 0)
        /\ gpuInUse' = Monus(gpuInUse, IF r.kind = "gpu" THEN 1 ELSE 0)
        /\ generatorsInUse' =
               Monus(generatorsInUse, IF r.kind = "generator" THEN 1 ELSE 0)
        /\ memoryReserved' = Monus(memoryReserved, r.bytes)
        /\ readerCapacity' =
               Monus(readerCapacity, IF r.kind = "reader" THEN r.bytes ELSE 0)
        /\ cpuInUse' = Monus(cpuInUse, r.cpu)
        /\ phase' = NotifyAll([phase EXCEPT ![c] = "idle"])
        /\ request' = [request EXCEPT ![c] = NoRequest]

Step(c) ==
    \/ \E r \in SearchRequests : Call(c, r)
    \/ \E lead \in PendingLeads : PlanAndCall(c, lead)
    \/ \E bytes \in ReaderBytes : ReserveReaderCapacity(c, bytes)
    \/ Grant(c)
    \/ Sleep(c)
    \/ SpuriousWakeup(c)
    \/ Release(c)

Next == \E c \in Callers : Step(c)

\* The mutex is always released, so a caller that is entering gets in; leases
\* are guards of work that terminates, except the reader pool's, which lives
\* as long as its session.
TransientRelease(c) == request[c].kind # "reader" /\ Release(c)
Fairness ==
    \A c \in Callers : WF_vars(Grant(c) \/ Sleep(c)) /\ WF_vars(TransientRelease(c))

Spec == Init /\ [][Next]_vars /\ Fairness

-----------------------------------------------------------------------------
(* Properties                                                              *)

TypeOK ==
    /\ queueCurrent \in Nat
    /\ memoryReserved \in Nat
    /\ readerCapacity \in Nat
    /\ cpuInUse \in Nat
    /\ gpuInUse \in Nat
    /\ generatorsInUse \in Nat
    /\ phase \in [Callers -> {"idle", "entering", "asleep", "holding"}]
    /\ request \in [Callers -> Request]

\* The hard limits hold in every interleaving of grants and releases.
WithinLimits ==
    /\ queueCurrent <= QueueLimit
    /\ gpuInUse <= QueueLimit
    /\ generatorsInUse <= 1
    /\ cpuInUse <= CpuMax
    /\ memoryReserved <= MemoryLimit

Holding(kind) == {c \in Callers : phase[c] = "holding" /\ request[c].kind = kind}
Holders == {c \in Callers : phase[c] = "holding"}

\* Every counter is exactly what the outstanding leases add up to: nothing
\* leaks, nothing is returned twice, and no saturating subtraction ever hides
\* a mismatch.  The counted resources first.
LeaseCountsExact ==
    /\ queueCurrent = Cardinality(Holding("chunk"))
    /\ gpuInUse = Cardinality(Holding("gpu"))
    /\ generatorsInUse = Cardinality(Holding("generator"))

\* The byte and permit counters equal the sums over the outstanding leases,
\* and the reader share of the memory is exactly the readers' leases.
LeasedBytes(S) == MapThenSumSet(LAMBDA c : request[c].bytes, S)
LeasedPermits(S) == MapThenSumSet(LAMBDA c : request[c].cpu, S)
LeaseSumsExact ==
    /\ memoryReserved = LeasedBytes(Holders)
    /\ readerCapacity = LeasedBytes(Holding("reader"))
    /\ cpuInUse = LeasedPermits(Holders)

\* The accounting of the budget: well-formed counters, each exactly what the
\* outstanding leases add up to, whoever was granted and returned what.
AccountingExact == TypeOK /\ LeaseCountsExact /\ LeaseSumsExact

\* A caller only sleeps while its condition is false: no release that would
\* let it in leaves it on the condition variable.
NoLostWakeup ==
    \A c \in Callers : phase[c] = "asleep" => ~Admissible(request[c])

\* A chunk that does not fit beside the readers' memory is not refused: its
\* caller waits until the session gives that memory back.
Crowded(c) ==
    request[c].kind = "chunk" /\ readerCapacity + request[c].bytes > MemoryLimit

\* When only permanent reader reservations are left, nobody else is asleep: no
\* caller waits for memory that no release will ever return.
DrainedBudgetAdmitsEveryone ==
    Holders \subseteq Holding("reader")
        => \A c \in Callers : phase[c] = "asleep" => Crowded(c)

\* The budget is accounted for, and drains: what is returned lets everybody in.
BudgetInvariant == AccountingExact /\ DrainedBudgetAdmitsEveryone

\* A caller that sleeps gets to test its condition again: as long as anyone is
\* asleep some lease is out whose release will wake it.
SleepersRetest ==
    \A c \in Callers : phase[c] = "asleep" ~> phase[c] = "entering" \/ Crowded(c)
=============================================================================
