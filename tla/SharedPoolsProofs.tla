------------------------- MODULE SharedPoolsProofs -------------------------
(***************************************************************************)
(* What holds of the pools that threads share, for every number of them:   *)
(* of the resource budget for every limit and every set of reservation     *)
(* sizes, of the digit readers and of the file behind them for every text, *)
(* every buffer and every set of reads.                                    *)
(*                                                                         *)
(* The pools share no state and rest while another moves, so each has an   *)
(* inductive invariant of its own: TypeOK and what follows it for the      *)
(* budget, ReadersIInv for the readers and FilesIInv for the file.  Both   *)
(* of the latter rest on what a text says up to a byte (StandsAt), which   *)
(* is what a parser has to have counted when it stands there.              *)
(***************************************************************************)
EXTENDS SharedPools, DigitText, SequenceTheorems, FiniteSetTheorems, WellFoundedInduction, TLAPS

-----------------------------------------------------------------------------
(* The resource budget.                                                    *)

\* A generation batch planned by plan_generation is never larger than the
\* memory that was free when it was planned, so acquire_generation does not
\* refuse it and it can be granted as soon as the budget is as free again.
THEOREM PlannedReservationFits ==
    ASSUME NEW limit \in Nat, NEW reserved \in Nat, NEW fixed \in Nat,
           NEW windowLen \in Nat \ {0}, NEW current \in Nat, NEW target \in Nat,
           reserved <= limit,
           OneWindowFits(limit, reserved, fixed, windowLen)
    PROVE  reserved + GeneratorReservation(fixed,
               LeadDigits(limit, reserved, fixed, windowLen, current, target))
           <= limit
<1> DEFINE free == FreeAfterFixed(limit, reserved, fixed)
<1>1. free \in Nat /\ (free > 0 => reserved + fixed + free <= limit)
  BY DEF FreeAfterFixed, Monus
<1>2. free > 0
  BY <1>1 DEF OneWindowFits, ResidentBytesPerDigit
<1>3. LeadDigits(limit, reserved, fixed, windowLen, current, target) <= free \div 2
  BY <1>1 DEF LeadDigits, AvailableLead, Least, Greatest, Monus,
              ResidentBytesPerDigit
<1>4. LeadDigits(limit, reserved, fixed, windowLen, current, target) \in Nat
  BY <1>1 DEF LeadDigits, AvailableLead, Least, Greatest, Monus,
              ResidentBytesPerDigit
<1> QED
  BY <1>1, <1>2, <1>3, <1>4 DEF GeneratorReservation, ResidentBytesPerDigit

\* A planned batch always moves the cache forward: the epoch loop of the pi
\* producer, which plans until its target is reached, cannot spin in place.
THEOREM PlannedBatchAdvances ==
    ASSUME NEW limit \in Nat, NEW reserved \in Nat, NEW fixed \in Nat,
           NEW windowLen \in Nat \ {0}, NEW current \in Nat, NEW target \in Nat,
           OneWindowFits(limit, reserved, fixed, windowLen),
           current < target
    PROVE  LET highWater ==
                 HighWaterDigits(target, current,
                     LeadDigits(limit, reserved, fixed, windowLen, current, target))
           IN  current < highWater /\ highWater <= target
<1>1. FreeAfterFixed(limit, reserved, fixed) \in Nat
  BY DEF FreeAfterFixed, Monus
<1>2. AvailableLead(limit, reserved, fixed) \in Nat \ {0}
  BY <1>1 DEF AvailableLead, OneWindowFits, ResidentBytesPerDigit
<1> QED
  BY <1>2 DEF HighWaterDigits, LeadDigits, Least, Greatest, Monus

-----------------------------------------------------------------------------
\* The requests a thread can make are well formed.
LEMMA RequestsTyped ==
    SearchRequests \subseteq Request /\ NoRequest \in Request
<1>1. ASSUME NEW r \in SearchRequests PROVE r \in Request
  <2>1. CASE r \in [kind : {"chunk"}, bytes : ChunkBytes, cpu : {0}]
    <3>1. r \in [kind : {"chunk", "reader"}, bytes : Nat, cpu : {0}]
      BY <2>1, RequestsAssumption
    <3> QED
      BY <3>1 DEF Request
  <2>2. CASE r \in [kind : {"cpu"}, bytes : {0}, cpu : CpuRequests]
    <3>1. r \in [kind : {"cpu"}, bytes : {0}, cpu : Nat]
      BY <2>2, RequestsAssumption
    <3> QED
      BY <3>1 DEF Request
  <2>3. CASE r \in [kind : {"gpu"}, bytes : {0}, cpu : {0}]
    <3>1. r \in [kind : {"none", "gpu"}, bytes : {0}, cpu : {0}]
      BY <2>3
    <3> QED
      BY <3>1 DEF Request
  <2> QED
    BY <1>1, <2>1, <2>2, <2>3 DEF SearchRequests
<1>2. NoRequest \in [kind : {"none", "gpu"}, bytes : {0}, cpu : {0}]
  BY DEF NoRequest
<1> QED
  BY <1>1, <1>2 DEF Request

\* A request charges numbers, and only the resources its kind stands for.
LEMMA RequestCharges ==
    ASSUME NEW r \in Request
    PROVE  /\ r.bytes \in Nat /\ r.cpu \in Nat
           /\ r.kind \notin {"chunk", "generator", "reader"} => r.bytes = 0
           /\ r.kind \notin {"cpu", "generator"} => r.cpu = 0
BY DEF Request

LEMMA LeadIsNat ==
    ASSUME TypeOK, NEW lead \in PendingLeads
    PROVE  LeadDigits(MemoryLimit, memoryReserved, FixedBytes, WindowLen, 0, lead)
             \in Nat
<1>1. lead \in Nat
  BY RequestsAssumption
<1>2. FreeAfterFixed(MemoryLimit, memoryReserved, FixedBytes) \in Nat
  BY LimitsAssumption DEF TypeOK, FreeAfterFixed, Monus
<1> QED
  BY <1>1, <1>2, LimitsAssumption
  DEF LeadDigits, AvailableLead, ResidentBytesPerDigit, Least, Greatest, Monus

\* Waking everyone only moves sleepers to the entrance.
LEMMA NotifyAllTyped ==
    ASSUME NEW p \in [Callers -> {"idle", "entering", "asleep", "holding"}]
    PROVE  /\ NotifyAll(p) \in [Callers -> {"idle", "entering", "asleep", "holding"}]
           /\ \A c \in Callers : NotifyAll(p)[c] # "asleep"
           /\ \A c \in Callers : NotifyAll(p)[c] = "holding" <=> p[c] = "holding"
BY DEF NotifyAll

THEOREM TypeCorrect == Spec => []TypeOK
<1>1. Init => TypeOK
  BY RequestsTyped DEF Init, TypeOK
<1>2. TypeOK /\ [Next]_vars => TypeOK'
  <2> SUFFICES ASSUME TypeOK, [Next]_vars PROVE TypeOK'
    OBVIOUS
  <2> USE DEF TypeOK
  <2>1. ASSUME NEW c \in Callers, NEW r \in SearchRequests, Call(c, r)
        PROVE  TypeOK'
    BY <2>1, RequestsTyped DEF Call, counters
  <2>2. ASSUME NEW c \in Callers, NEW lead \in PendingLeads, PlanAndCall(c, lead)
        PROVE  TypeOK'
    <3> DEFINE n == LeadDigits(MemoryLimit, memoryReserved, FixedBytes,
                               WindowLen, 0, lead)
               r == [kind |-> "generator",
                     bytes |-> GeneratorReservation(FixedBytes, n),
                     cpu |-> GenerationCpuWorkers]
    <3>1. n \in Nat
      BY LeadIsNat
    <3>2. r \in Request
      <4>1. r \in [kind : {"generator"}, bytes : Nat, cpu : Nat]
        BY <3>1, LimitsAssumption
        DEF GeneratorReservation, GenerationCpuWorkers, ResidentBytesPerDigit
      <4> QED
        BY <4>1 DEF Request
    <3> HIDE DEF r, n
    <3>3. /\ phase' = [phase EXCEPT ![c] = "entering"]
          /\ request' = [request EXCEPT ![c] = r]
          /\ UNCHANGED counters
      BY <2>2 DEF PlanAndCall, r, n
    <3> QED
      BY <3>2, <3>3 DEF counters
  <2>3. ASSUME NEW c \in Callers, NEW bytes \in ReaderBytes,
               ReserveReaderCapacity(c, bytes)
        PROVE  TypeOK'
    <3> DEFINE r == [kind |-> "reader", bytes |-> bytes, cpu |-> 0]
    <3>1. bytes \in Nat
      BY RequestsAssumption
    <3>2. r \in Request
      <4>1. r \in [kind : {"chunk", "reader"}, bytes : Nat, cpu : {0}]
        BY <3>1
      <4> QED
        BY <4>1 DEF Request
    <3> HIDE DEF r
    <3>3. /\ phase' = [phase EXCEPT ![c] = "holding"]
          /\ request' = [request EXCEPT ![c] = r]
          /\ memoryReserved' = memoryReserved + bytes
          /\ readerCapacity' = readerCapacity + bytes
          /\ UNCHANGED <<queueCurrent, cpuInUse, gpuInUse, generatorsInUse>>
      BY <2>3 DEF ReserveReaderCapacity, r
    <3> QED
      BY <3>1, <3>2, <3>3
  <2>4. ASSUME NEW c \in Callers, Grant(c)
        PROVE  TypeOK'
    <3>1. request[c].bytes \in Nat /\ request[c].cpu \in Nat
      BY RequestCharges
    <3> QED
      BY <2>4, <3>1 DEF Grant
  <2>5. ASSUME NEW c \in Callers, Sleep(c) \/ SpuriousWakeup(c)
        PROVE  TypeOK'
    BY <2>5 DEF Sleep, SpuriousWakeup, counters
  <2>6. ASSUME NEW c \in Callers, Release(c)
        PROVE  TypeOK'
    <3>1. /\ queueCurrent' \in Nat /\ memoryReserved' \in Nat
          /\ readerCapacity' \in Nat /\ cpuInUse' \in Nat
          /\ gpuInUse' \in Nat /\ generatorsInUse' \in Nat
      BY <2>6, RequestCharges DEF Release, Monus
    <3>2. phase' \in [Callers -> {"idle", "entering", "asleep", "holding"}]
      BY <2>6, NotifyAllTyped DEF Release
    <3>3. request' \in [Callers -> Request]
      BY <2>6, RequestsTyped DEF Release
    <3> QED
      BY <3>1, <3>2, <3>3
  <2>7. CASE UNCHANGED vars
    BY <2>7 DEF vars, counters
  <2> QED
    BY <2>1, <2>2, <2>3, <2>4, <2>5, <2>6, <2>7 DEF Next, Step
<1> QED
  BY <1>1, <1>2, PTL DEF Spec

-----------------------------------------------------------------------------
\* No interleaving of grants and releases takes a counter over its limit.
\* Saturating releases only lower a counter, so the limits are inductive on
\* their own, whatever the leases were charged.
THEOREM LimitsHold == Spec => []WithinLimits
<1>1. Init => WithinLimits
  BY LimitsAssumption DEF Init, WithinLimits
<1>2. TypeOK /\ WithinLimits /\ [Next]_vars => WithinLimits'
  <2> SUFFICES ASSUME TypeOK, WithinLimits, [Next]_vars PROVE WithinLimits'
    OBVIOUS
  <2> USE LimitsAssumption DEF WithinLimits
  <2>1. ASSUME NEW c \in Callers, NEW r \in SearchRequests, Call(c, r)
        PROVE  WithinLimits'
    BY <2>1 DEF Call, counters
  <2>2. ASSUME NEW c \in Callers, NEW lead \in PendingLeads, PlanAndCall(c, lead)
        PROVE  WithinLimits'
    BY <2>2 DEF PlanAndCall, counters
  <2>3. ASSUME NEW c \in Callers, NEW bytes \in ReaderBytes,
               ReserveReaderCapacity(c, bytes)
        PROVE  WithinLimits'
    BY <2>3 DEF ReserveReaderCapacity, MemoryAdmits
  <2>4. ASSUME NEW c \in Callers, Grant(c)
        PROVE  WithinLimits'
    <3>1. request[c] \in Request
      BY DEF TypeOK
    <3>2. Admissible(request[c])
      BY <2>4 DEF Grant
    <3>3. memoryReserved + request[c].bytes <= MemoryLimit
      BY <3>1, <3>2, RequestCharges DEF Admissible, MemoryAdmits, TypeOK
    <3>4. cpuInUse + request[c].cpu <= CpuMax
      BY <3>1, <3>2, RequestCharges DEF Admissible, CpuAdmits, TypeOK
    <3> QED
      BY <2>4, <3>2, <3>3, <3>4 DEF Grant, Admissible, TypeOK
  <2>5. ASSUME NEW c \in Callers, Sleep(c) \/ SpuriousWakeup(c)
        PROVE  WithinLimits'
    BY <2>5 DEF Sleep, SpuriousWakeup, counters
  <2>6. ASSUME NEW c \in Callers, Release(c)
        PROVE  WithinLimits'
    <3>1. request[c] \in Request
      BY DEF TypeOK
    <3> QED
      BY <2>6, <3>1, RequestCharges DEF Release, Monus, TypeOK
  <2>7. CASE UNCHANGED vars
    BY <2>7 DEF vars, counters
  <2> QED
    BY <2>1, <2>2, <2>3, <2>4, <2>5, <2>6, <2>7 DEF Next, Step
<1> QED
  BY <1>1, <1>2, TypeCorrect, PTL DEF Spec

-----------------------------------------------------------------------------
\* Charging the budget only makes it harder to get in, so a grant leaves every
\* sleeper's condition false.
LEMMA GrantKeepsOthersOut ==
    ASSUME TypeOK, NEW c \in Callers, Grant(c),
           NEW r \in Request, ~Admissible(r)
    PROVE  ~Admissible(r)'
<1>1. request[c].bytes \in Nat /\ request[c].cpu \in Nat
  BY RequestCharges DEF TypeOK
<1>2. r.bytes \in Nat /\ r.cpu \in Nat
  BY RequestCharges
<1>3. /\ queueCurrent' >= queueCurrent
      /\ gpuInUse' >= gpuInUse
      /\ generatorsInUse' >= generatorsInUse
      /\ memoryReserved' >= memoryReserved
      /\ cpuInUse' >= cpuInUse
  BY <1>1 DEF Grant, TypeOK
<1>4. /\ queueCurrent' \in Nat /\ gpuInUse' \in Nat /\ generatorsInUse' \in Nat
      /\ memoryReserved' \in Nat /\ cpuInUse' \in Nat
  BY <1>1 DEF Grant, TypeOK
<1> QED
  BY <1>2, <1>3, <1>4, LimitsAssumption
  DEF Admissible, MemoryAdmits, CpuAdmits, TypeOK

\* Nobody is left asleep on the condition variable with a true condition: the
\* counters only fall in Release, which wakes every sleeper.
THEOREM WakeupsNotLost == Spec => []NoLostWakeup
<1>1. Init => NoLostWakeup
  BY DEF Init, NoLostWakeup
<1>2. TypeOK /\ NoLostWakeup /\ [Next]_vars => NoLostWakeup'
  <2> SUFFICES ASSUME TypeOK, NoLostWakeup, [Next]_vars,
                      NEW d \in Callers, phase'[d] = "asleep"
               PROVE  ~Admissible(request[d])'
    BY DEF NoLostWakeup
  <2>1. ASSUME NEW c \in Callers,
               \/ \E r \in SearchRequests : Call(c, r)
               \/ \E lead \in PendingLeads : PlanAndCall(c, lead)
        PROVE  ~Admissible(request[d])'
    <3>1. UNCHANGED counters /\ d # c /\ phase[d] = "asleep" /\ request'[d] = request[d]
      BY <2>1 DEF Call, PlanAndCall, TypeOK
    <3> QED
      BY <3>1 DEF NoLostWakeup, Admissible, MemoryAdmits, CpuAdmits, counters
  <2>2. ASSUME NEW c \in Callers, NEW bytes \in ReaderBytes,
               ReserveReaderCapacity(c, bytes)
        PROVE  ~Admissible(request[d])'
    BY <2>2 DEF ReserveReaderCapacity, TypeOK
  <2>3. ASSUME NEW c \in Callers, Grant(c)
        PROVE  ~Admissible(request[d])'
    <3>1. phase[d] = "asleep" /\ request'[d] = request[d]
      BY <2>3 DEF Grant, TypeOK
    <3>2. request[d] \in Request /\ ~Admissible(request[d])
      BY <3>1 DEF NoLostWakeup, TypeOK
    <3>3. PICK r \in Request : r = request[d]
      BY <3>2
    <3>4. ~Admissible(r)'
      BY <2>3, <3>2, <3>3, GrantKeepsOthersOut
    <3> QED
      BY <3>1, <3>3, <3>4 DEF Admissible, MemoryAdmits, CpuAdmits
  <2>4. ASSUME NEW c \in Callers, Sleep(c)
        PROVE  ~Admissible(request[d])'
    <3>1. ~Admissible(request[d]) /\ UNCHANGED <<counters, request>>
      BY <2>4 DEF Sleep, NoLostWakeup, TypeOK
    <3> QED
      BY <3>1 DEF Admissible, MemoryAdmits, CpuAdmits, counters
  <2>5. ASSUME NEW c \in Callers, SpuriousWakeup(c)
        PROVE  ~Admissible(request[d])'
    <3>1. ~Admissible(request[d]) /\ UNCHANGED <<counters, request>>
      BY <2>5 DEF SpuriousWakeup, NoLostWakeup, TypeOK
    <3> QED
      BY <3>1 DEF Admissible, MemoryAdmits, CpuAdmits, counters
  <2>6. ASSUME NEW c \in Callers, Release(c)
        PROVE  ~Admissible(request[d])'
    <3>1. phase'[d] # "asleep"
      BY <2>6, NotifyAllTyped DEF Release, TypeOK
    <3> QED
      BY <3>1
  <2>7. CASE UNCHANGED vars
    BY <2>7 DEF vars, counters, NoLostWakeup, Admissible, MemoryAdmits, CpuAdmits
  <2> QED
    BY <2>1, <2>2, <2>3, <2>4, <2>5, <2>6, <2>7 DEF Next, Step
<1> QED
  BY <1>1, <1>2, TypeCorrect, PTL DEF Spec

-----------------------------------------------------------------------------
\* The holders of each kind of lease are finitely many.
LEMMA HoldingFinite ==
    ASSUME NEW k
    PROVE  IsFiniteSet(Holding(k)) /\ Cardinality(Holding(k)) \in Nat
<1>1. Holding(k) \subseteq Callers
  BY DEF Holding
<1> QED
  BY <1>1, RequestsAssumption, FS_Subset, FS_CardinalityType

\* A step that changes no lease leaves every holder in place.
LEMMA HoldingUnchanged ==
    ASSUME NEW k \in {"chunk", "gpu", "generator"},
           \A d \in Callers :
               (phase'[d] = "holding" /\ request'[d].kind = k)
                   <=> (phase[d] = "holding" /\ request[d].kind = k)
    PROVE  Holding(k)' = Holding(k)
BY DEF Holding

\* A grant adds the caller to the holders of its kind.
LEMMA GrantAddsHolder ==
    ASSUME TypeOK, NEW c \in Callers, Grant(c),
           NEW k \in {"chunk", "gpu", "generator"}
    PROVE  Cardinality(Holding(k))' =
               Cardinality(Holding(k)) + (IF request[c].kind = k THEN 1 ELSE 0)
<1>1. CASE request[c].kind = k
  <2>1. Holding(k)' = Holding(k) \cup {c} /\ c \notin Holding(k)
    BY <1>1 DEF Grant, Holding, TypeOK
  <2> QED
    BY <1>1, <2>1, HoldingFinite, FS_AddElement
<1>2. CASE request[c].kind # k
  <2>1. Holding(k)' = Holding(k)
    BY <1>2 DEF Grant, Holding, TypeOK
  <2> QED
    BY <1>2, <2>1, HoldingFinite
<1> QED
  BY <1>1, <1>2

\* A release removes the caller from the holders of its kind, and the counter
\* it lowers was at least one: the saturation of the subtraction is not used.
LEMMA ReleaseRemovesHolder ==
    ASSUME TypeOK, NEW c \in Callers, Release(c),
           NEW k \in {"chunk", "gpu", "generator"}
    PROVE  Cardinality(Holding(k))' =
               Monus(Cardinality(Holding(k)),
                     IF request[c].kind = k THEN 1 ELSE 0)
<1>1. \A d \in Callers : d # c =>
          (phase'[d] = "holding" <=> phase[d] = "holding")
          /\ request'[d] = request[d]
  BY NotifyAllTyped DEF Release, TypeOK, NotifyAll
<1>2. phase'[c] # "holding" /\ phase[c] = "holding"
  BY DEF Release, TypeOK, NotifyAll
<1>3. Holding(k)' = Holding(k) \ {c}
  BY <1>1, <1>2 DEF Holding
<1>4. CASE request[c].kind = k
  <2>1. c \in Holding(k)
    BY <1>2, <1>4 DEF Holding
  <2>2. Cardinality(Holding(k) \ {c}) = Cardinality(Holding(k)) - 1
    BY <2>1, HoldingFinite, FS_RemoveElement
  <2>3. Cardinality(Holding(k) \ {c}) \in Nat
    BY <1>3, HoldingFinite, FS_RemoveElement, FS_CardinalityType
  <2> QED
    BY <1>3, <1>4, <2>2, <2>3, HoldingFinite DEF Monus
<1>5. CASE request[c].kind # k
  <2>1. Holding(k)' = Holding(k)
    BY <1>3, <1>5 DEF Holding
  <2> QED
    BY <1>5, <2>1, HoldingFinite DEF Monus
<1> QED
  BY <1>4, <1>5

\* The counted resources equal the number of outstanding leases of their kind
\* in every reachable state: no lease is leaked or returned twice.
THEOREM LeaseAccountingExact == Spec => []LeaseCountsExact
<1>1. Init => LeaseCountsExact
  <2> SUFFICES ASSUME Init PROVE LeaseCountsExact
    OBVIOUS
  <2>1. \A k \in {"chunk", "gpu", "generator"} : Holding(k) = {}
    BY DEF Init, Holding
  <2> QED
    BY <2>1, FS_EmptySet DEF Init, LeaseCountsExact
<1>2. TypeOK /\ LeaseCountsExact /\ [Next]_vars => LeaseCountsExact'
  <2> SUFFICES ASSUME TypeOK, LeaseCountsExact, [Next]_vars
               PROVE  LeaseCountsExact'
    OBVIOUS
  <2>1. ASSUME NEW c \in Callers,
               \/ \E r \in SearchRequests : Call(c, r)
               \/ \E lead \in PendingLeads : PlanAndCall(c, lead)
               \/ Sleep(c)
               \/ SpuriousWakeup(c)
        PROVE  LeaseCountsExact'
    <3>1. UNCHANGED counters
      BY <2>1 DEF Call, PlanAndCall, Sleep, SpuriousWakeup
    <3>2. \A d \in Callers :
              /\ phase'[d] = "holding" <=> phase[d] = "holding"
              /\ phase[d] = "holding" => request'[d] = request[d]
      BY <2>1 DEF Call, PlanAndCall, Sleep, SpuriousWakeup, TypeOK
    <3>3. \A k \in {"chunk", "gpu", "generator"} : Holding(k)' = Holding(k)
      BY <3>2, HoldingUnchanged
    <3> QED
      BY <3>1, <3>3 DEF LeaseCountsExact, counters
  <2>2. ASSUME NEW c \in Callers, NEW bytes \in ReaderBytes,
               ReserveReaderCapacity(c, bytes)
        PROVE  LeaseCountsExact'
    <3>1. UNCHANGED <<queueCurrent, gpuInUse, generatorsInUse>>
      BY <2>2 DEF ReserveReaderCapacity
    <3>2. \A d \in Callers : phase[d] = "idle"
      BY <2>2 DEF ReserveReaderCapacity
    <3>3. \A d \in Callers : phase'[d] = "holding" =>
              d = c /\ request'[d].kind = "reader"
      BY <2>2, <3>2 DEF ReserveReaderCapacity, TypeOK
    <3>4. \A k \in {"chunk", "gpu", "generator"} : Holding(k)' = Holding(k)
      BY <3>2, <3>3 DEF Holding
    <3> QED
      BY <3>1, <3>4 DEF LeaseCountsExact
  <2>3. ASSUME NEW c \in Callers, Grant(c)
        PROVE  LeaseCountsExact'
    BY <2>3, GrantAddsHolder DEF Grant, LeaseCountsExact
  <2>4. ASSUME NEW c \in Callers, Release(c)
        PROVE  LeaseCountsExact'
    BY <2>4, ReleaseRemovesHolder DEF Release, LeaseCountsExact
  <2>5. CASE UNCHANGED vars
    BY <2>5 DEF vars, counters, LeaseCountsExact, Holding
  <2> QED
    BY <2>1, <2>2, <2>3, <2>4, <2>5 DEF Next, Step
<1> QED
  BY <1>1, <1>2, TypeCorrect, PTL DEF Spec

-----------------------------------------------------------------------------
(* Sums over finite sets.  The library's fold is a CHOOSE of a recursive   *)
(* function, about which nothing is known until it is shown to exist; a    *)
(* smallest set on which a claim fails stands for the induction.           *)

\* Among finite sets, as many as they are, one contains no other.
LEMMA LeastSet ==
    ASSUME NEW T, T # {}, \A s \in T : IsFiniteSet(s)
    PROVE  \E s \in T : \A t \in T : t \subseteq s => t = s
<1> DEFINE U == UNION T
<1>1. T \subseteq FiniteSubsetsOf(U)
  BY DEF FiniteSubsetsOf
<1>2. IsWellFoundedOn(StrictSubsetOrdering(U), FiniteSubsetsOf(U))
  BY FS_StrictSubsetOrderingWellFounded
<1>3. PICK s \in T : \A t \in T : ~(<<t, s>> \in StrictSubsetOrdering(U))
  <2> HIDE DEF U
  <2> QED BY <1>1, <1>2, WFMin
<1>4. ASSUME NEW t \in T, t \subseteq s, t # s PROVE FALSE
  <2>1. s \in SUBSET U /\ t \in SUBSET U
    OBVIOUS
  <2>2. <<t, s>> \in (SUBSET U) \X (SUBSET U) /\ <<t, s>>[1] = t /\ <<t, s>>[2] = s
    BY <2>1
  <2>3. <<t, s>> \in StrictSubsetOrdering(U)
    BY <2>2, <1>4, Zenon DEF StrictSubsetOrdering
  <2> QED
    BY <2>3, <1>3
<1> QED
  BY <1>3, <1>4

\* The sum a fold over a finite set computes: one element is taken off and
\* what it adds is put on top of the sum over the rest.
Pick(s) == CHOOSE x \in s : TRUE
IsSum(g, f, S) ==
    g = [s \in SUBSET S |-> IF s = {} THEN 0 ELSE f[Pick(s)] + g[s \ {Pick(s)}]]
Sum(f, S) == (CHOOSE g : IsSum(g, f, S))[S]

LEMMA PickIsIn ==
    ASSUME NEW s, s # {} PROVE Pick(s) \in s
BY DEF Pick

\* Two such folds agree on every set both of them cover.
LEMMA SumsAgree ==
    ASSUME NEW f, NEW S, NEW T, IsFiniteSet(S), NEW g, NEW h,
           IsSum(g, f, S), IsSum(h, f, T), NEW s, s \subseteq S, s \subseteq T
    PROVE  g[s] = h[s]
<1> DEFINE U == {t \in SUBSET s : g[t] # h[t]}
<1>1. SUFFICES ASSUME U # {} PROVE FALSE
  OBVIOUS
<1>2. \A t \in U : IsFiniteSet(t)
  BY FS_Subset
<1>3. PICK t \in U : \A r \in U : r \subseteq t => r = t
  <2> HIDE DEF U
  <2> QED BY <1>1, <1>2, LeastSet
<1>4. t \in SUBSET S /\ t \in SUBSET T
  OBVIOUS
<1>5. /\ g[t] = IF t = {} THEN 0 ELSE f[Pick(t)] + g[t \ {Pick(t)}]
      /\ h[t] = IF t = {} THEN 0 ELSE f[Pick(t)] + h[t \ {Pick(t)}]
  BY <1>4 DEF IsSum
<1>6. CASE t = {}
  BY <1>5, <1>6
<1>7. CASE t # {}
  <2>1. t \ {Pick(t)} \subseteq t /\ t \ {Pick(t)} # t
    BY <1>7, PickIsIn
  <2>2. t \ {Pick(t)} \notin U
    <3> HIDE DEF U
    <3> QED BY <2>1, <1>3
  <2>3. g[t \ {Pick(t)}] = h[t \ {Pick(t)}]
    BY <2>2
  <2> QED
    BY <1>5, <1>7, <2>3
<1> QED
  BY <1>6, <1>7

\* A fold over a set is one over each of its subsets.
LEMMA SumsRestrict ==
    ASSUME NEW f, NEW S, NEW g, IsSum(g, f, S), NEW T, T \subseteq S
    PROVE  IsSum([s \in SUBSET T |-> g[s]], f, T)
<1> DEFINE h == [s \in SUBSET T |-> g[s]]
<1>1. ASSUME NEW s \in SUBSET T
      PROVE  h[s] = IF s = {} THEN 0 ELSE f[Pick(s)] + h[s \ {Pick(s)}]
  <2>1. s \in SUBSET S /\ s \ {Pick(s)} \in SUBSET T
    OBVIOUS
  <2>2. g[s] = IF s = {} THEN 0 ELSE f[Pick(s)] + g[s \ {Pick(s)}]
    BY <2>1 DEF IsSum
  <2>3. h[s] = g[s] /\ h[s \ {Pick(s)}] = g[s \ {Pick(s)}]
    BY <2>1
  <2> QED
    BY <2>2, <2>3
<1>2. h = [s \in SUBSET T |-> h[s]]
  OBVIOUS
<1> QED
  <2> HIDE DEF h
  <2>1. h = [s \in SUBSET T |-> IF s = {} THEN 0 ELSE f[Pick(s)] + h[s \ {Pick(s)}]]
    BY <1>1, <1>2
  <2>2. IsSum(h, f, T)
    BY <2>1 DEF IsSum
  <2> QED
    BY <2>2 DEF h

\* What the fold chooses over a set is what it chooses over the rest, and one more.
LEMMA SumUnfolds ==
    ASSUME NEW f, NEW S, IsFiniteSet(S), NEW g, IsSum(g, f, S),
           NEW s, s \subseteq S
    PROVE  g[s] = Sum(f, s)
<1>1. IsSum([t \in SUBSET s |-> g[t]], f, s)
  BY SumsRestrict
<1> DEFINE h == CHOOSE g_1 : IsSum(g_1, f, s)
<1>2. IsSum(h, f, s)
  BY <1>1
<1>3. g[s] = h[s]
  <2> HIDE DEF h
  <2> QED BY <1>2, SumsAgree
<1> QED
  BY <1>3 DEF Sum

\* There is such a fold over every finite set.
LEMMA SumExists ==
    ASSUME NEW f, NEW S, IsFiniteSet(S)
    PROVE  \E g : IsSum(g, f, S)
<1> DEFINE U == {s \in SUBSET S : ~\E g : IsSum(g, f, s)}
<1>1. SUFFICES ASSUME U # {} PROVE FALSE
  OBVIOUS
<1>2. \A s \in U : IsFiniteSet(s)
  BY FS_Subset
<1>3. PICK s \in U : \A t \in U : t \subseteq s => t = s
  <2> HIDE DEF U
  <2> QED BY <1>1, <1>2, LeastSet
<1>4. ASSUME NEW t, t \subseteq s, t # s
      PROVE  \E g : IsSum(g, f, t)
  <2>1. t \notin U
    <3> HIDE DEF U
    <3> QED BY <1>3, <1>4
  <2>2. t \in SUBSET S
    BY <1>4
  <2> QED
    BY <2>1, <2>2
<1> DEFINE value(t) == IF t = {} THEN 0
                       ELSE f[Pick(t)] + Sum(f, t \ {Pick(t)})
           h == [t \in SUBSET s |-> value(t)]
<1>5. ASSUME NEW t \in SUBSET s, t # s
      PROVE  h[t] = Sum(f, t)
  <2>1. PICK g : IsSum(g, f, t)
    BY <1>4, <1>5
  <2>2. IsFiniteSet(t)
    BY <1>2, <1>3, FS_Subset
  <2>3. g[t] = Sum(f, t)
    BY <2>1, <2>2, SumUnfolds
  <2>4. g[t] = IF t = {} THEN 0 ELSE f[Pick(t)] + g[t \ {Pick(t)}]
    BY <2>1 DEF IsSum
  <2>5. g[t \ {Pick(t)}] = Sum(f, t \ {Pick(t)})
    BY <2>1, <2>2, SumUnfolds
  <2> QED
    BY <2>3, <2>4, <2>5
<1>6. ASSUME NEW t \in SUBSET s
      PROVE  h[t] = IF t = {} THEN 0 ELSE f[Pick(t)] + h[t \ {Pick(t)}]
  <2>1. CASE t = {}
    BY <2>1
  <2>2. CASE t # {}
    <3>1. t \ {Pick(t)} \in SUBSET s /\ t \ {Pick(t)} # s
      BY <2>2, PickIsIn
    <3>2. h[t \ {Pick(t)}] = Sum(f, t \ {Pick(t)})
      <4> HIDE DEF h
      <4> QED BY <3>1, <1>5
    <3>3. h[t] = f[Pick(t)] + Sum(f, t \ {Pick(t)})
      BY <2>2
    <3> QED
      BY <2>2, <3>2, <3>3
  <2> QED
    BY <2>1, <2>2
<1>7. h = [t \in SUBSET s |-> h[t]]
  OBVIOUS
<1>8. IsSum(h, f, s)
  <2> HIDE DEF h
  <2> QED BY <1>6, <1>7 DEF IsSum
<1> QED
  BY <1>3, <1>8

\* So the sum over a set is the sum over the rest and what one element adds.
LEMMA SumStep ==
    ASSUME NEW f, NEW S, IsFiniteSet(S)
    PROVE  Sum(f, S) = IF S = {} THEN 0 ELSE f[Pick(S)] + Sum(f, S \ {Pick(S)})
<1>1. PICK g : IsSum(g, f, S)
  BY SumExists
<1>2. g[S] = IF S = {} THEN 0 ELSE f[Pick(S)] + g[S \ {Pick(S)}]
  BY <1>1 DEF IsSum
<1>3. g[S] = Sum(f, S)
  BY <1>1, SumUnfolds
<1>4. g[S \ {Pick(S)}] = Sum(f, S \ {Pick(S)})
  <2>1. ASSUME NEW s, s \subseteq S PROVE g[s] = Sum(f, s)
    BY <1>1, <2>1, SumUnfolds
  <2> QED BY <2>1
<1> QED
  BY <1>4, <1>2, <1>3

\* The sum of numbers is a number, and depends on the numbers alone.
LEMMA SumIsNat ==
    ASSUME NEW f, NEW S, IsFiniteSet(S), \A x \in S : f[x] \in Nat
    PROVE  Sum(f, S) \in Nat
<1> DEFINE U == {s \in SUBSET S : Sum(f, s) \notin Nat}
<1>1. SUFFICES ASSUME U # {} PROVE FALSE
  OBVIOUS
<1>2. \A s \in U : IsFiniteSet(s)
  BY FS_Subset
<1>3. PICK s \in U : \A t \in U : t \subseteq s => t = s
  <2> HIDE DEF U
  <2> QED BY <1>1, <1>2, LeastSet
<1>4. Sum(f, s) = IF s = {} THEN 0 ELSE f[Pick(s)] + Sum(f, s \ {Pick(s)})
  BY <1>2, SumStep
<1>5. s # {} /\ Pick(s) \in s
  BY <1>4, PickIsIn
<1>6. Sum(f, s \ {Pick(s)}) \in Nat
  <2>1. s \ {Pick(s)} \subseteq s /\ s \ {Pick(s)} # s
    BY <1>5
  <2>2. s \ {Pick(s)} \notin U
    <3> HIDE DEF U
    <3> QED BY <2>1, <1>3
  <2> QED
    BY <2>2
<1>7. f[Pick(s)] \in Nat
  BY <1>5
<1>8. Sum(f, s) \in Nat
  BY <1>4, <1>5, <1>6, <1>7
<1> QED
  BY <1>3, <1>8

LEMMA SumCongruent ==
    ASSUME NEW f, NEW g, NEW S, IsFiniteSet(S), \A x \in S : f[x] = g[x]
    PROVE  Sum(f, S) = Sum(g, S)
<1> DEFINE U == {s \in SUBSET S : Sum(f, s) # Sum(g, s)}
<1>1. SUFFICES ASSUME U # {} PROVE FALSE
  OBVIOUS
<1>2. \A s \in U : IsFiniteSet(s)
  BY FS_Subset
<1>3. PICK s \in U : \A t \in U : t \subseteq s => t = s
  <2> HIDE DEF U
  <2> QED BY <1>1, <1>2, LeastSet
<1>4. /\ Sum(f, s) = IF s = {} THEN 0 ELSE f[Pick(s)] + Sum(f, s \ {Pick(s)})
      /\ Sum(g, s) = IF s = {} THEN 0 ELSE g[Pick(s)] + Sum(g, s \ {Pick(s)})
  BY <1>2, SumStep
<1>5. s # {} /\ Pick(s) \in s
  BY <1>4, PickIsIn
<1>6. Sum(f, s \ {Pick(s)}) = Sum(g, s \ {Pick(s)})
  <2>1. s \ {Pick(s)} \subseteq s /\ s \ {Pick(s)} # s
    BY <1>5
  <2>2. s \ {Pick(s)} \notin U
    <3> HIDE DEF U
    <3> QED BY <2>1, <1>3
  <2> QED
    BY <2>2
<1>7. f[Pick(s)] = g[Pick(s)]
  BY <1>5
<1> QED
  BY <1>3, <1>4, <1>5, <1>6, <1>7

\* Any element may be the one that is taken off.
LEMMA SumTakesOff ==
    ASSUME NEW f, NEW S, IsFiniteSet(S), \A y \in S : f[y] \in Nat, NEW e \in S
    PROVE  Sum(f, S) = f[e] + Sum(f, S \ {e})
<1> DEFINE U == {s \in SUBSET S : \E x \in s : Sum(f, s) # f[x] + Sum(f, s \ {x})}
<1>1. SUFFICES ASSUME U # {} PROVE FALSE
  OBVIOUS
<1>2. \A s \in U : IsFiniteSet(s)
  BY FS_Subset
<1>3. PICK s \in U : \A t \in U : t \subseteq s => t = s
  <2> HIDE DEF U
  <2> QED BY <1>1, <1>2, LeastSet
<1>4. PICK x \in s : Sum(f, s) # f[x] + Sum(f, s \ {x})
  BY <1>3
<1> DEFINE p == Pick(s)
<1>5. p \in s /\ s \in SUBSET S /\ x \in s
  BY PickIsIn
<1>6. /\ IsFiniteSet(s) /\ IsFiniteSet(s \ {p}) /\ IsFiniteSet(s \ {x})
      /\ IsFiniteSet((s \ {p}) \ {x})
  <2> HIDE DEF p
  <2> QED BY <1>2, <1>5, FS_Subset
<1>7. Sum(f, s) = f[p] + Sum(f, s \ {p})
  BY <1>5, <1>6, SumStep
<1> HIDE DEF p
<1>8. p # x
  BY <1>4, <1>7
<1>9. ASSUME NEW y \in s, NEW z \in s \ {y}
      PROVE  Sum(f, s \ {y}) = f[z] + Sum(f, (s \ {y}) \ {z})
  <2>1. s \ {y} \subseteq s /\ s \ {y} # s
    BY <1>9
  <2>2. s \ {y} \notin U
    <3> HIDE DEF U
    <3> QED BY <2>1, <1>3
  <2> QED
    BY <2>2, <1>5
<1>10. Sum(f, s \ {p}) = f[x] + Sum(f, (s \ {p}) \ {x})
  BY <1>5, <1>8, <1>9
<1>11. Sum(f, s \ {x}) = f[p] + Sum(f, (s \ {p}) \ {x})
  <2>1. (s \ {x}) \ {p} = (s \ {p}) \ {x}
    OBVIOUS
  <2> QED BY <1>5, <1>8, <1>9, <2>1
<1>12. f[x] \in Nat /\ f[p] \in Nat /\ Sum(f, (s \ {p}) \ {x}) \in Nat
  <2>1. \A y \in (s \ {p}) \ {x} : f[y] \in Nat
    BY <1>5
  <2> QED
    BY <2>1, <1>5, <1>6, SumIsNat
<1>13. Sum(f, s) = f[x] + Sum(f, s \ {x})
  BY <1>7, <1>10, <1>11, <1>12
<1> QED
  BY <1>4, <1>13

\* A sum of zeros is zero.
LEMMA SumOfZeros ==
    ASSUME NEW f, NEW S, IsFiniteSet(S), \A x \in S : f[x] = 0
    PROVE  Sum(f, S) = 0
<1> DEFINE U == {s \in SUBSET S : Sum(f, s) # 0}
<1>1. SUFFICES ASSUME U # {} PROVE FALSE
  OBVIOUS
<1>2. \A s \in U : IsFiniteSet(s)
  BY FS_Subset
<1>3. PICK s \in U : \A t \in U : t \subseteq s => t = s
  <2> HIDE DEF U
  <2> QED BY <1>1, <1>2, LeastSet
<1>4. Sum(f, s) = IF s = {} THEN 0 ELSE f[Pick(s)] + Sum(f, s \ {Pick(s)})
  BY <1>2, SumStep
<1>5. s # {} /\ Pick(s) \in s
  BY <1>4, PickIsIn
<1>6. Sum(f, s \ {Pick(s)}) = 0
  <2>1. s \ {Pick(s)} \subseteq s /\ s \ {Pick(s)} # s
    BY <1>5
  <2>2. s \ {Pick(s)} \notin U
    <3> HIDE DEF U
    <3> QED BY <2>1, <1>3
  <2> QED
    BY <2>2
<1>7. Sum(f, s) = 0
  BY <1>4, <1>5, <1>6
<1> QED
  BY <1>3, <1>7

-----------------------------------------------------------------------------
(* The byte and permit counters.                                           *)

BytesOf(r) == [c \in Callers |-> r[c].bytes]
PermitsOf(r) == [c \in Callers |-> r[c].cpu]

\* What the model writes as a fold is such a sum.
LEMMA LeasedAreSums ==
    ASSUME NEW r, NEW S, S \subseteq Callers
    PROVE  /\ MapThenSumSet(LAMBDA c : r[c].bytes, S) = Sum(BytesOf(r), S)
           /\ MapThenSumSet(LAMBDA c : r[c].cpu, S) = Sum(PermitsOf(r), S)
<1>1. ASSUME NEW f
      PROVE  MapThenSumSet(LAMBDA c : f[c], S) = Sum(f, S)
  BY DEF MapThenSumSet, MapThenFoldSet, IsSum, Pick, Sum
<1>2. MapThenSumSet(LAMBDA c : r[c].bytes, S) = MapThenSumSet(LAMBDA c : BytesOf(r)[c], S)
  BY ZenonT(60) DEF MapThenSumSet, MapThenFoldSet, BytesOf
<1>3. MapThenSumSet(LAMBDA c : r[c].cpu, S) = MapThenSumSet(LAMBDA c : PermitsOf(r)[c], S)
  BY ZenonT(60) DEF MapThenSumSet, MapThenFoldSet, PermitsOf
<1>4. MapThenSumSet(LAMBDA c : BytesOf(r)[c], S) = Sum(BytesOf(r), S)
  BY <1>1
<1>5. MapThenSumSet(LAMBDA c : PermitsOf(r)[c], S) = Sum(PermitsOf(r), S)
  BY <1>1
<1> QED
  BY <1>2, <1>3, <1>4, <1>5, Zenon

HolderSums ==
    /\ memoryReserved = Sum(BytesOf(request), Holders)
    /\ readerCapacity = Sum(BytesOf(request), Holding("reader"))
    /\ cpuInUse = Sum(PermitsOf(request), Holders)

LEMMA LeaseSumsAre ==
    LeaseSumsExact <=> HolderSums
<1>1. Holders \subseteq Callers /\ Holding("reader") \subseteq Callers
  BY DEF Holders, Holding
<1>2. /\ LeasedBytes(Holders) = Sum(BytesOf(request), Holders)
      /\ LeasedBytes(Holding("reader")) = Sum(BytesOf(request), Holding("reader"))
      /\ LeasedPermits(Holders) = Sum(PermitsOf(request), Holders)
  BY <1>1, LeasedAreSums, Zenon DEF LeasedBytes, LeasedPermits
<1> QED
  BY <1>2 DEF LeaseSumsExact, HolderSums

\* Who holds a lease, and what it was charged, are finitely many numbers.
LEMMA HoldersFinite ==
    ASSUME TypeOK
    PROVE  /\ IsFiniteSet(Holders) /\ IsFiniteSet(Holding("reader"))
           /\ Holding("reader") \subseteq Holders /\ Holders \subseteq Callers
           /\ \A c \in Callers : BytesOf(request)[c] \in Nat /\ PermitsOf(request)[c] \in Nat
<1>1. Holding("reader") \subseteq Holders /\ Holders \subseteq Callers
  BY DEF Holders, Holding
<1>2. \A c \in Callers : request[c].bytes \in Nat /\ request[c].cpu \in Nat
  BY RequestCharges DEF TypeOK
<1>3. \A c \in Callers : BytesOf(request)[c] \in Nat /\ PermitsOf(request)[c] \in Nat
  BY <1>2 DEF BytesOf, PermitsOf
<1>4. IsFiniteSet(Holders)
  BY <1>1, RequestsAssumption, FS_Subset
<1>5. IsFiniteSet(Holding("reader"))
  BY <1>1, <1>4, FS_Subset
<1> QED
  BY <1>1, <1>3, <1>4, <1>5

\* What a caller at the entrance, or asleep there, has asked for: a search
\* thread's request or a planned batch, which was not refused.  A batch fits
\* beside the memory of the readers.
Asked(c) ==
    /\ request[c].kind \in {"chunk", "cpu", "gpu", "generator"}
    /\ ~Refused(request[c])
    /\ request[c].kind = "generator" => readerCapacity + request[c].bytes <= MemoryLimit
Asking == \A c \in Callers : phase[c] \in {"entering", "asleep"} => Asked(c)

\* A step that moves no lease leaves the sums alone.
LEMMA SumsKept ==
    ASSUME TypeOK, HolderSums, UNCHANGED counters,
           \A c \in Callers :
               /\ phase'[c] = "holding" <=> phase[c] = "holding"
               /\ phase[c] = "holding" => request'[c] = request[c]
    PROVE  HolderSums'
<1>1. Holders' = Holders /\ Holding("reader")' = Holding("reader")
  BY DEF Holders, Holding
<1>2. \A c \in Holders : /\ BytesOf(request')[c] = BytesOf(request)[c]
                         /\ PermitsOf(request')[c] = PermitsOf(request)[c]
  BY DEF Holders, BytesOf, PermitsOf
<1>3. /\ Sum(BytesOf(request'), Holders) = Sum(BytesOf(request), Holders)
      /\ Sum(BytesOf(request'), Holding("reader")) = Sum(BytesOf(request), Holding("reader"))
      /\ Sum(PermitsOf(request'), Holders) = Sum(PermitsOf(request), Holders)
  <2>1. \A c \in Holding("reader") : BytesOf(request')[c] = BytesOf(request)[c]
    BY <1>2, HoldersFinite
  <2>2. Sum(BytesOf(request'), Holders) = Sum(BytesOf(request), Holders)
    BY <1>2, HoldersFinite, SumCongruent
  <2>3. Sum(PermitsOf(request'), Holders) = Sum(PermitsOf(request), Holders)
    BY <1>2, HoldersFinite, SumCongruent
  <2>4. Sum(BytesOf(request'), Holding("reader")) = Sum(BytesOf(request), Holding("reader"))
    BY <2>1, HoldersFinite, SumCongruent
  <2> QED
    BY <2>2, <2>3, <2>4
<1> QED
  BY <1>1, <1>3 DEF HolderSums, counters

\* The readers are part of the holders, so their share is part of the memory.
LEMMA ReadersShare ==
    ASSUME TypeOK, HolderSums
    PROVE  readerCapacity <= memoryReserved
<1> DEFINE f == BytesOf(request)
           U == {S \in SUBSET Holders : Holding("reader") \subseteq S
                   /\ ~(readerCapacity <= Sum(f, S))}
<1>1. SUFFICES ASSUME U # {} PROVE FALSE
  BY HoldersFinite DEF HolderSums
<1>2. \A s \in U : IsFiniteSet(s)
  BY HoldersFinite, FS_Subset
<1>3. PICK s \in U : \A t \in U : t \subseteq s => t = s
  <2> HIDE DEF U
  <2> QED BY <1>1, <1>2, LeastSet
<1>4. s # Holding("reader")
  BY <1>3 DEF HolderSums, TypeOK
<1>5. PICK x \in s : x \notin Holding("reader")
  BY <1>3, <1>4
<1>6. \A y \in s : f[y] \in Nat
  <2> HIDE DEF f
  <2>1. \A c \in Callers : f[c] \in Nat
    BY HoldersFinite DEF f
  <2> QED BY <1>3, <2>1, HoldersFinite
<1>7. Sum(f, s) = f[x] + Sum(f, s \ {x})
  <2> HIDE DEF f
  <2> QED BY <1>2, <1>5, <1>6, SumTakesOff
<1>8. s \ {x} \notin U
  <2>1. s \ {x} \subseteq s /\ s \ {x} # s
    BY <1>5
  <2> HIDE DEF U
  <2> QED BY <1>3, <2>1
<1>9. readerCapacity <= Sum(f, s \ {x})
  <2> HIDE DEF f
  <2> QED BY <1>3, <1>5, <1>8
<1>10. Sum(f, s \ {x}) \in Nat
  <2> HIDE DEF f, U
  <2>1. IsFiniteSet(s \ {x}) /\ \A y \in s \ {x} : f[y] \in Nat
    BY <1>2, <1>3, <1>6, FS_Subset
  <2> QED BY <2>1, SumIsNat
<1>11. readerCapacity <= Sum(f, s)
  <2> HIDE DEF f
  <2> QED BY <1>5, <1>6, <1>7, <1>9, <1>10 DEF TypeOK
<1> QED
  BY <1>3, <1>11

LEMMA GrantSums ==
    ASSUME TypeOK, HolderSums, Asking, NEW c \in Callers, Grant(c)
    PROVE  HolderSums'
<1>1. Holders' = Holders \cup {c} /\ c \notin Holders
  BY DEF Grant, Holders, TypeOK
<1>2. Holding("reader")' = Holding("reader")
  BY DEF Grant, Holding, TypeOK, Asking, Asked
<1> DEFINE H == Holders \cup {c}
<1>3. IsFiniteSet(H) /\ c \in H /\ H \ {c} = Holders
      /\ \A d \in H : BytesOf(request)[d] \in Nat /\ PermitsOf(request)[d] \in Nat
  BY <1>1, HoldersFinite, FS_AddElement
<1>4. /\ Sum(BytesOf(request), H) = BytesOf(request)[c] + Sum(BytesOf(request), Holders)
      /\ Sum(PermitsOf(request), H) = PermitsOf(request)[c] + Sum(PermitsOf(request), Holders)
  <2> HIDE DEF H
  <2> QED BY <1>3, SumTakesOff
<1>5. BytesOf(request)[c] = request[c].bytes /\ PermitsOf(request)[c] = request[c].cpu
      /\ request[c].bytes \in Nat /\ request[c].cpu \in Nat
  BY RequestCharges DEF BytesOf, PermitsOf, TypeOK
<1>6. /\ memoryReserved' = memoryReserved + request[c].bytes
      /\ cpuInUse' = cpuInUse + request[c].cpu
      /\ UNCHANGED <<readerCapacity, request>>
  BY DEF Grant
<1>7. memoryReserved' = Sum(BytesOf(request), H) /\ cpuInUse' = Sum(PermitsOf(request), H)
  <2> HIDE DEF H
  <2> QED BY <1>4, <1>5, <1>6 DEF HolderSums, TypeOK
<1> QED
  BY <1>1, <1>2, <1>6, <1>7 DEF HolderSums

LEMMA ReleaseSums ==
    ASSUME TypeOK, HolderSums, NEW c \in Callers, Release(c)
    PROVE  HolderSums'
<1>1. \A d \in Callers : d # c =>
          (phase'[d] = "holding" <=> phase[d] = "holding")
          /\ request'[d] = request[d]
  BY NotifyAllTyped DEF Release, TypeOK, NotifyAll
<1>2. phase'[c] # "holding" /\ phase[c] = "holding"
  BY DEF Release, TypeOK, NotifyAll
<1>3. Holders' = Holders \ {c} /\ Holding("reader")' = Holding("reader") \ {c}
      /\ c \in Holders
  BY <1>1, <1>2 DEF Holders, Holding
<1>4. \A d \in Holders \ {c} : /\ BytesOf(request')[d] = BytesOf(request)[d]
                               /\ PermitsOf(request')[d] = PermitsOf(request)[d]
  BY <1>1 DEF Holders, BytesOf, PermitsOf
<1>5. IsFiniteSet(Holders \ {c}) /\ IsFiniteSet(Holding("reader") \ {c})
      /\ Holding("reader") \ {c} \subseteq Holders \ {c}
      /\ (\A d \in Holders : BytesOf(request)[d] \in Nat /\ PermitsOf(request)[d] \in Nat)
  BY HoldersFinite, FS_Subset
<1>6. /\ Sum(BytesOf(request'), Holders \ {c}) = Sum(BytesOf(request), Holders \ {c})
      /\ Sum(PermitsOf(request'), Holders \ {c}) = Sum(PermitsOf(request), Holders \ {c})
  BY <1>4, <1>5, SumCongruent
<1>7. Sum(BytesOf(request'), Holding("reader") \ {c}) = Sum(BytesOf(request), Holding("reader") \ {c})
  <2>1. \A d \in Holding("reader") \ {c} : BytesOf(request')[d] = BytesOf(request)[d]
    BY <1>4, <1>5
  <2> QED BY <1>5, <2>1, SumCongruent
<1>8. /\ memoryReserved = BytesOf(request)[c] + Sum(BytesOf(request), Holders \ {c})
      /\ cpuInUse = PermitsOf(request)[c] + Sum(PermitsOf(request), Holders \ {c})
  BY <1>3, <1>5, HoldersFinite, SumTakesOff DEF HolderSums
<1>9. /\ Sum(BytesOf(request), Holders \ {c}) \in Nat
      /\ Sum(PermitsOf(request), Holders \ {c}) \in Nat
  BY <1>5, SumIsNat
<1>10. BytesOf(request)[c] = request[c].bytes /\ PermitsOf(request)[c] = request[c].cpu
      /\ request[c].bytes \in Nat /\ request[c].cpu \in Nat
  BY RequestCharges DEF BytesOf, PermitsOf, TypeOK
<1>11. /\ memoryReserved' = Monus(memoryReserved, request[c].bytes)
       /\ cpuInUse' = Monus(cpuInUse, request[c].cpu)
       /\ readerCapacity' = Monus(readerCapacity,
              IF request[c].kind = "reader" THEN request[c].bytes ELSE 0)
  BY DEF Release
<1>12. /\ memoryReserved' = Sum(BytesOf(request), Holders \ {c})
       /\ cpuInUse' = Sum(PermitsOf(request), Holders \ {c})
  BY <1>8, <1>9, <1>10, <1>11 DEF Monus
<1>13. readerCapacity' = Sum(BytesOf(request), Holding("reader") \ {c})
  <2>1. CASE request[c].kind = "reader"
    <3>1. c \in Holding("reader")
      BY <1>2, <2>1 DEF Holding
    <3>2. \A d \in Holding("reader") : BytesOf(request)[d] \in Nat
      BY <1>5, HoldersFinite
    <3>3. readerCapacity = BytesOf(request)[c] + Sum(BytesOf(request), Holding("reader") \ {c})
      BY <3>1, <3>2, HoldersFinite, SumTakesOff DEF HolderSums
    <3>4. Sum(BytesOf(request), Holding("reader") \ {c}) \in Nat
      <4>1. \A d \in Holding("reader") \ {c} : BytesOf(request)[d] \in Nat
        BY <3>2
      <4> QED BY <1>5, <4>1, SumIsNat
    <3> QED
      BY <2>1, <3>3, <3>4, <1>10, <1>11 DEF Monus
  <2>2. CASE request[c].kind # "reader"
    <3>1. Holding("reader") \ {c} = Holding("reader")
      BY <2>2 DEF Holding
    <3> QED
      BY <2>2, <3>1, <1>11 DEF Monus, HolderSums, TypeOK
  <2> QED
    BY <2>1, <2>2
<1> QED
  BY <1>3, <1>6, <1>7, <1>12, <1>13 DEF HolderSums

LEMMA ReserveSums ==
    ASSUME TypeOK, HolderSums, NEW c \in Callers, NEW bytes \in ReaderBytes,
           ReserveReaderCapacity(c, bytes)
    PROVE  HolderSums'
<1>1. Holders = {} /\ Holding("reader") = {}
  BY DEF ReserveReaderCapacity, Holders, Holding
<1>2. ASSUME NEW f PROVE Sum(f, {}) = 0
  BY SumStep, FS_EmptySet
<1>3. memoryReserved = 0 /\ readerCapacity = 0 /\ cpuInUse = 0
  BY <1>1, <1>2 DEF HolderSums
<1>4. /\ phase'[c] = "holding" /\ request'[c].kind = "reader"
      /\ request'[c].bytes = bytes /\ request'[c].cpu = 0
      /\ \A d \in Callers : d # c => phase'[d] # "holding"
  BY DEF ReserveReaderCapacity, TypeOK
<1>5. Holders' = {c} /\ Holding("reader")' = {c}
  BY <1>4 DEF Holders, Holding
<1>6. bytes \in Nat
  BY RequestsAssumption
<1>7. BytesOf(request')[c] = bytes /\ PermitsOf(request')[c] = 0
  BY <1>4 DEF BytesOf, PermitsOf
<1>8. ASSUME NEW f, f[c] \in Nat PROVE Sum(f, {c}) = f[c]
  <2>1. IsFiniteSet({c}) /\ {c} \ {c} = {} /\ \A y \in {c} : f[y] \in Nat
    BY <1>8, FS_Singleton
  <2>2. Sum(f, {c}) = f[c] + Sum(f, {c} \ {c})
    BY <2>1, SumTakesOff
  <2> QED
    BY <1>2, <1>8, <2>1, <2>2
<1>9. Sum(BytesOf(request'), {c}) = bytes /\ Sum(PermitsOf(request'), {c}) = 0
  BY <1>6, <1>7, <1>8
<1>10. memoryReserved' = bytes /\ readerCapacity' = bytes /\ cpuInUse' = 0
  BY <1>3, <1>6 DEF ReserveReaderCapacity
<1> QED
  BY <1>5, <1>9, <1>10 DEF HolderSums

\* A planned batch fits beside the readers, which hold part of what is reserved.
LEMMA PlannedIsAsked ==
    ASSUME TypeOK, WithinLimits, HolderSums, NEW c \in Callers,
           NEW lead \in PendingLeads, PlanAndCall(c, lead)
    PROVE  Asked(c)'
<1> DEFINE n == LeadDigits(MemoryLimit, memoryReserved, FixedBytes,
                           WindowLen, 0, lead)
           bytes == GeneratorReservation(FixedBytes, n)
           r == [kind |-> "generator", bytes |-> bytes, cpu |-> GenerationCpuWorkers]
<1>1. n \in Nat /\ bytes \in Nat
  BY LeadIsNat, LimitsAssumption DEF GeneratorReservation, ResidentBytesPerDigit
<1>2. memoryReserved + bytes <= MemoryLimit
  <2>1. lead \in Nat /\ 0 \in Nat
    BY RequestsAssumption
  <2> QED
    BY <2>1, LimitsAssumption, PlannedReservationFits
    DEF PlanAndCall, TypeOK, WithinLimits
<1>3. readerCapacity + bytes <= MemoryLimit
  BY <1>1, <1>2, ReadersShare, LimitsAssumption DEF TypeOK
<1>4. request' = [request EXCEPT ![c] = r] /\ ~Refused(r) /\ UNCHANGED counters
  BY DEF PlanAndCall
<1>5. r.kind = "generator" /\ r.bytes = bytes
  OBVIOUS
<1> HIDE DEF r, bytes, n
<1>6. request'[c] = r
  BY <1>4 DEF TypeOK
<1>7. ~Refused(request[c])'
  BY <1>4, <1>6 DEF Refused
<1> QED
  BY <1>3, <1>4, <1>5, <1>6, <1>7 DEF Asked, counters

\* A caller whose request stays as it was still asks for it, if the readers
\* did not take more.
LEMMA StillAsks ==
    ASSUME TypeOK, NEW d \in Callers, Asked(d), request'[d] = request[d],
           readerCapacity' \in Nat, readerCapacity' <= readerCapacity
    PROVE  Asked(d)'
<1>1. request[d].bytes \in Nat
  BY RequestCharges DEF TypeOK
<1>2. ~Refused(request[d])'
  BY DEF Asked, Refused
<1> QED
  BY <1>1, <1>2, LimitsAssumption DEF Asked, TypeOK

LEMMA AskingKept ==
    ASSUME TypeOK, WithinLimits, HolderSums, Asking, [Next]_vars
    PROVE  Asking'
<1> SUFFICES ASSUME NEW d \in Callers, phase'[d] \in {"entering", "asleep"}
             PROVE  Asked(d)'
  BY DEF Asking
<1>1. ASSUME NEW c \in Callers, NEW r \in SearchRequests, Call(c, r)
      PROVE  Asked(d)'
  <2>1. CASE d = c
    <3>1. request'[d] = r /\ ~Refused(r)
      BY <1>1, <2>1 DEF Call, TypeOK
    <3>2. r.kind \in {"chunk", "cpu", "gpu"}
      BY DEF SearchRequests
    <3> QED
      BY <3>1, <3>2 DEF Asked, Refused
  <2>2. CASE d # c
    <3>1. phase[d] = phase'[d] /\ request'[d] = request[d] /\ UNCHANGED readerCapacity
      BY <1>1, <2>2 DEF Call, TypeOK, counters
    <3>2. Asked(d)
      BY <3>1 DEF Asking
    <3> QED
      BY <3>1, <3>2, StillAsks DEF TypeOK
  <2> QED
    BY <2>1, <2>2
<1>2. ASSUME NEW c \in Callers, NEW lead \in PendingLeads, PlanAndCall(c, lead)
      PROVE  Asked(d)'
  <2>1. CASE d = c
    BY <1>2, <2>1, PlannedIsAsked
  <2>2. CASE d # c
    <3>1. phase[d] = phase'[d] /\ request'[d] = request[d] /\ UNCHANGED readerCapacity
      BY <1>2, <2>2 DEF PlanAndCall, TypeOK, counters
    <3>2. Asked(d)
      BY <3>1 DEF Asking
    <3> QED
      BY <3>1, <3>2, StillAsks DEF TypeOK
  <2> QED
    BY <2>1, <2>2
<1>3. ASSUME NEW c \in Callers, NEW bytes \in ReaderBytes,
             ReserveReaderCapacity(c, bytes)
      PROVE  Asked(d)'
  BY <1>3 DEF ReserveReaderCapacity, TypeOK
<1>4. ASSUME NEW c \in Callers, Grant(c) \/ Sleep(c) \/ SpuriousWakeup(c)
      PROVE  Asked(d)'
  <2>1. request'[d] = request[d] /\ UNCHANGED readerCapacity
    BY <1>4 DEF Grant, Sleep, SpuriousWakeup, counters
  <2>2. phase[d] \in {"entering", "asleep"}
    BY <1>4 DEF Grant, Sleep, SpuriousWakeup, TypeOK
  <2>3. Asked(d)
    BY <2>2 DEF Asking
  <2> QED
    BY <2>1, <2>3, StillAsks DEF TypeOK
<1>5. ASSUME NEW c \in Callers, Release(c)
      PROVE  Asked(d)'
  <2>1. d # c /\ phase[d] \in {"entering", "asleep"}
    BY <1>5 DEF Release, NotifyAll, TypeOK
  <2>2. request'[d] = request[d]
    BY <1>5, <2>1 DEF Release, TypeOK
  <2>3. request[c].bytes \in Nat
    BY RequestCharges DEF TypeOK
  <2>4. readerCapacity' \in Nat /\ readerCapacity' <= readerCapacity
    BY <1>5, <2>3 DEF Release, Monus, TypeOK
  <2>5. Asked(d)
    BY <2>1 DEF Asking
  <2> QED
    BY <2>2, <2>4, <2>5, StillAsks
<1>6. CASE UNCHANGED vars
  <2>1. phase[d] \in {"entering", "asleep"} /\ request'[d] = request[d]
        /\ UNCHANGED readerCapacity
    BY <1>6 DEF vars, counters
  <2>2. Asked(d)
    BY <2>1 DEF Asking
  <2> QED
    BY <2>1, <2>2, StillAsks DEF TypeOK
<1> QED
  BY <1>1, <1>2, <1>3, <1>4, <1>5, <1>6 DEF Next, Step

LEMMA SumsPreserved ==
    ASSUME TypeOK, HolderSums, Asking, [Next]_vars
    PROVE  HolderSums'
<1>1. ASSUME NEW c \in Callers,
             \/ \E r \in SearchRequests : Call(c, r)
             \/ \E lead \in PendingLeads : PlanAndCall(c, lead)
             \/ Sleep(c)
             \/ SpuriousWakeup(c)
      PROVE  HolderSums'
  <2>1. UNCHANGED counters
    BY <1>1 DEF Call, PlanAndCall, Sleep, SpuriousWakeup
  <2>2. \A d \in Callers :
            /\ phase'[d] = "holding" <=> phase[d] = "holding"
            /\ phase[d] = "holding" => request'[d] = request[d]
    BY <1>1 DEF Call, PlanAndCall, Sleep, SpuriousWakeup, TypeOK
  <2> QED
    BY <2>1, <2>2, SumsKept
<1>2. CASE UNCHANGED vars
  BY <1>2, SumsKept DEF vars
<1> QED
  BY <1>1, <1>2, GrantSums, ReleaseSums, ReserveSums DEF Next, Step

\* With nothing but readers' leases out, every counter but theirs is zero, so
\* whoever still sleeps waits for memory that the readers hold.
LEMMA DrainedAdmits ==
    ASSUME TypeOK, LeaseCountsExact, HolderSums, NoLostWakeup, Asking
    PROVE  DrainedBudgetAdmitsEveryone
<1> SUFFICES ASSUME Holders \subseteq Holding("reader"),
                    NEW c \in Callers, phase[c] = "asleep"
             PROVE  Crowded(c)
  BY DEF DrainedBudgetAdmitsEveryone
<1>1. Holders = Holding("reader")
  BY HoldersFinite
<1>2. memoryReserved = readerCapacity
  BY <1>1 DEF HolderSums
<1>3. \A d \in Holders : PermitsOf(request)[d] = 0
  <2>1. \A d \in Holders : d \in Callers /\ request[d].kind = "reader"
    BY DEF Holders, Holding
  <2> QED
    BY <2>1, RequestCharges DEF PermitsOf, TypeOK
<1>4. cpuInUse = 0
  BY <1>3, HoldersFinite, SumOfZeros DEF HolderSums
<1>5. \A k \in {"chunk", "gpu", "generator"} : Holding(k) = {}
  BY DEF Holders, Holding
<1>6. queueCurrent = 0 /\ gpuInUse = 0 /\ generatorsInUse = 0
  BY <1>5, FS_EmptySet DEF LeaseCountsExact
<1>7. Asked(c) /\ ~Admissible(request[c])
  BY DEF Asking, NoLostWakeup
<1>8. request[c].bytes \in Nat /\ request[c].cpu \in Nat
  BY RequestCharges DEF TypeOK
<1>9. CASE request[c].kind = "chunk"
  BY <1>2, <1>6, <1>7, <1>8, <1>9, LimitsAssumption
  DEF Admissible, MemoryAdmits, Crowded, TypeOK
<1>10. CASE request[c].kind = "cpu"
  BY <1>4, <1>7, <1>8, <1>10, LimitsAssumption DEF Asked, Refused, Admissible, CpuAdmits
<1>11. CASE request[c].kind = "gpu"
  BY <1>6, <1>7, <1>11, LimitsAssumption DEF Admissible
<1>12. CASE request[c].kind = "generator"
  BY <1>2, <1>4, <1>6, <1>7, <1>8, <1>12, LimitsAssumption
  DEF Asked, Refused, Admissible, MemoryAdmits, CpuAdmits
<1> QED
  BY <1>7, <1>9, <1>10, <1>11, <1>12 DEF Asked

\* Every counter of the budget is, at all times, exactly what the outstanding
\* leases were charged; and when only readers hold leases, nobody is asleep but
\* for the memory they hold.
THEOREM BudgetAccounted == Spec => []BudgetInvariant
<1>1. Init => HolderSums /\ Asking
  <2> SUFFICES ASSUME Init PROVE HolderSums /\ Asking
    OBVIOUS
  <2>1. Holders = {} /\ Holding("reader") = {}
    BY DEF Init, Holders, Holding
  <2>2. ASSUME NEW f PROVE Sum(f, {}) = 0
    BY SumStep, FS_EmptySet
  <2>3. HolderSums
    BY <2>1, <2>2 DEF HolderSums, Init
  <2>4. Asking
    BY DEF Asking, Init
  <2> QED
    BY <2>3, <2>4
<1>2. /\ TypeOK /\ WithinLimits /\ HolderSums /\ Asking
      /\ [Next]_vars
      => HolderSums' /\ Asking'
  BY SumsPreserved, AskingKept
<1>3. TypeOK /\ LeaseCountsExact /\ NoLostWakeup /\ HolderSums /\ Asking
      => BudgetInvariant
  BY DrainedAdmits, LeaseSumsAre DEF BudgetInvariant, AccountingExact
<1> QED
  BY <1>1, <1>2, <1>3, TypeCorrect, LimitsHold, WakeupsNotLost,
     LeaseAccountingExact, PTL DEF Spec

-----------------------------------------------------------------------------
(* The text of a digit file.                                               *)

LEMMA UpTo ==
    ASSUME NEW n \in Nat
    PROVE  IsFiniteSet(0..(n - 1)) /\ Cardinality(0..(n - 1)) = n
  BY FS_Interval

LEMMA BeforeFinite ==
    ASSUME NEW text, NEW kind, NEW b \in Nat
    PROVE  /\ IsFiniteSet(Before(text, kind, b))
           /\ Cardinality(Before(text, kind, b)) \in 0..b
<1>1. IsFiniteSet(0..(b - 1)) /\ Cardinality(0..(b - 1)) = b
  BY UpTo
<1>2. Before(text, kind, b) \in SUBSET (0..(b - 1))
  BY DEF Before
<1>3. /\ IsFiniteSet(Before(text, kind, b))
      /\ Cardinality(Before(text, kind, b)) <= Cardinality(0..(b - 1))
  BY <1>1, <1>2, FS_Subset
<1> QED
  BY <1>1, <1>3, FS_CardinalityType

\* One byte further.
LEMMA BeforeNext ==
    ASSUME NEW text, NEW kind, NEW b \in Nat
    PROVE  LET more == IF text[b + 1] = kind THEN 1 ELSE 0
           IN  /\ Before(text, kind, b + 1) # {} <=>
                      Before(text, kind, b) # {} \/ text[b + 1] = kind
               /\ Cardinality(Before(text, kind, b + 1))
                    = Cardinality(Before(text, kind, b)) + more
<1>1. b \notin Before(text, kind, b)
  BY DEF Before
<1>2. CASE text[b + 1] = kind
  <2>1. Before(text, kind, b + 1) = Before(text, kind, b) \cup {b}
    BY <1>2 DEF Before
  <2> QED
    BY <1>1, <1>2, <2>1, BeforeFinite, FS_AddElement
<1>3. CASE text[b + 1] # kind
  <2>1. Before(text, kind, b + 1) = Before(text, kind, b)
    BY <1>3 DEF Before
  <2>2. Cardinality(Before(text, kind, b)) \in Nat
    BY BeforeFinite
  <2> QED
    BY <1>3, <2>1, <2>2
<1> QED
  BY <1>2, <1>3

\* What a parser has found that has come to the byte b.
StandsAt(text, allowed, b, seen, prefix) ==
    /\ AllFit(text, allowed, b)
    /\ seen = Cardinality(Before(text, "digit", b))
    /\ prefix <=> Before(text, "point", b) # {}

LEMMA StandsAtStart ==
    ASSUME NEW text, NEW allowed
    PROVE  StandsAt(text, allowed, 0, 0, FALSE)
<1>1. \A kind : Before(text, kind, 0) = {}
  BY DEF Before
<1>2. AllFit(text, allowed, 0)
  BY DEF AllFit
<1> QED
  BY <1>1, <1>2, FS_EmptySet DEF StandsAt

\* parse_source_byte refuses the bytes that do not fit, and counts on.
LEMMA ParserGoesOn ==
    ASSUME NEW text, NEW allowed \in BOOLEAN, NEW b \in Nat,
           NEW seen, NEW prefix \in BOOLEAN,
           StandsAt(text, allowed, b, seen, prefix)
    PROVE  LET is == ByteIs(text[b + 1], seen, prefix, allowed)
           IN  /\ is \in {"digit", "ignored", "prefix", "invalid"}
               /\ is = "digit" <=> text[b + 1] = "digit"
               /\ is = "invalid" <=> ~Fits(text, allowed, b)
               /\ is # "invalid" =>
                      StandsAt(text, allowed, b + 1,
                               IF is = "digit" THEN seen + 1 ELSE seen,
                               prefix \/ is = "prefix")
<1> DEFINE is == ByteIs(text[b + 1], seen, prefix, allowed)
<1>1. seen = Cardinality(Before(text, "digit", b)) /\ seen \in Nat
      /\ (prefix <=> Before(text, "point", b) # {})
  BY BeforeFinite DEF StandsAt
<1>2. /\ is \in {"digit", "ignored", "prefix", "invalid"}
      /\ is = "digit" <=> text[b + 1] = "digit"
      /\ is = "prefix" <=>
             /\ text[b + 1] = "point" /\ allowed /\ seen = 1 /\ ~prefix
      /\ is = "ignored" <=> text[b + 1] = "space"
  BY DEF ByteIs
<1> HIDE DEF is
<1>3. is = "invalid" <=> ~Fits(text, allowed, b)
  BY <1>1, <1>2 DEF Fits
<1>4. ASSUME is # "invalid"
      PROVE  StandsAt(text, allowed, b + 1,
                      IF is = "digit" THEN seen + 1 ELSE seen, prefix \/ is = "prefix")
  <2>1. AllFit(text, allowed, b + 1)
    <3>1. \A c \in 0..(b + 1 - 1) : c \in 0..(b - 1) \/ c = b
      OBVIOUS
    <3> QED
      BY <1>3, <1>4, <3>1 DEF StandsAt, AllFit
  <2>2. Cardinality(Before(text, "digit", b + 1)) =
          IF is = "digit" THEN seen + 1 ELSE seen
    BY <1>1, <1>2, BeforeNext
  <2>3. text[b + 1] = "point" <=> is = "prefix"
    BY <1>1, <1>2, <1>4
  <2>4. Before(text, "point", b + 1) # {} <=> (prefix \/ is = "prefix")
    BY <1>1, <2>3, BeforeNext
  <2> QED
    BY <2>1, <2>2, <2>4 DEF StandsAt
<1> QED
  BY <1>2, <1>3, <1>4 DEF is

PlaceIn(bytes, b) == Cardinality({c \in bytes : c < b})

\* The digits before a byte up to which everything fits.
LEMMA DigitsBelow ==
    ASSUME NEW text, Len(text) \in Nat, NEW allowed, NEW b \in 0..Len(text),
           AllFit(text, allowed, b)
    PROVE  /\ {c \in DigitBytes(text, allowed) : c < b} = Before(text, "digit", b)
           /\ b < Len(text) /\ text[b + 1] = "digit" => b \in DigitBytes(text, allowed)
<1>1. ASSUME NEW c \in Before(text, "digit", b)
      PROVE  c \in DigitBytes(text, allowed) /\ c < b
  <2>1. c \in 0..(b - 1) /\ text[c + 1] = "digit"
    BY DEF Before
  <2>2. AllFit(text, allowed, c)
    BY <2>1 DEF AllFit
  <2> QED
    BY <2>1, <2>2 DEF DigitBytes
<1>2. ASSUME NEW c \in DigitBytes(text, allowed), c < b
      PROVE  c \in Before(text, "digit", b)
  BY <1>2 DEF DigitBytes, Before
<1> QED
  BY <1>1, <1>2 DEF DigitBytes

LEMMA DigitsFinite ==
    ASSUME NEW text, Len(text) \in Nat, NEW allowed
    PROVE  /\ DigitBytes(text, allowed) \in SUBSET Nat
           /\ IsFiniteSet(DigitBytes(text, allowed))
           /\ Cardinality(DigitBytes(text, allowed)) \in 0..Len(text)
<1>1. IsFiniteSet(0..(Len(text) - 1)) /\ Cardinality(0..(Len(text) - 1)) = Len(text)
  BY UpTo
<1>2. DigitBytes(text, allowed) \in SUBSET (0..(Len(text) - 1))
  BY DEF DigitBytes
<1>3. /\ IsFiniteSet(DigitBytes(text, allowed))
      /\ Cardinality(DigitBytes(text, allowed)) <= Len(text)
  BY <1>1, <1>2, FS_Subset
<1> QED
  BY <1>2, <1>3, FS_CardinalityType

LEMMA PlaceBounded ==
    ASSUME NEW bytes \in SUBSET Nat, IsFiniteSet(bytes), NEW b \in Nat
    PROVE  /\ PlaceIn(bytes, b) \in Nat /\ PlaceIn(bytes, b) <= Cardinality(bytes)
           /\ b \in bytes => PlaceIn(bytes, b) < Cardinality(bytes)
           /\ (\A c \in bytes : c < b) => PlaceIn(bytes, b) = Cardinality(bytes)
<1> DEFINE below == {c \in bytes : c < b}
<1>1. below \in SUBSET bytes
  OBVIOUS
<1>2. IsFiniteSet(below) /\ Cardinality(below) <= Cardinality(bytes)
      /\ (Cardinality(below) = Cardinality(bytes) => below = bytes)
  <2> HIDE DEF below
  <2> QED BY <1>1, FS_Subset
<1>3. Cardinality(below) \in Nat /\ Cardinality(bytes) \in Nat
  BY <1>2, FS_CardinalityType
<1>4. b \in bytes => below # bytes
  OBVIOUS
<1>5. (\A c \in bytes : c < b) => below = bytes
  OBVIOUS
<1> HIDE DEF below
<1>6. PlaceIn(bytes, b) = Cardinality(below)
  BY DEF PlaceIn, below
<1> QED
  BY <1>2, <1>3, <1>4, <1>5, <1>6

\* Where the parser stands, that many digits lie before it; at the end of the
\* text that is all of them.
LEMMA CountIsPlace ==
    ASSUME NEW text, Len(text) \in Nat, NEW allowed, NEW b \in 0..Len(text),
           NEW seen, NEW prefix, StandsAt(text, allowed, b, seen, prefix)
    PROVE  LET bytes == DigitBytes(text, allowed)
           IN  /\ seen \in 0..b /\ seen <= Cardinality(bytes)
               /\ PlaceIn(bytes, b) = seen
               /\ b < Len(text) /\ text[b + 1] = "digit" => b \in bytes
               /\ b = Len(text) => seen = Cardinality(bytes)
<1> DEFINE bytes == DigitBytes(text, allowed)
<1>1. seen = Cardinality(Before(text, "digit", b)) /\ AllFit(text, allowed, b)
  BY DEF StandsAt
<1>2. seen \in 0..b
  BY <1>1, BeforeFinite
<1>3. {c \in bytes : c < b} = Before(text, "digit", b)
      /\ (b < Len(text) /\ text[b + 1] = "digit" => b \in bytes)
  BY <1>1, DigitsBelow
<1>4. bytes \in SUBSET Nat /\ IsFiniteSet(bytes)
  BY DigitsFinite
<1>5. b = Len(text) => \A c \in bytes : c < b
  BY DEF DigitBytes
<1> HIDE DEF bytes
<1>6. PlaceIn(bytes, b) = seen
  BY <1>1, <1>3 DEF PlaceIn
<1>7. b \in Nat
  OBVIOUS
<1>8. /\ PlaceIn(bytes, b) <= Cardinality(bytes)
      /\ b = Len(text) => PlaceIn(bytes, b) = Cardinality(bytes)
  BY <1>4, <1>5, <1>7, PlaceBounded
<1> QED
  BY <1>2, <1>3, <1>6, <1>8 DEF bytes

-----------------------------------------------------------------------------
(* The readers and the file speak of the same text.                        *)

LEMMA ReadersText ==
    /\ \A S : Readers!Cardinality(S) = Cardinality(S)
    /\ \A S : Readers!IsFiniteSet(S) <=> IsFiniteSet(S)
    /\ \A kind, seen, prefix, allowed :
           Readers!ByteIs(kind, seen, prefix, allowed) = ByteIs(kind, seen, prefix, allowed)
    /\ \A text, allowed : Readers!DigitBytes(text, allowed) = DigitBytes(text, allowed)
    /\ \A text, allowed, end : Readers!AllFit(text, allowed, end) <=> AllFit(text, allowed, end)
    /\ \A view, bytes, offset, len :
           Readers!IsSlice(view, bytes, offset, len) <=> IsSlice(view, bytes, offset, len)
<1>1. \A S : Readers!Cardinality(S) = Cardinality(S)
  BY DEF Readers!Cardinality, Cardinality
<1>2. \A S : Readers!IsFiniteSet(S) <=> IsFiniteSet(S)
  BY DEF Readers!IsFiniteSet, IsFiniteSet
<1>3. ASSUME NEW kind, NEW seen, NEW prefix, NEW allowed
      PROVE  Readers!ByteIs(kind, seen, prefix, allowed) = ByteIs(kind, seen, prefix, allowed)
  BY DEF Readers!ByteIs, ByteIs
<1>4. ASSUME NEW text, NEW kind, NEW b
      PROVE  Readers!Before(text, kind, b) = Before(text, kind, b)
  BY DEF Readers!Before, Before
<1>5. ASSUME NEW text, NEW allowed, NEW b
      PROVE  Readers!Fits(text, allowed, b) <=> Fits(text, allowed, b)
  BY <1>1, <1>4 DEF Readers!Fits, Fits
<1>6. ASSUME NEW text, NEW allowed, NEW end
      PROVE  Readers!AllFit(text, allowed, end) <=> AllFit(text, allowed, end)
  BY <1>5 DEF Readers!AllFit, AllFit
<1>7. ASSUME NEW text, NEW allowed
      PROVE  Readers!DigitBytes(text, allowed) = DigitBytes(text, allowed)
  BY <1>6 DEF Readers!DigitBytes, DigitBytes
<1>8. ASSUME NEW size, NEW offset, NEW len
      PROVE  Readers!SliceLength(size, offset, len) = SliceLength(size, offset, len)
  BY DEF Readers!SliceLength, SliceLength
<1>9. ASSUME NEW view, NEW bytes, NEW offset, NEW len
      PROVE  Readers!IsSlice(view, bytes, offset, len) <=> IsSlice(view, bytes, offset, len)
  BY <1>1, <1>8 DEF Readers!IsSlice, IsSlice
<1> QED
  BY <1>1, <1>2, <1>3, <1>6, <1>7, <1>9

LEMMA FilesText ==
    /\ \A kind, seen, prefix, allowed :
           Files!ByteIs(kind, seen, prefix, allowed) = ByteIs(kind, seen, prefix, allowed)
    /\ \A text, allowed : Files!DigitBytes(text, allowed) = DigitBytes(text, allowed)
    /\ \A text, allowed, end : Files!AllFit(text, allowed, end) <=> AllFit(text, allowed, end)
    /\ \A text, kind, b : Files!Before(text, kind, b) = Before(text, kind, b)
    /\ \A S : Files!Cardinality(S) = Cardinality(S)
    /\ \A view, bytes, offset, len :
           Files!IsSlice(view, bytes, offset, len) <=> IsSlice(view, bytes, offset, len)
<1>1. \A S : Files!Cardinality(S) = Cardinality(S)
  BY DEF Files!Cardinality, Cardinality
<1>3. ASSUME NEW kind, NEW seen, NEW prefix, NEW allowed
      PROVE  Files!ByteIs(kind, seen, prefix, allowed) = ByteIs(kind, seen, prefix, allowed)
  BY DEF Files!ByteIs, ByteIs
<1>4. ASSUME NEW text, NEW kind, NEW b
      PROVE  Files!Before(text, kind, b) = Before(text, kind, b)
  BY DEF Files!Before, Before
<1>5. ASSUME NEW text, NEW allowed, NEW b
      PROVE  Files!Fits(text, allowed, b) <=> Fits(text, allowed, b)
  BY <1>1, <1>4 DEF Files!Fits, Fits
<1>6. ASSUME NEW text, NEW allowed, NEW end
      PROVE  Files!AllFit(text, allowed, end) <=> AllFit(text, allowed, end)
  BY <1>5 DEF Files!AllFit, AllFit
<1>7. ASSUME NEW text, NEW allowed
      PROVE  Files!DigitBytes(text, allowed) = DigitBytes(text, allowed)
  BY <1>6 DEF Files!DigitBytes, DigitBytes
<1>8. ASSUME NEW size, NEW offset, NEW len
      PROVE  Files!SliceLength(size, offset, len) = SliceLength(size, offset, len)
  BY DEF Files!SliceLength, SliceLength
<1>9. ASSUME NEW view, NEW bytes, NEW offset, NEW len
      PROVE  Files!IsSlice(view, bytes, offset, len) <=> IsSlice(view, bytes, offset, len)
  BY <1>1, <1>8 DEF Files!IsSlice, IsSlice
<1> QED
  BY <1>1, <1>3, <1>4, <1>6, <1>7, <1>9

-----------------------------------------------------------------------------
(* The digit readers.                                                      *)

Held(t) == pc[t] \in {"skip", "fill", "leased"}
Asleep == {t \in Threads : pc[t] = "asleep"}
Awake == {t \in Threads : pc[t] = "checkout"}
ReadRequests == [slot : Slots \cup {None}, offset : 0..Len(file), len : 1..setup.maxReadLen]

\* Slots: each is in the pool, once, or in the hands of one thread.
SlotsInvariant ==
    /\ setup \in ReaderSetups /\ file \in setup.files
    /\ available \in Seq(setup.slots)
    /\ pc \in [Threads -> {"idle", "checkout", "asleep", "skip", "fill", "leased"}]
    /\ reading \in [Threads -> {None} \cup ReadRequests]
    /\ failed \in BOOLEAN
    /\ \A t \in Threads :
           /\ pc[t] = "idle" => reading[t] = None
           /\ pc[t] # "idle" => reading[t] \in ReadRequests
           /\ pc[t] \in {"checkout", "asleep"} => reading[t].slot = None
           /\ Held(t) => reading[t].slot \in setup.slots
    /\ \A i, j \in 1..Len(available) : available[i] = available[j] => i = j
    /\ \A t, u \in Threads : Held(t) /\ Held(u) /\ reading[t].slot = reading[u].slot => t = u
    /\ \A t \in Threads : Held(t) =>
           \A i \in 1..Len(available) : available[i] # reading[t].slot
    /\ \A s \in setup.slots :
           \/ \E i \in 1..Len(available) : available[i] = s
           \/ \E t \in Threads : Held(t) /\ reading[t].slot = s

\* While anybody sleeps, somebody is on the way to each free slot.
WakeupInvariant == Asleep # {} => Len(available) <= Cardinality(Awake)

ReaderType ==
    [open : BOOLEAN, filePos : Nat, next : Nat, end : Nat, byteOffset : Nat, seen : Nat,
     prefix : BOOLEAN, skipped : BOOLEAN, digits : Seq(Nat), cacheStart : Nat,
     viewStart : Nat, viewLen : Nat]

TheDigits == DigitBytes(file, DecimalPrefix)

\* Where a reader is in the file and in its buffer.
Placed(r) ==
    /\ r \in ReaderType
    /\ r.seen <= r.byteOffset /\ r.byteOffset <= r.next
    /\ r.next <= r.end /\ r.end <= Len(file) /\ r.filePos <= Len(file)
    /\ r.open => r.filePos = r.end \/ (r.next = r.end /\ r.filePos = r.byteOffset)
    /\ Len(r.digits) <= setup.maxReadLen

\* The parser is where the buffer is.
Parsed(r) ==
    r.byteOffset = r.next /\ StandsAt(file, DecimalPrefix, r.next, r.seen, r.prefix)

\* The cached digits are those from cacheStart on, up to where the parser is.
Cached(r) ==
    /\ \A k \in 1..Len(r.digits) :
           r.digits[k] \in TheDigits /\ PlaceIn(TheDigits, r.digits[k]) = r.cacheStart + k - 1
    /\ Len(r.digits) > 0 => r.cacheStart + Len(r.digits) = r.seen

Exact(r) == r.skipped \/ (Parsed(r) /\ Cached(r))

\* What a slot is to the thread that has it.
Skipping(r, q) == Len(r.digits) = 0 /\ (r.skipped \/ r.seen <= q.offset)
Filling(r, q) ==
    /\ Len(r.digits) <= q.len
    /\ \/ r.skipped
       \/ /\ r.cacheStart = q.offset
          /\ \/ r.cacheStart + Len(r.digits) = r.seen
             \/ Len(r.digits) = 0 /\ r.seen < q.offset /\ r.next = Len(file)
Shown(r, q) ==
    /\ r.viewStart + r.viewLen <= Len(r.digits)
    /\ \/ r.skipped
       \/ /\ r.viewLen = SliceLength(Cardinality(TheDigits), q.offset, q.len)
          /\ r.viewLen > 0 => r.cacheStart + r.viewStart = q.offset

UseInvariant ==
    \A t \in Threads :
        /\ pc[t] = "skip" => Skipping(reader[reading[t].slot], reading[t])
        /\ pc[t] = "fill" => Filling(reader[reading[t].slot], reading[t])
        /\ pc[t] = "leased" => Shown(reader[reading[t].slot], reading[t])

Sound(r) == Placed(r) /\ Exact(r)

ReadersInvariant == reader \in [Slots -> ReaderType] /\ \A s \in Slots : Sound(reader[s])

\* The inductive invariant of the readers.
ReadersIInv == SlotsInvariant /\ WakeupInvariant /\ ReadersInvariant /\ UseInvariant

TextKnown ==
    /\ Len(file) \in Nat /\ setup.maxReadLen \in Nat \ {0}
    /\ DecimalPrefix \in BOOLEAN /\ BufferBytes \in Nat \ {0}

LEMMA TheDigitsFinite ==
    ASSUME TextKnown
    PROVE  /\ TheDigits \in SUBSET Nat /\ IsFiniteSet(TheDigits)
           /\ Cardinality(TheDigits) \in 0..Len(file)
  BY DigitsFinite DEF TextKnown, TheDigits

LEMMA ParsedCounts ==
    ASSUME TextKnown, NEW r, Placed(r), Parsed(r)
    PROVE  /\ r.seen <= Cardinality(TheDigits)
           /\ PlaceIn(TheDigits, r.next) = r.seen
           /\ r.next < Len(file) /\ file[r.next + 1] = "digit" => r.next \in TheDigits
           /\ r.next = Len(file) => r.seen = Cardinality(TheDigits)
<1>1. r.next \in 0..Len(file)
  BY DEF Placed, ReaderType, TextKnown
<1> QED
  BY <1>1, CountIsPlace DEF TextKnown, TheDigits, Parsed

\* What does not depend on where the file is.
LEMMA MovedSound ==
    ASSUME TextKnown, NEW r, Sound(r), NEW q \in ReaderType,
           q.seen = r.seen, q.prefix = r.prefix, q.byteOffset = r.byteOffset,
           q.skipped = r.skipped, q.digits = r.digits, q.cacheStart = r.cacheStart,
           q.byteOffset <= q.next, q.next <= q.end, q.end <= Len(file),
           q.filePos <= Len(file), ~r.skipped => q.next = r.next,
           q.open => q.filePos = q.end \/ (q.next = q.end /\ q.filePos = q.byteOffset)
    PROVE  Sound(q)
<1>1. Placed(q)
  BY DEF Sound, Placed
<1>2. Exact(q)
  BY DEF Sound, Exact, Parsed, Cached
<1> QED
  BY <1>1, <1>2 DEF Sound

LEMMA FreshSound ==
    ASSUME TextKnown
    PROVE  Sound(Readers!Fresh)
<1> DEFINE r == Readers!Fresh
<1>1. r \in ReaderType
  BY DEF Readers!Fresh, ReaderType
<1>2. /\ r.filePos = 0 /\ r.next = 0 /\ r.end = 0 /\ r.byteOffset = 0 /\ r.seen = 0
      /\ r.prefix = FALSE /\ r.digits = <<>> /\ r.cacheStart = 0
  BY DEF Readers!Fresh
<1> HIDE DEF r
<1>3. Placed(r)
  BY <1>1, <1>2 DEF Placed, TextKnown
<1>4. Parsed(r)
  BY <1>2, StandsAtStart DEF Parsed
<1>5. Cached(r)
  BY <1>2 DEF Cached
<1> QED
  BY <1>3, <1>4, <1>5 DEF Sound, Exact, r

LEMMA RewoundSound ==
    ASSUME TextKnown, NEW s, Sound(s), NEW q, q.offset \in Nat
    PROVE  Sound(Readers!Rewound(s)) /\ Skipping(Readers!Rewound(s), q)
<1> DEFINE r == Readers!Rewound(s)
<1>1. r \in ReaderType
  <2>1. <<>> \in Seq(Nat)
    OBVIOUS
  <2>2. s \in ReaderType
    BY DEF Sound, Placed
  <2> QED
    BY <2>1, <2>2 DEF Readers!Rewound, ReaderType
<1>2. /\ r.filePos = 0 /\ r.next = 0 /\ r.end = 0 /\ r.byteOffset = 0 /\ r.seen = 0
      /\ r.prefix = FALSE /\ r.digits = <<>> /\ r.cacheStart = 0
  BY DEF Readers!Rewound, ReaderType, Sound, Placed
<1> HIDE DEF r
<1>3. Placed(r)
  BY <1>1, <1>2 DEF Placed, TextKnown
<1>4. Parsed(r)
  BY <1>2, StandsAtStart DEF Parsed
<1>5. Cached(r)
  BY <1>2 DEF Cached
<1>6. Sound(r) /\ Skipping(r, q)
  BY <1>2, <1>3, <1>4, <1>5 DEF Sound, Exact, Skipping
<1> QED
  BY <1>6 DEF r

LEMMA TailOf ==
    ASSUME NEW d \in Seq(Nat), NEW gap \in Nat, gap < Len(d)
    PROVE  LET tail == SubSeq(d, gap + 1, Len(d))
           IN  /\ tail \in Seq(Nat) /\ Len(tail) = Len(d) - gap
               /\ \A i \in 1..(Len(d) - gap) : tail[i] = d[gap + i]
<1>1. Len(d) \in Nat /\ gap + 1 \in Int /\ Len(d) \in Int /\ gap + 1 <= Len(d)
  BY LenProperties
<1>2. \A i \in (gap + 1)..Len(d) : d[i] \in Nat
  <2>1. \A i \in (gap + 1)..Len(d) : i \in 1..Len(d)
    BY <1>1
  <2> QED
    BY <2>1, ElementOfSeq
<1> DEFINE tail == SubSeq(d, gap + 1, Len(d))
<1>3. /\ tail \in Seq(Nat)
      /\ Len(tail) = Len(d) - (gap + 1) + 1
      /\ \A i \in 1..(Len(d) - (gap + 1) + 1) : tail[i] = d[gap + 1 + i - 1]
  BY <1>1, <1>2, SubSeqProperties
<1> HIDE DEF tail
<1>4. Len(d) - (gap + 1) + 1 = Len(d) - gap
  BY <1>1
<1>5. \A i \in 1..(Len(d) - gap) : gap + 1 + i - 1 = gap + i
  BY <1>1
<1>6. /\ tail \in Seq(Nat) /\ Len(tail) = Len(d) - gap
      /\ \A i \in 1..(Len(d) - gap) : tail[i] = d[gap + i]
  BY <1>3, <1>4, <1>5
<1> QED
  BY <1>6 DEF tail

\* The cached tail is kept, and what follows it is read.
LEMMA OverlapSound ==
    ASSUME TextKnown, NEW r, Sound(r), NEW offset \in Nat, NEW len \in Nat \ {0},
           Readers!CacheHit(r, offset), ~Readers!Complete(r, offset, len),
           NEW q, q.offset = offset, q.len = len
    PROVE  Sound(Readers!KeepOverlap(r, offset)) /\ Filling(Readers!KeepOverlap(r, offset), q)
<1>1. /\ r \in ReaderType /\ Len(r.digits) \in Nat /\ r.digits \in Seq(Nat)
      /\ Len(r.digits) <= setup.maxReadLen /\ r.cacheStart \in Nat
  BY DEF Sound, Placed, ReaderType
<1>2. PICK size \in Nat, start \in Nat : size = Len(r.digits) /\ start = r.cacheStart
  BY <1>1
<1>3. /\ start <= offset /\ offset < start + size /\ start + size < offset + len
      /\ Readers!CacheEnd(r) = start + size
  BY <1>1, <1>2 DEF Readers!CacheHit, Readers!CacheEnd, Readers!Complete
<1>4. PICK gap \in Nat : start + gap = offset /\ gap < size /\ offset - start = gap
  <2>1. offset - start \in Nat /\ start + (offset - start) = offset /\ offset - start < size
    BY <1>3
  <2> QED
    BY <2>1
<1>5. PICK tail : tail = SubSeq(r.digits, gap + 1, Len(r.digits))
  OBVIOUS
<1>6. /\ tail \in Seq(Nat) /\ Len(tail) = size - gap
      /\ \A i \in 1..(size - gap) : tail[i] = r.digits[gap + i]
  BY <1>1, <1>2, <1>4, <1>5, TailOf
<1>7. PICK left \in Nat : left = start + size - offset /\ left = size - gap /\ left < len
  BY <1>3, <1>4
<1>8. PICK k : k = Readers!KeepOverlap(r, offset)
  OBVIOUS
<1>9. k = [r EXCEPT !.digits = tail, !.cacheStart = offset, !.viewStart = 0, !.viewLen = left]
  <2>1. offset - r.cacheStart = gap
    BY <1>2, <1>4
  <2>2. Readers!CacheEnd(r) - offset = left
    BY <1>3, <1>7
  <2> QED
    BY <1>5, <1>8, <2>1, <2>2, Zenon DEF Readers!KeepOverlap
<1>10. /\ k.digits = tail /\ k.cacheStart = offset
       /\ k.seen = r.seen /\ k.prefix = r.prefix /\ k.byteOffset = r.byteOffset
       /\ k.skipped = r.skipped /\ k.next = r.next /\ k.end = r.end /\ k.open = r.open
       /\ k.filePos = r.filePos /\ k \in ReaderType
  BY <1>1, <1>6, <1>9 DEF ReaderType
<1>11. Len(k.digits) = left
  BY <1>6, <1>7, <1>10
<1>12. Placed(k)
  <2>1. Len(k.digits) <= setup.maxReadLen
    <3>1. PICK most \in Nat : most = setup.maxReadLen
      BY DEF TextKnown
    <3>2. size <= most
      BY <1>1, <1>2, <3>1
    <3>3. left <= most
      BY <1>4, <1>7, <3>2
    <3> QED
      BY <1>11, <3>1, <3>3
  <2> QED
    BY <1>10, <2>1 DEF Placed, Sound
<1>13. ASSUME ~r.skipped PROVE Parsed(k) /\ Cached(k) /\ k.cacheStart + Len(k.digits) = k.seen
  <2>1. Parsed(r) /\ Cached(r)
    BY <1>13 DEF Sound, Exact
  <2>2. Parsed(k)
    BY <1>10, <2>1 DEF Parsed
  <2>3. start + size = r.seen
    BY <1>2, <1>4, <2>1 DEF Cached
  <2>4. k.cacheStart + Len(k.digits) = k.seen
    <3>1. offset + left = start + size
      BY <1>7
    <3> QED
      BY <1>10, <1>11, <2>3, <3>1
  <2>5. ASSUME NEW i \in 1..left
        PROVE  tail[i] \in TheDigits /\ PlaceIn(TheDigits, tail[i]) = offset + i - 1
    <3>1. i \in 1..(size - gap) /\ gap + i \in 1..size
      BY <1>4, <1>7
    <3>2. tail[i] = r.digits[gap + i]
      BY <1>6, <3>1
    <3>3. start + (gap + i) - 1 = offset + i - 1
      BY <1>4, <3>1
    <3>4. r.digits[gap + i] \in TheDigits
          /\ PlaceIn(TheDigits, r.digits[gap + i]) = start + (gap + i) - 1
      BY <1>2, <2>1, <3>1 DEF Cached
    <3> QED
      BY <3>2, <3>3, <3>4
  <2> QED
    BY <1>10, <1>11, <2>2, <2>4, <2>5 DEF Cached
<1>14. Sound(k) /\ Filling(k, q)
  BY <1>7, <1>10, <1>11, <1>12, <1>13 DEF Sound, Exact, Filling
<1> QED
  BY <1>8, <1>14

\* An empty cache, where the parser is or past the end of the file.
LEMMA EmptyCacheSound ==
    ASSUME TextKnown, NEW r, Sound(r), NEW offset \in Nat, NEW q,
           q.offset = offset, q.len \in Nat,
           \/ r.skipped
           \/ offset = r.seen
           \/ r.seen < offset /\ r.next = Len(file)
    PROVE  Sound(Readers!CacheFrom(r, offset)) /\ Filling(Readers!CacheFrom(r, offset), q)
<1> DEFINE k == Readers!CacheFrom(r, offset)
<1>1. r \in ReaderType
  BY DEF Sound, Placed
<1>2. /\ k.digits = <<>> /\ k.cacheStart = offset
      /\ k.seen = r.seen /\ k.prefix = r.prefix /\ k.byteOffset = r.byteOffset
      /\ k.skipped = r.skipped /\ k.next = r.next /\ k.end = r.end /\ k.open = r.open
      /\ k.filePos = r.filePos
  BY <1>1 DEF Readers!CacheFrom, ReaderType
<1>3. k \in ReaderType
  <2>1. <<>> \in Seq(Nat)
    OBVIOUS
  <2> QED
    BY <1>1, <2>1 DEF Readers!CacheFrom, ReaderType
<1> HIDE DEF k
<1>4. Placed(k)
  BY <1>2, <1>3 DEF Sound, Placed, TextKnown
<1>5. Cached(k) /\ (~r.skipped => Parsed(k))
  BY <1>2 DEF Cached, Parsed, Sound, Exact
<1>6. Sound(k) /\ Filling(k, q)
  BY <1>2, <1>3, <1>4, <1>5 DEF Sound, Exact, Filling, ReaderType
<1> QED
  BY <1>6 DEF k

\* The digits asked for are all there.
LEMMA CompleteShown ==
    ASSUME TextKnown, NEW r, Sound(r), NEW offset \in Nat, NEW len \in Nat \ {0},
           Readers!Complete(r, offset, len), NEW q, q.offset = offset, q.len = len,
           NEW k, k = [r EXCEPT !.viewStart = offset - r.cacheStart, !.viewLen = len]
    PROVE  Sound(k) /\ Shown(k, q)
<1>1. r \in ReaderType /\ Len(r.digits) \in Nat
  BY DEF Sound, Placed, ReaderType
<1>2. /\ offset - r.cacheStart \in Nat /\ offset + len <= r.cacheStart + Len(r.digits)
      /\ r.cacheStart \in Nat /\ Len(r.digits) > 0
  BY <1>1 DEF Readers!Complete, Readers!CacheHit, Readers!CacheEnd, ReaderType
<1>3. /\ k.seen = r.seen /\ k.prefix = r.prefix /\ k.byteOffset = r.byteOffset
      /\ k.skipped = r.skipped /\ k.next = r.next /\ k.end = r.end /\ k.open = r.open
      /\ k.filePos = r.filePos /\ k.digits = r.digits /\ k.cacheStart = r.cacheStart
      /\ k.viewStart = offset - r.cacheStart /\ k.viewLen = len
  BY <1>1 DEF ReaderType
<1>4. k \in ReaderType
  BY <1>1, <1>2 DEF ReaderType
<1>5. Sound(k)
  BY <1>3, <1>4 DEF Sound, Placed, Exact, Parsed, Cached
<1>6. ASSUME ~r.skipped PROVE len = SliceLength(Cardinality(TheDigits), offset, len)
  <2>1. Parsed(r) /\ Placed(r) /\ r.cacheStart + Len(r.digits) = r.seen
    BY <1>2, <1>6 DEF Sound, Exact, Cached
  <2>3. r.seen <= Cardinality(TheDigits) /\ r.seen \in Nat
    BY <1>1, <2>1, ParsedCounts DEF ReaderType
  <2>4. Cardinality(TheDigits) \in Nat
    BY TheDigitsFinite DEF TextKnown
  <2>2. offset + len <= Cardinality(TheDigits)
    BY <1>1, <1>2, <2>1, <2>3, <2>4
  <2> QED
    BY <2>2, <2>4 DEF SliceLength
<1>7. Shown(k, q)
  BY <1>1, <1>2, <1>3, <1>6 DEF Shown
<1> QED
  BY <1>5, <1>7

-----------------------------------------------------------------------------
(* What a step makes of a reader.                                          *)

\* Where a refill reads, and how much it can get.
LEMMA RefillPlaces ==
    ASSUME TextKnown, NEW r, Sound(r), r.next = r.end, NEW position \in Readers!ReadStarts(r)
    PROVE  /\ position \in Nat /\ position <= Len(file) /\ r.byteOffset <= position
           /\ ~r.skipped => position = r.next
           /\ 0 \in Readers!ReadCounts(position) => position = Len(file)
           /\ \A count \in Readers!ReadCounts(position) \ {0} :
                  count \in Nat \ {0} /\ position + count <= Len(file)
<1>1. r \in ReaderType /\ Placed(r)
  BY DEF Sound, Placed
<1>2. /\ r.next \in Nat /\ r.byteOffset \in Nat /\ r.filePos \in Nat /\ r.end \in Nat
      /\ r.byteOffset <= r.next /\ r.end <= Len(file) /\ r.filePos <= Len(file)
      /\ r.open => r.filePos = r.end \/ r.filePos = r.byteOffset
  BY <1>1 DEF Placed, ReaderType
<1>3. (r.open /\ position = r.filePos) \/ position = r.byteOffset
  BY DEF Readers!ReadStarts
<1>4. ~r.skipped => r.byteOffset = r.next
  BY DEF Sound, Exact, Parsed
<1>5. /\ position \in Nat /\ position <= Len(file) /\ r.byteOffset <= position
      /\ ~r.skipped => position = r.next
  BY <1>2, <1>3, <1>4 DEF TextKnown
<1>6. Len(file) \in Nat /\ BufferBytes \in Nat \ {0}
  BY DEF TextKnown
<1>7. PICK left : left = Readers!Smaller(Len(file) - position, BufferBytes)
  OBVIOUS
<1>8. /\ left \in Int /\ left <= Len(file) - position
      /\ left <= 0 => position = Len(file)
  BY <1>5, <1>6, <1>7 DEF Readers!Smaller
<1>9. Readers!ReadCounts(position) = IF left <= 0 THEN {0} ELSE 1..left
  BY <1>7 DEF Readers!ReadCounts
<1>10. 0 \in Readers!ReadCounts(position) => position = Len(file)
  BY <1>8, <1>9
<1>11. ASSUME NEW count \in Readers!ReadCounts(position) \ {0}
       PROVE  count \in Nat \ {0} /\ position + count <= Len(file)
  <2>1. count \in 1..left
    BY <1>8, <1>9
  <2> QED
    BY <1>5, <1>6, <1>8, <2>1
<1> QED
  BY <1>5, <1>10, <1>11

Refilled(r, position, count) ==
    [r EXCEPT !.open = TRUE, !.filePos = position + count,
              !.next = position, !.end = position + count]

\* refill brings the bytes that follow, whatever became of the file.
LEMMA RefilledSound ==
    ASSUME TextKnown, NEW r, Sound(r), r.next = r.end, NEW position \in Readers!ReadStarts(r),
           NEW count \in Readers!ReadCounts(position) \ {0},
           NEW k, k = Refilled(r, position, count), NEW q
    PROVE  /\ Sound(k)
           /\ Skipping(r, q) => Skipping(k, q)
           /\ Filling(r, q) => Filling(k, q)
<1>1. /\ position \in Nat /\ r.byteOffset <= position /\ count \in Nat \ {0}
      /\ ~r.skipped => position = r.next
      /\ position + count <= Len(file)
  BY RefillPlaces
<1>2. PICK stop \in Nat : stop = position + count /\ position < stop /\ stop <= Len(file)
  BY <1>1
<1>3. k = [r EXCEPT !.open = TRUE, !.filePos = stop, !.next = position, !.end = stop]
  BY <1>2 DEF Refilled
<1>4. r \in ReaderType
  BY DEF Sound, Placed
<1>5. /\ k \in ReaderType
      /\ k.seen = r.seen /\ k.prefix = r.prefix /\ k.byteOffset = r.byteOffset
      /\ k.skipped = r.skipped /\ k.digits = r.digits /\ k.cacheStart = r.cacheStart
      /\ k.next = position /\ k.end = stop /\ k.filePos = stop
  BY <1>1, <1>2, <1>3, <1>4 DEF ReaderType
<1>6. Sound(k)
  <2>1. /\ k.byteOffset <= k.next /\ k.next <= k.end /\ k.end <= Len(file)
        /\ k.filePos <= Len(file) /\ k.filePos = k.end
        /\ ~r.skipped => k.next = r.next
    BY <1>1, <1>2, <1>5
  <2> QED
    BY <1>5, <2>1, MovedSound
<1>7. Skipping(r, q) => Skipping(k, q)
  BY <1>5 DEF Skipping
<1>8. ~r.skipped => r.next # Len(file)
  BY <1>1, <1>2 DEF TextKnown
<1>9. Filling(r, q) => Filling(k, q)
  BY <1>5, <1>8 DEF Filling
<1> QED
  BY <1>6, <1>7, <1>9

\* A file that could not be rewound, opened or read.
LEMMA ClosedSound ==
    ASSUME TextKnown, NEW r, Sound(r)
    PROVE  Sound([r EXCEPT !.open = FALSE])
<1> DEFINE k == [r EXCEPT !.open = FALSE]
<1>1. r \in ReaderType /\ Placed(r)
  BY DEF Sound, Placed
<1>2. /\ k \in ReaderType /\ ~k.open
      /\ k.seen = r.seen /\ k.prefix = r.prefix /\ k.byteOffset = r.byteOffset
      /\ k.skipped = r.skipped /\ k.digits = r.digits /\ k.cacheStart = r.cacheStart
      /\ k.next = r.next /\ k.end = r.end /\ k.filePos = r.filePos
  BY <1>1 DEF ReaderType
<1> HIDE DEF k
<1>3. Sound(k)
  BY <1>1, <1>2, MovedSound DEF Placed
<1> QED
  BY <1>3 DEF k

LEMMA ReopenedSound ==
    ASSUME TextKnown, NEW r, Sound(r), r.next = r.end,
           NEW k, k = [r EXCEPT !.open = TRUE, !.filePos = r.byteOffset]
    PROVE  /\ Sound(k)
           /\ k.seen = r.seen /\ k.skipped = r.skipped /\ k.digits = r.digits
           /\ k.cacheStart = r.cacheStart /\ k.next = r.next
<1>1. r \in ReaderType /\ Placed(r)
  BY DEF Sound, Placed
<1>2. /\ k \in ReaderType
      /\ k.seen = r.seen /\ k.prefix = r.prefix /\ k.byteOffset = r.byteOffset
      /\ k.skipped = r.skipped /\ k.digits = r.digits /\ k.cacheStart = r.cacheStart
      /\ k.next = r.next /\ k.end = r.end /\ k.filePos = r.byteOffset
  BY <1>1 DEF ReaderType
<1>3. r.byteOffset <= Len(file)
  BY <1>1 DEF Placed, ReaderType, TextKnown
<1>4. Sound(k)
  BY <1>1, <1>2, <1>3, MovedSound DEF Placed
<1> QED
  BY <1>2, <1>4

LEMMA FailedRefillSound ==
    ASSUME TextKnown, NEW r, Sound(r), r.next = r.end, NEW k \in Readers!AfterFailedRefill(r)
    PROVE  Sound(k)
<1>1. \/ k = [r EXCEPT !.open = FALSE]
      \/ k = [r EXCEPT !.open = TRUE, !.filePos = r.byteOffset]
  BY DEF Readers!AfterFailedRefill
<1> QED
  BY <1>1, ClosedSound, ReopenedSound

\* An invalid byte is passed, and the slot remembers it.
LEMMA InvalidSound ==
    ASSUME TextKnown, NEW r, Sound(r), r.next < r.end
    PROVE  Sound([r EXCEPT !.next = @ + 1, !.skipped = TRUE])
<1> DEFINE k == [r EXCEPT !.next = @ + 1, !.skipped = TRUE]
<1>1. r \in ReaderType /\ Placed(r)
  BY DEF Sound, Placed
<1>2. r.next \in Nat /\ r.end \in Nat /\ r.byteOffset \in Nat
  BY <1>1 DEF ReaderType
<1>3. r.next + 1 \in Nat /\ r.next + 1 <= r.end /\ r.byteOffset <= r.next + 1
      /\ (r.open => r.filePos = r.end)
  BY <1>1, <1>2 DEF Placed
<1>4. PICK next \in Nat : next = r.next + 1
  BY <1>3
<1>5. k = [r EXCEPT !.next = next, !.skipped = TRUE]
  BY <1>4
<1>6. /\ k \in ReaderType /\ k.skipped /\ k.next = next
      /\ k.seen = r.seen /\ k.prefix = r.prefix /\ k.byteOffset = r.byteOffset
      /\ k.digits = r.digits /\ k.cacheStart = r.cacheStart
      /\ k.end = r.end /\ k.filePos = r.filePos /\ k.open = r.open
  BY <1>1, <1>5 DEF ReaderType
<1> HIDE DEF k
<1>7. Placed(k)
  BY <1>1, <1>3, <1>4, <1>6 DEF Placed
<1>8. Sound(k)
  BY <1>6, <1>7 DEF Sound, Exact
<1> QED
  BY <1>8 DEF k

Taken(r, is, mode) ==
    [r EXCEPT !.next = @ + 1, !.byteOffset = @ + 1,
              !.seen = IF is = "digit" THEN @ + 1 ELSE @,
              !.prefix = @ \/ is = "prefix",
              !.digits = IF is = "digit" /\ mode = "fill" THEN Append(@, r.next) ELSE @]

\* next_digit takes a byte that fits; a digit is kept when it is asked for.
LEMMA TakenSound ==
    ASSUME TextKnown, NEW r, Sound(r), r.next < r.end, NEW q,
           q.offset \in Nat, q.len \in Nat, q.len <= setup.maxReadLen,
           NEW is, is = Readers!Kind(r), is # "invalid", NEW mode,
           mode = "fill" => Filling(r, q) /\ Len(r.digits) < q.len,
           mode # "fill" => Skipping(r, q) /\ r.seen < q.offset,
           NEW k, k = Taken(r, is, mode)
    PROVE  Sound(k) /\ (IF mode = "fill" THEN Filling(k, q) ELSE Skipping(k, q))
<1>1. r \in ReaderType /\ Placed(r)
  BY DEF Sound, Placed
<1>2. /\ r.next \in Nat /\ r.end \in Nat /\ r.byteOffset \in Nat /\ r.seen \in Nat
      /\ r.filePos \in Nat /\ r.prefix \in BOOLEAN /\ r.digits \in Seq(Nat)
      /\ Len(r.digits) \in Nat /\ r.cacheStart \in Nat
      /\ (r.open => r.filePos = r.end) /\ r.end <= Len(file) /\ r.filePos <= Len(file)
      /\ r.seen <= r.byteOffset /\ r.byteOffset <= r.next /\ Len(r.digits) <= setup.maxReadLen
  BY <1>1 DEF Placed, ReaderType
<1>20. /\ r.next \in Nat /\ r.end \in Nat /\ r.byteOffset \in Nat /\ r.seen \in Nat
       /\ r.seen <= r.byteOffset /\ r.byteOffset <= r.next /\ r.next < r.end
  BY <1>2
<1>21. /\ r.next + 1 \in Nat /\ r.byteOffset + 1 \in Nat /\ r.next + 1 <= r.end
       /\ r.byteOffset + 1 <= r.next + 1 /\ r.seen + 1 <= r.byteOffset + 1
  BY <1>20
<1>22. PICK at \in Nat : at = r.byteOffset + 1
  BY <1>21
<1>3. PICK next \in Nat : /\ next = r.next + 1 /\ at = r.byteOffset + 1
                          /\ next <= r.end /\ at <= next /\ r.seen + 1 <= at
  BY <1>21, <1>22
<1>5. PICK seen \in Nat : seen = (IF is = "digit" THEN r.seen + 1 ELSE r.seen) /\ seen <= at
  <2>1. r.seen + 1 \in Nat /\ r.seen <= at
    BY <1>2, <1>3
  <2> QED
    BY <1>2, <1>3, <2>1
<1>6. PICK prefix \in BOOLEAN : prefix = (r.prefix \/ is = "prefix")
  <2>1. (r.prefix \/ is = "prefix") \in BOOLEAN
    BY Zenon
  <2> QED
    BY <2>1, Zenon
<1>7. PICK digits \in Seq(Nat) :
          digits = IF is = "digit" /\ mode = "fill" THEN Append(r.digits, r.next) ELSE r.digits
  <2>1. Append(r.digits, r.next) \in Seq(Nat)
    BY <1>2, AppendProperties
  <2> QED
    BY <1>2, <2>1
<1>8. k = [r EXCEPT !.next = next, !.byteOffset = at, !.seen = seen, !.prefix = prefix,
                    !.digits = digits]
  BY <1>3, <1>5, <1>6, <1>7 DEF Taken
<1>9. /\ k \in ReaderType /\ k.next = next /\ k.byteOffset = at /\ k.seen = seen
      /\ k.prefix = prefix /\ k.digits = digits
      /\ k.skipped = r.skipped /\ k.cacheStart = r.cacheStart
      /\ k.end = r.end /\ k.filePos = r.filePos /\ k.open = r.open
  BY <1>1, <1>8 DEF ReaderType
<1>10. /\ is = "digit" /\ mode = "fill" =>
              /\ Len(digits) = Len(r.digits) + 1
              /\ \A i \in 1..Len(r.digits) : digits[i] = r.digits[i]
              /\ digits[Len(r.digits) + 1] = r.next
       /\ ~(is = "digit" /\ mode = "fill") => digits = r.digits
  BY <1>2, <1>7, AppendProperties
<1>11. Len(digits) \in Nat /\ Len(digits) <= setup.maxReadLen
       /\ (mode = "fill" => Len(digits) <= q.len)
       /\ (mode # "fill" => Len(digits) = 0)
  <2>1. CASE is = "digit" /\ mode = "fill"
    <3>1. PICK old \in Nat, most \in Nat, len \in Nat :
              old = Len(r.digits) /\ most = setup.maxReadLen /\ len = q.len
      BY <1>2 DEF TextKnown
    <3>2. old < len /\ len <= most
      BY <2>1, <3>1
    <3>3. old + 1 \in Nat /\ old + 1 <= most /\ old + 1 <= len
      BY <3>2
    <3> QED
      BY <1>10, <2>1, <3>1, <3>3
  <2>2. CASE ~(is = "digit" /\ mode = "fill")
    BY <1>2, <1>10, <2>2 DEF Filling, Skipping
  <2> QED
    BY <2>1, <2>2
<1>12. Placed(k)
  BY <1>2, <1>3, <1>5, <1>9, <1>11 DEF Placed
<1>13. ASSUME ~r.skipped
       PROVE  /\ Parsed(k) /\ Cached(k)
              /\ mode = "fill" => k.cacheStart = q.offset /\ k.cacheStart + Len(k.digits) = k.seen
              /\ mode # "fill" => k.seen <= q.offset
  <2>1. Parsed(r) /\ Cached(r) /\ at = next
    BY <1>2, <1>3, <1>13 DEF Sound, Exact, Parsed
  <2>2. Readers!Kind(r) = ByteIs(file[r.next + 1], r.seen, r.prefix, DecimalPrefix)
    BY ReadersText DEF Readers!Kind
  <2>3. /\ is = "digit" <=> file[r.next + 1] = "digit"
        /\ StandsAt(file, DecimalPrefix, next, seen, prefix)
    BY <1>2, <1>3, <1>5, <1>6, <2>1, <2>2, ParserGoesOn DEF Parsed, TextKnown
  <2>4. Parsed(k)
    BY <1>9, <2>1, <2>3 DEF Parsed
  <2>5. is = "digit" => r.next \in TheDigits /\ PlaceIn(TheDigits, r.next) = r.seen
    BY <1>1, <1>2, <2>1, <2>3, ParsedCounts DEF TextKnown
  <2>6. ASSUME mode = "fill" PROVE r.cacheStart = q.offset /\ r.cacheStart + Len(r.digits) = r.seen
    BY <1>2, <1>13, <2>6 DEF Filling, TextKnown
  <2>7. CASE is = "digit" /\ mode = "fill"
    <3>1. r.cacheStart + Len(digits) = seen
      <4>1. Len(digits) = Len(r.digits) + 1 /\ seen = r.seen + 1
        BY <1>5, <1>10, <2>7
      <4>2. r.cacheStart + Len(r.digits) = r.seen
        BY <2>6, <2>7
      <4>3. PICK start \in Nat, old \in Nat : start = r.cacheStart /\ old = Len(r.digits)
        BY <1>2
      <4>4. start + (old + 1) = start + old + 1
        OBVIOUS
      <4> QED
        BY <4>1, <4>2, <4>3, <4>4
    <3>2. ASSUME NEW i \in 1..Len(digits)
          PROVE  digits[i] \in TheDigits /\ PlaceIn(TheDigits, digits[i]) = r.cacheStart + i - 1
      <4>1. i \in 1..Len(r.digits) \/ i = Len(r.digits) + 1
        BY <1>2, <1>10, <2>7
      <4>2. CASE i \in 1..Len(r.digits)
        BY <1>10, <2>1, <2>7, <4>2 DEF Cached
      <4>3. CASE i = Len(r.digits) + 1
        <5>1. r.cacheStart + i - 1 = r.seen
          BY <1>2, <2>6, <2>7, <4>3
        <5>2. digits[Len(r.digits) + 1] = r.next
          BY <1>10, <2>7
        <5>3. digits[i] = r.next
          BY <4>3, <5>2
        <5> QED
          BY <2>5, <2>7, <5>1, <5>3
      <4> QED
        BY <4>1, <4>2, <4>3
    <3>3. Cached(k)
      BY <1>9, <3>1, <3>2 DEF Cached
    <3> QED
      BY <1>9, <2>4, <2>6, <2>7, <3>1, <3>3
  <2>8. CASE ~(is = "digit" /\ mode = "fill")
    <3>1. digits = r.digits /\ (mode = "fill" => seen = r.seen)
      BY <1>5, <1>10, <2>8
    <3>2. mode # "fill" => Len(digits) = 0 /\ seen <= q.offset
      BY <1>2, <1>5, <1>11
    <3>3. Cached(k)
      BY <1>9, <2>1, <3>1, <3>2 DEF Cached
    <3> QED
      BY <1>9, <2>4, <2>6, <3>1, <3>2, <3>3
  <2> QED
    BY <2>7, <2>8
<1>14. Sound(k)
  BY <1>9, <1>12, <1>13 DEF Sound, Exact
<1>15. mode = "fill" => Filling(k, q)
  BY <1>9, <1>11, <1>13 DEF Filling
<1>16. mode # "fill" => Skipping(k, q)
  BY <1>9, <1>11, <1>13 DEF Skipping
<1> QED
  BY <1>14, <1>15, <1>16

\* Where a read stops, its reader is at the end of the file or has enough.
LEMMA StoppedSound ==
    ASSUME TextKnown, NEW r, Sound(r), NEW enough \in BOOLEAN, enough \/ Readers!AtEnd(r),
           NEW k, k = IF enough THEN r ELSE Readers!Ended(r)
    PROVE  /\ Sound(k)
           /\ k.seen = r.seen /\ k.skipped = r.skipped /\ k.digits = r.digits
           /\ k.cacheStart = r.cacheStart /\ k.next = r.next
           /\ enough \/ r.skipped \/ r.next = Len(file)
<1>1. CASE enough
  BY <1>1
<1>2. CASE ~enough
  <2>1. r.next = r.end
    BY <1>2 DEF Readers!AtEnd
  <2>2. PICK position \in Readers!ReadStarts(r) : 0 \in Readers!ReadCounts(position)
    BY <1>2 DEF Readers!AtEnd
  <2>3. r.skipped \/ r.next = Len(file)
    BY <2>1, <2>2, RefillPlaces
  <2>4. k = r \/ k = [r EXCEPT !.open = TRUE, !.filePos = r.byteOffset]
    BY <1>2 DEF Readers!Ended
  <2> QED
    BY <2>1, <2>3, <2>4, ReopenedSound
<1> QED
  BY <1>1, <1>2

\* The digits before the offset are behind, or the file has ended.
LEMMA SkippedSound ==
    ASSUME TextKnown, NEW r, Sound(r), NEW enough \in BOOLEAN, enough \/ Readers!AtEnd(r),
           NEW q, q.offset \in Nat, q.len \in Nat, Skipping(r, q), enough <=> r.seen >= q.offset,
           NEW k, k = IF enough THEN r ELSE Readers!Ended(r)
    PROVE  Sound(Readers!CacheFrom(k, q.offset)) /\ Filling(Readers!CacheFrom(k, q.offset), q)
<1>1. /\ Sound(k)
      /\ k.seen = r.seen /\ k.skipped = r.skipped /\ k.next = r.next
      /\ enough \/ r.skipped \/ r.next = Len(file)
  BY StoppedSound
<1>2. r.seen \in Nat
  BY DEF Sound, Placed, ReaderType
<1>3. \/ k.skipped
      \/ q.offset = k.seen
      \/ k.seen < q.offset /\ k.next = Len(file)
  BY <1>1, <1>2 DEF Skipping
<1> QED
  BY <1>1, <1>3, EmptyCacheSound

\* All the digits that were asked for, or all there are.
LEMMA FilledShown ==
    ASSUME TextKnown, NEW r, Sound(r), NEW enough \in BOOLEAN, enough \/ Readers!AtEnd(r),
           NEW q, q.offset \in Nat, q.len \in Nat \ {0}, Filling(r, q),
           enough <=> Len(r.digits) >= q.len,
           NEW k, k = IF enough THEN r ELSE Readers!Ended(r),
           NEW j, j = [k EXCEPT !.viewStart = 0, !.viewLen = Len(r.digits)]
    PROVE  Sound(j) /\ Shown(j, q)
<1>1. /\ Sound(k)
      /\ k.seen = r.seen /\ k.skipped = r.skipped /\ k.digits = r.digits
      /\ k.cacheStart = r.cacheStart /\ k.next = r.next
      /\ enough \/ r.skipped \/ r.next = Len(file)
  BY StoppedSound
<1>2. k \in ReaderType /\ r \in ReaderType /\ Len(r.digits) \in Nat
  BY <1>1 DEF Sound, Placed, ReaderType
<1>3. PICK shown \in Nat : shown = Len(r.digits)
  BY <1>2
<1>4. /\ j \in ReaderType
      /\ j.seen = k.seen /\ j.prefix = k.prefix /\ j.byteOffset = k.byteOffset
      /\ j.skipped = k.skipped /\ j.next = k.next /\ j.end = k.end /\ j.open = k.open
      /\ j.filePos = k.filePos /\ j.digits = k.digits /\ j.cacheStart = k.cacheStart
      /\ j.viewStart = 0 /\ j.viewLen = shown
  BY <1>2, <1>3 DEF ReaderType
<1>5. Sound(j)
  BY <1>1, <1>4 DEF Sound, Placed, Exact, Parsed, Cached
<1>6. ASSUME ~r.skipped
      PROVE  /\ shown = SliceLength(Cardinality(TheDigits), q.offset, q.len)
             /\ shown > 0 => r.cacheStart = q.offset
  <2>1. PICK all \in Nat : all = Cardinality(TheDigits)
    BY TheDigitsFinite DEF TextKnown
  <2>2. Placed(r) /\ Parsed(r)
    BY <1>6 DEF Sound, Exact
  <2>3. PICK seen \in Nat : seen = r.seen
    BY <1>2 DEF ReaderType
  <2>4. seen <= all /\ (r.next = Len(file) => seen = all)
    BY <2>1, <2>2, <2>3, ParsedCounts
  <2>5. PICK offset \in Nat, len \in Nat : offset = q.offset /\ len = q.len /\ len > 0
    OBVIOUS
  <2>6. /\ r.cacheStart = offset /\ shown <= len
        /\ \/ offset + shown = seen
           \/ shown = 0 /\ seen < offset /\ seen = all
    BY <1>3, <1>6, <2>3, <2>4, <2>5 DEF Filling
  <2>7. IF enough THEN shown >= len ELSE shown < len /\ seen = all
    BY <1>1, <1>3, <1>6, <2>4, <2>5
  <2>8. shown = IF all <= offset THEN 0 ELSE IF all - offset < len THEN all - offset ELSE len
    BY <2>4, <2>5, <2>6, <2>7
  <2> QED
    BY <2>1, <2>5, <2>6, <2>8 DEF SliceLength
<1>7. /\ j.viewStart + j.viewLen = shown /\ Len(j.digits) = shown
      /\ j.cacheStart + j.viewStart = r.cacheStart
  <2>1. r.cacheStart \in Nat
    BY <1>2 DEF ReaderType
  <2> QED
    BY <1>1, <1>3, <1>4, <2>1
<1>8. Shown(j, q)
  BY <1>1, <1>4, <1>6, <1>7 DEF Shown
<1> QED
  BY <1>5, <1>8

-----------------------------------------------------------------------------
(* The pool of readers.                                                    *)

\* The text that is read stays the same.
LEMMA SameText ==
    ASSUME setup' = setup, file' = file
    PROVE  /\ \A r : Sound(r) => Sound(r)'
           /\ \A r, q : Skipping(r, q) => Skipping(r, q)'
           /\ \A r, q : Filling(r, q) => Filling(r, q)'
           /\ \A r, q : Shown(r, q) => Shown(r, q)'
<1>1. TheDigits' = TheDigits
  BY DEF TheDigits, DigitBytes, AllFit, Fits, Before
<1>2. ASSUME NEW r, Placed(r) PROVE Placed(r)'
  BY <1>2 DEF Placed, ReaderType
<1>3. ASSUME NEW r, Parsed(r) PROVE Parsed(r)'
  BY <1>3 DEF Parsed, StandsAt, AllFit, Fits, Before
<1>4. ASSUME NEW r, Cached(r) PROVE Cached(r)'
  BY <1>1, <1>4 DEF Cached, PlaceIn
<1>5. \A r : Sound(r) => Sound(r)'
  BY <1>2, <1>3, <1>4 DEF Sound, Exact
<1> QED
  BY <1>1, <1>5 DEF Skipping, Filling, Shown, SliceLength

LEMMA TextIsKnown ==
    ASSUME SlotsInvariant
    PROVE  TextKnown /\ setup.slots \subseteq Slots /\ setup.threads \subseteq Threads
<1>1. setup \in Readers!SetupType /\ BufferBytes \in Nat \ {0} /\ DecimalPrefix \in BOOLEAN
  BY PoolsAssumption DEF Readers!ReaderConstants, SlotsInvariant
<1>2. /\ setup.files \subseteq Seq(Readers!ByteKinds) /\ setup.maxReadLen \in Nat \ {0}
      /\ setup.slots \subseteq Slots /\ setup.threads \subseteq Threads
  BY <1>1 DEF Readers!SetupType
<1>3. file \in Seq(Readers!ByteKinds)
  BY <1>2 DEF SlotsInvariant
<1>4. Len(file) \in Nat
  BY <1>3, LenProperties
<1> QED
  BY <1>1, <1>2, <1>4 DEF TextKnown

LEMMA NoneIsNone ==
    ASSUME SlotsInvariant
    PROVE  None \notin ReadRequests /\ None \notin Slots
<1>1. Len(file) \in Nat /\ setup.maxReadLen \in Nat \ {0}
  BY TextIsKnown DEF TextKnown
<1>2. 0..Len(file) \subseteq Nat /\ 1..setup.maxReadLen \subseteq Nat \ {0}
  BY <1>1
<1>3. ReadRequests \subseteq Readers!Request
  BY <1>2 DEF ReadRequests, Readers!Request
<1>4. None \notin Slots \cup Readers!Request
  BY PoolsAssumption DEF Readers!ReaderConstants
<1> QED
  BY <1>3, <1>4

LEMMA ThreadsFinite == IsFiniteSet(Threads)
  BY PoolsAssumption, ReadersText DEF Readers!ReaderConstants

Queueing == {"checkout", "asleep"}
AtWork == {"skip", "fill", "leased"}

\* A thread goes on with what it has.
LEMMA SlotsWhereMoved ==
    ASSUME SlotsInvariant, UNCHANGED <<setup, file, available, reading, failed>>,
           NEW t \in Threads, NEW where, pc' = [pc EXCEPT ![t] = where],
           \/ pc[t] \in Queueing /\ where \in Queueing
           \/ pc[t] \in AtWork /\ where \in AtWork
    PROVE  SlotsInvariant'
<1>1. pc' \in [Threads -> {"idle", "checkout", "asleep", "skip", "fill", "leased"}]
  BY DEF SlotsInvariant, Queueing, AtWork
<1>2. \A u \in Threads : /\ Held(u)' <=> Held(u)
                         /\ pc'[u] = "idle" <=> pc[u] = "idle"
                         /\ pc'[u] \in {"checkout", "asleep"} <=> pc[u] \in {"checkout", "asleep"}
  BY DEF SlotsInvariant, Held, Queueing, AtWork
<1>3. ReadRequests' = ReadRequests
  BY DEF ReadRequests
<1> QED
  BY <1>1, <1>2, <1>3 DEF SlotsInvariant

LEMMA SlotsWhereAsked ==
    ASSUME SlotsInvariant, UNCHANGED <<setup, file, available, failed>>,
           NEW t \in Threads, pc[t] = "idle", NEW q \in ReadRequests, q.slot = None,
           reading' = [reading EXCEPT ![t] = q], pc' = [pc EXCEPT ![t] = "checkout"]
    PROVE  SlotsInvariant'
<1>1. ReadRequests' = ReadRequests
  BY DEF ReadRequests
<1>2. /\ pc' \in [Threads -> {"idle", "checkout", "asleep", "skip", "fill", "leased"}]
      /\ reading' \in [Threads -> {None} \cup ReadRequests]
  BY DEF SlotsInvariant
<1>3. \A u \in Threads : /\ u # t => pc'[u] = pc[u] /\ reading'[u] = reading[u]
                         /\ u = t => pc'[u] = "checkout" /\ reading'[u] = q
  BY DEF SlotsInvariant
<1>4. \A u \in Threads : /\ Held(u)' <=> Held(u)
                         /\ Held(u) => reading'[u] = reading[u]
  BY <1>3 DEF Held
<1> QED
  BY <1>1, <1>2, <1>3, <1>4 DEF SlotsInvariant

LEMMA HeadOf ==
    ASSUME NEW S, NEW stack \in Seq(S), stack # <<>>
    PROVE  /\ Head(stack) \in S /\ Head(stack) = stack[1] /\ Tail(stack) \in Seq(S)
           /\ Len(stack) \in Nat \ {0} /\ Len(Tail(stack)) = Len(stack) - 1
           /\ \A i \in 1..(Len(stack) - 1) : Tail(stack)[i] = stack[i + 1]
  BY HeadTailProperties, EmptySeq, LenProperties

LEMMA OnTop ==
    ASSUME NEW S, NEW stack \in Seq(S), NEW x \in S, NEW top, top = <<x>> \o stack
    PROVE  /\ top \in Seq(S) /\ Len(top) = Len(stack) + 1 /\ top[1] = x
           /\ \A i \in 1..Len(stack) : top[i + 1] = stack[i]
<1>1. <<x>> \in Seq(S) /\ Len(<<x>>) = 1 /\ <<x>>[1] = x
  OBVIOUS
<1>2. Len(stack) \in Nat
  BY LenProperties
<1>3. /\ top \in Seq(S) /\ Len(top) = 1 + Len(stack)
      /\ \A i \in 1..(1 + Len(stack)) : top[i] = IF i <= 1 THEN <<x>>[i] ELSE stack[i - 1]
  BY <1>1, ConcatProperties
<1>4. top[1] = x
  BY <1>1, <1>2, <1>3
<1>5. \A i \in 1..Len(stack) : top[i + 1] = stack[i]
  <2> TAKE i \in 1..Len(stack)
  <2>1. i + 1 \in 1..(1 + Len(stack)) /\ ~(i + 1 <= 1) /\ i + 1 - 1 = i
    BY <1>2
  <2> QED
    BY <1>3, <2>1
<1>6. Len(top) = Len(stack) + 1
  BY <1>2, <1>3
<1> QED
  BY <1>3, <1>4, <1>5, <1>6

\* A slot is taken from the top of the pool.
LEMMA SlotsWhereTaken ==
    ASSUME SlotsInvariant, UNCHANGED <<setup, file, failed>>,
           NEW t \in Threads, pc[t] = "checkout", available # <<>>,
           available' = Tail(available),
           reading' = [reading EXCEPT ![t].slot = Head(available)],
           NEW where \in AtWork, pc' = [pc EXCEPT ![t] = where]
    PROVE  SlotsInvariant'
<1> DEFINE s == Head(available)
<1>1. /\ s \in setup.slots /\ s = available[1]
      /\ Tail(available) \in Seq(setup.slots)
      /\ Len(available) \in Nat \ {0} /\ Len(available') = Len(available) - 1
      /\ \A i \in 1..(Len(available) - 1) : available'[i] = available[i + 1]
  BY HeadOf DEF SlotsInvariant
<1>2. /\ available' \in Seq(setup'.slots)
      /\ 1 \in 1..Len(available)
      /\ \A i \in 1..Len(available') : i + 1 \in 1..Len(available) /\ i + 1 # 1
      /\ \A i \in 1..Len(available') : available'[i] = available[i + 1]
  BY <1>1
<1>3. ReadRequests' = ReadRequests /\ setup.slots \subseteq Slots
  BY TextIsKnown DEF ReadRequests
<1>4. reading[t] \in ReadRequests /\ reading[t].slot = None
  BY DEF SlotsInvariant
<1>5. reading'[t] = [reading[t] EXCEPT !.slot = s]
  BY DEF SlotsInvariant
<1> HIDE DEF s
<1>6. reading'[t] \in ReadRequests /\ reading'[t].slot = s
  BY <1>1, <1>3, <1>4, <1>5 DEF ReadRequests
<1>7. \A u \in Threads : u # t => pc'[u] = pc[u] /\ reading'[u] = reading[u]
  BY DEF SlotsInvariant
<1>8. /\ pc'[t] = where /\ where \in {"skip", "fill", "leased"}
      /\ pc' \in [Threads -> {"idle", "checkout", "asleep", "skip", "fill", "leased"}]
  BY DEF SlotsInvariant, AtWork
<1>9. reading' \in [Threads -> {None} \cup ReadRequests]
  <2>1. DOMAIN reading' = Threads /\ reading' = [u \in Threads |-> reading'[u]]
    BY DEF SlotsInvariant
  <2>2. \A u \in Threads : reading'[u] \in {None} \cup ReadRequests
    BY <1>6, <1>7 DEF SlotsInvariant
  <2> QED
    BY <2>1, <2>2
<1>10. \A u \in Threads :
          /\ u # t => (Held(u)' <=> Held(u))
          /\ u = t => Held(u)' /\ ~Held(u)
  BY <1>7, <1>8 DEF Held
<1>11. \A i, j \in 1..Len(available') : available'[i] = available'[j] => i = j
  <2> TAKE i, j \in 1..Len(available')
  <2>1. i + 1 \in 1..Len(available) /\ j + 1 \in 1..Len(available)
        /\ available'[i] = available[i + 1] /\ available'[j] = available[j + 1]
    BY <1>2
  <2>2. available[i + 1] = available[j + 1] => i + 1 = j + 1
    BY <2>1 DEF SlotsInvariant
  <2>3. i \in Int /\ j \in Int
    OBVIOUS
  <2> QED
    BY <2>1, <2>2, <2>3
<1>12. \A i \in 1..Len(available') : available'[i] # s
  <2> TAKE i \in 1..Len(available')
  <2>1. i + 1 \in 1..Len(available) /\ i + 1 # 1 /\ available'[i] = available[i + 1]
    BY <1>2
  <2> QED
    BY <1>1, <1>2, <2>1 DEF SlotsInvariant
<1>13. \A u \in Threads : Held(u) => reading[u].slot # s
  BY <1>1, <1>2 DEF SlotsInvariant
<1>14. \A u, v \in Threads :
          Held(u)' /\ Held(v)' /\ reading'[u].slot = reading'[v].slot => u = v
  BY <1>6, <1>7, <1>10, <1>13 DEF SlotsInvariant
<1>15. \A u \in Threads : Held(u)' => \A i \in 1..Len(available') : available'[i] # reading'[u].slot
  <2> TAKE u \in Threads
  <2>1. CASE u = t
    BY <1>6, <1>12, <2>1
  <2>2. CASE u # t
    BY <1>2, <1>7, <1>10, <2>2 DEF SlotsInvariant
  <2> QED
    BY <2>1, <2>2
<1>16. ASSUME NEW x \in setup'.slots
       PROVE  \/ \E i \in 1..Len(available') : available'[i] = x
              \/ \E u \in Threads : Held(u)' /\ reading'[u].slot = x
  <2>1. CASE x = s
    BY <1>6, <1>10, <2>1
  <2>2. CASE x # s /\ \E i \in 1..Len(available) : available[i] = x
    <3>1. PICK i \in 1..Len(available) : available[i] = x
      BY <2>2
    <3>2. i # 1
      BY <1>1, <2>2, <3>1
    <3>3. i - 1 \in 1..Len(available') /\ (i - 1) + 1 = i
      BY <1>1, <3>2
    <3> QED
      BY <1>2, <3>1, <3>3
  <2>3. CASE \E u \in Threads : Held(u) /\ reading[u].slot = x
    <3>1. PICK u \in Threads : Held(u) /\ reading[u].slot = x
      BY <2>3
    <3> QED
      BY <1>7, <1>10, <3>1
  <2> QED
    BY <2>1, <2>2, <2>3 DEF SlotsInvariant
<1>17. \A u \in Threads :
           /\ pc'[u] = "idle" => reading'[u] = None
           /\ pc'[u] # "idle" => reading'[u] \in ReadRequests
           /\ pc'[u] \in {"checkout", "asleep"} => reading'[u].slot = None
           /\ Held(u)' => reading'[u].slot \in setup'.slots
  BY <1>1, <1>6, <1>7, <1>8, <1>10 DEF SlotsInvariant
<1>18. /\ setup' \in ReaderSetups /\ file' \in setup'.files
       /\ reading' \in [Threads -> {None} \cup ReadRequests'] /\ failed' \in BOOLEAN
  BY <1>3, <1>9 DEF SlotsInvariant
<1> QED
  BY <1>2, <1>3, <1>8, <1>11, <1>14, <1>15, <1>16, <1>17, <1>18, ZenonT(60) DEF SlotsInvariant

\* Who calls and who wakes up when a thread lets go.
LEMMA WakesUp ==
    ASSUME SlotsInvariant, NEW t \in Threads, pc[t] # "asleep", Readers!NotifyOne(t)
    PROVE  /\ pc' \in [Threads -> {"idle", "checkout", "asleep", "skip", "fill", "leased"}]
           /\ pc'[t] = "idle"
           /\ \A u \in Threads \ {t} :
                  pc'[u] = pc[u] \/ (pc[u] = "asleep" /\ pc'[u] = "checkout")
           /\ Asleep # {} => \E u \in Asleep :
                  /\ Asleep' = Asleep \ {u}
                  /\ Awake' = (Awake \ {t}) \cup {u}
           /\ Asleep = {} => Asleep' = {}
<1>1. pc \in [Threads -> {"idle", "checkout", "asleep", "skip", "fill", "leased"}]
  BY DEF SlotsInvariant
<1>2. CASE Asleep = {}
  <2>1. pc' = [pc EXCEPT ![t] = "idle"]
    BY <1>2 DEF Readers!NotifyOne, Readers!Goes, Asleep
  <2> QED
    BY <1>1, <1>2, <2>1 DEF Asleep
<1>3. CASE Asleep # {}
  <2>1. PICK u \in Asleep : pc' = [pc EXCEPT ![t] = "idle", ![u] = "checkout"]
    BY <1>3 DEF Readers!NotifyOne, Asleep
  <2>2. u \in Threads /\ pc[u] = "asleep" /\ u # t
    BY DEF Asleep
  <2>3. /\ pc'[t] = "idle" /\ pc'[u] = "checkout"
        /\ \A v \in Threads \ {t, u} : pc'[v] = pc[v]
        /\ pc' \in [Threads -> {"idle", "checkout", "asleep", "skip", "fill", "leased"}]
    BY <1>1, <2>1, <2>2
  <2>4. Asleep' = Asleep \ {u} /\ Awake' = (Awake \ {t}) \cup {u}
    BY <2>2, <2>3 DEF Asleep, Awake
  <2> QED
    BY <1>3, <2>2, <2>3, <2>4
<1> QED
  BY <1>2, <1>3

\* What a thread lets go of is the pool's, or was never its own.
LEMMA SlotsWhereLetGo ==
    ASSUME SlotsInvariant, UNCHANGED <<setup, file, available>>, failed' \in BOOLEAN,
           NEW t \in Threads, pc[t] = "checkout", Readers!NotifyOne(t),
           reading' = [reading EXCEPT ![t] = None]
    PROVE  SlotsInvariant'
<1>1. /\ pc' \in [Threads -> {"idle", "checkout", "asleep", "skip", "fill", "leased"}]
      /\ pc'[t] = "idle"
      /\ \A u \in Threads \ {t} :
             pc'[u] = pc[u] \/ (pc[u] = "asleep" /\ pc'[u] = "checkout")
  BY WakesUp
<1>2. ReadRequests' = ReadRequests
  BY DEF ReadRequests
<1>3. /\ reading' \in [Threads -> {None} \cup ReadRequests] /\ reading'[t] = None
      /\ \A u \in Threads \ {t} : reading'[u] = reading[u]
  BY DEF SlotsInvariant
<1>4. \A u \in Threads : /\ Held(u)' <=> Held(u)
                         /\ Held(u) => reading'[u] = reading[u]
  BY <1>1, <1>3 DEF Held
<1>5. \A u \in Threads :
           /\ pc'[u] = "idle" => reading'[u] = None
           /\ pc'[u] # "idle" => reading'[u] \in ReadRequests
           /\ pc'[u] \in {"checkout", "asleep"} => reading'[u].slot = None
           /\ Held(u)' => reading'[u].slot \in setup'.slots
  BY <1>1, <1>3, <1>4 DEF SlotsInvariant
<1> QED
  BY <1>1, <1>2, <1>3, <1>4, <1>5 DEF SlotsInvariant

\* A slot is put back, on top of the pool.
LEMMA SlotsWherePutBack ==
    ASSUME SlotsInvariant, UNCHANGED <<setup, file>>, failed' \in BOOLEAN,
           NEW t \in Threads, Held(t), Readers!PutBack(t)
    PROVE  SlotsInvariant'
<1>1. PICK s \in setup.slots : s = reading[t].slot
  BY DEF SlotsInvariant
<1>2. /\ available' = <<s>> \o available
      /\ reading' = [reading EXCEPT ![t] = None]
      /\ Readers!NotifyOne(t)
  BY <1>1 DEF Readers!PutBack
<1>3. pc[t] # "asleep"
  BY DEF Held
<1>4. /\ pc' \in [Threads -> {"idle", "checkout", "asleep", "skip", "fill", "leased"}]
      /\ pc'[t] = "idle"
      /\ \A u \in Threads \ {t} :
             pc'[u] = pc[u] \/ (pc[u] = "asleep" /\ pc'[u] = "checkout")
  BY <1>2, <1>3, WakesUp
<1>5. /\ reading' \in [Threads -> {None} \cup ReadRequests] /\ reading'[t] = None
      /\ \A u \in Threads \ {t} : reading'[u] = reading[u]
  BY <1>2 DEF SlotsInvariant
<1>6. ReadRequests' = ReadRequests
  BY DEF ReadRequests
<1>7. \A u \in Threads :
          /\ u # t => (Held(u)' <=> Held(u))
          /\ u = t => ~Held(u)'
  BY <1>4 DEF Held
<1>8. \A u \in Threads :
           /\ pc'[u] = "idle" => reading'[u] = None
           /\ pc'[u] # "idle" => reading'[u] \in ReadRequests
           /\ pc'[u] \in {"checkout", "asleep"} => reading'[u].slot = None
           /\ Held(u)' => reading'[u].slot \in setup'.slots
  BY <1>4, <1>5, <1>7 DEF SlotsInvariant
<1>9. Len(available) \in Nat /\ available \in Seq(setup.slots)
  BY LenProperties DEF SlotsInvariant
<1>10. /\ available' \in Seq(setup'.slots) /\ Len(available') = Len(available) + 1
       /\ available'[1] = s
       /\ \A i \in 1..Len(available) : available'[i + 1] = available[i]
  <2>1. PICK S : S = setup.slots /\ S = setup'.slots
    OBVIOUS
  <2>2. PICK old \in Seq(S) : old = available
    BY <1>9, <2>1
  <2>3. s \in S
    BY <1>1, <2>1
  <2>4. PICK top : top = <<s>> \o old
    OBVIOUS
  <2>5. /\ top \in Seq(S) /\ Len(top) = Len(old) + 1 /\ top[1] = s
        /\ \A i \in 1..Len(old) : top[i + 1] = old[i]
    BY <2>3, <2>4, OnTop
  <2>6. available' = top
    BY <1>2, <2>2, <2>4
  <2> QED
    BY <2>1, <2>2, <2>5, <2>6
<1>11. \A i \in 1..Len(available') :
          i = 1 \/ (i - 1 \in 1..Len(available) /\ available'[i] = available[i - 1])
  <2> TAKE i \in 1..Len(available')
  <2>1. i = 1 \/ (i - 1 \in 1..Len(available) /\ (i - 1) + 1 = i)
    BY <1>9, <1>10
  <2> QED
    BY <1>10, <2>1
<1>12. \A i \in 1..Len(available) : available[i] # s
  BY <1>1 DEF SlotsInvariant
<1>13. \A u \in Threads \ {t} : Held(u) => reading[u].slot # s
  BY <1>1 DEF SlotsInvariant
<1>14. \A i, j \in 1..Len(available') : available'[i] = available'[j] => i = j
  <2> TAKE i, j \in 1..Len(available')
  <2> HAVE available'[i] = available'[j]
  <2>1. CASE i = 1 \/ j = 1
    BY <1>10, <1>11, <1>12, <2>1
  <2>2. CASE i # 1 /\ j # 1
    <3>1. /\ i - 1 \in 1..Len(available) /\ j - 1 \in 1..Len(available)
          /\ available[i - 1] = available[j - 1]
      BY <1>11, <2>2
    <3>2. i - 1 = j - 1
      BY <3>1 DEF SlotsInvariant
    <3>3. i \in Int /\ j \in Int
      OBVIOUS
    <3> QED
      BY <3>2, <3>3
  <2> QED
    BY <2>1, <2>2
<1>15. \A u, v \in Threads :
          Held(u)' /\ Held(v)' /\ reading'[u].slot = reading'[v].slot => u = v
  BY <1>5, <1>7 DEF SlotsInvariant
<1>16. \A u \in Threads : Held(u)' => \A i \in 1..Len(available') : available'[i] # reading'[u].slot
  <2> TAKE u \in Threads
  <2> HAVE Held(u)'
  <2>1. u # t /\ Held(u) /\ reading'[u] = reading[u]
    BY <1>5, <1>7
  <2> TAKE i \in 1..Len(available')
  <2> QED
    BY <1>10, <1>11, <1>13, <2>1 DEF SlotsInvariant
<1>17. ASSUME NEW x \in setup'.slots
       PROVE  \/ \E i \in 1..Len(available') : available'[i] = x
              \/ \E u \in Threads : Held(u)' /\ reading'[u].slot = x
  <2>1. CASE x = s
    <3>1. 1 \in 1..Len(available')
      BY <1>9, <1>10
    <3> QED
      BY <1>10, <2>1, <3>1
  <2>2. CASE \E i \in 1..Len(available) : available[i] = x
    <3>1. PICK i \in 1..Len(available) : available[i] = x
      BY <2>2
    <3>2. i + 1 \in 1..Len(available')
      BY <1>9, <1>10
    <3> QED
      BY <1>10, <3>1, <3>2
  <2>3. CASE x # s /\ \E u \in Threads : Held(u) /\ reading[u].slot = x
    <3>1. PICK u \in Threads : Held(u) /\ reading[u].slot = x
      BY <2>3
    <3>2. u # t
      BY <1>1, <2>3, <3>1
    <3> QED
      BY <1>5, <1>7, <3>1, <3>2
  <2> QED
    BY <2>1, <2>2, <2>3 DEF SlotsInvariant
<1>18. /\ setup' \in ReaderSetups /\ file' \in setup'.files
       /\ reading' \in [Threads -> {None} \cup ReadRequests'] /\ failed' \in BOOLEAN
  BY <1>5, <1>6 DEF SlotsInvariant
<1> QED
  BY <1>4, <1>6, <1>8, <1>10, <1>14, <1>15, <1>16, <1>17, <1>18, Zenon DEF SlotsInvariant

LEMMA AwakeFinite ==
    /\ IsFiniteSet(Awake) /\ Cardinality(Awake) \in Nat
    /\ IsFiniteSet(Awake') /\ Cardinality(Awake') \in Nat
<1>1. Awake \in SUBSET Threads /\ Awake' \in SUBSET Threads
  BY DEF Awake
<1> QED
  BY <1>1, ThreadsFinite, FS_Subset, FS_CardinalityType

LEMMA WakeupWhereMoved ==
    ASSUME SlotsInvariant, WakeupInvariant, available' = available,
           Asleep' \subseteq Asleep, Awake \subseteq Awake'
    PROVE  WakeupInvariant'
<1>1. Cardinality(Awake) <= Cardinality(Awake')
  BY AwakeFinite, FS_Subset
<1>2. Len(available) \in Nat
  BY LenProperties DEF SlotsInvariant
<1>3. ASSUME Asleep' # {} PROVE Len(available') <= Cardinality(Awake')
  <2>1. Len(available) <= Cardinality(Awake)
    BY <1>3 DEF WakeupInvariant
  <2>2. Cardinality(Awake) \in Nat /\ Cardinality(Awake') \in Nat
    BY AwakeFinite
  <2>3. Len(available) <= Cardinality(Awake')
    BY <1>1, <1>2, <2>1, <2>2
  <2> QED
    BY <2>3
<1> QED
  BY <1>3 DEF WakeupInvariant

LEMMA WakeupWhereSlept ==
    ASSUME available = <<>>, available' = available
    PROVE  WakeupInvariant'
<1>1. Len(available') = 0
  OBVIOUS
<1>2. Cardinality(Awake') \in Nat
  BY AwakeFinite
<1>3. Len(available') <= Cardinality(Awake')
  BY <1>1, <1>2
<1> QED
  BY <1>3 DEF WakeupInvariant

LEMMA WakeupWhereTaken ==
    ASSUME SlotsInvariant, WakeupInvariant, available # <<>>, available' = Tail(available),
           NEW t \in Threads, pc[t] = "checkout",
           NEW where \in AtWork, pc' = [pc EXCEPT ![t] = where]
    PROVE  WakeupInvariant'
<1>1. t \in Awake /\ Awake' = Awake \ {t} /\ Asleep' = Asleep
  BY DEF Awake, Asleep, AtWork, SlotsInvariant
<1>2. Cardinality(Awake') = Cardinality(Awake) - 1
  BY <1>1, AwakeFinite, FS_RemoveElement
<1>3. Len(available) \in Nat /\ Len(available') = Len(available) - 1
  BY HeadOf DEF SlotsInvariant
<1>4. Cardinality(Awake) \in Nat
  BY AwakeFinite
<1>5. Len(available) <= Cardinality(Awake) => Len(available') <= Cardinality(Awake')
  BY <1>2, <1>3, <1>4
<1> QED
  BY <1>1, <1>5 DEF WakeupInvariant

LEMMA WakeupWhereLetGo ==
    ASSUME SlotsInvariant, WakeupInvariant, available' = available,
           NEW t \in Threads, pc[t] = "checkout", Readers!NotifyOne(t)
    PROVE  WakeupInvariant'
<1>1. CASE Asleep = {}
  <2>1. Asleep' = {}
    BY <1>1, WakesUp
  <2> QED
    BY <2>1 DEF WakeupInvariant
<1>2. CASE Asleep # {}
  <2>1. PICK u \in Asleep : Awake' = (Awake \ {t}) \cup {u}
    BY <1>2, WakesUp
  <2>2. t \in Awake /\ u \notin Awake /\ u # t
    BY DEF Awake, Asleep
  <2>3. IsFiniteSet(Awake \ {t}) /\ Cardinality(Awake \ {t}) = Cardinality(Awake) - 1
    BY <2>2, AwakeFinite, FS_RemoveElement
  <2>4. Cardinality(Awake') = Cardinality(Awake \ {t}) + 1
    BY <2>1, <2>2, <2>3, FS_AddElement
  <2>5. Cardinality(Awake) \in Nat
    BY AwakeFinite
  <2>6. Cardinality(Awake') = Cardinality(Awake)
    BY <2>3, <2>4, <2>5
  <2> QED
    BY <1>2, <2>6 DEF WakeupInvariant
<1> QED
  BY <1>1, <1>2

LEMMA WakeupWherePutBack ==
    ASSUME SlotsInvariant, WakeupInvariant,
           NEW t \in Threads, Held(t), Readers!PutBack(t)
    PROVE  WakeupInvariant'
<1>1. Readers!NotifyOne(t) /\ available' = <<reading[t].slot>> \o available /\ pc[t] # "asleep"
  BY DEF Readers!PutBack, Held
<1>2. CASE Asleep = {}
  <2>1. Asleep' = {}
    BY <1>1, <1>2, WakesUp
  <2> QED
    BY <2>1 DEF WakeupInvariant
<1>3. CASE Asleep # {}
  <2>1. PICK u \in Asleep : Awake' = (Awake \ {t}) \cup {u}
    BY <1>1, <1>3, WakesUp
  <2>2. t \notin Awake /\ u \notin Awake
    BY DEF Awake, Asleep, Held
  <2>3. Awake' = Awake \cup {u}
    BY <2>1, <2>2
  <2>4. Cardinality(Awake') = Cardinality(Awake) + 1
    BY <2>2, <2>3, AwakeFinite, FS_AddElement
  <2>5. Cardinality(Awake) \in Nat
    BY AwakeFinite
  <2>6. Len(available) \in Nat /\ Len(available') = Len(available) + 1
    <3>1. PICK S : S = setup.slots
      OBVIOUS
    <3>2. PICK old \in Seq(S) : old = available
      BY <3>1 DEF SlotsInvariant
    <3>3. PICK s \in S : s = reading[t].slot
      BY <3>1 DEF SlotsInvariant
    <3>4. PICK top : top = <<s>> \o old
      OBVIOUS
    <3>5. Len(top) = Len(old) + 1 /\ Len(old) \in Nat
      BY <3>3, <3>4, OnTop, LenProperties
    <3> QED
      BY <1>1, <3>2, <3>3, <3>4, <3>5
  <2>7. Len(available) <= Cardinality(Awake)
    BY <1>3 DEF WakeupInvariant
  <2>8. Len(available') <= Cardinality(Awake')
    BY <2>4, <2>5, <2>6, <2>7
  <2> QED
    BY <2>8 DEF WakeupInvariant
<1> QED
  BY <1>2, <1>3

-----------------------------------------------------------------------------
(* What threads know of their slots, while other slots are used.            *)

LEMMA ReadersRest ==
    ASSUME ReadersInvariant, UseInvariant, UNCHANGED <<setup, file, reader>>,
           \A u \in Threads : pc'[u] \in AtWork => pc'[u] = pc[u] /\ reading'[u] = reading[u]
    PROVE  ReadersInvariant' /\ UseInvariant'
<1>1. ReadersInvariant'
  BY SameText DEF ReadersInvariant, ReaderType
<1>2. ASSUME NEW u \in Threads, pc'[u] \in AtWork
      PROVE  /\ pc'[u] = "skip" => Skipping(reader[reading[u].slot], reading[u])'
             /\ pc'[u] = "fill" => Filling(reader[reading[u].slot], reading[u])'
             /\ pc'[u] = "leased" => Shown(reader[reading[u].slot], reading[u])'
  <2>1. pc'[u] = pc[u] /\ reading'[u] = reading[u]
    BY <1>2
  <2> QED
    BY <2>1, SameText DEF UseInvariant
<1>3. UseInvariant'
  BY <1>2 DEF UseInvariant, AtWork
<1> QED
  BY <1>1, <1>3

\* One slot is used, by a thread or for none.
LEMMA OneReaderMoves ==
    ASSUME ReadersInvariant, UseInvariant, UNCHANGED <<setup, file>>,
           NEW t \in Threads, NEW s \in Slots, NEW k, Sound(k),
           reader' = [reader EXCEPT ![s] = k],
           \A u \in Threads \ {t} : pc'[u] \in AtWork =>
               pc'[u] = pc[u] /\ reading'[u] = reading[u]
               /\ reading[u].slot \in Slots /\ reading[u].slot # s,
           pc'[t] \in AtWork => reading'[t].slot = s,
           pc'[t] = "skip" => Skipping(k, reading'[t]),
           pc'[t] = "fill" => Filling(k, reading'[t]),
           pc'[t] = "leased" => Shown(k, reading'[t])
    PROVE  ReadersInvariant' /\ UseInvariant'
<1>1. /\ reader'[s] = k /\ \A x \in Slots : x # s => reader'[x] = reader[x]
      /\ reader' \in [Slots -> ReaderType']
  <2>1. k \in ReaderType
    BY DEF Sound, Placed
  <2> QED
    BY <2>1 DEF ReadersInvariant, ReaderType
<1>2. \A x \in Slots : Sound(reader[x])'
  BY <1>1, SameText DEF ReadersInvariant
<1>3. ReadersInvariant'
  BY <1>1, <1>2 DEF ReadersInvariant
<1>4. ASSUME NEW u \in Threads, pc'[u] \in AtWork
      PROVE  /\ pc'[u] = "skip" => Skipping(reader[reading[u].slot], reading[u])'
             /\ pc'[u] = "fill" => Filling(reader[reading[u].slot], reading[u])'
             /\ pc'[u] = "leased" => Shown(reader[reading[u].slot], reading[u])'
  <2>1. CASE u = t
    <3>1. reader'[reading'[u].slot] = k
      BY <1>1, <1>4, <2>1
    <3> QED
      BY <2>1, <3>1, SameText
  <2>2. CASE u # t
    <3>1. pc'[u] = pc[u] /\ reading'[u] = reading[u]
          /\ reader'[reading'[u].slot] = reader[reading[u].slot]
      BY <1>1, <1>4, <2>2
    <3> QED
      BY <3>1, SameText DEF UseInvariant
  <2> QED
    BY <2>1, <2>2
<1>5. UseInvariant'
  BY <1>4 DEF UseInvariant, AtWork
<1> QED
  BY <1>3, <1>5

-----------------------------------------------------------------------------
(* The actions of the pool.                                                *)

\* What a thread that has a slot may rely on.
LEMMA AtItsSlot ==
    ASSUME ReadersIInv, NEW t \in Threads, pc[t] \in AtWork, NEW s, s = reading[t].slot
    PROVE  /\ TextKnown /\ Held(t) /\ s \in Slots /\ Sound(reader[s])
           /\ reading[t].offset \in Nat /\ reading[t].len \in Nat \ {0}
           /\ reading[t].len <= setup.maxReadLen
           /\ \A u \in Threads \ {t} : pc[u] \in AtWork =>
                  reading[u].slot \in Slots /\ reading[u].slot # s
<1>1. TextKnown /\ setup.slots \subseteq Slots
  BY TextIsKnown DEF ReadersIInv
<1>2. Held(t) /\ \A u \in Threads : pc[u] \in AtWork <=> Held(u)
  BY DEF Held, AtWork
<1>3. s \in Slots /\ \A u \in Threads \ {t} : pc[u] \in AtWork =>
                  reading[u].slot \in Slots /\ reading[u].slot # s
  BY <1>1, <1>2 DEF ReadersIInv, SlotsInvariant
<1>4. Sound(reader[s])
  BY <1>3 DEF ReadersIInv, ReadersInvariant
<1>5. reading[t] \in ReadRequests
  BY DEF ReadersIInv, SlotsInvariant, AtWork
<1>6. reading[t].offset \in 0..Len(file) /\ reading[t].len \in 1..setup.maxReadLen
  BY <1>5 DEF ReadRequests
<1>7. /\ reading[t].offset \in Nat /\ reading[t].len \in Nat \ {0}
      /\ reading[t].len <= setup.maxReadLen
  BY <1>1, <1>6 DEF TextKnown
<1> QED
  BY <1>1, <1>2, <1>3, <1>4, <1>7

LEMMA AskSound ==
    ASSUME ReadersIInv, NEW t \in Threads, Readers!Ask(t)
    PROVE  ReadersIInv'
<1>1. PICK offset \in 0..Len(file), len \in 1..setup.maxReadLen :
          reading' = [reading EXCEPT ![t] = [slot |-> None, offset |-> offset, len |-> len]]
  BY DEF Readers!Ask
<1>2. /\ pc[t] = "idle" /\ pc' = [pc EXCEPT ![t] = "checkout"]
      /\ UNCHANGED <<setup, file, available, reader, failed>>
  BY DEF Readers!Ask, Readers!Goes
<1>3. [slot |-> None, offset |-> offset, len |-> len] \in ReadRequests
  BY DEF ReadRequests
<1>4. SlotsInvariant'
  BY <1>1, <1>2, <1>3, SlotsWhereAsked DEF ReadersIInv
<1>5. \A u \in Threads : /\ u # t => pc'[u] = pc[u] /\ reading'[u] = reading[u]
                         /\ u = t => pc'[u] = "checkout"
  BY <1>1, <1>2 DEF ReadersIInv, SlotsInvariant
<1>6. WakeupInvariant'
  <2>1. Asleep' \subseteq Asleep /\ Awake \subseteq Awake'
    BY <1>2, <1>5 DEF Asleep, Awake
  <2> QED
    BY <1>2, <2>1, WakeupWhereMoved DEF ReadersIInv
<1>7. ReadersInvariant' /\ UseInvariant'
  BY <1>2, <1>5, ReadersRest DEF ReadersIInv, AtWork
<1> QED
  BY <1>4, <1>6, <1>7 DEF ReadersIInv

\* Going to sleep and waking up.
LEMMA QueueSound ==
    ASSUME ReadersIInv, NEW t \in Threads, Readers!Sleep(t) \/ Readers!SpuriousWakeup(t)
    PROVE  ReadersIInv'
<1>1. PICK where \in Queueing : pc' = [pc EXCEPT ![t] = where]
  BY DEF Readers!Sleep, Readers!SpuriousWakeup, Readers!Goes, Queueing
<1>2. pc[t] \in Queueing /\ UNCHANGED <<setup, file, available, reading, reader, failed>>
  BY DEF Readers!Sleep, Readers!SpuriousWakeup, Queueing
<1>3. SlotsInvariant'
  BY <1>1, <1>2, SlotsWhereMoved DEF ReadersIInv
<1>4. WakeupInvariant'
  <2>1. CASE Readers!Sleep(t)
    BY <1>2, <2>1, WakeupWhereSlept DEF Readers!Sleep
  <2>2. CASE Readers!SpuriousWakeup(t)
    <3>1. pc[t] = "asleep" /\ pc' = [pc EXCEPT ![t] = "checkout"]
      BY <2>2 DEF Readers!SpuriousWakeup, Readers!Goes
    <3>2. Asleep' \subseteq Asleep /\ Awake \subseteq Awake'
      BY <3>1 DEF Asleep, Awake, ReadersIInv, SlotsInvariant
    <3> QED
      BY <1>2, <3>2, WakeupWhereMoved DEF ReadersIInv
  <2> QED
    BY <2>1, <2>2
<1>5. ReadersInvariant' /\ UseInvariant'
  <2>1. \A u \in Threads : pc'[u] \in AtWork => pc'[u] = pc[u] /\ reading'[u] = reading[u]
    BY <1>1, <1>2 DEF ReadersIInv, SlotsInvariant, AtWork, Queueing
  <2> QED
    BY <1>2, <2>1, ReadersRest DEF ReadersIInv
<1> QED
  BY <1>3, <1>4, <1>5 DEF ReadersIInv

\* A slot out of the pool is nobody's.
LEMMA TopIsFree ==
    ASSUME ReadersIInv, available # <<>>, NEW s, s = Head(available)
    PROVE  /\ TextKnown /\ s \in Slots /\ Sound(reader[s])
           /\ \A u \in Threads : pc[u] \in AtWork =>
                  reading[u].slot \in Slots /\ reading[u].slot # s
<1>1. TextKnown /\ setup.slots \subseteq Slots
  BY TextIsKnown DEF ReadersIInv
<1>2. s \in setup.slots /\ s = available[1] /\ Len(available) \in Nat \ {0}
  BY HeadOf DEF ReadersIInv, SlotsInvariant
<1>3. 1 \in 1..Len(available)
  BY <1>2
<1>4. \A u \in Threads : pc[u] \in AtWork => Held(u)
  BY DEF Held, AtWork
<1>5. \A u \in Threads : pc[u] \in AtWork => reading[u].slot \in Slots /\ reading[u].slot # s
  BY <1>1, <1>2, <1>3, <1>4 DEF ReadersIInv, SlotsInvariant
<1> QED
  BY <1>1, <1>2, <1>5 DEF ReadersIInv, ReadersInvariant

\* A slot is checked out: as it is if it can go on to the offset, or rewound.
LEMMA CheckoutSound ==
    ASSUME ReadersIInv, NEW t \in Threads, Readers!Checkout(t)
    PROVE  ReadersIInv'
<1>1. PICK s : s = Head(available)
  OBVIOUS
<1>2. PICK offset, len : offset = reading[t].offset /\ len = reading[t].len
  OBVIOUS
<1>3. PICK r : r = reader[s]
  OBVIOUS
<1>4. /\ pc[t] = "checkout" /\ available # <<>> /\ available' = Tail(available)
      /\ reading' = [reading EXCEPT ![t].slot = s]
      /\ UNCHANGED <<setup, file, failed>>
  BY <1>1 DEF Readers!Checkout
<1>5. \/ /\ Readers!Complete(r, offset, len)
         /\ reader' = [reader EXCEPT ![s].viewStart = offset - r.cacheStart, ![s].viewLen = len]
         /\ pc' = [pc EXCEPT ![t] = "leased"]
      \/ /\ Readers!CacheHit(r, offset) /\ ~Readers!Complete(r, offset, len)
         /\ reader' = [reader EXCEPT ![s] = Readers!KeepOverlap(r, offset)]
         /\ pc' = [pc EXCEPT ![t] = "fill"]
      \/ /\ offset = r.seen
         /\ reader' = [reader EXCEPT ![s] = Readers!CacheFrom(r, offset)]
         /\ pc' = [pc EXCEPT ![t] = "fill"]
      \/ /\ reader' = [reader EXCEPT ![s] = Readers!Rewound(r)]
         /\ pc' = [pc EXCEPT ![t] = "skip"]
  BY <1>1, <1>2, <1>3 DEF Readers!Checkout, Readers!Goes
<1>6. PICK where \in AtWork : pc' = [pc EXCEPT ![t] = where]
  BY <1>5 DEF AtWork
<1>7. SlotsInvariant' /\ WakeupInvariant'
  BY <1>1, <1>4, <1>6, SlotsWhereTaken, WakeupWhereTaken DEF ReadersIInv
<1>8. /\ TextKnown /\ s \in Slots /\ Sound(r)
      /\ \A u \in Threads : pc[u] \in AtWork => reading[u].slot \in Slots /\ reading[u].slot # s
  BY <1>1, <1>3, <1>4, TopIsFree
<1>9. reading[t] \in ReadRequests
  BY <1>4 DEF ReadersIInv, SlotsInvariant
<1>10. offset \in Nat /\ len \in Nat \ {0}
  <2>1. offset \in 0..Len(file) /\ len \in 1..setup.maxReadLen
    BY <1>2, <1>9 DEF ReadRequests
  <2> QED
    BY <1>8, <2>1 DEF TextKnown
<1>11. PICK q : q = reading'[t]
  OBVIOUS
<1>12. q.offset = offset /\ q.len = len /\ q.slot = s
  <2>1. q = [reading[t] EXCEPT !.slot = s]
    BY <1>4, <1>11 DEF ReadersIInv, SlotsInvariant
  <2> QED
    BY <1>2, <1>9, <2>1 DEF ReadRequests
<1>13. \A u \in Threads \ {t} : pc'[u] \in AtWork =>
           pc'[u] = pc[u] /\ reading'[u] = reading[u]
           /\ reading[u].slot \in Slots /\ reading[u].slot # s
  BY <1>4, <1>6, <1>8 DEF ReadersIInv, SlotsInvariant
<1>14. DOMAIN reader = Slots /\ pc'[t] = where
  BY <1>6 DEF ReadersIInv, ReadersInvariant, SlotsInvariant
<1>15. CASE /\ Readers!Complete(r, offset, len)
            /\ reader' = [reader EXCEPT ![s].viewStart = offset - r.cacheStart,
                                        ![s].viewLen = len]
            /\ pc' = [pc EXCEPT ![t] = "leased"]
  <2>1. PICK k : k = [r EXCEPT !.viewStart = offset - r.cacheStart, !.viewLen = len]
    OBVIOUS
  <2>2. Sound(k) /\ Shown(k, q)
    BY <1>8, <1>10, <1>12, <1>15, <2>1, CompleteShown
  <2>3. reader' = [reader EXCEPT ![s] = k]
    BY <1>3, <1>8, <1>14, <1>15, <2>1
  <2>4. pc'[t] = "leased"
    BY <1>15 DEF ReadersIInv, SlotsInvariant
  <2>5. ReadersInvariant' /\ UseInvariant'
    BY <1>4, <1>8, <1>11, <1>12, <1>13, <2>2, <2>3, <2>4, OneReaderMoves DEF ReadersIInv
  <2> QED
    BY <1>7, <2>5 DEF ReadersIInv
<1>16. ASSUME NEW k, Sound(k), Filling(k, q), reader' = [reader EXCEPT ![s] = k],
              pc' = [pc EXCEPT ![t] = "fill"]
       PROVE  ReadersIInv'
  <2>1. pc'[t] = "fill"
    BY <1>16 DEF ReadersIInv, SlotsInvariant
  <2>2. ReadersInvariant' /\ UseInvariant'
    BY <1>4, <1>8, <1>11, <1>12, <1>13, <1>16, <2>1, OneReaderMoves DEF ReadersIInv
  <2> QED
    BY <1>7, <2>2 DEF ReadersIInv
<1>17. CASE /\ Readers!CacheHit(r, offset) /\ ~Readers!Complete(r, offset, len)
            /\ reader' = [reader EXCEPT ![s] = Readers!KeepOverlap(r, offset)]
            /\ pc' = [pc EXCEPT ![t] = "fill"]
  BY <1>8, <1>10, <1>12, <1>16, <1>17, OverlapSound
<1>18. CASE /\ offset = r.seen
            /\ reader' = [reader EXCEPT ![s] = Readers!CacheFrom(r, offset)]
            /\ pc' = [pc EXCEPT ![t] = "fill"]
  BY <1>8, <1>10, <1>12, <1>16, <1>18, EmptyCacheSound
<1>19. CASE /\ reader' = [reader EXCEPT ![s] = Readers!Rewound(r)]
            /\ pc' = [pc EXCEPT ![t] = "skip"]
  <2>1. PICK k : k = Readers!Rewound(r)
    OBVIOUS
  <2>2. Sound(k) /\ Skipping(k, q)
    BY <1>8, <1>10, <1>12, <2>1, RewoundSound
  <2>3. pc'[t] = "skip"
    BY <1>19 DEF ReadersIInv, SlotsInvariant
  <2>4. ReadersInvariant' /\ UseInvariant'
    BY <1>4, <1>8, <1>11, <1>12, <1>13, <1>19, <2>1, <2>2, <2>3, OneReaderMoves DEF ReadersIInv
  <2> QED
    BY <1>7, <2>4 DEF ReadersIInv
<1> QED
  BY <1>5, <1>15, <1>17, <1>18, <1>19

\* A reader that cannot be rewound is closed and goes back.
LEMMA RewindFailsSound ==
    ASSUME ReadersIInv, NEW t \in Threads, Readers!RewindFails(t)
    PROVE  ReadersIInv'
<1>1. PICK s : s = Head(available)
  OBVIOUS
<1>2. /\ pc[t] = "checkout" /\ available # <<>> /\ failed' \in BOOLEAN
      /\ reader' = [reader EXCEPT ![s].open = FALSE]
      /\ reading' = [reading EXCEPT ![t] = None]
      /\ Readers!NotifyOne(t)
      /\ UNCHANGED <<setup, file, available>>
  BY <1>1 DEF Readers!RewindFails
<1>3. SlotsInvariant' /\ WakeupInvariant'
  BY <1>2, SlotsWhereLetGo, WakeupWhereLetGo DEF ReadersIInv
<1>4. /\ TextKnown /\ s \in Slots /\ Sound(reader[s])
      /\ \A u \in Threads : pc[u] \in AtWork => reading[u].slot \in Slots /\ reading[u].slot # s
  BY <1>1, <1>2, TopIsFree
<1>5. PICK k : k = [reader[s] EXCEPT !.open = FALSE]
  OBVIOUS
<1>6. Sound(k)
  BY <1>4, <1>5, ClosedSound
<1>7. reader' = [reader EXCEPT ![s] = k]
  BY <1>2, <1>4, <1>5 DEF ReadersIInv, ReadersInvariant
<1>8. pc'[t] = "idle" /\ \A u \in Threads \ {t} :
          pc'[u] = pc[u] \/ (pc[u] = "asleep" /\ pc'[u] = "checkout")
  BY <1>2, WakesUp DEF ReadersIInv
<1>9. \A u \in Threads \ {t} : pc'[u] \in AtWork =>
           pc'[u] = pc[u] /\ reading'[u] = reading[u]
           /\ reading[u].slot \in Slots /\ reading[u].slot # s
  BY <1>2, <1>4, <1>8 DEF ReadersIInv, SlotsInvariant, AtWork
<1>10. pc'[t] \notin AtWork
  BY <1>8 DEF AtWork
<1>11. ReadersInvariant' /\ UseInvariant'
  BY <1>2, <1>4, <1>6, <1>7, <1>9, <1>10, OneReaderMoves DEF ReadersIInv, AtWork
<1> QED
  BY <1>3, <1>11 DEF ReadersIInv

\* A thread works on with its slot.
LEMMA WorkedOn ==
    ASSUME ReadersIInv, NEW t \in Threads, pc[t] \in AtWork, NEW s, s = reading[t].slot,
           UNCHANGED <<setup, file, available, reading, failed>>,
           NEW where \in AtWork, pc' = [pc EXCEPT ![t] = where],
           NEW k, Sound(k), reader' = [reader EXCEPT ![s] = k],
           where = "skip" => Skipping(k, reading[t]),
           where = "fill" => Filling(k, reading[t]),
           where = "leased" => Shown(k, reading[t])
    PROVE  ReadersIInv'
<1>1. SlotsInvariant'
  BY SlotsWhereMoved DEF ReadersIInv
<1>2. WakeupInvariant'
  <2>1. Asleep' \subseteq Asleep /\ Awake \subseteq Awake'
    BY DEF Asleep, Awake, ReadersIInv, SlotsInvariant, AtWork
  <2> QED
    BY <2>1, WakeupWhereMoved DEF ReadersIInv
<1>3. /\ s \in Slots
      /\ \A u \in Threads \ {t} : pc[u] \in AtWork =>
             reading[u].slot \in Slots /\ reading[u].slot # s
  BY AtItsSlot
<1>4. pc'[t] = where /\ \A u \in Threads \ {t} : pc'[u] = pc[u]
  BY DEF ReadersIInv, SlotsInvariant
<1>5. ReadersInvariant' /\ UseInvariant'
  BY <1>3, <1>4, OneReaderMoves DEF ReadersIInv
<1> QED
  BY <1>1, <1>2, <1>5 DEF ReadersIInv

\* A thread gives its slot back.
LEMMA GivenBack ==
    ASSUME ReadersIInv, NEW t \in Threads, pc[t] \in AtWork, NEW s, s = reading[t].slot,
           UNCHANGED <<setup, file>>, failed' \in BOOLEAN, Readers!PutBack(t),
           NEW k, Sound(k), reader' = [reader EXCEPT ![s] = k]
    PROVE  ReadersIInv'
<1>1. /\ Held(t) /\ s \in Slots
      /\ \A u \in Threads \ {t} : pc[u] \in AtWork =>
             reading[u].slot \in Slots /\ reading[u].slot # s
  BY AtItsSlot
<1>2. SlotsInvariant' /\ WakeupInvariant'
  BY <1>1, SlotsWherePutBack, WakeupWherePutBack DEF ReadersIInv
<1>3. reading' = [reading EXCEPT ![t] = None] /\ Readers!NotifyOne(t) /\ pc[t] # "asleep"
  BY DEF Readers!PutBack, AtWork
<1>4. pc'[t] = "idle" /\ \A u \in Threads \ {t} :
          pc'[u] = pc[u] \/ (pc[u] = "asleep" /\ pc'[u] = "checkout")
  BY <1>3, WakesUp DEF ReadersIInv
<1>5. \A u \in Threads \ {t} : pc'[u] \in AtWork =>
           pc'[u] = pc[u] /\ reading'[u] = reading[u]
           /\ reading[u].slot \in Slots /\ reading[u].slot # s
  BY <1>1, <1>3, <1>4 DEF ReadersIInv, SlotsInvariant, AtWork
<1>6. /\ pc'[t] \in AtWork => reading'[t].slot = s
      /\ pc'[t] = "skip" => Skipping(k, reading'[t])
      /\ pc'[t] = "fill" => Filling(k, reading'[t])
      /\ pc'[t] = "leased" => Shown(k, reading'[t])
  BY <1>4 DEF AtWork
<1>7. ReadersInvariant' /\ UseInvariant'
  BY <1>1, <1>5, <1>6, OneReaderMoves DEF ReadersIInv
<1> QED
  BY <1>2, <1>7 DEF ReadersIInv

LEMMA DropSound ==
    ASSUME ReadersIInv, NEW t \in Threads, Readers!Drop(t)
    PROVE  ReadersIInv'
<1>1. PICK s : s = reading[t].slot
  OBVIOUS
<1>2. pc[t] \in AtWork /\ Readers!PutBack(t) /\ UNCHANGED <<setup, file, reader, failed>>
  BY DEF Readers!Drop, AtWork
<1>3. s \in Slots /\ Sound(reader[s])
  BY <1>1, <1>2, AtItsSlot
<1>4. reader' = [reader EXCEPT ![s] = reader[s]]
  BY <1>2, <1>3 DEF ReadersIInv, ReadersInvariant
<1>5. failed' \in BOOLEAN
  BY <1>2 DEF ReadersIInv, SlotsInvariant
<1> QED
  BY <1>1, <1>2, <1>3, <1>4, <1>5, GivenBack

LEMMA RefillFailsSound ==
    ASSUME ReadersIInv, NEW t \in Threads, Readers!RefillFails(t)
    PROVE  ReadersIInv'
<1>1. PICK s, r : s = reading[t].slot /\ r = reader[s]
  OBVIOUS
<1>2. /\ pc[t] \in AtWork /\ r.next = r.end /\ Readers!PutBack(t)
      /\ \E k \in Readers!AfterFailedRefill(r) : reader' = [reader EXCEPT ![s] = k]
      /\ failed' \in BOOLEAN /\ UNCHANGED <<setup, file>>
  BY <1>1 DEF Readers!RefillFails, Readers!Reading, AtWork
<1>3. PICK k \in Readers!AfterFailedRefill(r) : reader' = [reader EXCEPT ![s] = k]
  BY <1>2
<1>4. TextKnown /\ Sound(r)
  BY <1>1, <1>2, AtItsSlot
<1>5. Sound(k)
  BY <1>2, <1>4, FailedRefillSound
<1> QED
  BY <1>1, <1>2, <1>3, <1>5, GivenBack

LEMMA InvalidByteSound ==
    ASSUME ReadersIInv, NEW t \in Threads, Readers!InvalidByte(t)
    PROVE  ReadersIInv'
<1>1. PICK s, r : s = reading[t].slot /\ r = reader[s]
  OBVIOUS
<1>2. /\ pc[t] \in AtWork /\ r.next < r.end /\ Readers!PutBack(t)
      /\ reader' = [reader EXCEPT ![s].next = @ + 1, ![s].skipped = TRUE]
      /\ failed' \in BOOLEAN /\ UNCHANGED <<setup, file>>
  BY <1>1 DEF Readers!InvalidByte, Readers!Reading, AtWork
<1>3. TextKnown /\ Sound(r) /\ s \in Slots
  BY <1>1, <1>2, AtItsSlot
<1>4. PICK k : k = [r EXCEPT !.next = @ + 1, !.skipped = TRUE]
  OBVIOUS
<1>5. Sound(k)
  BY <1>2, <1>3, <1>4, InvalidSound
<1>6. reader' = [reader EXCEPT ![s] = k]
  BY <1>1, <1>2, <1>3, <1>4 DEF ReadersIInv, ReadersInvariant
<1> QED
  BY <1>1, <1>2, <1>5, <1>6, GivenBack

LEMMA RefillSound ==
    ASSUME ReadersIInv, NEW t \in Threads, Readers!Refill(t)
    PROVE  ReadersIInv'
<1>1. PICK s, r, q : s = reading[t].slot /\ r = reader[s] /\ q = reading[t]
  OBVIOUS
<1>2. /\ pc[t] \in {"skip", "fill"} /\ pc[t] \in AtWork /\ r.next = r.end
      /\ UNCHANGED <<setup, file, available, pc, reading, failed>>
  BY <1>1 DEF Readers!Refill, Readers!Reading, AtWork
<1>3. PICK position \in Readers!ReadStarts(r) :
          \E count \in Readers!ReadCounts(position) \ {0} :
              reader' = [reader EXCEPT ![s] =
                  [r EXCEPT !.open = TRUE, !.filePos = position + count,
                            !.next = position, !.end = position + count]]
  BY <1>1 DEF Readers!Refill
<1>10. PICK count \in Readers!ReadCounts(position) \ {0} :
           reader' = [reader EXCEPT ![s] =
               [r EXCEPT !.open = TRUE, !.filePos = position + count,
                         !.next = position, !.end = position + count]]
  BY <1>3
<1>11. PICK k : k = Refilled(r, position, count)
  OBVIOUS
<1>12. reader' = [reader EXCEPT ![s] = k]
  BY <1>10, <1>11, Zenon DEF Refilled
<1>13. position \in Readers!ReadStarts(r) /\ count \in Readers!ReadCounts(position) \ {0}
  BY <1>3, <1>10
<1>4. TextKnown /\ Sound(r)
  BY <1>1, <1>2, AtItsSlot
<1>5. /\ Sound(k)
      /\ Skipping(r, q) => Skipping(k, q)
      /\ Filling(r, q) => Filling(k, q)
  BY <1>2, <1>4, <1>11, <1>13, RefilledSound
<1>6. pc' = [pc EXCEPT ![t] = pc[t]]
  BY <1>2 DEF ReadersIInv, SlotsInvariant
<1>7. /\ pc[t] = "skip" => Skipping(r, q)
      /\ pc[t] = "fill" => Filling(r, q)
  BY <1>1 DEF ReadersIInv, UseInvariant
<1> QED
  BY <1>1, <1>2, <1>5, <1>6, <1>7, <1>12, WorkedOn

LEMMA NextByteSound ==
    ASSUME ReadersIInv, NEW t \in Threads, Readers!NextByte(t)
    PROVE  ReadersIInv'
<1>1. PICK s, r, q : s = reading[t].slot /\ r = reader[s] /\ q = reading[t]
  OBVIOUS
<1>2. PICK is, mode : is = Readers!Kind(r) /\ mode = pc[t]
  OBVIOUS
<1>3. PICK k : k = Taken(r, is, mode)
  OBVIOUS
<1>4. /\ pc[t] \in {"skip", "fill"} /\ pc[t] \in AtWork /\ r.next < r.end /\ is # "invalid"
      /\ UNCHANGED <<setup, file, available, pc, reading, failed>>
      /\ reader' = [reader EXCEPT ![s] = k]
      /\ ~Readers!Satisfied(t)
  BY <1>1, <1>2, <1>3 DEF Readers!NextByte, Readers!Reading, AtWork, Taken
<1>5. /\ TextKnown /\ Sound(r) /\ q.offset \in Nat /\ q.len \in Nat \ {0}
      /\ q.len <= setup.maxReadLen
  BY <1>1, <1>4, AtItsSlot
<1>6. /\ mode = "skip" => Skipping(r, q)
      /\ mode = "fill" => Filling(r, q)
  BY <1>1, <1>2 DEF ReadersIInv, UseInvariant
<1>7. /\ mode = "fill" => Len(r.digits) < q.len
      /\ mode # "fill" => r.seen < q.offset
  <2>1. r.seen \in Nat /\ Len(r.digits) \in Nat
    BY <1>5 DEF Sound, Placed, ReaderType
  <2>2. /\ mode = "fill" => ~(Len(r.digits) >= q.len)
        /\ mode = "skip" => ~(r.seen >= q.offset)
    BY <1>1, <1>2, <1>4 DEF Readers!Satisfied
  <2> QED
    BY <1>2, <1>4, <1>5, <2>1, <2>2
<1>10. /\ mode = "fill" => Filling(r, q) /\ Len(r.digits) < q.len
       /\ mode # "fill" => Skipping(r, q) /\ r.seen < q.offset
  BY <1>2, <1>4, <1>6, <1>7
<1>8. Sound(k) /\ (IF mode = "fill" THEN Filling(k, q) ELSE Skipping(k, q))
  BY <1>2, <1>3, <1>4, <1>5, <1>10, TakenSound
<1>9. pc' = [pc EXCEPT ![t] = pc[t]]
  BY <1>4 DEF ReadersIInv, SlotsInvariant
<1> QED
  BY <1>1, <1>2, <1>4, <1>8, <1>9, WorkedOn

LEMMA SkipDoneSound ==
    ASSUME ReadersIInv, NEW t \in Threads, Readers!SkipDone(t)
    PROVE  ReadersIInv'
<1>1. PICK s, r, q : s = reading[t].slot /\ r = reader[s] /\ q = reading[t]
  OBVIOUS
<1>2. pc[t] = "skip" /\ pc[t] \in AtWork /\ "fill" \in AtWork
  BY DEF Readers!SkipDone, AtWork
<1>3. PICK enough \in BOOLEAN : enough <=> r.seen >= q.offset
  <2>1. CASE r.seen >= q.offset
    <3>1. TRUE \in BOOLEAN /\ (TRUE <=> r.seen >= q.offset)
      BY <2>1
    <3> QED
      BY <3>1, Zenon
  <2>2. CASE ~(r.seen >= q.offset)
    <3>1. FALSE \in BOOLEAN /\ (FALSE <=> r.seen >= q.offset)
      BY <2>2
    <3> QED
      BY <3>1, Zenon
  <2> QED
    BY <2>1, <2>2, Zenon
<1>4. Readers!Satisfied(t) <=> enough
  BY <1>1, <1>2, <1>3 DEF Readers!Satisfied
<1>5. PICK k, j : /\ k = (IF enough THEN r ELSE Readers!Ended(r))
                  /\ j = Readers!CacheFrom(k, q.offset)
  OBVIOUS
<1>6. /\ enough \/ Readers!AtEnd(r)
      /\ reader' = [reader EXCEPT ![s] = j]
      /\ pc' = [pc EXCEPT ![t] = "fill"]
      /\ UNCHANGED <<setup, file, available, reading, failed>>
  BY <1>1, <1>4, <1>5 DEF Readers!SkipDone, Readers!Stopped, Readers!Goes
<1>7. TextKnown /\ Sound(r) /\ q.offset \in Nat /\ q.len \in Nat
  BY <1>1, <1>2, AtItsSlot
<1>8. Skipping(r, q)
  BY <1>1, <1>2 DEF ReadersIInv, UseInvariant
<1>9. Sound(j) /\ Filling(j, q)
  BY <1>3, <1>5, <1>6, <1>7, <1>8, SkippedSound
<1> QED
  BY <1>1, <1>2, <1>6, <1>9, WorkedOn

LEMMA LeaseSound ==
    ASSUME ReadersIInv, NEW t \in Threads, Readers!Lease(t)
    PROVE  ReadersIInv'
<1>1. PICK s, r, q : s = reading[t].slot /\ r = reader[s] /\ q = reading[t]
  OBVIOUS
<1>2. pc[t] = "fill" /\ pc[t] \in AtWork /\ "leased" \in AtWork
  BY DEF Readers!Lease, AtWork
<1>3. PICK enough \in BOOLEAN : enough <=> Len(r.digits) >= q.len
  <2>1. CASE Len(r.digits) >= q.len
    <3>1. TRUE \in BOOLEAN /\ (TRUE <=> Len(r.digits) >= q.len)
      BY <2>1
    <3> QED
      BY <3>1, Zenon
  <2>2. CASE ~(Len(r.digits) >= q.len)
    <3>1. FALSE \in BOOLEAN /\ (FALSE <=> Len(r.digits) >= q.len)
      BY <2>2
    <3> QED
      BY <3>1, Zenon
  <2> QED
    BY <2>1, <2>2, Zenon
<1>4. Readers!Satisfied(t) <=> enough
  BY <1>1, <1>2, <1>3 DEF Readers!Satisfied
<1>5. PICK k, j : /\ k = (IF enough THEN r ELSE Readers!Ended(r))
                  /\ j = [k EXCEPT !.viewStart = 0, !.viewLen = Len(r.digits)]
  OBVIOUS
<1>6. /\ enough \/ Readers!AtEnd(r)
      /\ reader' = [reader EXCEPT ![s] = j]
      /\ pc' = [pc EXCEPT ![t] = "leased"]
      /\ UNCHANGED <<setup, file, available, reading, failed>>
  BY <1>1, <1>4, <1>5 DEF Readers!Lease, Readers!Stopped, Readers!Goes
<1>7. TextKnown /\ Sound(r) /\ q.offset \in Nat /\ q.len \in Nat \ {0}
  BY <1>1, <1>2, AtItsSlot
<1>8. Filling(r, q)
  BY <1>1, <1>2 DEF ReadersIInv, UseInvariant
<1>9. Sound(j) /\ Shown(j, q)
  BY <1>3, <1>5, <1>6, <1>7, <1>8, FilledShown
<1> QED
  BY <1>1, <1>2, <1>6, <1>9, WorkedOn

LEMMA ReadersStep ==
    ASSUME ReadersIInv, Readers!Next
    PROVE  ReadersIInv'
<1>1. PICK t \in Threads :
          \/ Readers!Ask(t) \/ Readers!Sleep(t) \/ Readers!SpuriousWakeup(t)
          \/ Readers!Checkout(t) \/ Readers!RewindFails(t)
          \/ Readers!Read(t) \/ Readers!RefillFails(t) \/ Readers!Drop(t)
  BY DEF Readers!Next
<1>2. CASE Readers!Read(t)
  BY <1>2, RefillSound, NextByteSound, InvalidByteSound, SkipDoneSound, LeaseSound
     DEF Readers!Read
<1> QED
  BY <1>1, <1>2, AskSound, QueueSound, CheckoutSound, RewindFailsSound, RefillFailsSound,
     DropSound

-----------------------------------------------------------------------------
(* A slot has skipped a byte only where one does not fit, and the read     *)
(* that did it has failed.                                                 *)

Damaged == ~AllFit(file, DecimalPrefix, Len(file))
SkipsInvariant == \A s \in Slots : reader[s].skipped => failed /\ Damaged

\* The slot in use is the only one that may skip.
LEMMA SlotSkips ==
    ASSUME ReadersIInv, SkipsInvariant, file' = file, failed => failed', NEW s \in Slots,
           NEW k, reader' = [reader EXCEPT ![s] = k],
           k.skipped => reader[s].skipped \/ (failed' /\ Damaged)
    PROVE  SkipsInvariant'
<1>1. Damaged' <=> Damaged
  BY DEF Damaged
<1>2. ASSUME NEW u \in Slots, reader'[u].skipped PROVE failed' /\ Damaged
  <2>1. CASE u = s
    <3>1. reader'[u] = k
      BY <2>1 DEF ReadersIInv, ReadersInvariant
    <3> QED
      BY <1>2, <2>1, <3>1 DEF SkipsInvariant
  <2>2. CASE u # s
    <3>1. reader'[u] = reader[u]
      BY <2>2 DEF ReadersIInv, ReadersInvariant
    <3> QED
      BY <1>2, <3>1 DEF SkipsInvariant
  <2> QED
    BY <2>1, <2>2
<1> QED
  BY <1>1, <1>2 DEF SkipsInvariant

\* No slot is used.
LEMMA NoSlotSkips ==
    ASSUME SkipsInvariant, UNCHANGED <<file, reader, failed>>
    PROVE  SkipsInvariant'
<1>1. Damaged' <=> Damaged
  BY DEF Damaged
<1> QED
  BY <1>1 DEF SkipsInvariant

\* What a reader does with the bytes that fit leaves what it has skipped.
LEMMA SkipsStay ==
    ASSUME NEW r \in ReaderType
    PROVE  /\ [r EXCEPT !.open = FALSE].skipped = r.skipped
           /\ \A k \in Readers!AfterFailedRefill(r) : k.skipped = r.skipped
           /\ \A position, count : Refilled(r, position, count).skipped = r.skipped
           /\ \A is, mode : Taken(r, is, mode).skipped = r.skipped
           /\ \A start, len :
                  [r EXCEPT !.viewStart = start, !.viewLen = len].skipped = r.skipped
           /\ \A offset : Readers!KeepOverlap(r, offset).skipped = r.skipped
           /\ \A offset : Readers!CacheFrom(r, offset).skipped = r.skipped
           /\ Readers!Ended(r).skipped = r.skipped /\ Readers!Ended(r) \in ReaderType
           /\ ~Readers!Rewound(r).skipped
<1>1. /\ [r EXCEPT !.open = FALSE].skipped = r.skipped
      /\ \A start, len : [r EXCEPT !.viewStart = start, !.viewLen = len].skipped = r.skipped
  BY DEF ReaderType
<1>2. \A k \in Readers!AfterFailedRefill(r) : k.skipped = r.skipped
  BY DEF Readers!AfterFailedRefill, ReaderType
<1>3. \A position, count : Refilled(r, position, count).skipped = r.skipped
  BY DEF Refilled, ReaderType
<1>4. \A is, mode : Taken(r, is, mode).skipped = r.skipped
  BY DEF Taken, ReaderType
<1>5. /\ \A offset : Readers!KeepOverlap(r, offset).skipped = r.skipped
      /\ \A offset : Readers!CacheFrom(r, offset).skipped = r.skipped
      /\ ~Readers!Rewound(r).skipped
  BY DEF Readers!KeepOverlap, Readers!CacheFrom, Readers!Rewound, ReaderType
<1>6. Readers!Ended(r).skipped = r.skipped /\ Readers!Ended(r) \in ReaderType
  BY DEF Readers!Ended, ReaderType
<1> QED
  BY <1>1, <1>2, <1>3, <1>4, <1>5, <1>6

LEMMA CheckoutSkips ==
    ASSUME ReadersIInv, SkipsInvariant, NEW t \in Threads,
           Readers!Checkout(t) \/ Readers!RewindFails(t)
    PROVE  SkipsInvariant'
<1>1. PICK s, r : s = Head(available) /\ r = reader[s]
  OBVIOUS
<1>2. pc[t] = "checkout" /\ available # <<>>
  BY DEF Readers!Checkout, Readers!RewindFails
<1>3. s \in Slots /\ r \in ReaderType
  BY <1>1, <1>2, TopIsFree DEF Sound, Placed
<1>4. CASE Readers!Checkout(t)
  <2>1. UNCHANGED <<file, failed>>
    BY <1>4 DEF Readers!Checkout
  <2>2. PICK start, len, offset : /\ start = reading[t].offset - r.cacheStart
                                  /\ len = reading[t].len /\ offset = reading[t].offset
    OBVIOUS
  <2>3. \/ reader' = [reader EXCEPT ![s].viewStart = start, ![s].viewLen = len]
        \/ reader' = [reader EXCEPT ![s] = Readers!KeepOverlap(r, offset)]
        \/ reader' = [reader EXCEPT ![s] = Readers!CacheFrom(r, offset)]
        \/ reader' = [reader EXCEPT ![s] = Readers!Rewound(r)]
    BY <1>1, <1>4, <2>2 DEF Readers!Checkout
  <2>4. PICK k : reader' = [reader EXCEPT ![s] = k] /\ (k.skipped => r.skipped)
    <3>1. CASE reader' = [reader EXCEPT ![s].viewStart = start, ![s].viewLen = len]
      <4>1. PICK k : k = [r EXCEPT !.viewStart = start, !.viewLen = len]
        OBVIOUS
      <4>2. reader' = [reader EXCEPT ![s] = k]
        BY <1>1, <1>3, <3>1, <4>1 DEF ReadersIInv, ReadersInvariant
      <4>3. k.skipped = r.skipped
        BY <1>3, <4>1, SkipsStay
      <4> QED
        BY <4>2, <4>3
    <3>2. CASE reader' = [reader EXCEPT ![s] = Readers!KeepOverlap(r, offset)]
      <4>1. PICK k : k = Readers!KeepOverlap(r, offset)
        OBVIOUS
      <4>2. reader' = [reader EXCEPT ![s] = k] /\ k.skipped = r.skipped
        BY <1>3, <3>2, <4>1, SkipsStay
      <4> QED
        BY <4>2
    <3>3. CASE reader' = [reader EXCEPT ![s] = Readers!CacheFrom(r, offset)]
      <4>1. PICK k : k = Readers!CacheFrom(r, offset)
        OBVIOUS
      <4>2. reader' = [reader EXCEPT ![s] = k] /\ k.skipped = r.skipped
        BY <1>3, <3>3, <4>1, SkipsStay
      <4> QED
        BY <4>2
    <3>4. CASE reader' = [reader EXCEPT ![s] = Readers!Rewound(r)]
      BY <1>3, <3>4, SkipsStay
    <3> QED
      BY <2>3, <3>1, <3>2, <3>3, <3>4
  <2> QED
    BY <1>1, <1>3, <2>1, <2>4, SlotSkips
<1>5. CASE Readers!RewindFails(t)
  <2>1. UNCHANGED file /\ failed'
    BY <1>5 DEF Readers!RewindFails
  <2>2. PICK k : k = [r EXCEPT !.open = FALSE]
    OBVIOUS
  <2>3. reader' = [reader EXCEPT ![s] = k]
    BY <1>1, <1>3, <1>5, <2>2 DEF Readers!RewindFails, ReadersIInv, ReadersInvariant
  <2> QED
    BY <1>1, <1>3, <2>1, <2>2, <2>3, SkipsStay, SlotSkips
<1> QED
  BY <1>4, <1>5

LEMMA ReadSkips ==
    ASSUME ReadersIInv, SkipsInvariant, NEW t \in Threads,
           Readers!Read(t) \/ Readers!RefillFails(t)
    PROVE  SkipsInvariant'
<1>1. PICK s, r : s = reading[t].slot /\ r = reader[s]
  OBVIOUS
<1>2. pc[t] \in AtWork
  BY DEF Readers!Read, Readers!Refill, Readers!NextByte, Readers!InvalidByte, Readers!SkipDone,
         Readers!Lease, Readers!RefillFails, Readers!Reading, AtWork
<1>3. TextKnown /\ s \in Slots /\ Sound(r) /\ r \in ReaderType
  BY <1>1, <1>2, AtItsSlot DEF Sound, Placed
<1>4. CASE Readers!RefillFails(t)
  <2>1. UNCHANGED file /\ failed'
        /\ \E k \in Readers!AfterFailedRefill(r) : reader' = [reader EXCEPT ![s] = k]
    BY <1>1, <1>4 DEF Readers!RefillFails
  <2>2. PICK k \in Readers!AfterFailedRefill(r) : reader' = [reader EXCEPT ![s] = k]
    BY <2>1
  <2>3. k.skipped = r.skipped
    BY <1>3, <2>2, SkipsStay
  <2> QED
    BY <1>1, <1>3, <2>1, <2>2, <2>3, SlotSkips
<1>5. CASE Readers!Refill(t)
  <2>1. UNCHANGED <<file, failed>>
        /\ \E position, count : reader' = [reader EXCEPT ![s] = Refilled(r, position, count)]
    BY <1>1, <1>5 DEF Readers!Refill, Refilled
  <2>2. PICK position, count : reader' = [reader EXCEPT ![s] = Refilled(r, position, count)]
    BY <2>1
  <2>3. PICK k : k = Refilled(r, position, count)
    OBVIOUS
  <2>4. k.skipped = r.skipped /\ reader' = [reader EXCEPT ![s] = k]
    BY <1>3, <2>2, <2>3, SkipsStay
  <2> QED
    BY <1>1, <1>3, <2>1, <2>4, SlotSkips
<1>6. CASE Readers!NextByte(t)
  <2>1. PICK is, mode : is = Readers!Kind(r) /\ mode = pc[t]
    OBVIOUS
  <2>2. UNCHANGED <<file, failed>>
        /\ reader' = [reader EXCEPT ![s] = Taken(r, is, mode)]
    BY <1>1, <1>6, <2>1 DEF Readers!NextByte, Taken
  <2>3. PICK k : k = Taken(r, is, mode)
    OBVIOUS
  <2>4. k.skipped = r.skipped /\ reader' = [reader EXCEPT ![s] = k]
    BY <1>3, <2>2, <2>3, SkipsStay
  <2> QED
    BY <1>1, <1>3, <2>2, <2>4, SlotSkips
<1>7. CASE Readers!SkipDone(t) \/ Readers!Lease(t)
  <2>1. PICK k \in ReaderType : k = Readers!Stopped(t) /\ k.skipped = r.skipped
    BY <1>1, <1>3, SkipsStay DEF Readers!Stopped
  <2>2. UNCHANGED <<file, failed>>
    BY <1>7 DEF Readers!SkipDone, Readers!Lease
  <2>3. \/ \E offset : reader' = [reader EXCEPT ![s] = Readers!CacheFrom(k, offset)]
        \/ \E start, len :
               reader' = [reader EXCEPT ![s] = [k EXCEPT !.viewStart = start, !.viewLen = len]]
    BY <1>1, <1>7, <2>1 DEF Readers!SkipDone, Readers!Lease
  <2>4. PICK j : reader' = [reader EXCEPT ![s] = j] /\ j.skipped = k.skipped
    <3>1. ASSUME NEW offset, reader' = [reader EXCEPT ![s] = Readers!CacheFrom(k, offset)]
          PROVE  \E j : reader' = [reader EXCEPT ![s] = j] /\ j.skipped = k.skipped
      <4>1. Readers!CacheFrom(k, offset).skipped = k.skipped
        BY <2>1, SkipsStay
      <4> QED
        BY <3>1, <4>1
    <3>2. ASSUME NEW start, NEW len,
                 reader' = [reader EXCEPT ![s] = [k EXCEPT !.viewStart = start, !.viewLen = len]]
          PROVE  \E j : reader' = [reader EXCEPT ![s] = j] /\ j.skipped = k.skipped
      <4>1. [k EXCEPT !.viewStart = start, !.viewLen = len].skipped = k.skipped
        BY <2>1, SkipsStay
      <4> QED
        BY <3>2, <4>1
    <3> QED
      BY <2>3, <3>1, <3>2
  <2> QED
    BY <1>1, <1>3, <2>1, <2>2, <2>4, SlotSkips
<1>8. CASE Readers!InvalidByte(t)
  <2>1. UNCHANGED file /\ failed' /\ r.next < r.end /\ Readers!Kind(r) = "invalid"
    BY <1>1, <1>8 DEF Readers!InvalidByte
  <2>2. PICK k : k = [r EXCEPT !.next = @ + 1, !.skipped = TRUE]
    OBVIOUS
  <2>3. reader' = [reader EXCEPT ![s] = k]
    BY <1>1, <1>3, <1>8, <2>2 DEF Readers!InvalidByte, ReadersIInv, ReadersInvariant
  <2>4. r.skipped \/ Damaged
    <3> SUFFICES ASSUME ~r.skipped PROVE Damaged
      OBVIOUS
    <3>1. StandsAt(file, DecimalPrefix, r.next, r.seen, r.prefix)
      BY <1>3 DEF Sound, Exact, Parsed
    <3>2. r.next \in Nat /\ r.next \in 0..(Len(file) - 1) /\ r.next \in 0..Len(file)
          /\ r.next < Len(file) /\ r.seen \in Nat /\ r.prefix \in BOOLEAN
      BY <1>3, <2>1 DEF Sound, Placed, ReaderType, TextKnown
    <3>3. ByteIs(file[r.next + 1], r.seen, r.prefix, DecimalPrefix) = "invalid"
      BY <2>1, ReadersText DEF Readers!Kind
    <3>4. ~Fits(file, DecimalPrefix, r.next)
      BY <1>3, <3>1, <3>2, <3>3, ParserGoesOn DEF TextKnown
    <3> QED
      BY <3>2, <3>4 DEF Damaged, AllFit
  <2> QED
    BY <1>1, <1>3, <2>1, <2>3, <2>4, SlotSkips
<1> QED
  BY <1>4, <1>5, <1>6, <1>7, <1>8 DEF Readers!Read

LEMMA SkipsKept ==
    ASSUME ReadersIInv, SkipsInvariant, Readers!Next
    PROVE  SkipsInvariant'
<1>1. PICK t \in Threads :
          \/ Readers!Ask(t) \/ Readers!Sleep(t) \/ Readers!SpuriousWakeup(t)
          \/ Readers!Checkout(t) \/ Readers!RewindFails(t)
          \/ Readers!Read(t) \/ Readers!RefillFails(t) \/ Readers!Drop(t)
  BY DEF Readers!Next
<1>2. CASE Readers!Ask(t) \/ Readers!Sleep(t) \/ Readers!SpuriousWakeup(t) \/ Readers!Drop(t)
  <2>1. UNCHANGED <<file, reader, failed>>
    BY <1>2 DEF Readers!Ask, Readers!Sleep, Readers!SpuriousWakeup, Readers!Drop
  <2> QED
    BY <2>1, NoSlotSkips
<1> QED
  BY <1>1, <1>2, CheckoutSkips, ReadSkips

LEMMA SkipsStart ==
    ASSUME Readers!Init
    PROVE  SkipsInvariant
<1>1. reader = [s \in Slots |-> Readers!Fresh] /\ ~Readers!Fresh.skipped
  BY DEF Readers!Init, Readers!Fresh
<1> QED
  BY <1>1 DEF SkipsInvariant

\* The readers begin in their invariant, every step keeps it, and it says what
\* the pool promises.
LEMMA ReadersStart ==
    ASSUME Readers!Init
    PROVE  ReadersIInv
<1>1. /\ setup \in ReaderSetups /\ file \in setup.files
      /\ available \in Readers!SetToSeqs(setup.slots)
      /\ pc = [t \in Threads |-> "idle"]
      /\ reading = [t \in Threads |-> None]
      /\ reader = [s \in Slots |-> Readers!Fresh]
      /\ failed = FALSE
  BY DEF Readers!Init
<1>2. setup \in Readers!SetupType /\ IsFiniteSet(Slots)
  BY <1>1, PoolsAssumption, ReadersText DEF Readers!ReaderConstants
<1>3. setup.slots \in SUBSET Slots
  BY <1>2 DEF Readers!SetupType
<1>4. PICK size : size = Cardinality(setup.slots)
  OBVIOUS
<1>5. IsFiniteSet(setup.slots) /\ size \in Nat
  BY <1>2, <1>3, <1>4, FS_Subset, FS_CardinalityType
<1>6. /\ available \in [1..size -> setup.slots]
      /\ \A i, j \in 1..size : i # j => available[i] # available[j]
  BY <1>1, <1>4, ReadersText DEF Readers!SetToSeqs
<1>7. available \in Seq(setup.slots) /\ Len(available) = size
  BY <1>5, <1>6
<1>8. \A s \in setup.slots : \E i \in 1..size : available[i] = s
  <2>1. available \in Injection(1..size, setup.slots)
    BY <1>6 DEF Injection, IsInjective
  <2>2. Cardinality(1..size) = size
    BY <1>5, FS_Interval
  <2>3. available \in Surjection(1..size, setup.slots)
    BY <1>4, <1>5, <2>1, <2>2, FS_Injection
  <2> QED
    BY <2>3 DEF Surjection
<1>9. \A t \in Threads : ~Held(t) /\ pc[t] = "idle" /\ reading[t] = None
  BY <1>1 DEF Held
<1>10. SlotsInvariant
  BY <1>1, <1>6, <1>7, <1>8, <1>9 DEF SlotsInvariant
<1>11. WakeupInvariant
  BY <1>9 DEF WakeupInvariant, Asleep
<1>12. TextKnown
  BY <1>10, TextIsKnown
<1>13. Sound(Readers!Fresh)
  BY <1>12, FreshSound
<1>14. ReadersInvariant
  BY <1>1, <1>13 DEF ReadersInvariant, Sound, Placed
<1>15. UseInvariant
  BY <1>9 DEF UseInvariant
<1> QED
  BY <1>10, <1>11, <1>14, <1>15 DEF ReadersIInv

-----------------------------------------------------------------------------
(* What the invariant says.                                                *)

LEMMA PartOf ==
    ASSUME NEW d \in Seq(Nat), NEW from \in Nat, NEW n \in Nat, from + n <= Len(d)
    PROVE  LET part == SubSeq(d, from + 1, from + n)
           IN  /\ Len(part) = n
               /\ \A i \in 1..n : part[i] = d[from + i]
<1>1. Len(d) \in Nat /\ from + 1 \in Int /\ from + n \in Int
  BY LenProperties
<1>2. \A i \in (from + 1)..(from + n) : d[i] \in Nat
  <2>1. \A i \in (from + 1)..(from + n) : i \in 1..Len(d)
    BY <1>1
  <2> QED
    BY <2>1, ElementOfSeq
<1> DEFINE part == SubSeq(d, from + 1, from + n)
<1>3. /\ Len(part) = IF from + 1 <= from + n THEN from + n - (from + 1) + 1 ELSE 0
      /\ \A i \in 1..(from + n - (from + 1) + 1) : part[i] = d[from + 1 + i - 1]
  BY <1>1, <1>2, SubSeqProperties
<1> HIDE DEF part
<1>4. from + n - (from + 1) + 1 = n /\ (~(from + 1 <= from + n) => n = 0)
  OBVIOUS
<1>5. \A i \in 1..n : from + 1 + i - 1 = from + i
  OBVIOUS
<1>6. Len(part) = n /\ \A i \in 1..n : part[i] = d[from + i]
  BY <1>3, <1>4, <1>5
<1> QED
  BY <1>6 DEF part

LEMMA ReadersTyped ==
    ASSUME ReadersIInv
    PROVE  Readers!TypeOK
<1>1. ASSUME NEW t \in Threads
      PROVE  \/ reading[t] = None
             \/ reading[t] \in [slot : Slots \cup {None}, offset : Readers!Offsets,
                                len : 1..setup.maxReadLen]
  BY DEF ReadersIInv, SlotsInvariant, ReadRequests, Readers!Offsets
<1>2. ASSUME NEW s \in Slots
      PROVE  LET r == reader[s]
             IN  /\ {r.filePos, r.next, r.end, r.byteOffset, r.seen} \subseteq Readers!Offsets
                 /\ Len(r.digits) <= setup.maxReadLen
  <2>1. PICK r : r = reader[s]
    OBVIOUS
  <2>2. Placed(r)
    BY <2>1 DEF ReadersIInv, ReadersInvariant, Sound
  <2>3. Len(file) \in Nat
    BY TextIsKnown DEF ReadersIInv, TextKnown
  <2>4. /\ r.filePos \in Nat /\ r.next \in Nat /\ r.end \in Nat /\ r.byteOffset \in Nat
        /\ r.seen \in Nat /\ r.filePos <= Len(file) /\ r.end <= Len(file) /\ r.next <= r.end
        /\ r.byteOffset <= r.next /\ r.seen <= r.byteOffset
    BY <2>2 DEF Placed, ReaderType
  <2>5. /\ r.filePos \in 0..Len(file) /\ r.next \in 0..Len(file) /\ r.end \in 0..Len(file)
        /\ r.byteOffset \in 0..Len(file) /\ r.seen \in 0..Len(file)
    BY <2>3, <2>4
  <2>6. Len(r.digits) <= setup.maxReadLen
    BY <2>2 DEF Placed
  <2> QED
    BY <2>1, <2>5, <2>6 DEF Readers!Offsets
<1> QED
  BY <1>1, <1>2 DEF Readers!TypeOK, ReadersIInv, SlotsInvariant

\* A slot is in the pool or in the hands of one thread.
LEMMA SlotsConserved ==
    ASSUME ReadersIInv
    PROVE  Readers!SlotsAreConserved
<1> SUFFICES ASSUME NEW s \in setup.slots
             PROVE  Readers!Cardinality({t \in Threads : reading[t] # None /\ reading[t].slot = s})
                      + Readers!Cardinality({i \in DOMAIN available : available[i] = s}) = 1
  BY DEF Readers!SlotsAreConserved
<1>1. PICK holders : holders = {t \in Threads : reading[t] # None /\ reading[t].slot = s}
  OBVIOUS
<1>2. PICK free : free = {i \in DOMAIN available : available[i] = s}
  OBVIOUS
<1>3. s # None
  BY TextIsKnown, NoneIsNone DEF ReadersIInv
<1>4. \A t \in Threads : t \in holders <=> Held(t) /\ reading[t].slot = s
  BY <1>1, <1>3, NoneIsNone DEF ReadersIInv, SlotsInvariant, Held
<1>5. holders \subseteq Threads
  BY <1>1
<1>6. DOMAIN available = 1..Len(available)
  BY LenProperties DEF ReadersIInv, SlotsInvariant
<1>7. Cardinality(holders) + Cardinality(free) = 1
  <2>1. CASE \E i \in 1..Len(available) : available[i] = s
    <3>1. PICK i \in 1..Len(available) : available[i] = s
      BY <2>1
    <3>2. free = {i}
      BY <1>2, <1>6, <3>1 DEF ReadersIInv, SlotsInvariant
    <3>3. holders = {}
      BY <1>4, <1>5, <3>1 DEF ReadersIInv, SlotsInvariant
    <3>4. Cardinality(free) = 1 /\ Cardinality(holders) = 0
      BY <3>2, <3>3, FS_Singleton, FS_EmptySet
    <3> QED
      BY <3>4
  <2>2. CASE ~\E i \in 1..Len(available) : available[i] = s
    <3>1. PICK t \in Threads : Held(t) /\ reading[t].slot = s
      BY <2>2 DEF ReadersIInv, SlotsInvariant
    <3>2. holders = {t}
      BY <1>4, <1>5, <3>1 DEF ReadersIInv, SlotsInvariant
    <3>3. free = {}
      BY <1>2, <1>6, <2>2
    <3>4. Cardinality(holders) = 1 /\ Cardinality(free) = 0
      BY <3>2, <3>3, FS_Singleton, FS_EmptySet
    <3> QED
      BY <3>4
  <2> QED
    BY <2>1, <2>2
<1> QED
  BY <1>1, <1>2, <1>7, ReadersText

LEMMA NoWakeupLost ==
    ASSUME ReadersIInv
    PROVE  Readers!NoWakeupIsLost
<1>1. PICK sleeping, awake : sleeping = Cardinality(Asleep) /\ awake = Cardinality(Awake)
  OBVIOUS
<1>2. awake \in Nat
  BY <1>1, AwakeFinite
<1>3. sleeping \in Nat /\ (Asleep = {} => sleeping = 0)
  <2>1. Asleep \in SUBSET Threads
    BY DEF Asleep
  <2> QED
    BY <1>1, <2>1, ThreadsFinite, FS_Subset, FS_CardinalityType, FS_EmptySet
<1>4. Len(available) \in Nat
  BY LenProperties DEF ReadersIInv, SlotsInvariant
<1>5. Asleep # {} => Len(available) <= awake
  BY <1>1 DEF ReadersIInv, WakeupInvariant
<1>6. Readers!Smaller(Len(available), sleeping) <= awake
  BY <1>2, <1>3, <1>4, <1>5 DEF Readers!Smaller
<1> QED
  BY <1>1, <1>6, ReadersText DEF Readers!NoWakeupIsLost, Asleep, Awake

\* What a lease shows is the slice of the digits that was asked for.
LEMMA LeasesExact ==
    ASSUME ReadersIInv, SkipsInvariant
    PROVE  Readers!LeasesAreExact
<1> SUFFICES ASSUME NEW t \in Threads, pc[t] = "leased", ~reader[reading[t].slot].skipped
             PROVE  Readers!IsSlice(Readers!View(reader[reading[t].slot]),
                                    Readers!DigitBytes(file, DecimalPrefix),
                                    reading[t].offset, reading[t].len)
  <2>1. ASSUME NEW t \in Threads, pc[t] = "leased", reader[reading[t].slot].skipped
        PROVE  failed /\ ~Readers!AllFit(file, DecimalPrefix, Len(file))
    <3>1. reading[t].slot \in Slots
      BY <2>1, AtItsSlot DEF AtWork
    <3> QED
      BY <2>1, <3>1, ReadersText DEF SkipsInvariant, Damaged
  <2> QED
    BY <2>1 DEF Readers!LeasesAreExact
<1>1. PICK s, r, q : s = reading[t].slot /\ r = reader[s] /\ q = reading[t]
  OBVIOUS
<1>2. pc[t] \in AtWork
  BY DEF AtWork
<1>3. Sound(r) /\ q.offset \in Nat
  BY <1>1, <1>2, AtItsSlot
<1>4. Shown(r, q)
  BY <1>1 DEF ReadersIInv, UseInvariant
<1>5. /\ Cached(r) /\ r.viewLen = SliceLength(Cardinality(TheDigits), q.offset, q.len)
      /\ r.viewLen > 0 => r.cacheStart + r.viewStart = q.offset
      /\ r.viewStart + r.viewLen <= Len(r.digits)
  BY <1>1, <1>3, <1>4 DEF Shown, Sound, Exact
<1>6. /\ r.digits \in Seq(Nat) /\ r.viewStart \in Nat /\ r.viewLen \in Nat
      /\ r.cacheStart \in Nat
  BY <1>3 DEF Sound, Placed, ReaderType
<1>7. PICK from \in Nat, n \in Nat, start \in Nat, size \in Nat :
          /\ from = r.viewStart /\ n = r.viewLen /\ start = r.cacheStart
          /\ size = Len(r.digits)
  BY <1>6, LenProperties
<1>8. from + n <= size
  BY <1>5, <1>7
<1>9. PICK view : view = SubSeq(r.digits, from + 1, from + n)
  OBVIOUS
<1>10. Len(view) = n /\ \A i \in 1..n : view[i] = r.digits[from + i]
  <2>1. PICK d \in Seq(Nat) : d = r.digits
    BY <1>6
  <2>2. from + n <= Len(d)
    BY <1>7, <1>8, <2>1
  <2>3. view = SubSeq(d, from + 1, from + n)
    BY <1>9, <2>1
  <2>4. Len(view) = n /\ \A i \in 1..n : view[i] = d[from + i]
    BY <2>2, <2>3, PartOf
  <2> QED
    BY <2>1, <2>4
<1>11. ASSUME NEW k \in 1..n
       PROVE  view[k] \in TheDigits /\ PlaceIn(TheDigits, view[k]) = q.offset + k - 1
  <2>1. from + k \in 1..size /\ n > 0
    BY <1>8
  <2>2. r.digits[from + k] \in TheDigits
        /\ PlaceIn(TheDigits, r.digits[from + k]) = start + (from + k) - 1
    BY <1>5, <1>7, <2>1 DEF Cached
  <2>3. start + from = q.offset
    BY <1>5, <1>7, <2>1
  <2>4. start + (from + k) - 1 = q.offset + k - 1
    BY <1>3, <2>3
  <2> QED
    BY <1>10, <2>2, <2>4
<1>12. IsSlice(view, TheDigits, q.offset, q.len)
  BY <1>5, <1>7, <1>10, <1>11 DEF IsSlice, PlaceIn
<1>13. Readers!View(r) = view
  BY <1>7, <1>9 DEF Readers!View
<1> QED
  BY <1>1, <1>12, <1>13, ReadersText DEF TheDigits

LEMMA ReadersHold ==
    ASSUME ReadersIInv, SkipsInvariant
    PROVE  Readers!PoolInvariant
  BY ReadersTyped, SlotsConserved, NoWakeupLost, LeasesExact DEF Readers!PoolInvariant

-----------------------------------------------------------------------------
(* A set of naturals that is not empty has a least element: it stands for  *)
(* the induction along a loop.                                             *)

LEMMA LeastNatural ==
    ASSUME NEW S \in SUBSET Nat, S # {}
    PROVE  \E m \in S : \A n \in S : m <= n
<1> DEFINE T == {0..(n - 1) : n \in S}
<1>0. \A n \in S : IsFiniteSet(0..(n - 1))
  BY FS_Interval
<1>1. T # {} /\ \A s \in T : IsFiniteSet(s)
  BY <1>0
<1>2. PICK s \in T : \A t \in T : t \subseteq s => t = s
  <2> HIDE DEF T
  <2>. QED  BY <1>1, LeastSet
<1>3. PICK m \in S : s = 0..(m - 1)
  BY <1>2
<1>4. ASSUME NEW n \in S, ~(m <= n) PROVE FALSE
  <2>1. 0..(n - 1) \subseteq s /\ n \in s /\ n \notin 0..(n - 1)
    BY <1>3, <1>4
  <2>2. 0..(n - 1) \in T
    OBVIOUS
  <2>. QED  BY <1>2, <2>1, <2>2
<1>. QED  BY <1>4

-----------------------------------------------------------------------------
(* The loops over a file.                                                  *)

Allowed == source.allow_decimal_prefix
CursorType == [digit_offset : Nat, byte_offset : Nat, seen : Nat, prefix : BOOLEAN]

\* Where a loop begins, and what it does with one byte more.
FirstOf(from) ==
    [byte_offset |-> from.byte_offset, seen |-> from.seen, prefix |-> from.prefix,
     bad |-> FALSE, out |-> <<>>, request_cursor |-> Files!Start]
NextOf(text, x, offset, len) ==
    IF x.bad \/ Len(x.out) = len THEN x ELSE Files!TakeByte(text, x, offset)

IsLoop(state, text, from, offset, len, last) ==
    state = [k \in from.byte_offset..last |->
               IF k = from.byte_offset THEN FirstOf(from)
               ELSE NextOf(text, state[k - 1], offset, len)]

\* The loop is a CHOOSE of a recursive function, which has to exist.
LEMMA LoopExists ==
    ASSUME NEW text, NEW from, from.byte_offset \in Nat, NEW offset, NEW len,
           NEW last \in Nat, from.byte_offset <= last
    PROVE  \E state : IsLoop(state, text, from, offset, len, last)
<1>0. PICK b \in Nat : b = from.byte_offset
  OBVIOUS
<1> DEFINE Lacking == {n \in Nat : b <= n /\ ~\E state : IsLoop(state, text, from, offset, len, n)}
<1> SUFFICES ASSUME Lacking # {} PROVE FALSE
  BY <1>0
<1>1. PICK n \in Lacking : \A m \in Lacking : n <= m
  <2> HIDE DEF Lacking
  <2>1. Lacking \in SUBSET Nat
    BY DEF Lacking
  <2> QED
    BY <2>1, LeastNatural
<1>2. n \in Nat /\ b <= n
  OBVIOUS
<1>3. CASE n = b
  <2> DEFINE state == [k \in b..b |-> FirstOf(from)]
  <2>1. IsLoop(state, text, from, offset, len, b)
    BY <1>0 DEF IsLoop
  <2> QED
    BY <1>1, <1>3, <2>1
<1>4. CASE n # b
  <2>1. n - 1 \in Nat /\ b <= n - 1 /\ n - 1 \notin Lacking
    BY <1>0, <1>1, <1>2, <1>4
  <2>2. PICK state : IsLoop(state, text, from, offset, len, n - 1)
    BY <2>1
  <2> DEFINE more == NextOf(text, state[n - 1], offset, len)
             longer == [k \in b..n |-> IF k = n THEN more ELSE state[k]]
  <2>3. \A k \in b..(n - 1) :
          state[k] = IF k = b THEN FirstOf(from) ELSE NextOf(text, state[k - 1], offset, len)
    BY <1>0, <2>2 DEF IsLoop
  <2>4. ASSUME NEW k \in b..n
        PROVE  longer[k] = IF k = b THEN FirstOf(from)
                           ELSE NextOf(text, longer[k - 1], offset, len)
    <3>1. CASE k = n
      <4>1. longer[k] = more /\ k - 1 \in b..n /\ k - 1 # n /\ k # b
        BY <1>0, <1>2, <1>4, <2>1, <3>1
      <4>2. longer[k - 1] = state[n - 1]
        BY <3>1, <4>1
      <4> QED
        BY <4>1, <4>2
    <3>2. CASE k = b
      <4>1. longer[k] = state[b] /\ b \in b..(n - 1)
        BY <1>0, <1>4, <2>1, <3>2
      <4> QED
        BY <2>3, <3>2, <4>1
    <3>3. CASE k # b /\ k # n
      <4>1. k \in b..(n - 1) /\ k - 1 \in b..n /\ k - 1 # n /\ k \in b..n
        BY <1>0, <1>2, <3>3
      <4>2. longer[k] = state[k] /\ longer[k - 1] = state[k - 1]
        BY <3>3, <4>1
      <4> HIDE DEF longer
      <4> QED
        BY <2>3, <3>3, <4>1, <4>2
    <3> QED
      BY <3>1, <3>2, <3>3
  <2>5. IsLoop(longer, text, from, offset, len, n)
    <3>1. longer = [k \in b..n |-> longer[k]]
      OBVIOUS
    <3> HIDE DEF longer
    <3> QED
      BY <1>0, <2>4, <3>1 DEF IsLoop
  <2> QED
    BY <1>1, <2>5
<1> QED
  BY <1>3, <1>4

\* A cursor that says what lies before it.
AtDigit(text, from) ==
    /\ from \in CursorType /\ from.digit_offset = from.seen
    /\ from.byte_offset <= Len(text)
    /\ from # Files!Start => from.byte_offset < Len(text) /\ text[from.byte_offset + 1] = "digit"
    /\ StandsAt(text, Allowed, from.byte_offset, from.seen, from.prefix)

LoopType ==
    [byte_offset : Nat, seen : Nat, prefix : BOOLEAN, bad : BOOLEAN, out : Seq(Nat),
     request_cursor : CursorType]

\* What a loop has come to that has been shown the bytes before k.
LoopSound(text, x, offset, len, k) ==
    /\ x \in LoopType
    /\ x.byte_offset <= k
    /\ StandsAt(text, Allowed, x.byte_offset, x.seen, x.prefix)
    /\ x.bad => x.byte_offset < Len(text) /\ ~Fits(text, Allowed, x.byte_offset)
    /\ ~x.bad /\ Len(x.out) # len => x.byte_offset = k
    /\ Len(x.out) <= len
    /\ \A i \in 1..Len(x.out) :
           /\ x.out[i] \in DigitBytes(text, Allowed)
           /\ PlaceIn(DigitBytes(text, Allowed), x.out[i]) = offset + i - 1
    /\ IF Len(x.out) = 0 THEN x.seen <= offset ELSE x.seen = offset + Len(x.out)
    /\ Len(x.out) > 0 => AtDigit(text, x.request_cursor)

LEMMA StartAtDigit ==
    ASSUME NEW text, Len(text) \in Nat
    PROVE  AtDigit(text, Files!Start)
<1>1. /\ Files!Start \in CursorType
      /\ Files!Start.digit_offset = 0 /\ Files!Start.byte_offset = 0
      /\ Files!Start.seen = 0 /\ Files!Start.prefix = FALSE
  BY DEF Files!Start, CursorType
<1>2. StandsAt(text, Allowed, Files!Start.byte_offset, Files!Start.seen, Files!Start.prefix)
  BY <1>1, StandsAtStart
<1>3. Files!Start.digit_offset = Files!Start.seen /\ Files!Start.byte_offset <= Len(text)
  BY <1>1
<1> QED
  BY <1>1, <1>2, <1>3, Zenon DEF AtDigit

LEMMA FirstSound ==
    ASSUME NEW text, Len(text) \in Nat, NEW from, AtDigit(text, from),
           NEW offset \in Nat, NEW len \in Nat \ {0}, from.seen <= offset
    PROVE  LoopSound(text, FirstOf(from), offset, len, from.byte_offset)
<1> DEFINE x == FirstOf(from)
<1>1. from \in CursorType /\ Files!Start \in CursorType
  BY StartAtDigit DEF AtDigit
<1>2. <<>> \in Seq(Nat) /\ Len(<<>>) = 0
  OBVIOUS
<1>3. /\ x.byte_offset = from.byte_offset /\ x.seen = from.seen /\ x.prefix = from.prefix
      /\ x.bad = FALSE /\ x.out = <<>> /\ x.request_cursor = Files!Start
  BY DEF FirstOf
<1>4. x \in LoopType
  BY <1>1, <1>2 DEF FirstOf, LoopType, CursorType
<1>5. from.byte_offset \in Nat
  BY <1>1 DEF CursorType
<1> HIDE DEF x
<1>6. LoopSound(text, x, offset, len, from.byte_offset)
  BY <1>2, <1>3, <1>4, <1>5 DEF LoopSound, AtDigit
<1> QED
  BY <1>6 DEF x

LEMMA LoopGoesOn ==
    ASSUME NEW text, Len(text) \in Nat, Allowed \in BOOLEAN,
           NEW x, NEW offset \in Nat, NEW len \in Nat \ {0}, NEW k \in Nat, k < Len(text),
           LoopSound(text, x, offset, len, k)
    PROVE  LoopSound(text, NextOf(text, x, offset, len), offset, len, k + 1)
<1>1. /\ x \in LoopType /\ x.byte_offset \in Nat /\ x.seen \in Nat /\ x.prefix \in BOOLEAN
      /\ x.out \in Seq(Nat) /\ Len(x.out) \in Nat /\ x.request_cursor \in CursorType
  BY DEF LoopSound, LoopType
<1>2. CASE x.bad \/ Len(x.out) = len
  <2>1. x.byte_offset <= k + 1
    BY <1>1 DEF LoopSound
  <2>2. NextOf(text, x, offset, len) = x
    BY <1>2 DEF NextOf
  <2> QED
    BY <1>2, <2>1, <2>2 DEF LoopSound
<1>3. CASE ~x.bad /\ Len(x.out) # len
  <2>1. /\ x.byte_offset = k /\ k \in 0..Len(text)
        /\ StandsAt(text, Allowed, k, x.seen, x.prefix)
    BY <1>3 DEF LoopSound
  <2>2. PICK is : is = ByteIs(text[k + 1], x.seen, x.prefix, Allowed)
    OBVIOUS
  <2>3. /\ is = "digit" <=> text[k + 1] = "digit"
        /\ is = "invalid" <=> ~Fits(text, Allowed, k)
        /\ is # "invalid" => StandsAt(text, Allowed, k + 1,
                                IF is = "digit" THEN x.seen + 1 ELSE x.seen,
                                x.prefix \/ is = "prefix")
    BY <1>1, <2>1, <2>2, ParserGoesOn
  <2>4. is = Files!ByteIs(text[x.byte_offset + 1], x.seen, x.prefix, Allowed)
    BY <2>1, <2>2, FilesText
  <2>5. NextOf(text, x, offset, len) = Files!TakeByte(text, x, offset)
    BY <1>3 DEF NextOf
  <2>6. CASE is = "invalid"
    <3>1. PICK y : y = [x EXCEPT !.bad = TRUE]
      OBVIOUS
    <3>2. NextOf(text, x, offset, len) = y
      BY <2>4, <2>5, <2>6, <3>1 DEF Files!TakeByte, Allowed
    <3>3. /\ y \in LoopType /\ y.bad /\ y.byte_offset = k /\ y.seen = x.seen
          /\ y.prefix = x.prefix /\ y.out = x.out /\ y.request_cursor = x.request_cursor
      BY <1>1, <2>1, <3>1 DEF LoopType
    <3>4. LoopSound(text, y, offset, len, k + 1)
      BY <2>1, <2>3, <2>6, <3>3 DEF LoopSound
    <3> QED
      BY <3>2, <3>4
  <2>7. CASE is # "invalid"
    <3>1. PICK seen \in Nat : seen = IF is = "digit" THEN x.seen + 1 ELSE x.seen
      BY <1>1
    <3>2. PICK prefix \in BOOLEAN : prefix = (x.prefix \/ is = "prefix")
      <4>1. (x.prefix \/ is = "prefix") \in BOOLEAN
        BY Zenon
      <4> QED
        BY <4>1, Zenon
    <3>3. StandsAt(text, Allowed, k + 1, seen, prefix)
      BY <2>3, <2>7, <3>1, <3>2
    <3>4. /\ x.seen <= Cardinality(DigitBytes(text, Allowed))
          /\ PlaceIn(DigitBytes(text, Allowed), k) = x.seen
          /\ is = "digit" => k \in DigitBytes(text, Allowed)
      BY <2>1, <2>3, CountIsPlace
    <3>5. CASE is = "digit" /\ x.seen >= offset
      <4>1. x.seen = offset + Len(x.out) /\ seen = x.seen + 1
        BY <1>1, <3>1, <3>5 DEF LoopSound
      <4>2. PICK out : out = Append(x.out, k)
        OBVIOUS
      <4>3. /\ out \in Seq(Nat) /\ Len(out) = Len(x.out) + 1
            /\ \A i \in 1..Len(x.out) : out[i] = x.out[i]
            /\ out[Len(x.out) + 1] = k
        BY <1>1, <4>2, AppendProperties
      <4>4. PICK kept : kept = IF x.out = <<>> THEN Files!RequestCursor(x)
                                    ELSE x.request_cursor
        OBVIOUS
      <4>5. AtDigit(text, kept)
        <5>1. CASE x.out = <<>>
          <6>1. kept = [digit_offset |-> x.seen, byte_offset |-> k,
                           seen |-> x.seen, prefix |-> x.prefix]
            BY <2>1, <4>4, <5>1 DEF Files!RequestCursor
          <6>2. kept \in CursorType
            BY <1>1, <6>1 DEF CursorType
          <6>3. /\ kept.digit_offset = kept.seen /\ kept.byte_offset = k
                /\ kept.seen = x.seen /\ kept.prefix = x.prefix
            BY <6>1
          <6> QED
            BY <2>1, <2>3, <3>5, <6>2, <6>3 DEF AtDigit
        <5>2. CASE x.out # <<>>
          <6>1. Len(x.out) > 0
            BY <1>1, <5>2, EmptySeq
          <6> QED
            BY <4>4, <5>2, <6>1 DEF LoopSound
        <5> QED
          BY <5>1, <5>2
      <4>6. PICK y : y = [byte_offset |-> k + 1, seen |-> seen, prefix |-> prefix,
                          bad |-> FALSE, out |-> out, request_cursor |-> kept]
        OBVIOUS
      <4>7. NextOf(text, x, offset, len) = y
        BY <2>1, <2>4, <2>5, <2>7, <3>1, <3>2, <3>5, <4>2, <4>4, <4>6 DEF Files!TakeByte, Allowed
      <4>8. /\ y \in LoopType /\ ~y.bad /\ y.byte_offset = k + 1 /\ y.seen = seen
            /\ y.prefix = prefix /\ y.out = out /\ y.request_cursor = kept
        BY <4>3, <4>5, <4>6 DEF LoopType, AtDigit
      <4>9. Len(out) <= len /\ seen = offset + Len(out) /\ Len(out) # 0
        <5>1. Len(x.out) <= len
          BY DEF LoopSound
        <5> QED
          BY <1>1, <1>3, <4>1, <4>3, <5>1
      <4>10. ASSUME NEW i \in 1..Len(out)
             PROVE  /\ out[i] \in DigitBytes(text, Allowed)
                    /\ PlaceIn(DigitBytes(text, Allowed), out[i]) = offset + i - 1
        <5>1. i \in 1..Len(x.out) \/ i = Len(x.out) + 1
          BY <1>1, <4>3
        <5>2. CASE i \in 1..Len(x.out)
          BY <4>3, <5>2 DEF LoopSound
        <5>3. CASE i = Len(x.out) + 1
          <6>1. offset + i - 1 = x.seen
            BY <1>1, <4>1, <5>3
          <6>2. out[i] = k
            BY <4>3, <5>3
          <6> QED
            BY <3>4, <3>5, <6>1, <6>2
        <5> QED
          BY <5>1, <5>2, <5>3
      <4>11. LoopSound(text, y, offset, len, k + 1)
        BY <3>3, <4>5, <4>8, <4>9, <4>10 DEF LoopSound
      <4> QED
        BY <4>7, <4>11
    <3>6. CASE ~(is = "digit" /\ x.seen >= offset)
      <4>1. PICK y : y = [byte_offset |-> k + 1, seen |-> seen, prefix |-> prefix,
                          bad |-> FALSE, out |-> x.out, request_cursor |-> x.request_cursor]
        OBVIOUS
      <4>2. NextOf(text, x, offset, len) = y
        BY <2>1, <2>4, <2>5, <2>7, <3>1, <3>2, <3>6, <4>1 DEF Files!TakeByte, Allowed
      <4>3. /\ y \in LoopType /\ ~y.bad /\ y.byte_offset = k + 1 /\ y.seen = seen
            /\ y.prefix = prefix /\ y.out = x.out /\ y.request_cursor = x.request_cursor
        BY <1>1, <4>1 DEF LoopType
      <4>4. IF Len(x.out) = 0 THEN seen <= offset ELSE seen = offset + Len(x.out)
        <5>1. IF Len(x.out) = 0 THEN x.seen <= offset ELSE x.seen = offset + Len(x.out)
          BY DEF LoopSound
        <5>2. seen = x.seen \/ (seen = x.seen + 1 /\ x.seen < offset)
          BY <1>1, <3>1, <3>6
        <5> QED
          BY <1>1, <5>1, <5>2
      <4>5. LoopSound(text, y, offset, len, k + 1)
        BY <3>3, <4>3, <4>4 DEF LoopSound
      <4> QED
        BY <4>2, <4>5
    <3> QED
      BY <3>5, <3>6
  <2> QED
    BY <2>6, <2>7
<1> QED
  BY <1>2, <1>3

\* The loop ends with all it was asked for, at the end, or at a byte that does not fit.
LEMMA LoopEnds ==
    ASSUME NEW text, Len(text) \in Nat, Allowed \in BOOLEAN, NEW from, AtDigit(text, from),
           NEW offset \in Nat, NEW len \in Nat \ {0}, from.seen <= offset
    PROVE  LoopSound(text, Files!Loop(text, from, offset, len), offset, len, Len(text))
<1>1. from.byte_offset \in Nat /\ from.byte_offset <= Len(text)
  BY DEF AtDigit, CursorType
<1> DEFINE state == CHOOSE f : IsLoop(f, text, from, offset, len, Len(text))
<1>2. IsLoop(state, text, from, offset, len, Len(text))
  BY <1>1, LoopExists
<1>3. Files!Loop(text, from, offset, len) = state[Len(text)]
  BY DEF Files!Loop, IsLoop, FirstOf, NextOf
<1> HIDE DEF state
<1>4. PICK b \in Nat, last \in Nat : b = from.byte_offset /\ last = Len(text) /\ b <= last
  BY <1>1
<1>5. \A k \in b..last :
          state[k] = IF k = b THEN FirstOf(from) ELSE NextOf(text, state[k - 1], offset, len)
  BY <1>2, <1>4 DEF IsLoop
<1> DEFINE Bad == {k \in b..last : ~LoopSound(text, state[k], offset, len, k)}
<1>6. Bad = {}
  <2> SUFFICES ASSUME Bad # {} PROVE FALSE
    OBVIOUS
  <2>1. PICK k \in Bad : \A m \in Bad : k <= m
    <3>1. Bad \in SUBSET Nat
      OBVIOUS
    <3> HIDE DEF Bad
    <3> QED
      BY <3>1, LeastNatural
  <2>2. CASE k = b
    BY <1>4, <1>5, <2>1, <2>2, FirstSound
  <2>3. CASE k # b
    <3>1. PICK j \in Nat : k = j + 1 /\ j \in b..last /\ j < last /\ j \notin Bad /\ k - 1 = j
      <4>1. k - 1 \in Nat /\ k = (k - 1) + 1 /\ k - 1 \in b..last /\ k - 1 < last /\ ~(k <= k - 1)
        BY <1>4, <2>3
      <4> QED
        BY <2>1, <4>1
    <3>2. LoopSound(text, state[j], offset, len, j)
      BY <3>1
    <3>3. state[k] = NextOf(text, state[j], offset, len)
      BY <1>5, <2>3, <3>1
    <3>4. LoopSound(text, state[k], offset, len, k)
      BY <1>4, <3>1, <3>2, <3>3, LoopGoesOn
    <3> QED
      BY <2>1, <3>4
  <2> QED
    BY <2>2, <2>3
<1>7. last \in b..last
  BY <1>4
<1> QED
  BY <1>3, <1>4, <1>6, <1>7

ValidText(text) == AllFit(text, Allowed, Len(text))

\* What a read from a cursor returns.
LEMMA LoopReads ==
    ASSUME NEW text, Len(text) \in Nat, Allowed \in BOOLEAN, NEW from, AtDigit(text, from),
           NEW offset \in Nat, NEW len \in Nat \ {0}, from.seen <= offset,
           NEW x, x = Files!Loop(text, from, offset, len)
    PROVE  /\ x.bad => ~ValidText(text)
           /\ ~x.bad => IsSlice(x.out, DigitBytes(text, Allowed), offset, len)
           /\ x.out # <<>> => AtDigit(text, x.request_cursor)
<1>0. LoopSound(text, x, offset, len, Len(text))
  BY LoopEnds
<1>1. LoopSound(text, x, offset, len, Len(text)) /\ x \in LoopType
  BY <1>0 DEF LoopSound
<1>2. x.byte_offset \in Nat /\ x.seen \in Nat /\ x.out \in Seq(Nat) /\ Len(x.out) \in Nat
  BY <1>1 DEF LoopType
<1>3. x.bad => ~ValidText(text)
  <2>1. x.bad => x.byte_offset \in 0..(Len(text) - 1) /\ ~Fits(text, Allowed, x.byte_offset)
    BY <1>1, <1>2 DEF LoopSound
  <2> QED
    BY <2>1 DEF ValidText, AllFit
<1>4. x.out # <<>> => AtDigit(text, x.request_cursor)
  <2>1. x.out # <<>> => Len(x.out) > 0
    BY <1>2, EmptySeq
  <2> QED
    BY <1>1, <2>1 DEF LoopSound
<1>5. PICK all \in Nat : all = Cardinality(DigitBytes(text, Allowed))
  BY DigitsFinite
<1>6. /\ x.seen <= all
      /\ x.byte_offset = Len(text) => x.seen = all
  <2>1. x.byte_offset \in 0..Len(text) /\ StandsAt(text, Allowed, x.byte_offset, x.seen, x.prefix)
    BY <1>1, <1>2 DEF LoopSound
  <2> QED
    BY <1>5, <2>1, CountIsPlace
<1>7. ASSUME ~x.bad PROVE IsSlice(x.out, DigitBytes(text, Allowed), offset, len)
  <2>1. PICK n \in Nat, seen \in Nat : n = Len(x.out) /\ seen = x.seen
    BY <1>2
  <2>2. /\ n <= len /\ (n # len => seen = all) /\ seen <= all
        /\ IF n = 0 THEN seen <= offset ELSE seen = offset + n
    BY <1>1, <1>6, <1>7, <2>1 DEF LoopSound
  <2>3. n = IF all <= offset THEN 0 ELSE IF all - offset < len THEN all - offset ELSE len
    BY <2>2
  <2>4. Len(x.out) = SliceLength(Cardinality(DigitBytes(text, Allowed)), offset, len)
    BY <1>5, <2>1, <2>3 DEF SliceLength
  <2> QED
    BY <1>1, <2>4 DEF LoopSound, IsSlice, PlaceIn
<1> QED
  BY <1>3, <1>4, <1>7

\* The loop over the whole text counts and copies all its digits.
LEMMA WholeReads ==
    ASSUME NEW text, Len(text) \in Nat, Allowed \in BOOLEAN, NEW x, x = Files!Whole(text)
    PROVE  LET bytes == DigitBytes(text, Allowed)
           IN  /\ x.bad => ~ValidText(text)
               /\ ~x.bad =>
                      /\ ValidText(text) /\ x.seen = Cardinality(bytes)
                      /\ x.out \in Seq(Nat) /\ IsSlice(x.out, bytes, 0, Cardinality(bytes))
<1>1. AtDigit(text, Files!Start) /\ Files!Start.seen = 0
  BY StartAtDigit DEF Files!Start
<1>2. PICK most \in Nat \ {0} : most = Len(text) + 1
  OBVIOUS
<1>3. x = Files!Loop(text, Files!Start, 0, most)
  BY <1>2 DEF Files!Whole
<1>4. 0 \in Nat /\ Files!Start.seen <= 0
  BY <1>1
<1>5. LoopSound(text, x, 0, most, Len(text))
  BY <1>1, <1>3, <1>4, LoopEnds
<1>6. /\ x.bad => ~ValidText(text)
      /\ ~x.bad => IsSlice(x.out, DigitBytes(text, Allowed), 0, most)
  BY <1>1, <1>3, <1>4, LoopReads
<1>7. ASSUME ~x.bad
      PROVE  /\ ValidText(text) /\ x.seen = Cardinality(DigitBytes(text, Allowed))
             /\ x.out \in Seq(Nat)
             /\ IsSlice(x.out, DigitBytes(text, Allowed), 0, Cardinality(DigitBytes(text, Allowed)))
  <2>1. /\ x.byte_offset \in Nat /\ x.seen \in Nat /\ x.out \in Seq(Nat) /\ Len(x.out) \in Nat
        /\ x.byte_offset <= Len(text)
        /\ StandsAt(text, Allowed, x.byte_offset, x.seen, x.prefix)
        /\ Len(x.out) # most => x.byte_offset = Len(text)
        /\ IF Len(x.out) = 0 THEN x.seen <= 0 ELSE x.seen = 0 + Len(x.out)
    BY <1>5, <1>7 DEF LoopSound, LoopType
  <2>2. x.seen \in 0..x.byte_offset
    <3>1. x.byte_offset \in 0..Len(text)
      BY <2>1
    <3> QED
      BY <2>1, <3>1, CountIsPlace
  <2>3. Len(x.out) # most
    BY <1>2, <2>1, <2>2
  <2>4. x.byte_offset = Len(text)
    BY <2>1, <2>3
  <2>5. /\ AllFit(text, Allowed, Len(text))
        /\ x.seen = Cardinality(DigitBytes(text, Allowed))
    <3>1. StandsAt(text, Allowed, Len(text), x.seen, x.prefix) /\ Len(text) \in 0..Len(text)
      BY <2>1, <2>4
    <3> QED
      BY <3>1, CountIsPlace DEF StandsAt
  <2>6. PICK all \in Nat : all = Cardinality(DigitBytes(text, Allowed)) /\ all <= Len(text)
    BY DigitsFinite
  <2>7. SliceLength(all, 0, most) = SliceLength(all, 0, all)
    BY <1>2, <2>6 DEF SliceLength
  <2> QED
    BY <1>6, <1>7, <2>1, <2>5, <2>6, <2>7 DEF ValidText, IsSlice
<1> QED
  BY <1>6, <1>7

-----------------------------------------------------------------------------
(* The file as a source.                                                   *)

TextOf(v) == source.texts[v]
FileDigits(v) == DigitBytes(TextOf(v), Allowed)
CursorSound(from) == AtDigit(TextOf(version), from)

\* All digits of a valid text that the file has held.
WholeDigits(digits, v) ==
    /\ v \in 1..version
    /\ ValidText(TextOf(v))
    /\ digits \in Seq(Nat)
    /\ IsSlice(digits, FileDigits(v), 0, Cardinality(FileDigits(v)))

\* A text that need not have failed.
Undeserved(v) == ~source.faults /\ ValidText(TextOf(v))

\* What a thread that works on a call knows.
CallSound(c, own) ==
    /\ c.at = "scan" =>
           /\ CursorSound(c.from)
           /\ c.offset \in Nat /\ c.len \in Nat \ {0}
           /\ c.from.seen <= c.offset
    /\ c.at = "publish" => WholeDigits(own, c.version)
    /\ c.at = "cleanup" =>
           /\ c.version \in 1..version
           /\ c.ok => cache # Earlier
           /\ ~c.ok => ~Undeserved(c.version)
    /\ c.at = "answered" =>
           /\ c.version \in 1..version
           /\ ~c.ok => ~Undeserved(c.version)
           /\ c.op = "read" /\ c.ok =>
                  IsSlice(c.digits, FileDigits(c.version), c.offset, c.len)
           /\ c.op = "import" =>
                  /\ c.ok => cache # Earlier
                  /\ c.removed => own = None

LengthSound(len) ==
    len # None => \E v \in 1..version : ValidText(TextOf(v)) /\ len = Cardinality(FileDigits(v))
CacheSound(digits) == digits # Earlier => \E v \in 1..version : WholeDigits(digits, v)

\* The inductive invariant of the file.
FilesIInv ==
    /\ source \in FileSetups
    /\ version \in 1..Len(source.texts)
    /\ DOMAIN staged = Threads /\ DOMAIN call = Threads
    /\ CursorSound(cursor)
    /\ LengthSound(digit_len)
    /\ CacheSound(cache)
    /\ \A t \in Threads : CallSound(call[t], staged[t])

LEMMA TextsAreKnown ==
    ASSUME source \in FileSetups
    PROVE  /\ source \in Files!SetupType
           /\ Allowed \in BOOLEAN /\ Len(source.texts) \in Nat \ {0}
           /\ \A v \in 1..Len(source.texts) : TextOf(v) \in Seq(Files!ByteKinds)
                                              /\ Len(TextOf(v)) \in Nat
           /\ \A v \in 1..(Len(source.texts) - 1) :
                  /\ Len(TextOf(v)) <= Len(TextOf(v + 1))
                  /\ \A b \in 1..Len(TextOf(v)) : TextOf(v + 1)[b] = TextOf(v)[b]
<1>1. source \in Files!SetupType
  BY PoolsAssumption DEF Files!FileConstants
<1>2. Allowed \in BOOLEAN /\ source.texts \in Seq(Seq(Files!ByteKinds))
  BY <1>1 DEF Files!SetupType, Allowed
<1>3. Len(source.texts) \in Nat \ {0}
  <2>1. Len(source.texts) \in Nat
    BY <1>2, LenProperties
  <2>2. Len(source.texts) > 0
    BY PoolsAssumption DEF Files!FileConstants
  <2> QED
    BY <2>1, <2>2
<1>4. \A v \in 1..Len(source.texts) : TextOf(v) \in Seq(Files!ByteKinds)
  BY <1>2, ElementOfSeq DEF TextOf
<1>5. \A v \in 1..Len(source.texts) : Len(TextOf(v)) \in Nat
  BY <1>4, LenProperties
<1>6. \A v \in 1..(Len(source.texts) - 1) :
          /\ Len(TextOf(v)) <= Len(TextOf(v + 1))
          /\ \A b \in 1..Len(TextOf(v)) : TextOf(v + 1)[b] = TextOf(v)[b]
  BY PoolsAssumption DEF Files!FileConstants, TextOf
<1> QED
  BY <1>1, <1>2, <1>3, <1>4, <1>5, <1>6

-----------------------------------------------------------------------------
(* A longer file.                                                          *)

\* What has been read of a text that is then longer.
LEMMA TextGrows ==
    ASSUME NEW a, NEW b, Len(a) \in Nat, Len(b) \in Nat, Len(a) <= Len(b),
           \A i \in 1..Len(a) : b[i] = a[i], NEW from, AtDigit(a, from)
    PROVE  AtDigit(b, from)
<1>1. PICK at \in Nat : at = from.byte_offset /\ at <= Len(a)
  BY DEF AtDigit, CursorType
<1>2. \A c \in 0..(at - 1) : b[c + 1] = a[c + 1]
  BY <1>1
<1>3. ASSUME NEW kind, NEW n \in 0..at PROVE Before(b, kind, n) = Before(a, kind, n)
  BY <1>2, <1>3 DEF Before
<1>4. ASSUME NEW c \in 0..(at - 1) PROVE Fits(b, Allowed, c) <=> Fits(a, Allowed, c)
  <2>1. c \in 0..at /\ b[c + 1] = a[c + 1]
    BY <1>2
  <2> QED
    BY <1>3, <2>1 DEF Fits
<1>5. AllFit(b, Allowed, at) <=> AllFit(a, Allowed, at)
  BY <1>4 DEF AllFit
<1>6. at \in 0..at
  OBVIOUS
<1>7. StandsAt(b, Allowed, at, from.seen, from.prefix)
  BY <1>1, <1>3, <1>5, <1>6 DEF AtDigit, StandsAt
<1>8. from # Files!Start => at < Len(b) /\ b[at + 1] = "digit"
  BY <1>1 DEF AtDigit
<1>9. from \in CursorType /\ from.digit_offset = from.seen /\ at <= Len(b)
  BY <1>1 DEF AtDigit
<1> QED
  BY <1>1, <1>7, <1>8, <1>9 DEF AtDigit

LEMMA SourceStays ==
    ASSUME source' = source
    PROVE  /\ Allowed' = Allowed
           /\ \A v : TextOf(v)' = TextOf(v) /\ FileDigits(v)' = FileDigits(v)
           /\ \A v : ValidText(TextOf(v))' <=> ValidText(TextOf(v))
           /\ \A v : Undeserved(v)' <=> Undeserved(v)
           /\ \A text, from : AtDigit(text, from)' <=> AtDigit(text, from)
<1>1. Allowed' = Allowed
  BY DEF Allowed
<1>2. ASSUME NEW v PROVE TextOf(v)' = TextOf(v) /\ FileDigits(v)' = FileDigits(v)
  BY <1>1 DEF TextOf, FileDigits
<1>3. ASSUME NEW v PROVE ValidText(TextOf(v))' <=> ValidText(TextOf(v))
  BY <1>1, <1>2 DEF ValidText
<1>4. ASSUME NEW v PROVE Undeserved(v)' <=> Undeserved(v)
  BY <1>3 DEF Undeserved
<1>5. ASSUME NEW text, NEW from PROVE AtDigit(text, from)' <=> AtDigit(text, from)
  BY <1>1 DEF AtDigit
<1> QED
  BY <1>1, <1>2, <1>3, <1>4, <1>5

\* What is known of cursors, digits and calls stays true of a longer file, and
\* of a cache that does not go back to its earlier digits.
LEMMA FileGoesOn ==
    ASSUME source \in FileSetups, version \in 1..Len(source.texts), source' = source,
           \/ version' = version
           \/ version < Len(source.texts) /\ version' = version + 1,
           cache # Earlier => cache' # Earlier
    PROVE  /\ version' \in 1..Len(source.texts) /\ 1..version \subseteq (1..version)'
           /\ \A from : CursorSound(from) => CursorSound(from)'
           /\ \A digits, v : WholeDigits(digits, v) => WholeDigits(digits, v)'
           /\ \A len : LengthSound(len) => LengthSound(len)'
           /\ \A digits : CacheSound(digits) => CacheSound(digits)'
           /\ \A c, own : CallSound(c, own) => CallSound(c, own)'
<1>1. PICK last \in Nat : last = Len(source.texts)
  BY TextsAreKnown
<1>2. /\ version \in Nat /\ version' \in 1..last
      /\ version' = version \/ (version' = version + 1 /\ version \in 1..(last - 1))
      /\ 1..version \subseteq 1..version'
  BY <1>1
<1>3. ASSUME NEW from, CursorSound(from) PROVE CursorSound(from)'
  <2>1. PICK v \in 1..last, w \in 1..last : v = version /\ w = version'
    BY <1>1, <1>2
  <2>2. AtDigit(TextOf(v), from)
    BY <1>3, <2>1 DEF CursorSound
  <2>3. CASE w = v
    BY <2>1, <2>2, <2>3, SourceStays DEF CursorSound
  <2>4. CASE w = v + 1 /\ v \in 1..(last - 1)
    <3>1. PICK a, b : a = TextOf(v) /\ b = TextOf(w)
      OBVIOUS
    <3>2. Len(a) \in Nat /\ Len(b) \in Nat
      BY <1>1, <3>1, TextsAreKnown
    <3>3. Len(a) <= Len(b) /\ \A i \in 1..Len(a) : b[i] = a[i]
      BY <1>1, <2>4, <3>1, TextsAreKnown
    <3>4. AtDigit(b, from)
      BY <2>2, <3>1, <3>2, <3>3, TextGrows
    <3>5. AtDigit(b, from)' /\ b = TextOf(w)'
      BY <3>1, <3>4, SourceStays
    <3> QED
      BY <2>1, <3>5 DEF CursorSound
  <2> QED
    BY <1>2, <2>1, <2>3, <2>4
<1>4. ASSUME NEW digits, NEW v, WholeDigits(digits, v) PROVE WholeDigits(digits, v)'
  <2>1. v \in (1..version)'
    BY <1>2, <1>4 DEF WholeDigits
  <2> QED
    BY <1>4, <2>1, SourceStays DEF WholeDigits
<1>6. ASSUME NEW len, LengthSound(len) PROVE LengthSound(len)'
  BY <1>2, <1>6, SourceStays DEF LengthSound
<1>7. ASSUME NEW digits, CacheSound(digits) PROVE CacheSound(digits)'
  BY <1>2, <1>4, <1>7 DEF CacheSound
<1>5. ASSUME NEW c, NEW own, CallSound(c, own) PROVE CallSound(c, own)'
  <2>1. c.version \in 1..version => c.version \in (1..version)'
    BY <1>2
  <2>2. c.at = "scan" => (/\ CursorSound(c.from)
                          /\ c.offset \in Nat /\ c.len \in Nat \ {0}
                          /\ c.from.seen <= c.offset)'
    <3>1. PICK from : from = c.from
      OBVIOUS
    <3> QED
      BY <1>3, <1>5, <3>1 DEF CallSound
  <2>3. c.at = "publish" => WholeDigits(own, c.version)'
    <3>1. PICK v : v = c.version
      OBVIOUS
    <3> QED
      BY <1>4, <1>5, <3>1 DEF CallSound
  <2>4. c.at = "cleanup" => (/\ c.version \in 1..version
                             /\ c.ok => cache # Earlier
                             /\ ~c.ok => ~Undeserved(c.version))'
    BY <1>5, <2>1, SourceStays DEF CallSound
  <2>5. c.at = "answered" => (/\ c.version \in 1..version
                              /\ ~c.ok => ~Undeserved(c.version))'
    BY <1>5, <2>1, SourceStays DEF CallSound
  <2>6. c.at = "answered" /\ c.op = "read" /\ c.ok =>
            IsSlice(c.digits, FileDigits(c.version), c.offset, c.len)'
    BY <1>5, SourceStays DEF CallSound
  <2>7. c.at = "answered" /\ c.op = "import" => (/\ c.ok => cache # Earlier
                                                 /\ c.removed => own = None)'
    BY <1>5 DEF CallSound
  <2> QED
    BY <2>2, <2>3, <2>4, <2>5, <2>6, <2>7, Zenon DEF CallSound
<1> QED
  BY <1>1, <1>2, <1>3, <1>4, <1>5, <1>6, <1>7, SourceStays

\* The digits of a text are not those of the cache before.
LEMMA WholeIsNew ==
    ASSUME NEW digits, NEW v, WholeDigits(digits, v)
    PROVE  digits # Earlier
<1>1. PICK d \in Seq(Nat) : d = digits
  BY DEF WholeDigits
<1>2. PICK b \in DOMAIN Earlier : Earlier[b] \notin Nat
  BY PoolsAssumption DEF Files!FileConstants
<1>3. ASSUME d = Earlier PROVE FALSE
  <2>1. b \in 1..Len(d) /\ d[b] \notin Nat
    BY <1>2, <1>3, LenProperties
  <2> QED
    BY <2>1, ElementOfSeq
<1> QED
  BY <1>1, <1>3

-----------------------------------------------------------------------------
(* The actions on a file.                                                  *)

\* A thread goes on with its call.
LEMMA CallGoesOn ==
    ASSUME FilesIInv, NEW t \in Threads, NEW c, NEW own,
           UNCHANGED <<source, version>>, cache # Earlier => cache' # Earlier,
           Files!Goes(t, c), CallSound(c, own)',
           DOMAIN staged' = Threads, staged'[t] = own,
           \A u \in Threads \ {t} : staged'[u] = staged[u],
           CursorSound(cursor)', LengthSound(digit_len)', CacheSound(cache)'
    PROVE  FilesIInv'
<1>1. /\ source' \in FileSetups /\ version' \in 1..Len(source'.texts)
  BY DEF FilesIInv
<1>2. DOMAIN call' = Threads /\ call'[t] = c /\ \A u \in Threads \ {t} : call'[u] = call[u]
  BY DEF FilesIInv, Files!Goes
<1>3. ASSUME NEW u \in Threads PROVE CallSound(call[u], staged[u])'
  <2>1. PICK k, o : k = call'[u] /\ o = staged'[u]
    OBVIOUS
  <2>2. CallSound(k, o)'
    <3>1. CASE u = t
      BY <1>2, <2>1, <3>1
    <3>2. CASE u # t
      <4>1. CallSound(k, o)
        BY <1>2, <2>1, <3>2 DEF FilesIInv
      <4> QED
        BY <4>1, FileGoesOn DEF FilesIInv
    <3> QED
      BY <3>1, <3>2
  <2> QED
    BY <2>1, <2>2
<1> QED
  BY <1>1, <1>2, <1>3, Zenon DEF FilesIInv

\* The same of a call that changes nothing but itself.
LEMMA OnlyCallGoesOn ==
    ASSUME FilesIInv, NEW t \in Threads, NEW c, Files!Goes(t, c),
           UNCHANGED <<source, version, cursor, digit_len, staged, cache>>,
           \A own : own = staged[t] => CallSound(c, own)'
    PROVE  FilesIInv'
<1>1. PICK own : own = staged[t]
  OBVIOUS
<1>2. CallSound(c, own)'
  BY <1>1
<1>3. PICK from, len, digits : from = cursor /\ len = digit_len /\ digits = cache
  OBVIOUS
<1>4. CursorSound(from)' /\ LengthSound(len)' /\ CacheSound(digits)'
  BY <1>3, FileGoesOn DEF FilesIInv
<1>5. CursorSound(cursor)' /\ LengthSound(digit_len)' /\ CacheSound(cache)'
  BY <1>3, <1>4
<1>6. /\ DOMAIN staged' = Threads /\ staged'[t] = own
      /\ \A u \in Threads \ {t} : staged'[u] = staged[u]
  BY <1>1 DEF FilesIInv
<1> QED
  BY <1>2, <1>5, <1>6, CallGoesOn

\* A failure that is deserved.
LEMMA FailureAnswered ==
    ASSUME FilesIInv, NEW t \in Threads, NEW op, op # "import", Files!Fail(t, op),
           ~Undeserved(version), UNCHANGED <<source, version, cursor, digit_len, staged, cache>>
    PROVE  FilesIInv'
<1>1. PICK v, c : /\ v = version
                  /\ c = [at |-> "answered", op |-> op, ok |-> FALSE, version |-> v]
  OBVIOUS
<1>2. Files!Goes(t, c)
  BY <1>1 DEF Files!Fail
<1>3. v \in (1..version)' /\ ~Undeserved(v)'
  <2>1. v \in 1..version /\ ~Undeserved(v)
    BY <1>1, TextsAreKnown DEF FilesIInv
  <2> QED
    BY <2>1, SourceStays
<1>4. /\ c.at = "answered" /\ c.op # "import" /\ c.ok = FALSE /\ c.version = v
  BY <1>1
<1>5. ASSUME NEW own, own = staged[t] PROVE CallSound(c, own)'
  <2>1. "answered" # "scan" /\ "answered" # "publish" /\ "answered" # "cleanup"
    OBVIOUS
  <2> QED
    BY <1>3, <1>4, <2>1 DEF CallSound
<1> QED
  BY <1>2, <1>5, OnlyCallGoesOn

LEMMA ForgetStep ==
    ASSUME FilesIInv, NEW t \in Threads, Files!ForgetAnswer(t)
    PROVE  FilesIInv'
<1>1. PICK c : c = Files!Idle
  OBVIOUS
<1>2. c.at = "idle"
  BY <1>1 DEF Files!Idle
<1>3. \A own : own = staged[t] => CallSound(c, own)'
  BY <1>2 DEF CallSound
<1> QED
  BY <1>1, <1>3, OnlyCallGoesOn DEF Files!ForgetAnswer

LEMMA FailsStep ==
    ASSUME FilesIInv, NEW t \in Threads, NEW at, NEW op, op # "import",
           Files!FailsAt(t, at, op)
    PROVE  FilesIInv'
<1>1. ~Undeserved(version)
  BY DEF Files!FailsAt, Undeserved
<1> QED
  BY <1>1, FailureAnswered DEF Files!FailsAt

\* Length and Validate begin to count, ReplaceCache to copy.
LEMMA BeginsStep ==
    ASSUME FilesIInv, NEW t \in Threads, NEW at \in {"count", "copy"},
           Files!Goes(t, [at |-> at]),
           UNCHANGED <<source, version, cursor, digit_len, staged, cache>>
    PROVE  FilesIInv'
<1>1. PICK c : c = [at |-> at]
  OBVIOUS
<1>2. c.at \in {"count", "copy"}
  BY <1>1
<1>3. \A own : own = staged[t] => CallSound(c, own)'
  BY <1>2 DEF CallSound
<1> QED
  BY <1>1, <1>3, OnlyCallGoesOn

\* A length is answered that is true of some text.
LEMMA LengthAnswered ==
    ASSUME NEW c, NEW v, v \in (1..version)',
           c.at = "answered", c.op = "len", c.ok = TRUE, c.version = v
    PROVE  \A own : CallSound(c, own)'
  BY DEF CallSound

LEMMA LengthStep ==
    ASSUME FilesIInv, NEW t \in Threads, Files!Length(t)
    PROVE  FilesIInv'
<1>1. CASE digit_len = None
  BY <1>1, BeginsStep DEF Files!Length
<1>2. CASE digit_len # None
  <2>1. PICK v, len, c : /\ v = version /\ len = digit_len
                         /\ c = [at |-> "answered", op |-> "len", ok |-> TRUE,
                                 version |-> v, len |-> len]
    OBVIOUS
  <2>2. Files!Goes(t, c)
    BY <1>2, <2>1 DEF Files!Length
  <2>3. UNCHANGED <<source, version, cursor, digit_len, staged, cache>>
    BY DEF Files!Length
  <2>4. v \in (1..version)'
    BY <2>1, <2>3, TextsAreKnown DEF FilesIInv
  <2>5. c.at = "answered" /\ c.op = "len" /\ c.ok = TRUE /\ c.version = v
    BY <2>1
  <2>6. \A own : CallSound(c, own)'
    BY <2>4, <2>5, LengthAnswered
  <2> QED
    BY <2>2, <2>3, <2>6, OnlyCallGoesOn
<1> QED
  BY <1>1, <1>2

LEMMA ValidateStep ==
    ASSUME FilesIInv, NEW t \in Threads, Files!Validate(t) \/ Files!ReplaceCache(t)
    PROVE  FilesIInv'
  BY BeginsStep DEF Files!Validate, Files!ReplaceCache

LEMMA ReadRangeStep ==
    ASSUME FilesIInv, NEW t \in Threads, Files!ReadRange(t)
    PROVE  FilesIInv'
<1>1. PICK read \in source.reads :
          Files!Goes(t, [at |-> "scan", offset |-> read.offset, len |-> read.len,
                         from |-> Files!StartsFrom(read.offset)])
  BY DEF Files!ReadRange
<1>2. PICK offset, len, from, c :
          /\ offset = read.offset /\ len = read.len /\ from = Files!StartsFrom(offset)
          /\ c = [at |-> "scan", offset |-> offset, len |-> len, from |-> from]
  OBVIOUS
<1>3. Files!Goes(t, c)
  BY <1>1, <1>2
<1>4. offset \in Nat /\ len \in Nat \ {0}
  <2>1. source \in Files!SetupType
    BY TextsAreKnown DEF FilesIInv
  <2>2. source.reads \in SUBSET [offset : Nat, len : Nat \ {0}]
    BY <2>1 DEF Files!SetupType
  <2>3. read \in [offset : Nat, len : Nat \ {0}]
    BY <2>2
  <2> QED
    BY <1>2, <2>3
<1>5. CursorSound(from) /\ from.seen <= offset
  <2>1. CASE offset >= cursor.digit_offset
    <3>1. from = cursor
      BY <1>2, <2>1 DEF Files!StartsFrom
    <3>2. CursorSound(cursor)
      BY DEF FilesIInv
    <3>3. cursor.digit_offset = cursor.seen /\ cursor.seen \in Nat
      BY <3>2 DEF CursorSound, AtDigit, CursorType
    <3> QED
      BY <1>4, <2>1, <3>1, <3>2, <3>3
  <2>2. CASE ~(offset >= cursor.digit_offset)
    <3>1. from = Files!Start
      BY <1>2, <2>2 DEF Files!StartsFrom
    <3>2. Len(TextOf(version)) \in Nat
      BY TextsAreKnown DEF FilesIInv
    <3>3. CursorSound(Files!Start)
      BY <3>2, StartAtDigit DEF CursorSound
    <3>4. Files!Start.seen = 0
      BY DEF Files!Start
    <3> QED
      BY <1>4, <3>1, <3>3, <3>4
  <2> QED
    BY <2>1, <2>2
<1>6. UNCHANGED <<source, version, cursor, digit_len, staged, cache>>
  BY DEF Files!ReadRange
<1>7. CursorSound(from)'
  BY <1>5, <1>6, FileGoesOn DEF FilesIInv
<1>8. c.at = "scan" /\ c.from = from /\ c.offset = offset /\ c.len = len
  BY <1>2
<1>9. \A own : own = staged[t] => CallSound(c, own)'
  BY <1>4, <1>5, <1>7, <1>8 DEF CallSound
<1> QED
  BY <1>3, <1>6, <1>9, OnlyCallGoesOn

\* The text that is read.
LEMMA TextNow ==
    ASSUME FilesIInv
    PROVE  /\ Files!Text = TextOf(version) /\ Len(TextOf(version)) \in Nat
           /\ Allowed \in BOOLEAN /\ version \in 1..version
<1>1. Files!Text = TextOf(version)
  BY DEF Files!Text, TextOf
<1> QED
  BY <1>1, TextsAreKnown DEF FilesIInv

LEMMA ScanStep ==
    ASSUME FilesIInv, NEW t \in Threads, Files!Scan(t)
    PROVE  FilesIInv'
<1>1. PICK q, text, end, v :
          /\ q = call[t] /\ text = TextOf(version) /\ v = version
          /\ end = Files!Loop(text, q.from, q.offset, q.len)
  OBVIOUS
<1>2. q.at = "scan" /\ UNCHANGED <<source, version, digit_len, staged, cache>>
  BY <1>1 DEF Files!Scan
<1>3. end = Files!Loop(Files!Text, call[t].from, call[t].offset, call[t].len)
  BY <1>1, TextNow
<1>4. /\ AtDigit(text, q.from) /\ q.offset \in Nat /\ q.len \in Nat \ {0}
      /\ q.from.seen <= q.offset
  <2>1. CallSound(q, staged[t])
    BY <1>1 DEF FilesIInv
  <2> QED
    BY <1>1, <1>2, <2>1 DEF CallSound, CursorSound
<1>5. /\ end.bad => ~ValidText(text)
      /\ ~end.bad => IsSlice(end.out, DigitBytes(text, Allowed), q.offset, q.len)
      /\ end.out # <<>> => AtDigit(text, end.request_cursor)
  <2>1. Len(text) \in Nat /\ Allowed \in BOOLEAN
    BY <1>1, TextNow
  <2>2. PICK from, offset, len : from = q.from /\ offset = q.offset /\ len = q.len
    OBVIOUS
  <2> QED
    BY <1>1, <1>4, <2>1, <2>2, LoopReads
<1>6. CASE end.bad
  <2>1. Files!Fail(t, "read") /\ UNCHANGED cursor
    BY <1>3, <1>6 DEF Files!Scan
  <2>2. ~Undeserved(version)
    BY <1>1, <1>5, <1>6 DEF Undeserved
  <2> QED
    BY <1>2, <2>1, <2>2, FailureAnswered
<1>7. CASE ~end.bad
  <2>1. PICK c : c = [at |-> "answered", op |-> "read", ok |-> TRUE, version |-> v,
                      offset |-> q.offset, len |-> q.len, digits |-> end.out]
    OBVIOUS
  <2>2. /\ Files!Goes(t, c)
        /\ cursor' = IF end.out = <<>> THEN cursor ELSE end.request_cursor
    BY <1>1, <1>3, <1>7, <2>1 DEF Files!Scan
  <2>3. PICK now, own, len, digits :
            /\ now = IF end.out = <<>> THEN cursor ELSE end.request_cursor
            /\ own = staged[t] /\ len = digit_len /\ digits = cache
    OBVIOUS
  <2>4. CursorSound(now)
    <3>1. CursorSound(cursor)
      BY DEF FilesIInv
    <3>2. end.out # <<>> => CursorSound(end.request_cursor)
      BY <1>1, <1>5 DEF CursorSound
    <3> QED
      BY <2>3, <3>1, <3>2
  <2>5. CursorSound(now)' /\ LengthSound(len)' /\ CacheSound(digits)'
    BY <1>2, <2>3, <2>4, FileGoesOn DEF FilesIInv
  <2>6. CursorSound(cursor)' /\ LengthSound(digit_len)' /\ CacheSound(cache)'
    BY <1>2, <2>2, <2>3, <2>5
  <2>7. /\ c.at = "answered" /\ c.op = "read" /\ c.ok = TRUE /\ c.version = v
        /\ c.offset = q.offset /\ c.len = q.len /\ c.digits = end.out
    BY <2>1
  <2>8. FileDigits(v) = DigitBytes(text, Allowed) /\ FileDigits(v)' = FileDigits(v)
    BY <1>1, <1>2, SourceStays DEF FileDigits
  <2>9. IsSlice(c.digits, FileDigits(c.version), c.offset, c.len)'
    BY <1>5, <1>7, <2>7, <2>8
  <2>10. v \in (1..version)'
    BY <1>1, <1>2, TextNow
  <2>11. CallSound(c, own)'
    <3>1. "answered" # "scan" /\ "answered" # "publish" /\ "answered" # "cleanup"
          /\ "read" # "import"
      OBVIOUS
    <3> QED
      BY <2>7, <2>9, <2>10, <3>1 DEF CallSound
  <2>12. /\ DOMAIN staged' = Threads /\ staged'[t] = own
         /\ \A u \in Threads \ {t} : staged'[u] = staged[u]
    BY <1>2, <2>3 DEF FilesIInv
  <2> QED
    BY <1>2, <2>2, <2>6, <2>11, <2>12, CallGoesOn
<1> QED
  BY <1>6, <1>7

LEMMA CountedStep ==
    ASSUME FilesIInv, NEW t \in Threads, Files!Counted(t)
    PROVE  FilesIInv'
<1>1. PICK text, end, v : text = TextOf(version) /\ v = version /\ end = Files!Whole(text)
  OBVIOUS
<1>2. end = Files!Whole(Files!Text) /\ Len(text) \in Nat /\ Allowed \in BOOLEAN
      /\ v \in 1..version
  BY <1>1, TextNow
<1>3. UNCHANGED <<source, version, cursor, staged, cache>>
  BY DEF Files!Counted
<1>4. CASE end.bad
  <2>1. Files!Fail(t, "len") /\ UNCHANGED digit_len
    BY <1>2, <1>4 DEF Files!Counted
  <2>2. ~Undeserved(version)
    BY <1>1, <1>2, <1>4, WholeReads DEF Undeserved
  <2> QED
    BY <1>3, <2>1, <2>2, FailureAnswered
<1>5. CASE ~end.bad
  <2>1. PICK seen, own, from, digits :
            seen = end.seen /\ own = staged[t] /\ from = cursor /\ digits = cache
    OBVIOUS
  <2>2. PICK c : c = [at |-> "answered", op |-> "len", ok |-> TRUE, version |-> v,
                      len |-> seen]
    OBVIOUS
  <2>3. Files!Goes(t, c) /\ digit_len' = seen
    BY <1>1, <1>2, <1>5, <2>1, <2>2 DEF Files!Counted
  <2>4. LengthSound(seen)
    <3>1. ValidText(text) /\ seen = Cardinality(DigitBytes(text, Allowed))
      BY <1>1, <1>2, <1>5, <2>1, WholeReads
    <3> QED
      BY <1>1, <1>2, <3>1 DEF LengthSound, FileDigits
  <2>5. CursorSound(from)' /\ LengthSound(seen)' /\ CacheSound(digits)'
    BY <1>3, <2>1, <2>4, FileGoesOn DEF FilesIInv
  <2>6. CursorSound(cursor)' /\ LengthSound(digit_len)' /\ CacheSound(cache)'
    BY <1>3, <2>1, <2>3, <2>5
  <2>7. CallSound(c, own)'
    <3>1. c.at = "answered" /\ c.op = "len" /\ c.ok = TRUE /\ c.version = v
      BY <2>2
    <3>2. v \in (1..version)'
      BY <1>2, <1>3
    <3> QED
      BY <3>1, <3>2, LengthAnswered
  <2>8. /\ DOMAIN staged' = Threads /\ staged'[t] = own
        /\ \A u \in Threads \ {t} : staged'[u] = staged[u]
    BY <1>3, <2>1 DEF FilesIInv
  <2> QED
    BY <1>3, <2>3, <2>6, <2>7, <2>8, CallGoesOn
<1> QED
  BY <1>4, <1>5

\* A failed import is cleaned up.
LEMMA FailureCleansUp ==
    ASSUME NEW c, NEW v, v \in (1..version)', ~Undeserved(v)',
           c.at = "cleanup", c.ok = FALSE, c.version = v
    PROVE  \A own : CallSound(c, own)'
  BY DEF CallSound

LEMMA CopyStep ==
    ASSUME FilesIInv, NEW t \in Threads, Files!Copy(t)
    PROVE  FilesIInv'
<1>1. PICK text, end, v : text = TextOf(version) /\ v = version /\ end = Files!Whole(text)
  OBVIOUS
<1>2. end = Files!Whole(Files!Text) /\ Len(text) \in Nat /\ Allowed \in BOOLEAN
      /\ v \in 1..version
  BY <1>1, TextNow
<1>3. UNCHANGED <<source, version, cursor, cache>>
  BY DEF Files!Copy
<1>4. PICK own, from, len, digits :
          own = end.out /\ from = cursor /\ len = digit_len /\ digits = cache
  OBVIOUS
<1>5. /\ DOMAIN staged' = Threads /\ staged'[t] = own
      /\ \A u \in Threads \ {t} : staged'[u] = staged[u]
  BY <1>2, <1>4 DEF FilesIInv, Files!Copy
<1>6. CursorSound(from)' /\ LengthSound(len)' /\ CacheSound(digits)'
  BY <1>3, <1>4, FileGoesOn DEF FilesIInv
<1>7. CursorSound(cursor)' /\ CacheSound(cache)'
  BY <1>3, <1>4, <1>6
<1>8. v \in (1..version)'
  BY <1>2, <1>3
<1>9. CASE end.bad
  <2>1. PICK c : c = [at |-> "cleanup", ok |-> FALSE, version |-> v]
    OBVIOUS
  <2>2. Files!Goes(t, c) /\ UNCHANGED digit_len
    BY <1>1, <1>2, <1>9, <2>1 DEF Files!Copy
  <2>3. LengthSound(digit_len)'
    BY <1>4, <1>6, <2>2
  <2>4. ~Undeserved(v)'
    <3>1. ~Undeserved(v)
      BY <1>1, <1>2, <1>9, WholeReads DEF Undeserved
    <3> QED
      BY <1>3, <3>1, SourceStays
  <2>5. c.at = "cleanup" /\ c.ok = FALSE /\ c.version = v
    BY <2>1
  <2>6. CallSound(c, own)'
    BY <1>8, <2>4, <2>5, FailureCleansUp
  <2> QED
    BY <1>3, <1>5, <1>7, <2>2, <2>3, <2>6, CallGoesOn
<1>10. CASE ~end.bad
  <2>1. PICK c, seen : c = [at |-> "publish", version |-> v] /\ seen = end.seen
    OBVIOUS
  <2>2. Files!Goes(t, c) /\ digit_len' = seen
    BY <1>1, <1>2, <1>10, <2>1 DEF Files!Copy
  <2>3. /\ ValidText(text) /\ seen = Cardinality(DigitBytes(text, Allowed))
        /\ own \in Seq(Nat)
        /\ IsSlice(own, DigitBytes(text, Allowed), 0, Cardinality(DigitBytes(text, Allowed)))
    BY <1>1, <1>2, <1>4, <1>10, <2>1, WholeReads
  <2>4. LengthSound(seen) /\ WholeDigits(own, v)
    BY <1>1, <1>2, <2>3 DEF LengthSound, WholeDigits, FileDigits
  <2>5. LengthSound(seen)' /\ WholeDigits(own, v)'
    BY <1>3, <2>4, FileGoesOn DEF FilesIInv
  <2>6. LengthSound(digit_len)'
    BY <2>2, <2>5
  <2>7. CallSound(c, own)'
    <3>1. c.at = "publish" /\ c.version = v
      BY <2>1
    <3> QED
      BY <2>5, <3>1 DEF CallSound
  <2> QED
    BY <1>3, <1>5, <1>7, <2>2, <2>6, <2>7, CallGoesOn
<1> QED
  BY <1>9, <1>10

LEMMA CopyFailsStep ==
    ASSUME FilesIInv, NEW t \in Threads, Files!CopyFails(t)
    PROVE  FilesIInv'
<1>1. PICK own : staged' = [staged EXCEPT ![t] = own]
  BY DEF Files!CopyFails
<1>2. UNCHANGED <<source, version, cursor, digit_len, cache>> /\ source.faults
  BY DEF Files!CopyFails
<1>3. PICK v, c : v = version /\ c = [at |-> "cleanup", ok |-> FALSE, version |-> v]
  OBVIOUS
<1>4. Files!Goes(t, c)
  BY <1>3 DEF Files!CopyFails
<1>5. PICK from, len, digits : from = cursor /\ len = digit_len /\ digits = cache
  OBVIOUS
<1>6. CursorSound(from)' /\ LengthSound(len)' /\ CacheSound(digits)'
  BY <1>2, <1>5, FileGoesOn DEF FilesIInv
<1>7. CursorSound(cursor)' /\ LengthSound(digit_len)' /\ CacheSound(cache)'
  BY <1>2, <1>5, <1>6
<1>8. v \in (1..version)' /\ ~Undeserved(v)'
  BY <1>2, <1>3, TextNow DEF Undeserved
<1>9. c.at = "cleanup" /\ c.ok = FALSE /\ c.version = v
  BY <1>3
<1>10. CallSound(c, own)'
  BY <1>8, <1>9, FailureCleansUp
<1>11. /\ DOMAIN staged' = Threads /\ staged'[t] = own
       /\ \A u \in Threads \ {t} : staged'[u] = staged[u]
  BY <1>1 DEF FilesIInv
<1> QED
  BY <1>2, <1>4, <1>7, <1>10, <1>11, CallGoesOn

\* Both ends of a publication.
LEMMA PublishStep ==
    ASSUME FilesIInv, NEW t \in Threads, Files!Publish(t) \/ Files!PublishFails(t)
    PROVE  FilesIInv'
<1>1. PICK q, own, v : q = call[t] /\ own = staged[t] /\ v = q.version
  OBVIOUS
<1>2. /\ UNCHANGED <<source, version, cursor, digit_len, staged>>
      /\ q.at = "publish" /\ cache' \in {cache, own}
  BY <1>1 DEF Files!Publish, Files!PublishFails
<1>3. WholeDigits(own, v)
  <2>1. CallSound(q, own)
    BY <1>1 DEF FilesIInv
  <2> QED
    BY <1>1, <1>2, <2>1 DEF CallSound
<1>4. own # Earlier /\ v \in 1..version
  <2>1. v \in 1..version
    BY <1>3 DEF WholeDigits
  <2> QED
    BY <1>3, <2>1, WholeIsNew
<1>5. cache # Earlier => cache' # Earlier
  BY <1>2, <1>4
<1>6. PICK from, len, digits : from = cursor /\ len = digit_len /\ digits = cache'
  OBVIOUS
<1>7. CacheSound(digits)
  <2>1. CacheSound(cache) /\ CacheSound(own)
    BY <1>3, <1>4 DEF FilesIInv, CacheSound
  <2> QED
    BY <1>2, <1>6, <2>1
<1>8. CursorSound(from)' /\ LengthSound(len)' /\ CacheSound(digits)'
  BY <1>2, <1>5, <1>6, <1>7, FileGoesOn DEF FilesIInv
<1>9. CursorSound(cursor)' /\ LengthSound(digit_len)' /\ CacheSound(cache)'
  BY <1>2, <1>6, <1>8
<1>10. v \in (1..version)'
  BY <1>2, <1>4
<1>11. /\ DOMAIN staged' = Threads /\ staged'[t] = own
       /\ \A u \in Threads \ {t} : staged'[u] = staged[u]
  BY <1>1, <1>2 DEF FilesIInv
<1>12. CASE Files!Publish(t)
  <2>1. PICK c : c = [at |-> "cleanup", ok |-> TRUE, version |-> v]
    OBVIOUS
  <2>2. Files!Goes(t, c) /\ cache' = own
    BY <1>1, <1>12, <2>1 DEF Files!Publish
  <2>3. c.at = "cleanup" /\ c.ok = TRUE /\ c.version = v
    BY <2>1
  <2>4. CallSound(c, own)'
    <3>1. (cache # Earlier)'
      BY <1>4, <2>2
    <3> QED
      BY <1>10, <2>3, <3>1 DEF CallSound
  <2> QED
    BY <1>2, <1>5, <1>9, <1>11, <2>2, <2>4, CallGoesOn
<1>13. CASE Files!PublishFails(t)
  <2>1. PICK c : c = [at |-> "cleanup", ok |-> FALSE, version |-> v]
    OBVIOUS
  <2>2. Files!Goes(t, c) /\ source.faults
    BY <1>1, <1>13, <2>1 DEF Files!PublishFails
  <2>3. ~Undeserved(v)'
    BY <1>2, <2>2 DEF Undeserved
  <2>4. c.at = "cleanup" /\ c.ok = FALSE /\ c.version = v
    BY <2>1
  <2>5. CallSound(c, own)'
    BY <1>10, <2>3, <2>4, FailureCleansUp
  <2> QED
    BY <1>2, <1>5, <1>9, <1>11, <2>2, <2>5, CallGoesOn
<1> QED
  BY <1>12, <1>13

LEMMA CleanupStep ==
    ASSUME FilesIInv, NEW t \in Threads, Files!Cleanup(t)
    PROVE  FilesIInv'
<1>1. PICK removed \in IF source.faults THEN BOOLEAN ELSE {TRUE} :
          /\ staged' = IF removed THEN [staged EXCEPT ![t] = None] ELSE staged
          /\ Files!Goes(t, [at |-> "answered", op |-> "import", ok |-> call[t].ok /\ removed,
                            version |-> call[t].version, removed |-> removed])
  BY Zenon DEF Files!Cleanup
<1>2. call[t].at = "cleanup" /\ UNCHANGED <<source, version, cursor, digit_len, cache>>
  BY DEF Files!Cleanup
<1>3. PICK q, v, own : q = call[t] /\ v = q.version /\ own = staged'[t]
  OBVIOUS
<1>4. /\ v \in 1..version
      /\ q.ok => cache # Earlier
      /\ ~q.ok => ~Undeserved(v)
  <2>1. CallSound(q, staged[t])
    BY <1>3 DEF FilesIInv
  <2> QED
    BY <1>2, <1>3, <2>1 DEF CallSound
<1>5. PICK c : c = [at |-> "answered", op |-> "import", ok |-> q.ok /\ removed,
                    version |-> v, removed |-> removed]
  OBVIOUS
<1>6. Files!Goes(t, c)
  BY <1>1, <1>3, <1>5, Zenon
<1>7. /\ c.at = "answered" /\ c.op = "import" /\ c.version = v
      /\ c.ok <=> q.ok /\ removed
      /\ c.removed <=> removed
  <2>1. /\ c.at = "answered" /\ c.op = "import" /\ c.version = v
        /\ c.ok = (q.ok /\ removed) /\ c.removed = removed
    BY <1>5, Zenon
  <2> QED
    BY <2>1, Zenon
<1>8. /\ DOMAIN staged' = Threads /\ (removed => own = None)
      /\ \A u \in Threads \ {t} : staged'[u] = staged[u]
  BY <1>1, <1>3 DEF FilesIInv
<1>9. ~removed => ~Undeserved(v)
  BY <1>1 DEF Undeserved
<1>10. v \in (1..version)' /\ (q.ok => cache' # Earlier)
       /\ (~(q.ok /\ removed) => ~Undeserved(v)')
  <2>1. Undeserved(v)' <=> Undeserved(v)
    BY <1>2, SourceStays
  <2> QED
    BY <1>2, <1>4, <1>9, <2>1
<1>11. CallSound(c, own)'
  <2>1. "answered" # "scan" /\ "answered" # "publish" /\ "answered" # "cleanup"
        /\ "import" # "read"
    OBVIOUS
  <2> QED
    BY <1>7, <1>8, <1>10, <2>1 DEF CallSound
<1>12. PICK from, len, digits : from = cursor /\ len = digit_len /\ digits = cache
  OBVIOUS
<1>13. CursorSound(from)' /\ LengthSound(len)' /\ CacheSound(digits)'
  BY <1>2, <1>12, FileGoesOn DEF FilesIInv
<1>14. CursorSound(cursor)' /\ LengthSound(digit_len)' /\ CacheSound(cache)'
  BY <1>2, <1>12, <1>13
<1> QED
  BY <1>2, <1>3, <1>6, <1>8, <1>11, <1>14, CallGoesOn

LEMMA GrowStep ==
    ASSUME FilesIInv, Files!Grow
    PROVE  FilesIInv'
<1>1. /\ source' = source /\ UNCHANGED <<cursor, digit_len, staged, cache, call>>
      /\ version < Len(source.texts) /\ version' = version + 1
  BY DEF Files!Grow
<1>2. PICK from, len, digits : from = cursor /\ len = digit_len /\ digits = cache
  OBVIOUS
<1>3. /\ version' \in 1..Len(source.texts)
      /\ CursorSound(from)' /\ LengthSound(len)' /\ CacheSound(digits)'
  BY <1>1, <1>2, FileGoesOn DEF FilesIInv
<1>4. CursorSound(cursor)' /\ LengthSound(digit_len)' /\ CacheSound(cache)'
  BY <1>1, <1>2, <1>3
<1>5. ASSUME NEW u \in Threads PROVE CallSound(call[u], staged[u])'
  <2>1. PICK k, o : k = call[u] /\ o = staged[u]
    OBVIOUS
  <2>2. CallSound(k, o)'
    BY <1>1, <2>1, FileGoesOn DEF FilesIInv
  <2> QED
    BY <1>1, <2>1, <2>2
<1>6. /\ source' \in FileSetups /\ version' \in 1..Len(source'.texts)
      /\ DOMAIN staged' = Threads /\ DOMAIN call' = Threads
  BY <1>1, <1>3 DEF FilesIInv
<1> QED
  BY <1>4, <1>5, <1>6, Zenon DEF FilesIInv

LEMMA FilesRest ==
    ASSUME FilesIInv, UNCHANGED fileVars
    PROVE  FilesIInv'
<1>1. UNCHANGED <<source, version, cursor, digit_len, staged, cache, call>>
  BY DEF fileVars
<1>2. PICK from, len, digits : from = cursor /\ len = digit_len /\ digits = cache
  OBVIOUS
<1>3. CursorSound(from)' /\ LengthSound(len)' /\ CacheSound(digits)'
  BY <1>1, <1>2, FileGoesOn DEF FilesIInv
<1>4. CursorSound(cursor)' /\ LengthSound(digit_len)' /\ CacheSound(cache)'
  BY <1>1, <1>2, <1>3
<1>5. ASSUME NEW u \in Threads PROVE CallSound(call[u], staged[u])'
  <2>1. PICK k, o : k = call[u] /\ o = staged[u]
    OBVIOUS
  <2>2. CallSound(k, o)'
    BY <1>1, <2>1, FileGoesOn DEF FilesIInv
  <2> QED
    BY <1>1, <2>1, <2>2
<1>6. /\ source' \in FileSetups /\ version' \in 1..Len(source'.texts)
      /\ DOMAIN staged' = Threads /\ DOMAIN call' = Threads
  BY <1>1 DEF FilesIInv
<1> QED
  BY <1>4, <1>5, <1>6, Zenon DEF FilesIInv

\* The file begins in its invariant, every step keeps it, and it says what a
\* source promises.
LEMMA FilesStart ==
    ASSUME Files!Init
    PROVE  FilesIInv
<1>1. /\ source \in FileSetups /\ version = 1 /\ cursor = Files!Start /\ digit_len = None
      /\ staged = [t \in Threads |-> None] /\ cache = Earlier
      /\ call = [t \in Threads |-> Files!Idle]
  BY DEF Files!Init
<1>2. version \in 1..Len(source.texts) /\ Len(TextOf(version)) \in Nat
  BY <1>1, TextsAreKnown
<1>3. CursorSound(cursor)
  BY <1>1, <1>2, StartAtDigit DEF CursorSound
<1>4. LengthSound(digit_len) /\ CacheSound(cache)
  BY <1>1 DEF LengthSound, CacheSound
<1>5. ASSUME NEW t \in Threads PROVE CallSound(call[t], staged[t])
  <2>1. call[t].at = "idle"
    BY <1>1 DEF Files!Idle
  <2> QED
    BY <2>1 DEF CallSound
<1> QED
  BY <1>1, <1>2, <1>3, <1>4, <1>5 DEF FilesIInv

LEMMA FilesStep ==
    ASSUME FilesIInv, Files!Next
    PROVE  FilesIInv'
<1>1. ASSUME NEW t \in Threads,
             \/ Files!ReadRange(t) \/ Files!Scan(t) \/ Files!FailsAt(t, "scan", "read")
             \/ Files!Length(t) \/ Files!Validate(t) \/ Files!Counted(t)
             \/ Files!FailsAt(t, "count", "len")
      PROVE  FilesIInv'
  <2>1. "read" # "import" /\ "len" # "import"
    OBVIOUS
  <2> QED
    BY <1>1, <2>1, ReadRangeStep, ScanStep, FailsStep, LengthStep, ValidateStep, CountedStep
<1>2. ASSUME NEW t \in Threads,
             \/ Files!ReplaceCache(t) \/ Files!Copy(t) \/ Files!CopyFails(t)
             \/ Files!Publish(t) \/ Files!PublishFails(t) \/ Files!Cleanup(t)
             \/ Files!ForgetAnswer(t)
      PROVE  FilesIInv'
  BY <1>2, ValidateStep, CopyStep, CopyFailsStep, PublishStep, CleanupStep, ForgetStep
<1> QED
  BY <1>1, <1>2, GrowStep DEF Files!Next

LEMMA FilesHold ==
    ASSUME FilesIInv
    PROVE  Files!FileInvariant
<1>0. /\ Files!Text = TextOf(version) /\ source.allow_decimal_prefix = Allowed
      /\ \A v : Files!DigitsIn(v) = FileDigits(v) /\ (Files!Valid(v) <=> ValidText(TextOf(v)))
  <2>1. Files!Text = TextOf(version) /\ source.allow_decimal_prefix = Allowed
    BY DEF Files!Text, TextOf, Allowed
  <2>2. ASSUME NEW v PROVE Files!DigitsIn(v) = FileDigits(v)
    BY FilesText DEF Files!DigitsIn, FileDigits, TextOf, Allowed
  <2>3. ASSUME NEW v PROVE Files!Valid(v) <=> ValidText(TextOf(v))
    BY FilesText DEF Files!Valid, ValidText, TextOf, Allowed
  <2> QED
    BY <2>1, <2>2, <2>3
<1>1. Files!ReadsAreSlices
  BY <1>0, FilesText DEF Files!ReadsAreSlices, FilesIInv, CallSound
<1>2. Files!ErrorsAreDeserved
  BY <1>0 DEF Files!ErrorsAreDeserved, FilesIInv, CallSound, Undeserved
<1>3. Files!CursorIsExact
  <2>1. AtDigit(TextOf(version), cursor)
    BY DEF FilesIInv, CursorSound
  <2> QED
    BY <1>0, <2>1, FilesText
    DEF Files!CursorIsExact, Files!IsExact, AtDigit, StandsAt
<1>4. Files!LengthWasTrue
  BY <1>0, FilesText DEF Files!LengthWasTrue, FilesIInv, LengthSound
<1>5. Files!ImportsAreWhole
  <2>1. cache # Earlier => \E v \in 1..version : WholeDigits(cache, v)
    BY DEF FilesIInv, CacheSound
  <2>2. cache # Earlier =>
            \E v \in 1..version :
                /\ Files!Valid(v)
                /\ Files!IsSlice(cache, Files!DigitsIn(v), 0,
                                 Files!Cardinality(Files!DigitsIn(v)))
    BY <1>0, <2>1, FilesText DEF WholeDigits
  <2>3. ASSUME NEW t \in Threads, call[t].at = "answered", call[t].op = "import"
        PROVE  /\ call[t].ok => cache # Earlier
               /\ call[t].removed => staged[t] = None
    BY <2>3 DEF FilesIInv, CallSound
  <2> QED
    BY <2>2, <2>3 DEF Files!ImportsAreWhole
<1> QED
  BY <1>1, <1>2, <1>3, <1>4, <1>5 DEF Files!FileInvariant

-----------------------------------------------------------------------------
(* The pools side by side.                                                 *)

LEMMA PoolRests ==
    ASSUME ReadersIInv, UNCHANGED readerVars
    PROVE  ReadersIInv'
<1>1. UNCHANGED <<setup, file, available, pc, reading, reader, failed>>
  BY DEF readerVars
<1>2. SlotsInvariant'
  <2>1. \A t \in Threads : Held(t)' <=> Held(t)
    BY <1>1 DEF Held
  <2> QED
    BY <1>1, <2>1 DEF ReadersIInv, SlotsInvariant, ReadRequests
<1>3. WakeupInvariant'
  <2>1. Asleep' = Asleep /\ Awake' = Awake
    BY <1>1 DEF Asleep, Awake
  <2> QED
    BY <1>1, <2>1 DEF ReadersIInv, WakeupInvariant
<1>4. ReadersInvariant'
  <2>1. ASSUME NEW s \in Slots PROVE Sound(reader[s])'
    <3>1. PICK r : r = reader[s]
      OBVIOUS
    <3>2. Sound(r)'
      BY <1>1, <3>1, SameText DEF ReadersIInv, ReadersInvariant
    <3> QED
      BY <1>1, <3>1, <3>2
  <2>2. reader' \in [Slots -> ReaderType]
    BY <1>1 DEF ReadersIInv, ReadersInvariant
  <2> QED
    BY <2>1, <2>2 DEF ReadersInvariant
<1>5. UseInvariant'
  <2>1. ASSUME NEW t \in Threads
        PROVE  /\ pc[t] = "skip" => Skipping(reader[reading[t].slot], reading[t])'
               /\ pc[t] = "fill" => Filling(reader[reading[t].slot], reading[t])'
               /\ pc[t] = "leased" => Shown(reader[reading[t].slot], reading[t])'
    <3>1. PICK r, q : q = reading[t] /\ r = reader[q.slot]
      OBVIOUS
    <3>2. /\ pc[t] = "skip" => Skipping(r, q)
          /\ pc[t] = "fill" => Filling(r, q)
          /\ pc[t] = "leased" => Shown(r, q)
      BY <3>1 DEF ReadersIInv, UseInvariant
    <3>3. /\ pc[t] = "skip" => Skipping(r, q)'
          /\ pc[t] = "fill" => Filling(r, q)'
          /\ pc[t] = "leased" => Shown(r, q)'
      BY <1>1, <3>2, SameText
    <3>4. r = reader'[reading'[t].slot] /\ q = reading'[t]
      BY <1>1, <3>1
    <3> QED
      BY <3>3, <3>4
  <2> QED
    BY <1>1, <2>1 DEF UseInvariant
<1> QED
  BY <1>2, <1>3, <1>4, <1>5 DEF ReadersIInv

\* One of the pools moves, the others rest as they began: only what the one
\* that moves keeps is an invariant of interest.
PoolsIInv ==
    /\ side = "readers" => ReadersIInv /\ SkipsInvariant
    /\ side = "file" => FilesIInv

\* However many threads, slots and digits there are: no slot is lost or in two
\* hands and no wakeup for one is missed, a lease shows the digits that were
\* asked for, unless its reader has met a byte that does not fit (checkout, DigitCacheReadLease,
\* DigitCacheReader::fill), and reads of a digit file return slices of it,
\* whichever of them moved the shared cursor, its length was true, and an import
\* replaces the cache with a whole text or leaves it alone (FileDigitSource,
\* DigitCache::replace_from).
THEOREM PoolsSound == PoolsSpec => []PoolInvariant
<1>1. PoolsInit => PoolsIInv
  BY ReadersStart, SkipsStart, FilesStart DEF PoolsInit, PoolsIInv
<1>2. PoolsIInv /\ [PoolsNext]_poolsVars => PoolsIInv'
  <2> SUFFICES ASSUME PoolsIInv, [PoolsNext]_poolsVars PROVE PoolsIInv'
    OBVIOUS
  <2>1. side' = side
    BY DEF PoolsNext, poolsVars
  <2>2. ASSUME side = "readers" PROVE ReadersIInv' /\ SkipsInvariant'
    <3>1. Readers!Next \/ UNCHANGED readerVars
      BY <2>2 DEF PoolsNext, poolsVars
    <3>2. ReadersIInv'
      BY <2>2, <3>1, ReadersStep, PoolRests DEF PoolsIInv
    <3>3. UNCHANGED readerVars => UNCHANGED <<file, reader, failed>>
      BY DEF readerVars
    <3>4. SkipsInvariant'
      BY <2>2, <3>1, <3>3, SkipsKept, NoSlotSkips DEF PoolsIInv
    <3> QED
      BY <3>2, <3>4
  <2>3. ASSUME side = "file" PROVE FilesIInv'
    <3>1. Files!Next \/ UNCHANGED fileVars
      BY <2>3 DEF PoolsNext, poolsVars
    <3> QED
      BY <2>3, <3>1, FilesStep, FilesRest DEF PoolsIInv
  <2> QED
    BY <2>1, <2>2, <2>3 DEF PoolsIInv
<1>3. PoolsIInv => PoolInvariant
  BY ReadersHold, FilesHold DEF PoolsIInv, PoolInvariant
<1> QED
  BY <1>1, <1>2, <1>3, PTL DEF PoolsSpec
=============================================================================
