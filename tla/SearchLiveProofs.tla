-------------------------- MODULE SearchLiveProofs --------------------------
(***************************************************************************)
(* What a chunk meets on its way to the accelerator and back, for every    *)
(* value of the constants: the ring that uploads, scores and reads back    *)
(* its batches (GpuRing), whatever the device does; and the duty policy    *)
(* that bounds the busy time (DutyPolicy), as long as no chunk takes       *)
(* longer than the window.                                                 *)
(***************************************************************************)
EXTENDS MCSearchLive, FiniteSetTheorems, TLAPS

-----------------------------------------------------------------------------
(* Arithmetic and sequences.                                               *)

\* Batches less than a ring apart use different slots.
LEMMA SlotsDiffer ==
    ASSUME NEW a \in Nat, NEW b \in Nat, a < b, b - a < Depth
    PROVE  SlotOf(a) # SlotOf(b)
<1>1. Depth \in Nat \ {0}
  BY RingAssumption
<1> DEFINE p == a \div Depth
           q == b \div Depth
<1>2. p \in Nat /\ q \in Nat
  BY <1>1
<1>3. a % Depth = a - Depth * p /\ b % Depth = b - Depth * q
  BY <1>1
<1> SUFFICES ASSUME a % Depth = b % Depth PROVE FALSE
  BY DEF SlotOf
<1> HIDE DEF p, q
<1>4. b - a = Depth * q - Depth * p
  BY <1>1, <1>2, <1>3
<1>5. b - a = Depth * (q - p)
  BY <1>1, <1>2, <1>4
<1>6. CASE q <= p
  <2>1. Depth * (q - p) <= 0
    BY <1>1, <1>2, <1>6
  <2> QED
    BY <2>1, <1>5
<1>7. CASE q > p
  <2>1. q - p >= 1
    BY <1>2, <1>7
  <2>2. Depth * (q - p) >= Depth
    BY <1>1, <1>2, <2>1
  <2> QED
    BY <2>2, <1>1, <1>5
<1> QED
  BY <1>2, <1>6, <1>7

LEMMA SlotIsIndex ==
    ASSUME NEW s \in Nat
    PROVE  SlotOf(s) \in Indices
BY RingAssumption DEF SlotOf, Indices

\* A batch has at least one window.
LEMMA LimitsArePositive ==
    ASSUME NEW windows \in Nat, NEW limit \in HardwareLimits
    PROVE  Smaller(limit, Larger((windows + Depth - 1) \div Depth, 1)) \in Nat \ {0}
<1>1. Depth \in Nat \ {0} /\ limit \in Nat \ {0}
  BY RingAssumption
<1>2. (windows + Depth - 1) \div Depth \in Int
  BY <1>1
<1>3. Larger((windows + Depth - 1) \div Depth, 1) \in Nat \ {0}
  BY <1>2 DEF Larger
<1> QED
  BY <1>1, <1>3 DEF Smaller

LEMMA LimitIsPositive ==
    ASSUME total \in Nat, hardwareLimit \in HardwareLimits
    PROVE  BatchLimit \in Nat \ {0}
BY LimitsArePositive DEF BatchLimit

\* The windows a batch holds, as the device scores them.
Run(c, o, n) == [w \in 1..n |-> <<c, o + w>>]
\* The window a batch begins after, and how many it holds.
Offset(s) == s * BatchLimit
SizeOf(s) == Smaller(total - Offset(s), BatchLimit)
Windows(s) == Run(chunk, Offset(s), SizeOf(s))

LEMMA SequencesEqual ==
    ASSUME NEW S, NEW s \in Seq(S), NEW t \in Seq(S), Len(s) = Len(t),
           \A i \in 1..Len(s) : s[i] = t[i]
    PROVE  s = t
OBVIOUS

LEMMA RunIsSeq ==
    ASSUME NEW S, NEW c, NEW o \in Nat, NEW n \in Nat, \A w \in 1..n : <<c, o + w>> \in S
    PROVE  /\ Run(c, o, n) \in Seq(S)
           /\ Len(Run(c, o, n)) = n /\ DOMAIN Run(c, o, n) = 1..n
           /\ \A w \in 1..n : Run(c, o, n)[w] = <<c, o + w>>
BY DEF Run

\* What two batches hold, one after the other.
LEMMA RunsJoin ==
    ASSUME NEW c, NEW m \in Nat, NEW n \in Nat
    PROVE  Run(c, 0, m) \o Run(c, m, n) = Run(c, 0, m + n)
<1> DEFINE S == {c} \X Nat
           a == [w \in 1..m |-> <<c, 0 + w>>]
           b == [w \in 1..n |-> <<c, m + w>>]
<1>1. a \in Seq(S) /\ b \in Seq(S)
  OBVIOUS
<1>2. Len(a) = m /\ \A w \in 1..m : a[w] = <<c, 0 + w>>
  OBVIOUS
<1>3. Len(b) = n /\ \A w \in 1..n : b[w] = <<c, m + w>>
  OBVIOUS
<1> HIDE DEF a, b, S
<1>4. a \o b \in Seq(S) /\ Len(a \o b) = m + n
  <2>1. a \o b \in Seq(S) /\ Len(a \o b) = Len(a) + Len(b)
    BY <1>1
  <2> QED BY <2>1, <1>2, <1>3
<1>5. ASSUME NEW w \in 1..(m + n) PROVE (a \o b)[w] = <<c, 0 + w>>
  <2>1. CASE w <= m
    <3>1. w \in 1..m /\ (a \o b)[w] = a[w]
      BY <1>1, <1>2, <1>3, <2>1
    <3> QED BY <1>2, <3>1
  <2>2. CASE w > m
    <3>1. (a \o b)[w] = b[w - m]
      BY <1>1, <1>2, <1>3, <2>2
    <3>2. w - m \in 1..n /\ m + (w - m) = 0 + w
      BY <2>2
    <3> QED BY <1>3, <3>1, <3>2
  <2>3. w <= m \/ w > m
    OBVIOUS
  <2> QED BY <2>1, <2>2, <2>3
<1> DEFINE r == [w \in 1..(m + n) |-> <<c, 0 + w>>]
<1>6. r \in Seq(S) /\ Len(r) = m + n /\ \A w \in 1..(m + n) : r[w] = <<c, 0 + w>>
  BY DEF S
<1> HIDE DEF r
<1>7. a \o b = r
  BY <1>4, <1>5, <1>6, SequencesEqual
<1> QED
  BY <1>7 DEF a, b, r, Run

\* The first part of a sequence that begins like a run is the run.
LEMMA RunIsRead ==
    ASSUME NEW S, NEW s \in Seq(S), NEW c, NEW o \in Nat, NEW n \in Nat, n <= Len(s),
           \A w \in 1..n : s[w] = <<c, o + w>>
    PROVE  SubSeq(s, 1, n) = Run(c, o, n)
<1>1. SubSeq(s, 1, n) = [w \in 1..n |-> SubSeq(s, 1, n)[w]]
      /\ \A w \in 1..n : SubSeq(s, 1, n)[w] = s[w]
  OBVIOUS
<1> QED
  BY <1>1 DEF Run

-----------------------------------------------------------------------------
(* The inductive invariant.                                                *)

Scored == (1..MaxChunks) \X (1..MaxWindows)
\* Buffers whose staging copy is as large as they are.
FullSlot == {s \in Slot : Len(s.staging) = s.capacity}
Batch == [sequence : Nat, slot : Indices, size : 1..MaxWindows]
Job == [slot : Indices, content : Seq(Scored)]
Pool == [Indices -> FullSlot \cup {None}]

Types ==
    /\ hardwareLimit \in HardwareLimits
    /\ pc \in {"idle", "running", "closed"}
    /\ chunk \in 0..MaxChunks
    /\ pc = "running" => chunk >= 1
    /\ total \in 0..MaxWindows
    /\ start \in 0..total
    /\ sequence \in Nat
    /\ pending \in Seq(Batch)
    /\ Len(pending) <= Depth
    /\ channel \in Seq(Nat \X BOOLEAN)
    /\ completed \in SUBSET (Nat \X BOOLEAN)
    /\ slots \in Pool
    /\ queue \in Seq(Job)
    /\ \A j \in DOMAIN queue : slots[queue[j].slot] \in FullSlot
    /\ lost \in BOOLEAN

\* Batches in flight are the last ones that were cut off the chunk, in order,
\* each with the slot of its number; the first was not refused.
Batches ==
    /\ Len(pending) <= sequence
    /\ start = Smaller(Offset(sequence), total)
    /\ \A k \in DOMAIN pending :
           /\ pending[k].sequence = sequence - Len(pending) + k - 1
           /\ pending[k].slot = SlotOf(pending[k].sequence)
           /\ Offset(pending[k].sequence) < total
           /\ pending[k].size = SizeOf(pending[k].sequence)
    /\ sequence > 0 => Smaller(total, BatchLimit) <= BufferWindows

\* What the device has still to do are the youngest of them.
Jobs ==
    /\ Len(queue) <= Len(pending)
    /\ \A j \in DOMAIN queue :
           LET k == Len(pending) - Len(queue) + j
           IN  /\ queue[j].slot = pending[k].slot
               /\ queue[j].content = Windows(pending[k].sequence)

\* The slot of a batch in flight is the batch's; it is mapped only after the
\* device is through, and holds the batch's windows from then on.
Holds(pool, k) ==
    LET slot == pool[pending[k].slot]
    IN  /\ slot \in FullSlot
        /\ slot.sequence = pending[k].sequence
        /\ pending[k].size <= slot.capacity
        /\ slot.map = "mapped" => slot.done
        /\ slot.done =>
               /\ k <= Len(pending) - Len(queue)
               /\ \A w \in 1..pending[k].size :
                      slot.staging[w] = <<chunk, Offset(pending[k].sequence) + w>>
Held(pool) == \A k \in DOMAIN pending : Holds(pool, k)

\* No other slot is mapped or waits to be.
Free(pool) ==
    \A i \in Indices :
        (\A k \in DOMAIN pending : pending[k].slot # i)
            => pool[i] = None \/ pool[i].map = "unmapped"

\* A report is about a batch in flight, there is one at most about each, and
\* the buffer is mapped as it says.
About(r, pool) ==
    \E k \in DOMAIN pending :
        /\ r[1] = pending[k].sequence
        /\ pool[pending[k].slot].map = IF r[2] THEN "mapped" ELSE "unmapped"
Reported(pool, received, reports) ==
    /\ \A r \in received : About(r, pool)
    /\ \A i \in DOMAIN reports : About(reports[i], pool)
    /\ \A i, j \in DOMAIN reports : i # j => reports[i][1] # reports[j][1]
    /\ \A i \in DOMAIN reports : \A r \in received : r[1] # reports[i][1]

\* The scores so far are those of the windows before the oldest batch.
Collected == scores = Run(chunk, 0, Smaller(Offset(sequence - Len(pending)), total))

Running ==
    /\ Batches
    /\ Jobs
    /\ Held(slots)
    /\ Free(slots)
    /\ Reported(slots, completed, channel)
    /\ Collected

\* Between two chunks, and after an error, nothing is mapped or in flight.
Unmapped(pool) == \A i \in Indices : pool[i] = None \/ pool[i].map = "unmapped"
Resting ==
    /\ pending = <<>> /\ channel = <<>> /\ completed = {}
    /\ Unmapped(slots)
    /\ pc = "idle" => queue = <<>>

IInv ==
    /\ Types
    /\ pc = "running" => Running
    /\ pc # "running" => Resting

-----------------------------------------------------------------------------
(* What the invariant says of slots and reports.                           *)

LEMMA SlotFields ==
    ASSUME NEW s \in FullSlot
    PROVE  /\ s # None /\ s \in Slot
           /\ s.capacity \in 1..MaxWindows
           /\ s.staging \in Seq(Scored \cup {None}) /\ Len(s.staging) = s.capacity
           /\ s.map \in {"unmapped", "pending", "mapped"}
           /\ s.sequence \in Nat \cup {None}
           /\ s.done \in BOOLEAN
BY RingAssumption DEF FullSlot, Slot, Scored

\* Mapping and unmapping changes nothing else.
LEMMA SlotMaps ==
    ASSUME NEW s \in FullSlot, NEW m \in {"unmapped", "pending", "mapped"}
    PROVE  /\ [s EXCEPT !.map = m] \in FullSlot
           /\ [s EXCEPT !.map = m].map = m
           /\ [s EXCEPT !.map = m].capacity = s.capacity
           /\ [s EXCEPT !.map = m].staging = s.staging
           /\ [s EXCEPT !.map = m].sequence = s.sequence
           /\ [s EXCEPT !.map = m].done = s.done
BY DEF FullSlot, Slot

LEMMA PendingFields ==
    ASSUME Types, NEW k \in DOMAIN pending
    PROVE  /\ pending[k] \in Batch
           /\ pending[k].sequence \in Nat /\ pending[k].slot \in Indices
           /\ pending[k].size \in 1..MaxWindows
           /\ k \in 1..Len(pending) /\ Len(pending) \in Nat
<1>1. pending[k] \in Batch /\ k \in 1..Len(pending) /\ Len(pending) \in Nat
  BY DEF Types
<1> QED
  BY <1>1 DEF Batch

LEMMA QueueFields ==
    ASSUME Types, NEW j \in DOMAIN queue
    PROVE  /\ queue[j].slot \in Indices /\ queue[j].content \in Seq(Scored)
           /\ slots[queue[j].slot] \in FullSlot
           /\ j \in 1..Len(queue) /\ Len(queue) \in Nat
<1>1. queue[j] \in Job /\ j \in 1..Len(queue) /\ Len(queue) \in Nat
      /\ slots[queue[j].slot] \in FullSlot
  BY DEF Types
<1> QED
  BY <1>1 DEF Job

LEMMA PendingDiffer ==
    ASSUME Types, Batches, NEW j \in DOMAIN pending, NEW k \in DOMAIN pending, j # k
    PROVE  /\ pending[j].sequence # pending[k].sequence
           /\ pending[j].slot # pending[k].slot
<1>1. /\ pending[j].sequence \in Nat /\ pending[k].sequence \in Nat
      /\ j \in 1..Len(pending) /\ k \in 1..Len(pending) /\ Len(pending) \in Nat
      /\ Len(pending) <= Depth /\ sequence \in Nat
  BY PendingFields DEF Types
<1>2. /\ pending[j].sequence = sequence - Len(pending) + j - 1
      /\ pending[k].sequence = sequence - Len(pending) + k - 1
      /\ pending[j].slot = SlotOf(pending[j].sequence)
      /\ pending[k].slot = SlotOf(pending[k].sequence)
  BY DEF Batches
<1>3. Depth \in Nat
  BY RingAssumption
<1>4. ASSUME NEW a \in Nat, NEW b \in Nat, a # b,
             NEW m \in 1..Len(pending), NEW n \in 1..Len(pending),
             a = sequence - Len(pending) + m - 1,
             b = sequence - Len(pending) + n - 1
      PROVE  SlotOf(a) # SlotOf(b)
  <2>1. a - b = m - n /\ m - n < Depth /\ n - m < Depth
    BY <1>1, <1>3, <1>4
  <2>2. CASE a < b
    <3>1. b - a < Depth
      BY <1>3, <2>1
    <3> QED BY <2>2, <3>1, SlotsDiffer
  <2>3. CASE b < a
    <3>1. a - b < Depth
      BY <1>3, <2>1
    <3> QED BY <2>3, <3>1, SlotsDiffer
  <2> QED
    BY <1>4, <2>2, <2>3
<1>5. pending[j].sequence # pending[k].sequence
  BY <1>1, <1>2
<1> QED
  BY <1>1, <1>2, <1>4, <1>5

\* The next batch gets a slot that no batch in flight has.
LEMMA NextSlotDiffers ==
    ASSUME Types, Batches, Len(pending) < Depth, NEW k \in DOMAIN pending
    PROVE  pending[k].slot # SlotOf(sequence)
<1>1. /\ pending[k].sequence \in Nat /\ k \in 1..Len(pending) /\ Len(pending) \in Nat
      /\ sequence \in Nat
  BY PendingFields DEF Types
<1>2. /\ pending[k].sequence = sequence - Len(pending) + k - 1
      /\ pending[k].slot = SlotOf(pending[k].sequence)
  BY DEF Batches
<1>3. Depth \in Nat
  BY RingAssumption
<1>4. pending[k].sequence < sequence /\ sequence - pending[k].sequence < Depth
  BY <1>1, <1>2, <1>3
<1> QED
  BY <1>1, <1>2, <1>4, SlotsDiffer

\* A read-back that has finished and not reported is one of a batch in flight.
LEMMA FinishedIsPending ==
    ASSUME Types, Free(slots), Held(slots), NEW i \in Finished
    PROVE  /\ i \in Indices /\ slots[i] \in FullSlot
           /\ slots[i].map = "pending" /\ slots[i].done
           /\ \E k \in DOMAIN pending :
                  pending[k].slot = i /\ slots[i].sequence = pending[k].sequence
<1>1. i \in Indices /\ slots[i] # None /\ slots[i].map = "pending" /\ slots[i].done
  BY DEF Finished, Waiting
<1>2. slots[i] \in FullSlot
  BY <1>1 DEF Types, Pool
<1>3. PICK k \in DOMAIN pending : pending[k].slot = i
  BY <1>1 DEF Free
<1>4. slots[i].sequence = pending[k].sequence
  BY <1>3 DEF Held, Holds
<1> QED
  BY <1>1, <1>2, <1>3, <1>4

-----------------------------------------------------------------------------
(* Callbacks.                                                              *)

\* The reports of one poll or submission: all of them of finished read-backs,
\* each once.
LEMMA ReportIs ==
    ASSUME Types, Free(slots), Held(slots), NEW order \in SetToSeqs(Finished), NEW bad
    PROVE  /\ Report(order, bad) \in Seq(Nat \X BOOLEAN)
           /\ DOMAIN Report(order, bad) = DOMAIN order
           /\ \A m \in DOMAIN order :
                  /\ order[m] \in Finished
                  /\ Report(order, bad)[m] = <<slots[order[m]].sequence, order[m] \notin bad>>
           /\ \A m, n \in DOMAIN order : m # n => order[m] # order[n]
<1> DEFINE D == 1..Cardinality(Finished)
<1>1. order \in [D -> Finished] /\ \A m, n \in D : m # n => order[m] # order[n]
  BY DEF SetToSeqs
<1>2. IsFiniteSet(Finished) /\ Cardinality(Finished) \in Nat
  <2>1. Depth \in Nat
    BY RingAssumption
  <2>2. IsFiniteSet(Indices)
    BY <2>1, FS_Interval DEF Indices
  <2>3. Finished \subseteq Indices
    BY DEF Finished, Waiting
  <2> QED
    BY <2>2, <2>3, FS_Subset, FS_CardinalityType
<1>3. Len(order) = Cardinality(Finished)
  BY <1>1, <1>2
<1>4. ASSUME NEW m \in D
      PROVE  <<slots[order[m]].sequence, order[m] \notin bad>> \in Nat \X BOOLEAN
  <2>1. order[m] \in Finished
    BY <1>1
  <2>2. PICK k \in DOMAIN pending : slots[order[m]].sequence = pending[k].sequence
    BY <2>1, FinishedIsPending
  <2> QED
    BY <2>2, PendingFields
<1>5. Report(order, bad) = [m \in D |-> <<slots[order[m]].sequence, order[m] \notin bad>>]
  BY <1>3 DEF Report
<1>6. Report(order, bad) \in Seq(Nat \X BOOLEAN)
  BY <1>2, <1>4, <1>5
<1>7. DOMAIN order = D /\ DOMAIN Report(order, bad) = D
  BY <1>1, <1>5
<1> QED
  BY <1>1, <1>5, <1>6, <1>7

LEMMA MappedIs ==
    ASSUME Types, NEW bad
    PROVE  /\ Mapped(bad) \in Pool
           /\ \A i \in Indices : i \notin Finished => Mapped(bad)[i] = slots[i]
           /\ \A i \in Finished :
                  /\ i \in Indices
                  /\ Mapped(bad)[i] \in FullSlot
                  /\ Mapped(bad)[i].map = IF i \in bad THEN "unmapped" ELSE "mapped"
                  /\ Mapped(bad)[i].capacity = slots[i].capacity
                  /\ Mapped(bad)[i].staging = slots[i].staging
                  /\ Mapped(bad)[i].sequence = slots[i].sequence
                  /\ Mapped(bad)[i].done = slots[i].done
           /\ \A i \in Indices : slots[i] \in FullSlot => Mapped(bad)[i] \in FullSlot
<1>1. ASSUME NEW i \in Finished
      PROVE  /\ i \in Indices /\ slots[i] \in FullSlot
             /\ Mapped(bad)[i] =
                    [slots[i] EXCEPT !.map = IF i \in bad THEN "unmapped" ELSE "mapped"]
  <2>1. i \in Indices /\ slots[i] # None
    BY DEF Finished, Waiting
  <2> QED
    BY <2>1 DEF Mapped, Types, Pool
<1>2. \A i \in Indices : i \notin Finished => Mapped(bad)[i] = slots[i]
  BY DEF Mapped
<1>3. ASSUME NEW i \in Finished
      PROVE  /\ i \in Indices
             /\ Mapped(bad)[i] \in FullSlot
             /\ Mapped(bad)[i].map = IF i \in bad THEN "unmapped" ELSE "mapped"
             /\ Mapped(bad)[i].capacity = slots[i].capacity
             /\ Mapped(bad)[i].staging = slots[i].staging
             /\ Mapped(bad)[i].sequence = slots[i].sequence
             /\ Mapped(bad)[i].done = slots[i].done
  <2> DEFINE m == IF i \in bad THEN "unmapped" ELSE "mapped"
  <2>1. m \in {"unmapped", "pending", "mapped"}
    OBVIOUS
  <2> HIDE DEF m
  <2>2. Mapped(bad)[i] = [slots[i] EXCEPT !.map = m]
    BY <1>1 DEF m
  <2> DEFINE s == slots[i]
  <2>3. i \in Indices /\ s \in FullSlot
    BY <1>1
  <2>4. Mapped(bad)[i] = [s EXCEPT !.map = m]
    BY <2>2
  <2> HIDE DEF s
  <2> DEFINE t == [s EXCEPT !.map = m]
  <2>5. /\ t \in FullSlot /\ t.map = m /\ t.capacity = s.capacity
        /\ t.staging = s.staging /\ t.sequence = s.sequence /\ t.done = s.done
    BY <2>1, <2>3, SlotMaps, Zenon
  <2> QED
    BY <2>3, <2>4, <2>5 DEF m, s
<1>4. \A i \in Indices : slots[i] \in FullSlot => Mapped(bad)[i] \in FullSlot
  BY <1>2, <1>3
<1>5. \A i \in Indices : Mapped(bad)[i] \in FullSlot \cup {None}
  BY <1>2, <1>3 DEF Types, Pool
<1>6. Mapped(bad) \in Pool
  BY <1>5 DEF Mapped, Pool
<1> QED
  BY <1>2, <1>3, <1>4, <1>6

\* A report stays true while others report.
LEMMA AboutKept ==
    ASSUME Types, NEW bad, NEW r, About(r, slots)
    PROVE  About(r, Mapped(bad))
<1>1. PICK k \in DOMAIN pending :
          /\ r[1] = pending[k].sequence
          /\ slots[pending[k].slot].map = IF r[2] THEN "mapped" ELSE "unmapped"
  BY DEF About
<1>2. pending[k].slot \in Indices /\ pending[k].slot \notin Finished
  BY <1>1, PendingFields DEF Finished, Waiting
<1>3. Mapped(bad)[pending[k].slot] = slots[pending[k].slot]
  BY <1>2, MappedIs
<1> QED
  BY <1>1, <1>3 DEF About

LEMMA CallbacksKeep ==
    ASSUME Types, Batches, Held(slots), Free(slots), Reported(slots, completed, channel),
           NEW order \in SetToSeqs(Finished), NEW bad
    PROVE  /\ Held(Mapped(bad))
           /\ Free(Mapped(bad))
           /\ Reported(Mapped(bad), completed, channel \o Report(order, bad))
<1> DEFINE pool == Mapped(bad)
           news == Report(order, bad)
           reports == channel \o news
<1>1. Held(pool)
  <2> SUFFICES ASSUME NEW k \in DOMAIN pending PROVE Holds(pool, k)
    BY DEF Held
  <2>1. Holds(slots, k) /\ pending[k].slot \in Indices
    BY PendingFields DEF Held
  <2>2. CASE pending[k].slot \notin Finished
    <3>1. pool[pending[k].slot] = slots[pending[k].slot]
      BY <2>1, <2>2, MappedIs
    <3> QED
      BY <2>1, <3>1 DEF Holds
  <2>3. CASE pending[k].slot \in Finished
    <3> DEFINE old == slots[pending[k].slot]
               new == pool[pending[k].slot]
    <3>1. /\ new \in FullSlot /\ new.capacity = old.capacity /\ new.staging = old.staging
          /\ new.sequence = old.sequence /\ new.done = old.done
      BY <2>3, MappedIs
    <3>2. old.done
      BY <2>3, FinishedIsPending
    <3> QED
      BY <2>1, <3>1, <3>2 DEF Holds
  <2> QED
    BY <2>2, <2>3
<1>2. Free(pool)
  <2> SUFFICES ASSUME NEW i \in Indices, \A k \in DOMAIN pending : pending[k].slot # i
               PROVE  pool[i] = None \/ pool[i].map = "unmapped"
    BY DEF Free
  <2>1. i \notin Finished
    BY FinishedIsPending
  <2> QED
    BY <2>1, MappedIs DEF Free
<1>3. /\ news \in Seq(Nat \X BOOLEAN) /\ DOMAIN news = DOMAIN order
      /\ \A m \in DOMAIN order :
             /\ order[m] \in Finished
             /\ news[m] = <<slots[order[m]].sequence, order[m] \notin bad>>
      /\ \A m, n \in DOMAIN order : m # n => order[m] # order[n]
  BY ReportIs
<1>4. channel \in Seq(Nat \X BOOLEAN)
  BY DEF Types
<1> HIDE DEF pool, news
<1>5. \A m \in DOMAIN reports :
          \/ m \in DOMAIN channel /\ reports[m] = channel[m]
          \/ /\ m - Len(channel) \in DOMAIN news /\ m \notin DOMAIN channel
             /\ reports[m] = news[m - Len(channel)] /\ m \in Int /\ Len(channel) \in Int
  BY <1>3, <1>4
<1> HIDE DEF reports
\* A new report is about a batch that nobody has reported.
<1>6. ASSUME NEW m \in DOMAIN news
      PROVE  \E k \in DOMAIN pending :
                 /\ news[m][1] = pending[k].sequence /\ pending[k].slot = order[m]
                 /\ news[m][2] = (order[m] \notin bad)
                 /\ slots[pending[k].slot].map = "pending"
  <2>1. order[m] \in Finished /\ news[m] = <<slots[order[m]].sequence, order[m] \notin bad>>
    BY <1>3
  <2>2. PICK k \in DOMAIN pending :
            pending[k].slot = order[m] /\ slots[order[m]].sequence = pending[k].sequence
    BY <2>1, FinishedIsPending
  <2>3. slots[order[m]].map = "pending"
    BY <2>1, FinishedIsPending
  <2> QED
    BY <2>1, <2>2, <2>3
<1>7. ASSUME NEW m \in DOMAIN news PROVE About(news[m], pool)
  <2>1. PICK k \in DOMAIN pending :
            /\ news[m][1] = pending[k].sequence /\ pending[k].slot = order[m]
            /\ news[m][2] = (order[m] \notin bad)
    BY <1>6
  <2>2. order[m] \in Finished
    BY <1>3
  <2>3. pool[order[m]].map = IF order[m] \in bad THEN "unmapped" ELSE "mapped"
    BY <2>2, MappedIs DEF pool
  <2> QED
    BY <2>1, <2>3 DEF About
<1>8. ASSUME NEW m \in DOMAIN news, NEW r, About(r, slots) PROVE r[1] # news[m][1]
  <2>1. PICK k \in DOMAIN pending :
            news[m][1] = pending[k].sequence /\ slots[pending[k].slot].map = "pending"
    BY <1>6
  <2>2. PICK j \in DOMAIN pending :
            /\ r[1] = pending[j].sequence
            /\ slots[pending[j].slot].map = IF r[2] THEN "mapped" ELSE "unmapped"
    BY <1>8 DEF About
  <2>3. j # k
    BY <2>1, <2>2
  <2> QED
    BY <2>1, <2>2, <2>3, PendingDiffer
<1>9. ASSUME NEW m \in DOMAIN news, NEW n \in DOMAIN news, m # n
      PROVE  news[m][1] # news[n][1]
  <2>1. PICK j \in DOMAIN pending : news[m][1] = pending[j].sequence /\ pending[j].slot = order[m]
    BY <1>6
  <2>2. PICK k \in DOMAIN pending : news[n][1] = pending[k].sequence /\ pending[k].slot = order[n]
    BY <1>6
  <2>3. j # k
    BY <1>3, <1>9, <2>1, <2>2
  <2> QED
    BY <2>1, <2>2, <2>3, PendingDiffer
<1>10. /\ \A r \in completed : About(r, slots)
       /\ \A i \in DOMAIN channel : About(channel[i], slots)
       /\ \A i, j \in DOMAIN channel : i # j => channel[i][1] # channel[j][1]
       /\ \A i \in DOMAIN channel : \A r \in completed : r[1] # channel[i][1]
  BY DEF Reported
<1>11. /\ \A r \in completed : About(r, pool)
       /\ \A i \in DOMAIN channel : About(channel[i], pool)
  BY <1>10, AboutKept DEF pool
<1>12. \A m \in DOMAIN reports : About(reports[m], pool)
  BY <1>5, <1>7, <1>11
<1>13. ASSUME NEW i \in DOMAIN reports, NEW j \in DOMAIN reports, i # j
       PROVE  reports[i][1] # reports[j][1]
  <2>1. CASE i \in DOMAIN channel /\ j \in DOMAIN channel
    BY <2>1, <1>5, <1>10, <1>13
  <2>2. CASE i \in DOMAIN channel /\ j \notin DOMAIN channel
    BY <2>2, <1>5, <1>8, <1>10
  <2>3. CASE i \notin DOMAIN channel /\ j \in DOMAIN channel
    BY <2>3, <1>5, <1>8, <1>10
  <2>4. CASE i \notin DOMAIN channel /\ j \notin DOMAIN channel
    <3>1. i - Len(channel) # j - Len(channel)
      BY <2>4, <1>5, <1>13
    <3> QED
      BY <2>4, <3>1, <1>5, <1>9
  <2> QED
    BY <2>1, <2>2, <2>3, <2>4
<1>14. \A i \in DOMAIN reports : \A r \in completed : r[1] # reports[i][1]
  BY <1>5, <1>8, <1>10
<1>15. Reported(pool, completed, reports)
  BY <1>11, <1>12, <1>13, <1>14 DEF Reported
<1> QED
  BY <1>1, <1>2, <1>15 DEF pool, news, reports

-----------------------------------------------------------------------------
(* The actions.                                                            *)

LEMMA ConstantsAre ==
    /\ Depth \in Nat \ {0} /\ MaxWindows \in Nat /\ MaxChunks \in Nat /\ BufferWindows \in Nat
    /\ None \notin FullSlot
  BY RingAssumption DEF FullSlot

\* What the windows of a batch are depends on the chunk alone.
LEMMA WindowsKept ==
    ASSUME UNCHANGED <<chunk, total, hardwareLimit>>
    PROVE  /\ BatchLimit' = BatchLimit
           /\ \A s : Offset(s)' = Offset(s) /\ SizeOf(s)' = SizeOf(s) /\ Windows(s)' = Windows(s)
BY DEF BatchLimit, Offset, SizeOf, Windows

LEMMA StartChunkKeeps ==
    ASSUME IInv, StartChunk PROVE IInv'
<1>1. /\ pc' = "running" /\ chunk' = chunk + 1 /\ chunk < MaxChunks
      /\ total' \in 0..MaxWindows /\ start' = 0 /\ sequence' = 0
      /\ pending' = <<>> /\ channel' = <<>> /\ completed' = {} /\ scores' = <<>>
      /\ UNCHANGED <<answer, slots, queue, lost, hardwareLimit>>
      /\ pc = "idle"
  BY DEF StartChunk
<1>2. queue = <<>> /\ Unmapped(slots)
  BY <1>1 DEF IInv, Resting
<1>3. Types'
  BY <1>1, <1>2, ConstantsAre DEF IInv, Types
<1>4. BatchLimit' \in Nat \ {0} /\ total' \in Nat
  <2>1. total' \in Nat /\ hardwareLimit' \in HardwareLimits
    BY <1>3, ConstantsAre DEF Types
  <2>2. Smaller(hardwareLimit', Larger((total' + Depth - 1) \div Depth, 1)) \in Nat \ {0}
    BY <2>1, LimitsArePositive
  <2> QED
    BY <2>1, <2>2 DEF BatchLimit
<1>5. 0 * BatchLimit' = 0
  <2>1. \A n \in Nat : 0 * n = 0
    OBVIOUS
  <2> QED
    BY <1>4, <2>1
<1>6. Smaller(Offset(sequence), total)' = 0 /\ Smaller(Offset(sequence - Len(pending)), total)' = 0
  <2>1. Offset(sequence)' = 0
    BY <1>1, <1>5 DEF Offset
  <2>2. sequence' - Len(pending') = 0
    <3>1. Len(<<>>) = 0 /\ 0 - 0 = 0
      OBVIOUS
    <3> QED BY <1>1, <3>1
  <2>3. Offset(sequence - Len(pending))' = 0
    BY <2>2, <1>5 DEF Offset
  <2> QED
    BY <2>1, <2>3, <1>4 DEF Smaller
<1>7. Batches'
  BY <1>1, <1>6 DEF Batches
<1>8. Jobs' /\ Held(slots)' /\ Reported(slots, completed, channel)'
  BY <1>1, <1>2 DEF Jobs, Held, Reported
<1>9. Free(slots)'
  BY <1>1, <1>2 DEF Free, Unmapped
<1>10. Collected'
  BY <1>1, <1>6 DEF Collected, Run
<1> QED
  BY <1>1, <1>3, <1>7, <1>8, <1>9, <1>10 DEF IInv, Running

LEMMA CloseRests ==
    ASSUME IInv, Close, UNCHANGED <<queue, lost, hardwareLimit>>,
           slots' \in Pool, Unmapped(slots'),
           \A i \in Indices : slots[i] \in FullSlot => slots'[i] \in FullSlot
    PROVE  IInv'
<1>1. /\ pc' = "closed" /\ pending' = <<>> /\ channel' = <<>> /\ completed' = {}
      /\ UNCHANGED <<chunk, total, start, sequence, answer>>
  BY DEF Close
<1>2. \A j \in DOMAIN queue : queue[j].slot \in Indices
  BY QueueFields DEF IInv
<1>3. Types'
  BY <1>1, <1>2, ConstantsAre DEF IInv, Types
<1>4. Resting'
  BY <1>1 DEF Resting, Unmapped
<1> QED
  BY <1>1, <1>3, <1>4 DEF IInv

LEMMA RefuseKeeps ==
    ASSUME IInv, Refuse PROVE IInv'
<1>1. /\ pc = "running" /\ start < total /\ BatchWindows > BufferWindows /\ Close
      /\ UNCHANGED <<slots, queue, lost, hardwareLimit>>
  BY DEF Refuse, CanFill
<1>2. Types /\ Running
  BY <1>1 DEF IInv
<1>3. BatchLimit \in Nat \ {0} /\ total \in Nat /\ start \in Nat /\ sequence \in Nat
      /\ Len(pending) \in Nat
  BY <1>2, ConstantsAre, LimitIsPositive DEF Types
<1>4. sequence = 0
  <2>1. BatchWindows <= Smaller(total, BatchLimit)
    BY <1>1, <1>3 DEF BatchWindows, Smaller
  <2>2. ~(Smaller(total, BatchLimit) <= BufferWindows)
    BY <1>1, <1>3, <2>1, ConstantsAre DEF BatchWindows, Smaller
  <2> QED
    BY <1>2, <1>3, <2>2 DEF Running, Batches
<1>5. DOMAIN pending = {}
  BY <1>2, <1>3, <1>4 DEF Running, Batches, Types
<1>6. Unmapped(slots)
  BY <1>2, <1>5 DEF Running, Free, Unmapped
<1> QED
  BY <1>1, <1>2, <1>6, CloseRests DEF Types

LEMMA UnmapPendingRests ==
    ASSUME Types, Held(slots), Free(slots)
    PROVE  /\ UnmapPending \in Pool /\ Unmapped(UnmapPending)
           /\ \A i \in Indices : slots[i] \in FullSlot => UnmapPending[i] \in FullSlot
<1>1. ASSUME NEW i \in Indices
      PROVE  /\ UnmapPending[i] = None \/ UnmapPending[i].map = "unmapped"
             /\ UnmapPending[i] \in FullSlot \cup {None}
             /\ slots[i] \in FullSlot => UnmapPending[i] \in FullSlot
  <2>1. CASE \E k \in DOMAIN pending : pending[k].slot = i
    <3> DEFINE s == slots[i]
               t == [s EXCEPT !.map = "unmapped"]
    <3>1. s \in FullSlot
      BY <2>1 DEF Held, Holds
    <3>2. UnmapPending[i] = t
      BY <2>1 DEF UnmapPending
    <3> HIDE DEF s
    <3>3. t \in FullSlot /\ t.map = "unmapped"
      BY <3>1, SlotMaps
    <3> QED
      BY <3>2, <3>3
  <2>2. CASE \A k \in DOMAIN pending : pending[k].slot # i
    <3>1. UnmapPending[i] = slots[i]
      BY <2>2 DEF UnmapPending
    <3> QED
      BY <2>2, <3>1 DEF Free, Types, Pool
  <2> QED
    BY <2>1, <2>2
<1>2. UnmapPending \in Pool
  BY <1>1 DEF Pool, UnmapPending
<1> QED
  BY <1>1, <1>2 DEF Unmapped

LEMMA FailuresKeep ==
    ASSUME IInv, PollFails \/ ReduceFails PROVE IInv'
<1>1. /\ pc = "running" /\ Close /\ slots' = UnmapPending
      /\ UNCHANGED <<queue, lost, hardwareLimit>>
  BY DEF PollFails, ReduceFails
<1>2. Types /\ Held(slots) /\ Free(slots)
  BY <1>1 DEF IInv, Running
<1> QED
  BY <1>1, <1>2, UnmapPendingRests, CloseRests

LEMMA ReturnKeeps ==
    ASSUME IInv, Return PROVE IInv'
<1>1. /\ pc = "running" /\ start >= total /\ pending = <<>> /\ pc' = "idle"
      /\ UNCHANGED <<chunk, total, start, sequence, pending, completed, scores,
                     channel, slots, queue, lost, hardwareLimit>>
  BY DEF Return
<1>2. Types /\ Running
  BY <1>1 DEF IInv
<1>3. DOMAIN pending = {}
  BY <1>1
<1>4. completed = {} /\ DOMAIN channel = {}
  BY <1>2, <1>3 DEF Running, Reported, About
<1>5. channel = <<>>
  BY <1>2, <1>4 DEF Types
<1>6. queue = <<>>
  <2>1. Len(queue) \in Nat /\ Len(queue) <= 0
    BY <1>1, <1>2 DEF Running, Jobs, Types
  <2> QED
    BY <1>2, <2>1 DEF Types
<1>7. Unmapped(slots)
  BY <1>2, <1>3 DEF Running, Free, Unmapped
<1>8. Resting'
  BY <1>1, <1>4, <1>5, <1>6, <1>7 DEF Resting, Unmapped
<1>9. Types'
  BY <1>1, <1>2 DEF Types
<1> QED
  BY <1>1, <1>8, <1>9 DEF IInv

\* The answer is the one that was asked for.
LEMMA ReturnAnswers ==
    ASSUME IInv, Return PROVE answer' = Run(chunk, 0, total)
<1>1. /\ pc = "running" /\ start >= total /\ pending = <<>> /\ answer' = scores
  BY DEF Return
<1>2. Types /\ Batches /\ Collected
  BY <1>1 DEF IInv, Running
<1>3. BatchLimit \in Nat /\ total \in Nat /\ start \in Nat /\ sequence \in Nat
  BY <1>2, ConstantsAre, LimitIsPositive DEF Types
<1>4. sequence - Len(pending) = sequence
  BY <1>1, <1>3
<1>5. Offset(sequence) \in Nat
  BY <1>3 DEF Offset
<1>6. Smaller(Offset(sequence), total) = total
  BY <1>1, <1>2, <1>3, <1>5 DEF Batches, Smaller
<1> QED
  BY <1>1, <1>2, <1>4, <1>6 DEF Collected

LEMMA PollKeeps ==
    ASSUME IInv, Poll PROVE IInv'
<1>1. /\ pc = "running"
      /\ UNCHANGED <<pc, chunk, total, start, sequence, pending, scores, answer,
                     queue, lost, hardwareLimit>>
  BY DEF Poll
<1>2. Types /\ Running
  BY <1>1 DEF IInv
<1>3. PICK order \in SetToSeqs(Finished), bad \in Failing :
          LET reports == channel \o Report(order, bad)
          IN  /\ slots' = Mapped(bad)
              /\ IF reports = <<>>
                 THEN UNCHANGED <<channel, completed>>
                 ELSE /\ channel' = Tail(reports)
                      /\ completed' = completed \cup {Head(reports)}
  BY DEF Poll
<1> DEFINE reports == channel \o Report(order, bad)
<1>4. Held(slots') /\ Free(slots') /\ Reported(slots', completed, reports)
  BY <1>2, <1>3, CallbacksKeep DEF Running
<1>5. reports \in Seq(Nat \X BOOLEAN)
  BY <1>2, ReportIs DEF Running, Types
<1>6. slots' \in Pool /\ \A i \in Indices : slots[i] \in FullSlot => slots'[i] \in FullSlot
  BY <1>2, <1>3, MappedIs
<1>7. IF reports = <<>> THEN channel' = channel /\ completed' = completed
      ELSE channel' = Tail(reports) /\ completed' = completed \cup {Head(reports)}
  BY <1>3
<1>8. reports = <<>> => channel = <<>>
  <2>1. channel \in Seq(Nat \X BOOLEAN) /\ Report(order, bad) \in Seq(Nat \X BOOLEAN)
    BY <1>2, ReportIs DEF Running, Types
  <2> QED
    BY <2>1
<1> HIDE DEF reports
<1>9. channel' \in Seq(Nat \X BOOLEAN) /\ completed' \in SUBSET (Nat \X BOOLEAN)
  <2>1. channel \in Seq(Nat \X BOOLEAN) /\ completed \in SUBSET (Nat \X BOOLEAN)
    BY <1>2 DEF Types
  <2>2. CASE reports = <<>>
    BY <2>1, <2>2, <1>7
  <2>3. CASE reports # <<>>
    <3>1. Tail(reports) \in Seq(Nat \X BOOLEAN) /\ Head(reports) \in Nat \X BOOLEAN
      BY <2>3, <1>5
    <3> QED
      BY <2>1, <2>3, <3>1, <1>7
  <2> QED
    BY <2>2, <2>3
<1>10. Types'
  <2>1. \A j \in DOMAIN queue : queue[j].slot \in Indices
    BY <1>2, QueueFields
  <2> QED
    BY <1>1, <1>2, <1>6, <1>9, <2>1 DEF Types
<1>11. Reported(slots', completed', channel')
  <2>1. CASE reports = <<>>
    BY <2>1, <1>4, <1>7, <1>8
  <2>2. CASE reports # <<>>
    <3>1. /\ 1 \in DOMAIN reports /\ Head(reports) = reports[1]
          /\ \A i \in DOMAIN Tail(reports) :
                 i + 1 \in DOMAIN reports /\ i + 1 # 1 /\ Tail(reports)[i] = reports[i + 1]
          /\ \A i, j \in DOMAIN Tail(reports) : i # j => i + 1 # j + 1
      BY <1>5, <2>2
    <3>2. /\ \A r \in completed : About(r, slots')
          /\ \A i \in DOMAIN reports : About(reports[i], slots')
          /\ \A i, j \in DOMAIN reports : i # j => reports[i][1] # reports[j][1]
          /\ \A i \in DOMAIN reports : \A r \in completed : r[1] # reports[i][1]
      BY <1>4 DEF Reported
    <3>3. channel' = Tail(reports) /\ completed' = completed \cup {reports[1]}
      BY <1>7, <2>2, <3>1
    <3>4. \A i \in DOMAIN channel' :
              i + 1 \in DOMAIN reports /\ i + 1 # 1 /\ channel'[i] = reports[i + 1]
      BY <3>1, <3>3
    <3>5. /\ \A r \in completed' : About(r, slots')
          /\ \A i \in DOMAIN channel' : About(channel'[i], slots')
      BY <3>1, <3>2, <3>3, <3>4
    <3>6. \A i, j \in DOMAIN channel' : i # j => channel'[i][1] # channel'[j][1]
      BY <3>1, <3>2, <3>3, <3>4
    <3>7. \A i \in DOMAIN channel' : \A r \in completed' : r[1] # channel'[i][1]
      BY <3>1, <3>2, <3>3, <3>4
    <3> QED
      BY <3>5, <3>6, <3>7 DEF Reported
  <2> QED
    BY <2>1, <2>2
<1>12. Batches' /\ Jobs' /\ Collected'
  BY <1>1, <1>2, WindowsKept DEF Running, Batches, Jobs, Collected
<1>13. Held(slots)' /\ Free(slots)' /\ Reported(slots, completed, channel)'
  BY <1>1, <1>4, <1>11, WindowsKept DEF Held, Holds, Free, Reported, About
<1> QED
  BY <1>1, <1>10, <1>12, <1>13 DEF IInv, Running

\* The device is through with the oldest of its jobs.
LEMMA DeviceStepSlots ==
    ASSUME Types, DeviceStep
    PROVE  LET i == queue[1].slot
           IN  /\ 1 \in DOMAIN queue /\ i \in Indices
               /\ slots'[i] \in FullSlot /\ slots'[i].done
               /\ slots'[i].capacity = slots[i].capacity
               /\ slots'[i].sequence = slots[i].sequence
               /\ slots'[i].map = slots[i].map
               /\ \A w \in 1..slots[i].capacity : w <= Len(queue[1].content) =>
                      slots'[i].staging[w] = queue[1].content[w]
               /\ \A d \in Indices : d # i => slots'[d] = slots[d]
               /\ slots' \in Pool
<1>1. /\ queue # <<>> /\ 1 \in DOMAIN queue /\ Head(queue) = queue[1]
  BY DEF DeviceStep, Types
<1> DEFINE i == queue[1].slot
           content == queue[1].content
           old == slots[i]
           staging == [w \in 1..old.capacity |->
                          IF w <= Len(content) THEN content[w] ELSE old.staging[w]]
           new == [[old EXCEPT !.staging = staging] EXCEPT !.done = TRUE]
<1>2. i \in Indices /\ content \in Seq(Scored) /\ old \in FullSlot
  BY <1>1, QueueFields
<1>3. slots' = [slots EXCEPT ![i].staging = staging, ![i].done = TRUE]
  BY <1>1 DEF DeviceStep
<1>4. staging \in Seq(Scored \cup {None}) /\ Len(staging) = old.capacity
      /\ \A w \in 1..old.capacity : w <= Len(content) => staging[w] = content[w]
  <2>1. old.capacity \in Nat /\ old.staging \in Seq(Scored \cup {None})
        /\ Len(old.staging) = old.capacity
    BY <1>2, SlotFields
  <2> HIDE DEF old, content
  <2>2. Len(content) \in Nat /\ \A w \in 1..Len(content) : content[w] \in Scored
    BY <1>2
  <2>3. \A w \in 1..old.capacity : old.staging[w] \in Scored \cup {None}
    BY <2>1
  <2>4. \A w \in 1..old.capacity :
            (IF w <= Len(content) THEN content[w] ELSE old.staging[w]) \in Scored \cup {None}
    BY <2>1, <2>2, <2>3
  <2>5. staging \in [1..old.capacity -> Scored \cup {None}]
    BY <2>4
  <2> QED
    BY <2>1, <2>5
<1> HIDE DEF staging
<1>5. /\ new \in FullSlot /\ new.done = TRUE /\ new.capacity = old.capacity
      /\ new.sequence = old.sequence /\ new.map = old.map /\ new.staging = staging
  <2> HIDE DEF old
  <2> QED BY <1>2, <1>4 DEF FullSlot, Slot, Scored
<1>6. slots \in Pool
  BY DEF Types
<1>7. slots' = [slots EXCEPT ![i] = new]
  BY <1>2, <1>3, <1>6 DEF Pool
<1> HIDE DEF new
<1>8. slots'[i] = new /\ (\A d \in Indices : d # i => slots'[d] = slots[d]) /\ slots' \in Pool
  BY <1>2, <1>5, <1>6, <1>7 DEF Pool
<1> QED
  BY <1>1, <1>2, <1>4, <1>5, <1>8

LEMMA DeviceStepKeeps ==
    ASSUME IInv, DeviceStep PROVE IInv'
<1> DEFINE i == queue[1].slot
<1>1. /\ queue # <<>> /\ ~lost /\ queue' = Tail(queue)
      /\ UNCHANGED <<host, channel, lost, hardwareLimit>>
  BY DEF DeviceStep
<1>2. Types
  BY DEF IInv
<1>3. /\ 1 \in DOMAIN queue /\ i \in Indices
      /\ slots'[i] \in FullSlot /\ slots'[i].done
      /\ slots'[i].capacity = slots[i].capacity
      /\ slots'[i].sequence = slots[i].sequence
      /\ slots'[i].map = slots[i].map
      /\ \A w \in 1..slots[i].capacity : w <= Len(queue[1].content) =>
             slots'[i].staging[w] = queue[1].content[w]
      /\ \A d \in Indices : d # i => slots'[d] = slots[d]
      /\ slots' \in Pool
  BY <1>2, DeviceStepSlots
<1>4. slots[i] \in FullSlot
  BY <1>2, <1>3, QueueFields
<1>5. /\ queue' \in Seq(Job) /\ Len(queue') = Len(queue) - 1 /\ Len(queue) \in Nat
      /\ \A j \in DOMAIN queue' : j + 1 \in DOMAIN queue /\ queue'[j] = queue[j + 1] /\ j \in Nat
  BY <1>1, <1>2 DEF Types
<1> HIDE DEF i
<1>6. Types'
  <2>1. ASSUME NEW j \in DOMAIN queue' PROVE slots'[queue'[j].slot] \in FullSlot
    <3>1. queue'[j].slot \in Indices /\ slots[queue'[j].slot] \in FullSlot
      BY <1>2, <1>5, QueueFields
    <3> QED
      BY <3>1, <1>3
  <2> QED
    BY <1>1, <1>2, <1>3, <1>5, <2>1 DEF Types, host
<1>7. ASSUME pc # "running" PROVE Resting'
  <2>1. Resting
    BY <1>7 DEF IInv
  <2>2. Unmapped(slots')
    <3>1. slots[i] # None
      BY <1>4, ConstantsAre
    <3> QED
      BY <2>1, <3>1, <1>3 DEF Resting, Unmapped
  <2>3. pc # "idle"
    BY <2>1, <1>1 DEF Resting
  <2> QED
    BY <1>1, <2>1, <2>2, <2>3 DEF Resting, host, Unmapped
<1>8. ASSUME pc = "running" PROVE Running'
  <2>1. Running
    BY <1>8 DEF IInv
  <2> DEFINE k1 == Len(pending) - Len(queue) + 1
  <2>2. /\ k1 \in DOMAIN pending /\ pending[k1].slot = i
        /\ queue[1].content = Windows(pending[k1].sequence)
    <3>1. Len(pending) \in Nat /\ Len(queue) \in Nat /\ Len(queue) >= 1
          /\ DOMAIN pending = 1..Len(pending)
      BY <1>2, <1>3 DEF Types
    <3> QED
      BY <1>3, <2>1, <3>1 DEF Running, Jobs, i
  <2>3. Holds(slots, k1)
    BY <2>1, <2>2 DEF Running, Held
  <2>4. slots[i].map # "mapped"
    <3>1. ~(k1 <= Len(pending) - Len(queue))
      BY <1>2, <1>5 DEF Types
    <3> QED
      BY <2>2, <2>3, <3>1 DEF Holds
  <2>5. UNCHANGED <<chunk, total, hardwareLimit, pending, sequence, start, completed, channel, scores, pc>>
    BY <1>1 DEF host
  <2>6. Batches' /\ Collected'
    BY <2>1, <2>5, WindowsKept DEF Running, Batches, Collected
  <2>7. Jobs'
    <3>1. Len(queue') <= Len(pending) /\ Len(pending) \in Nat
      BY <1>2, <1>5, <2>1 DEF Running, Jobs, Types
    <3>2. ASSUME NEW j \in DOMAIN queue'
          PROVE  LET k == Len(pending) - Len(queue') + j
                 IN  /\ queue'[j].slot = pending[k].slot
                     /\ queue'[j].content = Windows(pending[k].sequence)
      <4>1. j + 1 \in DOMAIN queue /\ queue'[j] = queue[j + 1] /\ j \in Nat
        BY <1>5
      <4>2. Len(pending) - Len(queue') + j = Len(pending) - Len(queue) + (j + 1)
        BY <1>5, <3>1, <4>1
      <4> QED
        BY <2>1, <4>1, <4>2 DEF Running, Jobs
    <3> QED
      BY <2>5, <3>1, <3>2, WindowsKept DEF Jobs
  <2>8. ASSUME NEW k \in DOMAIN pending PROVE Holds(slots, k)'
    <3>1. Holds(slots, k) /\ pending[k].slot \in Indices /\ k \in Nat /\ Len(pending) \in Nat
      BY <1>2, <2>1, PendingFields DEF Running, Held
    <3>2. CASE k = k1
      <4>1. /\ slots'[i] \in FullSlot /\ slots'[i].sequence = pending[k].sequence
            /\ pending[k].size <= slots'[i].capacity
            /\ slots'[i].map # "mapped"
        BY <1>3, <2>2, <2>3, <2>4, <3>2 DEF Holds
      <4>2. k <= Len(pending) - Len(queue')
        BY <1>5, <3>1, <3>2
      <4>3. ASSUME NEW w \in 1..pending[k].size
            PROVE  slots'[i].staging[w] = <<chunk, Offset(pending[k].sequence) + w>>
        <5>1. pending[k].size = SizeOf(pending[k].sequence) /\ pending[k].size \in Nat
          BY <1>2, <2>1, PendingFields DEF Running, Batches
        <5>2. queue[1].content = [v \in 1..pending[k].size |-> <<chunk, Offset(pending[k].sequence) + v>>]
          BY <2>2, <3>2, <5>1 DEF Windows, Run
        <5>3. Len(queue[1].content) = pending[k].size
              /\ queue[1].content[w] = <<chunk, Offset(pending[k].sequence) + w>>
          BY <5>1, <5>2
        <5>4. slots[i].capacity \in Nat /\ pending[k].size <= slots[i].capacity
          BY <1>4, <2>2, <2>3, <3>2, SlotFields DEF Holds
        <5>5. w \in 1..slots[i].capacity /\ w <= Len(queue[1].content)
          BY <5>1, <5>3, <5>4
        <5> QED
          BY <1>3, <5>3, <5>5
      <4> QED
        BY <2>2, <2>5, <3>2, <4>1, <4>2, <4>3, WindowsKept DEF Holds
    <3>3. CASE k # k1
      <4>1. pending[k].slot # i
        BY <1>2, <2>1, <2>2, <3>3, PendingDiffer DEF Running
      <4>2. slots'[pending[k].slot] = slots[pending[k].slot]
        BY <1>3, <3>1, <4>1
      <4>3. k <= Len(pending) - Len(queue) => k <= Len(pending) - Len(queue')
        BY <1>5, <3>1
      <4> QED
        BY <2>5, <3>1, <4>2, <4>3, WindowsKept DEF Holds
    <3> QED
      BY <3>2, <3>3
  <2>9. Held(slots)'
    BY <2>5, <2>8 DEF Held
  <2>10. ASSUME NEW d \in Indices PROVE slots'[d].map = slots[d].map /\ (slots[d] = None => slots'[d] = None)
    BY <1>3, <1>4, ConstantsAre
  <2>11. Free(slots)'
    BY <2>1, <2>5, <2>10 DEF Running, Free
  <2>12. \A k \in DOMAIN pending : slots'[pending[k].slot].map = slots[pending[k].slot].map
    BY <1>2, <2>10, PendingFields
  <2>13. Reported(slots, completed, channel)'
    BY <2>1, <2>5, <2>12 DEF Running, Reported, About
  <2> QED
    BY <2>6, <2>7, <2>9, <2>11, <2>13 DEF Running
<1> QED
  BY <1>1, <1>6, <1>7, <1>8 DEF IInv, host

LEMMA RestKeeps ==
    ASSUME IInv, DeviceLost \/ UNCHANGED vars PROVE IInv'
<1>1. UNCHANGED <<host, channel, slots, queue, hardwareLimit>> /\ lost' \in {lost, TRUE}
  BY DEF DeviceLost, vars
<1>2. Types'
  BY <1>1 DEF IInv, Types, host
<1>3. UNCHANGED <<chunk, total, hardwareLimit, pending, sequence, start, completed, channel, scores,
                  pc, slots, queue>>
  BY <1>1 DEF host
<1>4. Resting => Resting'
  BY <1>3 DEF Resting, Unmapped
<1>5. Running => Running'
  <2> SUFFICES ASSUME Running PROVE Running'
    OBVIOUS
  <2>1. Batches' /\ Jobs' /\ Collected'
    BY <1>3, WindowsKept DEF Running, Batches, Jobs, Collected
  <2>2. Held(slots)'
    BY <1>3, WindowsKept DEF Running, Held, Holds
  <2>3. Free(slots)' /\ Reported(slots, completed, channel)'
    BY <1>3 DEF Running, Free, Reported, About
  <2> QED
    BY <2>1, <2>2, <2>3 DEF Running
<1> QED
  BY <1>2, <1>3, <1>4, <1>5 DEF IInv


\* The buffers a batch gets: a slot of its number, waiting to be mapped.
LEMMA AcquiredIs ==
    ASSUME NEW slot \in FullSlot \cup {None}, BatchWindows \in 1..MaxWindows
    PROVE  Acquired(slot) \in FullSlot /\ BatchWindows <= Acquired(slot).capacity
<1>1. CASE slot # None /\ slot.capacity >= BatchWindows
  <2>1. slot \in FullSlot /\ Acquired(slot) = slot
    BY <1>1 DEF Acquired
  <2> QED
    BY <1>1, <2>1, SlotFields
<1>2. CASE ~(slot # None /\ slot.capacity >= BatchWindows)
  <2> DEFINE n == BatchWindows
             empty == [w \in 1..n |-> None]
             new == [capacity |-> n, staging |-> empty,
                     map |-> "unmapped", sequence |-> None, done |-> FALSE]
  <2>1. Acquired(slot) = new
    BY <1>2 DEF Acquired
  <2> HIDE DEF n
  <2>2. n \in 1..MaxWindows /\ n \in Nat
    BY ConstantsAre DEF n
  <2>3. empty \in Seq(Scored \cup {None}) /\ Len(empty) = n
    BY <2>2
  <2> HIDE DEF empty
  <2>4. new \in FullSlot /\ new.capacity = n
    BY <2>2, <2>3 DEF FullSlot, Slot, Scored
  <2> QED
    BY <2>1, <2>2, <2>4 DEF n
<1> QED
  BY <1>1, <1>2

\* A slot that is asked to be mapped for a batch.
LEMMA SlotAsked ==
    ASSUME NEW s \in FullSlot, NEW q \in Nat
    PROVE  LET t == [s EXCEPT !.map = "pending", !.sequence = q, !.done = FALSE]
           IN  t \in FullSlot /\ t.capacity = s.capacity /\ t.map = "pending"
               /\ t.sequence = q /\ t.done = FALSE
BY DEF FullSlot, Slot

\* Where the batches are cut.
LEMMA CutAt ==
    ASSUME Types, Batches, start < total
    PROVE  /\ BatchLimit \in Nat \ {0} /\ total \in Nat /\ start \in Nat /\ sequence \in Nat
           /\ start = Offset(sequence) /\ Offset(sequence) < total
           /\ BatchWindows = SizeOf(sequence) /\ BatchWindows \in 1..MaxWindows
           /\ BatchWindows \in Nat /\ start + BatchWindows <= total
           /\ start + BatchWindows = Smaller(Offset(sequence + 1), total)
<1>1. /\ BatchLimit \in Nat \ {0} /\ total \in Nat /\ start \in Nat /\ sequence \in Nat
      /\ total <= MaxWindows /\ MaxWindows \in Nat
  BY ConstantsAre, LimitIsPositive DEF Types
<1> DEFINE L == BatchLimit
<1>2. Offset(sequence) \in Nat /\ Offset(sequence + 1) = Offset(sequence) + L
  <2> HIDE DEF L
  <2>1. L \in Nat
    BY <1>1 DEF L
  <2>2. sequence * L \in Nat /\ (sequence + 1) * L = sequence * L + L
    BY <1>1, <2>1
  <2> QED
    BY <2>2 DEF Offset, L
<1>3. start = Offset(sequence) /\ Offset(sequence) < total
  BY <1>1, <1>2 DEF Batches, Smaller
<1>4. BatchWindows = SizeOf(sequence)
  BY <1>3 DEF BatchWindows, SizeOf
<1>5. BatchWindows \in 1..MaxWindows /\ BatchWindows \in Nat /\ start + BatchWindows <= total
  BY <1>1 DEF BatchWindows, Smaller
<1>6. start + BatchWindows = Smaller(Offset(sequence) + L, total)
  BY <1>1, <1>3 DEF BatchWindows, Smaller
<1> QED
  BY <1>1, <1>2, <1>3, <1>4, <1>5, <1>6

LEMMA SubmitKeeps ==
    ASSUME IInv, Submit PROVE IInv'
<1> DEFINE i == SlotOf(sequence)
           n == Len(pending)
           batch == [sequence |-> sequence, slot |-> i, size |-> BatchWindows]
           job == [slot |-> i, content |-> Content]
<1>1. /\ pc = "running" /\ start < total /\ Len(pending) < Depth
      /\ BatchWindows <= BufferWindows
      /\ queue' = Append(queue, job) /\ pending' = Append(pending, batch)
      /\ start' = start + BatchWindows /\ sequence' = sequence + 1
      /\ UNCHANGED <<pc, chunk, total, completed, scores, answer, lost, hardwareLimit>>
  BY DEF Submit, CanFill
<1>2. PICK order \in SetToSeqs(Finished), bad \in Failing :
          /\ channel' = channel \o Report(order, bad)
          /\ slots' = [Mapped(bad) EXCEPT
                ![i] = [Acquired(@) EXCEPT !.map = "pending",
                                           !.sequence = sequence,
                                           !.done = FALSE]]
  BY DEF Submit
<1> DEFINE pool == Mapped(bad)
<1>3. Types /\ Running /\ Batches
  BY <1>1 DEF IInv, Running
<1>4. /\ BatchLimit \in Nat \ {0} /\ total \in Nat /\ start \in Nat /\ sequence \in Nat
      /\ start = Offset(sequence) /\ Offset(sequence) < total
      /\ BatchWindows = SizeOf(sequence) /\ BatchWindows \in 1..MaxWindows
      /\ BatchWindows \in Nat /\ start + BatchWindows <= total
      /\ start + BatchWindows = Smaller(Offset(sequence + 1), total)
  BY <1>1, <1>3, CutAt
<1>5. i \in Indices
  BY <1>4, SlotIsIndex
<1>6. Content = Windows(sequence) /\ Content \in Seq(Scored)
  <2>1. chunk \in 1..MaxChunks /\ total <= MaxWindows /\ MaxWindows \in Nat
    BY <1>1, <1>3, ConstantsAre DEF Types
  <2>2. Content = Windows(sequence)
    BY <1>4 DEF Content, Windows, Run
  <2>3. \A w \in 1..BatchWindows : <<chunk, start + w>> \in Scored
    BY <2>1, <1>4 DEF Scored
  <2>4. Content \in [1..BatchWindows -> Scored]
    BY <2>3 DEF Content
  <2> QED
    BY <1>4, <2>2, <2>4
<1>7. Held(pool) /\ Free(pool) /\ Reported(pool, completed, channel')
  BY <1>2, <1>3, CallbacksKeep DEF Running
<1>8. channel' \in Seq(Nat \X BOOLEAN)
  BY <1>2, <1>3, ReportIs DEF Running, Types
<1>9. pool \in Pool /\ \A d \in Indices : slots[d] \in FullSlot => pool[d] \in FullSlot
  BY <1>3, MappedIs
<1> HIDE DEF pool
<1>10. /\ slots' \in Pool
       /\ slots'[i] \in FullSlot /\ slots'[i].map = "pending"
       /\ slots'[i].sequence = sequence /\ slots'[i].done = FALSE
       /\ BatchWindows <= slots'[i].capacity
       /\ \A d \in Indices : d # i => slots'[d] = pool[d]
  <2> DEFINE s == Acquired(pool[i])
             t == [s EXCEPT !.map = "pending", !.sequence = sequence, !.done = FALSE]
  <2>1. pool[i] \in FullSlot \cup {None}
    BY <1>5, <1>9 DEF Pool
  <2>2. s \in FullSlot /\ BatchWindows <= s.capacity
    BY <1>4, <2>1, AcquiredIs
  <2>3. slots' = [pool EXCEPT ![i] = t]
    BY <1>2 DEF pool
  <2> HIDE DEF s
  <2>4. t \in FullSlot /\ t.capacity = s.capacity /\ t.map = "pending"
        /\ t.sequence = sequence /\ t.done = FALSE
    BY <1>4, <2>2, SlotAsked
  <2> HIDE DEF t
  <2>5. slots' \in Pool /\ slots'[i] = t /\ \A d \in Indices : d # i => slots'[d] = pool[d]
    BY <1>5, <1>9, <2>3, <2>4 DEF Pool
  <2> QED
    BY <2>2, <2>4, <2>5
<1>11. /\ pending' \in Seq(Batch) /\ n \in Nat /\ Len(pending') = n + 1
       /\ DOMAIN pending = 1..n /\ DOMAIN pending' = 1..(n + 1)
       /\ pending'[n + 1] = batch /\ \A k \in DOMAIN pending : pending'[k] = pending[k]
  <2>1. batch \in Batch /\ pending \in Seq(Batch)
    BY <1>3, <1>4, <1>5 DEF Batch, Types
  <2> HIDE DEF batch
  <2> QED
    BY <1>1, <2>1
<1>12. /\ queue' \in Seq(Job) /\ Len(queue) \in Nat /\ Len(queue') = Len(queue) + 1
       /\ DOMAIN queue = 1..Len(queue) /\ DOMAIN queue' = 1..(Len(queue) + 1)
       /\ queue'[Len(queue) + 1] = job /\ \A j \in DOMAIN queue : queue'[j] = queue[j]
  <2>1. job \in Job /\ queue \in Seq(Job)
    BY <1>3, <1>5, <1>6 DEF Job, Types
  <2> HIDE DEF job
  <2> QED
    BY <1>1, <2>1
<1> USE DEF n
<1>13. UNCHANGED <<chunk, total, hardwareLimit, completed, scores>>
  BY <1>1
<1>14. \A k \in DOMAIN pending : pending[k].slot # i /\ pending[k].slot \in Indices
  BY <1>1, <1>3, NextSlotDiffers, PendingFields
<1>15. Types'
  <2>1. ASSUME NEW j \in DOMAIN queue' PROVE slots'[queue'[j].slot] \in FullSlot
    <3>1. CASE j = Len(queue) + 1
      BY <1>10, <1>12, <3>1
    <3>2. CASE j \in DOMAIN queue
      <4>1. queue[j].slot \in Indices /\ slots[queue[j].slot] \in FullSlot
        BY <1>3, <3>2, QueueFields
      <4> QED
        BY <3>2, <4>1, <1>9, <1>10, <1>12
    <3> QED
      BY <1>12, <3>1, <3>2
  <2>2. start' \in 0..total /\ sequence' \in Nat /\ Len(pending') <= Depth
    BY SMTT(40), <1>1, <1>4, <1>11, ConstantsAre
  <2> QED
    BY <1>1, <1>3, <1>8, <1>10, <1>11, <1>12, <2>1, <2>2 DEF Types
<1>16. Batches'
  <2>1. n + 1 <= sequence + 1 /\ sequence + 1 - (n + 1) = sequence - n
    BY <1>3, <1>4, <1>11 DEF Batches
  <2>2. start' = Smaller(Offset(sequence), total)'
    BY <1>1, <1>4, <1>13, WindowsKept DEF Offset
  <2>3. ASSUME NEW k \in DOMAIN pending'
        PROVE  /\ pending'[k].sequence = sequence' - Len(pending') + k - 1
               /\ pending'[k].slot = SlotOf(pending'[k].sequence)
               /\ Offset(pending'[k].sequence) < total
               /\ pending'[k].size = SizeOf(pending'[k].sequence)
    <3>1. CASE k = n + 1
      <4>1. sequence = sequence + 1 - (n + 1) + (n + 1) - 1
        BY <1>4, <1>11
      <4> QED
        BY <1>1, <1>4, <1>11, <3>1, <4>1
    <3>2. CASE k \in DOMAIN pending
      <4>1. sequence' - Len(pending') = sequence - n
        BY <1>1, <1>4, <1>11, <2>1
      <4> QED
        BY <1>3, <1>11, <3>2, <4>1 DEF Batches
    <3> QED
      BY <1>11, <3>1, <3>2
  <2>4. Smaller(total, BatchLimit) <= BufferWindows
    <3>1. CASE sequence = 0
      <4>1. 0 * BatchLimit = 0
        BY <1>4
      <4>2. start = 0
        BY <1>4, <3>1, <4>1 DEF Offset
      <4> QED
        BY <1>1, <1>4, <4>2 DEF BatchWindows
    <3>2. CASE sequence > 0
      BY <1>3, <3>2 DEF Batches
    <3> QED
      BY <1>4, <3>1, <3>2
  <2> QED
    BY <1>1, <1>11, <1>13, <2>1, <2>2, <2>3, <2>4, WindowsKept DEF Batches
<1>17. Jobs'
  <2>1. Len(queue) <= n /\ Len(pending') - Len(queue') = n - Len(queue)
    BY <1>3, <1>11, <1>12 DEF Running, Jobs
  <2>2. ASSUME NEW j \in DOMAIN queue'
        PROVE  LET k == Len(pending') - Len(queue') + j
               IN  /\ queue'[j].slot = pending'[k].slot
                   /\ queue'[j].content = Windows(pending'[k].sequence)
    <3>1. CASE j = Len(queue) + 1
      <4>1. Len(pending') - Len(queue') + j = n + 1
        BY <1>11, <1>12, <2>1, <3>1
      <4> QED
        BY <1>6, <1>11, <1>12, <3>1, <4>1
    <3>2. CASE j \in DOMAIN queue
      <4>1. n - Len(queue) + j \in DOMAIN pending
        BY <1>11, <1>12, <2>1, <3>2
      <4> QED
        BY <1>3, <1>11, <1>12, <2>1, <3>2, <4>1 DEF Running, Jobs
    <3> QED
      BY <1>12, <3>1, <3>2
  <2> QED
    BY <1>11, <1>12, <1>13, <2>1, <2>2, WindowsKept DEF Jobs
<1>18. Held(slots)'
  <2>1. Len(pending') - Len(queue') = n - Len(queue)
    BY <1>11, <1>12
  <2>2. ASSUME NEW k \in DOMAIN pending' PROVE Holds(slots, k)'
    <3>1. CASE k = n + 1
      BY <1>10, <1>11, <3>1 DEF Holds
    <3>2. CASE k \in DOMAIN pending
      <4>1. Holds(pool, k) /\ slots'[pending[k].slot] = pool[pending[k].slot]
            /\ pending'[k] = pending[k]
        BY <1>7, <1>10, <1>11, <1>14, <3>2 DEF Held
      <4> QED
        BY SMTT(40), <1>13, <2>1, <4>1, WindowsKept DEF Holds
    <3> QED
      BY <1>11, <3>1, <3>2
  <2> QED
    BY <2>2 DEF Held
<1>19. Free(slots)'
  <2> SUFFICES ASSUME NEW d \in Indices, \A k \in DOMAIN pending' : pending'[k].slot # d
               PROVE  slots'[d] = None \/ slots'[d].map = "unmapped"
    BY DEF Free
  <2>1. d # i
    BY <1>11
  <2>2. \A k \in DOMAIN pending : pending[k].slot # d
    BY <1>11
  <2> QED
    BY <1>7, <1>10, <2>1, <2>2 DEF Free
<1>20. Reported(slots, completed, channel)'
  <2>1. ASSUME NEW r, About(r, pool) PROVE About(r, slots)'
    <3>1. PICK k \in DOMAIN pending :
              /\ r[1] = pending[k].sequence
              /\ pool[pending[k].slot].map = IF r[2] THEN "mapped" ELSE "unmapped"
      BY <2>1 DEF About
    <3>2. k \in DOMAIN pending' /\ pending'[k] = pending[k]
          /\ slots'[pending[k].slot] = pool[pending[k].slot]
      BY <1>10, <1>11, <1>14
    <3> QED
      BY <3>1, <3>2 DEF About
  <2> QED
    BY <1>7, <1>13, <2>1 DEF Reported
<1>21. Collected'
  <2>1. sequence' - Len(pending') = sequence - Len(pending)
    BY <1>1, <1>4, <1>11
  <2> QED
    BY <1>3, <1>13, <2>1, WindowsKept DEF Running, Collected, Offset
<1> QED
  BY <1>1, <1>15, <1>16, <1>17, <1>18, <1>19, <1>20, <1>21 DEF IInv, Running

\* One batch after another.
LEMMA OffsetsFollow ==
    ASSUME Types, NEW s \in Nat
    PROVE  /\ BatchLimit \in Nat \ {0} /\ total \in Nat
           /\ Offset(s) \in Nat /\ Offset(s + 1) \in Nat
           /\ Offset(s) < total =>
                  SizeOf(s) \in Nat /\ Offset(s) + SizeOf(s) = Smaller(Offset(s + 1), total)
<1>1. BatchLimit \in Nat \ {0} /\ total \in Nat
  BY LimitIsPositive, ConstantsAre DEF Types
<1> DEFINE L == BatchLimit
<1>2. Offset(s) \in Nat /\ Offset(s + 1) = Offset(s) + L
  <2> HIDE DEF L
  <2>1. L \in Nat
    BY <1>1 DEF L
  <2>2. s * L \in Nat /\ (s + 1) * L = s * L + L
    BY <2>1
  <2> QED
    BY <2>2 DEF Offset, L
<1>3. Offset(s) < total => SizeOf(s) \in Nat /\ Offset(s) + SizeOf(s) = Smaller(Offset(s) + L, total)
  BY <1>1, <1>2 DEF SizeOf, Smaller
<1> QED
  BY <1>1, <1>2, <1>3

\* What is known of a batch whose read-back has succeeded: it is mapped, and
\* holds the batch.
LEMMA ReportedIsMapped ==
    ASSUME Types, Batches, Held(slots), NEW k \in DOMAIN pending,
           About(<<pending[k].sequence, TRUE>>, slots)
    PROVE  LET slot == slots[pending[k].slot]
           IN  /\ slot \in FullSlot /\ slot.map = "mapped"
               /\ k <= Len(pending) - Len(queue)
               /\ SubSeq(slot.staging, 1, pending[k].size) = Windows(pending[k].sequence)
<1> DEFINE slot == slots[pending[k].slot]
<1>1. PICK j \in DOMAIN pending :
          pending[k].sequence = pending[j].sequence /\ slots[pending[j].slot].map = "mapped"
  BY DEF About
<1>2. j = k
  BY <1>1, PendingDiffer
<1>3. Holds(slots, k)
  BY DEF Held
<1>4. /\ slot \in FullSlot /\ slot.map = "mapped" /\ pending[k].size <= slot.capacity
      /\ k <= Len(pending) - Len(queue)
      /\ \A w \in 1..pending[k].size :
             slot.staging[w] = <<chunk, Offset(pending[k].sequence) + w>>
  BY <1>1, <1>2, <1>3 DEF Holds
<1>5. /\ pending[k].size = SizeOf(pending[k].sequence) /\ pending[k].size \in Nat
      /\ Offset(pending[k].sequence) \in Nat
  BY PendingFields, OffsetsFollow DEF Batches
<1> HIDE DEF slot
<1>6. slot.staging \in Seq(Scored \cup {None}) /\ pending[k].size <= Len(slot.staging)
  BY <1>4, SlotFields
<1> DEFINE staging == slot.staging
           o == Offset(pending[k].sequence)
           n == pending[k].size
<1>7. /\ staging \in Seq(Scored \cup {None}) /\ n \in Nat /\ n <= Len(staging) /\ o \in Nat
      /\ \A w \in 1..n : staging[w] = <<chunk, o + w>>
  BY <1>4, <1>5, <1>6
<1> HIDE DEF staging, o, n
<1>8. SubSeq(staging, 1, n) = Run(chunk, o, n)
  BY <1>7, RunIsRead
<1> QED
  BY <1>4, <1>5, <1>8 DEF slot, staging, o, n, Windows

LEMMA ReduceKeeps ==
    ASSUME IInv, Reduce PROVE IInv'
<1> DEFINE b == pending[1]
           i == b.slot
           n == Len(pending)
<1>1. /\ pc = "running" /\ pending # <<>> /\ Head(pending) = b
      /\ <<b.sequence, TRUE>> \in completed
      /\ completed' = {r \in completed : r[1] # b.sequence}
      /\ scores' = scores \o SubSeq(slots[i].staging, 1, b.size)
      /\ pending' = Tail(pending)
      /\ slots' = [slots EXCEPT ![i].map = "unmapped"]
      /\ UNCHANGED <<pc, chunk, total, start, sequence, answer, channel,
                     queue, lost, hardwareLimit>>
  <2>1. Head(pending) = b
    BY DEF Reduce, IInv, Types
  <2> QED
    BY <2>1 DEF Reduce, NextReport
<1>2. Types /\ Running /\ Batches /\ Jobs
  BY <1>1 DEF IInv, Running
<1>3. /\ n \in Nat /\ n >= 1 /\ DOMAIN pending = 1..n /\ 1 \in DOMAIN pending
      /\ pending' \in Seq(Batch) /\ Len(pending') = n - 1 /\ DOMAIN pending' = 1..(n - 1)
      /\ \A k \in DOMAIN pending' : k + 1 \in DOMAIN pending /\ k + 1 # 1
                                    /\ pending'[k] = pending[k + 1] /\ k \in Nat
      /\ \A k \in DOMAIN pending : k # 1 => k - 1 \in DOMAIN pending' /\ pending'[k - 1] = pending[k]
  <2>1. pending \in Seq(Batch)
    BY <1>2 DEF Types
  <2> QED
    BY <1>1, <2>1
<1>4. /\ b.sequence \in Nat /\ i \in Indices /\ b.size \in 1..MaxWindows
      /\ sequence \in Nat /\ total \in Nat
  BY <1>2, <1>3, PendingFields, ConstantsAre DEF Types
<1>5. About(<<b.sequence, TRUE>>, slots)
  BY <1>1, <1>2 DEF Running, Reported
<1>6. /\ slots[i] \in FullSlot /\ slots[i].map = "mapped"
      /\ 1 <= n - Len(queue)
      /\ SubSeq(slots[i].staging, 1, b.size) = Windows(b.sequence)
  BY <1>2, <1>3, <1>5, ReportedIsMapped DEF Running
<1>7. /\ slots' \in Pool /\ slots'[i] \in FullSlot /\ slots'[i].map = "unmapped"
      /\ \A d \in Indices : d # i => slots'[d] = slots[d]
  <2> DEFINE s == slots[i]
             t == [s EXCEPT !.map = "unmapped"]
  <2>1. slots \in Pool
    BY <1>2 DEF Types
  <2>2. slots' = [slots EXCEPT ![i] = t]
    BY <1>1, <1>4, <2>1 DEF Pool
  <2>3. s \in FullSlot
    BY <1>6
  <2> HIDE DEF s
  <2>4. t \in FullSlot /\ t.map = "unmapped"
    BY <2>3, SlotMaps
  <2> HIDE DEF t
  <2> QED
    BY <1>4, <2>1, <2>2, <2>4 DEF Pool
<1>8. \A k \in DOMAIN pending : k # 1 =>
          /\ pending[k].slot # i /\ pending[k].slot \in Indices
          /\ pending[k].sequence # b.sequence
          /\ slots'[pending[k].slot] = slots[pending[k].slot]
  <2>1. ASSUME NEW k \in DOMAIN pending, k # 1
        PROVE  /\ pending[k].slot # i /\ pending[k].slot \in Indices
               /\ pending[k].sequence # b.sequence
    BY <1>2, <1>3, <2>1, PendingDiffer, PendingFields
  <2> QED
    BY <1>7, <2>1
<1> HIDE DEF b
<1>9. UNCHANGED <<pc, chunk, total, start, sequence, channel, queue, lost, hardwareLimit>>
  BY <1>1
<1>10. Types'
  <2>1. ASSUME NEW j \in DOMAIN queue PROVE slots'[queue[j].slot] \in FullSlot
    <3>1. queue[j].slot \in Indices /\ slots[queue[j].slot] \in FullSlot
      BY <1>2, QueueFields
    <3> QED
      BY <1>7, <3>1
  <2>2. Len(pending') <= Depth
    BY <1>2, <1>3, ConstantsAre DEF Types
  <2>3. completed' \in SUBSET (Nat \X BOOLEAN)
    BY <1>1, <1>2 DEF Types
  <2> QED
    BY <1>2, <1>3, <1>7, <1>9, <2>1, <2>2, <2>3 DEF Types
<1>11. Batches'
  <2>1. ASSUME NEW k \in DOMAIN pending'
        PROVE  /\ pending'[k].sequence = sequence - Len(pending') + k - 1
               /\ pending'[k].slot = SlotOf(pending'[k].sequence)
               /\ Offset(pending'[k].sequence) < total
               /\ pending'[k].size = SizeOf(pending'[k].sequence)
    <3>1. sequence - (n - 1) + k - 1 = sequence - n + (k + 1) - 1
      BY SMTT(40), <1>3, <1>4
    <3> QED
      BY <1>2, <1>3, <3>1 DEF Batches
  <2>2. Len(pending') <= sequence
    BY <1>2, <1>3, <1>4 DEF Batches
  <2>3. start' = Smaller(Offset(sequence), total)' /\ (sequence > 0 => Smaller(total, BatchLimit) <= BufferWindows)'
    BY <1>2, <1>9, WindowsKept DEF Batches
  <2> QED
    BY <1>9, <2>1, <2>2, <2>3, WindowsKept DEF Batches
<1>12. Len(queue) \in Nat /\ Len(queue) <= Len(pending')
  BY <1>2, <1>3, <1>6 DEF Types
<1>13. Jobs'
  <2>1. ASSUME NEW j \in DOMAIN queue
        PROVE  LET k == Len(pending') - Len(queue) + j
               IN  /\ queue[j].slot = pending'[k].slot
                   /\ queue[j].content = Windows(pending'[k].sequence)
    <3> DEFINE k == Len(pending') - Len(queue) + j
    <3>1. j \in 1..Len(queue) /\ k \in 1..(n - 1) /\ k + 1 = n - Len(queue) + j
      BY <1>2, <1>3, <1>12 DEF Types
    <3>2. pending'[k] = pending[n - Len(queue) + j]
      BY <1>3, <3>1
    <3> QED
      BY <1>2, <3>2 DEF Jobs
  <2> QED
    BY <1>9, <1>12, <2>1, WindowsKept DEF Jobs
<1>14. Held(slots)'
  <2>1. ASSUME NEW k \in DOMAIN pending' PROVE Holds(slots, k)'
    <3>1. /\ Holds(slots, k + 1) /\ pending'[k] = pending[k + 1]
          /\ slots'[pending[k + 1].slot] = slots[pending[k + 1].slot]
      BY <1>2, <1>3, <1>8 DEF Running, Held
    <3>2. k + 1 <= Len(pending) - Len(queue) => k <= Len(pending') - Len(queue)
      BY <1>3, <1>12
    <3> QED
      BY SMTT(40), <1>9, <3>1, <3>2, WindowsKept DEF Holds
  <2> QED
    BY <2>1 DEF Held
<1>15. Free(slots)'
  <2> SUFFICES ASSUME NEW d \in Indices, \A k \in DOMAIN pending' : pending'[k].slot # d
               PROVE  slots'[d] = None \/ slots'[d].map = "unmapped"
    BY DEF Free
  <2>1. CASE d = i
    BY <1>7, <2>1
  <2>2. CASE d # i
    <3>1. \A k \in DOMAIN pending : pending[k].slot # d
      <4>1. ASSUME NEW k \in DOMAIN pending PROVE pending[k].slot # d
        <5>1. CASE k = 1
          BY <2>2, <5>1 DEF b
        <5>2. CASE k # 1
          BY <1>3, <5>2
        <5> QED BY <5>1, <5>2
      <4> QED BY <4>1
    <3> QED
      BY <1>2, <1>7, <2>2, <3>1 DEF Running, Free
  <2> QED
    BY <2>1, <2>2
<1>16. Reported(slots, completed, channel)'
  <2>1. ASSUME NEW r, About(r, slots), r[1] # b.sequence PROVE About(r, slots)'
    <3>1. PICK k \in DOMAIN pending :
              /\ r[1] = pending[k].sequence
              /\ slots[pending[k].slot].map = IF r[2] THEN "mapped" ELSE "unmapped"
      BY <2>1 DEF About
    <3>2. k # 1
      BY <2>1, <3>1 DEF b
    <3>3. k - 1 \in DOMAIN pending' /\ pending'[k - 1] = pending[k]
          /\ slots'[pending[k].slot] = slots[pending[k].slot]
      BY <1>3, <1>8, <3>2
    <3> QED
      BY <3>1, <3>3 DEF About
  <2>2. \A m \in DOMAIN channel : channel[m][1] # b.sequence
    BY <1>1, <1>2 DEF Running, Reported
  <2> QED
    BY <1>1, <1>2, <1>9, <2>1, <2>2 DEF Running, Reported
<1>17. Collected'
  <2>1. /\ b.sequence = sequence - n /\ Offset(b.sequence) < total
        /\ b.size = SizeOf(b.sequence) /\ sequence - (n - 1) = b.sequence + 1
    <3>1. b.sequence = sequence - n + 1 - 1
      BY <1>2, <1>3 DEF Batches, b
    <3> QED
      BY <1>2, <1>3, <1>4, <3>1 DEF Batches, b
  <2>2. /\ Offset(b.sequence) \in Nat /\ SizeOf(b.sequence) \in Nat
        /\ Offset(b.sequence) + SizeOf(b.sequence) = Smaller(Offset(b.sequence + 1), total)
    BY <1>2, <1>4, <2>1, OffsetsFollow
  <2>3. Smaller(Offset(b.sequence), total) = Offset(b.sequence)
    BY <1>4, <2>1, <2>2 DEF Smaller
  <2>4. scores = Run(chunk, 0, Offset(b.sequence))
    BY <1>2, <2>1, <2>3 DEF Running, Collected
  <2>5. scores' = Run(chunk, 0, Offset(b.sequence)) \o Run(chunk, Offset(b.sequence), SizeOf(b.sequence))
    BY <1>1, <1>6, <2>4 DEF Windows
  <2>6. scores' = Run(chunk, 0, Smaller(Offset(b.sequence + 1), total))
    BY <2>2, <2>5, RunsJoin
  <2>7. sequence' - Len(pending') = b.sequence + 1
    BY <1>3, <1>9, <2>1
  <2> QED
    BY <1>9, <2>6, <2>7, WindowsKept DEF Collected, Offset
<1> QED
  BY <1>1, <1>9, <1>10, <1>11, <1>13, <1>14, <1>15, <1>16, <1>17 DEF IInv, Running

-----------------------------------------------------------------------------
(* The theorems.                                                           *)

LEMMA InitHolds ==
    ASSUME Init PROVE IInv
<1>1. /\ pc = "idle" /\ chunk = 0 /\ total = 0 /\ start = 0 /\ sequence = 0
      /\ pending = <<>> /\ channel = <<>> /\ completed = {} /\ queue = <<>>
      /\ slots = [d \in Indices |-> None] /\ lost = FALSE /\ hardwareLimit \in HardwareLimits
  BY DEF Init
<1>2. slots \in Pool /\ Unmapped(slots)
  BY <1>1 DEF Pool, Unmapped
<1>3. /\ pending \in Seq(Batch) /\ Len(pending) = 0 /\ queue \in Seq(Job) /\ DOMAIN queue = {}
      /\ channel \in Seq(Nat \X BOOLEAN)
  BY <1>1
<1>4. Types
  <2>1. completed \in SUBSET (Nat \X BOOLEAN) /\ sequence \in Nat /\ start \in 0..total
    BY <1>1
  <2>2. chunk \in 0..MaxChunks /\ total \in 0..MaxWindows /\ Len(pending) <= Depth
    BY <1>1, <1>3, ConstantsAre
  <2>3. pc \in {"idle", "running", "closed"} /\ pc # "running"
    BY <1>1
  <2>4. \A j \in DOMAIN queue : slots[queue[j].slot] \in FullSlot
    BY <1>3
  <2> QED
    BY <1>1, <1>2, <1>3, <2>1, <2>2, <2>3, <2>4 DEF Types
<1> QED
  BY <1>1, <1>2, <1>4 DEF IInv, Resting

LEMMA StepHolds ==
    ASSUME IInv, [Next]_vars PROVE IInv'
BY StartChunkKeeps, SubmitKeeps, RefuseKeeps, PollKeeps, FailuresKeep, ReduceKeeps,
   ReturnKeeps, DeviceStepKeeps, RestKeeps DEF Next, Host

LEMMA TypesHold ==
    ASSUME IInv PROVE TypeOK
<1>1. Types
  BY DEF IInv
<1>2. \A k \in DOMAIN pending :
          pending[k] \in [sequence : Nat, slot : Indices, size : 1..MaxWindows]
  BY <1>1, PendingFields DEF Batch
<1>3. \A r \in completed \cup ToSet(channel) : r \in Nat \X BOOLEAN
  BY <1>1 DEF Types, ToSet
<1>4. \A i \in Indices : slots[i] = None \/ slots[i] \in Slot
  BY <1>1 DEF Types, Pool, FullSlot
<1>5. \A k \in DOMAIN queue : queue[k].slot \in Indices
  BY <1>1, QueueFields
<1> QED
  BY <1>1, <1>2, <1>3, <1>4, <1>5 DEF Types, TypeOK

\* A report in the channel and a read-back still to come are of different
\* slots, so there are no more of both than slots.
LEMMA RoomForCallbacks ==
    ASSUME IInv PROVE CallbacksHaveRoom
<1> DEFINE W == Waiting(slots)
           n == Len(channel)
<1>1. /\ Depth \in Nat /\ IsFiniteSet(Indices) /\ Cardinality(Indices) = Depth
  <2>1. Depth \in Nat /\ 0 \in Int /\ Depth - 1 \in Int /\ 0 <= Depth
    BY ConstantsAre
  <2>2. IsFiniteSet(0..(Depth - 1))
        /\ Cardinality(0..(Depth - 1)) = IF 0 > Depth - 1 THEN 0 ELSE (Depth - 1) - 0 + 1
    BY <2>1, FS_Interval
  <2>3. (Depth - 1) - 0 + 1 = Depth /\ ~(0 > Depth - 1)
    BY ConstantsAre
  <2> QED
    BY <2>1, <2>2, <2>3 DEF Indices
<1>2. W \subseteq Indices
  BY DEF Waiting
<1>3. IsFiniteSet(W) /\ IsFiniteSet(Indices \ W)
      /\ Cardinality(Indices \ W) = Cardinality(Indices) - Cardinality(Indices \cap W)
      /\ Cardinality(W) \in Nat
  BY <1>1, <1>2, FS_Subset, FS_Difference, FS_CardinalityType
<1>4. Indices \cap W = W
  BY <1>2
<1>5. channel \in Seq(Nat \X BOOLEAN) /\ n \in Nat /\ DOMAIN channel = 1..n
  BY DEF IInv, Types
<1>6. CASE pc # "running"
  <2>1. channel = <<>> /\ W = {}
    BY <1>6 DEF IInv, Resting, Unmapped, Waiting
  <2>2. Cardinality(W) = 0 /\ n = 0
    BY <2>1, FS_EmptySet
  <2> QED
    BY <1>1, <2>2 DEF CallbacksHaveRoom, ChannelBound
<1>7. CASE pc = "running"
  <2> DEFINE f == [m \in 1..n |-> SlotOf(channel[m][1])]
  <2>1. Types /\ Batches /\ Reported(slots, completed, channel)
    BY <1>7 DEF IInv, Running
  <2>2. ASSUME NEW m \in 1..n
        PROVE  \E k \in DOMAIN pending :
                   /\ channel[m][1] = pending[k].sequence
                   /\ pending[k].slot = SlotOf(channel[m][1])
                   /\ SlotOf(channel[m][1]) \in Indices \ W
    <3>1. PICK k \in DOMAIN pending :
              /\ channel[m][1] = pending[k].sequence
              /\ slots[pending[k].slot].map = IF channel[m][2] THEN "mapped" ELSE "unmapped"
      BY <1>5, <2>1 DEF Reported, About
    <3>2. pending[k].slot = SlotOf(channel[m][1]) /\ pending[k].slot \in Indices
      BY <2>1, <3>1, PendingFields DEF Batches
    <3>3. pending[k].slot \notin W
      BY <3>1 DEF Waiting
    <3> QED
      BY <3>1, <3>2, <3>3
  <2>3. ASSUME NEW l \in 1..n, NEW m \in 1..n, l # m
        PROVE  SlotOf(channel[l][1]) # SlotOf(channel[m][1])
    <3>1. PICK j \in DOMAIN pending :
              channel[l][1] = pending[j].sequence /\ pending[j].slot = SlotOf(channel[l][1])
      BY <2>2
    <3>2. PICK k \in DOMAIN pending :
              channel[m][1] = pending[k].sequence /\ pending[k].slot = SlotOf(channel[m][1])
      BY <2>2
    <3>3. channel[l][1] # channel[m][1]
      BY <1>5, <2>1, <2>3 DEF Reported
    <3>4. j # k
      BY <3>1, <3>2, <3>3
    <3> QED
      BY <2>1, <3>1, <3>2, <3>4, PendingDiffer
  <2>4. f \in Injection(1..n, Indices \ W)
    BY <2>2, <2>3 DEF Injection, IsInjective
  <2>5. Cardinality(1..n) <= Cardinality(Indices \ W)
    BY <1>3, <2>4, FS_Injection
  <2>6. Cardinality(1..n) = n
    BY SMTT(40), <1>5, FS_Interval
  <2>7. n <= Cardinality(Indices) - Cardinality(W)
    BY <1>3, <1>4, <2>5, <2>6
  <2>8. n + Cardinality(W) <= Depth
    <3> HIDE DEF n, W
    <3> QED BY <1>1, <1>3, <1>5, <2>7
  <2> QED
    BY <2>8 DEF CallbacksHaveRoom, ChannelBound
<1> QED
  BY <1>6, <1>7

LEMMA ReportsReadable ==
    ASSUME IInv PROVE ReportsAreReadable
<1> SUFFICES ASSUME pc = "running", NEW k \in DOMAIN pending,
                    <<pending[k].sequence, TRUE>> \in completed \cup ToSet(channel)
             PROVE  /\ slots[pending[k].slot].map = "mapped"
                    /\ SubSeq(slots[pending[k].slot].staging, 1, pending[k].size) =
                         [w \in 1..pending[k].size |->
                             <<chunk, pending[k].sequence * BatchLimit + w>>]
  BY DEF ReportsAreReadable
<1>1. Types /\ Batches /\ Held(slots) /\ Reported(slots, completed, channel)
  BY DEF IInv, Running
<1>2. About(<<pending[k].sequence, TRUE>>, slots)
  BY <1>1 DEF Reported, ToSet
<1>3. /\ slots[pending[k].slot].map = "mapped"
      /\ SubSeq(slots[pending[k].slot].staging, 1, pending[k].size) = Windows(pending[k].sequence)
  BY <1>1, <1>2, ReportedIsMapped
<1>4. pending[k].size = SizeOf(pending[k].sequence)
  BY <1>1 DEF Batches
<1> QED
  BY <1>3, <1>4 DEF Windows, Run, Offset

LEMMA SlotsFree ==
    ASSUME IInv PROVE SlotIsFree
<1>1. ASSUME pc = "running", CanFill
      PROVE  slots[SlotOf(sequence)] = None \/ slots[SlotOf(sequence)].map = "unmapped"
  <2>1. Types /\ Batches /\ Free(slots) /\ Len(pending) < Depth
    BY <1>1 DEF IInv, Running, CanFill
  <2>2. SlotOf(sequence) \in Indices
    BY <2>1, SlotIsIndex DEF Types
  <2> QED
    BY <2>1, <2>2, NextSlotDiffers DEF Free
<1>2. ASSUME pc # "running"
      PROVE  \A i \in Indices : slots[i] = None \/ slots[i].map = "unmapped"
  BY <1>2 DEF IInv, Resting, Unmapped
<1> QED
  BY <1>1, <1>2 DEF SlotIsFree

\* For every depth of the ring, every limit of the hardware and every sizes of
\* the chunks, whatever fails: no callback finds the channel full, what has been
\* reported can be read in its slot, and the next slot is free.
THEOREM RingSound == Spec => []RingInvariant
<1>1. Init => IInv
  BY InitHolds
<1>2. IInv /\ [Next]_vars => IInv'
  BY StepHolds
<1>3. IInv => RingInvariant
  BY TypesHold, RoomForCallbacks, ReportsReadable, SlotsFree DEF RingInvariant
<1> QED
  BY <1>1, <1>2, <1>3, PTL DEF Spec

\* Every step of the ring is one of ChunkScorer or none of its business: a
\* chunk is answered with the score of each of its windows in its place, or
\* refused for good.
THEOREM AnswersExactly == Spec => Scorer!Init /\ [][Scorer!Next]_Scorer!vars
<1> USE DEF Scorer!vars
<1>1. Init => Scorer!Init
  BY DEF Init, Scorer!Init
<1>2. IInv /\ [Next]_vars => [Scorer!Next]_Scorer!vars
  <2> SUFFICES ASSUME IInv, [Next]_vars PROVE [Scorer!Next]_Scorer!vars
    OBVIOUS
  <2>1. CASE StartChunk
    BY <2>1 DEF StartChunk, Scorer!Next, Scorer!Ask
  <2>2. CASE Submit \/ Poll \/ Reduce
    BY <2>2 DEF Submit, Poll, Reduce
  <2>3. CASE Refuse \/ PollFails \/ ReduceFails
    BY <2>3 DEF Refuse, PollFails, ReduceFails, Close, Scorer!Next, Scorer!Fail
  <2>4. CASE Return
    <3>1. answer' = Scorer!Exact(chunk, total)
      <4>1. answer' = Run(chunk, 0, total) /\ total \in Nat
        BY <2>4, ReturnAnswers, ConstantsAre DEF IInv, Types
      <4>2. \A w \in 1..total : 0 + w = w
        BY <4>1
      <4> QED
        BY <4>1, <4>2 DEF Run, Scorer!Exact
    <3>2. pc = "running" /\ pc' = "idle" /\ UNCHANGED <<chunk, total>>
      BY <2>4 DEF Return
    <3> QED
      BY <3>1, <3>2 DEF Scorer!Next, Scorer!Answer
  <2>5. CASE DeviceStep \/ DeviceLost \/ UNCHANGED vars
    BY <2>5 DEF DeviceStep, DeviceLost, host, vars
  <2> QED
    BY <2>1, <2>2, <2>3, <2>4, <2>5 DEF Next, Host
<1>3. Init => IInv
  BY InitHolds
<1>4. IInv /\ [Next]_vars => IInv'
  BY StepHolds
<1> QED
  BY <1>1, <1>2, <1>3, <1>4, PTL DEF Spec

-----------------------------------------------------------------------------
(* The duty policy.                                                        *)

\* The condition the policy needs: Charge takes no more than a window from
\* the bucket, so a chunk that takes longer is partly free.
ShortDispatches == \A active \in Dispatches : active <= WindowMs

\* A ledger of the bucket.  What it holds and what was taken from it, for
\* all dispatches and for those since the first credit was used up, never
\* exceeds what was put in; and it is overdrawn by one dispatch at most.
Ledger ==
    ~Duty!Unlimited =>
        /\ tokens + 100 * allActive <= Duty!Capacity + Percent * lastRefill
        /\ steadyStart # None =>
             /\ steadyStart <= lastRefill
             /\ tokens + 100 * steadyActive
                  <= Percent * (lastRefill - steadyStart)
        /\ tokens + 100 * maxDispatch > 0
        /\ dutyPc = "admitted" => tokens > 0

\* The same for any schedule: nobody is admitted to an overdrawn bucket.
Admission == ~Duty!Unlimited /\ dutyPc = "admitted" => tokens > 0

\* Until the first credit is used up nothing counts as steady.
NotSteadyYet == steadyStart = None => steadyActive = 0

DutyTypes == Duty!TypeOK /\ Admission
DutyInv == DutyTypes /\ Ledger /\ NotSteadyYet

LEMMA PolicyConstantsAre ==
    /\ Percent \in 0..100
    /\ WindowMs \in Nat \ {0}
    /\ Dispatches \subseteq Nat
    /\ Gaps \subseteq Nat
    /\ MaxTime \in Nat
    /\ None \notin Nat
BY PolicyAssumption DEF Duty!PolicyConstants

\* Multiplication by the percentage distributes over a sum of times.
LEMMA Distribute ==
    ASSUME NEW p \in Int, NEW a \in Int, NEW b \in Int
    PROVE  /\ p * (a + b) = p * a + p * b
           /\ p * (a - b) = p * a - p * b
           /\ p \in Nat /\ a \in Nat => p * a \in Nat
OBVIOUS

\* What is earned in a time is an integer, and nothing in no time.
LEMMA Earned ==
    /\ \A time \in Int : Percent * time \in Int
    /\ \A time \in Int : Percent * (time - time) = 0
BY PolicyConstantsAre

\* The wait refills the bucket to one millisecond at least, and takes no
\* longer than that rounded up.
LEMMA WaitIsEnough ==
    ASSUME NEW held \in Int, ~Duty!Unlimited
    PROVE  /\ Duty!RequiredWait(held) \in Nat
           /\ held > 0 => Duty!RequiredWait(held) = 0
           /\ held <= 0 =>
                /\ held + Percent * Duty!RequiredWait(held) >= 100
                /\ held + Percent * Duty!RequiredWait(held) < 100 + Percent
<1>1. Percent \in 1..99
  BY PolicyConstantsAre DEF Duty!Unlimited
<1>2. CASE held > 0
  BY <1>2 DEF Duty!RequiredWait
<1>3. CASE held <= 0
  <2> DEFINE debt == 100 - held + Percent - 1
             wait == debt \div Percent
  <2>1. debt \in Nat /\ wait \in Int
    BY <1>1, <1>3
  <2>2. Percent * wait <= debt /\ debt < Percent * wait + Percent
    BY <1>1, <2>1
  <2>3. wait \in Nat
    BY <1>1, <2>1, <2>2
  <2> QED
    BY <1>1, <1>3, <2>1, <2>2, <2>3 DEF Duty!RequiredWait, Duty!Unlimited
<1> QED
  BY <1>2, <1>3

\* What refilling does: the bucket gains, no more than the time's worth, and
\* never more than it can hold.
LEMMA RefillBounds ==
    ASSUME Duty!TypeOK, ~Duty!Unlimited, NEW time \in Nat, time >= lastRefill
    PROVE  /\ Duty!Refilled(time) \in Int
           /\ Duty!Refilled(time) <= Duty!Capacity
           /\ Duty!Refilled(time) >= tokens
           /\ Duty!Refilled(time) <= tokens + Percent * (time - lastRefill)
           /\ \/ Duty!Refilled(time) = Duty!Capacity
              \/ Duty!Refilled(time) = tokens + Percent * (time - lastRefill)
<1>1. Percent * (time - lastRefill) \in Nat
  BY PolicyConstantsAre, Distribute DEF Duty!TypeOK
<1> QED
  BY <1>1, PolicyConstantsAre DEF Duty!Refilled, Duty!Lesser, Duty!Capacity, Duty!TypeOK

-----------------------------------------------------------------------------
\* A full bucket at time zero.
LEMMA InvInit == Duty!Init => DutyInv
BY PolicyConstantsAre
DEF Duty!Init, DutyInv, DutyTypes, Duty!TypeOK, Admission, Ledger, NotSteadyYet, Duty!Capacity, Duty!Unlimited

\* After the wait the bucket is not overdrawn.
LEMMA Admitted ==
    ASSUME Duty!TypeOK, ~Duty!Unlimited, Duty!WaitBeforeSubmission
    PROVE  /\ now' \in Nat /\ now' >= now
           /\ tokens' = Duty!Refilled(now')
           /\ tokens' > 0
           /\ Percent * (totalWait' - totalWait) < Duty!Capacity + 100 + Percent
<1> DEFINE held == Duty!Refilled(now)
           wait == Duty!RequiredWait(held)
<1>1. held \in Int /\ held > -Duty!Capacity
  BY RefillBounds, PolicyConstantsAre DEF Duty!TypeOK, Duty!Capacity
<1>2. wait \in Nat
  BY <1>1, WaitIsEnough
<1>3. PICK late \in Gaps : now' = IF wait = 0 THEN now ELSE now + wait + late
  BY DEF Duty!WaitBeforeSubmission
<1>4. late \in Nat
  BY PolicyConstantsAre
<1>5. now' \in Nat /\ now' >= now /\ now' >= lastRefill
  BY <1>2, <1>3, <1>4 DEF Duty!TypeOK
<1>6. tokens' = Duty!Refilled(now') /\ totalWait' = totalWait + wait
  BY DEF Duty!WaitBeforeSubmission
<1>7. CASE held > 0
  <2>1. wait = 0 /\ now' = now
    BY <1>1, <1>3, <1>7, WaitIsEnough
  <2>2. totalWait' - totalWait = 0
    BY <1>6, <2>1 DEF Duty!TypeOK
  <2> QED
    BY <1>5, <1>6, <1>7, <2>1, <2>2, PolicyConstantsAre DEF Duty!Capacity
<1>8. CASE held <= 0
  <2>1. held + Percent * wait >= 100 /\ held + Percent * wait < 100 + Percent
    BY <1>1, <1>8, WaitIsEnough
  <2>2. held = tokens + Percent * (now - lastRefill)
    BY <1>8, RefillBounds, PolicyConstantsAre DEF Duty!TypeOK, Duty!Capacity
  <2>3. wait # 0 /\ now' = (now + wait) + late
    <3>1. Percent * 0 = 0
      BY PolicyConstantsAre
    <3> HIDE DEF held, wait
    <3> QED
      BY <1>1, <1>2, <1>3, <1>4, <1>8, <2>1, <3>1 DEF Duty!TypeOK
  <2>4. Percent * (now' - lastRefill)
          = Percent * (now - lastRefill) + Percent * wait + Percent * late
    <3>1. now' - lastRefill = ((now - lastRefill) + wait) + late
      BY <1>2, <1>4, <2>3 DEF Duty!TypeOK
    <3>2. /\ now - lastRefill \in Int
          /\ wait \in Int /\ late \in Int /\ Percent \in Int
          /\ (now - lastRefill) + wait \in Int
      BY <1>2, <1>4, PolicyConstantsAre DEF Duty!TypeOK
    <3> HIDE DEF held, wait
    <3> QED
      BY <3>1, <3>2, Distribute
  <2>5. Percent * late \in Nat
    BY <1>4, Distribute, PolicyConstantsAre
  <2>6. tokens + Percent * (now' - lastRefill) >= 100
    <3>1. Percent * wait \in Int /\ Percent * (now - lastRefill) \in Int
      BY <1>2, PolicyConstantsAre DEF Duty!TypeOK
    <3> HIDE DEF held, wait
    <3> QED
      BY <1>1, <2>1, <2>2, <2>4, <2>5, <3>1 DEF Duty!TypeOK
  <2>7. Duty!Refilled(now') > 0
    BY <1>5, <2>6, RefillBounds, PolicyConstantsAre DEF Duty!Capacity
  <2>8. Percent * (totalWait' - totalWait) < Duty!Capacity + 100 + Percent
    <3>1. totalWait' - totalWait = wait
      BY <1>2, <1>6 DEF Duty!TypeOK
    <3>2. Percent * wait \in Int /\ Percent \in Int /\ Duty!Capacity \in Int
      BY <1>2, PolicyConstantsAre DEF Duty!Capacity
    <3> HIDE DEF held, wait
    <3> QED
      BY <1>1, <2>1, <3>1, <3>2
  <2> QED
    BY <1>5, <1>6, <2>7, <2>8
<1> QED
  BY <1>1, <1>7, <1>8

-----------------------------------------------------------------------------
\* Types, and the admission rule they rest on, are kept by every step.
LEMMA TypesKept == DutyTypes /\ [Duty!Next]_Duty!vars => DutyTypes'
<1> SUFFICES ASSUME DutyTypes, [Duty!Next]_Duty!vars PROVE DutyTypes'
  OBVIOUS
<1> USE PolicyConstantsAre DEF DutyTypes, Duty!Capacity, Duty!metrics
<1>1. CASE Duty!WaitBeforeSubmission
  <2>1. /\ now' \in Nat /\ now' >= now
        /\ tokens' \in Int /\ tokens' <= Duty!Capacity /\ tokens' > -Duty!Capacity
        /\ ~Duty!Unlimited => tokens' > 0
    <3>1. CASE Duty!Unlimited
      BY <1>1, <3>1 DEF Duty!WaitBeforeSubmission, Duty!RequiredWait, Duty!Refilled, Duty!TypeOK
    <3>2. CASE ~Duty!Unlimited
      <4>1. now' \in Nat /\ now' >= now /\ tokens' = Duty!Refilled(now') /\ tokens' > 0
        BY <1>1, <3>2, Admitted
      <4> QED
        BY <4>1, <3>2, RefillBounds DEF Duty!TypeOK
    <3> QED
      BY <3>1, <3>2
  <2>2. totalWait' \in Nat
    <3>1. Duty!RequiredWait(Duty!Refilled(now)) \in Nat
      <4>1. CASE Duty!Unlimited
        BY <4>1 DEF Duty!RequiredWait
      <4>2. CASE ~Duty!Unlimited
        BY <4>2, RefillBounds, WaitIsEnough DEF Duty!TypeOK
      <4> QED
        BY <4>1, <4>2
    <3> QED
      BY <1>1, <3>1 DEF Duty!WaitBeforeSubmission, Duty!TypeOK
  <2> QED
    BY <1>1, <2>1, <2>2 DEF Duty!WaitBeforeSubmission, Duty!TypeOK, Admission
<1>2. ASSUME NEW active \in Dispatches, Duty!RecordSubmission(active)
      PROVE  DutyTypes'
  <2>1. now' \in Nat /\ now' >= now /\ active \in Nat
    BY <1>2 DEF Duty!RecordSubmission, Duty!TypeOK
  <2>2. tokens' \in Int /\ tokens' <= Duty!Capacity /\ tokens' > -Duty!Capacity
    <3>1. CASE Duty!Unlimited
      BY <1>2, <2>1, <3>1 DEF Duty!RecordSubmission, Duty!TypeOK, Duty!Unlimited
    <3>2. CASE ~Duty!Unlimited
      <4>1. tokens' = Duty!Refilled(now') - Duty!Charge(active) /\ tokens > 0
        BY <1>2, <3>2 DEF Duty!RecordSubmission, Duty!Unlimited, Admission
      <4>2. Duty!Charge(active) \in 0..Duty!Capacity
        BY <2>1 DEF Duty!Charge, Duty!Lesser
      <4> QED
        BY <2>1, <3>2, <4>1, <4>2, RefillBounds DEF Duty!TypeOK
    <3> QED
      BY <3>1, <3>2
  <2>3. /\ lastRefill' \in 0..now'
        /\ steadyStart' \in (0..now') \cup {None}
        /\ steadyActive' \in Nat /\ allActive' \in Nat /\ maxDispatch' \in Nat
    BY <1>2, <2>1 DEF Duty!RecordSubmission, Duty!TypeOK, Duty!Larger
  <2> QED
    BY <1>2, <2>1, <2>2, <2>3 DEF Duty!RecordSubmission, Duty!TypeOK, Admission
<1>3. CASE Duty!Pass
  BY <1>3 DEF Duty!Pass, Duty!TypeOK, Admission
<1>4. CASE UNCHANGED Duty!vars
  BY <1>4 DEF Duty!vars, Duty!TypeOK, Admission, Duty!Unlimited
<1> QED
  BY <1>1, <1>2, <1>3, <1>4 DEF Duty!Next

\* The ledger stays balanced: the wait only lets the bucket refill, and a
\* chunk no longer than the window is charged in full.
LEMMA LedgerKept ==
    ShortDispatches /\ DutyInv /\ [Duty!Next]_Duty!vars => (Ledger /\ NotSteadyYet)'
<1> SUFFICES ASSUME ShortDispatches, DutyInv, [Duty!Next]_Duty!vars
             PROVE  (Ledger /\ NotSteadyYet)'
  OBVIOUS
<1> USE PolicyConstantsAre DEF DutyInv, DutyTypes
<1>t. DutyTypes'
  BY TypesKept
<1>1. CASE Duty!WaitBeforeSubmission
  <2> SUFFICES ASSUME ~Duty!Unlimited PROVE (Ledger /\ NotSteadyYet)'
    BY <1>1 DEF Duty!WaitBeforeSubmission, Ledger, NotSteadyYet, Duty!metrics, Duty!Unlimited
  <2>1. /\ now' \in Nat /\ now' >= lastRefill
        /\ tokens' = Duty!Refilled(now')
        /\ Duty!Refilled(now') \in Int /\ Duty!Refilled(now') > 0
        /\ Duty!Refilled(now') <= tokens + Percent * (now' - lastRefill)
    BY <1>1, Admitted, RefillBounds DEF Duty!TypeOK
  <2>2. Percent * (now' - lastRefill) = Percent * now' - Percent * lastRefill
    BY <2>1, Distribute DEF Duty!TypeOK
  <2>3. steadyStart # None =>
          Percent * (now' - steadyStart)
            = Percent * (now' - lastRefill) + Percent * (lastRefill - steadyStart)
    <3>1. steadyStart # None =>
            now' - steadyStart = (now' - lastRefill) + (lastRefill - steadyStart)
      BY <2>1 DEF Duty!TypeOK
    <3> QED
      BY <2>1, <3>1, Distribute DEF Duty!TypeOK
  <2>4. /\ lastRefill' = now' /\ dutyPc' = "admitted"
        /\ steadyStart' = steadyStart /\ steadyActive' = steadyActive
        /\ allActive' = allActive /\ maxDispatch' = maxDispatch
    BY <1>1 DEF Duty!WaitBeforeSubmission, Duty!metrics
  <2>5. /\ Percent * now' \in Int /\ Percent * lastRefill \in Int
        /\ Percent * (now' - lastRefill) \in Int
    <3>1. now' \in Int /\ lastRefill \in Int /\ now' - lastRefill \in Int
      BY <2>1 DEF Duty!TypeOK
    <3> QED
      BY <3>1, Earned
  <2>6. steadyStart # None => Percent * (lastRefill - steadyStart) \in Int
    <3>1. steadyStart # None => lastRefill - steadyStart \in Int
      BY DEF Duty!TypeOK
    <3> QED
      BY <3>1, Earned
  <2>7. tokens' + 100 * allActive' <= Duty!Capacity + Percent * lastRefill'
    BY <2>1, <2>2, <2>4, <2>5 DEF Ledger, Duty!TypeOK, Duty!Capacity
  <2>8. steadyStart' # None =>
          /\ steadyStart' <= lastRefill'
          /\ tokens' + 100 * steadyActive' <= Percent * (lastRefill' - steadyStart')
    BY <2>1, <2>3, <2>4, <2>5, <2>6 DEF Ledger, Duty!TypeOK
  <2>9. tokens' + 100 * maxDispatch' > 0
    BY <2>1, <2>4 DEF Duty!TypeOK
  <2> QED
    BY <2>1, <2>4, <2>7, <2>8, <2>9 DEF Ledger, NotSteadyYet
<1>2. ASSUME NEW active \in Dispatches, Duty!RecordSubmission(active)
      PROVE  (Ledger /\ NotSteadyYet)'
  <2> SUFFICES ASSUME ~Duty!Unlimited PROVE (Ledger /\ NotSteadyYet)'
    BY <1>2 DEF Duty!RecordSubmission, Ledger, NotSteadyYet, Duty!metrics, Duty!Unlimited
  <2>1. active \in Nat /\ active <= WindowMs
    BY DEF ShortDispatches
  <2>2. /\ now' \in Nat /\ now' >= lastRefill
        /\ lastRefill' = now' /\ dutyPc' = "idle"
        /\ tokens' = Duty!Refilled(now') - 100 * active
        /\ allActive' = allActive + active
        /\ maxDispatch' = Duty!Larger(maxDispatch, active)
        /\ steadyActive' = IF steadyStart = None THEN steadyActive
                           ELSE steadyActive + active
        /\ steadyStart' = IF steadyStart = None /\ tokens' <= 0 THEN now'
                          ELSE steadyStart
    BY <1>2, <2>1 DEF Duty!RecordSubmission, Duty!Charge, Duty!Lesser, Duty!Unlimited, Duty!TypeOK
  <2>3. /\ tokens > 0
        /\ Duty!Refilled(now') \in Int
        /\ Duty!Refilled(now') >= tokens
        /\ Duty!Refilled(now') <= tokens + Percent * (now' - lastRefill)
    BY <1>2, <2>2, RefillBounds DEF Duty!RecordSubmission, Admission
  <2>4. Percent * (now' - lastRefill) = Percent * now' - Percent * lastRefill
    BY <2>2, Distribute DEF Duty!TypeOK
  <2>5. steadyStart # None =>
          Percent * (now' - steadyStart)
            = Percent * (now' - lastRefill) + Percent * (lastRefill - steadyStart)
    <3>1. steadyStart # None =>
            now' - steadyStart = (now' - lastRefill) + (lastRefill - steadyStart)
      BY <2>2 DEF Duty!TypeOK
    <3> QED
      BY <2>2, <3>1, Distribute DEF Duty!TypeOK
  <2>6. /\ Percent * now' \in Int /\ Percent * lastRefill \in Int
        /\ Percent * (now' - lastRefill) \in Int
        /\ Percent * (now' - now') = 0
    <3>1. now' \in Int /\ lastRefill \in Int
      BY <2>2 DEF Duty!TypeOK
    <3>2. now' - lastRefill \in Int
      BY <3>1
    <3> QED
      BY <3>1, <3>2, Earned
  <2>7. steadyStart # None => Percent * (lastRefill - steadyStart) \in Int
    <3>1. steadyStart # None => lastRefill - steadyStart \in Int
      BY DEF Duty!TypeOK
    <3> QED
      BY <3>1, Earned
  <2>8. /\ tokens' + 100 * allActive' <= Duty!Capacity + Percent * lastRefill'
        /\ tokens' + 100 * maxDispatch' > 0
    <3>1. tokens' + 100 * allActive' <= Duty!Capacity + Percent * lastRefill'
      BY <2>1, <2>2, <2>3, <2>4, <2>6 DEF Ledger, Duty!TypeOK, Duty!Capacity
    <3>2. maxDispatch' \in Nat /\ active <= maxDispatch'
      BY <2>1, <2>2 DEF Duty!TypeOK, Duty!Larger
    <3> QED
      BY <2>1, <2>2, <2>3, <3>1, <3>2 DEF Duty!TypeOK
  <2>9. steadyStart' # None =>
          /\ steadyStart' <= lastRefill'
          /\ tokens' + 100 * steadyActive' <= Percent * (lastRefill' - steadyStart')
    <3>1. CASE steadyStart = None
      BY <2>2, <2>6, <3>1, <1>t DEF NotSteadyYet, Duty!TypeOK
    <3>2. CASE steadyStart # None
      BY <2>1, <2>2, <2>3, <2>5, <2>6, <2>7, <3>2 DEF Ledger, Duty!TypeOK
    <3> QED
      BY <3>1, <3>2
  <2> QED
    BY <2>2, <2>8, <2>9 DEF Ledger, NotSteadyYet
<1>3. CASE Duty!Pass
  BY <1>3 DEF Duty!Pass, Ledger, NotSteadyYet, Duty!metrics, Duty!Unlimited, Duty!Capacity
<1>4. CASE UNCHANGED Duty!vars
  BY <1>4 DEF Duty!vars, Ledger, NotSteadyYet, Duty!metrics, Duty!Unlimited, Duty!Capacity
<1> QED
  BY <1>1, <1>2, <1>3, <1>4 DEF Duty!Next

\* The ledger bounds both ratios: time has passed since the last refill, and
\* the bucket is overdrawn by one dispatch at most.
LEMMA LedgerBounds == DutyInv => Duty!DutyIsBounded /\ SteadyRatioIsBounded
<1> SUFFICES ASSUME DutyInv, ~Duty!Unlimited
             PROVE  /\ 100 * allActive <= Percent * now + 100 * (WindowMs + maxDispatch)
                    /\ steadyStart # None =>
                         100 * steadyActive
                           <= Percent * (now - steadyStart) + 100 * maxDispatch
  BY DEF Duty!DutyIsBounded, SteadyRatioIsBounded, Duty!SteadyRatioIsBounded
<1> USE PolicyConstantsAre DEF DutyInv, DutyTypes
<1>1. /\ Percent * (now - lastRefill) \in Nat
      /\ Percent * lastRefill \in Int /\ Percent * now \in Int
      /\ Percent * (now - lastRefill) = Percent * now - Percent * lastRefill
  BY Distribute DEF Duty!TypeOK
<1>2. steadyStart # None =>
        /\ Percent * (lastRefill - steadyStart) \in Int
        /\ Percent * (now - steadyStart) \in Int
        /\ Percent * (now - steadyStart)
             = Percent * (now - lastRefill) + Percent * (lastRefill - steadyStart)
  <2>1. steadyStart # None =>
          now - steadyStart = (now - lastRefill) + (lastRefill - steadyStart)
    BY DEF Duty!TypeOK
  <2> QED
    BY <2>1, Distribute DEF Duty!TypeOK
<1> QED
  BY <1>1, <1>2 DEF Ledger, Duty!TypeOK, Duty!Capacity

-----------------------------------------------------------------------------
\* Types for every percentage, window and schedule; with them, that a
\* dispatch of any length leaves the bucket less than a window in debt.
THEOREM TypeCorrect == Duty!Spec => []Duty!TypeOK
<1>1. Duty!Init => DutyTypes
  BY InvInit DEF DutyInv
<1> QED
  BY <1>1, TypesKept, PTL DEF Duty!Spec, DutyTypes

\* No wait of the policy is longer than refilling one window takes.
THEOREM WaitsAreBounded == Duty!Spec => WaitIsBounded
<1>1. Duty!Init => DutyTypes
  BY InvInit DEF DutyInv
<1>2. DutyTypes /\ [Duty!Next]_Duty!vars =>
        [Percent * (totalWait' - totalWait) < Duty!Capacity + 100 + Percent]_Duty!vars
  <2> SUFFICES ASSUME DutyTypes, Duty!Next
               PROVE  Percent * (totalWait' - totalWait) < Duty!Capacity + 100 + Percent
    OBVIOUS
  <2> USE PolicyConstantsAre DEF DutyTypes
  <2>1. totalWait' - totalWait = 0 =>
          Percent * (totalWait' - totalWait) < Duty!Capacity + 100 + Percent
    BY DEF Duty!Capacity
  <2>2. CASE Duty!WaitBeforeSubmission
    <3>1. CASE Duty!Unlimited
      BY <2>1, <2>2, <3>1 DEF Duty!WaitBeforeSubmission, Duty!RequiredWait, Duty!TypeOK
    <3>2. CASE ~Duty!Unlimited
      BY <2>2, <3>2, Admitted
    <3> QED
      BY <3>1, <3>2
  <2>3. CASE ~Duty!WaitBeforeSubmission
    BY <2>1, <2>3 DEF Duty!Next, Duty!RecordSubmission, Duty!Pass, Duty!TypeOK
  <2> QED
    BY <2>2, <2>3
<1> QED
  BY <1>1, <1>2, TypesKept, PTL DEF Duty!Spec, WaitIsBounded, Duty!WaitIsBounded

\* For every percentage and every schedule of chunks no longer than the
\* window, busy time stays within the percentage, a first credit of one
\* window and one dispatch.
THEOREM DutyBounded == ShortDispatches => (Duty!Spec => []Duty!DutyIsBounded)
<1> SUFFICES ASSUME ShortDispatches PROVE Duty!Spec => []Duty!DutyIsBounded
  OBVIOUS
<1>1. DutyInv /\ [Duty!Next]_Duty!vars => DutyInv'
  BY LedgerKept, TypesKept DEF DutyInv
<1> QED
  BY <1>1, InvInit, LedgerBounds, PTL DEF Duty!Spec

\* Under the same condition the ratio of busy time since the first credit was
\* used up exceeds the percentage by one dispatch at most.
THEOREM SteadyRatioBounded == ShortDispatches => (Duty!Spec => []SteadyRatioIsBounded)
<1> SUFFICES ASSUME ShortDispatches PROVE Duty!Spec => []SteadyRatioIsBounded
  OBVIOUS
<1>1. DutyInv /\ [Duty!Next]_Duty!vars => DutyInv'
  BY LedgerKept, TypesKept DEF DutyInv
<1> QED
  BY <1>1, InvInit, LedgerBounds, PTL DEF Duty!Spec
=============================================================================
