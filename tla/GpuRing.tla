------------------------------ MODULE GpuRing ------------------------------
(***************************************************************************)
(* GpuSearchEngine::run_batch: a chunk of windows is cut into batches that *)
(* are uploaded, scored and read back through a ring of buffer slots, with *)
(* up to Depth batches in flight.                                          *)
(*                                                                         *)
(* One thread of the program runs it; the device works on its own, taking  *)
(* the queue's jobs in order.  A finished read-back is reported by a       *)
(* callback into a bounded channel.  Callbacks run on the thread that      *)
(* polls the device, submits to it or unmaps a buffer, which is the thread *)
(* that receives from the channel.                                         *)
(*                                                                         *)
(* The score of window w of chunk c is the pair <<c, w>>.                  *)
(***************************************************************************)
EXTENDS Integers, FiniteSets, SequencesExt

CONSTANTS
    Depth,          \* ring_depth
    HardwareLimits, \* what max_batch_windows may be: windows that fit the
                    \* device's buffers
    BufferWindows,  \* windows whose buffers GpuResourceCapacity::validate admits
    MaxWindows,     \* bound: windows of a chunk
    MaxChunks,      \* bound: chunks handed to one engine
    MayFail,        \* whether the device may be lost, or refuse a mapping
    None

\* The buffers of a slot: what the staging buffer shows, whether it is mapped
\* for the host, and for which batch.
Slot == [capacity : 1..MaxWindows,
         staging : Seq((1..MaxChunks) \X (1..MaxWindows) \cup {None}),
         map : {"unmapped", "pending", "mapped"},
         sequence : Nat \cup {None},
         done : BOOLEAN]

ASSUME RingAssumption ==
    /\ Depth \in Nat \ {0}
    /\ HardwareLimits \subseteq Nat \ {0}
    /\ BufferWindows \in Nat
    /\ MaxWindows \in Nat
    /\ MaxChunks \in Nat
    /\ MayFail \in BOOLEAN
    /\ None \notin Slot

VARIABLES
    pc,         \* "idle", "fill", "wait", "closed" after an error
    chunk, total,
    start, sequence,
    pending,    \* batches submitted and not yet reduced, oldest first
    channel,    \* completion_tx: the callbacks' reports, <<sequence, ok>>
    completed,  \* reports received, a set of <<sequence, ok>>
    scores,
    answer,     \* what the last finished run_batch returned
    slots,      \* the resource pool: None, or the buffers of a slot
    queue,      \* the device's queue of jobs
    lost,       \* whether the device was lost
    hardwareLimit   \* max_batch_windows of the engine, found out once

host == <<pc, chunk, total, start, sequence, pending, completed, scores, answer>>
vars == <<host, channel, slots, queue, lost, hardwareLimit>>

Indices == 0..(Depth - 1)
Smaller(a, b) == IF a <= b THEN a ELSE b
Larger(a, b) == IF a >= b THEN a ELSE b

Init ==
    /\ pc = "idle"
    /\ chunk = 0 /\ total = 0 /\ start = 0 /\ sequence = 0
    /\ pending = <<>> /\ channel = <<>> /\ completed = {}
    /\ scores = <<>> /\ answer = <<>>
    /\ slots = [i \in Indices |-> None]
    /\ queue = <<>>
    /\ lost = FALSE
    /\ hardwareLimit \in HardwareLimits

-----------------------------------------------------------------------------
(* The ring's geometry.                                                    *)

\* Seeded fault: the channel has no room for the oldest batch's report.
ChannelBound_Short == Depth - 1
\* sync_channel(ring_depth)
ChannelBound == Depth

\* total_windows.div_ceil(ring_depth), at most what the hardware takes.
BatchLimit ==
    Smaller(hardwareLimit, Larger((total + Depth - 1) \div Depth, 1))

BatchWindows == Smaller(total - start, BatchLimit)

\* The slot a batch uses.
SlotOf(s) == s % Depth

\* The inner loop goes on before anything is waited for.
CanFill == start < total /\ Len(pending) < Depth

Content == [w \in 1..BatchWindows |-> <<chunk, start + w>>]

\* acquire_at: the slot's own buffers if they are large enough, or new ones.
Acquired(slot) ==
    IF slot # None /\ slot.capacity >= BatchWindows THEN slot
    ELSE [capacity |-> BatchWindows,
          staging |-> [w \in 1..BatchWindows |-> None],
          map |-> "unmapped", sequence |-> None, done |-> FALSE]

-----------------------------------------------------------------------------
(* The device, and the callbacks of finished read-backs.                   *)

\* The device finishes its oldest job: scores and staging copy of the slot
\* hold the batch, what a longer earlier batch left behind it stays.
DeviceStep ==
    /\ queue # <<>>
    /\ ~lost
    /\ queue' = Tail(queue)
    /\ LET job == Head(queue)
           old == slots[job.slot]
       IN  slots' = [slots EXCEPT
               ![job.slot].staging =
                   [w \in 1..old.capacity |->
                       IF w <= Len(job.content) THEN job.content[w]
                       ELSE old.staging[w]],
               ![job.slot].done = TRUE]
    /\ UNCHANGED <<host, channel, lost, hardwareLimit>>

DeviceLost ==
    /\ MayFail
    /\ ~lost
    /\ lost' = TRUE
    /\ UNCHANGED <<host, channel, slots, queue, hardwareLimit>>

Waiting(pool) == {i \in Indices : pool[i] # None /\ pool[i].map = "pending"}
Finished == {i \in Waiting(slots) : slots[i].done}

\* Every finished read-back of the device reports, in any order; those in
\* "bad" report that the buffer could not be mapped.
Report(order, bad) ==
    [k \in 1..Len(order) |-> <<slots[order[k]].sequence, order[k] \notin bad>>]
Mapped(bad) ==
    [i \in Indices |->
        IF i \notin Finished THEN slots[i]
        ELSE [slots[i] EXCEPT !.map = IF i \in bad THEN "unmapped" ELSE "mapped"]]
Failing == IF MayFail THEN SUBSET Finished ELSE {{}}

\* slot.staging.unmap() of every batch in flight.
UnmapPending ==
    [i \in Indices |->
        IF \E k \in DOMAIN pending : pending[k].slot = i
        THEN [slots[i] EXCEPT !.map = "unmapped"] ELSE slots[i]]

\* run_batch returns an error; run_backend goes on with the CPU.
Close ==
    /\ pc' = "closed"
    /\ pending' = <<>> /\ channel' = <<>> /\ completed' = {} /\ scores' = <<>>
    /\ UNCHANGED <<chunk, total, start, sequence, answer>>

-----------------------------------------------------------------------------
(* The thread that calls emergence_scores.                                 *)

StartChunk ==
    /\ pc = "idle"
    /\ chunk < MaxChunks
    /\ pc' = "running"
    /\ chunk' = chunk + 1
    /\ total' \in 0..MaxWindows
    /\ start' = 0 /\ sequence' = 0
    /\ pending' = <<>> /\ channel' = <<>> /\ completed' = {} /\ scores' = <<>>
    /\ UNCHANGED <<answer, slots, queue, lost, hardwareLimit>>

\* A batch is uploaded and submitted (callbacks may run inside submit), and
\* its staging buffer is asked for.
Submit ==
    LET i == SlotOf(sequence)
    IN  /\ pc = "running"
        /\ CanFill
        /\ BatchWindows <= BufferWindows
        /\ \E order \in SetToSeqs(Finished), bad \in Failing :
               /\ channel' = channel \o Report(order, bad)
               /\ slots' = [Mapped(bad) EXCEPT
                     ![i] = [Acquired(@) EXCEPT !.map = "pending",
                                                !.sequence = sequence,
                                                !.done = FALSE]]
        /\ queue' = Append(queue, [slot |-> i, content |-> Content])
        /\ pending' = Append(pending,
              [sequence |-> sequence, slot |-> i, size |-> BatchWindows])
        /\ start' = start + BatchWindows
        /\ sequence' = sequence + 1
        /\ UNCHANGED <<pc, chunk, total, completed, scores, answer, lost, hardwareLimit>>

\* validate refuses the buffers of the batch.
Refuse ==
    /\ pc = "running"
    /\ CanFill
    /\ BatchWindows > BufferWindows
    /\ Close
    /\ UNCHANGED <<slots, queue, lost, hardwareLimit>>

NextReport == {r \in completed : r[1] = Head(pending).sequence}

\* One round of the waiting loop: poll, then take one report if there is one.
Poll ==
    /\ pc = "running"
    /\ ~CanFill
    /\ pending # <<>>
    /\ NextReport = {}
    /\ ~lost
    /\ \E order \in SetToSeqs(Finished), bad \in Failing :
           LET reports == channel \o Report(order, bad)
           IN  /\ slots' = Mapped(bad)
               /\ IF reports = <<>>
                  THEN UNCHANGED <<channel, completed>>
                  ELSE /\ channel' = Tail(reports)
                       /\ completed' = completed \cup {Head(reports)}
    /\ UNCHANGED <<pc, chunk, total, start, sequence, pending, scores, answer,
                   queue, lost, hardwareLimit>>

PollFails ==
    /\ pc = "running"
    /\ ~CanFill
    /\ pending # <<>>
    /\ NextReport = {}
    /\ lost
    /\ Close
    /\ slots' = UnmapPending
    /\ UNCHANGED <<queue, lost, hardwareLimit>>

\* Seeded fault: whichever batch has reported is reduced first.
Reduce_AnyOrder ==
    \E k \in DOMAIN pending :
        LET batch == pending[k]
        IN  /\ pc = "running"
            /\ ~CanFill
            /\ <<batch.sequence, TRUE>> \in completed
            /\ completed' = completed \ {<<batch.sequence, TRUE>>}
            /\ scores' = scores \o SubSeq(slots[batch.slot].staging, 1, batch.size)
            /\ pending' = RemoveAt(pending, k)
            /\ slots' = [slots EXCEPT ![batch.slot].map = "unmapped"]
            /\ UNCHANGED <<pc, chunk, total, start, sequence, answer, channel,
                           queue, lost, hardwareLimit>>
\* The oldest batch has reported: its scores are read and its slot is free.
Reduce ==
    LET batch == Head(pending)
    IN  /\ pc = "running"
        /\ ~CanFill
        /\ pending # <<>>
        /\ <<batch.sequence, TRUE>> \in NextReport
        /\ completed' = completed \ NextReport
        /\ scores' = scores \o SubSeq(slots[batch.slot].staging, 1, batch.size)
        /\ pending' = Tail(pending)
        /\ slots' = [slots EXCEPT ![batch.slot].map = "unmapped"]
        /\ UNCHANGED <<pc, chunk, total, start, sequence, answer, channel,
                       queue, lost, hardwareLimit>>

ReduceFails ==
    /\ pc = "running"
    /\ ~CanFill
    /\ pending # <<>>
    /\ <<Head(pending).sequence, FALSE>> \in NextReport
    /\ Close
    /\ slots' = UnmapPending
    /\ UNCHANGED <<queue, lost, hardwareLimit>>

Return ==
    /\ pc = "running"
    /\ start >= total
    /\ pending = <<>>
    /\ pc' = "idle"
    /\ answer' = scores
    /\ UNCHANGED <<chunk, total, start, sequence, pending, completed, scores,
                   channel, slots, queue, lost, hardwareLimit>>

Host == StartChunk \/ Submit \/ Refuse \/ Poll \/ PollFails
          \/ Reduce \/ ReduceFails \/ Return

Next == Host \/ DeviceStep \/ DeviceLost

\* The thread runs on and the device works through its queue; a lost device
\* is noticed by the poll.  Nothing makes the caller send another chunk.
Fairness == WF_vars(Host) /\ WF_vars(DeviceStep)

Spec == Init /\ [][Next]_vars /\ Fairness

-----------------------------------------------------------------------------
(* Properties.                                                             *)

\* Types, and the number of batches in flight.
TypeOK ==
    /\ hardwareLimit \in HardwareLimits
    /\ pc \in {"idle", "running", "closed"}
    /\ chunk \in 0..MaxChunks
    /\ total \in 0..MaxWindows
    /\ start \in 0..total
    /\ sequence \in Nat
    /\ \A k \in DOMAIN pending :
           pending[k] \in [sequence : Nat, slot : Indices, size : 1..MaxWindows]
    /\ Len(pending) <= Depth
    /\ \A r \in completed \cup ToSet(channel) : r \in Nat \X BOOLEAN
    /\ \A i \in Indices : slots[i] = None \/ slots[i] \in Slot
    /\ \A k \in DOMAIN queue : queue[k].slot \in Indices
    /\ lost \in BOOLEAN

\* A callback runs on the thread that would have to make room for it: the
\* channel must have room for the report of every read-back still to come, or
\* poll, submit or unmap would never return.
CallbacksHaveRoom == Len(channel) + Cardinality(Waiting(slots)) <= ChannelBound

\* A batch that has reported success is still mapped in its slot, which holds
\* exactly its windows: no later batch, earlier chunk or larger batch shows.
ReportsAreReadable ==
    pc = "running" =>
        \A k \in DOMAIN pending :
            LET batch == pending[k]
                slot == slots[batch.slot]
            IN  <<batch.sequence, TRUE>> \in completed \cup ToSet(channel) =>
                    /\ slot.map = "mapped"
                    /\ SubSeq(slot.staging, 1, batch.size) =
                         [w \in 1..batch.size |->
                             <<chunk, batch.sequence * BatchLimit + w>>]

\* The device refuses a job on a buffer that is mapped or about to be: the
\* slot a batch is about to use is not, and neither is any slot between two
\* chunks or after an error.
SlotIsFree ==
    /\ pc = "running" /\ CanFill =>
           LET slot == slots[SlotOf(sequence)]
           IN  slot = None \/ slot.map = "unmapped"
    /\ pc # "running" =>
           \A i \in Indices : slots[i] = None \/ slots[i].map = "unmapped"

\* The ring between two steps: no callback can block, what is reported is still
\* in its slot, and the slot to be used next is free.
RingInvariant == TypeOK /\ CallbacksHaveRoom /\ ReportsAreReadable /\ SlotIsFree

\* What the backend thread relies on: ChunkScorer, and with it that every
\* chunk is answered or refused.
Scorer == INSTANCE ChunkScorer WITH
    state <- IF pc = "running" THEN "scoring" ELSE pc,
    windows <- total
ScoresEveryWindowInOrder == Scorer!Spec
=============================================================================
