---------------------------- MODULE DigitReader ----------------------------
(***************************************************************************)
(* The pool of readers over one digit file.  A read takes a slot out of    *)
(* the pool; the slot keeps its open file, its byte buffer, its position   *)
(* in the text and the digits of its last read from one use to the next,   *)
(* and a lease on the digits holds the slot until it is dropped.           *)
(*                                                                         *)
(* A file is a sequence of bytes of the kinds "digit", "space", "point"    *)
(* and "bad"; a digit is identified by the offset of its byte.  The bytes  *)
(* in a slot's buffer are always consecutive: they are the bytes           *)
(* next..end-1 of the file.                                                *)
(***************************************************************************)
EXTENDS DigitText, SequencesExt

CONSTANTS
    Threads, Slots,
    ReaderSetups,   \* what may be read, by whom: see SetupType
    BufferBytes,    \* BYTE_BUFFER_CAPACITY.min(max_read_len)
    DecimalPrefix,  \* --allow-decimal-prefix
    None

SetupType ==
    [threads : SUBSET Threads,
     slots : SUBSET Slots,
     files : SUBSET Seq(ByteKinds),
     maxReadLen : Nat \ {0},    \* max_read_len: digits of one read
     faults : BOOLEAN,          \* opening, seeking and reading may fail
     retry : BOOLEAN]           \* the callers go on after a read has failed

\* What a caller may have asked for, with the slot it got.
Request == [slot : Slots \cup {None}, offset : Nat, len : Nat \ {0}]

ReaderConstants ==
    /\ IsFiniteSet(Threads) /\ IsFiniteSet(Slots)
    /\ ReaderSetups \subseteq SetupType
    /\ BufferBytes \in Nat \ {0}
    /\ DecimalPrefix \in BOOLEAN
    /\ None \notin Slots \cup Request

VARIABLES
    setup,      \* chosen once
    file,       \* the file to read
    available,  \* the pool's free slots, a stack
    pc,         \* per thread: "idle", "checkout", "asleep", "skip", "fill", "leased"
    request,    \* per thread: the slot, the offset and the length of its read
    reader,     \* per slot: the PathReader; "skipped" is history only: the
                \* buffer has moved past a byte that cannot be in the file
    failed      \* whether a read has failed

vars == <<setup, file, available, pc, request, reader, failed>>

Smaller(a, b) == IF a <= b THEN a ELSE b

Fresh == [open |-> TRUE, filePos |-> 0, next |-> 0, end |-> 0,
          byteOffset |-> 0, seen |-> 0, prefix |-> FALSE, skipped |-> FALSE,
          digits |-> <<>>, cacheStart |-> 0, viewStart |-> 0, viewLen |-> 0]

Init ==
    /\ setup \in ReaderSetups
    /\ file \in setup.files
    /\ available \in SetToSeqs(setup.slots)
    /\ pc = [t \in Threads |-> "idle"]
    /\ request = [t \in Threads |-> None]
    /\ reader = [s \in Slots |-> Fresh]
    /\ failed = FALSE

-----------------------------------------------------------------------------
(* The text of the file.                                                   *)

\* parse_source_byte, with the option of the command line.
Kind(r) == ByteIs(file[r.next + 1], r.seen, r.prefix, DecimalPrefix)

-----------------------------------------------------------------------------
(* PathReader.                                                             *)

CacheEnd(r) == r.cacheStart + Len(r.digits)

\* The read begins among the digits of the last one.
CacheHit(r, offset) == offset >= r.cacheStart /\ offset < CacheEnd(r)

\* The digits asked for are all there.
Complete(r, offset, len) == CacheHit(r, offset) /\ offset + len <= CacheEnd(r)

\* The cached tail is kept and read on from.
KeepOverlap(r, offset) ==
    [r EXCEPT !.digits = SubSeq(r.digits, offset - r.cacheStart + 1, Len(r.digits)),
              !.cacheStart = offset, !.viewStart = 0,
              !.viewLen = CacheEnd(r) - offset]

\* reset; a failed seek opens the file again.
Rewound(r) ==
    [r EXCEPT !.open = TRUE, !.filePos = 0, !.next = 0, !.end = 0,
              !.byteOffset = 0, !.seen = 0, !.prefix = FALSE, !.skipped = FALSE,
              !.digits = <<>>, !.cacheStart = 0]

\* An empty cache at the offset.
CacheFrom(r, offset) ==
    [r EXCEPT !.digits = <<>>, !.cacheStart = offset,
              !.viewStart = 0, !.viewLen = 0]

\* Seeded fault: an interrupted file is opened again from its start.
ReadStarts_FromZero(r) ==
    (IF r.open THEN {r.filePos} ELSE {})
      \cup (IF ~r.open \/ setup.faults THEN {0} ELSE {})
\* refill: where the bytes may come from.  A file that could not be read is
\* opened again at the next byte to parse.
ReadStarts(r) ==
    (IF r.open THEN {r.filePos} ELSE {})
      \cup (IF ~r.open \/ setup.faults THEN {r.byteOffset} ELSE {})

\* How many bytes one read may return: fewer than asked for, none at the end.
ReadCounts(position) ==
    LET left == Smaller(Len(file) - position, BufferBytes)
    IN  IF left <= 0 THEN {0} ELSE 1..left

\* What is left of a reader whose refill failed: the file could not be
\* opened, or was opened and could not be read.
AfterFailedRefill(r) ==
    {[r EXCEPT !.open = FALSE],
     [r EXCEPT !.open = TRUE, !.filePos = r.byteOffset]}

-----------------------------------------------------------------------------
(* The pool and its threads.                                               *)

Goes(t, where) == pc' = [pc EXCEPT ![t] = where]

Ask(t) ==
    /\ pc[t] = "idle"
    /\ t \in setup.threads
    /\ setup.retry \/ ~failed
    /\ \E offset \in 0..Len(file), len \in 1..setup.maxReadLen :
           request' = [request EXCEPT ![t] =
               [slot |-> None, offset |-> offset, len |-> len]]
    /\ Goes(t, "checkout")
    /\ UNCHANGED <<setup, file, available, reader, failed>>

\* checkout finds no slot and waits.
Sleep(t) ==
    /\ pc[t] = "checkout"
    /\ available = <<>>
    /\ Goes(t, "asleep")
    /\ UNCHANGED <<setup, file, available, request, reader, failed>>

SpuriousWakeup(t) ==
    /\ pc[t] = "asleep"
    /\ Goes(t, "checkout")
    /\ UNCHANGED <<setup, file, available, request, reader, failed>>

\* return_slot, with notify_one.
NotifyOne(t) ==
    LET sleepers == {u \in Threads : pc[u] = "asleep"}
    IN  IF sleepers = {} THEN Goes(t, "idle")
        ELSE \E u \in sleepers :
                 pc' = [pc EXCEPT ![t] = "idle", ![u] = "checkout"]
PutBack(t) ==
    /\ available' = <<request[t].slot>> \o available
    /\ request' = [request EXCEPT ![t] = None]
    /\ NotifyOne(t)

\* A slot is taken and prepare_cache decides what the read can start from.
Checkout(t) ==
    LET s == Head(available)
        r == reader[s]
        offset == request[t].offset
        len == request[t].len
    IN  /\ pc[t] = "checkout"
        /\ available # <<>>
        /\ available' = Tail(available)
        /\ request' = [request EXCEPT ![t].slot = s]
        /\ \/ /\ Complete(r, offset, len)
              /\ reader' = [reader EXCEPT ![s].viewStart = offset - r.cacheStart,
                                          ![s].viewLen = len]
              /\ Goes(t, "leased")
           \/ /\ CacheHit(r, offset)
              /\ ~Complete(r, offset, len)
              /\ reader' = [reader EXCEPT ![s] = KeepOverlap(r, offset)]
              /\ Goes(t, "fill")
           \/ /\ ~CacheHit(r, offset)
              /\ offset = r.seen
              /\ reader' = [reader EXCEPT ![s] = CacheFrom(r, offset)]
              /\ Goes(t, "fill")
           \/ /\ ~CacheHit(r, offset)
              /\ offset # r.seen
              /\ reader' = [reader EXCEPT ![s] = Rewound(r)]
              /\ Goes(t, "skip")
        /\ UNCHANGED <<setup, file, failed>>

\* The slot could not be rewound and goes back: its file is closed, the rest
\* is as it was.
RewindFails(t) ==
    LET s == Head(available)
    IN  /\ setup.faults
        /\ pc[t] = "checkout"
        /\ available # <<>>
        /\ ~CacheHit(reader[s], request[t].offset)
        /\ request[t].offset # reader[s].seen
        /\ reader' = [reader EXCEPT ![s].open = FALSE]
        /\ request' = [request EXCEPT ![t] = None]
        /\ NotifyOne(t)
        /\ failed' = TRUE
        /\ UNCHANGED <<setup, file, available>>

Reading(t) == pc[t] \in {"skip", "fill"}
Satisfied(t) ==
    LET r == reader[request[t].slot]
    IN  \/ pc[t] = "skip" /\ r.seen >= request[t].offset
        \/ pc[t] = "fill" /\ Len(r.digits) >= request[t].len

\* next_digit needs bytes.
Refill(t) ==
    LET s == request[t].slot
        r == reader[s]
    IN  /\ Reading(t)
        /\ ~Satisfied(t)
        /\ r.next = r.end
        /\ \E position \in ReadStarts(r) : \E count \in ReadCounts(position) \ {0} :
               reader' = [reader EXCEPT ![s] =
                   [r EXCEPT !.open = TRUE, !.filePos = position + count,
                             !.next = position, !.end = position + count]]
        /\ UNCHANGED <<setup, file, available, pc, request, failed>>

\* Seeded fault: the error is returned without the slot.
RefillFails_Leak(t) ==
    /\ setup.faults
    /\ Reading(t)
    /\ ~Satisfied(t)
    /\ reader[request[t].slot].next = reader[request[t].slot].end
    /\ request' = [request EXCEPT ![t] = None]
    /\ Goes(t, "idle")
    /\ failed' = TRUE
    /\ UNCHANGED <<setup, file, available, reader>>
RefillFails(t) ==
    LET s == request[t].slot
        r == reader[s]
    IN  /\ setup.faults
        /\ Reading(t)
        /\ ~Satisfied(t)
        /\ r.next = r.end
        /\ \E left \in AfterFailedRefill(r) : reader' = [reader EXCEPT ![s] = left]
        /\ PutBack(t)
        /\ failed' = TRUE
        /\ UNCHANGED <<setup, file>>

\* next_digit takes one byte; a digit is kept when it is one of those asked for.
NextByte(t) ==
    LET s == request[t].slot
        r == reader[s]
        is == Kind(r)
    IN  /\ Reading(t)
        /\ ~Satisfied(t)
        /\ r.next < r.end
        /\ is # "invalid"
        /\ reader' = [reader EXCEPT ![s] =
              [r EXCEPT !.next = @ + 1,
                        !.byteOffset = @ + 1,
                        !.seen = IF is = "digit" THEN @ + 1 ELSE @,
                        !.prefix = @ \/ is = "prefix",
                        !.digits = IF is = "digit" /\ pc[t] = "fill"
                                   THEN Append(@, r.next) ELSE @]]
        /\ UNCHANGED <<setup, file, available, pc, request, failed>>

\* A byte that cannot be in a digit file; its offset is reported, but the
\* buffer has moved past it.
InvalidByte(t) ==
    LET s == request[t].slot
        r == reader[s]
    IN  /\ Reading(t)
        /\ ~Satisfied(t)
        /\ r.next < r.end
        /\ Kind(r) = "invalid"
        /\ reader' = [reader EXCEPT ![s].next = @ + 1, ![s].skipped = TRUE]
        /\ PutBack(t)
        /\ failed' = TRUE
        /\ UNCHANGED <<setup, file>>

\* Whether next_digit has found the end of the file.
AtEnd(r) == r.next = r.end /\ \E position \in ReadStarts(r) : 0 \in ReadCounts(position)

\* refill, at the end: a closed file has been opened again.
Ended(r) == IF r.open THEN r ELSE [r EXCEPT !.open = TRUE, !.filePos = r.byteOffset]
Stopped(t) ==
    LET r == reader[request[t].slot] IN IF Satisfied(t) THEN r ELSE Ended(r)

\* The digits before the offset are behind, or the file has ended.
SkipDone(t) ==
    LET s == request[t].slot
    IN  /\ pc[t] = "skip"
        /\ Satisfied(t) \/ AtEnd(reader[s])
        /\ reader' = [reader EXCEPT ![s] = CacheFrom(Stopped(t), request[t].offset)]
        /\ Goes(t, "fill")
        /\ UNCHANGED <<setup, file, available, request, failed>>

Lease(t) ==
    LET s == request[t].slot
    IN  /\ pc[t] = "fill"
        /\ Satisfied(t) \/ AtEnd(reader[s])
        /\ reader' = [reader EXCEPT ![s] =
              [Stopped(t) EXCEPT !.viewStart = 0, !.viewLen = Len(reader[s].digits)]]
        /\ Goes(t, "leased")
        /\ UNCHANGED <<setup, file, available, request, failed>>

\* PooledDigitRead is dropped.
Drop(t) ==
    /\ pc[t] = "leased"
    /\ PutBack(t)
    /\ UNCHANGED <<setup, file, reader, failed>>

Read(t) == Refill(t) \/ NextByte(t) \/ InvalidByte(t) \/ SkipDone(t) \/ Lease(t)

Next == \E t \in Threads :
    Ask(t) \/ Sleep(t) \/ SpuriousWakeup(t) \/ Checkout(t) \/ RewindFails(t)
      \/ Read(t) \/ RefillFails(t) \/ Drop(t)

\* A thread that reads goes on reading, and drops its lease in the end; that
\* reads go on failing is not assumed.
Fairness == \A t \in Threads :
    WF_vars(Read(t)) /\ WF_vars(Drop(t)) /\ WF_vars(Checkout(t))

Spec == Init /\ [][Next]_vars /\ Fairness

-----------------------------------------------------------------------------
(* Properties.                                                             *)

Offsets == 0..Len(file)

\* Types; a slot's digits never need more room than was reserved for them.
TypeOK ==
    /\ setup \in ReaderSetups /\ file \in setup.files
    /\ pc \in [Threads -> {"idle", "checkout", "asleep", "skip", "fill", "leased"}]
    /\ \A t \in Threads :
           \/ request[t] = None
           \/ request[t] \in [slot : Slots \cup {None}, offset : Offsets,
                              len : 1..setup.maxReadLen]
    /\ \A s \in Slots :
           LET r == reader[s]
           IN  /\ {r.filePos, r.next, r.end, r.byteOffset, r.seen} \subseteq Offsets
               /\ Len(r.digits) <= setup.maxReadLen
    /\ failed \in BOOLEAN

View(r) == SubSeq(r.digits, r.viewStart + 1, r.viewStart + r.viewLen)

\* A lease shows exactly the digits that were asked for, as far as the file
\* has them, whatever its slot was used for before, whatever failed on the
\* way, and for as long as the lease is held: no read shifts an offset.  The
\* exception is a slot that has moved past an invalid byte and was not rewound
\* since: its reader counts on from there, on a file that is not valid and
\* after the error has been reported.
LeasesAreExact ==
    \A t \in Threads : pc[t] = "leased" =>
        LET r == reader[request[t].slot]
        IN  \/ IsSlice(View(r), DigitBytes(file, DecimalPrefix),
                       request[t].offset, request[t].len)
            \/ r.skipped /\ failed /\ ~AllFit(file, DecimalPrefix, Len(file))

\* A slot is in the pool or in the hands of one thread, after errors too.
SlotsAreConserved ==
    LET holders(s) == {t \in Threads : request[t] # None /\ request[t].slot = s}
        free(s) == {i \in DOMAIN available : available[i] = s}
    IN  \A s \in setup.slots : Cardinality(holders(s)) + Cardinality(free(s)) = 1

\* A thread never sleeps next to a free slot that nobody is on the way to.
NoWakeupIsLost ==
    LET asleep == Cardinality({t \in Threads : pc[t] = "asleep"})
        awake == Cardinality({t \in Threads : pc[t] = "checkout"})
    IN  Smaller(Len(available), asleep) <= awake

\* The pool of readers: slots that keep to their buffers, each in the pool or in
\* one hand whatever failed on the way, none idle while somebody sleeps, and
\* leases that show the digits that were asked for.
PoolInvariant == TypeOK /\ SlotsAreConserved /\ NoWakeupIsLost /\ LeasesAreExact

\* A read that has its slot ends, with a lease or an error: at the end of the
\* file too, and when its offset lies behind it.
ReadsEnd == \A t \in Threads : Reading(t) ~> ~Reading(t)
=============================================================================
