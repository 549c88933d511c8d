----------------------------- MODULE FileSource -----------------------------
(***************************************************************************)
(* A file of digits as a source: reads that go on from where the last one  *)
(* began, a length that is counted once, and its import into the cache     *)
(* through a staged copy.  The source is shared: its cursor and its length *)
(* have a mutex each, which is not held while the file is read.            *)
(*                                                                         *)
(* A digit is the offset of its byte, as in DigitReader.  The file may     *)
(* grow; what the cache holds before the import are other digits.          *)
(***************************************************************************)
EXTENDS DigitText

CONSTANTS
    FileSetups,  \* what may be read, and how: see SetupType
    Threads,     \* who uses the source
    Earlier,     \* the digits of the cache before
    None

SetupType ==
    [texts : Seq(Seq(ByteKinds)),  \* what the file holds, from first to last
     allow_decimal_prefix : BOOLEAN,
     reads : SUBSET [offset : Nat, len : Nat \ {0}],
     imports : BOOLEAN,     \* whether the cache is replaced from the file
     faults : BOOLEAN]      \* opening, reading and writing may fail

\* A file only grows; what the cache held before are no digits of it.
FileConstants ==
    /\ FileSetups \subseteq SetupType
    /\ \A S \in FileSetups :
           /\ Len(S.texts) > 0
           /\ \A v \in 1..(Len(S.texts) - 1) :
                  /\ Len(S.texts[v]) <= Len(S.texts[v + 1])
                  /\ \A b \in 1..Len(S.texts[v]) : S.texts[v + 1][b] = S.texts[v][b]
    /\ \E b \in DOMAIN Earlier : Earlier[b] \notin Nat

VARIABLES
    source,     \* chosen once
    version,    \* which of source.texts the file holds
    cursor,     \* FileReadCursor
    digit_len,  \* the cached length, or None
    staged,     \* per thread: its staged copy, or None
    cache,      \* the published digits
    call        \* per thread: what it does, and its answer

vars == <<source, version, cursor, digit_len, staged, cache, call>>

Text == source.texts[version]
Start == [digit_offset |-> 0, byte_offset |-> 0, seen |-> 0, prefix |-> FALSE]
Idle == [at |-> "idle"]

Init ==
    /\ source \in FileSetups
    /\ version = 1
    /\ cursor = Start
    /\ digit_len = None
    /\ staged = [t \in Threads |-> None]
    /\ cache = Earlier
    /\ call = [t \in Threads |-> Idle]

-----------------------------------------------------------------------------
(* The loops over the bytes of the file.                                   *)

\* Seeded fault: the parser's state is taken after the digit.
RequestCursor_After(at) ==
    [digit_offset |-> at.seen, byte_offset |-> at.byte_offset,
     seen |-> at.seen + 1, prefix |-> at.prefix]
\* The first digit of a request, kept for the next one.
RequestCursor(at) ==
    [digit_offset |-> at.seen, byte_offset |-> at.byte_offset,
     seen |-> at.seen, prefix |-> at.prefix]

\* One byte: a digit not before the offset goes out.
TakeByte(text, at, offset) ==
    LET is == ByteIs(text[at.byte_offset + 1], at.seen, at.prefix, source.allow_decimal_prefix)
        wanted == is = "digit" /\ at.seen >= offset
    IN  IF is = "invalid" THEN [at EXCEPT !.bad = TRUE]
        ELSE [byte_offset |-> at.byte_offset + 1,
              seen |-> IF is = "digit" THEN at.seen + 1 ELSE at.seen,
              prefix |-> at.prefix \/ is = "prefix",
              bad |-> FALSE,
              out |-> IF wanted THEN Append(at.out, at.byte_offset) ELSE at.out,
              request_cursor |-> IF wanted /\ at.out = <<>> THEN RequestCursor(at)
                                 ELSE at.request_cursor]

\* The loop from a cursor to the end of the text, or until an invalid byte or
\* the last digit asked for.
Loop(text, from, offset, len) ==
    LET state[k \in from.byte_offset..Len(text)] ==
            IF k = from.byte_offset
            THEN [byte_offset |-> from.byte_offset, seen |-> from.seen, prefix |-> from.prefix,
                  bad |-> FALSE, out |-> <<>>, request_cursor |-> Start]
            ELSE IF state[k - 1].bad \/ Len(state[k - 1].out) = len THEN state[k - 1]
            ELSE TakeByte(text, state[k - 1], offset)
    IN  state[Len(text)]

\* count_digits and copy_digits_to: all bytes, from the first.
Whole(text) == Loop(text, Start, 0, Len(text) + 1)

-----------------------------------------------------------------------------

Goes(t, what) == call' = [call EXCEPT ![t] = what]
Fail(t, op) == Goes(t, [at |-> "answered", op |-> op, ok |-> FALSE, version |-> version])

ForgetAnswer(t) ==
    /\ call[t].at = "answered"
    /\ Goes(t, Idle)
    /\ UNCHANGED <<source, version, cursor, digit_len, staged, cache>>

\* Opening or reading the file, or writing to another, may fail.
FailsAt(t, at, op) ==
    /\ source.faults
    /\ call[t].at = at
    /\ Fail(t, op)
    /\ UNCHANGED <<source, version, cursor, digit_len, staged, cache>>

\* Seeded fault: a read never goes back.
StartsFrom_Cursor(offset) == cursor
\* The cursor is of use if the request does not begin before it.
StartsFrom(offset) == IF offset >= cursor.digit_offset THEN cursor ELSE Start

ReadRange(t) ==
    /\ call[t] = Idle
    /\ \E read \in source.reads :
           Goes(t, [at |-> "scan", offset |-> read.offset, len |-> read.len,
                    from |-> StartsFrom(read.offset)])
    /\ UNCHANGED <<source, version, cursor, digit_len, staged, cache>>

\* The file is read without the mutex.
Scan(t) ==
    LET end == Loop(Text, call[t].from, call[t].offset, call[t].len)
    IN  /\ call[t].at = "scan"
        /\ IF end.bad
           THEN Fail(t, "read") /\ UNCHANGED cursor
           ELSE /\ cursor' = IF end.out = <<>> THEN cursor ELSE end.request_cursor
                /\ Goes(t, [at |-> "answered", op |-> "read", ok |-> TRUE, version |-> version,
                            offset |-> call[t].offset, len |-> call[t].len,
                            digits |-> end.out])
        /\ UNCHANGED <<source, version, digit_len, staged, cache>>

\* len answers from the cache if it can.
Length(t) ==
    /\ call[t] = Idle
    /\ IF digit_len = None THEN Goes(t, [at |-> "count"])
       ELSE Goes(t, [at |-> "answered", op |-> "len", ok |-> TRUE, version |-> version,
                     len |-> digit_len])
    /\ UNCHANGED <<source, version, cursor, digit_len, staged, cache>>

\* validate counts again.
Validate(t) ==
    /\ call[t] = Idle
    /\ Goes(t, [at |-> "count"])
    /\ UNCHANGED <<source, version, cursor, digit_len, staged, cache>>

Counted(t) ==
    /\ call[t].at = "count"
    /\ IF Whole(Text).bad
       THEN Fail(t, "len") /\ UNCHANGED digit_len
       ELSE /\ digit_len' = Whole(Text).seen
            /\ Goes(t, [at |-> "answered", op |-> "len", ok |-> TRUE, version |-> version,
                        len |-> Whole(Text).seen])
    /\ UNCHANGED <<source, version, cursor, staged, cache>>

\* replace_cache: the digits are copied to a file of this import's own.
ReplaceCache(t) ==
    /\ call[t] = Idle
    /\ source.imports
    /\ Goes(t, [at |-> "copy"])
    /\ UNCHANGED <<source, version, cursor, digit_len, staged, cache>>

Copy(t) ==
    /\ call[t].at = "copy"
    /\ staged' = [staged EXCEPT ![t] = Whole(Text).out]
    /\ IF Whole(Text).bad
       THEN Goes(t, [at |-> "cleanup", ok |-> FALSE, version |-> version])
            /\ UNCHANGED digit_len
       ELSE Goes(t, [at |-> "publish", version |-> version])
            /\ digit_len' = Whole(Text).seen
    /\ UNCHANGED <<source, version, cursor, cache>>

\* The file cannot be opened, or written: what was staged stays for the cleanup.
CopyFails(t) ==
    /\ source.faults
    /\ call[t].at = "copy"
    /\ \E written \in {None} \cup {SubSeq(Whole(Text).out, 1, n) : n \in 0..Len(Whole(Text).out)} :
           staged' = [staged EXCEPT ![t] = written]
    /\ Goes(t, [at |-> "cleanup", ok |-> FALSE, version |-> version])
    /\ UNCHANGED <<source, version, cursor, digit_len, cache>>

\* The cache copies the staged file, under its lock, and publishes the copy.
Publish(t) ==
    /\ call[t].at = "publish"
    /\ cache' = staged[t]
    /\ Goes(t, [at |-> "cleanup", ok |-> TRUE, version |-> call[t].version])
    /\ UNCHANGED <<source, version, cursor, digit_len, staged>>

\* It fails before or after it has replaced the digits.
PublishFails(t) ==
    /\ source.faults
    /\ call[t].at = "publish"
    /\ cache' \in {cache, staged[t]}
    /\ Goes(t, [at |-> "cleanup", ok |-> FALSE, version |-> call[t].version])
    /\ UNCHANGED <<source, version, cursor, digit_len, staged>>

\* Seeded fault: a failed import returns before the cleanup.
Cleanup_OnlySuccess(t) ==
    /\ call[t].at = "cleanup"
    /\ staged' = IF call[t].ok THEN [staged EXCEPT ![t] = None] ELSE staged
    /\ Goes(t, [at |-> "answered", op |-> "import", ok |-> call[t].ok, version |-> call[t].version,
                  removed |-> TRUE])
    /\ UNCHANGED <<source, version, cursor, digit_len, cache>>
\* The staged file is removed whatever happened.  That it cannot be is reported
\* only if nothing else is.
Cleanup(t) ==
    /\ call[t].at = "cleanup"
    /\ \E removed \in IF source.faults THEN BOOLEAN ELSE {TRUE} :
           /\ staged' = IF removed THEN [staged EXCEPT ![t] = None] ELSE staged
           /\ Goes(t, [at |-> "answered", op |-> "import", ok |-> call[t].ok /\ removed,
                         version |-> call[t].version, removed |-> removed])
    /\ UNCHANGED <<source, version, cursor, digit_len, cache>>

\* Whoever writes the file goes on.
Grow ==
    /\ version < Len(source.texts)
    /\ version' = version + 1
    /\ UNCHANGED <<source, cursor, digit_len, staged, cache, call>>

Next ==
    \/ Grow
    \/ \E t \in Threads :
          \/ ReadRange(t) \/ Scan(t) \/ FailsAt(t, "scan", "read")
          \/ Length(t) \/ Validate(t) \/ Counted(t) \/ FailsAt(t, "count", "len")
          \/ ReplaceCache(t) \/ Copy(t) \/ CopyFails(t)
          \/ Publish(t) \/ PublishFails(t) \/ Cleanup(t)
          \/ ForgetAnswer(t)

-----------------------------------------------------------------------------
(* Properties.                                                             *)

DigitsIn(v) == DigitBytes(source.texts[v], source.allow_decimal_prefix)
Valid(v) == AllFit(source.texts[v], source.allow_decimal_prefix, Len(source.texts[v]))

\* A read that succeeds returns the digits asked for, as many as there were,
\* whatever other reads moved the cursor meanwhile and however the file grew.
ReadsAreSlices ==
    \A t \in Threads :
        call[t].at = "answered" /\ call[t].op = "read" /\ call[t].ok =>
            IsSlice(call[t].digits, DigitsIn(call[t].version), call[t].offset, call[t].len)

\* Without faults of the disk a read, a count or an import fails only on a text
\* with a byte that does not fit.
ErrorsAreDeserved ==
    ~source.faults => \A t \in Threads :
        call[t].at = "answered" /\ ~call[t].ok => ~Valid(call[t].version)

\* A cursor stands at a digit, with the count and the point of all the bytes
\* before it: the next read that starts there counts and accepts as one that
\* starts at the beginning.
IsExact(from) ==
    /\ from.digit_offset = from.seen
    /\ from # Start => Text[from.byte_offset + 1] = "digit"
    /\ AllFit(Text, source.allow_decimal_prefix, from.byte_offset)
    /\ from.seen = Cardinality(Before(Text, "digit", from.byte_offset))
    /\ from.prefix <=> Before(Text, "point", from.byte_offset) # {}

CursorIsExact == IsExact(cursor)

\* The length that is kept was that of a whole, valid text.
LengthWasTrue ==
    digit_len # None =>
        \E v \in 1..version : Valid(v) /\ digit_len = Cardinality(DigitsIn(v))

\* The cache holds its earlier digits or all digits of one valid text, an
\* import that reports success has replaced the earlier ones, and its staged
\* file stays only if it could not be removed.
ImportsAreWhole ==
    /\ cache # Earlier =>
           \E v \in 1..version :
               Valid(v) /\ IsSlice(cache, DigitsIn(v), 0, Cardinality(DigitsIn(v)))
    /\ \A t \in Threads :
           /\ call[t].at = "answered" /\ call[t].op = "import" =>
                  /\ call[t].ok => cache # Earlier
                  /\ call[t].removed => staged[t] = None

\* The file as a source: reads are slices and lengths were true, whatever moves
\* the cursor, and the cache is replaced by a whole text or not at all.
FileInvariant ==
    ReadsAreSlices /\ ErrorsAreDeserved /\ CursorIsExact /\ LengthWasTrue /\ ImportsAreWhole
=============================================================================
