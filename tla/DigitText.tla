----------------------------- MODULE DigitText -----------------------------
(***************************************************************************)
(* The bytes of a digit file, by kind: digits, white space, the point of a *)
(* 3. prefix and everything else.  A byte is named by its offset, so that  *)
(* two digits are equal only if they are the same digit of the file.       *)
(***************************************************************************)
EXTENDS FiniteSets, Integers, Sequences

ByteKinds == {"digit", "space", "point", "bad"}

\* parse_source_byte: what a byte is after "seen" digits.
ByteIs(kind, seen, prefix, allow_decimal_prefix) ==
    CASE kind = "digit" -> "digit"
      [] kind = "space" -> "ignored"
      [] kind = "point" /\ allow_decimal_prefix /\ seen = 1 /\ ~prefix -> "prefix"
      [] OTHER -> "invalid"

-----------------------------------------------------------------------------
(* What a text says, whichever way it is read: the properties are stated   *)
(* with these.                                                             *)

Before(text, kind, b) == {c \in 0..(b - 1) : text[c + 1] = kind}

\* A point fits after the first digit, once and if it is allowed.
Fits(text, allow_decimal_prefix, b) ==
    \/ text[b + 1] \in {"digit", "space"}
    \/ /\ text[b + 1] = "point"
       /\ allow_decimal_prefix
       /\ Cardinality(Before(text, "digit", b)) = 1
       /\ Before(text, "point", b) = {}

AllFit(text, allow_decimal_prefix, end) ==
    \A b \in 0..(end - 1) : Fits(text, allow_decimal_prefix, b)

\* The digits of a text, up to the first byte that does not fit.
DigitBytes(text, allow_decimal_prefix) ==
    {b \in 0..(Len(text) - 1) :
        text[b + 1] = "digit" /\ AllFit(text, allow_decimal_prefix, b)}

\* How many there are of len elements from the offset on.
SliceLength(size, offset, len) ==
    IF size <= offset THEN 0 ELSE IF size - offset < len THEN size - offset ELSE len

\* A sequence of len bytes of the set, in order and without a gap, the first
\* of them at its place "offset"; fewer only where the set ends.
IsSlice(view, bytes, offset, len) ==
    /\ Len(view) = SliceLength(Cardinality(bytes), offset, len)
    /\ \A k \in 1..Len(view) :
           /\ view[k] \in bytes
           /\ Cardinality({b \in bytes : b < view[k]}) = offset + k - 1
=============================================================================
