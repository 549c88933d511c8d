--------------------------- MODULE GenerationPlan ---------------------------
(***************************************************************************)
(* The arithmetic that decides how far one pi-generation batch may run     *)
(* ahead of the cache: ResourceBudget::plan_generation and the prefetch    *)
(* target of the Chudnovsky backend.  Both are pure functions of numbers   *)
(* read under the budget's lock, so they are operators without state.      *)
(***************************************************************************)
EXTENDS Integers

\* A digit is resident twice while a batch is generated: once as a value,
\* once as the text appended to the cache.
ResidentBytesPerDigit == 2

\* u64::saturating_sub
Monus(a, b) == IF a >= b THEN a - b ELSE 0

Least(a, b) == IF a <= b THEN a ELSE b
Greatest(a, b) == IF a >= b THEN a ELSE b

\* Bytes that remain for digits once the generator's fixed charge is taken
\* from the free part of the budget.
FreeAfterFixed(limit, reserved, fixed) == Monus(Monus(limit, reserved), fixed)

\* The early return of plan_generation: not even one window fits.
OneWindowFits(limit, reserved, fixed, windowLen) ==
    ResidentBytesPerDigit * windowLen <= FreeAfterFixed(limit, reserved, fixed)

\* Seeded fault: the lead is computed from the limit, not from what is free.
AvailableLead_OfLimit(limit, reserved, fixed) ==
    Monus(limit, fixed) \div ResidentBytesPerDigit
AvailableLead(limit, reserved, fixed) ==
    FreeAfterFixed(limit, reserved, fixed) \div ResidentBytesPerDigit

\* Digits the next batch may hold: what is asked for, at least a window, and
\* never more than the memory that is free right now.
LeadDigits(limit, reserved, fixed, windowLen, current, target) ==
    Least(AvailableLead(limit, reserved, fixed),
          Greatest(windowLen, Monus(target, current)))

\* Absolute digit count the batch stops at.
HighWaterDigits(target, current, lead) == Least(target, current + lead)

\* The bytes acquire_generation is then asked to reserve.
GeneratorReservation(fixed, lead) == fixed + ResidentBytesPerDigit * lead

\* checked_next_power_of_two: there is one power of two from n to below 2 * n,
\* unless it is too large for a number of the machine.
NextPowersOfTwo(n) ==
    LET least == Greatest(n, 1)
    IN  {p \in least..(2 * least - 1) : \E k \in 0..p : p = 2^k}
GeometricTarget(requested, prefixLimit) ==
    IF NextPowersOfTwo(requested) = {} THEN prefixLimit
    ELSE Least(CHOOSE p \in NextPowersOfTwo(requested) : TRUE, prefixLimit)

\* The Chudnovsky backend rounds a small target up to a power of two, so that
\* repeated demands do not recompute the whole prefix each time.
ChudnovskyPrefetchTarget(current, requested, availableLead, prefixLimit) ==
    LET resourceLimit == current + availableLead
    IN  IF requested >= prefixLimit \/ resourceLimit <= requested
        THEN requested
        ELSE Greatest(Least(GeometricTarget(requested, prefixLimit), resourceLimit), requested)
=============================================================================
