-------------------------- MODULE EmergenceScore ---------------------------
(***************************************************************************)
(* emergence_score: how well a digit draws the target at one placement.    *)
(* The three weighted terms are rational numbers of the two counts; they   *)
(* are written here over one common denominator, so that the comparison of *)
(* two scores is exact.                                                    *)
(***************************************************************************)
EXTENDS Integers

CONSTANTS
    Shape,       \* shape_pixels, at least one
    Background   \* background_pixels

\* A number that every possible count of clean background pixels divides.
CleanMultiple ==
    LET factorial[n \in 0..Background] == IF n = 0 THEN 1 ELSE n * factorial[n - 1]
    IN  factorial[Background]

\* The value of a score of one.
One == 10 * Shape * Shape * CleanMultiple * (IF Background = 0 THEN 1 ELSE Background)

\* coverage * coverage, as a part of One / 10.
Density(covered) == ((One \div 10) * covered * covered) \div (Shape * Shape)

\* (coverage - leakage) / (1 - leakage), if there is more of the one.
Contrast(covered, leaked) ==
    IF Background = 0 THEN ((One \div 10) * covered) \div Shape
    ELSE IF covered * Background <= leaked * Shape THEN 0
    ELSE ((One \div 10) * (covered * Background - leaked * Shape))
           \div (Shape * (Background - leaked))

\* 1 - leakage.
Cleanliness(leaked) ==
    IF Background = 0 THEN One \div 10
    ELSE ((One \div 10) * (Background - leaked)) \div Background

\* Seeded fault: a little leakage is rounded away.
EmergenceScoreOf_Tolerant(covered, leaked) ==
    IF covered = Shape /\ leaked <= 1 THEN One
    ELSE 7 * Density(covered) + 2 * Contrast(covered, leaked) + Cleanliness(leaked)
EmergenceScoreOf(covered, leaked) ==
    7 * Density(covered) + 2 * Contrast(covered, leaked) + Cleanliness(leaked)
=============================================================================
