--------------------------- MODULE SequentialScan ---------------------------
(***************************************************************************)
(* What a search run promises of its database row, whatever threads, stops *)
(* and crashes are behind it: the windows are scanned one after another    *)
(* from the first; the row's offset and best only move forward; a write    *)
(* that moves the offset alone passes only windows that do not beat the    *)
(* recorded best; and a write that records a new best records the first    *)
(* window that beats the old one.                                          *)
(***************************************************************************)
EXTENDS Integers

CONSTANTS Offsets, ScoreTables, PerfectScore, KeepGoingChoices, NoBound

VARIABLES score, offset, scanned, best, bestAt, status

scanVars == <<score, offset, scanned, best, bestAt, status>>

Init ==
    /\ score \in ScoreTables
    /\ offset = 0
    /\ scanned = 0
    /\ best = 0
    /\ bestAt = NoBound
    /\ status = "Paused"

\* No window from the row's offset up to o (exclusive) beats the recorded best.
NothingBetterBefore(o) == \A p \in offset..(o - 1) : score[p] <= best

\* An exhausted run is over; a perfect one goes on only if that is asked for.
Open ==
    /\ status # "SourceExhausted"
    /\ status = "PerfectFound" => TRUE \in KeepGoingChoices

\* Progress, a change of status, or both.
Record ==
    /\ Open
    /\ offset' >= offset
    /\ NothingBetterBefore(offset')
    /\ scanned' = offset'
    /\ status' \in {"Paused", "Running", "PerfectFound", "SourceExhausted"}
    /\ status' = "PerfectFound" => best >= PerfectScore
    /\ UNCHANGED <<score, best, bestAt>>

\* The first window past the row's offset that beats the best becomes the best.
Improve ==
    /\ Open
    /\ bestAt' \in Offsets
    /\ bestAt' >= offset
    /\ score[bestAt'] > best
    /\ NothingBetterBefore(bestAt')
    /\ best' = score[bestAt']
    /\ offset' = bestAt' + 1
    /\ scanned' = offset'
    /\ UNCHANGED <<score, status>>

Next == Record \/ Improve
Spec == Init /\ [][Next]_scanVars
=============================================================================
