---------------------------- MODULE ChunkScorer ----------------------------
(***************************************************************************)
(* What SearchBackend::search_chunk promises to the backend thread: one    *)
(* answer per chunk, holding the score of every window of that chunk, in   *)
(* the order of the windows, or an error after which the backend is not    *)
(* asked again.  The thread numbers the answers by their place, so an      *)
(* answer out of order would name the wrong position of pi.                *)
(***************************************************************************)
EXTENDS Naturals, Sequences

CONSTANTS MaxChunks, MaxWindows

VARIABLES
    state,    \* "idle", "scoring" or "closed"
    chunk,    \* how many chunks were handed over
    windows,  \* how many windows the current chunk has
    answer    \* the scores of the last answer, each <<chunk, window>>

vars == <<state, chunk, windows, answer>>

Exact(c, n) == [w \in 1..n |-> <<c, w>>]

Init ==
    /\ state = "idle"
    /\ chunk = 0
    /\ windows = 0
    /\ answer = <<>>

Ask ==
    /\ state = "idle"
    /\ chunk < MaxChunks
    /\ state' = "scoring"
    /\ chunk' = chunk + 1
    /\ windows' \in 0..MaxWindows
    /\ UNCHANGED answer

Answer ==
    /\ state = "scoring"
    /\ state' = "idle"
    /\ answer' = Exact(chunk, windows)
    /\ UNCHANGED <<chunk, windows>>

Fail ==
    /\ state = "scoring"
    /\ state' = "closed"
    /\ UNCHANGED <<chunk, windows, answer>>

Next == Ask \/ Answer \/ Fail

Spec == Init /\ [][Next]_vars /\ WF_vars(Answer \/ Fail)
=============================================================================
