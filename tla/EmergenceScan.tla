--------------------------- MODULE EmergenceScan ---------------------------
(***************************************************************************)
(* The search for the best candidate of one window, as the CPU does it and *)
(* as the GPU's shader does it.  A candidate is a placement of the target  *)
(* together with a digit; both scans take them in the same order.  The CPU *)
(* compares score, coverage and leakage; the shader compares one rank that *)
(* was computed for every pair of counts before.                           *)
(*                                                                         *)
(* The scores are whatever Score says: nothing here depends on the weights *)
(* or on how the floating-point numbers were rounded, as long as both      *)
(* scans use the same ones.                                                *)
(***************************************************************************)
EXTENDS Integers, FiniteSets

CONSTANTS
    Shape,       \* shape_pixels
    Background,  \* background_pixels
    Candidates,  \* number of placements times ten
    Score,       \* emergence_score of every pair of counts
    Windows      \* the windows: for each candidate its pixels covered and leaked

Counts == (0..Shape) \X (0..Background)

\* An empty candidate has a score of nothing only if it leaks everywhere; and
\* in every placement some digit stands on a pixel of the shape.
ASSUME ScanAssumption ==
    /\ Shape \in Nat \ {0}
    /\ Background \in Nat
    /\ Candidates \in Nat \ {0}
    /\ Score \in [Counts -> Nat]
    /\ \A c \in Counts : c[1] > 0 => Score[c] > 0
    /\ Windows \subseteq [1..Candidates -> Counts]
    /\ \A w \in Windows : \E i \in 1..Candidates : w[i][1] > 0

VARIABLES
    window,
    position,  \* candidates compared so far
    cpu,       \* the CPU's best: candidate (0: none), score and counts
    gpu        \* the shader's best: candidate (0: none), rank and counts

vars == <<window, position, cpu, gpu>>

\* The order score_rank_table sorts by: score, then coverage, then leakage.
Better(a, b) ==
    \/ Score[a] > Score[b]
    \/ Score[a] = Score[b] /\ a[1] > b[1]
    \/ Score[a] = Score[b] /\ a[1] = b[1] /\ a[2] < b[2]

\* Seeded fault: the best pair of counts is ranked in last place.
Rank_Reversed(c) == 1 + Cardinality({e \in Counts : Better(e, c)})
\* score_rank_table: the number of entries less the place among them.
Rank(c) == Cardinality(Counts) - Cardinality({e \in Counts : Better(e, c)})

Init ==
    /\ window \in Windows
    /\ position = 0
    /\ cpu = [candidate |-> 0, score |-> 0, covered |-> 0, leaked |-> 0]
    /\ gpu = [candidate |-> 0, rank |-> 0, covered |-> 0, leaked |-> 0]

\* is_better
CpuIsBetter(c) ==
    \/ Score[c] > cpu.score
    \/ Score[c] = cpu.score /\ c[1] > cpu.covered
    \/ Score[c] = cpu.score /\ c[1] = cpu.covered /\ c[2] < cpu.leaked

GpuIsBetter(c) == Rank(c) > gpu.rank

Compare ==
    LET i == position + 1
        c == window[i]
    IN  /\ position < Candidates
        /\ position' = i
        /\ cpu' = IF CpuIsBetter(c)
                  THEN [candidate |-> i, score |-> Score[c],
                        covered |-> c[1], leaked |-> c[2]]
                  ELSE cpu
        /\ gpu' = IF GpuIsBetter(c)
                  THEN [candidate |-> i, rank |-> Rank(c),
                        covered |-> c[1], leaked |-> c[2]]
                  ELSE gpu
        /\ UNCHANGED window

Next == Compare

Spec == Init /\ [][Next]_vars

-----------------------------------------------------------------------------
(* Properties.                                                             *)

\* Types; a rank is never the zero the shader starts from.
TypeOK ==
    /\ window \in Windows
    /\ position \in 0..Candidates
    /\ cpu \in [candidate : 0..position, score : Nat,
                covered : 0..Shape, leaked : 0..Background]
    /\ gpu \in [candidate : 0..position, rank : Nat,
                covered : 0..Shape, leaked : 0..Background]
    /\ gpu.candidate = 0 <=> gpu.rank = 0

Scanned == 1..position

\* b is the first of the best of a window's first n candidates.
FirstBest(w, n, b) ==
    /\ b \in 1..n
    /\ \A i \in 1..n : ~Better(w[i], w[b])
    /\ \A i \in 1..(b - 1) : Better(w[b], w[i])

\* What the shader has found is the first of the best candidates so far, in
\* the order of score, coverage and leakage.
GpuFindsFirstBest == position > 0 => FirstBest(window, position, gpu.candidate)

\* What makes the backends interchangeable, also in the middle of a run: for
\* every window both scans end with the same placement, digit and counts.
BackendsAgree ==
    position = Candidates =>
        /\ cpu.candidate = gpu.candidate
        /\ cpu.candidate # 0
        /\ <<cpu.covered, cpu.leaked>> = <<gpu.covered, gpu.leaked>>
        /\ <<cpu.covered, cpu.leaked>> = window[cpu.candidate]
=============================================================================
