---------------------------- MODULE WindowScores ----------------------------
(***************************************************************************)
(* The scores of one chunk: every window of digits is compared with the    *)
(* target, by the CPU pool, by the wgpu ring or by CUDA, whose answer the  *)
(* host computes again before it believes it.  A backend that fails is     *)
(* replaced by the CPU, which scores the same chunk from its start.        *)
(*                                                                         *)
(* A score is a whole number: matching pixels, or the weighted terms of    *)
(* EmergenceScore over their common denominator.                           *)
(***************************************************************************)
EXTENDS Integers, FiniteSets, Sequences

CONSTANTS
    Digits,    \* how many digits there are (ten)
    Searches,  \* [target, canvas_width, canvas_height, mode, threshold, invert, digits]
    None

\* What Bitmap::new and the checks of a new run let through.
TargetType ==
    [width : Nat \ {0}, height : Nat \ {0}, pixels : Seq({0, 1})]
SearchType ==
    [target : TargetType, canvas_width : Nat, canvas_height : Nat,
     mode : {"emergence", "threshold"}, threshold : Nat, invert : BOOLEAN,
     digits : Seq(0..(Digits - 1))]
SearchesConstants ==
    /\ Digits \in Nat \ {0}
    /\ Searches \subseteq SearchType
    /\ \A s \in Searches :
           /\ Len(s.target.pixels) = s.target.width * s.target.height
           /\ s.mode = "emergence" => /\ s.target.width <= s.canvas_width
                                     /\ s.target.height <= s.canvas_height
    /\ None \notin [covered : Nat, total : Nat, leaked : Nat, background_total : Nat]

VARIABLES
    search,  \* the parameters of the chunk and its digits
    pooled,  \* whether the CPU backend has more than one worker
    active,  \* the active backend: "cpu", "gpu" or "cuda"
    scores,  \* what the CPU has scored so far, by window
    reply    \* what the backend thread passes on, or None

vars == <<search, pooled, active, scores, reply>>

QuantizationScale == 1000000
Least(a, b) == IF a <= b THEN a ELSE b

Width == search.target.width
Height == search.target.height
Pixels == search.target.pixels
Emergence == search.mode = "emergence"
WindowLen == IF Emergence THEN search.canvas_width * search.canvas_height ELSE Len(Pixels)
ActualWindows == Len(search.digits) - WindowLen + 1
WindowIndices == 0..(ActualWindows - 1)
Window(index) == SubSeq(search.digits, index + 1, index + WindowLen)

\* The number of members of S that satisfy Test.
Count(S, Test(_)) == Cardinality({e \in S : Test(e)})
PixelIndices == 0..(Len(Pixels) - 1)
ShapePixels == Count(PixelIndices, LAMBDA p : Pixels[p + 1] = 1)
BackgroundPixels == Len(Pixels) - ShapePixels

\* emergence_score of the counts, and its value for a perfect match.
Weights(Shape, Background) == INSTANCE EmergenceScore
EmergenceScore(covered, leaked) ==
    Weights(ShapePixels, BackgroundPixels)!EmergenceScoreOf(covered, leaked)
One == EmergenceScore(ShapePixels, 0)

\* Seeded fault: a score is cut, not rounded, and may be more than one.
Quantize_Unbounded(part, whole) == ((part * QuantizationScale) \div whole) + 1
\* quantize_score
Quantize(part, whole) ==
    Least((2 * part * QuantizationScale + whole) \div (2 * whole), QuantizationScale)

Empty(index) ==
    [index |-> index, score |-> 0, score_q |-> 0, inverted |-> FALSE,
     digit |-> 0, x |-> 0, y |-> 0, coverage_q |-> 0, leakage_q |-> 0, statistics |-> None]

-----------------------------------------------------------------------------
(* Thresholds.                                                             *)

Matching(digits) ==
    Count(PixelIndices,
          LAMBDA p : (digits[p + 1] >= search.threshold) = (Pixels[p + 1] = 1))

ThresholdScore(index) ==
    LET matching == Matching(Window(index))
        total    == Len(Pixels)
        inverted == search.invert /\ total - matching > matching
        matched  == IF inverted THEN total - matching ELSE matching
    IN  [Empty(index) EXCEPT !.score = matched, !.score_q = Quantize(matched, total),
             !.inverted = inverted, !.digit = None, !.x = None, !.y = None,
             !.coverage_q = None, !.leakage_q = None]

-----------------------------------------------------------------------------
(* Emergence.                                                              *)

Columns == search.canvas_width - Width + 1
Rows == search.canvas_height - Height + 1

\* Seeded fault: the rows of the canvas are as long as those of the target.
PlanOffset_TargetRows(x, y, p) == (y + (p \div Width)) * Width + x + (p % Width)
\* The place in the window of pixel p of a target placed at x, y.
PlanOffset(x, y, p) == (y + (p \div Width)) * search.canvas_width + x + (p % Width)

\* EmergencePlan::new: the placements by rows, each with its offsets.
Plan ==
    [k \in 1..(Columns * Rows) |->
        LET x == (k - 1) % Columns
            y == (k - 1) \div Columns
        IN  [x |-> x, y |-> y,
             shape |-> {PlanOffset(x, y, p) : p \in {q \in PixelIndices : Pixels[q + 1] = 1}},
             background |-> {PlanOffset(x, y, p) : p \in {q \in PixelIndices : Pixels[q + 1] = 0}}]]

\* The counts of each digit in each placement, as the plan takes them.
PlanCandidates(digits) ==
    LET candidate(placement, digit) ==
            [digit |-> digit, x |-> placement.x, y |-> placement.y,
             covered |-> Count(placement.shape, LAMBDA o : digits[o + 1] = digit),
             leaked |-> Count(placement.background, LAMBDA o : digits[o + 1] = digit)]
    IN  [k \in 1..(Digits * Columns * Rows) |->
            candidate(Plan[1 + ((k - 1) \div Digits)], (k - 1) % Digits)]

\* The same counts, from the target laid over the canvas.
DirectCandidates(digits) ==
    LET at(x, y) == digits[y * search.canvas_width + x + 1]
        hits(x, y, digit, pixel) ==
            Count((0..(Width - 1)) \X (0..(Height - 1)),
                  LAMBDA t : /\ at(x + t[1], y + t[2]) = digit
                             /\ Pixels[t[2] * Width + t[1] + 1] = pixel)
    IN  [k \in 1..(Digits * Columns * Rows) |->
            LET placement == (k - 1) \div Digits
                x == placement % Columns
                y == placement \div Columns
                digit == (k - 1) % Digits
            IN  [digit |-> digit, x |-> x, y |-> y,
                 covered |-> hits(x, y, digit, 1), leaked |-> hits(x, y, digit, 0)]]

CandidateScore(index, c) ==
    [index |-> index, score |-> EmergenceScore(c.covered, c.leaked),
     score_q |-> Quantize(EmergenceScore(c.covered, c.leaked), One), inverted |-> FALSE,
     digit |-> c.digit, x |-> c.x, y |-> c.y,
     coverage_q |-> Quantize(c.covered, ShapePixels),
     leakage_q |-> IF BackgroundPixels = 0 THEN 0 ELSE Quantize(c.leaked, BackgroundPixels),
     statistics |-> [covered |-> c.covered, total |-> ShapePixels, leaked |-> c.leaked,
                     background_total |-> BackgroundPixels]]

\* is_better; the empty score it starts from covers and leaks nothing.
IsBetter(new, best) ==
    LET covered(s) == IF s.statistics = None THEN 0 ELSE s.statistics.covered
        leaked(s) == IF s.statistics = None THEN 0 ELSE s.statistics.leaked
    IN  \/ new.score > best.score
        \/ new.score = best.score /\ covered(new) > covered(best)
        \/ /\ new.score = best.score
           /\ covered(new) = covered(best)
           /\ leaked(new) < leaked(best)

\* The first of the best of a sequence of scores, if one is better than old.
TakeBest(old, scored) ==
    LET best[k \in 0..Len(scored)] ==
            IF k = 0 THEN old
            ELSE LET former == best[k - 1]
                 IN  IF IsBetter(scored[k], former) THEN scored[k] ELSE former
    IN  best[Len(scored)]
ScanBest(index, candidates) ==
    IF ShapePixels = 0 THEN Empty(index)
    ELSE TakeBest(Empty(index),
                  [k \in 1..Len(candidates) |-> CandidateScore(index, candidates[k])])

\* score_emergence_window_with_plan, and the reference it is tested against.
PlanScore(index) == ScanBest(index, PlanCandidates(Window(index)))
DirectScore(index) == ScanBest(index, DirectCandidates(Window(index)))

\* score_candidate_window
CandidateWindow(index) == IF Emergence THEN PlanScore(index) ELSE ThresholdScore(index)

-----------------------------------------------------------------------------
(* What CUDA sends back.                                                   *)

\* host_recompute_scores: what a candidate must be to be looked at.
Accepted(index, c) ==
    /\ c.index = index
    /\ c.score_q <= QuantizationScale
    /\ c.coverage_q <= QuantizationScale
    /\ c.leakage_q <= QuantizationScale
    /\ c.statistics # None =>
           /\ c.statistics.covered <= c.statistics.total
           /\ c.statistics.leaked <= c.statistics.background_total
    /\ c.index + WindowLen <= Len(search.digits)
    /\ Emergence <=> c.statistics # None
    /\ Emergence => CandidateWindow(c.index).statistics = c.statistics

\* Seeded fault: what was transported is passed on once its counts agree.
Recomputed_Trusted(c) == c
\* host_recompute_scores: only the counts are compared, the host's score is kept.
Recomputed(c) == CandidateWindow(c.index)

\* The kernel: scores, coverage and leakage cut to millionths, and the same
\* order.  Single-precision rounding may change the choice; that is one of the
\* wrong answers below.
KernelScore(index) ==
    LET cut(part, whole) == IF whole = 0 THEN 0 ELSE (part * QuantizationScale) \div whole
        score(c) == cut(EmergenceScore(c.covered, c.leaked), One)
        coverage(c) == cut(c.covered, ShapePixels)
        leakage(c) == cut(c.leaked, BackgroundPixels)
        beats(new, best) ==
            \/ score(new) > score(best)
            \/ score(new) = score(best) /\ coverage(new) > coverage(best)
            \/ /\ score(new) = score(best)
               /\ coverage(new) = coverage(best)
               /\ leakage(new) < leakage(best)
        candidates == DirectCandidates(Window(index))
        best[k \in 0..Len(candidates)] ==
            IF k = 0
            THEN [digit |-> 0, x |-> 0, y |-> 0, covered |-> 0, leaked |-> BackgroundPixels]
            ELSE LET old == best[k - 1]
                 IN  IF beats(candidates[k], old) THEN candidates[k] ELSE old
    IN  CandidateScore(index, best[Len(candidates)])

\* A right answer; one whose floating-point part and position are wrong; and
\* answers that are in another order, out of range or about other counts.  The
\* host numbers what it receives.
Transported ==
    LET kernel == [k \in 1..ActualWindows |-> KernelScore(k - 1)]
        first == kernel[1]
        numbered(sent) == [k \in 1..ActualWindows |-> [sent[k] EXCEPT !.index = k - 1]]
    IN  {kernel,
         [kernel EXCEPT ![1].digit = 9, ![1].x = 99, ![1].score_q = 0],
         [kernel EXCEPT ![1].score_q = QuantizationScale + 1],
         [kernel EXCEPT ![1].statistics.covered = (first.statistics.covered + 1) % 3],
         [kernel EXCEPT ![1].statistics.leaked = BackgroundPixels + 1],
         numbered([k \in 1..ActualWindows |-> kernel[ActualWindows + 1 - k]])}

-----------------------------------------------------------------------------

Init ==
    /\ search \in Searches
    /\ pooled \in BOOLEAN
    /\ active \in {"cpu", "gpu", "cuda"}
    /\ scores = [index \in WindowIndices |-> None]
    /\ reply = None

\* The hybrid backend hands everything but emergence to its CPU.
OnCpu == active = "cpu" \/ (active = "gpu" /\ ~Emergence)

\* One worker takes the windows in order, the pool takes them in any order.
CpuScores(index) ==
    /\ reply = None /\ OnCpu
    /\ scores[index] = None
    /\ ~pooled => \A before \in 0..(index - 1) : scores[before] # None
    /\ scores' = [scores EXCEPT ![index] = CandidateWindow(index)]
    /\ UNCHANGED <<search, pooled, active, reply>>

CpuAnswers ==
    /\ reply = None /\ OnCpu
    /\ \A index \in WindowIndices : scores[index] # None
    /\ reply' = scores
    /\ UNCHANGED <<search, pooled, active, scores>>

\* The shader's choice (EmergenceScan), as gpu_score_to_window_score reads it.
GpuAnswers ==
    /\ reply = None /\ active = "gpu" /\ Emergence
    /\ ShapePixels > 0
    /\ reply' = [index \in WindowIndices |-> DirectScore(index)]
    /\ UNCHANGED <<search, pooled, active, scores>>

FallBack ==
    /\ active' = "cpu"
    /\ UNCHANGED <<search, pooled, scores, reply>>

\* The device fails, or has no use for this target or this mode.
AcceleratorFails ==
    /\ reply = None /\ ~OnCpu
    /\ FallBack

CudaAnswers ==
    /\ reply = None /\ active = "cuda" /\ Emergence
    /\ ShapePixels > 0
    /\ \E sent \in Transported :
           IF \A k \in 1..ActualWindows : Accepted(k - 1, sent[k])
           THEN /\ reply' = [index \in WindowIndices |-> Recomputed(sent[index + 1])]
                /\ UNCHANGED <<search, pooled, active, scores>>
           ELSE FallBack

Next ==
    \/ \E index \in WindowIndices : CpuScores(index)
    \/ CpuAnswers
    \/ GpuAnswers
    \/ AcceleratorFails
    \/ CudaAnswers

-----------------------------------------------------------------------------
(* build_match_output, for a window that became the best.                  *)

\* Seeded fault: the bitmap of an emergence match is taken by the threshold.
MatchBitmap_Threshold(s) ==
    [p \in 1..WindowLen |-> IF Window(s.index)[p] >= search.threshold THEN 1 ELSE 0]
MatchBitmap(s) ==
    [p \in 1..WindowLen |->
        IF IF Emergence THEN Window(s.index)[p] = s.digit
           ELSE Window(s.index)[p] >= search.threshold
        THEN 1 ELSE 0]

-----------------------------------------------------------------------------
(* Properties.                                                             *)

Answered == reply # None

\* Whichever backend answered, however many workers it had, and whatever a
\* failed or wrong one said before, each window has the score the reference
\* gives it, under its own index.
AnswersAreCanonical ==
    Answered => \A index \in WindowIndices :
        reply[index] = IF Emergence THEN DirectScore(index) ELSE ThresholdScore(index)

\* No placement and no digit beats the one an emergence answer names.
NothingBeatsTheAnswer ==
    Answered /\ Emergence /\ ShapePixels > 0 =>
        \A index \in WindowIndices :
            \A c \in {DirectCandidates(Window(index))[k] : k \in 1..(Digits * Columns * Rows)} :
                ~IsBetter(CandidateScore(index, c), reply[index])

\* The bitmap that is kept shows what the score says: so many pixels of the
\* shape and of its background are set where the match is placed, or so many
\* pixels agree with the target, all of them turned if the match is inverted.
BitmapShowsTheScore ==
    Answered /\ ShapePixels > 0 => \A index \in WindowIndices :
        LET s == reply[index]
            bitmap == MatchBitmap(s)
        IN  IF Emergence
            THEN LET set(pixel) ==
                         Count({p \in PixelIndices : Pixels[p + 1] = pixel},
                               LAMBDA p : bitmap[PlanOffset(s.x, s.y, p) + 1] = 1)
                 IN  set(1) = s.statistics.covered /\ set(0) = s.statistics.leaked
            ELSE s.score = Count(PixelIndices,
                                 LAMBDA p : (bitmap[p + 1] = Pixels[p + 1]) # s.inverted)

\* A score of a million millionths is kept for a perfect match, and no score
\* is beyond it.  The exception are targets so large that one pixel is worth
\* less than half a millionth.
FullMarksArePerfect ==
    Answered /\ ShapePixels > 0 /\ 10 * Len(Pixels) < 2 * QuantizationScale => \A index \in WindowIndices :
        LET s == reply[index]
            perfect == IF Emergence THEN s.statistics.covered = ShapePixels /\ s.statistics.leaked = 0
                       ELSE s.score = Len(Pixels)
        IN  /\ s.score_q \in 0..QuantizationScale
            /\ s.score_q = QuantizationScale <=> perfect

ChunkInvariant ==
    AnswersAreCanonical /\ NothingBeatsTheAnswer /\ BitmapShowsTheScore /\ FullMarksArePerfect
=============================================================================
