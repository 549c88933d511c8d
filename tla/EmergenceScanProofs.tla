----------------------- MODULE EmergenceScanProofs -------------------------
(***************************************************************************)
(* For every score function, every target and every window the shader and  *)
(* the CPU choose the same placement and digit.  And for every host,       *)
(* selection and option, every run can be resumed and what the user chose  *)
(* is what runs: by an invariant (SettingsInv, of RunSettings) saying that *)
(* the stored settings, and the ones the search would store next, are a    *)
(* pair the host of the last preflight has a backend for.  And for every   *)
(* target, canvas, mode and text, the answer of every backend is the right *)
(* one (ScoreSound): the plan and the reference count the same pixels, the *)
(* weighted terms are exact over their common denominator and bounded, and *)
(* the scan keeps the first of the best.                                   *)
(***************************************************************************)
EXTENDS MCBackends, Sequences, FiniteSetTheorems, TLAPS

\* Two counts in range and a natural score.
LEMMA CountsTypes ==
    ASSUME NEW a \in Counts
    PROVE  /\ a[1] \in 0..Shape
           /\ a[2] \in 0..Background
           /\ a[1] \in Int /\ a[2] \in Int
           /\ a = <<a[1], a[2]>>
           /\ Score[a] \in Nat
BY ScanAssumption DEF Counts

\* Better is a strict total order of the pairs of counts.
LEMMA BetterIsStrict ==
    ASSUME NEW a \in Counts
    PROVE  ~Better(a, a)
BY CountsTypes DEF Better

LEMMA BetterIsTransitive ==
    ASSUME NEW a \in Counts, NEW b \in Counts, NEW c \in Counts,
           Better(a, b), Better(b, c)
    PROVE  Better(a, c)
<1>1. /\ Score[a] \in Nat /\ Score[b] \in Nat /\ Score[c] \in Nat
      /\ a[1] \in Int /\ b[1] \in Int /\ c[1] \in Int
      /\ a[2] \in Int /\ b[2] \in Int /\ c[2] \in Int
  BY CountsTypes
<1>. QED  BY <1>1 DEF Better

LEMMA BetterIsTotal ==
    ASSUME NEW a \in Counts, NEW b \in Counts, a # b
    PROVE  Better(a, b) \/ Better(b, a)
<1>1. /\ Score[a] \in Nat /\ Score[b] \in Nat
      /\ a[1] \in Int /\ b[1] \in Int
      /\ a[2] \in Int /\ b[2] \in Int
  BY CountsTypes
<1>2. a = <<a[1], a[2]>> /\ b = <<b[1], b[2]>>
  BY CountsTypes
<1>3. a[1] # b[1] \/ a[2] # b[2]
  <2> SUFFICES ASSUME a[1] = b[1], a[2] = b[2] PROVE FALSE
    OBVIOUS
  <2>1. <<a[1], a[2]>> = <<b[1], b[2]>>
    OBVIOUS
  <2>. QED  BY <1>2, <2>1
<1>. QED  BY <1>1, <1>3 DEF Better

-----------------------------------------------------------------------------
(* The rank table.                                                         *)

LEMMA CountsFinite == IsFiniteSet(Counts)
<1>1. IsFiniteSet(0..Shape) /\ IsFiniteSet(0..Background)
  BY ScanAssumption, FS_Interval
<1>. QED  BY <1>1, FS_Product DEF Counts

\* A pair of counts that is better than another has fewer betters.
LEMMA FewerBetters ==
    ASSUME NEW a \in Counts, NEW b \in Counts, Better(a, b)
    PROVE  Cardinality({e \in Counts : Better(e, a)})
             < Cardinality({e \in Counts : Better(e, b)})
<1> DEFINE A == {e \in Counts : Better(e, a)}
           B == {e \in Counts : Better(e, b)}
<1>1. A \in SUBSET B
  BY BetterIsTransitive
<1>2. A # B
  BY BetterIsStrict
<1>3. IsFiniteSet(B) /\ IsFiniteSet(A)
  BY CountsFinite, FS_Subset
<1>4. Cardinality(A) \in Nat /\ Cardinality(B) \in Nat
  BY <1>3, FS_CardinalityType
<1>5. Cardinality(A) <= Cardinality(B) /\ Cardinality(A) # Cardinality(B)
  BY <1>1, <1>2, <1>3, FS_Subset
<1>. HIDE DEF A, B
<1>6. Cardinality(A) < Cardinality(B)
  BY <1>4, <1>5
<1>. QED  BY <1>6 DEF A, B

\* No rank is zero: the shader starts from a rank below all.
LEMMA RankIsPositive ==
    ASSUME NEW a \in Counts
    PROVE  Rank(a) \in Nat /\ Rank(a) > 0
<1> DEFINE A == {e \in Counts : Better(e, a)}
<1>1. A \in SUBSET Counts /\ A # Counts
  BY BetterIsStrict
<1>2. IsFiniteSet(A)
  BY <1>1, CountsFinite, FS_Subset
<1>3. Cardinality(A) \in Nat /\ Cardinality(Counts) \in Nat
  BY <1>2, CountsFinite, FS_CardinalityType
<1>4. Cardinality(A) <= Cardinality(Counts) /\ Cardinality(A) # Cardinality(Counts)
  BY <1>1, CountsFinite, FS_Subset
<1>5. Rank(a) = Cardinality(Counts) - Cardinality(A)
  BY DEF Rank
<1>. HIDE DEF A
<1>. QED  BY <1>3, <1>4, <1>5

\* Comparing ranks is comparing scores, coverages and leakages.
LEMMA RankOrder ==
    ASSUME NEW a \in Counts, NEW b \in Counts
    PROVE  Rank(a) > Rank(b) <=> Better(a, b)
<1> DEFINE Betters(c) == Cardinality({e \in Counts : Better(e, c)})
<1>1. /\ Betters(a) \in Nat /\ Betters(b) \in Nat
      /\ Cardinality(Counts) \in Nat
  BY CountsFinite, FS_Subset, FS_CardinalityType
<1>2. /\ Rank(a) = Cardinality(Counts) - Betters(a)
      /\ Rank(b) = Cardinality(Counts) - Betters(b)
  BY DEF Rank
<1>3. Better(a, b) => Betters(a) < Betters(b)
  BY FewerBetters
<1>4. ~Better(a, b) => a = b \/ Better(b, a)
  BY BetterIsTotal
<1>5. Better(b, a) => Betters(b) < Betters(a)
  BY FewerBetters
<1>6. a = b => Betters(a) = Betters(b)
  OBVIOUS
<1>. HIDE DEF Betters
<1>. QED  BY <1>1, <1>2, <1>3, <1>4, <1>5, <1>6

-----------------------------------------------------------------------------
(* The two scans.                                                          *)

\* What the shader holds is a candidate's own, and the first best.
GpuInv ==
    /\ position = 0 => gpu.candidate = 0 /\ gpu.rank = 0
    /\ position > 0 =>
         /\ FirstBest(window, position, gpu.candidate)
         /\ gpu.rank = Rank(window[gpu.candidate])
         /\ <<gpu.covered, gpu.leaked>> = window[gpu.candidate]

\* As long as the CPU has nothing, nothing it saw has a score; what it has
\* then is the first best.
CpuInv ==
    /\ cpu.candidate = 0 =>
         /\ cpu.score = 0 /\ cpu.covered = 0 /\ cpu.leaked = 0
         /\ \A i \in Scanned : Score[window[i]] = 0 /\ window[i][1] = 0
    /\ cpu.candidate # 0 =>
         /\ FirstBest(window, position, cpu.candidate)
         /\ cpu.score = Score[window[cpu.candidate]]
         /\ <<cpu.covered, cpu.leaked>> = window[cpu.candidate]

IInv == TypeOK /\ GpuInv /\ CpuInv

LEMMA InitInv == Init => IInv
<1> SUFFICES ASSUME Init PROVE IInv
  OBVIOUS
<1>1. TypeOK
  BY ScanAssumption DEF Init, TypeOK
<1>2. GpuInv
  BY DEF Init, GpuInv
<1>3. CpuInv
  BY DEF Init, CpuInv, Scanned
<1>. QED  BY <1>1, <1>2, <1>3 DEF IInv

\* A step looks at one more candidate of the same window.
LEMMA StepFacts ==
    ASSUME TypeOK, Compare
    PROVE  /\ window \in [1..Candidates -> Counts]
           /\ window' = window
           /\ position \in Nat
           /\ position' = position + 1
           /\ position + 1 \in 1..Candidates
           /\ window[position + 1] \in Counts
           /\ \A i \in 1..(position + 1) : window[i] \in Counts
<1>1. window \in [1..Candidates -> Counts] /\ position \in 0..Candidates
  BY ScanAssumption DEF TypeOK
<1>2. window' = window /\ position' = position + 1 /\ position < Candidates
  BY DEF Compare
<1>3. Candidates \in Nat
  BY ScanAssumption
<1>4. position \in Nat /\ position + 1 \in 1..Candidates
  BY <1>1, <1>2, <1>3
<1>5. 1..(position + 1) \subseteq 1..Candidates
  BY <1>3, <1>4
<1>. QED  BY <1>1, <1>2, <1>4, <1>5

\* A new candidate that is better than the first best is the first best now.
LEMMA NewFirstBest ==
    ASSUME NEW n \in Nat, NEW b, NEW w, FirstBest(w, n, b),
           \A i \in 1..(n + 1) : w[i] \in Counts,
           Better(w[n + 1], w[b])
    PROVE  FirstBest(w, n + 1, n + 1)
<1>1. b \in 1..n /\ n + 1 \in 1..(n + 1) /\ 1..n \subseteq 1..(n + 1)
  BY DEF FirstBest
<1>2. w[b] \in Counts /\ w[n + 1] \in Counts
  BY <1>1
<1>3. ASSUME NEW i \in 1..n
      PROVE  Better(w[n + 1], w[i]) /\ ~Better(w[i], w[n + 1])
  <2>1. w[i] \in Counts /\ ~Better(w[i], w[b])
    BY <1>1 DEF FirstBest
  <2>2. w[i] = w[b] \/ Better(w[b], w[i])
    BY <1>2, <2>1, BetterIsTotal
  <2>3. Better(w[n + 1], w[i])
    BY <1>2, <2>1, <2>2, BetterIsTransitive
  <2>. QED  BY <1>2, <2>1, <2>3, BetterIsTransitive, BetterIsStrict
<1>4. ~Better(w[n + 1], w[n + 1])
  BY <1>2, BetterIsStrict
<1>5. (\A i \in 1..(n + 1) : i = n + 1 \/ i \in 1..n) /\ 1..((n + 1) - 1) = 1..n
  OBVIOUS
<1>. QED  BY <1>1, <1>3, <1>4, <1>5 DEF FirstBest

\* Otherwise the first best stays what it is.
LEMMA SameFirstBest ==
    ASSUME NEW n \in Nat, NEW b, NEW w, FirstBest(w, n, b),
           ~Better(w[n + 1], w[b])
    PROVE  FirstBest(w, n + 1, b)
<1>1. \A i \in 1..(n + 1) : i = n + 1 \/ i \in 1..n
  OBVIOUS
<1>. QED  BY <1>1 DEF FirstBest

\* A window and its length have one first best.
LEMMA FirstBestIsUnique ==
    ASSUME NEW n \in Nat, NEW w, NEW a, NEW b,
           FirstBest(w, n, a), FirstBest(w, n, b)
    PROVE  a = b
<1>1. a \in 1..n /\ b \in 1..n
  BY DEF FirstBest
<1>2. ~(a < b)
  <2> SUFFICES ASSUME a < b PROVE FALSE
    OBVIOUS
  <2>1. a \in 1..(b - 1)
    BY <1>1
  <2>. QED  BY <1>1, <2>1 DEF FirstBest
<1>3. ~(b < a)
  <2> SUFFICES ASSUME b < a PROVE FALSE
    OBVIOUS
  <2>1. b \in 1..(a - 1)
    BY <1>1
  <2>. QED  BY <1>1, <2>1 DEF FirstBest
<1>. QED  BY <1>1, <1>2, <1>3

LEMMA StepType ==
    ASSUME IInv, Compare
    PROVE  TypeOK'
<1> DEFINE c == window[position + 1]
<1>1. /\ c \in Counts /\ position \in Nat /\ position' = position + 1
      /\ position' \in 0..Candidates /\ window' = window
  BY StepFacts DEF IInv
<1>2. Score[c] \in Nat /\ c[1] \in 0..Shape /\ c[2] \in 0..Background
  BY <1>1, CountsTypes
<1>3. Rank(c) \in Nat /\ Rank(c) > 0
  BY <1>1, RankIsPositive
<1>4. /\ window \in Windows
      /\ cpu \in [candidate : 0..position, score : Nat,
                  covered : 0..Shape, leaked : 0..Background]
      /\ gpu \in [candidate : 0..position, rank : Nat,
                  covered : 0..Shape, leaked : 0..Background]
      /\ gpu.candidate = 0 <=> gpu.rank = 0
  BY DEF IInv, TypeOK
<1>5. /\ cpu' = IF CpuIsBetter(c)
                THEN [candidate |-> position + 1, score |-> Score[c],
                      covered |-> c[1], leaked |-> c[2]]
                ELSE cpu
      /\ gpu' = IF GpuIsBetter(c)
                THEN [candidate |-> position + 1, rank |-> Rank(c),
                      covered |-> c[1], leaked |-> c[2]]
                ELSE gpu
  BY DEF Compare
<1>6. 0..position \subseteq 0..position' /\ position + 1 \in 0..position'
  BY <1>1
<1>. HIDE DEF c
<1>7. cpu' \in [candidate : 0..position', score : Nat,
                covered : 0..Shape, leaked : 0..Background]
  BY <1>2, <1>4, <1>5, <1>6
<1>8. gpu' \in [candidate : 0..position', rank : Nat,
                covered : 0..Shape, leaked : 0..Background]
  BY <1>2, <1>3, <1>4, <1>5, <1>6
<1>9. gpu'.candidate = 0 <=> gpu'.rank = 0
  BY <1>1, <1>3, <1>4, <1>5
<1>. QED  BY <1>1, <1>4, <1>7, <1>8, <1>9 DEF TypeOK

LEMMA StepGpu ==
    ASSUME IInv, Compare
    PROVE  GpuInv'
<1> DEFINE n == position + 1
           c == window[n]
<1>0. TypeOK /\ GpuInv
  BY DEF IInv
<1>1. /\ c \in Counts /\ position \in Nat /\ position' = n /\ n > 0
      /\ window' = window
  BY <1>0, StepFacts
<1>2. c = <<c[1], c[2]>> /\ Rank(c) \in Nat /\ Rank(c) > 0
  BY <1>1, CountsTypes, RankIsPositive
<1>3. gpu' = IF Rank(c) > gpu.rank
             THEN [candidate |-> n, rank |-> Rank(c),
                   covered |-> c[1], leaked |-> c[2]]
             ELSE gpu
  BY DEF Compare, GpuIsBetter
<1>4. CASE position = 0
  <2>1. gpu' = [candidate |-> n, rank |-> Rank(c),
                covered |-> c[1], leaked |-> c[2]]
    BY <1>0, <1>2, <1>3, <1>4 DEF GpuInv
  <2>2. FirstBest(window, n, n)
    BY <1>1, <1>4, BetterIsStrict DEF FirstBest, Scanned
  <2>. QED  BY <1>1, <1>2, <2>1, <2>2 DEF GpuInv
<1>5. CASE position > 0
  <2> DEFINE b == gpu.candidate
  <2>1. /\ FirstBest(window, position, b) /\ gpu.rank = Rank(window[b])
        /\ <<gpu.covered, gpu.leaked>> = window[b]
    BY <1>0, <1>5 DEF GpuInv
  <2>2. window[b] \in Counts
    BY <1>0, <2>1, StepFacts DEF FirstBest, Scanned
  <2>3. Rank(c) > gpu.rank <=> Better(c, window[b])
    BY <1>1, <2>1, <2>2, RankOrder
  <2>4. CASE Better(c, window[b])
    <3>1. FirstBest(window, n, n)
      BY <1>0, <1>1, <2>1, <2>4, StepFacts, NewFirstBest
    <3>2. gpu' = [candidate |-> n, rank |-> Rank(c),
                  covered |-> c[1], leaked |-> c[2]]
      BY <1>3, <2>3, <2>4
    <3>. QED  BY <1>1, <1>2, <3>1, <3>2 DEF GpuInv
  <2>5. CASE ~Better(c, window[b])
    <3>1. FirstBest(window, n, b)
      BY <1>1, <2>1, <2>5, SameFirstBest
    <3>2. gpu' = gpu
      BY <1>3, <2>3, <2>5
    <3>. QED  BY <1>1, <2>1, <3>1, <3>2 DEF GpuInv
  <2>. QED  BY <2>4, <2>5
<1>. QED  BY <1>1, <1>4, <1>5

LEMMA StepCpu ==
    ASSUME IInv, Compare
    PROVE  CpuInv'
<1> DEFINE n == position + 1
           c == window[n]
<1>0. TypeOK /\ CpuInv
  BY DEF IInv
<1>1. /\ c \in Counts /\ position \in Nat /\ position' = n /\ n # 0
      /\ window' = window
      /\ \A i \in 1..n : window[i] \in Counts /\ (i = n \/ i \in 1..position)
  BY <1>0, StepFacts
<1>2. c = <<c[1], c[2]>> /\ Score[c] \in Nat /\ c[1] \in Nat /\ c[2] \in Nat
  BY <1>1, CountsTypes
<1>3. cpu' = IF CpuIsBetter(c)
             THEN [candidate |-> n, score |-> Score[c],
                   covered |-> c[1], leaked |-> c[2]]
             ELSE cpu
  BY DEF Compare
<1>4. CASE cpu.candidate = 0
  <2>1. /\ cpu.score = 0 /\ cpu.covered = 0 /\ cpu.leaked = 0
        /\ \A i \in 1..position : Score[window[i]] = 0 /\ window[i][1] = 0
    BY <1>0, <1>4 DEF CpuInv, Scanned
  <2>2. CpuIsBetter(c) <=> Score[c] > 0
    BY <1>1, <1>2, <2>1, ScanAssumption DEF CpuIsBetter
  <2>3. CASE Score[c] > 0
    <3>1. \A i \in 1..position : Better(c, window[i]) /\ ~Better(window[i], c)
      <4> TAKE i \in 1..position
      <4>1. Score[window[i]] = 0 /\ Score[window[i]] < Score[c]
        BY <1>2, <2>1, <2>3
      <4>. QED  BY <1>2, <2>3, <4>1 DEF Better
    <3>2. ~Better(c, c)
      BY <1>1, BetterIsStrict
    <3>3. n \in 1..n /\ 1..(n - 1) = 1..position
      BY <1>1
    <3>4. FirstBest(window, n, n)
      BY <1>1, <3>1, <3>2, <3>3 DEF FirstBest, Scanned
    <3>5. cpu' = [candidate |-> n, score |-> Score[c],
                  covered |-> c[1], leaked |-> c[2]]
      BY <1>3, <2>2, <2>3
    <3>. QED  BY <1>1, <1>2, <3>4, <3>5 DEF CpuInv
  <2>4. CASE ~(Score[c] > 0)
    <3>1. Score[c] = 0 /\ c[1] = 0
      BY <1>1, <1>2, <2>4, ScanAssumption
    <3>2. cpu' = cpu
      BY <1>3, <2>2, <2>4
    <3>3. \A i \in 1..n : Score[window[i]] = 0 /\ window[i][1] = 0
      BY <1>1, <2>1, <3>1
    <3>. QED  BY <1>1, <1>4, <2>1, <3>2, <3>3 DEF CpuInv, Scanned
  <2>. QED  BY <2>3, <2>4
<1>5. CASE cpu.candidate # 0
  <2> DEFINE b == cpu.candidate
  <2>1. /\ FirstBest(window, position, b) /\ cpu.score = Score[window[b]]
        /\ <<cpu.covered, cpu.leaked>> = window[b]
    BY <1>0, <1>5 DEF CpuInv
  <2>2. window[b][1] = cpu.covered /\ window[b][2] = cpu.leaked
    BY <2>1
  <2>3. CpuIsBetter(c) <=> Better(c, window[b])
    BY <2>1, <2>2 DEF CpuIsBetter, Better
  <2>4. CASE Better(c, window[b])
    <3>1. FirstBest(window, n, n)
      BY <1>0, <1>1, <2>1, <2>4, StepFacts, NewFirstBest
    <3>2. cpu' = [candidate |-> n, score |-> Score[c],
                  covered |-> c[1], leaked |-> c[2]]
      BY <1>3, <2>3, <2>4
    <3>. QED  BY <1>1, <1>2, <3>1, <3>2 DEF CpuInv
  <2>5. CASE ~Better(c, window[b])
    <3>1. FirstBest(window, n, b)
      BY <1>1, <2>1, <2>5, SameFirstBest
    <3>2. cpu' = cpu
      BY <1>3, <2>3, <2>5
    <3>. QED  BY <1>1, <1>5, <2>1, <3>1, <3>2 DEF CpuInv
  <2>. QED  BY <2>4, <2>5
<1>. QED  BY <1>4, <1>5

LEMMA Inductive == IInv /\ [Next]_vars => IInv'
<1> SUFFICES ASSUME IInv, [Next]_vars PROVE IInv'
  OBVIOUS
<1>1. CASE Compare
  BY <1>1, StepType, StepGpu, StepCpu DEF IInv
<1>2. CASE UNCHANGED vars
  BY <1>2 DEF vars, IInv, TypeOK, GpuInv, CpuInv, FirstBest, Scanned
<1>. QED  BY <1>1, <1>2 DEF Next

\* The inductive invariant: what each scan holds is the first best so far.
THEOREM ScanInvariant == Spec => []IInv
BY InitInv, Inductive, PTL DEF Spec

\* For every target and every window the two bests keep their types, and the
\* shader holds a rank above zero exactly when it has a candidate.
THEOREM TypeCorrect == Spec => []TypeOK
<1>1. IInv => TypeOK
  BY DEF IInv
<1>. QED  BY <1>1, ScanInvariant, PTL

\* For every score function the shader finds the first best candidate.
THEOREM ShaderFindsFirstBest == Spec => []GpuFindsFirstBest
<1>1. IInv => GpuFindsFirstBest
  BY DEF IInv, GpuInv, GpuFindsFirstBest
<1>. QED  BY <1>1, ScanInvariant, PTL

\* For every score function, target and window CPU and shader agree.
THEOREM BackendsAgreeAlways == Spec => []BackendsAgree
<1>1. ASSUME IInv, position = Candidates
      PROVE  /\ cpu.candidate = gpu.candidate
             /\ cpu.candidate # 0
             /\ <<cpu.covered, cpu.leaked>> = <<gpu.covered, gpu.leaked>>
             /\ <<cpu.covered, cpu.leaked>> = window[cpu.candidate]
  <2>1. /\ position > 0 /\ position \in Nat /\ Scanned = 1..Candidates
        /\ window \in [1..Candidates -> Counts]
        /\ gpu.candidate \in Nat /\ cpu.candidate \in Nat
    BY <1>1, ScanAssumption DEF IInv, TypeOK, Scanned
  <2>2. PICK i \in 1..Candidates : window[i][1] > 0
    BY <1>1, ScanAssumption DEF IInv, TypeOK
  <2>3. cpu.candidate # 0
    BY <1>1, <2>1, <2>2 DEF IInv, CpuInv
  <2>4. FirstBest(window, position, cpu.candidate) /\ FirstBest(window, position, gpu.candidate)
    BY <1>1, <2>1, <2>3 DEF IInv, CpuInv, GpuInv
  <2>5. cpu.candidate = gpu.candidate
    BY <2>1, <2>4, FirstBestIsUnique
  <2>. QED  BY <1>1, <2>1, <2>3, <2>5 DEF IInv, CpuInv, GpuInv
<1>2. IInv => BackendsAgree
  BY <1>1 DEF BackendsAgree
<1>. QED  BY <1>2, ScanInvariant, PTL
-----------------------------------------------------------------------------
(* The settings of a run (RunSettings).                                    *)

\* The setup chosen at the start is one of the setups.
LEMMA SetupIsOne ==
    ASSUME setup \in DOMAIN SettingsSetups
    PROVE  /\ Settings!May \in Settings!SetupType
           /\ Settings!May.hosts \subseteq [cuda : BOOLEAN, wgpu : {"none", "other", "card"}]
<1>1. Settings!May \in Settings!SetupType
  BY SettingsAssumption DEF Settings!SettingsConstants, Settings!May
<1>. QED  BY <1>1 DEF Settings!SetupType

\* None is none of the values it stands beside.
LEMMA NoneIsNothing ==
    /\ None \notin {"cpu", "gpu", "cuda", "auto", "off", "on", "card", "eco", "balanced", "wgpu"}
    /\ None \notin Nat /\ None \notin BOOLEAN
    /\ None \notin Settings!SettingsType
    /\ None \notin [mode : Settings!Modes, snapshot : Settings!SettingsType \cup {None}]
    /\ None \notin (Settings!Backends \X Settings!GpuModes)
    /\ None \notin Settings!Pairs
    /\ AutoMin \in Nat
<1>1. Settings!Pairs \subseteq (Settings!Backends \X Settings!GpuModes)
  BY DEF Settings!Pairs, Settings!Backends, Settings!GpuModes
<1>. QED
  BY <1>1, SettingsAssumption
  DEF Settings!SettingsConstants, Settings!Backends, Settings!GpuModes, Settings!Devices,
      Settings!Profiles

\* What the preflight answers: the backend named, or one that the host has; the
\* search is started with exactly that, and with nothing else changed.
LEMMA PreflightAnswers ==
    ASSUME NEW settings \in Settings!SettingsType, NEW count, NEW limit \in Settings!Counts,
           <<settings.backend, settings.gpu>> \in Settings!Pairs,
           Settings!Preflight(settings, count) # None
    PROVE  LET backend == Settings!Preflight(settings, count)
               started == Settings!Execution([settings EXCEPT !.limit = limit], backend)
           IN  /\ started \in Settings!SettingsType
               /\ Settings!LegalOn(settings, host)
               /\ Settings!Resolves(started, backend, host)
               /\ started.keep = settings.keep /\ started.work = settings.work
               /\ started.profile = settings.profile /\ started.chunk = settings.chunk
               /\ settings.backend = "gpu" => backend = "wgpu"
               /\ settings.backend = "cuda" => backend = "cuda"
<1> DEFINE backend == Settings!Preflight(settings, count)
           bounded == [settings EXCEPT !.limit = limit]
           started == Settings!Execution(bounded, backend)
<1>1. settings.backend \in {"cpu", "gpu", "cuda", "auto"}
  BY DEF Settings!SettingsType, Settings!Backends
<1>2. /\ settings.backend = "cpu" => backend = "cpu"
      /\ settings.backend = "gpu" => backend = "wgpu" /\ Settings!WgpuEligible(settings.device)
      /\ settings.backend = "cuda" => backend = "cuda" /\ host.cuda
      /\ settings.backend = "auto" =>
            \/ backend = "cpu"
            \/ backend = "cuda" /\ host.cuda
            \/ backend = "wgpu" /\ Settings!WgpuEligible(settings.device)
  BY <1>1 DEF Settings!Preflight
<1>3. /\ bounded \in Settings!SettingsType
      /\ bounded.keep = settings.keep /\ bounded.work = settings.work
      /\ bounded.profile = settings.profile /\ bounded.chunk = settings.chunk
      /\ bounded.device = settings.device
  BY DEF Settings!SettingsType
<1>. HIDE DEF backend, bounded
<1>4. /\ backend = "cpu" =>
            started = [bounded EXCEPT !.backend = "cpu", !.gpu = "off", !.device = "auto"]
      /\ backend = "wgpu" => started = [bounded EXCEPT !.backend = "gpu", !.gpu = "on"]
      /\ backend = "cuda" => started = [bounded EXCEPT !.backend = "cuda", !.gpu = "on"]
  BY DEF Settings!Execution
<1>5. backend \in {"cpu", "wgpu", "cuda"}
  BY <1>1, <1>2
<1>. HIDE DEF started
<1>6. /\ started \in Settings!SettingsType
      /\ started.keep = bounded.keep /\ started.work = bounded.work
      /\ started.profile = bounded.profile /\ started.chunk = bounded.chunk
      /\ backend = "cpu" => started.backend = "cpu" /\ started.gpu = "off"
      /\ backend = "wgpu" => /\ started.backend = "gpu" /\ started.gpu = "on"
                             /\ started.device = bounded.device
      /\ backend = "cuda" => started.backend = "cuda" /\ started.gpu = "on"
  <2>1. CASE backend = "cpu"
    BY <1>3, <1>4, <2>1
    DEF Settings!SettingsType, Settings!Backends, Settings!GpuModes, Settings!Devices
  <2>2. CASE backend = "wgpu"
    BY <1>3, <1>4, <2>2
    DEF Settings!SettingsType, Settings!Backends, Settings!GpuModes, Settings!Devices
  <2>3. CASE backend = "cuda"
    BY <1>3, <1>4, <2>3
    DEF Settings!SettingsType, Settings!Backends, Settings!GpuModes, Settings!Devices
  <2>. QED  BY <1>5, <2>1, <2>2, <2>3
<1>7. Settings!LegalOn(settings, host)
  BY <1>2 DEF Settings!LegalOn, Settings!WgpuEligible
<1>8. Settings!LegalOn(started, host)
  BY <1>1, <1>2, <1>3, <1>5, <1>6 DEF Settings!LegalOn, Settings!WgpuEligible, Settings!Pairs
<1>9. Settings!Resolves(started, backend, host)
  BY <1>5, <1>6, <1>8 DEF Settings!Resolves
<1>10. /\ started.keep = settings.keep /\ started.work = settings.work
       /\ started.profile = settings.profile /\ started.chunk = settings.chunk
  BY <1>3, <1>6
<1>11. /\ settings.backend = "gpu" => backend = "wgpu"
       /\ settings.backend = "cuda" => backend = "cuda"
  BY <1>2
<1>. QED  BY <1>6, <1>7, <1>9, <1>10, <1>11 DEF started, backend, bounded

\* A legal pair is refused only where the host lacks what it names.
LEMMA LegalIsAnswered ==
    ASSUME NEW settings \in Settings!SettingsType, NEW count,
           Settings!LegalOn(settings, host)
    PROVE  Settings!Preflight(settings, count) # None
BY NoneIsNothing
DEF Settings!LegalOn, Settings!Preflight, Settings!WgpuEligible, Settings!SettingsType,
    Settings!Backends

\* Merging the options of a resume keeps the type, and what is not given.
LEMMA MergedIsTyped ==
    ASSUME NEW base \in Settings!SettingsType,
           NEW selection \in [backend : Settings!Backends \cup {None},
                              gpu : Settings!GpuModes \cup {None},
                              device : Settings!Devices \cup {None}],
           NEW options \in [profile : Settings!Profiles \cup {None}, chunk : Settings!Counts,
                            work : Settings!Counts, limit : Settings!Counts,
                            keep : BOOLEAN \cup {None}],
           Settings!MergedPair(base, selection) # None
    PROVE  LET merged == Settings!Merged(base, selection, options)
               pair == Settings!MergedPair(base, selection)
           IN  /\ pair \in Settings!Pairs
               /\ merged \in Settings!SettingsType
               /\ merged.backend = pair[1] /\ merged.gpu = pair[2]
               /\ merged.device = IF pair[1] = "cpu" THEN "auto"
                                  ELSE Settings!Given(selection.device, base.device)
               /\ merged.profile = Settings!Given(options.profile, base.profile)
               /\ merged.chunk = Settings!Given(options.chunk, base.chunk)
               /\ merged.work = Settings!Given(options.work, base.work)
               /\ merged.keep = Settings!Given(options.keep, base.keep)
<1> DEFINE pair == Settings!MergedPair(base, selection)
           merged == Settings!Merged(base, selection, options)
           device == IF pair[1] = "cpu" THEN "auto"
                     ELSE Settings!Given(selection.device, base.device)
<1>1. pair \in Settings!Pairs
  BY DEF Settings!MergedPair
<1>2. /\ pair[1] \in Settings!Backends /\ pair[2] \in Settings!GpuModes
  BY <1>1 DEF Settings!Pairs, Settings!Backends, Settings!GpuModes
<1>3. /\ device \in Settings!Devices
      /\ Settings!Given(options.profile, base.profile) \in Settings!Profiles
      /\ Settings!Given(options.chunk, base.chunk) \in Nat
      /\ Settings!Given(options.work, base.work) \in Settings!Counts
      /\ Settings!Given(options.limit, base.limit) \in Settings!Counts
      /\ Settings!Given(options.keep, base.keep) \in BOOLEAN
  BY DEF Settings!Given, Settings!SettingsType, Settings!Counts, Settings!Devices
<1>4. merged = [base EXCEPT !.backend = pair[1], !.gpu = pair[2], !.device = device,
                            !.profile = Settings!Given(options.profile, base.profile),
                            !.chunk = Settings!Given(options.chunk, base.chunk),
                            !.work = Settings!Given(options.work, base.work),
                            !.limit = Settings!Given(options.limit, base.limit),
                            !.keep = Settings!Given(options.keep, base.keep)]
  BY DEF Settings!Merged, Settings!SettingsType
<1>. HIDE DEF pair, merged, device
<1>5. /\ merged \in Settings!SettingsType
      /\ merged.backend = pair[1] /\ merged.gpu = pair[2] /\ merged.device = device
      /\ merged.profile = Settings!Given(options.profile, base.profile)
      /\ merged.chunk = Settings!Given(options.chunk, base.chunk)
      /\ merged.work = Settings!Given(options.work, base.work)
      /\ merged.keep = Settings!Given(options.keep, base.keep)
  BY <1>2, <1>3, <1>4 DEF Settings!SettingsType
<1>. QED  BY <1>1, <1>5 DEF pair, merged, device

\* However a search is prepared, by a start or by a resume, the invariant holds
\* of what is stored and of what the search is started with.
LEMMA PreparedIsSound ==
    ASSUME Settings!SettingsInv, phase = "idle",
           NEW mode \in Settings!Modes,
           NEW settings \in Settings!SettingsType, NEW count,
           NEW snapshot \in Settings!SettingsType \cup {None},
           <<settings.backend, settings.gpu>> \in Settings!Pairs,
           Settings!Preflight(settings, count) # None,
           Settings!Prepare(mode, snapshot, settings, Settings!Preflight(settings, count)),
           snapshot # None =>
               /\ snapshot.backend = settings.backend /\ snapshot.gpu = settings.gpu
               /\ snapshot.device = settings.device /\ snapshot.profile = settings.profile
               /\ snapshot.chunk = settings.chunk /\ snapshot.work = settings.work
               /\ snapshot.keep = settings.keep,
           chosen' \in Settings!SettingsType,
           keys' \in BOOLEAN, defaulted' \in BOOLEAN, emptied' \in BOOLEAN,
           ~emptied' => settings.chunk > 0,
           ~defaulted' =>
               /\ settings.keep = chosen'.keep /\ settings.work = chosen'.work
               /\ "p" \notin Settings!May.keys => settings.profile = chosen'.profile
    PROVE  Settings!SettingsInv'
<1> DEFINE backend == Settings!Preflight(settings, count)
           limit == Settings!CountBound(settings.work, settings.limit)
           started == Settings!Execution([settings EXCEPT !.limit = limit], backend)
<1>1. /\ setup' = setup /\ host' = host /\ engine' = engine
      /\ run' = [mode |-> mode, snapshot |-> snapshot]
      /\ live' = started /\ resolved' = backend /\ phase' = "prepared" /\ probed' = host
      /\ answer' = "ok" /\ toggled' = FALSE
  BY DEF Settings!Prepare
<1>2. Settings!May' = Settings!May
  BY <1>1 DEF Settings!May
<1>3. limit \in Settings!Counts
  BY DEF Settings!CountBound, Settings!SettingsType, Settings!Counts
<1>4. /\ started \in Settings!SettingsType
      /\ Settings!LegalOn(settings, host)
      /\ Settings!Resolves(started, backend, host)
      /\ started.keep = settings.keep /\ started.work = settings.work
      /\ started.profile = settings.profile /\ started.chunk = settings.chunk
      /\ settings.backend = "gpu" => backend = "wgpu"
      /\ settings.backend = "cuda" => backend = "cuda"
  BY <1>3, PreflightAnswers
<1>. HIDE DEF backend, limit, started
<1>5. started # None /\ run' # None
  BY <1>1, <1>4, NoneIsNothing
<1>6. run'.mode = mode /\ run'.snapshot = snapshot
  BY <1>1
<1>7. Settings!TypesInv'
  <2>1. backend \in {None, "cpu", "wgpu", "cuda"}
    BY <1>4 DEF Settings!Resolves
  <2>2. run' \in [mode : Settings!Modes, snapshot : Settings!SettingsType \cup {None}]
    BY <1>1
  <2>. QED
    BY <1>1, <1>2, <1>4, <2>1, <2>2 DEF Settings!SettingsInv, Settings!TypesInv
<1>8. Settings!PhaseInv'
  BY <1>1, <1>5 DEF Settings!SettingsInv, Settings!PhaseInv
<1>9. Settings!StoredInv'
  <2> SUFFICES ASSUME snapshot # None
               PROVE  /\ Settings!LegalOn(snapshot, host)
                      /\ ~emptied' => snapshot.chunk > 0
                      /\ ~defaulted' =>
                           /\ snapshot.keep = chosen'.keep /\ snapshot.work = chosen'.work
                           /\ "p" \notin Settings!May.keys => snapshot.profile = chosen'.profile
    BY <1>1, <1>2, <1>6 DEF Settings!StoredInv, Settings!KeepsChoices
  <2>1. Settings!LegalOn(snapshot, host)
    BY <1>4 DEF Settings!LegalOn
  <2>. QED  BY <2>1
<1>10. Settings!LiveInv'
  <2>1. /\ Settings!LegalOn(started, host)
        /\ ~emptied' => started.chunk > 0
        /\ ~defaulted' =>
             /\ started.keep = chosen'.keep /\ started.work = chosen'.work
             /\ "p" \notin Settings!May.keys => started.profile = chosen'.profile
    BY <1>4 DEF Settings!Resolves
  <2>. QED
    BY <1>1, <1>2, <1>4, <2>1 DEF Settings!LiveInv, Settings!KeepsChoices
<1>11. Settings!StrictIsStrict'
  BY <1>1, <1>4, <1>6 DEF Settings!StrictIsStrict
<1>12. Settings!EngineIsTheResolved'
  BY <1>1 DEF Settings!EngineIsTheResolved
<1>. QED
  BY <1>7, <1>8, <1>9, <1>10, <1>11, <1>12 DEF Settings!SettingsInv

\* A request that is refused changes nothing but the answer.
LEMMA RefuseSound ==
    ASSUME Settings!SettingsInv, Settings!Refuse
    PROVE  Settings!SettingsInv'
BY DEF Settings!Refuse, Settings!SettingsInv, Settings!TypesInv, Settings!PhaseInv,
       Settings!StoredInv, Settings!LiveInv, Settings!StrictIsStrict,
       Settings!EngineIsTheResolved, Settings!WgpuEligible, Settings!KeepsChoices,
       Settings!May, Settings!history

\* A start from the command line.
LEMMA StartCliSound ==
    ASSUME Settings!SettingsInv, NEW mode \in Settings!Modes, NEW infinite \in BOOLEAN,
           NEW selection \in Settings!May.startSelections,
           NEW options \in Settings!May.startOptions,
           Settings!StartCli(selection, options, infinite, mode)
    PROVE  Settings!SettingsInv'
<1> DEFINE pair == Settings!StartPair(selection.backend, selection.gpu)
           settings == [backend |-> pair[1], gpu |-> pair[2], device |-> selection.device,
                        profile |-> options.profile, chunk |-> 1, work |-> options.work,
                        limit |-> options.limit, keep |-> options.keep]
           asked == [settings EXCEPT !.limit = IF infinite THEN None ELSE @]
           count == Settings!CountBound(asked.work, asked.limit)
           backend == Settings!Preflight(asked, count)
<1>1. /\ run = None
      /\ IF pair # None /\ Settings!DeviceFits(pair, selection.device) /\ backend # None
         THEN /\ Settings!Prepare(mode, settings, asked, backend)
              /\ chosen' = asked
              /\ keys' = FALSE
              /\ UNCHANGED Settings!history
         ELSE Settings!Refuse
  BY DEF Settings!StartCli
<1>2. /\ selection \in [backend : Settings!Backends, gpu : Settings!GpuModes,
                        device : Settings!Devices]
      /\ options \in [profile : Settings!Profiles, work : Settings!Counts,
                      limit : Settings!Counts, keep : BOOLEAN]
  BY SetupIsOne DEF Settings!SettingsInv, Settings!TypesInv, Settings!SetupType
<1>3. pair # None => pair \in Settings!Pairs
  BY DEF Settings!StartPair, Settings!Pairs
<1>4. CASE pair # None /\ Settings!DeviceFits(pair, selection.device) /\ backend # None
  <2>1. pair[1] \in Settings!Backends /\ pair[2] \in Settings!GpuModes /\ pair = <<pair[1], pair[2]>>
    BY <1>3, <1>4 DEF Settings!Pairs, Settings!Backends, Settings!GpuModes
  <2>. HIDE DEF pair
  <2>2. settings \in Settings!SettingsType /\ asked \in Settings!SettingsType
    BY <1>2, <2>1 DEF Settings!SettingsType, Settings!Counts
  <2>3. /\ asked.backend = settings.backend /\ asked.gpu = settings.gpu
        /\ asked.device = settings.device /\ asked.profile = settings.profile
        /\ asked.chunk = settings.chunk /\ asked.work = settings.work
        /\ asked.keep = settings.keep /\ asked.chunk = 1
    OBVIOUS
  <2>4. <<asked.backend, asked.gpu>> \in Settings!Pairs
    BY <1>3, <1>4, <2>1
  <2>5. phase = "idle"
    BY <1>1 DEF Settings!SettingsInv, Settings!PhaseInv
  <2>6. defaulted' = defaulted /\ emptied' = emptied /\ defaulted \in BOOLEAN /\ emptied \in BOOLEAN
    BY <1>1, <1>4, NoneIsNothing
    DEF Settings!history, Settings!SettingsInv, Settings!TypesInv
  <2>7. /\ Settings!Prepare(mode, settings, asked, backend) /\ chosen' = asked /\ keys' \in BOOLEAN
    BY <1>1, <1>4
  <2>8. /\ asked.chunk > 0 /\ chosen' \in Settings!SettingsType
        /\ asked.keep = chosen'.keep /\ asked.work = chosen'.work
        /\ asked.profile = chosen'.profile
    BY <2>2, <2>3, <2>7
  <2>. HIDE DEF settings, asked, count
  <2>. QED
    BY <1>4, <2>2, <2>3, <2>4, <2>5, <2>6, <2>7, <2>8, PreparedIsSound
<1>5. CASE ~(pair # None /\ Settings!DeviceFits(pair, selection.device) /\ backend # None)
  BY <1>1, <1>5, RefuseSound
<1>. QED  BY <1>4, <1>5

\* A start in the wizard of the interface.
LEMMA StartTuiSound ==
    ASSUME Settings!SettingsInv, NEW mode \in Settings!Modes,
           NEW level \in Settings!May.wizardModes, NEW options \in Settings!May.startOptions,
           Settings!StartTui(level, options, mode)
    PROVE  Settings!SettingsInv'
<1> DEFINE named == IF level = "off" THEN "cpu" ELSE IF level = "on" THEN "gpu" ELSE "auto"
           settings == [backend |-> named, gpu |-> level, device |-> "auto",
                        profile |-> options.profile, chunk |-> 1, work |-> None,
                        limit |-> options.limit, keep |-> options.keep]
           backend == Settings!Preflight(settings, options.limit)
<1>1. /\ run = None
      /\ IF backend # None
         THEN /\ Settings!Prepare(mode, None, settings, backend)
              /\ chosen' = settings
              /\ keys' = TRUE
              /\ UNCHANGED Settings!history
         ELSE Settings!Refuse
  BY DEF Settings!StartTui
<1>2. /\ level \in Settings!GpuModes
      /\ options \in [profile : Settings!Profiles, work : Settings!Counts,
                      limit : Settings!Counts, keep : BOOLEAN]
  BY SetupIsOne DEF Settings!SettingsInv, Settings!TypesInv, Settings!SetupType
<1>3. settings \in Settings!SettingsType /\ <<settings.backend, settings.gpu>> \in Settings!Pairs
  BY <1>2
  DEF Settings!SettingsType, Settings!Pairs, Settings!Counts, Settings!Backends,
      Settings!GpuModes, Settings!Devices
<1>4. CASE backend # None
  <2>1. phase = "idle"
    BY <1>1 DEF Settings!SettingsInv, Settings!PhaseInv
  <2>2. defaulted' = defaulted /\ emptied' = emptied /\ defaulted \in BOOLEAN /\ emptied \in BOOLEAN
    BY <1>1, <1>4 DEF Settings!history, Settings!SettingsInv, Settings!TypesInv
  <2>3. /\ Settings!Prepare(mode, None, settings, backend) /\ chosen' = settings /\ keys' \in BOOLEAN
    BY <1>1, <1>4
  <2>4. settings.chunk > 0
    OBVIOUS
  <2>. HIDE DEF settings
  <2>. QED
    BY <1>3, <1>4, <2>1, <2>2, <2>3, <2>4, PreparedIsSound
<1>5. CASE backend = None
  BY <1>1, <1>5, RefuseSound
<1>. QED  BY <1>4, <1>5

\* What a resume starts from is typed, and has a chunk unless one was emptied.
LEMMA BaseIsTyped ==
    ASSUME Settings!SettingsInv, run # None,
           NEW selection \in [backend : Settings!Backends \cup {None},
                              gpu : Settings!GpuModes \cup {None},
                              device : Settings!Devices \cup {None}],
           NEW options \in [profile : Settings!Profiles \cup {None}, chunk : Settings!Counts,
                            work : Settings!Counts, limit : Settings!Counts,
                            keep : BOOLEAN \cup {None}]
    PROVE  /\ Settings!ResumeBase(selection, options) \in Settings!SettingsType
           /\ ~emptied => Settings!ResumeBase(selection, options).chunk > 0
           /\ run.snapshot # None => Settings!ResumeBase(selection, options) = run.snapshot
<1>1. CASE run.snapshot # None
  BY <1>1, NoneIsNothing
  DEF Settings!ResumeBase, Settings!SettingsInv, Settings!TypesInv, Settings!StoredInv
<1>2. CASE run.snapshot = None
  <2>1. Settings!ResumeBase(selection, options) =
          [backend |-> Settings!Given(selection.backend, "auto"),
           gpu |-> Settings!Given(selection.gpu, "auto"),
           device |-> Settings!Given(selection.device, "auto"),
           profile |-> Settings!Given(options.profile, "balanced"),
           chunk |-> 1, work |-> None, limit |-> None, keep |-> FALSE]
    BY <1>2 DEF Settings!ResumeBase
  <2>2. /\ Settings!Given(selection.backend, "auto") \in Settings!Backends
        /\ Settings!Given(selection.gpu, "auto") \in Settings!GpuModes
        /\ Settings!Given(selection.device, "auto") \in Settings!Devices
        /\ Settings!Given(options.profile, "balanced") \in Settings!Profiles
    BY DEF Settings!Given, Settings!Backends, Settings!GpuModes, Settings!Devices,
           Settings!Profiles
  <2>. QED
    BY <1>2, <2>1, <2>2 DEF Settings!SettingsType, Settings!Counts
<1>. QED  BY <1>1, <1>2

\* A resume, with whatever options.
LEMMA ResumeSound ==
    ASSUME Settings!SettingsInv, NEW tui \in BOOLEAN,
           NEW selection \in [backend : Settings!Backends \cup {None},
                              gpu : Settings!GpuModes \cup {None},
                              device : Settings!Devices \cup {None}],
           NEW options \in [profile : Settings!Profiles \cup {None}, chunk : Settings!Counts,
                            work : Settings!Counts, limit : Settings!Counts,
                            keep : BOOLEAN \cup {None}],
           Settings!Resume(selection, options, tui)
    PROVE  Settings!SettingsInv'
<1> DEFINE base == Settings!ResumeBase(selection, options)
           merged == Settings!Merged(base, selection, options)
           count == Settings!CountBound(merged.work, merged.limit)
           backend == Settings!Preflight(merged, count)
           pair == Settings!MergedPair(base, selection)
<1>1. /\ run # None
      /\ phase = "idle"
      /\ IF Settings!Accepted(selection, options)
         THEN /\ Settings!Prepare(run.mode, merged, merged, backend)
              /\ chosen' =
                   [chosen EXCEPT !.profile = Settings!Given(options.profile, @),
                                  !.work = Settings!Given(options.work, @),
                                  !.limit = Settings!Given(options.limit, @),
                                  !.keep = Settings!Given(options.keep, @)]
              /\ keys' = tui
              /\ defaulted' = (defaulted \/ run.snapshot = None)
              /\ emptied' = (emptied \/ options.chunk = 0)
         ELSE Settings!Refuse
  BY DEF Settings!Resume
<1>2. CASE Settings!Accepted(selection, options)
  <2>1. /\ base \in Settings!SettingsType
        /\ ~emptied => base.chunk > 0
        /\ run.snapshot # None => base = run.snapshot
    BY <1>1, BaseIsTyped
  <2>2. pair # None /\ backend # None
    BY <1>2 DEF Settings!Accepted
  <2>. HIDE DEF base
  <2>3. /\ pair \in Settings!Pairs
        /\ merged \in Settings!SettingsType
        /\ merged.backend = pair[1] /\ merged.gpu = pair[2]
        /\ merged.profile = Settings!Given(options.profile, base.profile)
        /\ merged.chunk = Settings!Given(options.chunk, base.chunk)
        /\ merged.work = Settings!Given(options.work, base.work)
        /\ merged.keep = Settings!Given(options.keep, base.keep)
    BY <2>1, <2>2, MergedIsTyped
  <2>4. <<merged.backend, merged.gpu>> \in Settings!Pairs
    BY <2>3 DEF Settings!Pairs
  <2>. HIDE DEF pair, merged, count
  <2>5. chosen \in Settings!SettingsType
    BY <1>1 DEF Settings!SettingsInv, Settings!TypesInv
  <2>6. /\ Settings!Given(options.profile, chosen.profile) \in Settings!Profiles
        /\ Settings!Given(options.work, chosen.work) \in Settings!Counts
        /\ Settings!Given(options.limit, chosen.limit) \in Settings!Counts
        /\ Settings!Given(options.keep, chosen.keep) \in BOOLEAN
    BY <2>5 DEF Settings!Given, Settings!SettingsType, Settings!Counts
  <2>7. /\ chosen' \in Settings!SettingsType
        /\ chosen'.profile = Settings!Given(options.profile, chosen.profile)
        /\ chosen'.work = Settings!Given(options.work, chosen.work)
        /\ chosen'.keep = Settings!Given(options.keep, chosen.keep)
    BY <1>1, <1>2, <2>5, <2>6 DEF Settings!SettingsType
  <2>8. ~emptied' => merged.chunk > 0
    <3>1. merged.chunk \in Nat /\ options.chunk \in Nat \cup {None}
      BY <2>3 DEF Settings!SettingsType, Settings!Counts
    <3>2. ~emptied' => ~emptied /\ options.chunk # 0
      BY <1>1, <1>2
    <3>3. ~emptied' => Settings!Given(options.chunk, base.chunk) > 0
      BY <2>1, <3>1, <3>2 DEF Settings!Given
    <3>. QED  BY <2>3, <3>3
  <2>9. ~defaulted' =>
          /\ merged.keep = chosen'.keep /\ merged.work = chosen'.work
          /\ "p" \notin Settings!May.keys => merged.profile = chosen'.profile
    <3> SUFFICES ASSUME ~defaulted'
                 PROVE  /\ merged.keep = chosen'.keep /\ merged.work = chosen'.work
                        /\ "p" \notin Settings!May.keys => merged.profile = chosen'.profile
      OBVIOUS
    <3>1. ~defaulted /\ run.snapshot # None
      BY <1>1, <1>2
    <3>2. /\ base.keep = chosen.keep /\ base.work = chosen.work
          /\ "p" \notin Settings!May.keys => base.profile = chosen.profile
      BY <1>1, <2>1, <3>1
      DEF Settings!SettingsInv, Settings!StoredInv, Settings!KeepsChoices
    <3>. QED  BY <2>3, <2>7, <3>2
  <2>10. /\ defaulted' \in BOOLEAN /\ emptied' \in BOOLEAN /\ keys' \in BOOLEAN
         /\ run.mode \in Settings!Modes
    BY <1>1, <1>2 DEF Settings!SettingsInv, Settings!TypesInv
  <2>11. Settings!Prepare(run.mode, merged, merged, backend)
    BY <1>1, <1>2
  <2>. QED
    BY <1>1, <2>2, <2>3, <2>4, <2>7, <2>8, <2>9, <2>10, <2>11, PreparedIsSound
<1>3. CASE ~Settings!Accepted(selection, options)
  BY <1>1, <1>3, RefuseSound
<1>. QED  BY <1>2, <1>3

\* The other steps: the search is launched, works, and ends.
LEMMA LaunchSound ==
    ASSUME Settings!SettingsInv, Settings!Launch \/ Settings!LaunchFails
    PROVE  Settings!SettingsInv'
<1> USE DEF Settings!history
<1>0. Settings!May' = Settings!May
  BY DEF Settings!May, Settings!Launch, Settings!LaunchFails
<1>1. CASE Settings!Launch
  <2>1. /\ phase = "prepared" /\ phase' = "running" /\ live # None
        /\ engine' = Settings!EngineFor(live, run.mode) /\ engine' # None
        /\ host' = host /\ probed' = probed /\ run' = run /\ live' = live /\ resolved' = resolved
        /\ toggled' = toggled /\ defaulted' = defaulted /\ emptied' = emptied /\ chosen' = chosen
        /\ setup' = setup /\ keys' = keys /\ answer' = answer
    BY <1>1 DEF Settings!Launch, Settings!SettingsInv, Settings!PhaseInv
  <2>2. engine' \in {None, "cpu", "wgpu", "cuda"}
    BY <2>1 DEF Settings!EngineFor
  <2>3. Settings!Resolves(live, resolved, probed)
    BY <2>1 DEF Settings!SettingsInv, Settings!LiveInv
  <2>4. Settings!EngineIsTheResolved'
    BY <2>1, <2>3
    DEF Settings!EngineIsTheResolved, Settings!EngineFor, Settings!Resolves, Settings!LegalOn,
        Settings!WgpuEligible
  <2>5. Settings!TypesInv' /\ Settings!PhaseInv'
    BY <1>0, <2>1, <2>2
    DEF Settings!SettingsInv, Settings!TypesInv, Settings!PhaseInv
  <2>6. Settings!StoredInv' /\ Settings!LiveInv' /\ Settings!StrictIsStrict'
    BY <1>0, <2>1
    DEF Settings!SettingsInv, Settings!StoredInv, Settings!LiveInv, Settings!StrictIsStrict,
        Settings!KeepsChoices
  <2>. QED  BY <2>4, <2>5, <2>6 DEF Settings!SettingsInv
<1>2. CASE Settings!LaunchFails
  BY <1>0, <1>2
  DEF Settings!LaunchFails, Settings!SettingsInv, Settings!TypesInv, Settings!PhaseInv,
      Settings!StoredInv, Settings!LiveInv, Settings!StrictIsStrict,
      Settings!EngineIsTheResolved, Settings!KeepsChoices
<1>. QED  BY <1>1, <1>2

LEMMA CheckpointSound ==
    ASSUME Settings!SettingsInv, Settings!Checkpoint
    PROVE  Settings!SettingsInv'
<1>1. /\ phase = "running" /\ run' = [run EXCEPT !.snapshot = live]
      /\ UNCHANGED <<setup, host, probed, phase, live, resolved, engine, keys, answer, chosen,
                     toggled, defaulted, emptied>>
  BY DEF Settings!Checkpoint, Settings!history
<1>2. /\ run \in [mode : Settings!Modes, snapshot : Settings!SettingsType \cup {None}]
      /\ live \in Settings!SettingsType
  BY <1>1 DEF Settings!SettingsInv, Settings!TypesInv, Settings!PhaseInv
<1>3. /\ run' \in [mode : Settings!Modes, snapshot : Settings!SettingsType \cup {None}]
      /\ run'.snapshot = live /\ run'.mode = run.mode /\ run' # None /\ run # None /\ live # None
  BY <1>1, <1>2, NoneIsNothing
<1>4. Settings!TypesInv' /\ Settings!PhaseInv'
  BY <1>1, <1>3
  DEF Settings!SettingsInv, Settings!TypesInv, Settings!PhaseInv, Settings!May
<1>5. Settings!StoredInv' /\ Settings!LiveInv'
  BY <1>1, <1>3
  DEF Settings!SettingsInv, Settings!StoredInv, Settings!LiveInv, Settings!KeepsChoices,
      Settings!May
<1>6. Settings!StrictIsStrict' /\ Settings!EngineIsTheResolved'
  BY <1>1, <1>3
  DEF Settings!SettingsInv, Settings!StrictIsStrict, Settings!EngineIsTheResolved,
      Settings!WgpuEligible
<1>. QED  BY <1>4, <1>5, <1>6 DEF Settings!SettingsInv

\* The keys of the dashboard: only the g key leaves a pair that is not legal.
LEMMA KeysSound ==
    ASSUME Settings!SettingsInv,
           Settings!ToggleGpu \/ \E profile \in Settings!Profiles : Settings!SetProfile(profile)
    PROVE  Settings!SettingsInv'
<1>1. /\ phase = "running"
      /\ UNCHANGED <<setup, host, probed, run, phase, resolved, engine, keys, answer,
                     defaulted, emptied>>
  BY DEF Settings!ToggleGpu, Settings!SetProfile, Settings!history
<1>2. /\ live \in Settings!SettingsType /\ live # None /\ run # None
      /\ chosen \in Settings!SettingsType
  BY <1>1, NoneIsNothing DEF Settings!SettingsInv, Settings!TypesInv, Settings!PhaseInv
<1>3. Settings!May' = Settings!May
  BY <1>1 DEF Settings!May
<1>4. Settings!StrictIsStrict'
      /\ (live'.device = live.device => Settings!EngineIsTheResolved')
  BY <1>1 DEF Settings!SettingsInv, Settings!StrictIsStrict, Settings!EngineIsTheResolved,
              Settings!WgpuEligible
<1>5. CASE Settings!ToggleGpu
  <2>1. /\ toggled' = TRUE /\ chosen' = chosen
        /\ live' = [live EXCEPT !.gpu = CASE @ = "off" -> "auto" [] @ = "auto" -> "on"
                                          [] @ = "on" -> "off"]
    BY <1>5 DEF Settings!ToggleGpu
  <2>2. /\ live' \in Settings!SettingsType /\ live' # None
        /\ live'.keep = live.keep /\ live'.work = live.work /\ live'.profile = live.profile
        /\ live'.chunk = live.chunk /\ live'.device = live.device
    BY <1>2, <2>1, NoneIsNothing DEF Settings!SettingsType, Settings!GpuModes
  <2>3. Settings!TypesInv' /\ Settings!PhaseInv'
    BY <1>1, <1>2, <1>3, <2>1, <2>2
    DEF Settings!SettingsInv, Settings!TypesInv, Settings!PhaseInv
  <2>4. Settings!StoredInv' /\ Settings!LiveInv'
    BY <1>1, <1>2, <1>3, <2>1, <2>2
    DEF Settings!SettingsInv, Settings!StoredInv, Settings!LiveInv, Settings!KeepsChoices
  <2>. QED  BY <1>4, <2>2, <2>3, <2>4 DEF Settings!SettingsInv
<1>6. CASE \E profile \in Settings!Profiles : Settings!SetProfile(profile)
  <2>1. PICK profile \in Settings!Profiles : Settings!SetProfile(profile)
    BY <1>6
  <2>2. /\ toggled' = toggled /\ "p" \in Settings!May.keys
        /\ live' = [live EXCEPT !.profile = profile]
        /\ chosen' = [chosen EXCEPT !.profile = profile]
    BY <2>1 DEF Settings!SetProfile
  <2>3. /\ live' \in Settings!SettingsType /\ live' # None /\ chosen' \in Settings!SettingsType
        /\ live'.keep = live.keep /\ live'.work = live.work /\ live'.chunk = live.chunk
        /\ live'.backend = live.backend /\ live'.gpu = live.gpu /\ live'.device = live.device
        /\ chosen'.keep = chosen.keep /\ chosen'.work = chosen.work
    BY <1>2, <2>2, NoneIsNothing DEF Settings!SettingsType
  <2>4. Settings!TypesInv' /\ Settings!PhaseInv'
    BY <1>1, <1>2, <1>3, <2>2, <2>3
    DEF Settings!SettingsInv, Settings!TypesInv, Settings!PhaseInv
  <2>5. Settings!StoredInv' /\ Settings!LiveInv'
    BY <1>1, <1>2, <1>3, <2>2, <2>3
    DEF Settings!SettingsInv, Settings!StoredInv, Settings!LiveInv, Settings!KeepsChoices,
        Settings!LegalOn
  <2>. QED  BY <1>4, <2>3, <2>4, <2>5 DEF Settings!SettingsInv
<1>. QED  BY <1>5, <1>6

LEMMA EndSound ==
    ASSUME Settings!SettingsInv, Settings!End \/ Settings!HostChanges
    PROVE  Settings!SettingsInv'
BY DEF Settings!End, Settings!HostChanges, Settings!SettingsInv, Settings!TypesInv,
       Settings!PhaseInv, Settings!StoredInv, Settings!LiveInv, Settings!StrictIsStrict,
       Settings!EngineIsTheResolved, Settings!WgpuEligible, Settings!KeepsChoices,
       Settings!May, Settings!history

LEMMA SettingsInitSound == Settings!Init => Settings!SettingsInv
BY DEF Settings!Init, Settings!SettingsInv, Settings!TypesInv, Settings!PhaseInv,
       Settings!StoredInv, Settings!LiveInv, Settings!StrictIsStrict,
       Settings!EngineIsTheResolved, Settings!May

LEMMA NoOptionsTyped ==
    /\ Settings!NoSelection \in [backend : Settings!Backends \cup {None},
                                 gpu : Settings!GpuModes \cup {None},
                                 device : Settings!Devices \cup {None}]
    /\ Settings!NoOptions \in [profile : Settings!Profiles \cup {None}, chunk : Settings!Counts,
                               work : Settings!Counts, limit : Settings!Counts,
                               keep : BOOLEAN \cup {None}]
BY DEF Settings!NoSelection, Settings!NoOptions, Settings!Counts

LEMMA SettingsStepSound ==
    Settings!SettingsInv /\ [Settings!Next]_(Settings!vars) => Settings!SettingsInv'
<1> SUFFICES ASSUME Settings!SettingsInv, [Settings!Next]_(Settings!vars)
             PROVE  Settings!SettingsInv'
  OBVIOUS
<1>0. Settings!May \in Settings!SetupType
  BY SetupIsOne DEF Settings!SettingsInv, Settings!TypesInv
<1>1. CASE \E selection \in Settings!May.startSelections,
              options \in Settings!May.startOptions, mode \in Settings!Modes,
              infinite \in BOOLEAN : Settings!StartCli(selection, options, infinite, mode)
  BY <1>1, StartCliSound
<1>2. CASE \E level \in Settings!May.wizardModes, options \in Settings!May.startOptions,
              mode \in Settings!Modes : Settings!StartTui(level, options, mode)
  BY <1>2, StartTuiSound
<1>3. CASE \E selection \in Settings!May.resumeSelections,
              options \in Settings!May.resumeOptions : Settings!ResumeCli(selection, options)
  BY <1>0, <1>3, ResumeSound DEF Settings!ResumeCli, Settings!SetupType
<1>4. CASE Settings!ResumeTui
  BY <1>4, NoOptionsTyped, ResumeSound DEF Settings!ResumeTui
<1>5. CASE UNCHANGED Settings!vars
  BY <1>5
  DEF Settings!vars, Settings!SettingsInv, Settings!TypesInv, Settings!PhaseInv,
      Settings!StoredInv, Settings!LiveInv, Settings!StrictIsStrict,
      Settings!EngineIsTheResolved, Settings!WgpuEligible, Settings!KeepsChoices, Settings!May
<1>. QED
  BY <1>1, <1>2, <1>3, <1>4, <1>5, LaunchSound, CheckpointSound, KeysSound, EndSound
  DEF Settings!Next

\* A resume without options leaves settings as they are stored, but for the
\* device, which a CPU run has none of.
LEMMA SettingsResume ==
    ASSUME Settings!SettingsInv
    PROVE  Settings!RunsResume
<1>0. /\ Settings!NoSelection \in [backend : Settings!Backends \cup {None},
                                   gpu : Settings!GpuModes \cup {None},
                                   device : Settings!Devices \cup {None}]
      /\ Settings!NoOptions \in [profile : Settings!Profiles \cup {None}, chunk : Settings!Counts,
                                 work : Settings!Counts, limit : Settings!Counts,
                                 keep : BOOLEAN \cup {None}]
  BY NoOptionsTyped
<1>1. ASSUME run # None, ~emptied, host = probed \/ run.snapshot = None, ~toggled
      PROVE  Settings!Accepted(Settings!NoSelection, Settings!NoOptions)
  <2> DEFINE base == Settings!ResumeBase(Settings!NoSelection, Settings!NoOptions)
             merged == Settings!Merged(base, Settings!NoSelection, Settings!NoOptions)
             pair == Settings!MergedPair(base, Settings!NoSelection)
  <2>1. /\ base \in Settings!SettingsType /\ base.chunk > 0
        /\ run.snapshot # None => base = run.snapshot
    BY <1>0, <1>1, BaseIsTyped
  <2>2. Settings!LegalOn(base, host)
    <3>1. CASE run.snapshot = None
      BY <3>1, NoneIsNothing
      DEF Settings!ResumeBase, Settings!NoSelection, Settings!Given, Settings!LegalOn,
          Settings!Pairs
    <3>2. CASE run.snapshot # None
      BY <1>1, <2>1, <3>2 DEF Settings!SettingsInv, Settings!StoredInv
    <3>. QED  BY <3>1, <3>2
  <2>. HIDE DEF base
  <2>3. pair = <<base.backend, base.gpu>> /\ pair # None
    BY <2>2, NoneIsNothing
    DEF Settings!MergedPair, Settings!NoSelection, Settings!LegalOn
  <2>4. /\ merged \in Settings!SettingsType
        /\ merged.backend = base.backend /\ merged.gpu = base.gpu
        /\ merged.device = IF base.backend = "cpu" THEN "auto" ELSE base.device
    BY <1>0, <2>1, <2>3, MergedIsTyped DEF Settings!NoSelection, Settings!Given
  <2>. HIDE DEF merged, pair
  <2>5. Settings!LegalOn(merged, host)
    BY <2>2, <2>4 DEF Settings!LegalOn
  <2>6. Settings!Preflight(merged, Settings!CountBound(merged.work, merged.limit)) # None
    BY <2>4, <2>5, LegalIsAnswered
  <2>. QED
    BY <2>1, <2>3, <2>6
    DEF Settings!Accepted, Settings!Decodes, Settings!DeviceFits, Settings!NoSelection,
        base, merged, pair
<1>2. ASSUME run # None, ~emptied,
             NEW selection \in [backend : Settings!Backends \cup {None},
                                gpu : Settings!GpuModes \cup {None},
                                device : Settings!Devices \cup {None}],
             \/ selection = [Settings!NoSelection EXCEPT !.backend = "auto"]
             \/ selection = [Settings!NoSelection EXCEPT !.backend = "cpu", !.gpu = "off"]
      PROVE  Settings!Accepted(selection, Settings!NoOptions)
  <2> DEFINE base == Settings!ResumeBase(selection, Settings!NoOptions)
             merged == Settings!Merged(base, selection, Settings!NoOptions)
             pair == Settings!MergedPair(base, selection)
  <2>1. base \in Settings!SettingsType /\ base.chunk > 0
    BY <1>0, <1>2, BaseIsTyped
  <2>. HIDE DEF base
  <2>2. /\ selection.device = None
        /\ \/ selection.backend = "auto" /\ selection.gpu = None
           \/ selection.backend = "cpu" /\ selection.gpu = "off"
    BY <1>2 DEF Settings!NoSelection
  <2>3. pair \in {<<"auto", "auto">>, <<"cpu", "off">>}
    <3>1. CASE selection.backend = "auto" /\ selection.gpu = None
      <4>1. (CHOOSE p \in Settings!Pairs : p[1] = "auto") = <<"auto", "auto">>
        BY DEF Settings!Pairs
      <4>. QED
        BY <3>1, <4>1, NoneIsNothing DEF Settings!MergedPair, Settings!Pairs
    <3>2. CASE selection.backend = "cpu" /\ selection.gpu = "off"
      BY <3>2, NoneIsNothing DEF Settings!MergedPair, Settings!Pairs
    <3>. QED  BY <2>2, <3>1, <3>2
  <2>4. pair # None
    BY <2>3, NoneIsNothing DEF Settings!Pairs
  <2>5. /\ merged \in Settings!SettingsType
        /\ merged.backend = pair[1] /\ merged.gpu = pair[2]
    BY <1>0, <1>2, <2>1, <2>4, MergedIsTyped
  <2>. HIDE DEF merged, pair
  <2>6. Settings!LegalOn(merged, host)
    BY <2>3, <2>5 DEF Settings!LegalOn, Settings!Pairs
  <2>7. Settings!Preflight(merged, Settings!CountBound(merged.work, merged.limit)) # None
    BY <2>5, <2>6, LegalIsAnswered
  <2>. QED
    BY <2>1, <2>2, <2>4, <2>7
    DEF Settings!Accepted, Settings!Decodes, Settings!DeviceFits, base, merged, pair
<1>3. Settings!ResumesWhereItRan
  BY <1>1 DEF Settings!ResumesWhereItRan, Settings!EveryRunResumes
<1>4. Settings!PortableResume
  <2>1. /\ [Settings!NoSelection EXCEPT !.backend = "auto"]
             \in [backend : Settings!Backends \cup {None}, gpu : Settings!GpuModes \cup {None},
                  device : Settings!Devices \cup {None}]
        /\ [Settings!NoSelection EXCEPT !.backend = "cpu", !.gpu = "off"]
             \in [backend : Settings!Backends \cup {None}, gpu : Settings!GpuModes \cup {None},
                  device : Settings!Devices \cup {None}]
    BY DEF Settings!NoSelection, Settings!Backends, Settings!GpuModes
  <2>. QED  BY <1>2, <2>1 DEF Settings!PortableResume
<1>. QED  BY <1>3, <1>4 DEF Settings!RunsResume

LEMMA SettingsHonoured ==
    ASSUME Settings!SettingsInv
    PROVE  Settings!ChoicesAreHonoured
<1>1. Settings!TypeOK
  BY NoneIsNothing
  DEF Settings!TypeOK, Settings!SettingsInv, Settings!TypesInv, Settings!PhaseInv,
      Settings!SettingsType
<1>2. Settings!ChoicesSurvive
  BY DEF Settings!ChoicesSurvive, Settings!SettingsInv, Settings!StoredInv, Settings!KeepsChoices
<1>. QED
  BY <1>1, <1>2 DEF Settings!ChoicesAreHonoured, Settings!SettingsInv

\* The inductive invariant of the settings holds of every behaviour, for every
\* host, selection and option the setups allow.
THEOREM SettingsAlways == Settings!Spec => []Settings!SettingsInv
BY SettingsInitSound, SettingsStepSound, PTL DEF Settings!Spec

\* Every run can be resumed as it ran, and with the documented options when its
\* accelerator is gone.
THEOREM RunsResumeAlways == Settings!Spec => []RunsResume
<1>1. Settings!SettingsInv => RunsResume
  BY SettingsResume DEF RunsResume
<1>. QED  BY <1>1, SettingsAlways, PTL

\* What the user chose is what runs, and what the next resume continues with.
THEOREM ChoicesAreHonouredAlways == Settings!Spec => []ChoicesAreHonoured
<1>1. Settings!SettingsInv => ChoicesAreHonoured
  BY SettingsHonoured DEF ChoicesAreHonoured
<1>. QED  BY <1>1, SettingsAlways, PTL

-----------------------------------------------------------------------------
(* Induction, by smallest counterexamples.                                 *)

\* A set of natural numbers has a least one; a smallest counterexample stands
\* for the induction below.
LEMMA LeastNatural ==
    ASSUME NEW S \in SUBSET Nat, S # {}
    PROVE  \E m \in S : \A n \in S : m <= n
<1> DEFINE Below(n) == 0..(n - 1)
           T == {Below(n) : n \in S}
<1>1. T \subseteq FiniteSubsetsOf(Nat) /\ T # {}
  <2>1. \A n \in S : IsFiniteSet(Below(n)) /\ Below(n) \in SUBSET Nat
    BY FS_Interval
  <2> HIDE DEF Below
  <2> QED
    BY <2>1 DEF FiniteSubsetsOf
<1>2. PICK s \in T : \A t \in T : <<t, s>> \notin StrictSubsetOrdering(Nat)
  <2> HIDE DEF T
  <2> QED
    BY <1>1, FS_StrictSubsetOrderingWellFounded, WFMin
<1>3. PICK m \in S : s = Below(m)
  OBVIOUS
<1>4. ASSUME NEW n \in S, ~(m <= n) PROVE FALSE
  <2>1. /\ Below(n) \in T /\ Below(n) \in SUBSET Nat /\ s \in SUBSET Nat
        /\ Below(n) \subseteq s /\ Below(n) # s
    <3>1. n \in s /\ n \notin Below(n)
      BY <1>3, <1>4
    <3> QED
      BY <1>3, <1>4, <3>1
  <2> HIDE DEF Below
  <2>2. <<Below(n), s>> \in StrictSubsetOrdering(Nat)
    BY <2>1, Zenon DEF StrictSubsetOrdering
  <2> QED
    BY <1>2, <2>1, <2>2
<1> QED
  BY <1>4

\* A function may be defined by its first value and its steps.
Steps(f, first, step, n) ==
    /\ f[0] = first
    /\ \A k \in 1..n : f[k] = step[<<k, f[k - 1]>>]

LEMMA StepsExist ==
    ASSUME NEW V, NEW first \in V, NEW step \in [Nat \X V -> V], NEW n \in Nat
    PROVE  \E f \in [0..n -> V] : Steps(f, first, step, n)
<1> DEFINE Lacking == {m \in Nat : ~\E f \in [0..m -> V] : Steps(f, first, step, m)}
<1> SUFFICES ASSUME Lacking # {} PROVE FALSE
  OBVIOUS
<1>1. PICK m \in Lacking : \A k \in Lacking : m <= k
  <2>1. Lacking \in SUBSET Nat
    OBVIOUS
  <2> HIDE DEF Lacking
  <2> QED
    BY <2>1, LeastNatural
<1>2. m \in Nat /\ ~\E f \in [0..m -> V] : Steps(f, first, step, m)
  OBVIOUS
<1>3. CASE m = 0
  <2>1. [k \in 0..0 |-> first] \in [0..0 -> V] /\ [k \in 0..0 |-> first][0] = first
    OBVIOUS
  <2>2. 1..0 = {}
    OBVIOUS
  <2> QED
    BY <1>2, <1>3, <2>1, <2>2 DEF Steps
<1>4. CASE m # 0
  <2>1. m - 1 \in Nat /\ m - 1 \notin Lacking
    BY <1>1, <1>2, <1>4
  <2>2. PICK f \in [0..(m - 1) -> V] : Steps(f, first, step, m - 1)
    BY <2>1
  <2> DEFINE more == step[<<m, f[m - 1]>>]
             g == [k \in 0..m |-> IF k = m THEN more ELSE f[k]]
  <2>3. more \in V
    BY <1>2, <2>1, <2>2
  <2>4. g \in [0..m -> V]
    BY <1>2, <2>2, <2>3
  <2>5. g[0] = first
    BY <1>2, <1>4, <2>2 DEF Steps
  <2>6. ASSUME NEW k \in 1..m PROVE g[k] = step[<<k, g[k - 1]>>]
    <3>1. g[k - 1] = f[k - 1] /\ k \in 0..m
      BY <1>2, <2>6
    <3>2. CASE k = m
      <4> QED
        BY <3>1, <3>2
    <3>3. CASE k # m
      <4>1. k \in 1..(m - 1) /\ g[k] = f[k]
        BY <1>2, <2>6, <3>1, <3>3
      <4> HIDE DEF g
      <4> QED
        BY <2>2, <3>1, <4>1 DEF Steps
    <3> QED
      BY <3>2, <3>3
  <2> HIDE DEF g
  <2> QED
    BY <1>2, <2>4, <2>5, <2>6 DEF Steps
<1> QED
  BY <1>3, <1>4

-----------------------------------------------------------------------------
(* The score of two counts (EmergenceScore).                               *)

Weigh(S, B) == INSTANCE EmergenceScore WITH Shape <- S, Background <- B

IsFactorial(f, n) == f = [k \in 0..n |-> IF k = 0 THEN 1 ELSE k * f[k - 1]]

\* Every number up to B divides the common denominator.
LEMMA CleanMultipleDivides ==
    ASSUME NEW S, NEW B \in Nat
    PROVE  /\ Weigh(S, B)!CleanMultiple \in Nat \ {0}
           /\ \A k \in 1..B : \E q \in Nat \ {0} : Weigh(S, B)!CleanMultiple = k * q
<1>1. PICK f : IsFactorial(f, B)
  <2> DEFINE step == [p \in Nat \X Nat |-> p[1] * p[2]]
  <2>1. step \in [Nat \X Nat -> Nat] /\ \A a, b \in Nat : step[<<a, b>>] = a * b
    OBVIOUS
  <2> HIDE DEF step
  <2>2. PICK f \in [0..B -> Nat] : Steps(f, 1, step, B)
    BY <2>1, StepsExist
  <2>3. ASSUME NEW k \in 0..B PROVE f[k] = IF k = 0 THEN 1 ELSE k * f[k - 1]
    <3>1. CASE k = 0
      BY <2>2, <3>1 DEF Steps
    <3>2. CASE k # 0
      <4>1. k \in 1..B /\ k - 1 \in 0..B /\ k \in Nat
        BY <3>2
      <4> QED
        BY <2>1, <2>2, <3>2, <4>1 DEF Steps
    <3> QED
      BY <3>1, <3>2
  <2> QED
    BY <2>2, <2>3 DEF IsFactorial
<1> DEFINE g == CHOOSE g : IsFactorial(g, B)
<1>2. IsFactorial(g, B)
  BY <1>1
<1>3. Weigh(S, B)!CleanMultiple = g[B]
  BY DEF Weigh!CleanMultiple, IsFactorial
<1> HIDE DEF g
<1>4. \A k \in 0..B : g[k] = IF k = 0 THEN 1 ELSE k * g[k - 1]
  BY <1>2 DEF IsFactorial
<1> DEFINE Good(n) == /\ g[n] \in Nat \ {0}
                      /\ \A k \in 1..n : \E q \in Nat \ {0} : g[n] = k * q
           Bad == {n \in 0..B : ~Good(n)}
<1>5. Bad = {}
  <2> SUFFICES ASSUME Bad # {} PROVE FALSE
    OBVIOUS
  <2>1. PICK n \in Bad : \A m \in Bad : n <= m
    <3>1. Bad \in SUBSET Nat
      OBVIOUS
    <3> HIDE DEF Bad
    <3> QED
      BY <3>1, LeastNatural
  <2>2. n \in 0..B /\ ~Good(n)
    OBVIOUS
  <2>3. n # 0
    BY <1>4, <2>2
  <2>4. n - 1 \in 0..B /\ Good(n - 1) /\ g[n] = n * g[n - 1]
    <3>1. n - 1 \in 0..B /\ n - 1 \notin Bad
      <4> HIDE DEF Bad
      <4> QED
        BY <2>1, <2>2, <2>3
    <3> QED
      BY <1>4, <2>2, <2>3, <3>1
  <2>5. g[n] \in Nat \ {0}
    BY <2>2, <2>3, <2>4
  <2>6. ASSUME NEW k \in 1..n PROVE \E q \in Nat \ {0} : g[n] = k * q
    <3>1. CASE k = n
      BY <2>4, <3>1
    <3>2. CASE k # n
      <4>1. k \in 1..(n - 1)
        BY <2>2, <2>6, <3>2
      <4>3. PICK q \in Nat \ {0} : g[n - 1] = k * q
        BY <2>4, <4>1
      <4>2. n * q \in Nat \ {0} /\ n * (k * q) = k * (n * q)
        BY <2>2, <2>3
      <4> QED
        BY <2>4, <4>2, <4>3
    <3> QED
      BY <3>1, <3>2
  <2> QED
    BY <2>2, <2>5, <2>6
<1> QED
  <2>1. Good(B)
    <3>1. B \in 0..B /\ B \notin Bad
      <4> HIDE DEF Bad
      <4> QED
        BY <1>5
    <3> QED
      BY <3>1
  <2> QED
    BY <1>3, <2>1

\* Dividing takes a factor off.
LEMMA TakesFactorOff ==
    ASSUME NEW k \in Nat \ {0}, NEW x \in Int
    PROVE  (k * x) \div k = x
<1> DEFINE d == (k * x) \div k
<1>1. d \in Int /\ k * d <= k * x /\ k * x < k * d + k
  OBVIOUS
<1> HIDE DEF d
<1>2. CASE d < x
  <2>1. d + 1 <= x /\ k * (d + 1) <= k * x /\ k * (d + 1) = k * d + k
    BY <1>1, <1>2
  <2> QED
    BY <1>1, <2>1
<1>3. CASE d > x
  <2>1. x + 1 <= d /\ k * (x + 1) <= k * d /\ k * (x + 1) = k * x + k
    BY <1>1, <1>3
  <2> QED
    BY <1>1, <2>1
<1> QED
  BY <1>1, <1>2, <1>3 DEF d

\* The parts of a score, of a tenth each for the weights 7, 2 and 1.
Multiple(S, B) == Weigh(S, B)!CleanMultiple
Share(B) == IF B = 0 THEN 1 ELSE B
Tenth(S, B) == (S * S) * (Multiple(S, B) * Share(B))

LEMMA OneIs ==
    ASSUME NEW S \in Nat \ {0}, NEW B \in Nat
    PROVE  /\ Multiple(S, B) \in Nat \ {0} /\ Share(B) \in Nat \ {0}
           /\ Tenth(S, B) \in Nat \ {0}
           /\ Weigh(S, B)!One = 10 * Tenth(S, B)
           /\ Weigh(S, B)!One \div 10 = Tenth(S, B)
<1>1. Multiple(S, B) \in Nat \ {0} /\ Share(B) \in Nat \ {0}
  BY CleanMultipleDivides DEF Multiple, Share
<1>2. S * S \in Nat \ {0} /\ Multiple(S, B) * Share(B) \in Nat \ {0}
  BY <1>1
<1>3. Tenth(S, B) \in Nat \ {0}
  BY <1>2 DEF Tenth
<1>4. Weigh(S, B)!One = 10 * S * S * Multiple(S, B) * Share(B)
  BY DEF Weigh!One, Multiple, Share
<1>5. 10 * S * S * Multiple(S, B) * Share(B) = 10 * ((S * S) * (Multiple(S, B) * Share(B)))
  BY <1>1
<1>6. Weigh(S, B)!One = 10 * Tenth(S, B)
  BY <1>4, <1>5 DEF Tenth
<1>7. (10 * Tenth(S, B)) \div 10 = Tenth(S, B)
  BY <1>3, TakesFactorOff
<1> QED
  BY <1>1, <1>3, <1>6, <1>7

LEMMA DensityIs ==
    ASSUME NEW S \in Nat \ {0}, NEW B \in Nat, NEW c \in 0..S
    PROVE  Weigh(S, B)!Density(c) = (Multiple(S, B) * Share(B)) * (c * c)
<1> DEFINE m == Multiple(S, B) * Share(B)
<1>1. m \in Nat /\ S * S \in Nat \ {0} /\ m * (c * c) \in Int
  BY OneIs
<1>2. Weigh(S, B)!Density(c) = (((S * S) * m) * c * c) \div (S * S)
  BY OneIs DEF Weigh!Density, Tenth
<1> HIDE DEF m
<1>3. ((S * S) * m) * c * c = (S * S) * (m * (c * c))
  BY <1>1
<1> QED
  BY <1>1, <1>2, <1>3, TakesFactorOff DEF m

LEMMA CleanlinessIs ==
    ASSUME NEW S \in Nat \ {0}, NEW B \in Nat, NEW l \in 0..B
    PROVE  Weigh(S, B)!Cleanliness(l) =
               (S * S) * (Multiple(S, B) * (IF B = 0 THEN 1 ELSE B - l))
<1> DEFINE m == Multiple(S, B)
<1>1. m \in Nat /\ S * S \in Nat
  BY OneIs
<1>2. CASE B = 0
  BY <1>2, OneIs DEF Weigh!Cleanliness, Tenth, Share
<1>3. CASE B # 0
  <2>1. Weigh(S, B)!Cleanliness(l) = (((S * S) * (m * B)) * (B - l)) \div B
    BY <1>3, OneIs DEF Weigh!Cleanliness, Tenth, Share
  <2> HIDE DEF m
  <2>2. ((S * S) * (m * B)) * (B - l) = B * ((S * S) * (m * (B - l)))
    BY <1>1
  <2>3. (S * S) * (m * (B - l)) \in Int
    BY <1>1
  <2>4. Weigh(S, B)!Cleanliness(l) = (S * S) * (m * (B - l))
    BY <1>3, <2>1, <2>2, <2>3, TakesFactorOff
  <2> QED
    BY <1>3, <2>4 DEF m
<1> QED
  BY <1>2, <1>3

\* With a background: as far as coverage is above leakage.
Excess(S, B, c, l, q) ==
    IF c * B <= l * S THEN 0 ELSE (S * (q * B)) * (c * B - l * S)

LEMMA ContrastIs ==
    ASSUME NEW S \in Nat \ {0}, NEW B \in Nat \ {0}, NEW c \in 0..S, NEW l \in 0..B,
           NEW q \in Nat, Multiple(S, B) = (B - l) * q, l < B
    PROVE  Weigh(S, B)!Contrast(c, l) = Excess(S, B, c, l, q)
<1> DEFINE m == Multiple(S, B)
           d == c * B - l * S
<1>0. d \in Int /\ B - l \in Nat \ {0} /\ S * (B - l) \in Nat \ {0}
  OBVIOUS
<1>1. CASE c * B <= l * S
  BY <1>1 DEF Weigh!Contrast, Excess
<1>2. CASE ~(c * B <= l * S)
  <2>1. Weigh(S, B)!Contrast(c, l) = (((S * S) * (m * B)) * d) \div (S * (B - l))
    BY <1>2, OneIs DEF Weigh!Contrast, Tenth, Share
  <2> HIDE DEF d
  <2>2. ((S * S) * (m * B)) * d = (S * (B - l)) * ((S * (q * B)) * d)
    <3>1. m = (B - l) * q
      OBVIOUS
    <3> HIDE DEF m
    <3>2. \A k \in Nat : ((S * S) * ((k * q) * B)) * d = (S * k) * ((S * (q * B)) * d)
      BY <1>0
    <3> QED
      BY <1>0, <3>1, <3>2
  <2>3. (S * (q * B)) * d \in Int
    BY <1>0
  <2>4. Weigh(S, B)!Contrast(c, l) = (S * (q * B)) * d
    BY <1>0, <2>1, <2>2, <2>3, TakesFactorOff
  <2> QED
    BY <1>2, <2>4 DEF d, Excess
<1> QED
  BY <1>1, <1>2

\* The contrast lies between nothing and a tenth, is a tenth for a perfect
\* digit, and falls with what is leaked.
LEMMA ContrastBounds ==
    ASSUME NEW S \in Nat \ {0}, NEW B \in Nat, NEW c \in 0..S, NEW l \in 0..B
    PROVE  /\ Weigh(S, B)!Contrast(c, l) \in 0..Tenth(S, B)
           /\ c = S /\ l = 0 => Weigh(S, B)!Contrast(c, l) = Tenth(S, B)
           /\ \A k \in 0..l : Weigh(S, B)!Contrast(c, l) <= Weigh(S, B)!Contrast(c, k)
<1> DEFINE m == Multiple(S, B)
           T == Tenth(S, B)
           C(k) == Weigh(S, B)!Contrast(c, k)
<1>0. m \in Nat \ {0} /\ T \in Nat \ {0}
  BY OneIs
<1>1. CASE B = 0
  <2>1. T = (S * S) * (m * 1) /\ m * c \in Int /\ S * (m * c) \in Nat
    BY <1>0, <1>1 DEF Tenth, Share
  <2> HIDE DEF m
  <2>2. ((S * S) * (m * 1)) * c = S * (S * (m * c))
    BY <1>0
  <2>3. C(l) = S * (m * c)
    <3>1. C(l) = (T * c) \div S
      BY <1>1, OneIs DEF Weigh!Contrast
    <3> QED
      BY <2>1, <2>2, <3>1, TakesFactorOff
  <2>4. S * (m * c) <= S * (m * S) /\ S * (m * S) = (S * S) * (m * 1)
    BY <1>0
  <2> HIDE DEF C
  <2>5. C(l) \in 0..T /\ (c = S => C(l) = T)
    BY <1>0, <2>1, <2>3, <2>4
  <2>6. \A k \in 0..l : k = l
    BY <1>1
  <2>7. C(l) <= C(l)
    BY <2>5
  <2> QED
    BY <2>5, <2>6, <2>7 DEF C
<1>2. CASE B # 0
  <2>0. T = (S * S) * (m * B) /\ B \in Nat \ {0}
    BY <1>2 DEF Tenth, Share
  <2>1. ASSUME NEW k \in 0..B, k < B
        PROVE  \E q \in Nat \ {0} : m = (B - k) * q
    <3>1. B - k \in 1..B
      BY <2>1
    <3> QED
      BY <3>1, CleanMultipleDivides DEF Multiple
  \* All of it is leaked: nothing is left.
  <2>2. C(B) = 0
    <3>1. c * B <= B * S
      OBVIOUS
    <3> QED
      BY <1>2, <3>1 DEF Weigh!Contrast
  <2>3. ASSUME NEW k \in 0..B, k < B, NEW q \in Nat \ {0}, m = (B - k) * q
        PROVE  /\ C(k) = IF c * B <= k * S THEN 0 ELSE (S * (q * B)) * (c * B - k * S)
               /\ (S * (q * B)) * (c * B - k * S) = (S * B) * (S * m) - (S * B) * (((S - c) * B) * q)
               /\ C(k) \in 0..T
    <3>1. C(k) = IF c * B <= k * S THEN 0 ELSE (S * (q * B)) * (c * B - k * S)
      <4>1. B \in Nat \ {0} /\ q \in Nat /\ Multiple(S, B) = (B - k) * q /\ k < B
        BY <2>0, <2>3
      <4>2. Weigh(S, B)!Contrast(c, k) = Excess(S, B, c, k, q)
        BY <4>1, ContrastIs
      <4> QED
        BY <4>2 DEF Excess
    <3> HIDE DEF m, C, T
    <3>2. (S * (q * B)) * (c * B - k * S) = (S * B) * (S * ((B - k) * q)) - (S * B) * (((S - c) * B) * q)
      OBVIOUS
    <3>3. (S * (q * B)) * (c * B - k * S) = (S * B) * (S * m) - (S * B) * (((S - c) * B) * q)
      BY <2>3, <3>2
    <3>4. (S * B) * (((S - c) * B) * q) \in Nat
      <4>1. S - c \in Nat /\ S * B \in Nat
        OBVIOUS
      <4>2. (S - c) * B \in Nat
        BY <4>1
      <4>3. ((S - c) * B) * q \in Nat
        BY <4>2
      <4> QED
        BY <4>1, <4>3
    <3>5. (S * B) * (S * m) = (S * S) * (m * B)
      BY <1>0
    <3>6. ~(c * B <= k * S) => (S * (q * B)) * (c * B - k * S) \in Nat
      <4>1. S * (q * B) \in Nat /\ c * B - k * S \in Int
        OBVIOUS
      <4>2. ~(c * B <= k * S) => c * B - k * S \in Nat
        BY <4>1
      <4> QED
        BY <4>1, <4>2
    <3>7. (S * S) * (m * B) \in Nat
      BY <1>0
    <3>8. C(k) \in 0..T
      BY <1>0, <2>0, <3>1, <3>3, <3>4, <3>5, <3>6, <3>7
    <3> QED
      BY <3>1, <3>3, <3>8
  <2>4. \A k \in 0..B : C(k) \in 0..T
    <3>1. ASSUME NEW k \in 0..B PROVE C(k) \in 0..T
      <4>1. CASE k < B
        BY <2>1, <2>3, <4>1
      <4>2. CASE k = B
        BY <1>0, <2>2, <4>2
      <4> QED
        BY <4>1, <4>2
    <3> QED
      BY <3>1
  <2>5. ASSUME c = S PROVE C(0) = T
    <3>0. 0 \in 0..B /\ 0 < B
      BY <2>0
    <3>1. PICK q \in Nat \ {0} : m = (B - 0) * q
      <4> HIDE DEF m
      <4> QED
        BY <2>1, <3>0
    <3>2. /\ C(0) = IF c * B <= 0 * S THEN 0 ELSE (S * (q * B)) * (c * B - 0 * S)
          /\ (S * (q * B)) * (c * B - 0 * S) = (S * B) * (S * m) - (S * B) * (((S - c) * B) * q)
      <4> HIDE DEF m, C
      <4> QED
        BY <2>3, <3>0, <3>1
    <3> HIDE DEF m, C, T
    <3>3. (S - c) * B = 0 /\ ~(c * B <= 0 * S)
      BY <2>0, <2>5
    <3>4. (S * B) * (((S - c) * B) * q) = 0
      BY <3>3
    <3>5. (S * B) * (S * m) = (S * S) * (m * B)
      BY <1>0
    <3> QED
      BY <1>0, <2>0, <3>2, <3>3, <3>4, <3>5
  <2>6. ASSUME NEW k \in 0..l PROVE C(l) <= C(k)
    <3>0. k \in 0..B /\ C(k) \in 0..T /\ C(l) \in 0..T
      BY <2>4, <2>6
    <3>1. CASE l = B
      <4>1. C(l) = 0
        BY <2>2, <3>1
      <4> HIDE DEF C
      <4> QED
        BY <3>0, <4>1
    <3>2. CASE l # B
      <4>0. l \in 0..B /\ l < B /\ k \in 0..B /\ k < B
        BY <2>6, <3>2
      <4> HIDE DEF m, C, T
      <4>1. PICK q \in Nat \ {0} : m = (B - l) * q
        BY <2>1, <4>0
      <4>2. PICK r \in Nat \ {0} : m = (B - k) * r
        BY <2>1, <4>0
      <4>3. /\ C(l) = IF c * B <= l * S THEN 0 ELSE (S * (q * B)) * (c * B - l * S)
            /\ (S * (q * B)) * (c * B - l * S) = (S * B) * (S * m) - (S * B) * (((S - c) * B) * q)
        BY <2>3, <4>0, <4>1
      <4>4. /\ C(k) = IF c * B <= k * S THEN 0 ELSE (S * (r * B)) * (c * B - k * S)
            /\ (S * (r * B)) * (c * B - k * S) = (S * B) * (S * m) - (S * B) * (((S - c) * B) * r)
        BY <2>3, <4>0, <4>2
      <4>5. r <= q
        <5> SUFFICES ASSUME q < r PROVE FALSE
          OBVIOUS
        <5>1. (B - l) * q <= (B - k) * q /\ (B - k) * q < (B - k) * r
          BY <2>6, <3>2
        <5> QED
          BY <4>1, <4>2, <5>1
      <4>6. (S * B) * (((S - c) * B) * r) <= (S * B) * (((S - c) * B) * q)
        <5>1. S - c \in Nat /\ S * B \in Nat
          OBVIOUS
        <5>2. (S - c) * B \in Nat
          BY <5>1
        <5>3. ((S - c) * B) * r \in Nat /\ ((S - c) * B) * q \in Nat
              /\ ((S - c) * B) * r <= ((S - c) * B) * q
          BY <4>5, <5>2
        <5> QED
          BY <5>1, <5>3
      <4>7. CASE c * B <= l * S
        BY <3>0, <4>3, <4>7
      <4>8. CASE ~(c * B <= l * S)
        <5>1. k * S <= l * S
          BY <2>6
        <5>2. ~(c * B <= k * S)
          BY <4>8, <5>1
        <5>3. (S * B) * (S * m) \in Int /\ (S * B) * (((S - c) * B) * q) \in Int
              /\ (S * B) * (((S - c) * B) * r) \in Int
          BY <1>0
        <5> QED
          BY <4>3, <4>4, <4>6, <4>8, <5>2, <5>3
      <4> QED
        BY <4>7, <4>8
    <3> QED
      BY <3>1, <3>2
  <2> QED
    BY <2>4, <2>5, <2>6
<1> QED
  BY <1>1, <1>2

\* A score is at most one, which is a perfect digit; any other misses it by
\* the tenth part of a pixel at least; it is more than nothing when something
\* is covered, and falls with what is leaked.
LEMMA ScoreBounds ==
    ASSUME NEW S \in Nat \ {0}, NEW B \in Nat, NEW c \in 0..S, NEW l \in 0..B
    PROVE  /\ Weigh(S, B)!EmergenceScoreOf(c, l) \in 0..Weigh(S, B)!One
           /\ c = S /\ l = 0 => Weigh(S, B)!EmergenceScoreOf(c, l) = Weigh(S, B)!One
           /\ ~(c = S /\ l = 0) =>
                  Weigh(S, B)!One
                      <= (10 * (S + B)) * (Weigh(S, B)!One - Weigh(S, B)!EmergenceScoreOf(c, l))
           /\ c > 0 => Weigh(S, B)!EmergenceScoreOf(c, l) > 0
           /\ \A k \in 0..l : Weigh(S, B)!EmergenceScoreOf(c, l)
                                  <= Weigh(S, B)!EmergenceScoreOf(c, k)
<1> DEFINE m == Multiple(S, B)
           M == Multiple(S, B) * Share(B)
           T == Tenth(S, B)
           D == Weigh(S, B)!Density(c)
           C(k) == Weigh(S, B)!Contrast(c, k)
           L(k) == Weigh(S, B)!Cleanliness(k)
           E(k) == Weigh(S, B)!EmergenceScoreOf(c, k)
<1>0. /\ m \in Nat \ {0} /\ M \in Nat \ {0} /\ T \in Nat \ {0}
      /\ T = (S * S) * M /\ Weigh(S, B)!One = 10 * T
  <2>1. /\ Multiple(S, B) \in Nat \ {0} /\ Share(B) \in Nat \ {0} /\ T \in Nat \ {0}
        /\ Weigh(S, B)!One = 10 * T
    BY OneIs
  <2>2. M \in Nat \ {0}
    BY <2>1
  <2>3. T = (S * S) * M
    BY DEF Tenth
  <2> QED
    BY <2>1, <2>2, <2>3
<1>1. \A k \in 0..B : E(k) = 7 * D + 2 * C(k) + L(k)
  BY DEF Weigh!EmergenceScoreOf
<1>2. /\ D \in 0..T /\ (c = S => D = T) /\ (c > 0 => D > 0)
      /\ c # S => T <= (S * 7) * (T - D)
  <2>1. D = M * (c * c)
    BY DensityIs
  <2> HIDE DEF M, T, D
  <2>2. c * c \in Nat /\ c * c <= S * S /\ (c > 0 => c * c > 0)
    <3>1. c \in Nat /\ c <= S
      OBVIOUS
    <3>2. c * c <= c * S /\ c * S <= S * S /\ c * c \in Nat
      BY <3>1
    <3>3. c > 0 => c * c > 0
      BY <3>1
    <3> QED
      BY <3>2, <3>3
  <2>3. M * (c * c) \in Nat /\ M * (c * c) <= M * (S * S) /\ M * (S * S) = T
        /\ (c * c > 0 => M * (c * c) > 0)
    <3>1. \A a, b \in Nat : a <= b => M * a <= M * b
      BY <1>0
    <3>2. S * S \in Nat /\ (S * S) * M = M * (S * S)
      BY <1>0
    <3>3. c * c > 0 => M * (c * c) > 0
      BY <1>0, <2>2
    <3> QED
      BY <1>0, <2>2, <3>1, <3>2, <3>3
  <2>4. ASSUME c # S PROVE T <= (S * 7) * (T - D)
    <3>1. c * c <= c * S /\ c * S <= (S - 1) * S /\ (S - 1) * S = S * S - S
      BY <2>4
    <3>2. S <= S * S - c * c /\ S * S - c * c \in Nat
      BY <2>2, <3>1
    <3>3. M * S <= M * (S * S - c * c)
      BY <1>0, <3>2
    <3>4. M * (S * S - c * c) = M * (S * S) - M * (c * c)
      BY <1>0, <2>2
    <3>5. M * S <= T - D
      BY <2>1, <2>3, <3>3, <3>4
    <3>6. T - D \in Nat /\ M * S \in Nat
      BY <1>0, <2>1, <2>3
    <3>7. S * (M * S) <= S * (T - D) /\ S * (M * S) = (S * S) * M
      BY <1>0, <3>5, <3>6
    <3>8. S * (T - D) <= (S * 7) * (T - D)
      BY <3>6
    <3>9. S * (T - D) \in Int /\ (S * 7) * (T - D) \in Int
      BY <3>6
    <3> QED
      BY <1>0, <3>7, <3>8, <3>9
  <2> QED
    BY <1>0, <2>1, <2>2, <2>3, <2>4
<1>3. /\ \A k \in 0..B : L(k) \in 0..T
      /\ l = 0 => L(l) = T
      /\ l # 0 => T <= B * (T - L(l))
      /\ \A k \in 0..l : L(l) <= L(k)
  <2>1. \A k \in 0..B : L(k) = (S * S) * (m * (IF B = 0 THEN 1 ELSE B - k))
    BY CleanlinessIs
  <2>2. CASE B = 0
    <3>1. M = m * 1 /\ l = 0
      BY <2>2 DEF Share
    <3>2. \A k \in 0..B : L(k) = T
      <4> HIDE DEF L, m, T, M
      <4> QED
        BY <1>0, <2>1, <2>2, <3>1
    <3> HIDE DEF L, T
    <3> QED
      BY <1>0, <2>2, <3>1, <3>2
  <2>3. CASE B # 0
    <3>1. M = m * B
      BY <2>3 DEF Share
    <3>2. \A k \in 0..B : L(k) = (S * S) * (m * (B - k))
      <4> HIDE DEF L, m
      <4> QED
        BY <2>1, <2>3
    <3> HIDE DEF L, m, M, T
    <3>3. S * S \in Nat \ {0} /\ (S * S) * m \in Nat \ {0}
      BY <1>0
    <3>4. \A k \in 0..B : (S * S) * (m * (B - k)) = T - ((S * S) * m) * k
      <4>1. T = (S * S) * (m * B)
        BY <1>0, <3>1
      <4>2. \A k \in 0..B : (S * S) * (m * (B - k)) = (S * S) * (m * B) - ((S * S) * m) * k
        BY <1>0, <3>3
      <4> QED
        BY <4>1, <4>2
    <3>5. \A k \in 0..B : ((S * S) * m) * k \in 0..T
      <4>1. \A k \in 0..B : B - k \in Nat /\ m * (B - k) \in Nat
        BY <1>0
      <4>2. \A k \in 0..B : (S * S) * (m * (B - k)) \in Nat
        BY <3>3, <4>1
      <4>3. \A k \in 0..B : ((S * S) * m) * k \in Nat
        BY <3>3
      <4> QED
        BY <1>0, <3>4, <4>2, <4>3
    <3>6. \A k \in 0..B : L(k) \in 0..T /\ L(k) = T - ((S * S) * m) * k
      BY <1>0, <3>2, <3>4, <3>5
    <3>7. ((S * S) * m) * 0 = 0
      BY <3>3
    <3>8. l # 0 => T <= B * (T - L(l))
      <4> SUFFICES ASSUME l # 0 PROVE T <= B * (T - L(l))
        OBVIOUS
      <4>1. T - L(l) = ((S * S) * m) * l
        BY <1>0, <3>5, <3>6
      <4>2. (S * S) * m <= ((S * S) * m) * l
        BY <3>3
      <4>3. B * ((S * S) * m) <= B * (((S * S) * m) * l)
        BY <3>3, <4>2
      <4>4. B * ((S * S) * m) = (S * S) * (m * B)
        BY <1>0
      <4> QED
        BY <1>0, <3>1, <4>1, <4>3, <4>4
    <3>9. \A k \in 0..l : L(l) <= L(k)
      <4>1. \A k \in 0..l : k \in 0..B /\ ((S * S) * m) * k <= ((S * S) * m) * l
        BY <3>3
      <4>2. \A k \in 0..l : ((S * S) * m) * k \in Int /\ ((S * S) * m) * l \in Int
        BY <3>3
      <4> QED
        BY <1>0, <3>6, <4>1, <4>2
    <3> QED
      BY <1>0, <3>6, <3>7, <3>8, <3>9
  <2> QED
    BY <2>2, <2>3
<1>4. /\ \A k \in 0..B : C(k) \in 0..T
      /\ c = S /\ l = 0 => C(l) = T
      /\ \A k \in 0..l : C(l) <= C(k)
  BY ContrastBounds
<1> HIDE DEF m, M, T, D, C, L, E
<1>5. E(l) \in 0..(10 * T) /\ (c > 0 => E(l) > 0)
  BY <1>0, <1>1, <1>2, <1>3, <1>4
<1>6. c = S /\ l = 0 => E(l) = 10 * T
  BY <1>0, <1>1, <1>2, <1>3, <1>4
<1>7. ASSUME ~(c = S /\ l = 0) PROVE 10 * T <= (10 * (S + B)) * (10 * T - E(l))
  <2>1. 10 * T - E(l) = 7 * (T - D) + 2 * (T - C(l)) + (T - L(l))
    BY <1>0, <1>1, <1>2, <1>3, <1>4
  <2>2. T - D \in Nat /\ T - C(l) \in Nat /\ T - L(l) \in Nat
    BY <1>0, <1>2, <1>3, <1>4
  <2> DEFINE r == 10 * T - E(l)
  <2>3. r \in Nat /\ 7 * (T - D) <= r /\ T - L(l) <= r
    BY <2>1, <2>2
  <2> HIDE DEF r
  <2>4. T <= (S + B) * r
    <3>1. CASE c # S
      <4>1. T <= (S * 7) * (T - D) /\ (S * 7) * (T - D) = S * (7 * (T - D))
        BY <1>2, <2>2, <3>1
      <4>2. S * (7 * (T - D)) <= S * r /\ S * r <= (S + B) * r
        BY <2>2, <2>3
      <4>3. S * (7 * (T - D)) \in Int /\ S * r \in Int /\ (S + B) * r \in Int
        BY <2>2, <2>3
      <4> QED
        BY <1>0, <4>1, <4>2, <4>3
    <3>2. CASE l # 0
      <4>1. T <= B * (T - L(l))
        BY <1>3, <3>2
      <4>2. B * (T - L(l)) <= B * r /\ B * r <= (S + B) * r
        BY <2>2, <2>3
      <4>3. B * (T - L(l)) \in Int /\ B * r \in Int /\ (S + B) * r \in Int
        BY <2>2, <2>3
      <4> QED
        BY <1>0, <4>1, <4>2, <4>3
    <3> QED
      BY <1>7, <3>1, <3>2
  <2>5. (10 * (S + B)) * r = 10 * ((S + B) * r) /\ (S + B) * r \in Int
    BY <2>3
  <2> QED
    BY <1>0, <2>4, <2>5 DEF r
<1>8. \A k \in 0..l : E(l) <= E(k)
  <2>1. \A k \in 0..l : k \in 0..B
    OBVIOUS
  <2> QED
    BY <1>0, <1>1, <1>2, <1>3, <1>4, <2>1
<1> QED
  BY <1>0, <1>5, <1>6, <1>7, <1>8 DEF E

-----------------------------------------------------------------------------
(* What the score of a window means, with the scores as they are.          *)

LEMMA ExactIs ==
    /\ Exact!One = Weigh(Shape, Background)!One
    /\ \A c, l : Exact!EmergenceScoreOf(c, l) = Weigh(Shape, Background)!EmergenceScoreOf(c, l)
BY DEF Exact!One, Exact!EmergenceScoreOf, Exact!Density, Exact!Contrast, Exact!Cleanliness,
       Exact!CleanMultiple, Weigh!One, Weigh!EmergenceScoreOf, Weigh!Density,
       Weigh!Contrast, Weigh!Cleanliness, Weigh!CleanMultiple

LEMMA ScanMeans ==
    ASSUME Score = MCScore, IInv
    PROVE  OneMeansPerfect /\ LeakageCosts
<1>1. /\ position \in 0..Candidates /\ Candidates \in Nat /\ Shape \in Nat \ {0}
      /\ Background \in Nat
      /\ \A i \in Scanned : window[i] \in Counts
      /\ cpu.candidate \in Nat /\ cpu.score \in Nat /\ cpu.covered \in Nat /\ cpu.leaked \in Nat
  BY ScanAssumption DEF IInv, TypeOK, Scanned
<1>2. ASSUME NEW a \in Counts
      PROVE  /\ Score[a] <= Exact!One
             /\ Score[a] = Exact!One <=> a = <<Shape, 0>>
             /\ Exact!One > 0
             /\ \A k \in 0..a[2] : Score[a] <= Score[<<a[1], k>>] /\ <<a[1], k>> \in Counts
  <2>1. a = <<a[1], a[2]>> /\ a[1] \in 0..Shape /\ a[2] \in 0..Background
    BY CountsTypes
  <2>2. \A c \in 0..Shape, l \in 0..Background :
            /\ <<c, l>> \in Counts
            /\ Score[<<c, l>>] = Weigh(Shape, Background)!EmergenceScoreOf(c, l)
    BY ExactIs DEF MCScore, Counts
  <2>3. /\ Exact!One = 10 * Tenth(Shape, Background)
        /\ Tenth(Shape, Background) \in Nat \ {0}
    BY <1>1, ExactIs, OneIs
  <2>4. /\ Score[a] \in 0..Exact!One
        /\ a[1] = Shape /\ a[2] = 0 => Score[a] = Exact!One
        /\ ~(a[1] = Shape /\ a[2] = 0) =>
               Exact!One <= (10 * (Shape + Background)) * (Exact!One - Score[a])
        /\ \A k \in 0..a[2] : Score[a] <= Weigh(Shape, Background)!EmergenceScoreOf(a[1], k)
    <3>1. Score[a] = Weigh(Shape, Background)!EmergenceScoreOf(a[1], a[2])
      BY <2>1, <2>2
    <3> QED
      BY <1>1, <2>1, <3>1, ExactIs, ScoreBounds
  <2>5. ~(a[1] = Shape /\ a[2] = 0) => Score[a] # Exact!One
    <3> SUFFICES ASSUME Score[a] = Exact!One, ~(a[1] = Shape /\ a[2] = 0) PROVE FALSE
      OBVIOUS
    <3>1. (10 * (Shape + Background)) * 0 = 0
      BY <1>1
    <3> QED
      BY <2>3, <2>4, <3>1
  <2>6. a = <<Shape, 0>> <=> a[1] = Shape /\ a[2] = 0
    BY <2>1
  <2>7. \A k \in 0..a[2] : Score[a] <= Score[<<a[1], k>>] /\ <<a[1], k>> \in Counts
    <3>1. \A k \in 0..a[2] : k \in 0..Background
      BY <1>1, <2>1
    <3> QED
      BY <2>1, <2>2, <2>4, <3>1
  <2> QED
    BY <2>3, <2>4, <2>5, <2>6, <2>7
<1>3. CASE cpu.candidate = 0
  <2>1. /\ cpu.score = 0
        /\ \A i \in Scanned : Score[window[i]] = 0 /\ window[i][1] = 0
    BY <1>3 DEF IInv, CpuInv
  <2>2. Exact!One > 0
    <3>1. <<0, 0>> \in Counts
      BY <1>1 DEF Counts
    <3> QED
      BY <1>2, <3>1
  <2>3. \A i \in Scanned : window[i] # <<Shape, 0>>
    BY <1>1, <2>1
  <2>4. position # Candidates
    <3> SUFFICES ASSUME position = Candidates PROVE FALSE
      OBVIOUS
    <3>1. PICK i \in 1..Candidates : window[i][1] > 0
      BY ScanAssumption DEF IInv, TypeOK
    <3> QED
      BY <2>1, <3>1 DEF Scanned
  <2>5. cpu.score # Exact!One
    BY <2>1, <2>2
  <2> QED
    BY <2>3, <2>4, <2>5 DEF OneMeansPerfect, LeakageCosts
<1>4. CASE cpu.candidate # 0
  <2> DEFINE b == window[cpu.candidate]
  <2>1. /\ FirstBest(window, position, cpu.candidate) /\ cpu.score = Score[b]
        /\ b = <<cpu.covered, cpu.leaked>> /\ cpu.candidate \in Scanned /\ b \in Counts
        /\ \A i \in Scanned : ~Better(window[i], b)
    BY <1>1, <1>4 DEF IInv, CpuInv, FirstBest, Scanned
  <2> HIDE DEF b
  <2>2. b[1] = cpu.covered /\ b[2] = cpu.leaked
    BY <2>1
  <2>3. cpu.score = Exact!One <=> b = <<Shape, 0>>
    BY <1>2, <2>1
  <2>4. OneMeansPerfect
    <3>1. ASSUME NEW i \in Scanned, window[i] = <<Shape, 0>> PROVE cpu.score = Exact!One
      <4>1. Score[window[i]] = Exact!One /\ Score[b] <= Exact!One /\ Exact!One > 0
        BY <1>1, <1>2, <2>1, <3>1
      <4>2. ~(Score[window[i]] > Score[b])
        BY <2>1 DEF Better
      <4>3. Score[b] \in Nat /\ Score[window[i]] \in Nat
        BY <1>1, <2>1, CountsTypes
      <4> QED
        BY <2>1, <4>1, <4>2, <4>3
    <3>2. cpu.score = Exact!One => \E i \in Scanned : window[i] = <<Shape, 0>>
      BY <2>1, <2>3 DEF b
    <3> QED
      BY <3>1, <3>2 DEF OneMeansPerfect
  <2>5. ASSUME NEW i \in Scanned, window[i][1] = cpu.covered, ~(window[i][2] >= cpu.leaked)
        PROVE  FALSE
    <3> DEFINE w == window[i]
    <3>1. /\ w \in Counts /\ w = <<w[1], w[2]>> /\ w[2] \in Nat /\ w[2] < b[2] /\ w[1] = b[1]
          /\ b[2] \in Nat
      BY <1>1, <2>1, <2>2, <2>5, CountsTypes
    <3> HIDE DEF w
    <3>2. w[2] \in 0..b[2] /\ w = <<b[1], w[2]>>
      BY <3>1
    <3>3. Score[b] <= Score[w] /\ Score[b] \in Nat /\ Score[w] \in Nat
      BY <1>2, <2>1, <3>1, <3>2, CountsTypes
    <3>4. Better(w, b)
      BY <3>1, <3>3 DEF Better
    <3> QED
      BY <2>1, <3>4 DEF w
  <2>6. LeakageCosts
    BY <2>5 DEF LeakageCosts
  <2> QED
    BY <2>4, <2>6
<1> QED
  BY <1>3, <1>4

-----------------------------------------------------------------------------
(* The scores of a chunk (WindowScores).                                   *)

\* A place in rows of w, and back.
LEMMA PlaceInRows ==
    ASSUME NEW w \in Nat \ {0}, NEW h \in Nat \ {0}, NEW n \in 0..(w * h - 1)
    PROVE  n % w \in 0..(w - 1) /\ n \div w \in 0..(h - 1) /\ ((n \div w) * w) + (n % w) = n
<1> DEFINE q == n \div w
           r == n % w
<1>1. /\ q \in Int /\ r \in 0..(w - 1) /\ q * w + r = n
  OBVIOUS
<1> HIDE DEF q, r
<1>2. w * h \in Nat /\ n < w * h
  OBVIOUS
<1>3. ~(q < 0)
  <2> SUFFICES ASSUME q < 0 PROVE FALSE
    OBVIOUS
  <2>1. q + 1 <= 0 /\ (q + 1) * w <= 0 /\ (q + 1) * w = q * w + w
    BY <1>1
  <2> QED
    BY <1>1, <2>1
<1>4. ~(q >= h)
  <2> SUFFICES ASSUME q >= h PROVE FALSE
    OBVIOUS
  <2>1. q * w >= h * w /\ h * w = w * h
    BY <1>1
  <2> QED
    BY <1>1, <1>2, <2>1
<1> QED
  BY <1>1, <1>3, <1>4 DEF q, r

LEMMA RowsOfPlace ==
    ASSUME NEW w \in Nat \ {0}, NEW h \in Nat \ {0}, NEW x \in 0..(w - 1), NEW y \in 0..(h - 1)
    PROVE  /\ y * w + x \in 0..(w * h - 1)
           /\ (y * w + x) % w = x /\ (y * w + x) \div w = y
<1>1. y * w + x \in 0..(w * h - 1)
  <2>1. y <= h - 1 /\ y * w <= (h - 1) * w /\ (h - 1) * w = w * h - w
    OBVIOUS
  <2>2. y * w \in Nat
    OBVIOUS
  <2> QED
    BY <2>1, <2>2
<1> DEFINE n == y * w + x
           q == n \div w
           r == n % w
<1>2. q \in Int /\ r \in 0..(w - 1) /\ q * w + r = n /\ n \in Int
  OBVIOUS
<1>3. q * w + r = y * w + x
  BY <1>2
<1> HIDE DEF n, q, r
<1>4. ~(q < y)
  <2> SUFFICES ASSUME q < y PROVE FALSE
    OBVIOUS
  <2>1. q + 1 <= y /\ (q + 1) * w <= y * w /\ (q + 1) * w = q * w + w
    BY <1>2
  <2> QED
    BY <1>2, <1>3, <2>1
<1>5. ~(y < q)
  <2> SUFFICES ASSUME y < q PROVE FALSE
    OBVIOUS
  <2>1. y + 1 <= q /\ (y + 1) * w <= q * w /\ (y + 1) * w = y * w + w
    BY <1>2
  <2> QED
    BY <1>2, <1>3, <2>1
<1>6. q = y
  BY <1>2, <1>4, <1>5
<1>7. r = x
  BY <1>2, <1>3, <1>6
<1> QED
  BY <1>1, <1>6, <1>7 DEF n, q, r

\* Counting what is renamed, one by one.
LEMMA SameCount ==
    ASSUME NEW A, NEW B, IsFiniteSet(A), NEW f \in [A -> B],
           \A a, b \in A : f[a] = f[b] => a = b,
           \A b \in B : \E a \in A : f[a] = b
    PROVE  IsFiniteSet(B) /\ Cardinality(B) = Cardinality(A)
<1>1. f \in Bijection(A, B)
  BY DEF Bijection, Injection, Surjection, IsInjective
<1> QED
  BY <1>1, FS_Bijection DEF ExistsBijection

\* What is known of a chunk's parameters.
LEMMA ChunkCounts == \A S : Chunk!Cardinality(S) = Cardinality(S)
BY DEF Chunk!Cardinality, Cardinality

W == Chunk!Width
H == Chunk!Height
Px == Chunk!PixelIndices
Spots(pixel) == {p \in Px : Chunk!Pixels[p + 1] = pixel}

LEMMA SearchIsTyped ==
    ASSUME search \in Searches
    PROVE  /\ W \in Nat \ {0} /\ H \in Nat \ {0}
           /\ Len(Chunk!Pixels) = W * H /\ W * H \in Nat \ {0}
           /\ Px = 0..(W * H - 1) /\ IsFiniteSet(Px) /\ Cardinality(Px) = W * H
           /\ \A p \in Px : Chunk!Pixels[p + 1] \in {0, 1}
           /\ search.threshold \in Nat /\ search.invert \in BOOLEAN
           /\ search.digits \in Seq(0..(Digits - 1)) /\ Digits \in Nat \ {0}
           /\ Chunk!Emergence =>
                  /\ search.canvas_width \in Nat /\ search.canvas_height \in Nat
                  /\ W <= search.canvas_width /\ H <= search.canvas_height
<1>1. /\ search \in Chunk!SearchType
      /\ Len(search.target.pixels) = search.target.width * search.target.height
      /\ search.mode = "emergence" =>
             /\ search.target.width <= search.canvas_width
             /\ search.target.height <= search.canvas_height
      /\ Digits \in Nat \ {0}
  BY SearchesAssumption DEF Chunk!SearchesConstants
<1>2. /\ search.target \in Chunk!TargetType
      /\ search.canvas_width \in Nat /\ search.canvas_height \in Nat
      /\ search.threshold \in Nat /\ search.invert \in BOOLEAN
      /\ search.digits \in Seq(0..(Digits - 1))
  BY <1>1 DEF Chunk!SearchType
<1>3. /\ search.target.width \in Nat \ {0} /\ search.target.height \in Nat \ {0}
      /\ search.target.pixels \in Seq({0, 1})
  BY <1>2 DEF Chunk!TargetType
<1>4. /\ W \in Nat \ {0} /\ H \in Nat \ {0} /\ Len(Chunk!Pixels) = W * H
      /\ Chunk!Pixels \in Seq({0, 1})
  BY <1>1, <1>3 DEF W, H, Chunk!Width, Chunk!Height, Chunk!Pixels
<1>5. W * H \in Nat \ {0}
  BY <1>4
<1>6. Px = 0..(W * H - 1)
  BY <1>4 DEF Px, Chunk!PixelIndices
<1>7. IsFiniteSet(Px) /\ Cardinality(Px) = W * H
  BY <1>5, <1>6, FS_Interval
<1>8. \A p \in Px : Chunk!Pixels[p + 1] \in {0, 1}
  <2>1. \A i \in 1..Len(Chunk!Pixels) : Chunk!Pixels[i] \in {0, 1}
    BY <1>4
  <2>2. \A p \in Px : p + 1 \in 1..Len(Chunk!Pixels)
    BY <1>4, <1>5, <1>6
  <2> QED
    BY <2>1, <2>2
<1>9. Chunk!Emergence =>
          /\ search.canvas_width \in Nat /\ search.canvas_height \in Nat
          /\ W <= search.canvas_width /\ H <= search.canvas_height
  BY <1>1, <1>2 DEF Chunk!Emergence, W, H, Chunk!Width, Chunk!Height
<1> QED
  BY <1>1, <1>2, <1>4, <1>5, <1>6, <1>7, <1>8, <1>9

\* The shape and the background are the pixels of the target.
LEMMA SpotsAreCounted ==
    ASSUME search \in Searches
    PROVE  /\ IsFiniteSet(Spots(0)) /\ IsFiniteSet(Spots(1))
           /\ Chunk!ShapePixels = Cardinality(Spots(1))
           /\ Chunk!BackgroundPixels = Cardinality(Spots(0))
           /\ Chunk!ShapePixels \in Nat /\ Chunk!BackgroundPixels \in Nat
           /\ Chunk!ShapePixels + Chunk!BackgroundPixels = Len(Chunk!Pixels)
<1>1. Spots(0) \in SUBSET Px /\ Spots(1) \in SUBSET Px /\ Spots(0) = Px \ Spots(1)
      /\ Px \cap Spots(1) = Spots(1)
  BY SearchIsTyped DEF Spots
<1>2. /\ IsFiniteSet(Spots(0)) /\ IsFiniteSet(Spots(1))
      /\ Cardinality(Spots(0)) \in Nat /\ Cardinality(Spots(1)) \in Nat
  BY <1>1, SearchIsTyped, FS_Subset, FS_CardinalityType
<1>3. Cardinality(Spots(0)) = Cardinality(Px) - Cardinality(Spots(1))
  BY <1>1, SearchIsTyped, FS_Difference
<1>4. Chunk!ShapePixels = Cardinality(Spots(1))
  BY ChunkCounts DEF Chunk!ShapePixels, Chunk!Count, Spots, Px
<1>5. Chunk!BackgroundPixels = Len(Chunk!Pixels) - Chunk!ShapePixels
  BY DEF Chunk!BackgroundPixels
<1> QED
  BY <1>2, <1>3, <1>4, <1>5, SearchIsTyped

-----------------------------------------------------------------------------
(* Where a pixel of the target lies, and what is counted there.            *)

Hits(d, x, y, digit, pixel) ==
    {p \in Spots(pixel) : d[Chunk!PlanOffset(x, y, p) + 1] = digit}

LEMMA HitsAreCounted ==
    ASSUME search \in Searches, NEW d, NEW x, NEW y, NEW digit, NEW pixel \in {0, 1}
    PROVE  /\ IsFiniteSet(Hits(d, x, y, digit, pixel))
           /\ Cardinality(Hits(d, x, y, digit, pixel)) \in 0..Cardinality(Spots(pixel))
           /\ Hits(d, x, y, digit, pixel) # {} => Cardinality(Hits(d, x, y, digit, pixel)) > 0
<1>1. Hits(d, x, y, digit, pixel) \in SUBSET Spots(pixel) /\ IsFiniteSet(Spots(pixel))
  BY SpotsAreCounted DEF Hits
<1>2. /\ IsFiniteSet(Hits(d, x, y, digit, pixel))
      /\ Cardinality(Hits(d, x, y, digit, pixel)) \in Nat
      /\ Cardinality(Hits(d, x, y, digit, pixel)) <= Cardinality(Spots(pixel))
      /\ Cardinality(Spots(pixel)) \in Nat
  BY <1>1, FS_Subset, FS_CardinalityType
<1> QED
  BY <1>2, FS_EmptySet

\* Different pixels lie at different places.
LEMMA OffsetsDiffer ==
    ASSUME search \in Searches, Chunk!Emergence, NEW x \in Nat, NEW y \in Nat,
           x + W <= search.canvas_width, NEW p \in Px, NEW q \in Px,
           Chunk!PlanOffset(x, y, p) = Chunk!PlanOffset(x, y, q)
    PROVE  p = q
<1> DEFINE c == search.canvas_width
           pr == p \div W
           pc == p % W
           qr == q \div W
           qc == q % W
<1>1. /\ W \in Nat \ {0} /\ c \in Nat /\ W <= c
      /\ pc \in 0..(W - 1) /\ pr \in 0..(H - 1) /\ (pr * W) + pc = p
      /\ qc \in 0..(W - 1) /\ qr \in 0..(H - 1) /\ (qr * W) + qc = q
  BY SearchIsTyped, PlaceInRows
<1>2. (y + pr) * c + x + pc = (y + qr) * c + x + qc
  BY DEF Chunk!PlanOffset, W
<1> HIDE DEF c, pr, pc, qr, qc
<1>3. pr \in Nat /\ qr \in Nat /\ pc \in Nat /\ qc \in Nat
  BY <1>1
<1>4. pr * c + pc = qr * c + qc
  <2>1. (y + pr) * c = y * c + pr * c /\ (y + qr) * c = y * c + qr * c
    BY <1>1, <1>3
  <2>2. y * c \in Int /\ pr * c \in Int /\ qr * c \in Int
    BY <1>1, <1>3
  <2>3. (y * c + pr * c) + x + pc = (y * c + qr * c) + x + qc
    BY <1>2, <2>1
  <2> DEFINE u == y * c
             a == pr * c
             b == qr * c
  <2>4. u \in Int /\ a \in Int /\ b \in Int /\ (u + a) + x + pc = (u + b) + x + qc
    BY <2>2, <2>3
  <2> HIDE DEF u, a, b
  <2>5. a + pc = b + qc
    BY <1>3, <2>4
  <2> QED
    BY <2>5 DEF a, b
<1>5. ~(pr < qr)
  <2> SUFFICES ASSUME pr < qr PROVE FALSE
    OBVIOUS
  <2>1. (pr + 1) * c <= qr * c /\ (pr + 1) * c = pr * c + c
    BY <1>1, <1>3
  <2> QED
    BY <1>1, <1>3, <1>4, <2>1
<1>6. ~(qr < pr)
  <2> SUFFICES ASSUME qr < pr PROVE FALSE
    OBVIOUS
  <2>1. (qr + 1) * c <= pr * c /\ (qr + 1) * c = qr * c + c
    BY <1>1, <1>3
  <2> QED
    BY <1>1, <1>3, <1>4, <2>1
<1>7. pr = qr
  BY <1>3, <1>5, <1>6
<1>8. pc = qc
  BY <1>1, <1>3, <1>4, <1>7
<1> QED
  BY <1>1, <1>7, <1>8

Planned(d, x, y, digit, pixel) ==
    {o \in {Chunk!PlanOffset(x, y, p) : p \in Spots(pixel)} : d[o + 1] = digit}
LaidOver(d, x, y, digit, pixel) ==
    {t \in (0..(W - 1)) \X (0..(H - 1)) :
        /\ d[(y + t[2]) * search.canvas_width + (x + t[1]) + 1] = digit
        /\ Chunk!Pixels[t[2] * W + t[1] + 1] = pixel}

\* The plan counts what lies at the offsets of the shape or the background.
LEMMA PlannedHits ==
    ASSUME search \in Searches, Chunk!Emergence, NEW d, NEW x \in Nat, NEW y \in Nat,
           x + W <= search.canvas_width, NEW digit, NEW pixel \in {0, 1}
    PROVE  Cardinality(Planned(d, x, y, digit, pixel))
               = Cardinality(Hits(d, x, y, digit, pixel))
<1> DEFINE A == Hits(d, x, y, digit, pixel)
           B == Planned(d, x, y, digit, pixel)
           f == [p \in A |-> Chunk!PlanOffset(x, y, p)]
<1>1. IsFiniteSet(A)
  BY HitsAreCounted
<1>2. f \in [A -> B]
  BY DEF Hits, Planned
<1>3. \A a, b \in A : f[a] = f[b] => a = b
  <2>1. \A a, b \in A : a \in Px /\ b \in Px
    BY DEF Hits, Spots
  <2>2. \A a \in A : f[a] = Chunk!PlanOffset(x, y, a)
    OBVIOUS
  <2> HIDE DEF f, A
  <2> QED
    BY <2>1, <2>2, OffsetsDiffer
<1>4. \A b \in B : \E a \in A : f[a] = b
  BY DEF Hits, Planned
<1> HIDE DEF A, B, f
<1>5. Cardinality(B) = Cardinality(A)
  BY <1>1, <1>2, <1>3, <1>4, SameCount
<1> QED
  BY <1>5 DEF A, B

\* The reference counts the columns and rows of the target.
LEMMA DirectHits ==
    ASSUME search \in Searches, Chunk!Emergence, NEW d, NEW x \in Nat, NEW y \in Nat,
           NEW digit, NEW pixel \in {0, 1}
    PROVE  Cardinality(LaidOver(d, x, y, digit, pixel))
               = Cardinality(Hits(d, x, y, digit, pixel))
<1> DEFINE A == Hits(d, x, y, digit, pixel)
           B == LaidOver(d, x, y, digit, pixel)
           f == [p \in A |-> <<p % W, p \div W>>]
<1>0. /\ W \in Nat \ {0} /\ H \in Nat \ {0} /\ Px = 0..(W * H - 1)
      /\ search.canvas_width \in Nat
  BY SearchIsTyped
<1>1. IsFiniteSet(A)
  BY HitsAreCounted
<1>2. ASSUME NEW p \in Px
      PROVE  /\ p % W \in 0..(W - 1) /\ p \div W \in 0..(H - 1)
             /\ ((p \div W) * W) + (p % W) + 1 = p + 1
             /\ Chunk!PlanOffset(x, y, p) + 1
                    = (y + (p \div W)) * search.canvas_width + (x + (p % W)) + 1
  <2> DEFINE r == p \div W
             c == p % W
  <2>1. r \in 0..(H - 1) /\ c \in 0..(W - 1) /\ (r * W) + c = p /\ p \in Int
    <3>1. p \in 0..(W * H - 1) /\ p \in Int
      BY <1>0, <1>2
    <3> QED
      BY <1>0, <3>1, PlaceInRows
  <2>2. Chunk!PlanOffset(x, y, p) = (y + r) * search.canvas_width + x + c
    BY DEF Chunk!PlanOffset, W
  <2> HIDE DEF r, c
  <2> DEFINE s == (y + r) * search.canvas_width
  <2>3. s \in Int
    BY <1>0, <2>1
  <2> HIDE DEF s
  <2>4. s + x + c + 1 = s + (x + c) + 1
    BY <2>1, <2>3
  <2> QED
    BY <2>1, <2>2, <2>4 DEF r, c, s
<1>3. ASSUME NEW p \in A PROVE f[p] = <<p % W, p \div W>> /\ f[p] \in B
  <2>1. p \in Px /\ Chunk!Pixels[p + 1] = pixel /\ d[Chunk!PlanOffset(x, y, p) + 1] = digit
    BY <1>3 DEF Hits, Spots
  <2>2. f[p] = <<p % W, p \div W>>
    BY <1>3
  <2> HIDE DEF f, A
  <2>3. /\ d[(y + (p \div W)) * search.canvas_width + (x + (p % W)) + 1] = digit
        /\ Chunk!Pixels[(p \div W) * W + (p % W) + 1] = pixel
    BY <1>2, <2>1
  <2>4. <<p % W, p \div W>> \in B
    BY <1>2, <2>1, <2>3 DEF LaidOver
  <2> QED
    BY <2>2, <2>4
<1>4. f \in [A -> B]
  BY <1>3
<1>5. \A a, b \in A : f[a] = f[b] => a = b
  <2> SUFFICES ASSUME NEW a \in A, NEW b \in A, f[a] = f[b] PROVE a = b
    OBVIOUS
  <2>1. a % W = b % W /\ a \div W = b \div W
    BY <1>3
  <2>2. a \in Px /\ b \in Px
    BY DEF Hits, Spots
  <2>3. ((a \div W) * W) + (a % W) = a /\ ((b \div W) * W) + (b % W) = b
    BY <1>0, <2>2, PlaceInRows
  <2> HIDE DEF f, A, B
  <2> QED
    BY <2>1, <2>3
<1>6. ASSUME NEW t \in B PROVE \E a \in A : f[a] = t
  <2>1. /\ t[1] \in 0..(W - 1) /\ t[2] \in 0..(H - 1) /\ t = <<t[1], t[2]>>
        /\ d[(y + t[2]) * search.canvas_width + (x + t[1]) + 1] = digit
        /\ Chunk!Pixels[t[2] * W + t[1] + 1] = pixel
    BY <1>6 DEF LaidOver
  <2>0. PICK c \in 0..(W - 1), r \in 0..(H - 1) : t[1] = c /\ t[2] = r
    BY <2>1
  <2> DEFINE p == t[2] * W + t[1]
  <2>2. p \in Px /\ (p % W) = t[1] /\ (p \div W) = t[2]
    <3>1. r * W + c \in 0..(W * H - 1) /\ (r * W + c) % W = c /\ (r * W + c) \div W = r
      <4>1. ASSUME NEW w \in Nat \ {0}, NEW h \in Nat \ {0}, NEW i \in 0..(w - 1), NEW j \in 0..(h - 1),
                   w = W, h = H, i = c, j = r
            PROVE  r * W + c \in 0..(W * H - 1) /\ (r * W + c) % W = c /\ (r * W + c) \div W = r
        <5> HIDE DEF A, B, f, p
        <5>1. /\ j * w + i \in 0..(w * h - 1)
              /\ (j * w + i) % w = i /\ (j * w + i) \div w = j
          BY RowsOfPlace
        <5> QED
          BY <4>1, <5>1
      <4> HIDE DEF A, B, f, p
      <4> QED
        BY <1>0, <4>1
    <3>2. p = r * W + c
      BY <2>0
    <3> HIDE DEF p
    <3> QED
      BY <1>0, <2>0, <3>1, <3>2
  <2> HIDE DEF p
  <2>3. Chunk!Pixels[p + 1] = pixel
    BY <2>1 DEF p
  <2>4. d[Chunk!PlanOffset(x, y, p) + 1] = digit
    BY <1>2, <2>1, <2>2
  <2>5. p \in A
    BY <2>2, <2>3, <2>4 DEF Hits, Spots
  <2> HIDE DEF A, B, f
  <2> QED
    BY <1>3, <2>1, <2>2, <2>5
<1> HIDE DEF A, B, f
<1>7. Cardinality(B) = Cardinality(A)
  BY <1>1, <1>4, <1>5, <1>6, SameCount
<1> QED
  BY <1>7 DEF A, B

\* A placement of the target and the counts of a digit there.
Places(d, x, y, digit) ==
    [digit |-> digit, x |-> x, y |-> y,
     covered |-> Cardinality(Hits(d, x, y, digit, 1)),
     leaked |-> Cardinality(Hits(d, x, y, digit, 0))]
Trials == 1..(Digits * Chunk!Columns * Chunk!Rows)
TrialX(k) == ((k - 1) \div Digits) % Chunk!Columns
TrialY(k) == ((k - 1) \div Digits) \div Chunk!Columns
TrialDigit(k) == (k - 1) % Digits

LEMMA TrialsAreTyped ==
    ASSUME search \in Searches, Chunk!Emergence
    PROVE  /\ Chunk!Columns \in Nat \ {0} /\ Chunk!Rows \in Nat \ {0}
           /\ Digits * Chunk!Columns * Chunk!Rows \in Nat \ {0}
           /\ \A k \in Trials :
                  /\ TrialX(k) \in 0..(Chunk!Columns - 1) /\ TrialX(k) + W <= search.canvas_width
                  /\ TrialY(k) \in 0..(Chunk!Rows - 1) /\ TrialY(k) + H <= search.canvas_height
                  /\ TrialDigit(k) \in 0..(Digits - 1)
                  /\ 1 + ((k - 1) \div Digits) \in 1..(Chunk!Columns * Chunk!Rows)
<1> DEFINE c == Chunk!Columns
           r == Chunk!Rows
<1>1. /\ c \in Nat \ {0} /\ r \in Nat \ {0} /\ Digits \in Nat \ {0}
      /\ c = search.canvas_width - W + 1 /\ r = search.canvas_height - H + 1
      /\ W \in Nat \ {0} /\ H \in Nat \ {0}
      /\ search.canvas_width \in Nat /\ search.canvas_height \in Nat
  <2>1. c = search.canvas_width - W + 1 /\ r = search.canvas_height - H + 1
    BY DEF Chunk!Columns, Chunk!Rows, W, H
  <2> HIDE DEF c, r
  <2>2. /\ Digits \in Nat \ {0} /\ W \in Nat \ {0} /\ H \in Nat \ {0}
        /\ search.canvas_width \in Nat /\ search.canvas_height \in Nat
        /\ W <= search.canvas_width /\ H <= search.canvas_height
    BY SearchIsTyped
  <2> QED
    BY <2>1, <2>2
<1> HIDE DEF c, r
<1>2. c * r \in Nat \ {0}
  BY <1>1
<1>3. Digits * c * r = Digits * (c * r) /\ Digits * (c * r) \in Nat \ {0}
  <2>1. \A a, b, e \in Nat \ {0} : a * b * e = a * (b * e) /\ a * (b * e) \in Nat \ {0}
    OBVIOUS
  <2> QED
    BY <1>1, <2>1
<1>4. ASSUME NEW k \in 1..(Digits * (c * r))
      PROVE  /\ (k - 1) % Digits \in 0..(Digits - 1)
             /\ 1 + ((k - 1) \div Digits) \in 1..(c * r)
             /\ ((k - 1) \div Digits) % c \in 0..(c - 1)
             /\ ((k - 1) \div Digits) \div c \in 0..(r - 1)
  <2>1. k - 1 \in 0..(Digits * (c * r) - 1)
    BY <1>2, <1>3
  <2> DEFINE n == (k - 1) \div Digits
  <2>2. (k - 1) % Digits \in 0..(Digits - 1) /\ n \in 0..(c * r - 1)
    BY <1>1, <1>2, <2>1, PlaceInRows
  <2> HIDE DEF n
  <2>3. (n % c) \in 0..(c - 1) /\ (n \div c) \in 0..(r - 1)
    BY <1>1, <2>2, PlaceInRows
  <2>4. 1 + n \in 1..(c * r)
    BY <1>2, <2>2
  <2> QED
    BY <2>2, <2>3, <2>4 DEF n
<1>5. Trials = 1..(Digits * (c * r))
  BY <1>3 DEF Trials, c, r
<1>6. ASSUME NEW k \in Trials
      PROVE  /\ TrialX(k) \in 0..(c - 1) /\ TrialY(k) \in 0..(r - 1)
             /\ TrialDigit(k) \in 0..(Digits - 1) /\ 1 + ((k - 1) \div Digits) \in 1..(c * r)
  BY <1>4, <1>5, <1>6 DEF TrialX, TrialY, TrialDigit, c
<1>7. \A x \in 0..(c - 1) : x + W <= search.canvas_width
  BY <1>1
<1>8. \A y \in 0..(r - 1) : y + H <= search.canvas_height
  BY <1>1
<1> QED
  BY <1>1, <1>3, <1>6, <1>7, <1>8 DEF c, r

\* The plan and the reference count the same, in the same order.
LEMMA CandidatesAgree ==
    ASSUME search \in Searches, Chunk!Emergence, NEW d
    PROVE  /\ Chunk!PlanCandidates(d) = Chunk!DirectCandidates(d)
           /\ Chunk!PlanCandidates(d)
                  = [k \in Trials |-> Places(d, TrialX(k), TrialY(k), TrialDigit(k))]
<1>1. ASSUME NEW x \in Nat, NEW y \in Nat, x + W <= search.canvas_width,
             NEW digit, NEW pixel \in {0, 1}
      PROVE  /\ Cardinality(Planned(d, x, y, digit, pixel)) = Cardinality(Hits(d, x, y, digit, pixel))
             /\ Cardinality(LaidOver(d, x, y, digit, pixel)) = Cardinality(Hits(d, x, y, digit, pixel))
  BY <1>1, PlannedHits, DirectHits
<1>2. ASSUME NEW k \in Trials
      PROVE  /\ TrialX(k) \in Nat /\ TrialY(k) \in Nat /\ TrialX(k) + W <= search.canvas_width
             /\ 1 + ((k - 1) \div Digits) \in 1..(Chunk!Columns * Chunk!Rows)
             /\ (1 + ((k - 1) \div Digits)) - 1 = (k - 1) \div Digits
  <2> DEFINE n == (k - 1) \div Digits
  <2>0. k - 1 \in Int /\ Digits \in Nat \ {0}
    BY SearchIsTyped DEF Trials
  <2>1. n \in Int
    BY <2>0
  <2> HIDE DEF n
  <2>2. (1 + n) - 1 = n
    BY <2>1
  <2> QED
    BY <2>2, TrialsAreTyped DEF n
<1> DEFINE PX(k) == (k - 1) % Chunk!Columns
           PY(k) == (k - 1) \div Chunk!Columns
<1>3. ASSUME NEW k \in 1..(Chunk!Columns * Chunk!Rows)
      PROVE  Chunk!Plan[k] =
                 [x |-> PX(k), y |-> PY(k),
                  shape |-> {Chunk!PlanOffset(PX(k), PY(k), p) : p \in Spots(1)},
                  background |-> {Chunk!PlanOffset(PX(k), PY(k), p) : p \in Spots(0)}]
  BY <1>3 DEF Chunk!Plan, Spots, Px
<1>4. ASSUME NEW k \in Trials
      PROVE  Chunk!Plan[1 + ((k - 1) \div Digits)] =
                 [x |-> TrialX(k), y |-> TrialY(k),
                  shape |-> {Chunk!PlanOffset(TrialX(k), TrialY(k), p) : p \in Spots(1)},
                  background |-> {Chunk!PlanOffset(TrialX(k), TrialY(k), p) : p \in Spots(0)}]
  <2> DEFINE n == 1 + ((k - 1) \div Digits)
  <2>1. n \in 1..(Chunk!Columns * Chunk!Rows) /\ n - 1 = (k - 1) \div Digits
    BY <1>2
  <2>2. PX(n) = TrialX(k) /\ PY(n) = TrialY(k)
    <3> HIDE DEF n
    <3> QED
      BY <2>1 DEF TrialX, TrialY
  <2> HIDE DEF n, PX, PY
  <2> QED
    BY <1>3, <2>1, <2>2 DEF n
<1>5. ASSUME NEW k \in Trials
      PROVE  Chunk!PlanCandidates(d)[k] = Places(d, TrialX(k), TrialY(k), TrialDigit(k))
  <2> DEFINE q == Chunk!Plan[1 + ((k - 1) \div Digits)]
             on == {o \in q.shape : d[o + 1] = TrialDigit(k)}
             off == {o \in q.background : d[o + 1] = TrialDigit(k)}
  <2>1. Chunk!PlanCandidates(d)[k] =
            [digit |-> TrialDigit(k), x |-> q.x, y |-> q.y,
             covered |-> Cardinality(on), leaked |-> Cardinality(off)]
    BY ChunkCounts DEF Chunk!PlanCandidates, Trials, TrialDigit, Chunk!Count
  <2> HIDE DEF q
  <2>2. /\ q.x = TrialX(k) /\ q.y = TrialY(k)
        /\ q.shape = {Chunk!PlanOffset(TrialX(k), TrialY(k), p) : p \in Spots(1)}
        /\ q.background = {Chunk!PlanOffset(TrialX(k), TrialY(k), p) : p \in Spots(0)}
    <3>1. q = [x |-> TrialX(k), y |-> TrialY(k),
               shape |-> {Chunk!PlanOffset(TrialX(k), TrialY(k), p) : p \in Spots(1)},
               background |-> {Chunk!PlanOffset(TrialX(k), TrialY(k), p) : p \in Spots(0)}]
      BY <1>4 DEF q
    <3> QED
      BY <3>1
  <2>3. /\ on = Planned(d, TrialX(k), TrialY(k), TrialDigit(k), 1)
        /\ off = Planned(d, TrialX(k), TrialY(k), TrialDigit(k), 0)
    BY <2>2 DEF Planned
  <2> HIDE DEF on, off
  <2> QED
    BY <1>1, <1>2, <2>1, <2>2, <2>3 DEF Places
<1>6. ASSUME NEW k \in Trials
      PROVE  Chunk!DirectCandidates(d)[k] = Places(d, TrialX(k), TrialY(k), TrialDigit(k))
  <2>1. Chunk!DirectCandidates(d)[k] =
            [digit |-> TrialDigit(k), x |-> TrialX(k), y |-> TrialY(k),
             covered |-> Cardinality(LaidOver(d, TrialX(k), TrialY(k), TrialDigit(k), 1)),
             leaked |-> Cardinality(LaidOver(d, TrialX(k), TrialY(k), TrialDigit(k), 0))]
    BY ChunkCounts
    DEF Chunk!DirectCandidates, Trials, TrialX, TrialY, TrialDigit, Chunk!Count, W, H, LaidOver
  <2> QED
    BY <1>1, <1>2, <2>1 DEF Places
<1>7. /\ Chunk!PlanCandidates(d) = [k \in Trials |-> Chunk!PlanCandidates(d)[k]]
      /\ Chunk!DirectCandidates(d) = [k \in Trials |-> Chunk!DirectCandidates(d)[k]]
  BY DEF Chunk!PlanCandidates, Chunk!DirectCandidates, Trials
<1> QED
  BY <1>5, <1>6, <1>7

-----------------------------------------------------------------------------
(* Rounding to millionths, and the best of a sequence of scores.           *)

Million == Chunk!QuantizationScale

LEMMA MillionIs == Million \in Nat \ {0}
BY SMT DEF Million, Chunk!QuantizationScale

LEMMA Rounded ==
    ASSUME NEW whole \in Nat \ {0}, NEW part \in 0..whole
    PROVE  /\ Chunk!Quantize(part, whole) \in 0..Million
           /\ Chunk!Quantize(part, whole) = Million <=> (2 * Million) * (whole - part) <= whole
<1> DEFINE n == 2 * part * Million + whole
           k == 2 * whole
           v == n \div k
<1>0. Million \in Nat \ {0}
  BY MillionIs
<1>1. /\ n \in Nat /\ k \in Nat \ {0} /\ (2 * Million) * (whole - part) = k * Million + whole - n
      /\ k * Million \in Nat
  BY <1>0
<1>2. Chunk!Quantize(part, whole) = IF v <= Million THEN v ELSE Million
  BY DEF Chunk!Quantize, Chunk!Least, Million
<1> HIDE DEF n, k
<1>3. v \in Int /\ k * v <= n /\ n < k * v + k /\ k * v \in Int
  BY <1>1
<1> HIDE DEF v
<1>4. v >= 0
  <2> SUFFICES ASSUME v < 0 PROVE FALSE
    BY <1>3
  <2>1. v + 1 <= 0 /\ k * (v + 1) <= 0 /\ k * (v + 1) = k * v + k
    BY <1>1, <1>3
  <2> QED
    BY <1>1, <1>3, <2>1
<1>5. v >= Million => n >= k * Million
  <2>1. v >= Million => k * v >= k * Million
    BY <1>0, <1>1, <1>3
  <2> QED
    BY <1>1, <1>3, <2>1
<1>6. v < Million => n < k * Million
  <2>1. v < Million => k * (v + 1) <= k * Million /\ k * (v + 1) = k * v + k
    BY <1>0, <1>1, <1>3
  <2> QED
    BY <1>1, <1>3, <2>1
<1>7. v >= Million <=> (2 * Million) * (whole - part) <= whole
  BY <1>0, <1>1, <1>3, <1>5, <1>6
<1> QED
  BY <1>0, <1>2, <1>3, <1>4, <1>7

\* What scores are compared by.
CoveredOf(s) == IF s.statistics = None THEN 0 ELSE s.statistics.covered
LeakedOf(s) == IF s.statistics = None THEN 0 ELSE s.statistics.leaked
Ranked(s) == s.score \in Nat /\ CoveredOf(s) \in Nat /\ LeakedOf(s) \in Nat

LEMMA BetterIs ==
    ASSUME NEW a, NEW b
    PROVE  Chunk!IsBetter(a, b) <=>
               \/ a.score > b.score
               \/ a.score = b.score /\ CoveredOf(a) > CoveredOf(b)
               \/ a.score = b.score /\ CoveredOf(a) = CoveredOf(b) /\ LeakedOf(a) < LeakedOf(b)
BY DEF Chunk!IsBetter, CoveredOf, LeakedOf

\* To be no better is an order.
LEMMA NoBetterOrders ==
    ASSUME NEW a, NEW b, NEW c, Ranked(a), Ranked(b), Ranked(c)
    PROVE  /\ ~Chunk!IsBetter(a, a)
           /\ ~Chunk!IsBetter(a, b) /\ ~Chunk!IsBetter(b, c) => ~Chunk!IsBetter(a, c)
           /\ ~Chunk!IsBetter(a, b) /\ Chunk!IsBetter(c, b) => ~Chunk!IsBetter(a, c)
BY BetterIs DEF Ranked

LEMMA BestOfAll ==
    ASSUME NEW old, NEW scored, Len(scored) \in Nat, Ranked(old),
           \A k \in 1..Len(scored) : Ranked(scored[k])
    PROVE  /\ \/ Chunk!TakeBest(old, scored) = old
              \/ \E k \in 1..Len(scored) : Chunk!TakeBest(old, scored) = scored[k]
           /\ ~Chunk!IsBetter(old, Chunk!TakeBest(old, scored))
           /\ \A k \in 1..Len(scored) : ~Chunk!IsBetter(scored[k], Chunk!TakeBest(old, scored))
<1> DEFINE N == Len(scored)
           V == {old} \cup {scored[k] : k \in 1..N}
           Is(f) == f = [k \in 0..N |->
                            IF k = 0 THEN old
                            ELSE IF Chunk!IsBetter(scored[k], f[k - 1]) THEN scored[k] ELSE f[k - 1]]
<1>0. N \in Nat
  OBVIOUS
<1>1. PICK f : Is(f)
  <2> DEFINE step == [p \in Nat \X V |->
                         IF p[1] \in 1..N /\ Chunk!IsBetter(scored[p[1]], p[2])
                         THEN scored[p[1]] ELSE p[2]]
  <2>1. step \in [Nat \X V -> V]
    OBVIOUS
  <2>2. \A k \in 1..N, u \in V :
            step[<<k, u>>] = IF Chunk!IsBetter(scored[k], u) THEN scored[k] ELSE u
    BY <1>0
  <2> HIDE DEF step
  <2>3. old \in V
    OBVIOUS
  <2> HIDE DEF V
  <2>4. PICK f \in [0..N -> V] : Steps(f, old, step, N)
    BY <1>0, <2>1, <2>3, StepsExist
  <2>5. ASSUME NEW k \in 0..N
        PROVE  f[k] = IF k = 0 THEN old
                      ELSE IF Chunk!IsBetter(scored[k], f[k - 1]) THEN scored[k] ELSE f[k - 1]
    <3>1. CASE k = 0
      BY <2>4, <3>1 DEF Steps
    <3>2. CASE k # 0
      <4>1. k \in 1..N /\ k - 1 \in 0..N
        BY <1>0, <3>2
      <4>2. f[k] = step[<<k, f[k - 1]>>] /\ f[k - 1] \in V
        BY <2>4, <4>1 DEF Steps
      <4> QED
        BY <2>2, <3>2, <4>1, <4>2
    <3> QED
      BY <3>1, <3>2
  <2> QED
    BY <2>4, <2>5
<1> DEFINE g == CHOOSE e : Is(e)
<1>2. Is(g)
  BY <1>1
<1>3. Chunk!TakeBest(old, scored) = g[N]
  BY DEF Chunk!TakeBest
<1> HIDE DEF g
<1>4. \A k \in 0..N : g[k] = IF k = 0 THEN old
                             ELSE IF Chunk!IsBetter(scored[k], g[k - 1])
                                  THEN scored[k] ELSE g[k - 1]
  BY <1>2
<1> HIDE DEF Is
<1> DEFINE Good(k) == /\ g[k] = old \/ \E i \in 1..N : g[k] = scored[i]
                      /\ ~Chunk!IsBetter(old, g[k])
                      /\ \A i \in 1..k : ~Chunk!IsBetter(scored[i], g[k])
           Bad == {k \in 0..N : ~Good(k)}
<1>5. Bad = {}
  <2> SUFFICES ASSUME Bad # {} PROVE FALSE
    OBVIOUS
  <2>1. PICK k \in Bad : \A m \in Bad : k <= m
    <3>1. Bad \in SUBSET Nat
      BY <1>0
    <3> HIDE DEF Bad
    <3> QED
      BY <3>1, LeastNatural
  <2>2. k \in 0..N /\ ~Good(k)
    OBVIOUS
  <2>3. CASE k = 0
    <3>1. g[k] = old /\ 1..k = {}
      BY <1>4, <2>2, <2>3
    <3>2. ~Chunk!IsBetter(old, old)
      BY NoBetterOrders
    <3> QED
      BY <2>2, <3>1, <3>2
  <2>4. CASE k # 0
    <3>1. k - 1 \in 0..N /\ k \in 1..N
      BY <1>0, <2>2, <2>4
    <3>2. Good(k - 1)
      <4>1. k - 1 \notin Bad
        <5> HIDE DEF Bad
        <5> QED
          BY <2>1, <2>2
      <4> HIDE DEF Good
      <4> QED
        BY <3>1, <4>1
    <3>3. g[k] = IF Chunk!IsBetter(scored[k], g[k - 1]) THEN scored[k] ELSE g[k - 1]
      BY <1>4, <2>2, <2>4
    <3>4. Ranked(g[k - 1]) /\ Ranked(scored[k])
      BY <3>1, <3>2
    <3>5. 1..k = (1..(k - 1)) \cup {k} /\ 1..k \subseteq 1..N
      BY <3>1
    <3>6. CASE Chunk!IsBetter(scored[k], g[k - 1])
      <4>1. g[k] = scored[k]
        BY <3>3, <3>6
      <4>2. ~Chunk!IsBetter(old, scored[k]) /\ ~Chunk!IsBetter(scored[k], scored[k])
        BY <3>2, <3>4, <3>6, NoBetterOrders
      <4>3. \A i \in 1..(k - 1) : ~Chunk!IsBetter(scored[i], scored[k])
        BY <3>2, <3>4, <3>5, <3>6, NoBetterOrders
      <4> QED
        BY <2>2, <3>1, <3>5, <4>1, <4>2, <4>3
    <3>7. CASE ~Chunk!IsBetter(scored[k], g[k - 1])
      <4>1. g[k] = g[k - 1]
        BY <3>3, <3>7
      <4> QED
        BY <2>2, <3>2, <3>5, <3>7, <4>1
    <3> QED
      BY <3>6, <3>7
  <2> QED
    BY <2>3, <2>4
<1>6. Good(N)
  <2>1. N \in 0..N /\ N \notin Bad
    <3> HIDE DEF Bad
    <3> QED
      BY <1>0, <1>5
  <2> HIDE DEF Good
  <2> QED
    BY <2>1
<1> QED
  BY <1>3, <1>6

-----------------------------------------------------------------------------
(* The answer of an emergence search.                                      *)

LEMMA ScoreIs ==
    ASSUME NEW c, NEW l
    PROVE  Chunk!EmergenceScore(c, l)
               = Weigh(Chunk!ShapePixels, Chunk!BackgroundPixels)!EmergenceScoreOf(c, l)
BY DEF Chunk!EmergenceScore, Chunk!Weights!EmergenceScoreOf, Chunk!Weights!Density,
       Chunk!Weights!Contrast, Chunk!Weights!Cleanliness, Chunk!Weights!One,
       Chunk!Weights!CleanMultiple, Weigh!EmergenceScoreOf, Weigh!Density,
       Weigh!Contrast, Weigh!Cleanliness, Weigh!One, Weigh!CleanMultiple

\* A pixel of a target within the canvas lies within the window.
LEMMA OffsetInWindow ==
    ASSUME search \in Searches, Chunk!Emergence, NEW x \in Nat, NEW y \in Nat,
           x + W <= search.canvas_width, y + H <= search.canvas_height, NEW p \in Px
    PROVE  /\ Chunk!PlanOffset(x, y, p) \in 0..(Chunk!WindowLen - 1)
           /\ Chunk!PlanOffset(x, y, p) + 1 \in 1..Chunk!WindowLen
<1> DEFINE w == search.canvas_width
           h == search.canvas_height
           r == p \div W
           c == p % W
<1>1. /\ W \in Nat \ {0} /\ H \in Nat \ {0} /\ Px = 0..(W * H - 1)
      /\ w \in Nat /\ h \in Nat
  BY SearchIsTyped
<1>2. r \in 0..(H - 1) /\ c \in 0..(W - 1)
  <2>1. p \in 0..(W * H - 1)
    BY <1>1
  <2> QED
    BY <1>1, <2>1, PlaceInRows
<1>3. Chunk!PlanOffset(x, y, p) = (y + r) * w + x + c
  BY DEF Chunk!PlanOffset, W
<1>4. Chunk!WindowLen = w * h
  BY DEF Chunk!WindowLen
<1>5. x + W <= w /\ y + H <= h
  OBVIOUS
<1> HIDE DEF w, h, r, c
<1> DEFINE row == y + r
           column == x + c
<1>6. w \in Nat \ {0} /\ h \in Nat \ {0} /\ column \in 0..(w - 1) /\ row \in 0..(h - 1)
  BY <1>1, <1>2, <1>5
<1>7. (y + r) * w + x + c = row * w + column
  <2> DEFINE z == (y + r) * w
  <2>1. z \in Int
    BY <1>1, <1>2
  <2> HIDE DEF z
  <2>2. z + x + c = z + (x + c)
    BY <1>2, <2>1
  <2> QED
    BY <2>2 DEF z
<1> HIDE DEF row, column
<1>8. row * w + column \in 0..(w * h - 1)
  BY <1>6, RowsOfPlace
<1>9. \A n, m \in Int : n \in 0..(m - 1) => n + 1 \in 1..m
  OBVIOUS
<1>10. w * h \in Int /\ row * w + column \in Int
  BY <1>6
<1> QED
  BY <1>3, <1>4, <1>7, <1>8, <1>9, <1>10

\* What a digit counts in a placement, and the score of it.
Trial(index, k) == Places(Chunk!Window(index), TrialX(k), TrialY(k), TrialDigit(k))
TrialScore(index, k) == Chunk!CandidateScore(index, Trial(index, k))

LEMMA TrialCounts ==
    ASSUME search \in Searches, NEW index, NEW k
    PROVE  /\ Trial(index, k).covered \in 0..Chunk!ShapePixels
           /\ Trial(index, k).leaked \in 0..Chunk!BackgroundPixels
           /\ Chunk!ShapePixels \in Nat /\ Chunk!BackgroundPixels \in Nat
  BY HitsAreCounted, SpotsAreCounted DEF Trial, Places

LEMMA TrialScoreIs ==
    ASSUME search \in Searches, NEW index, NEW k
    PROVE  /\ TrialScore(index, k).index = index
           /\ TrialScore(index, k).digit = TrialDigit(k)
           /\ TrialScore(index, k).x = TrialX(k) /\ TrialScore(index, k).y = TrialY(k)
           /\ TrialScore(index, k).score =
                  Chunk!EmergenceScore(Trial(index, k).covered, Trial(index, k).leaked)
           /\ TrialScore(index, k).score_q =
                  Chunk!Quantize(TrialScore(index, k).score, Chunk!One)
           /\ TrialScore(index, k).statistics # None
           /\ TrialScore(index, k).statistics.covered = Trial(index, k).covered
           /\ TrialScore(index, k).statistics.leaked = Trial(index, k).leaked
<1> DEFINE t == Trial(index, k)
           s == TrialScore(index, k)
<1>1. t.digit = TrialDigit(k) /\ t.x = TrialX(k) /\ t.y = TrialY(k)
  BY DEF Trial, Places
<1> HIDE DEF t
<1>2. /\ s.index = index /\ s.digit = t.digit /\ s.x = t.x /\ s.y = t.y
      /\ s.score = Chunk!EmergenceScore(t.covered, t.leaked)
      /\ s.score_q = Chunk!Quantize(Chunk!EmergenceScore(t.covered, t.leaked), Chunk!One)
      /\ s.statistics = [covered |-> t.covered, total |-> Chunk!ShapePixels,
                         leaked |-> t.leaked, background_total |-> Chunk!BackgroundPixels]
  BY DEF TrialScore, Chunk!CandidateScore, t
<1>3. s.statistics \in [covered : Nat, total : Nat, leaked : Nat, background_total : Nat]
  BY <1>2, TrialCounts DEF t
<1>4. s.statistics # None
  BY <1>3, SearchesAssumption DEF Chunk!SearchesConstants
<1> HIDE DEF s
<1>5. s.statistics.covered = t.covered /\ s.statistics.leaked = t.leaked
  BY <1>2
<1> QED
  BY <1>1, <1>2, <1>4, <1>5 DEF s, t

\* The score of a trial: at most that of a perfect match, and more than
\* nothing as soon as something of the shape is covered.
LEMMA TrialBounds ==
    ASSUME search \in Searches, Chunk!ShapePixels > 0, NEW index, NEW k
    PROVE  /\ Chunk!One \in Nat \ {0}
           /\ TrialScore(index, k).score \in 0..Chunk!One
           /\ Ranked(TrialScore(index, k))
           /\ Trial(index, k).covered > 0 => TrialScore(index, k).score > 0
           /\ Trial(index, k).covered = Chunk!ShapePixels /\ Trial(index, k).leaked = 0
                  => TrialScore(index, k).score = Chunk!One
           /\ ~(Trial(index, k).covered = Chunk!ShapePixels /\ Trial(index, k).leaked = 0)
                  => Chunk!One <= (10 * Len(Chunk!Pixels))
                                      * (Chunk!One - TrialScore(index, k).score)
<1> DEFINE S == Chunk!ShapePixels
           B == Chunk!BackgroundPixels
           c == Trial(index, k).covered
           l == Trial(index, k).leaked
           s == TrialScore(index, k)
<1>1. S \in Nat \ {0} /\ B \in Nat /\ c \in 0..S /\ l \in 0..B /\ S + B = Len(Chunk!Pixels)
  BY TrialCounts, SpotsAreCounted
<1>2. s.score = Weigh(S, B)!EmergenceScoreOf(c, l)
  <2>1. TrialScore(index, k).score = Chunk!EmergenceScore(Trial(index, k).covered, Trial(index, k).leaked)
    BY TrialScoreIs
  <2>2. Chunk!EmergenceScore(Trial(index, k).covered, Trial(index, k).leaked)
            = Weigh(S, B)!EmergenceScoreOf(Trial(index, k).covered, Trial(index, k).leaked)
    BY ScoreIs
  <2> QED
    BY <2>1, <2>2
<1>3. Chunk!One = Weigh(S, B)!One
  <2>1. Chunk!One = Weigh(S, B)!EmergenceScoreOf(S, 0)
    BY ScoreIs DEF Chunk!One
  <2>2. S \in 0..S /\ 0 \in 0..B
    BY <1>1
  <2> HIDE DEF S, B
  <2> QED
    BY <1>1, <2>1, <2>2, ScoreBounds
<1>4. CoveredOf(s) = c /\ LeakedOf(s) = l
  <2>1. /\ TrialScore(index, k).statistics # None
        /\ TrialScore(index, k).statistics.covered = Trial(index, k).covered
        /\ TrialScore(index, k).statistics.leaked = Trial(index, k).leaked
    BY TrialScoreIs
  <2> QED
    BY <2>1 DEF CoveredOf, LeakedOf
<1> HIDE DEF S, B, c, l, s
<1>5. Weigh(S, B)!One \in Nat \ {0}
  <2>1. Tenth(S, B) \in Nat \ {0} /\ Weigh(S, B)!One = 10 * Tenth(S, B)
    BY <1>1, OneIs
  <2> QED
    BY <2>1
<1>6. /\ Weigh(S, B)!EmergenceScoreOf(c, l) \in 0..Weigh(S, B)!One
      /\ c = S /\ l = 0 => Weigh(S, B)!EmergenceScoreOf(c, l) = Weigh(S, B)!One
      /\ ~(c = S /\ l = 0) =>
             Weigh(S, B)!One
                 <= (10 * (S + B)) * (Weigh(S, B)!One - Weigh(S, B)!EmergenceScoreOf(c, l))
      /\ c > 0 => Weigh(S, B)!EmergenceScoreOf(c, l) > 0
  BY <1>1, ScoreBounds
<1>7. Ranked(s)
  BY <1>1, <1>2, <1>4, <1>5, <1>6 DEF Ranked
<1> QED
  BY <1>1, <1>2, <1>3, <1>5, <1>6, <1>7 DEF S, B, c, l, s

LEMMA FirstRow ==
    ASSUME NEW w \in Nat \ {0}, NEW e \in 0..(w - 1)
    PROVE  (e \div w) = 0 /\ (e % w) = e
OBVIOUS

LEMMA InTheWindow ==
    ASSUME NEW T, NEW s \in Seq(T), NEW i \in Nat, NEW n \in Nat, i + n <= Len(s), NEW o \in 1..n
    PROVE  SubSeq(s, i + 1, i + n)[o] \in T
<1>1. /\ i + o \in 1..Len(s) /\ (i + 1) + o - 1 = i + o /\ o \in 1..((i + n) - (i + 1) + 1)
  OBVIOUS
<1>2. SubSeq(s, i + 1, i + n)[o] = s[i + o]
  BY <1>1
<1> QED
  BY <1>1, <1>2

\* Some digit covers something.
LEMMA SomethingIsCovered ==
    ASSUME search \in Searches, Chunk!Emergence, Chunk!ShapePixels > 0,
           NEW index \in Chunk!WindowIndices
    PROVE  \E k \in Trials : Trial(index, k).covered > 0
<1>1. PICK p \in Spots(1) : TRUE
  <2>1. Spots(1) # {}
    BY SpotsAreCounted, FS_EmptySet
  <2> QED
    BY <2>1
<1>2. p \in Px
  BY DEF Spots
<1>3. /\ W \in Nat \ {0} /\ H \in Nat \ {0} /\ Digits \in Nat \ {0}
      /\ W <= search.canvas_width /\ H <= search.canvas_height
      /\ search.canvas_width \in Nat /\ search.canvas_height \in Nat
      /\ search.digits \in Seq(0..(Digits - 1))
      /\ Chunk!Columns \in Nat \ {0} /\ Digits * Chunk!Columns * Chunk!Rows \in Nat \ {0}
  BY SearchIsTyped, TrialsAreTyped
<1> DEFINE o == Chunk!PlanOffset(0, 0, p) + 1
           n == Chunk!WindowLen
           d == Chunk!Window(index)
<1>4. o \in 1..n
  <2>1. 0 + W <= search.canvas_width /\ 0 + H <= search.canvas_height
    BY <1>3
  <2> QED
    BY <1>2, <2>1, OffsetInWindow
<1>5. n \in Nat
  BY <1>3 DEF Chunk!WindowLen
<1> HIDE DEF o, n
<1>6. d[o] \in 0..(Digits - 1)
  <2>2. Len(search.digits) \in Nat
    BY <1>3
  <2>0. Chunk!WindowIndices = 0..((Len(search.digits) - n + 1) - 1)
    BY DEF Chunk!WindowIndices, Chunk!ActualWindows, n
  <2>1. index \in 0..((Len(search.digits) - n + 1) - 1)
    BY <2>0
  <2>3. index \in Nat /\ index + n <= Len(search.digits)
    BY <1>5, <2>1, <2>2
  <2>4. d = SubSeq(search.digits, index + 1, index + n)
    BY DEF Chunk!Window, n
  <2> HIDE DEF d
  <2> QED
    BY <1>3, <1>4, <1>5, <2>3, <2>4, InTheWindow
<1> DEFINE k == d[o] + 1
<1>7. PICK e \in 0..(Digits - 1) : d[o] = e
  BY <1>6
<1>8. k \in Trials
  <2>1. Digits <= Digits * Chunk!Columns * Chunk!Rows
    <3>1. Chunk!Columns \in Nat \ {0} /\ Chunk!Rows \in Nat \ {0}
      BY TrialsAreTyped
    <3>2. \A a, b, c \in Nat \ {0} : a <= a * b * c
      <4>1. \A a, b \in Nat \ {0} : a <= a * b /\ a * b \in Nat \ {0}
        OBVIOUS
      <4> QED
        BY <4>1
    <3> QED
      BY <1>3, <3>1, <3>2
  <2>2. e + 1 \in 1..(Digits * Chunk!Columns * Chunk!Rows)
    BY <1>3, <2>1
  <2> QED
    BY <1>7, <2>2 DEF Trials
<1>9. TrialX(k) = 0 /\ TrialY(k) = 0 /\ TrialDigit(k) = d[o]
  <2>1. k - 1 = e
    BY <1>7
  <2>2. (e \div Digits) = 0 /\ (e % Digits) = e
    BY <1>3, FirstRow
  <2>3. 0 % Chunk!Columns = 0 /\ 0 \div Chunk!Columns = 0
    BY <1>3
  <2> HIDE DEF k
  <2> QED
    BY <1>7, <2>1, <2>2, <2>3 DEF TrialX, TrialY, TrialDigit
<1>10. p \in Hits(d, TrialX(k), TrialY(k), TrialDigit(k), 1)
  <2> HIDE DEF k, d
  <2>1. d[Chunk!PlanOffset(0, 0, p) + 1] = d[o]
    BY DEF o
  <2> QED
    BY <1>9, <2>1 DEF Hits
<1>11. Trial(index, k).covered > 0
  <2>1. Trial(index, k).covered = Cardinality(Hits(d, TrialX(k), TrialY(k), TrialDigit(k), 1))
    BY DEF Trial, Places
  <2> HIDE DEF k, d
  <2> QED
    BY <1>10, <2>1, HitsAreCounted
<1> HIDE DEF k
<1> QED
  BY <1>8, <1>11

\* The answer is one of the trials, and none is better.
LEMMA AnswerIsATrial ==
    ASSUME search \in Searches, Chunk!Emergence, Chunk!ShapePixels > 0,
           NEW index \in Chunk!WindowIndices
    PROVE  /\ \E k \in Trials : Chunk!CandidateWindow(index) = TrialScore(index, k)
           /\ \A k \in Trials : ~Chunk!IsBetter(TrialScore(index, k), Chunk!CandidateWindow(index))
           /\ Chunk!CandidateWindow(index) = Chunk!DirectScore(index)
<1> DEFINE d == Chunk!Window(index)
           n == Digits * Chunk!Columns * Chunk!Rows
           scored == [k \in Trials |-> TrialScore(index, k)]
           best == Chunk!TakeBest(Chunk!Empty(index), scored)
<1>0. n \in Nat
  BY TrialsAreTyped
<1>1. /\ Chunk!PlanCandidates(d) = [k \in Trials |-> Trial(index, k)]
      /\ Chunk!DirectCandidates(d) = Chunk!PlanCandidates(d)
  BY CandidatesAgree DEF Trial
<1>2. Trials = 1..n
  BY DEF Trials
<1>3. \A q : q = [k \in Trials |-> Trial(index, k)] =>
          [k \in 1..Len(q) |-> Chunk!CandidateScore(index, q[k])] = scored
  <2> HIDE DEF n
  <2>1. Len([k \in 1..n |-> Trial(index, k)]) = n
    BY <1>0
  <2> QED
    BY <1>0, <1>2, <2>1 DEF TrialScore
<1>4. Chunk!CandidateWindow(index) = best /\ Chunk!DirectScore(index) = best
  <2> HIDE DEF scored
  <2>1. \A q : q = [k \in Trials |-> Trial(index, k)] => Chunk!ScanBest(index, q) = best
    BY <1>3 DEF Chunk!ScanBest
  <2>2. Chunk!ScanBest(index, Chunk!PlanCandidates(d)) = best
    BY <1>1, <2>1
  <2>3. Chunk!ScanBest(index, Chunk!DirectCandidates(d)) = best
    BY <1>1, <2>1
  <2> HIDE DEF best
  <2> QED
    BY <2>2, <2>3 DEF Chunk!CandidateWindow, Chunk!PlanScore, Chunk!DirectScore
<1>5. Len(scored) = n
  <2> HIDE DEF n
  <2> QED
    BY <1>0, <1>2
<1>6. \A k \in 1..Len(scored) : scored[k] = TrialScore(index, k) /\ Ranked(scored[k])
  BY <1>2, <1>5, TrialBounds
<1>7. /\ Chunk!Empty(index).score = 0 /\ Ranked(Chunk!Empty(index))
  BY DEF Chunk!Empty, Ranked, CoveredOf, LeakedOf
<1> HIDE DEF scored, n
<1>8. /\ best = Chunk!Empty(index) \/ \E k \in 1..Len(scored) : best = scored[k]
      /\ \A k \in 1..Len(scored) : ~Chunk!IsBetter(scored[k], best)
  BY <1>0, <1>5, <1>6, <1>7, BestOfAll
<1> HIDE DEF best
<1>9. \A k \in Trials : ~Chunk!IsBetter(TrialScore(index, k), best)
  BY <1>2, <1>5, <1>6, <1>8
<1>10. best # Chunk!Empty(index)
  <2>1. PICK k \in Trials : Trial(index, k).covered > 0
    BY SomethingIsCovered
  <2>2. TrialScore(index, k).score > 0
    BY <2>1, TrialBounds
  <2>3. Chunk!IsBetter(TrialScore(index, k), Chunk!Empty(index))
    BY <1>7, <2>2, BetterIs
  <2> QED
    BY <1>9, <2>3
<1>11. \E k \in Trials : best = TrialScore(index, k)
  BY <1>2, <1>5, <1>6, <1>8, <1>10
<1> QED
  BY <1>4, <1>9, <1>11

-----------------------------------------------------------------------------
(* The answer of a threshold search.                                       *)

\* The pixels on which the digits agree with the target.
Agreeing(index) ==
    {p \in Px : Chunk!Window(index)[p + 1] >= search.threshold <=> Chunk!Pixels[p + 1] = 1}
Turned(index) ==
    search.invert /\ W * H - Cardinality(Agreeing(index)) > Cardinality(Agreeing(index))
Agreed(index) ==
    IF Turned(index) THEN W * H - Cardinality(Agreeing(index)) ELSE Cardinality(Agreeing(index))

LEMMA AgreeingIsCounted ==
    ASSUME search \in Searches, NEW index
    PROVE  /\ IsFiniteSet(Agreeing(index)) /\ Cardinality(Agreeing(index)) \in 0..(W * H)
           /\ Cardinality(Px \ Agreeing(index)) = W * H - Cardinality(Agreeing(index))
           /\ Agreed(index) \in 0..(W * H)
<1>1. Agreeing(index) \in SUBSET Px /\ Px \cap Agreeing(index) = Agreeing(index)
  BY DEF Agreeing
<1>2. IsFiniteSet(Px) /\ Cardinality(Px) = W * H /\ W * H \in Nat
  BY SearchIsTyped
<1>3. /\ IsFiniteSet(Agreeing(index)) /\ Cardinality(Agreeing(index)) \in Nat
      /\ Cardinality(Agreeing(index)) <= Cardinality(Px)
  BY <1>1, <1>2, FS_Subset, FS_CardinalityType
<1>4. Cardinality(Px \ Agreeing(index)) = Cardinality(Px) - Cardinality(Agreeing(index))
  <2>1. Cardinality(Px \ Agreeing(index)) = Cardinality(Px) - Cardinality(Px \cap Agreeing(index))
    BY <1>2, FS_Difference
  <2> QED
    BY <1>1, <2>1
<1> QED
  BY <1>2, <1>3, <1>4 DEF Agreed

LEMMA MatchingIs ==
    ASSUME search \in Searches, NEW index
    PROVE  Chunk!Matching(Chunk!Window(index)) = Cardinality(Agreeing(index))
<1>1. Chunk!Matching(Chunk!Window(index)) =
          Cardinality({p \in Px : (Chunk!Window(index)[p + 1] >= search.threshold)
                                      = (Chunk!Pixels[p + 1] = 1)})
  BY ChunkCounts DEF Chunk!Matching, Chunk!Count, Px
<1>2. {p \in Px : (Chunk!Window(index)[p + 1] >= search.threshold) = (Chunk!Pixels[p + 1] = 1)}
          = Agreeing(index)
  BY DEF Agreeing
<1> QED
  BY <1>1, <1>2

LEMMA ThresholdScoreIs ==
    ASSUME search \in Searches, NEW index
    PROVE  /\ Chunk!ThresholdScore(index).index = index
           /\ Chunk!ThresholdScore(index).score = Agreed(index)
           /\ Chunk!ThresholdScore(index).score_q = Chunk!Quantize(Agreed(index), W * H)
           /\ Chunk!ThresholdScore(index).inverted <=> Turned(index)
<1> DEFINE m == Chunk!Matching(Chunk!Window(index))
           n == Len(Chunk!Pixels)
           turned == search.invert /\ n - m > m
           matched == IF turned THEN n - m ELSE m
<1>1. m = Cardinality(Agreeing(index)) /\ n = W * H
  BY MatchingIs, SearchIsTyped
<1>2. Chunk!ThresholdScore(index) =
          [Chunk!Empty(index) EXCEPT !.score = matched, !.score_q = Chunk!Quantize(matched, n),
               !.inverted = turned, !.digit = None, !.x = None, !.y = None,
               !.coverage_q = None, !.leakage_q = None]
  BY DEF Chunk!ThresholdScore
<1>3. (turned <=> Turned(index)) /\ matched = Agreed(index)
  <2> HIDE DEF m, n
  <2> QED
    BY <1>1 DEF Turned, Agreed
<1> HIDE DEF m, n, turned, matched
<1>4. /\ Chunk!ThresholdScore(index).index = index
      /\ Chunk!ThresholdScore(index).score = matched
      /\ Chunk!ThresholdScore(index).score_q = Chunk!Quantize(matched, n)
  BY <1>2 DEF Chunk!Empty
<1>5. Chunk!ThresholdScore(index).inverted = turned
  BY <1>2 DEF Chunk!Empty
<1> QED
  BY <1>1, <1>3, <1>4, <1>5

-----------------------------------------------------------------------------
(* What a right answer shows.                                              *)

RightlyAnswered ==
    /\ search \in Searches
    /\ reply # None
    /\ \A index \in Chunk!WindowIndices : reply[index] = Chunk!CandidateWindow(index)

\* An emergence answer is a trial that no other beats.
LEMMA EmergenceShows ==
    ASSUME RightlyAnswered, Chunk!Emergence, Chunk!ShapePixels > 0,
           NEW index \in Chunk!WindowIndices
    PROVE  \E k \in Trials :
              /\ reply[index] = TrialScore(index, k)
              /\ \A j \in Trials : ~Chunk!IsBetter(TrialScore(index, j), reply[index])
              /\ reply[index] = Chunk!DirectScore(index)
BY AnswerIsATrial DEF RightlyAnswered

\* Plan and reference agree, on any backend.
LEMMA RightIsCanonical ==
    ASSUME RightlyAnswered PROVE Chunk!AnswersAreCanonical
<1> SUFFICES ASSUME NEW index \in Chunk!WindowIndices
             PROVE  reply[index] = IF Chunk!Emergence THEN Chunk!DirectScore(index)
                                   ELSE Chunk!ThresholdScore(index)
  BY DEF Chunk!AnswersAreCanonical
<1>1. CASE ~Chunk!Emergence
  BY <1>1 DEF RightlyAnswered, Chunk!CandidateWindow
<1>2. CASE Chunk!Emergence /\ Chunk!ShapePixels > 0
  BY <1>2, EmergenceShows
<1>3. CASE Chunk!Emergence /\ ~(Chunk!ShapePixels > 0)
  <2>1. Chunk!ShapePixels = 0
    BY <1>3, SpotsAreCounted DEF RightlyAnswered
  <2>2. Chunk!CandidateWindow(index) = Chunk!Empty(index) /\ Chunk!DirectScore(index) = Chunk!Empty(index)
    BY <1>3, <2>1 DEF Chunk!CandidateWindow, Chunk!PlanScore, Chunk!DirectScore, Chunk!ScanBest
  <2> QED
    BY <1>3, <2>2 DEF RightlyAnswered
<1> QED
  BY <1>1, <1>2, <1>3

\* No placement and no digit beats the answer.
LEMMA RightIsUnbeaten ==
    ASSUME RightlyAnswered PROVE Chunk!NothingBeatsTheAnswer
<1> SUFFICES ASSUME Chunk!Emergence, Chunk!ShapePixels > 0, NEW index \in Chunk!WindowIndices,
                    NEW j \in Trials
             PROVE  ~Chunk!IsBetter(Chunk!CandidateScore(index,
                                        Chunk!DirectCandidates(Chunk!Window(index))[j]), reply[index])
  BY DEF Chunk!NothingBeatsTheAnswer, Trials
<1>1. Chunk!DirectCandidates(Chunk!Window(index))[j] = Trial(index, j)
  BY CandidatesAgree DEF Trial, RightlyAnswered
<1>2. ~Chunk!IsBetter(TrialScore(index, j), reply[index])
  BY EmergenceShows
<1> QED
  BY <1>1, <1>2 DEF TrialScore

\* A miss costs the tenth part of a pixel at least, which is half a millionth
\* or more unless the target is huge.
LEMMA RightFullMarks ==
    ASSUME RightlyAnswered PROVE Chunk!FullMarksArePerfect
<1> DEFINE n == Len(Chunk!Pixels)
           Perfect(s) == IF Chunk!Emergence
                         THEN s.statistics.covered = Chunk!ShapePixels /\ s.statistics.leaked = 0
                         ELSE s.score = n
<1> SUFFICES ASSUME Chunk!ShapePixels > 0, 10 * n < 2 * Million, NEW index \in Chunk!WindowIndices
             PROVE  /\ reply[index].score_q \in 0..Million
                    /\ reply[index].score_q = Million <=> Perfect(reply[index])
  BY DEF Chunk!FullMarksArePerfect, Million
<1>1. search \in Searches /\ n \in Nat \ {0} /\ n = W * H /\ Million \in Nat
  BY SearchIsTyped, MillionIs DEF RightlyAnswered
<1>2. CASE Chunk!Emergence
  <2>1. PICK k \in Trials : reply[index] = TrialScore(index, k)
    BY <1>2, EmergenceShows
  <2> DEFINE s == TrialScore(index, k)
             one == Chunk!One
  <2>2. /\ one \in Nat \ {0} /\ s.score \in 0..one
        /\ s.score_q = Chunk!Quantize(s.score, one)
        /\ Perfect(s) => s.score = one
        /\ ~Perfect(s) => one <= (10 * n) * (one - s.score)
    <3>1. s.statistics.covered = Trial(index, k).covered /\ s.statistics.leaked = Trial(index, k).leaked
          /\ s.score_q = Chunk!Quantize(s.score, one)
      BY <1>1, TrialScoreIs
    <3> QED
      BY <1>1, <1>2, <3>1, TrialBounds
  <2> HIDE DEF s, one, Perfect, n
  <2>3. s.score_q \in 0..Million /\ (s.score_q = Million <=> (2 * Million) * (one - s.score) <= one)
    BY <2>2, Rounded
  <2> DEFINE r == one - s.score
  <2>4. r \in Nat
    BY <2>2
  <2>5. Perfect(s) => r = 0
    BY <2>2
  <2>6. ~Perfect(s) => one <= (10 * n) * r
    BY <2>2
  <2> HIDE DEF r
  <2>7. Perfect(s) => (2 * Million) * r <= one
    BY <1>1, <2>2, <2>5
  <2>8. ~Perfect(s) => ~((2 * Million) * r <= one)
    <3> SUFFICES ASSUME one <= (10 * n) * r PROVE ~((2 * Million) * r <= one)
      BY <2>6
    <3>1. r > 0
      BY <1>1, <2>2, <2>4
    <3>2. (10 * n) * r < (2 * Million) * r
      <4>1. \A a, b, e \in Nat : a < b /\ e > 0 => a * e < b * e
        OBVIOUS
      <4>2. 10 * n \in Nat /\ 2 * Million \in Nat
        BY <1>1
      <4> QED
        BY <2>4, <3>1, <4>1, <4>2
    <3>3. (10 * n) * r \in Int /\ (2 * Million) * r \in Int
      BY <1>1, <2>4
    <3> QED
      BY <2>2, <3>2, <3>3
  <2> QED
    BY <2>1, <2>3, <2>7, <2>8 DEF s, r
<1>3. CASE ~Chunk!Emergence
  <2> DEFINE s == Chunk!ThresholdScore(index)
  <2>1. reply[index] = s
    BY <1>3 DEF RightlyAnswered, Chunk!CandidateWindow
  <2>2. s.score \in 0..n /\ s.score_q = Chunk!Quantize(s.score, n)
    BY <1>1, AgreeingIsCounted, ThresholdScoreIs
  <2>3. Perfect(s) <=> s.score = n
    BY <1>3
  <2> HIDE DEF s, Perfect, n
  <2>4. s.score_q \in 0..Million /\ (s.score_q = Million <=> (2 * Million) * (n - s.score) <= n)
    BY <1>1, <2>2, Rounded
  <2>5. s.score = n => (2 * Million) * (n - s.score) <= n
    BY <1>1, <2>2
  <2>6. s.score # n => ~((2 * Million) * (n - s.score) <= n)
    <3> SUFFICES ASSUME s.score # n PROVE ~((2 * Million) * (n - s.score) <= n)
      OBVIOUS
    <3>1. n - s.score \in Nat /\ n - s.score >= 1
      BY <1>1, <2>2
    <3>2. 2 * Million <= (2 * Million) * (n - s.score) /\ (2 * Million) * (n - s.score) \in Int
      BY <1>1, <3>1
    <3> QED
      BY <1>1, <3>2
  <2> QED
    BY <2>1, <2>3, <2>4, <2>5, <2>6
<1> QED
  BY <1>2, <1>3

\* The bitmap has as many pixels set, or right, as the answer counts.
LEMMA RightBitmap ==
    ASSUME RightlyAnswered PROVE Chunk!BitmapShowsTheScore
<1> DEFINE b(s) == Chunk!MatchBitmap(s)
           shown(s, pixel) ==
               {p \in {q \in Px : Chunk!Pixels[q + 1] = pixel} :
                   b(s)[Chunk!PlanOffset(s.x, s.y, p) + 1] = 1}
           agreed(s) == {p \in Px : (b(s)[p + 1] = Chunk!Pixels[p + 1]) # s.inverted}
<1> SUFFICES ASSUME Chunk!ShapePixels > 0, NEW index \in Chunk!WindowIndices
             PROVE  LET s == reply[index] IN
                    IF Chunk!Emergence
                    THEN /\ Cardinality(shown(s, 1)) = s.statistics.covered
                         /\ Cardinality(shown(s, 0)) = s.statistics.leaked
                    ELSE s.score = Cardinality(agreed(s))
  BY ChunkCounts DEF Chunk!BitmapShowsTheScore, Chunk!Count, Px
<1>1. search \in Searches
  BY DEF RightlyAnswered
<1>2. CASE Chunk!Emergence
  <2>1. PICK k \in Trials : reply[index] = TrialScore(index, k)
    BY <1>2, EmergenceShows
  <2> DEFINE s == TrialScore(index, k)
             hits(pixel) ==
                 Hits(Chunk!Window(index), TrialX(k), TrialY(k), TrialDigit(k), pixel)
  <2>2. /\ s.index = index /\ s.digit = TrialDigit(k) /\ s.x = TrialX(k) /\ s.y = TrialY(k)
        /\ s.statistics.covered = Cardinality(hits(1))
        /\ s.statistics.leaked = Cardinality(hits(0))
    <3>1. /\ Trial(index, k).covered = Cardinality(hits(1))
          /\ Trial(index, k).leaked = Cardinality(hits(0))
      BY DEF Trial, Places
    <3> QED
      BY <1>1, <3>1, TrialScoreIs
  <2> HIDE DEF s
  <2>3. \A i \in 1..Chunk!WindowLen :
            b(s)[i] = IF Chunk!Window(index)[i] = TrialDigit(k) THEN 1 ELSE 0
    BY <1>2, <2>2 DEF Chunk!MatchBitmap
  <2>4. \A p \in Px : Chunk!PlanOffset(s.x, s.y, p) + 1 \in 1..Chunk!WindowLen
    <3>1. /\ TrialX(k) \in Nat /\ TrialX(k) + W <= search.canvas_width
          /\ TrialY(k) \in Nat /\ TrialY(k) + H <= search.canvas_height
      BY <1>1, <1>2, TrialsAreTyped
    <3> QED
      BY <1>1, <1>2, <2>2, <3>1, OffsetInWindow
  <2> HIDE DEF b
  <2>5. ASSUME NEW pixel \in {0, 1}
        PROVE  shown(s, pixel) = hits(pixel)
    <3>1. ASSUME NEW p \in Px
          PROVE  b(s)[Chunk!PlanOffset(s.x, s.y, p) + 1] = 1
                     <=> Chunk!Window(index)[Chunk!PlanOffset(s.x, s.y, p) + 1] = TrialDigit(k)
      BY <2>3, <2>4
    <3> QED
      BY <2>2, <3>1 DEF Hits, Spots
  <2> HIDE DEF shown
  <2> QED
    BY <1>2, <2>1, <2>2, <2>5 DEF s
<1>3. CASE ~Chunk!Emergence
  <2> DEFINE s == Chunk!ThresholdScore(index)
  <2>1. reply[index] = s
    BY <1>3 DEF RightlyAnswered, Chunk!CandidateWindow
  <2>2. s.index = index /\ s.score = Agreed(index) /\ (s.inverted <=> Turned(index))
    BY <1>1, ThresholdScoreIs
  <2>3. s.inverted \in BOOLEAN
    BY DEF Chunk!ThresholdScore, Chunk!Empty
  <2> HIDE DEF s
  <2>4. ASSUME NEW p \in Px
        PROVE  b(s)[p + 1] = Chunk!Pixels[p + 1] <=>
                   (Chunk!Window(index)[p + 1] >= search.threshold <=> Chunk!Pixels[p + 1] = 1)
    <3>1. p + 1 \in 1..Chunk!WindowLen /\ Chunk!Pixels[p + 1] \in {0, 1}
      <4>1. Px = 0..(W * H - 1) /\ Len(Chunk!Pixels) = W * H /\ W * H \in Nat
        BY <1>1, SearchIsTyped
      <4>2. Chunk!WindowLen = W * H
        BY <1>3, <4>1 DEF Chunk!WindowLen
      <4> QED
        BY <1>1, <4>1, <4>2, SearchIsTyped
    <3>2. b(s)[p + 1] = IF Chunk!Window(index)[p + 1] >= search.threshold THEN 1 ELSE 0
      BY <1>3, <2>2, <3>1 DEF Chunk!MatchBitmap
    <3> QED
      BY <3>1, <3>2
  <2> HIDE DEF b
  <2>5. CASE Turned(index)
    <3>1. agreed(s) = Px \ Agreeing(index)
      BY <2>2, <2>3, <2>4, <2>5, Zenon DEF Agreeing
    <3> QED
      BY <1>1, <1>3, <2>1, <2>2, <2>5, <3>1, AgreeingIsCounted DEF Agreed
  <2>6. CASE ~Turned(index)
    <3>1. agreed(s) = Agreeing(index)
      BY <2>2, <2>3, <2>4, <2>6, Zenon DEF Agreeing
    <3> QED
      BY <1>1, <1>3, <2>1, <2>2, <2>6, <3>1 DEF Agreed
  <2> QED
    BY <2>5, <2>6
<1> QED
  BY <1>2, <1>3

LEMMA RightAnswers ==
    ASSUME RightlyAnswered PROVE Chunk!ChunkInvariant
BY RightIsCanonical, RightIsUnbeaten, RightFullMarks, RightBitmap DEF Chunk!ChunkInvariant

-----------------------------------------------------------------------------
(* The inductive invariant of a chunk.                                     *)

\* Every score that is kept or passed on is that of score_candidate_window.
ChunkIInv ==
    /\ search \in Searches
    /\ scores = [index \in Chunk!WindowIndices |-> scores[index]]
    /\ \A index \in Chunk!WindowIndices :
           scores[index] # None => scores[index] = Chunk!CandidateWindow(index)
    /\ reply # None =>
           \A index \in Chunk!WindowIndices : reply[index] = Chunk!CandidateWindow(index)

\* The search stays, and with it what depends on it alone.
LEMMA SearchKeepsTarget ==
    ASSUME search' = search
    PROVE  /\ Chunk!Width' = Chunk!Width /\ Chunk!Height' = Chunk!Height
           /\ Chunk!Pixels' = Chunk!Pixels
           /\ (Chunk!Emergence' <=> Chunk!Emergence) /\ Chunk!WindowLen' = Chunk!WindowLen
           /\ Chunk!PixelIndices' = Chunk!PixelIndices
           /\ Chunk!WindowIndices' = Chunk!WindowIndices
BY DEF Chunk!Emergence, Chunk!Pixels, Chunk!Width, Chunk!Height, Chunk!WindowLen,
       Chunk!PixelIndices, Chunk!WindowIndices, Chunk!ActualWindows

LEMMA SearchKeepsShape ==
    ASSUME search' = search
    PROVE  Chunk!ShapePixels' = Chunk!ShapePixels /\ Chunk!BackgroundPixels' = Chunk!BackgroundPixels
BY SearchKeepsTarget DEF Chunk!ShapePixels, Chunk!Count, Chunk!BackgroundPixels

LEMMA SearchKeepsPlan ==
    ASSUME search' = search
    PROVE  Chunk!Plan' = Chunk!Plan
BY SearchKeepsTarget DEF Chunk!Plan, Chunk!PlanOffset, Chunk!Columns, Chunk!Rows

LEMMA SearchKeepsCandidates ==
    ASSUME search' = search, NEW d
    PROVE  Chunk!PlanCandidates(d)' = Chunk!PlanCandidates(d)
BY SearchKeepsTarget, SearchKeepsPlan
DEF Chunk!PlanCandidates, Chunk!Count, Chunk!Columns, Chunk!Rows

LEMMA SearchKeepsWeights ==
    ASSUME search' = search, NEW c, NEW l
    PROVE  /\ Chunk!EmergenceScore(c, l)' = Chunk!EmergenceScore(c, l)
           /\ Chunk!One' = Chunk!One
BY SearchKeepsShape DEF Chunk!One, Chunk!EmergenceScore

LEMMA SearchKeepsScore ==
    ASSUME search' = search, NEW index, NEW c
    PROVE  Chunk!CandidateScore(index, c)' = Chunk!CandidateScore(index, c)
BY SearchKeepsShape, SearchKeepsWeights DEF Chunk!CandidateScore, Chunk!Quantize

LEMMA SearchKeepsBest ==
    ASSUME search' = search, NEW index, NEW c
    PROVE  Chunk!ScanBest(index, c)' = Chunk!ScanBest(index, c)
BY SearchKeepsShape, SearchKeepsScore DEF Chunk!ScanBest, Chunk!Empty

LEMMA SearchKeepsMatching ==
    ASSUME search' = search, NEW d
    PROVE  Chunk!Matching(d)' = Chunk!Matching(d)
BY SearchKeepsTarget DEF Chunk!Matching, Chunk!Count

LEMMA SearchKeepsThreshold ==
    ASSUME search' = search, NEW index
    PROVE  Chunk!ThresholdScore(index)' = Chunk!ThresholdScore(index)
<1>1. ASSUME NEW d, NEW e, d = e PROVE Chunk!Matching(d)' = Chunk!Matching(e)
  BY <1>1, SearchKeepsMatching
<1>2. Chunk!Window(index)' = Chunk!Window(index)
  BY SearchKeepsTarget DEF Chunk!Window
<1>3. Chunk!Matching(Chunk!Window(index))' = Chunk!Matching(Chunk!Window(index))
  BY <1>1, <1>2
<1> QED
  BY <1>3, SearchKeepsTarget DEF Chunk!ThresholdScore, Chunk!Empty

LEMMA SearchKeepsWindow ==
    ASSUME search' = search, NEW index
    PROVE  Chunk!CandidateWindow(index)' = Chunk!CandidateWindow(index)
<1>1. ASSUME NEW c, NEW e, c = e PROVE Chunk!ScanBest(index, c)' = Chunk!ScanBest(index, e)
  BY <1>1, SearchKeepsBest
<1> QED
  BY <1>1, SearchKeepsTarget, SearchKeepsThreshold, SearchKeepsCandidates
  DEF Chunk!CandidateWindow, Chunk!Window, Chunk!PlanScore

LEMMA ChunkInit == Chunk!Init => ChunkIInv
BY DEF Chunk!Init, ChunkIInv

LEMMA ChunkStep ==
    ASSUME ChunkIInv, [Chunk!Next]_chunkVars
    PROVE  ChunkIInv'
<1>0. /\ search' = search
      /\ Chunk!WindowIndices' = Chunk!WindowIndices
      /\ \A index : Chunk!CandidateWindow(index)' = Chunk!CandidateWindow(index)
  <2>1. search' = search
    BY DEF chunkVars, Chunk!Next, Chunk!CpuScores, Chunk!CpuAnswers, Chunk!GpuAnswers,
           Chunk!AcceleratorFails, Chunk!CudaAnswers, Chunk!FallBack
  <2> QED
    BY <2>1, SearchKeepsTarget, SearchKeepsWindow
<1>1. SUFFICES
        /\ scores' = [index \in Chunk!WindowIndices |-> scores'[index]]
        /\ \A index \in Chunk!WindowIndices :
               scores'[index] # None => scores'[index] = Chunk!CandidateWindow(index)
        /\ reply' # None =>
               \A index \in Chunk!WindowIndices : reply'[index] = Chunk!CandidateWindow(index)
  BY <1>0 DEF ChunkIInv
<1>2. CASE UNCHANGED <<scores, reply>>
  BY <1>2 DEF ChunkIInv
<1>3. CASE \E index \in Chunk!WindowIndices : Chunk!CpuScores(index)
  <2>1. PICK index \in Chunk!WindowIndices : Chunk!CpuScores(index)
    BY <1>3
  <2>2. /\ reply' = reply
        /\ scores' = [scores EXCEPT ![index] = Chunk!CandidateWindow(index)]
    BY <2>1 DEF Chunk!CpuScores
  <2> QED
    BY <2>2 DEF ChunkIInv
<1>4. CASE Chunk!CpuAnswers
  BY <1>4 DEF ChunkIInv, Chunk!CpuAnswers
<1>5. CASE Chunk!GpuAnswers
  <2>1. /\ scores' = scores /\ Chunk!Emergence /\ Chunk!ShapePixels > 0
        /\ reply' = [index \in Chunk!WindowIndices |-> Chunk!DirectScore(index)]
    BY <1>5 DEF Chunk!GpuAnswers
  <2>2. \A index \in Chunk!WindowIndices : Chunk!CandidateWindow(index) = Chunk!DirectScore(index)
    BY <2>1, AnswerIsATrial DEF ChunkIInv
  <2> QED
    BY <2>1, <2>2 DEF ChunkIInv
<1>6. CASE Chunk!AcceleratorFails
  BY <1>6, <1>2 DEF Chunk!AcceleratorFails, Chunk!FallBack
<1>7. CASE Chunk!CudaAnswers
  <2>1. PICK sent \in Chunk!Transported :
            IF \A k \in 1..Chunk!ActualWindows : Chunk!Accepted(k - 1, sent[k])
            THEN /\ reply' = [index \in Chunk!WindowIndices |-> Chunk!Recomputed(sent[index + 1])]
                 /\ UNCHANGED <<search, pooled, active, scores>>
            ELSE Chunk!FallBack
    BY <1>7 DEF Chunk!CudaAnswers
  <2>2. CASE ~\A k \in 1..Chunk!ActualWindows : Chunk!Accepted(k - 1, sent[k])
    BY <2>1, <2>2, <1>2 DEF Chunk!FallBack
  <2>3. CASE \A k \in 1..Chunk!ActualWindows : Chunk!Accepted(k - 1, sent[k])
    <3>1. /\ reply' = [index \in Chunk!WindowIndices |-> Chunk!Recomputed(sent[index + 1])]
          /\ scores' = scores
      BY <2>1, <2>3
    <3>2. ASSUME NEW index \in Chunk!WindowIndices
          PROVE  sent[index + 1].index = index
      <4>1. Chunk!ActualWindows \in Int
        <5>1. /\ Len(search.digits) \in Nat /\ Len(Chunk!Pixels) \in Nat
              /\ Chunk!Emergence =>
                     search.canvas_width \in Nat /\ search.canvas_height \in Nat
          BY SearchIsTyped DEF ChunkIInv
        <5>2. Chunk!WindowLen \in Nat
          BY <5>1 DEF Chunk!WindowLen
        <5> QED
          BY <5>1, <5>2 DEF Chunk!ActualWindows
      <4>2. Chunk!WindowIndices = 0..(Chunk!ActualWindows - 1)
        BY DEF Chunk!WindowIndices
      <4>3. index + 1 \in 1..Chunk!ActualWindows /\ (index + 1) - 1 = index
        BY <4>1, <4>2
      <4>4. Chunk!Accepted(index, sent[index + 1])
        BY <2>3, <4>3
      <4> QED
        BY <4>4 DEF Chunk!Accepted
    <3>3. \A index \in Chunk!WindowIndices : reply'[index] = Chunk!CandidateWindow(index)
      BY <3>1, <3>2 DEF Chunk!Recomputed
    <3> QED
      BY <3>1, <3>3 DEF ChunkIInv
  <2> QED
    BY <2>2, <2>3
<1>8. CASE UNCHANGED chunkVars
  BY <1>2, <1>8 DEF chunkVars
<1> QED
  BY <1>3, <1>4, <1>5, <1>6, <1>7, <1>8 DEF Chunk!Next

LEMMA ChunkIsSound == ChunkIInv => Chunk!ChunkInvariant
<1>1. CASE reply # None
  BY <1>1, RightAnswers DEF ChunkIInv, RightlyAnswered
<1>2. CASE reply = None
  BY <1>2 DEF Chunk!ChunkInvariant, Chunk!AnswersAreCanonical, Chunk!NothingBeatsTheAnswer,
             Chunk!BitmapShowsTheScore, Chunk!FullMarksArePerfect, Chunk!Answered
<1> QED
  BY <1>1, <1>2

-----------------------------------------------------------------------------
(* What the score means, whichever side moves.                             *)

BackendsIInv ==
    /\ side \in {"scan", "settings", "chunk"}
    /\ side = "scan" => IInv
    /\ side = "chunk" => ChunkIInv

\* For every target, canvas, mode and chunk: a window's score is one exactly
\* for a perfect digit, leakage costs, and every backend's answer is that of
\* score_candidate_window, unbeaten, shown by its bitmap, and a million
\* millionths only if it is perfect.
THEOREM ScoreSound ==
    ASSUME Score = MCScore
    PROVE  MCSpec => []ScoreIsSound
<1>1. MCInit => BackendsIInv
  BY InitInv, ChunkInit DEF MCInit, BackendsIInv
<1>2. BackendsIInv /\ [MCNext]_<<side, vars, settingsVars, chunkVars>> => BackendsIInv'
  <2> SUFFICES ASSUME BackendsIInv, [MCNext]_<<side, vars, settingsVars, chunkVars>>
               PROVE  BackendsIInv'
    OBVIOUS
  <2>1. side' = side
    BY DEF MCNext
  <2>2. ASSUME side = "scan" PROVE IInv'
    <3>1. IInv /\ [Next]_vars
      BY <2>2 DEF BackendsIInv, MCNext
    <3> QED
      BY <3>1, Inductive
  <2>3. ASSUME side = "chunk" PROVE ChunkIInv'
    <3>1. ChunkIInv /\ [Chunk!Next]_chunkVars
      BY <2>3 DEF BackendsIInv, MCNext
    <3> QED
      BY <3>1, ChunkStep
  <2> QED
    BY <2>1, <2>2, <2>3 DEF BackendsIInv
<1>3. BackendsIInv => ScoreIsSound
  BY ScanMeans, ChunkIsSound DEF BackendsIInv, ScoreIsSound
<1> QED
  BY <1>1, <1>2, <1>3, PTL DEF MCSpec
=============================================================================
