------------------------ MODULE SearchPipelineProofs ------------------------
(***************************************************************************)
(* Theorems about the search pipeline, for every source, setup, fault and  *)
(* interleaving: the threads agree on what is in flight, the row a search  *)
(* leaves is sound, a search ends for the reason it reports, and the       *)
(* writes of the row are those of one sequential scan.                     *)
(*                                                                         *)
(* The inductive invariant follows a chunk through the threads.  What the  *)
(* reducer waits for, what the backend holds and what is queued are three  *)
(* adjacent stretches of windows, cut at the points a, b and c of InOrder; *)
(* so the chunk that arrives next starts where the reducer stands, and the *)
(* reducer's progress is that of a reader that takes window after window.  *)
(* The row trails the run record by at most one improvement.               *)
(***************************************************************************)
EXTENDS SearchPipeline, FiniteSetTheorems, WellFoundedInduction, TLAPS

Scored == score \in [Offsets -> 0..PerfectScore]
\* The windows of S that rank before o.
Ahead(S, o) == {p \in S : Better(p, o)}

ChunkEnd(c) == c.start + c.windows
Reducing == ReducerListens \/ reducer.pc = "conclude"
AtChunk == reducer.pc \in {"record", "persist"}
BackendHolds == backend.pc \in {"search", "send"}
BackendGone == backend.pc \in {"dropSender", "dropQueue", "done"}

\* The chunks of s are adjacent, in order, and cover the windows from..(to - 1).
Tiles(s, from, to) ==
    /\ from <= to
    /\ \A i \in DOMAIN s : from <= s[i].start /\ ChunkEnd(s[i]) <= to
    /\ \A i, j \in DOMAIN s : i < j => ChunkEnd(s[i]) <= s[j].start
    /\ \A w \in from..(to - 1) : \E i \in DOMAIN s : w \in Windows(s[i])

\* A chunk of windows that are in the source and within the bounds.
GoodChunk(c) ==
    /\ c.scanned = c.start
    /\ c.windows >= 1
    /\ ChunkEnd(c) + WindowLen <= MaxDigits + 1
    /\ setup.limit # NoBound => ChunkEnd(c) <= session.offset + setup.limit
    /\ setup.maxOffset # NoBound => ChunkEnd(c) <= setup.maxOffset

ChunksAreGood ==
    /\ \A i \in DOMAIN chunks : GoodChunk(chunks[i]) /\ chunks[i].ok
    /\ \A i \in DOMAIN results : GoodChunk(results[i])
    /\ \A r \in reorder : GoodChunk(r)
    /\ BackendHolds => GoodChunk(backend.chunk)
    /\ backend.pc = "search" => backend.chunk.ok
    /\ AtChunk => GoodChunk(reducer.chunk)
    /\ producer.pc \in {"reserve", "send"} =>
           /\ GoodChunk(producer.chunk) /\ producer.chunk.ok
           /\ producer.chunk.start = producer.offset

CountsAgree ==
    /\ producer.scanned = producer.offset
    /\ session.scanned = session.offset
    /\ run.scanned = run.offset /\ run.offset <= MaxDigits
    /\ row.scanned = row.offset /\ row.offset <= MaxDigits
    /\ setup.limit # NoBound => run.offset <= session.offset + setup.limit

\* Where the reducer stands.
ReducerAt ==
    /\ reducer.pc \in {"control", "recv", "drain", "conclude"} =>
           run.offset = reducer.next
    /\ AtChunk => /\ reducer.chunk.start = reducer.next /\ reducer.chunk.ok
                  /\ reducer.next <= run.offset
                  /\ run.offset <= ChunkEnd(reducer.chunk)
    /\ Reducing => reducer.outcome = "none"
    /\ reducer.pc \in {"cancel", "join", "finish"} => reducer.outcome # "none"
    /\ reducer.pc = "finish" => reducer.outcome # "Err" /\ producer.pc = "done"
    /\ reducer.pc # "drain" => reorder = {}
    /\ \A r \in reorder : r.start = reducer.next
    /\ \A r, q \in reorder : r = q
    /\ reducer.pc = "conclude" => results = <<>> /\ ResultSenderGone

\* Nothing before the record's offset beats its best, which is a real one.
RealBest(r) ==
    /\ \A p \in 0..(r.offset - 1) : score[p] <= r.best
    /\ r.bestAt # NoBound => r.bestAt < r.offset /\ r.best = score[r.bestAt]
    /\ r.bestAt = NoBound => r.best = 0
OnRecord(r) ==
    r.bestAt # NoBound =>
        \E i \in DOMAIN history : history[i] = [offset |-> r.bestAt, score |-> r.best]
BestsAreReal ==
    /\ RealBest(run) /\ RealBest(row)
    /\ OnRecord(row)
    /\ reducer.pc = "persist" => OnRecord(run)

\* The row is behind the run by progress alone, except that between the two
\* halves of record_new_bests it lacks the improvement just found.
RowFollowsRun ==
    Running =>
        /\ row.offset <= run.offset
        /\ row.status \in {"Running", "Paused"} /\ run.status \in {"Running", "Paused"}
        /\ ReducerListens => run.status = row.status
        /\ reducer.pc # "persist" /\ reducer.outcome # "Err" =>
               row.best = run.best /\ row.bestAt = run.bestAt
        /\ reducer.pc = "persist" =>
               /\ run.bestAt # NoBound /\ run.offset = run.bestAt + 1
               /\ row.offset <= run.bestAt /\ run.best > row.best
               /\ \A p \in 0..(run.bestAt - 1) : score[p] <= row.best

\* The producer has no window left to hand over in this invocation.
NothingLeft ==
    BoundReached \/ (~setup.growing /\ producer.offset + WindowLen > published)

\* The windows between the reducer and the producer: reordered or queued
\* results up to b, the backend's chunk from b to c, queued chunks from c on.
\* And a backend that ended of its own has left nothing behind.
CutAt(a, b, c) ==
    /\ AtChunk => a = ChunkEnd(reducer.chunk)
    /\ ~AtChunk /\ reorder = {} => a = reducer.next
    /\ \A r \in reorder : a = ChunkEnd(r)
    /\ Tiles(results, a, b)
    /\ BackendHolds => b = backend.chunk.start /\ c = ChunkEnd(backend.chunk)
    /\ backend.pc = "recv" => b = c
    /\ Tiles(chunks, c, producer.offset)
EndOfStream ==
    /\ BackendGone /\ ~stop /\ "rebuild" \notin setup.faults
    /\ \A i \in DOMAIN results : results[i].ok
    /\ \A r \in reorder : r.ok
AllHandedOver(b) ==
    /\ b = producer.offset /\ chunks = <<>>
    /\ producer.pc = "failed" \/ (producer.pc = "done" /\ NothingLeft)
InOrder ==
    Reducing =>
        \E a, b, c \in Nat : CutAt(a, b, c) /\ (EndOfStream => AllHandedOver(b))

ProducerDoneWhy ==
    Running /\ ~BackendGone /\ producer.pc = "done" => stop \/ NothingLeft

\* Without a failing call, nothing on the way to the end is an error.
NoErrors ==
    setup.faults = {} /\ ~setup.growing =>
        /\ reducer.outcome # "Err" /\ producer.pc \notin {"failed", "request", "waiting"}
        /\ demand = 0
        /\ \A i \in DOMAIN results : results[i].ok
        /\ \A r \in reorder : r.ok
        /\ BackendHolds => backend.chunk.ok

\* No perfect match was seen before this invocation.
CleanStart == \A o \in 0..(session.offset - 1) : score[o] < PerfectScore

BoundsTold ==
    /\ reducer.outcome = "LimitReached" =>
           setup.limit # NoBound /\ run.scanned - session.scanned = setup.limit
    /\ reducer.outcome = "PerfectFound" =>
           run.best >= PerfectScore /\ ~session.keepGoing
ExhaustionTold ==
    Running /\ reducer.outcome = "SourceExhausted" /\ producer.pc # "failed"
      /\ "rebuild" \notin setup.faults
        => producer.pc = "done" /\ ~setup.growing /\ run.offset + WindowLen > published
\* A perfect match is not passed over.
NoMatchYet ==
    Running /\ ~session.keepGoing /\ CleanStart /\ reducer.pc # "persist"
      /\ reducer.outcome \notin {"Err", "PerfectFound"}
        => run.best < PerfectScore
EndsAreTold ==
    /\ BoundsTold /\ ExhaustionTold /\ ExhaustedMeansScanned
    /\ NoMatchYet /\ PerfectMatchEndsRun

SteadyMatches ==
    setup.faults = {} /\ ~setup.crashes /\ ~setup.growing /\ setup.keepGoing # BOOLEAN

\* Best, with the scores as a parameter.
BestOf(scores, S) ==
    {o \in S :
        Cardinality({p \in S : \/ scores[p] > scores[o]
                               \/ scores[p] = scores[o] /\ p < o}) < TopN}
\* The matches kept are the best of what was merged: whole chunks, and of the
\* chunk at hand the improvements found so far.
TopsAreBest ==
    SteadyMatches =>
        /\ (reducer.outcome # "PerfectFound" /\ ~AtChunk)
              => run.top = BestOf(score, 0..(run.offset - 1))
        /\ AtChunk => \E found \in SUBSET Windows(reducer.chunk) :
                          run.top = BestOf(score, (0..(reducer.next - 1)) \cup found)
        /\ ~Running /\ row.status # "PerfectFound" =>
               row.top = BestOf(score, 0..(row.offset - 1))
        /\ Running => session.keepGoing \in setup.keepGoing
        /\ row.status = "PerfectFound" => FALSE \in setup.keepGoing

IInv ==
    /\ TypeOK
    /\ ChunksAreGood /\ CountsAgree /\ ReducerAt
    /\ BestsAreReal /\ RowFollowsRun
    /\ InOrder /\ ProducerDoneWhy
    /\ NoErrors /\ EndsAreTold /\ TopsAreBest

-----------------------------------------------------------------------------
(* Orderings.                                                              *)

\* Strict inclusion, as the ordering of the library has it.
LEMMA StrictSubset ==
    ASSUME NEW S, NEW A \in SUBSET S, NEW B \in SUBSET S, A \subseteq B, A # B
    PROVE  <<A, B>> \in StrictSubsetOrdering(S)
<1>1. <<A, B>> \in (SUBSET S) \X (SUBSET S) /\ <<A, B>>[1] = A /\ <<A, B>>[2] = B
  OBVIOUS
<1>2. QED BY <1>1, Zenon DEF StrictSubsetOrdering

\* A set of naturals that is not empty has a least element.
LEMMA LeastNatural ==
    ASSUME NEW S \in SUBSET Nat, S # {}
    PROVE  \E m \in S : \A n \in S : m <= n
<1> DEFINE Below(n) == 0..(n - 1)
           U == {Below(n) : n \in S}
<1>1. PICK k \in S : TRUE
  OBVIOUS
<1>2. IsWellFoundedOn(StrictSubsetOrdering(Nat), FiniteSubsetsOf(Nat))
  BY FS_StrictSubsetOrderingWellFounded
<1>3. \A n \in S : Below(n) \in FiniteSubsetsOf(Nat)
  BY FS_Interval DEF FiniteSubsetsOf
<1>4. U \subseteq FiniteSubsetsOf(Nat) /\ U # {}
  BY <1>1, <1>3
<1>5. PICK x \in U : \A y \in U : ~(<<y, x>> \in StrictSubsetOrdering(Nat))
  <2> HIDE DEF U
  <2> QED BY <1>2, <1>4, WFMin
<1>6. PICK m \in S : x = Below(m)
  BY <1>5
<1>7. ASSUME NEW n \in S, ~(m <= n) PROVE FALSE
  <2>1. Below(n) \subseteq Below(m) /\ Below(n) # Below(m)
    <3>1. n \in Below(m) /\ n \notin Below(n)
      BY <1>7
    <3>2. QED BY <3>1, <1>7
  <2>2. <<Below(n), Below(m)>> \in StrictSubsetOrdering(Nat)
    <3>1. Below(n) \in SUBSET Nat /\ Below(m) \in SUBSET Nat
      OBVIOUS
    <3>2. QED
      <4> HIDE DEF Below
      <4> QED BY <2>1, <3>1, StrictSubset
  <2>3. QED BY <2>2, <1>5, <1>6, <1>7
<1>8. QED BY <1>6, <1>7

-----------------------------------------------------------------------------
(* The ranking.                                                            *)

\* Any set of windows is finite, and so is what is ahead of one of them.
LEMMA AheadIsFinite ==
    ASSUME NEW S \in SUBSET Offsets, NEW o
    PROVE  /\ IsFiniteSet(S) /\ IsFiniteSet(Ahead(S, o))
           /\ Cardinality(Ahead(S, o)) \in Nat
<1>1. IsFiniteSet(Offsets)
  BY SizesAssumption, FS_Interval DEF Offsets
<1>2. IsFiniteSet(S)
  BY <1>1, FS_Subset
<1>3. Ahead(S, o) \in SUBSET S
  BY DEF Ahead
<1>4. IsFiniteSet(Ahead(S, o))
  BY <1>2, <1>3, FS_Subset
<1>5. QED BY <1>2, <1>4, FS_CardinalityType

\* A window ahead of another has fewer windows ahead of itself.
LEMMA AheadIsOrdered ==
    ASSUME Scored, NEW S \in SUBSET Offsets, NEW p \in Offsets, NEW o \in Offsets,
           Better(p, o)
    PROVE  /\ Ahead(S, p) \subseteq Ahead(S, o)
           /\ p \notin Ahead(S, p) /\ (p \in S => p \in Ahead(S, o))
           /\ Cardinality(Ahead(S, p)) <= Cardinality(Ahead(S, o))
<1>1. \A q \in Offsets : score[q] \in Nat /\ q \in Nat
  BY SizesAssumption DEF Scored, Offsets
<1>2. Ahead(S, p) \subseteq Ahead(S, o)
  BY <1>1 DEF Ahead, Better
<1>3. p \notin Ahead(S, p) /\ (p \in S => p \in Ahead(S, o))
  BY <1>1 DEF Ahead, Better
<1>4. QED BY <1>2, <1>3, AheadIsFinite, FS_Subset

\* Of two windows, one is ahead of the other.
LEMMA BetterIsTotal ==
    ASSUME Scored, NEW p \in Offsets, NEW o \in Offsets, p # o
    PROVE  Better(p, o) \/ Better(o, p)
<1>1. score[p] \in Nat /\ score[o] \in Nat /\ p \in Nat /\ o \in Nat
  BY SizesAssumption DEF Scored, Offsets
<1>2. QED BY <1>1 DEF Better

LEMMA BestIs ==
    ASSUME NEW S
    PROVE  Best(S) = BestOf(score, S)
  BY DEF Best, Better, BestOf

LEMMA BestByRank ==
    ASSUME NEW S, NEW o
    PROVE  o \in Best(S) <=> o \in S /\ Cardinality(Ahead(S, o)) < TopN
  BY Zenon DEF Best, Ahead

\* If any window is left out, the TopN places are taken.
LEMMA BestIsFull ==
    ASSUME Scored, NEW S \in SUBSET Offsets, NEW o \in S, o \notin Best(S)
    PROVE  IsFiniteSet(Best(S)) /\ TopN <= Cardinality(Best(S))
<1> DEFINE U == {Ahead(S, x) : x \in S \ Best(S)}
<1>1. \A x \in S : Ahead(S, x) \in FiniteSubsetsOf(S)
  BY AheadIsFinite DEF FiniteSubsetsOf, Ahead
<1>2. U \subseteq FiniteSubsetsOf(S) /\ U # {}
  BY <1>1
<1>3. IsWellFoundedOn(StrictSubsetOrdering(S), FiniteSubsetsOf(S))
  BY FS_StrictSubsetOrderingWellFounded
<1>4. PICK u \in U : \A y \in U : ~(<<y, u>> \in StrictSubsetOrdering(S))
  <2> HIDE DEF U
  <2> QED BY <1>2, <1>3, WFMin
<1>5. PICK x \in S \ Best(S) : u = Ahead(S, x)
  BY <1>4
<1>6. ASSUME NEW p \in Ahead(S, x), p \notin Best(S) PROVE FALSE
  <2>1. p \in S /\ p \in Offsets /\ x \in Offsets /\ Better(p, x)
    BY <1>6 DEF Ahead
  <2>2. Ahead(S, p) \subseteq Ahead(S, x) /\ Ahead(S, p) # Ahead(S, x)
    BY <2>1, <1>6, AheadIsOrdered
  <2>3. Ahead(S, p) \in SUBSET S /\ Ahead(S, x) \in SUBSET S
    BY DEF Ahead
  <2>4. <<Ahead(S, p), Ahead(S, x)>> \in StrictSubsetOrdering(S)
    BY <2>2, <2>3, StrictSubset
  <2>5. Ahead(S, p) \in U
    BY <2>1, <1>6
  <2>6. QED BY <2>4, <2>5, <1>4, <1>5
<1>7. Ahead(S, x) \in SUBSET Best(S) /\ Best(S) \in SUBSET S
  BY <1>6 DEF Best
<1>8. ~(Cardinality(Ahead(S, x)) < TopN)
  BY <1>5, BestByRank
<1>9. IsFiniteSet(Best(S))
  BY <1>7, AheadIsFinite, FS_Subset
<1>10. Cardinality(Ahead(S, x)) <= Cardinality(Best(S))
  BY <1>7, <1>9, FS_Subset
<1>11. Cardinality(Ahead(S, x)) \in Nat /\ Cardinality(Best(S)) \in Nat /\ TopN \in Nat
  BY <1>9, AheadIsFinite, FS_CardinalityType, SizesAssumption
<1>12. QED BY <1>8, <1>9, <1>10, <1>11

\* Windows that are not among the best may be dropped, or not.
LEMMA BestOfBetween ==
    ASSUME Scored, NEW S \in SUBSET Offsets, NEW T \in SUBSET S, Best(S) \subseteq T
    PROVE  Best(T) = Best(S)
<1>1. \A o \in S : /\ IsFiniteSet(Ahead(S, o)) /\ Cardinality(Ahead(S, o)) \in Nat
                   /\ IsFiniteSet(Ahead(T, o)) /\ Cardinality(Ahead(T, o)) \in Nat
                   /\ Cardinality(Ahead(T, o)) <= Cardinality(Ahead(S, o))
  <2> TAKE o \in S
  <2>1. Ahead(T, o) \in SUBSET Ahead(S, o)
    BY DEF Ahead
  <2>2. T \in SUBSET Offsets
    OBVIOUS
  <2>3. QED BY <2>1, <2>2, AheadIsFinite, FS_Subset
<1>2. TopN \in Nat
  BY SizesAssumption
<1>3. ASSUME NEW o \in Best(S) PROVE o \in Best(T)
  <2>1. o \in S /\ o \in T /\ Cardinality(Ahead(S, o)) < TopN
    BY BestByRank
  <2>2. Cardinality(Ahead(T, o)) < TopN
    BY <2>1, <1>1, <1>2
  <2>3. QED BY <2>1, <2>2, BestByRank
<1>4. ASSUME NEW o \in Best(T), o \notin Best(S) PROVE FALSE
  <2>1. o \in T /\ o \in S /\ o \in Offsets /\ Cardinality(Ahead(T, o)) < TopN
    BY BestByRank
  <2>2. ASSUME NEW q \in Best(S) PROVE q \in Ahead(T, o)
    <3>1. q \in S /\ q \in T /\ q \in Offsets /\ Cardinality(Ahead(S, q)) < TopN /\ q # o
      BY <1>4, BestByRank
    <3>2. CASE Better(o, q)
      <4>1. Cardinality(Ahead(S, o)) <= Cardinality(Ahead(S, q))
        BY <2>1, <3>1, <3>2, AheadIsOrdered
      <4>2. Cardinality(Ahead(S, o)) < TopN
        BY <4>1, <3>1, <2>1, <1>1, <1>2
      <4>3. QED BY <4>2, <2>1, <1>4, BestByRank
    <3>3. CASE ~Better(o, q)
      BY <3>1, <3>3, <2>1, BetterIsTotal DEF Ahead
    <3>4. QED BY <3>2, <3>3
  <2>3. IsFiniteSet(Best(S)) /\ TopN <= Cardinality(Best(S))
    BY <2>1, <1>4, BestIsFull
  <2>4. Best(S) \in SUBSET Ahead(T, o)
    BY <2>2
  <2>5. Cardinality(Best(S)) <= Cardinality(Ahead(T, o)) /\ Cardinality(Best(S)) \in Nat
    BY <2>3, <2>4, <2>1, <1>1, FS_Subset, FS_CardinalityType
  <2>6. QED BY <2>1, <2>3, <2>5, <1>1, <1>2
<1>5. QED BY <1>3, <1>4

\* Merging into what was kept of a set is merging into the set.
LEMMA BestOfMerge ==
    ASSUME Scored, NEW A \in SUBSET Offsets, NEW B \in SUBSET Offsets
    PROVE  Best(Best(A) \cup B) = Best(A \cup B)
<1>1. ASSUME NEW o \in Best(A \cup B) PROVE o \in Best(A) \cup B
  <2>1. SUFFICES ASSUME o \in A PROVE o \in Best(A)
    BY BestByRank
  <2>2. A \cup B \in SUBSET Offsets /\ Ahead(A, o) \in SUBSET Ahead(A \cup B, o)
    BY DEF Ahead
  <2>3. Cardinality(Ahead(A, o)) <= Cardinality(Ahead(A \cup B, o))
    BY <2>2, AheadIsFinite, FS_Subset
  <2>4. Cardinality(Ahead(A \cup B, o)) < TopN
    BY BestByRank
  <2>5. Cardinality(Ahead(A, o)) \in Nat /\ Cardinality(Ahead(A \cup B, o)) \in Nat /\ TopN \in Nat
    BY <2>2, AheadIsFinite, SizesAssumption
  <2>6. Cardinality(Ahead(A, o)) < TopN
    BY <2>3, <2>4, <2>5
  <2>7. QED BY <2>1, <2>6, BestByRank
<1>2. Best(A) \in SUBSET A
  BY DEF Best
<1>3. Best(A) \cup B \in SUBSET (A \cup B) /\ A \cup B \in SUBSET Offsets
  BY <1>2
<1>4. QED BY <1>1, <1>3, BestOfBetween

-----------------------------------------------------------------------------
(* Stretches of windows.                                                   *)

\* No chunks make an empty stretch.
LEMMA TilesNone ==
    ASSUME NEW a \in Nat, NEW b \in Nat
    PROVE  /\ Tiles(<<>>, a, a)
           /\ Tiles(<<>>, a, b) => a = b
  BY DEF Tiles

\* A chunk that starts where the stretch ends extends it.
LEMMA TilesAppend ==
    ASSUME NEW s \in Seq(ChunkType), NEW a \in Nat, NEW b \in Nat, Tiles(s, a, b),
           NEW c \in ChunkType, c.start = b
    PROVE  Tiles(Append(s, c), a, ChunkEnd(c))
<1> DEFINE t == Append(s, c)
<1>1. /\ Len(s) \in Nat /\ DOMAIN s = 1..Len(s) /\ DOMAIN t = 1..(Len(s) + 1)
      /\ \A i \in 1..Len(s) : t[i] = s[i] /\ s[i] \in ChunkType
      /\ t[Len(s) + 1] = c
  OBVIOUS
<1>2. c.start \in Nat /\ c.windows \in Nat /\ b <= ChunkEnd(c) /\ ChunkEnd(c) \in Nat
  BY DEF ChunkType, ChunkEnd
<1>3. \A i \in 1..Len(s) : s[i].start \in Nat /\ s[i].windows \in Nat /\ ChunkEnd(s[i]) \in Nat
  BY SMTT(40), <1>1 DEF ChunkType, ChunkEnd
<1> HIDE DEF t
<1>4. \A i \in DOMAIN t : a <= t[i].start /\ ChunkEnd(t[i]) <= ChunkEnd(c)
  <2> TAKE i \in DOMAIN t
  <2>1. CASE i \in 1..Len(s)
    <3>1. a <= s[i].start /\ ChunkEnd(s[i]) <= b
      BY <1>1, <2>1 DEF Tiles
    <3>2. QED BY <3>1, <2>1, <1>1, <1>2, <1>3
  <2>2. CASE i = Len(s) + 1
    BY <2>2, <1>1, <1>2 DEF Tiles
  <2>3. QED BY <2>1, <2>2, <1>1
<1>5. \A i, j \in DOMAIN t : i < j => ChunkEnd(t[i]) <= t[j].start
  <2> TAKE i, j \in DOMAIN t
  <2> HAVE i < j
  <2>1. i \in 1..Len(s) /\ (j \in 1..Len(s) \/ j = Len(s) + 1)
    BY <1>1
  <2>2. t[i] = s[i] /\ ChunkEnd(s[i]) <= b
    BY <2>1, <1>1 DEF Tiles
  <2>3. CASE j \in 1..Len(s)
    BY <2>1, <2>2, <2>3, <1>1 DEF Tiles
  <2>4. CASE j = Len(s) + 1
    BY <2>2, <2>4, <1>1
  <2>5. QED BY <2>1, <2>3, <2>4
<1>6. \A w \in a..(ChunkEnd(c) - 1) : \E i \in DOMAIN t : w \in Windows(t[i])
  <2> TAKE w \in a..(ChunkEnd(c) - 1)
  <2>1. CASE w \in a..(b - 1)
    <3>1. PICK i \in DOMAIN s : w \in Windows(s[i])
      BY <2>1 DEF Tiles
    <3>2. i \in DOMAIN t /\ t[i] = s[i]
      BY <3>1, <1>1
    <3>3. QED BY <3>1, <3>2
  <2>2. CASE w >= b
    <3>1. w \in Windows(c)
      BY <2>2, <1>2 DEF Windows, ChunkEnd
    <3>2. QED BY <3>1, <1>1
  <2>3. QED BY <2>1, <2>2, <1>2
<1>7. a <= ChunkEnd(c)
  BY <1>2 DEF Tiles
<1>8. QED BY <1>4, <1>5, <1>6, <1>7 DEF Tiles, t

\* The first chunk of a stretch starts where the stretch does.
LEMMA TilesHead ==
    ASSUME NEW s \in Seq(ChunkType), s # <<>>, NEW a \in Nat, NEW b \in Nat, Tiles(s, a, b),
           \A i \in DOMAIN s : s[i].windows >= 1
    PROVE  /\ Head(s) = s[1] /\ 1 \in DOMAIN s /\ s[1] \in ChunkType
           /\ s[1].start = a /\ ChunkEnd(s[1]) \in Nat
           /\ Tail(s) \in Seq(ChunkType)
           /\ Tiles(Tail(s), ChunkEnd(s[1]), b)
<1> DEFINE t == Tail(s)
<1>1. /\ Len(s) \in Nat \ {0} /\ DOMAIN s = 1..Len(s) /\ DOMAIN t = 1..(Len(s) - 1)
      /\ \A i \in 1..Len(s) : s[i] \in ChunkType
      /\ \A i \in 1..(Len(s) - 1) : t[i] = s[i + 1]
      /\ Head(s) = s[1] /\ t \in Seq(ChunkType)
  OBVIOUS
<1>2. \A i \in 1..Len(s) : /\ s[i].start \in Nat /\ s[i].windows \in Nat /\ ChunkEnd(s[i]) \in Nat
                           /\ s[i].start < ChunkEnd(s[i])
  BY <1>1 DEF ChunkType, ChunkEnd
<1> HIDE DEF t
<1>3. /\ \A i \in 1..Len(s) : a <= s[i].start /\ ChunkEnd(s[i]) <= b
      /\ \A i, j \in 1..Len(s) : i < j => ChunkEnd(s[i]) <= s[j].start
      /\ \A w \in a..(b - 1) : \E i \in 1..Len(s) : w \in Windows(s[i])
  BY <1>1 DEF Tiles
<1>4. s[1].start = a
  <2>1. a \in a..(b - 1)
    BY <1>1, <1>2, <1>3
  <2>2. PICK i \in 1..Len(s) : a \in Windows(s[i])
    BY <2>1, <1>3
  <2>3. s[i].start = a
    BY <2>2, <1>3, <1>2 DEF Windows
  <2>4. i = 1
    <3>1. SUFFICES ASSUME 1 < i PROVE FALSE
      BY <1>1
    <3>2. 1 \in 1..Len(s) /\ ChunkEnd(s[1]) <= s[i].start
      BY <3>1, <1>1, <1>3
    <3>3. QED BY <3>2, <2>3, <1>2, <1>3
  <2>5. QED BY <2>3, <2>4
<1>5. 1 \in 1..Len(s) /\ ChunkEnd(s[1]) <= b
  BY <1>1, <1>3
<1>6. \A i \in DOMAIN t : ChunkEnd(s[1]) <= t[i].start /\ ChunkEnd(t[i]) <= b
  <2> TAKE i \in DOMAIN t
  <2>1. i + 1 \in 1..Len(s) /\ 1 < i + 1 /\ t[i] = s[i + 1]
    BY <1>1
  <2>2. QED BY <2>1, <1>3, <1>5
<1>7. \A i, j \in DOMAIN t : i < j => ChunkEnd(t[i]) <= t[j].start
  <2> TAKE i, j \in DOMAIN t
  <2>1. i + 1 \in 1..Len(s) /\ j + 1 \in 1..Len(s) /\ t[i] = s[i + 1] /\ t[j] = s[j + 1]
    BY <1>1
  <2>2. i < j => i + 1 < j + 1
    BY <1>1
  <2>3. QED BY <2>1, <2>2, <1>3
<1>8. \A w \in ChunkEnd(s[1])..(b - 1) : \E i \in DOMAIN t : w \in Windows(t[i])
  <2> TAKE w \in ChunkEnd(s[1])..(b - 1)
  <2>1. w \in a..(b - 1) /\ w \notin Windows(s[1])
    BY <1>2, <1>4, <1>5 DEF Windows, ChunkEnd
  <2>2. PICK i \in 1..Len(s) : w \in Windows(s[i])
    BY <2>1, <1>3
  <2>3. i # 1
    BY <2>1, <2>2
  <2>4. i - 1 \in DOMAIN t /\ t[i - 1] = s[i]
    BY <2>2, <2>3, <1>1
  <2>5. QED BY <2>2, <2>4
<1>9. Tiles(t, ChunkEnd(s[1]), b)
  BY <1>5, <1>6, <1>7, <1>8 DEF Tiles
<1>10. QED BY <1>1, <1>2, <1>4, <1>5, <1>9 DEF t

-----------------------------------------------------------------------------
(* Types.                                                                  *)

\* What the assumption says of the chosen setup.
LEMMA SetupIs ==
    ASSUME TypeOK
    PROVE  /\ setup \in Setups
           /\ setup.chunkWindows \in Nat \ {0} /\ setup.queueDepth \in Nat \ {0}
           /\ setup.limit \in Nat \cup {NoBound} /\ setup.maxOffset \in Nat \cup {NoBound}
           /\ setup.growing \in BOOLEAN /\ setup.crashes \in BOOLEAN
           /\ setup.maxCommands \in Nat /\ setup.maxInvocations \in Nat
           /\ setup.keepGoing \subseteq BOOLEAN
           /\ Scored
  BY SetupsAssumption DEF TypeOK, Scored

\* The same of every record's fields.
LEMMA FieldTypes ==
    ASSUME TypeOK
    PROVE  /\ producer.offset \in Nat /\ producer.scanned \in Nat
           /\ producer.chunk \in ChunkType /\ producer.prefetched \in Nat
           /\ session.offset \in Nat /\ session.scanned \in Nat
           /\ session.keepGoing \in BOOLEAN
           /\ backend.chunk \in ChunkType
           /\ reducer.next \in Nat /\ reducer.chunk \in ChunkType
           /\ published \in Nat /\ demand \in Nat
           /\ run.offset \in Nat /\ run.scanned \in Nat /\ run.best \in 0..PerfectScore
           /\ row.offset \in Nat /\ row.scanned \in Nat /\ row.best \in 0..PerfectScore
           /\ run.bestAt \in Offsets \cup {NoBound} /\ row.bestAt \in Offsets \cup {NoBound}
           /\ run.top \in SUBSET Offsets /\ row.top \in SUBSET Offsets
<1>1. /\ producer \in ProducerType /\ backend \in BackendType /\ reducer \in ReducerType
      /\ session \in [offset : Nat, scanned : Nat, keepGoing : BOOLEAN]
      /\ published \in Nat /\ demand \in Nat
      /\ row \in RowType /\ run \in RowType
  BY SizesAssumption DEF TypeOK
<1>2. \A r \in RowType : /\ r.offset \in Nat /\ r.scanned \in Nat /\ r.best \in 0..PerfectScore
                         /\ r.bestAt \in Offsets \cup {NoBound} /\ r.top \in SUBSET Offsets
  BY DEF RowType
<1>3. /\ producer.offset \in Nat /\ producer.scanned \in Nat
      /\ producer.chunk \in ChunkType /\ producer.prefetched \in Nat
  BY <1>1 DEF ProducerType
<1>4. reducer.next \in Nat /\ reducer.chunk \in ChunkType /\ backend.chunk \in ChunkType
  BY <1>1 DEF ReducerType, BackendType
<1>5. QED BY <1>1, <1>2, <1>3, <1>4

LEMMA ChunkFields ==
    ASSUME NEW c \in ChunkType
    PROVE  /\ c.start \in Nat /\ c.scanned \in Nat /\ c.windows \in Nat /\ c.ok \in BOOLEAN
           /\ ChunkEnd(c) \in Nat
  BY DEF ChunkType, ChunkEnd

\* What lies before a chunk and the chunk make up what lies before its end.
LEMMA StretchesJoin ==
    ASSUME NEW n \in Nat, NEW end \in Nat, n < end, NEW F \in SUBSET (n..(end - 1))
    PROVE  ((0..(n - 1)) \cup F) \cup (n..(end - 1)) = 0..(end - 1)
<1>1. \A k : k \in n..(end - 1) <=> k \in Int /\ n <= k /\ k <= end - 1
  OBVIOUS
<1>2. \A k : k \in 0..(n - 1) <=> k \in Int /\ 0 <= k /\ k <= n - 1
  OBVIOUS
<1>3. \A k : k \in 0..(end - 1) <=> k \in Int /\ 0 <= k /\ k <= end - 1
  OBVIOUS
<1>4. \A k : k \in F => k \in n..(end - 1)
  OBVIOUS
<1>5. \A k : k \in 0..(end - 1) <=> k \in 0..(n - 1) \/ k \in n..(end - 1)
  BY <1>1, <1>2, <1>3
<1> QED
  BY <1>4, <1>5, Zenon

\* The size of the next chunk: at least one window, all of it there and within
\* the bounds.
LEMMA ChunkSizeFits ==
    ASSUME TypeOK, ~BoundReached, Available >= WindowLen
    PROVE  /\ ChunkSize \in Nat /\ ChunkSize >= 1
           /\ producer.offset + ChunkSize + WindowLen <= published + 1
           /\ setup.limit # NoBound =>
                  producer.scanned + ChunkSize <= session.scanned + setup.limit
           /\ setup.maxOffset # NoBound => producer.offset + ChunkSize <= setup.maxOffset
<1> DEFINE first == Lesser(setup.chunkWindows, Available - WindowLen + 1)
           second == Bounded(first, setup.limit, producer.scanned - session.scanned)
<1>1. /\ producer.offset \in Nat /\ producer.scanned \in Nat /\ session.scanned \in Nat
      /\ published \in Nat /\ WindowLen \in Nat \ {0} /\ setup.chunkWindows \in Nat \ {0}
      /\ setup.limit \in Nat \cup {NoBound} /\ setup.maxOffset \in Nat \cup {NoBound}
      /\ NoBound \notin Nat
  BY SetupIs, FieldTypes, SizesAssumption
<1>2. Available = published - producer.offset
  BY <1>1 DEF Available
<1>3. /\ first \in Nat /\ first >= 1
      /\ producer.offset + first + WindowLen <= published + 1
  BY <1>1, <1>2 DEF Lesser
<1> HIDE DEF first
<1>4. /\ second \in Nat /\ second >= 1 /\ second <= first
      /\ setup.limit # NoBound =>
             producer.scanned + second <= session.scanned + setup.limit
  BY <1>1, <1>3 DEF Bounded, Lesser, BoundReached
<1> HIDE DEF second
<1>5. ChunkSize = Bounded(second, setup.maxOffset, producer.offset)
  BY DEF ChunkSize, first, second
<1>6. /\ ChunkSize \in Nat /\ ChunkSize >= 1 /\ ChunkSize <= second
      /\ setup.maxOffset # NoBound => producer.offset + ChunkSize <= setup.maxOffset
  BY <1>1, <1>4, <1>5 DEF Bounded, Lesser, BoundReached
<1>7. QED BY <1>1, <1>3, <1>4, <1>6

\* The next improvement is the first window of the chunk that beats the best.
LEMMA NextBestIs ==
    ASSUME TypeOK, GoodChunk(reducer.chunk), Improving # {}
    PROVE  /\ NextBest \in Windows(reducer.chunk) /\ NextBest \in Offsets /\ NextBest \in Nat
           /\ reducer.chunk.start <= NextBest /\ NextBest < ChunkEnd(reducer.chunk)
           /\ score[NextBest] \in 0..PerfectScore /\ score[NextBest] > run.best
           /\ \A p \in Windows(reducer.chunk) : p < NextBest => score[p] <= run.best
<1>1. /\ reducer.chunk.start \in Nat /\ reducer.chunk.windows \in Nat
      /\ WindowLen \in Nat \ {0} /\ MaxDigits \in Nat /\ PerfectScore \in Nat
      /\ run.best \in 0..PerfectScore /\ Scored
  BY FieldTypes, ChunkFields, SetupIs, SizesAssumption
<1>2. \A p \in Windows(reducer.chunk) :
          p \in Nat /\ p \in Offsets /\ reducer.chunk.start <= p /\ p < ChunkEnd(reducer.chunk)
            /\ score[p] \in 0..PerfectScore
  BY SMTT(40), <1>1 DEF GoodChunk, Windows, ChunkEnd, Offsets, Scored
<1>3. Improving \in SUBSET Nat
  BY <1>2 DEF Improving
<1>4. PICK m \in Improving : \A n \in Improving : m <= n
  BY <1>3, LeastNatural
<1>5. NextBest \in Improving /\ \A q \in Improving : NextBest <= q
  BY <1>4 DEF NextBest
<1>6. NextBest \in Windows(reducer.chunk) /\ score[NextBest] > run.best
  BY <1>5 DEF Improving
<1>7. ASSUME NEW p \in Windows(reducer.chunk), p < NextBest PROVE score[p] <= run.best
  <2>1. p \notin Improving
    BY <1>5, <1>7, <1>2, <1>6
  <2>2. QED BY <2>1, <1>1, <1>2 DEF Improving
<1>8. QED BY <1>2, <1>6, <1>7

\* The steps, one by one.
LEMMA StepsOf ==
    ASSUME Next
    PROVE  \/ Start \/ Generate \/ Interrupt \/ Crash
           \/ \E c \in Commands : SendCommand(c)
           \/ ProducerPrefetch \/ ProducerStops \/ ProducerCheck \/ ProducerReserve
           \/ ProducerSend \/ ProducerRequest \/ ProducerWaitEnds \/ ProducerSeesStop
           \/ BackendReceive \/ BackendSearch \/ BackendSend
           \/ BackendDropSender \/ BackendDropQueue
           \/ ReducerControl \/ ReducerReceive \/ ReducerDrain
           \/ RecordEvent \/ PersistBest \/ AdvanceChunk
           \/ ReducerConclude \/ CancelWaiters \/ JoinThreads \/ Finish
  BY Zenon DEF Next, ProducerStep, BackendStep, ReducerStep, Environment

ProducerActs ==
    \/ ProducerPrefetch \/ ProducerStops \/ ProducerCheck \/ ProducerReserve
    \/ ProducerSend \/ ProducerRequest \/ ProducerWaitEnds \/ ProducerSeesStop

LEMMA ProducerTypes ==
    ASSUME TypeOK, ProducerActs
    PROVE  /\ producer' \in ProducerType /\ demand' \in Nat /\ chunks' \in Seq(ChunkType)
           /\ ProducerKeepsRest
<1>1. /\ producer \in ProducerType /\ demand \in Nat /\ chunks \in Seq(ChunkType)
      /\ setup.chunkWindows \in Nat /\ setup.limit \in Nat \cup {NoBound}
      /\ setup.maxOffset \in Nat \cup {NoBound} /\ published \in Nat
      /\ session.offset \in Nat /\ session.scanned \in Nat
      /\ WindowLen \in Nat /\ NoBound \notin Nat
  BY SetupIs, FieldTypes, SizesAssumption DEF TypeOK
<1>2. ProducerKeepsRest
  BY DEF ProducerActs, ProducerPrefetch, ProducerStops, ProducerCheck, ProducerReserve,
         ProducerSend, ProducerRequest, ProducerWaitEnds, ProducerSeesStop
<1>3. CASE ProducerPrefetch
  <2> DEFINE limited == IF setup.limit = NoBound THEN {}
                        ELSE {session.offset + setup.limit + WindowLen}
             capped == IF setup.maxOffset = NoBound THEN {} ELSE {setup.maxOffset + WindowLen}
             bounds == limited \cup capped
             target == IF bounds = {} THEN published + Horizon
                       ELSE CHOOSE t \in bounds : \A u \in bounds : t <= u
  <2>1. bounds \in SUBSET Nat
    BY <1>1
  <2>2. target \in Nat
    <3>1. CASE bounds = {}
      BY <3>1, <1>1 DEF Horizon, Larger
    <3>2. CASE bounds # {}
      <4> HIDE DEF bounds
      <4>1. \E t \in bounds : \A u \in bounds : t <= u
        BY <2>1, <3>2, LeastNatural
      <4>2. QED BY <4>1, <3>2, <2>1
    <3>3. QED BY <3>1, <3>2
  <2>3. /\ demand' = demand \/ demand' = Larger(demand, target)
        /\ chunks' = chunks
        /\ \/ producer' = [producer EXCEPT !.pc = "check"]
           \/ producer' = [producer EXCEPT !.pc = "check", !.prefetched = target]
    BY <1>3 DEF ProducerPrefetch
  <2> HIDE DEF target
  <2>4. QED BY <1>1, <1>2, <2>2, <2>3 DEF ProducerType, Larger
<1>4. CASE ProducerStops
  BY <1>1, <1>2, <1>4 DEF ProducerStops, ProducerEnds, ProducerType
<1>5. CASE ProducerCheck
  <2>1. PrefetchTarget \in Nat /\ PrefetchedAfter \in Nat /\ producer.offset \in Nat
          /\ producer.scanned \in Nat
    <3>1. producer.offset \in Nat /\ producer.scanned \in Nat /\ producer.prefetched \in Nat
      BY FieldTypes
    <3>2. PrefetchTarget \in Nat
      BY SMTT(40), <1>1, <3>1 DEF PrefetchTarget, Horizon, Larger
    <3>3. PrefetchedAfter \in {PrefetchTarget, 0, producer.prefetched}
      BY DEF PrefetchedAfter
    <3>4. QED BY <3>1, <3>2, <3>3
  <2>2. chunks' = chunks /\ (demand' = demand \/ demand' = Larger(demand, PrefetchTarget))
    BY <1>5 DEF ProducerCheck
  <2>3. CASE Prefetches /\ generatorError
    BY <1>5, <1>1, <1>2, <2>2, <2>3 DEF ProducerCheck, ProducerEnds, ProducerType
  <2>4. CASE ~(Prefetches /\ generatorError) /\ Available >= WindowLen
    <3> DEFINE next == [start |-> producer.offset, scanned |-> producer.scanned,
                        windows |-> ChunkSize, ok |-> TRUE]
    <3>1. next \in ChunkType
      <4>1. ChunkSize \in Nat
        BY <1>5, <2>4, ChunkSizeFits DEF ProducerCheck
      <4>2. QED BY <4>1, <2>1 DEF ChunkType
    <3>2. producer' = [producer EXCEPT !.pc = "reserve", !.prefetched = PrefetchedAfter,
                                       !.chunk = next]
      BY <1>5, <2>4 DEF ProducerCheck
    <3> HIDE DEF next
    <3>3. QED BY <1>1, <1>2, <2>1, <2>2, <3>1, <3>2 DEF ProducerType, Larger
  <2>5. CASE ~(Prefetches /\ generatorError) /\ ~(Available >= WindowLen)
    <3>1. \/ producer' = [producer EXCEPT !.pc = "request", !.prefetched = PrefetchedAfter]
          \/ producer' = [producer EXCEPT !.pc = "done", !.prefetched = PrefetchedAfter]
      BY <1>5, <2>5 DEF ProducerCheck
    <3>2. QED BY <1>1, <1>2, <2>1, <2>2, <3>1 DEF ProducerType, Larger
  <2>6. QED BY <2>3, <2>4, <2>5
<1>6. CASE ProducerReserve
  BY <1>1, <1>2, <1>6 DEF ProducerReserve, ProducerEnds, ProducerType
<1>7. CASE ProducerSend
  <2>1. demand' = demand /\ (chunks' = chunks \/ chunks' = Append(chunks, producer.chunk))
    BY <1>7 DEF ProducerSend
  <2>2. producer.chunk \in ChunkType /\ producer.chunk.windows \in Nat
          /\ producer.offset \in Nat /\ producer.scanned \in Nat
    BY FieldTypes, ChunkFields
  <2>3. producer' \in ProducerType
    <3> DEFINE offset == producer.offset + producer.chunk.windows
               scanned == producer.scanned + producer.chunk.windows
               moved == [producer EXCEPT !.pc = "check", !.offset = offset, !.scanned = scanned]
    <3>1. producer' = moved \/ producer' = [producer EXCEPT !.pc = "done"]
      BY <1>7 DEF ProducerSend, ProducerEnds
    <3>2. moved \in ProducerType
      <4>1. offset \in Nat /\ scanned \in Nat
        BY <2>2
      <4> HIDE DEF offset, scanned
      <4>2. QED BY <1>1, <4>1 DEF ProducerType
    <3> HIDE DEF moved
    <3>3. QED BY <1>1, <3>1, <3>2 DEF ProducerType
  <2>4. QED BY SMTT(40), <1>1, <1>2, <2>1, <2>2, <2>3
<1>8. CASE ProducerRequest
  <2>1. GenerationTarget \in Nat
    <3>1. producer.offset \in Nat
      BY FieldTypes
    <3>2. QED BY <1>1, <3>1 DEF GenerationTarget, Larger
  <2>2. QED BY <1>1, <1>2, <1>8, <2>1 DEF ProducerRequest, ProducerEnds, ProducerType, Larger
<1>9. CASE ProducerWaitEnds
  BY <1>1, <1>2, <1>9 DEF ProducerWaitEnds, ProducerEnds, ProducerType
<1>10. CASE ProducerSeesStop
  BY <1>1, <1>2, <1>10 DEF ProducerSeesStop, ProducerEnds, ProducerType
<1>11. QED
  BY <1>3, <1>4, <1>5, <1>6, <1>7, <1>8, <1>9, <1>10 DEF ProducerActs

BackendActs ==
    \/ BackendReceive \/ BackendSearch \/ BackendSend
    \/ BackendDropSender \/ BackendDropQueue

LEMMA BackendTypes ==
    ASSUME TypeOK, BackendActs
    PROVE  /\ backend' \in BackendType /\ chunks' \in Seq(ChunkType)
           /\ results' \in Seq(ChunkType) /\ BackendKeepsRest
<1>1. backend \in BackendType /\ chunks \in Seq(ChunkType) /\ results \in Seq(ChunkType)
  BY DEF TypeOK
<1>2. BackendKeepsRest
  BY DEF BackendActs, BackendReceive, BackendSearch, BackendSend, BackendDropSender,
         BackendDropQueue
<1>3. CASE BackendReceive
  <2>1. results' = results /\ (chunks' = chunks \/ (chunks # <<>> /\ chunks' = Tail(chunks)))
    BY <1>3 DEF BackendReceive
  <2>2. \/ backend' = [backend EXCEPT !.pc = "dropSender"]
        \/ chunks # <<>> /\ backend' = [pc |-> "search", chunk |-> Head(chunks)]
    BY <1>3 DEF BackendReceive
  <2>3. chunks # <<>> => Head(chunks) \in ChunkType /\ Tail(chunks) \in Seq(ChunkType)
    BY <1>1
  <2>4. backend' \in BackendType
    <3>1. CASE backend' = [backend EXCEPT !.pc = "dropSender"]
      BY <3>1, <1>1 DEF BackendType
    <3>2. CASE chunks # <<>> /\ backend' = [pc |-> "search", chunk |-> Head(chunks)]
      BY <3>2, <2>3 DEF BackendType
    <3>3. QED BY <3>1, <3>2, <2>2
  <2>5. QED BY <1>1, <1>2, <2>1, <2>3, <2>4
<1>4. CASE BackendSearch
  <2>1. [backend.chunk EXCEPT !.ok = FALSE] \in ChunkType
    BY FieldTypes DEF ChunkType
  <2>2. \/ backend' = [backend EXCEPT !.pc = "send"]
        \/ backend' = [backend EXCEPT !.pc = "send",
                                      !.chunk = [backend.chunk EXCEPT !.ok = FALSE]]
        \/ backend' = [backend EXCEPT !.pc = "dropSender"]
    BY <1>1, <1>4 DEF BackendSearch, BackendType
  <2>3. QED BY <1>1, <1>2, <1>4, <2>1, <2>2 DEF BackendSearch, BackendType
<1>5. CASE BackendSend
  BY <1>1, <1>2, <1>5 DEF BackendSend, BackendType
<1>6. CASE BackendDropSender
  BY <1>1, <1>2, <1>6 DEF BackendDropSender, BackendType
<1>7. CASE BackendDropQueue
  BY <1>1, <1>2, <1>7 DEF BackendDropQueue, BackendType, IdleBackend, NoChunk, ChunkType
<1>8. QED BY <1>3, <1>4, <1>5, <1>6, <1>7 DEF BackendActs

ReducerActs ==
    \/ ReducerControl \/ ReducerReceive \/ ReducerDrain
    \/ RecordEvent \/ PersistBest \/ AdvanceChunk
    \/ ReducerConclude \/ CancelWaiters \/ JoinThreads \/ Finish

LEMMA AppendStays ==
    ASSUME NEW S, NEW s \in Seq(S), NEW e \in S
    PROVE  Append(s, e) \in Seq(S)
  OBVIOUS

\* What is kept of a set of windows is a set of windows.
LEMMA BestIsSubset ==
    ASSUME NEW S \in SUBSET Offsets
    PROVE  Best(S) \in SUBSET Offsets
  BY DEF Best

LEMMA ReducerTypes ==
    ASSUME TypeOK, ReducerActs, AtChunk => GoodChunk(reducer.chunk)
    PROVE  /\ reducer' \in ReducerType /\ reorder' \subseteq ChunkType
           /\ results' \in Seq(ChunkType) /\ run' \in RowType /\ row' \in RowType
           /\ history' \in Seq([offset : Offsets, score : 0..PerfectScore])
           /\ stop' \in BOOLEAN /\ cancelled' \in BOOLEAN /\ inbox' \in Seq(Commands)
           /\ ReducerKeepsRest
<1>1. /\ reducer \in ReducerType /\ reorder \subseteq ChunkType
      /\ results \in Seq(ChunkType) /\ run \in RowType /\ row \in RowType
      /\ history \in Seq([offset : Offsets, score : 0..PerfectScore])
      /\ stop \in BOOLEAN /\ cancelled \in BOOLEAN /\ inbox \in Seq(Commands)
  BY DEF TypeOK
<1>2. ReducerKeepsRest
  BY DEF ReducerActs, ReducerControl, ReducerReceive, ReducerDrain, RecordEvent,
         PersistBest, AdvanceChunk, ReducerConclude, CancelWaiters, JoinThreads, Finish
<1>3. ASSUME NEW outcome \in Finishes \cup {"Err"}, Return(outcome)
      PROVE  /\ reducer' \in ReducerType /\ reorder' \subseteq ChunkType
             /\ results' \in Seq(ChunkType)
  <2>1. reorder' = {} /\ results' = <<>>
    BY <1>3 DEF Return
  <2>2. reducer' = [reducer EXCEPT !.pc = "cancel", !.outcome = outcome]
    BY <1>3 DEF Return
  <2>3. reducer' \in ReducerType
    BY <1>1, <2>2 DEF ReducerType
  <2>4. QED BY <2>1, <2>3
<1>4. ASSUME NEW pc \in {"off", "control", "recv", "drain", "record", "persist",
                         "conclude", "cancel", "join", "finish"}, Goto(pc)
      PROVE  /\ reducer' \in ReducerType /\ reorder' \subseteq ChunkType
             /\ results' \in Seq(ChunkType)
  BY <1>1, <1>4 DEF Goto, ReducerType
<1>5. \A r \in RowType : \A s \in {"Paused", "Running", "PerfectFound", "SourceExhausted"} :
          [r EXCEPT !.status = s] \in RowType
  BY DEF RowType
<1>6. {"Interrupted", "MaxOffsetReached", "LimitReached", "SourceExhausted", "PerfectFound"}
          \subseteq Finishes
  BY DEF Finishes
<1>7. CASE ReducerControl
  <2> DEFINE toggles == {i \in DOMAIN inbox : inbox[i] \in {"Pause", "Resume"}}
             paused == IF toggles = {} THEN reducer.paused
                       ELSE \E i \in toggles : inbox[i] = "Pause" /\ \A j \in toggles : j <= i
             status == IF toggles = {} THEN run.status
                       ELSE IF paused THEN "Paused" ELSE "Running"
  <2>1. paused \in BOOLEAN
    BY <1>1 DEF ReducerType
  <2>2. status \in {"Paused", "Running", "PerfectFound", "SourceExhausted"}
    BY <1>1 DEF RowType
  <2>3. /\ inbox' = <<>> /\ cancelled' = cancelled /\ history' = history
        /\ run' = [run EXCEPT !.status = status]
        /\ row' = row \/ row' = run'
        /\ stop' = stop \/ stop' = (stop \/ StopRequested)
        /\ \/ Return("Interrupted") \/ Return("Err")
           \/ /\ \/ reducer' = [reducer EXCEPT !.paused = paused, !.pc = "control"]
                 \/ reducer' = [reducer EXCEPT !.paused = paused, !.pc = "recv"]
              /\ reorder' = reorder /\ results' = results
    BY <1>7 DEF ReducerControl
  <2> HIDE DEF paused, status
  <2>4. run' \in RowType /\ row' \in RowType
    BY <1>1, <1>5, <2>2, <2>3
  <2>5. reducer' \in ReducerType /\ reorder' \subseteq ChunkType /\ results' \in Seq(ChunkType)
    <3>1. CASE Return("Interrupted") \/ Return("Err")
      BY <3>1, <1>3, <1>6
    <3>2. CASE ~(Return("Interrupted") \/ Return("Err"))
      BY <3>2, <1>1, <2>1, <2>3 DEF ReducerType
    <3>3. QED BY <3>1, <3>2
  <2>6. stop' \in BOOLEAN
    BY <1>1, <2>3 DEF StopRequested
  <2>7. QED BY <1>1, <1>2, <2>3, <2>4, <2>5, <2>6
<1>8. CASE ReducerReceive
  <2>1. UNCHANGED <<row, history, run, stop, cancelled, inbox>>
    BY <1>8 DEF ReducerReceive, storeVars
  <2>2. reducer' \in ReducerType /\ reorder' \subseteq ChunkType /\ results' \in Seq(ChunkType)
    <3>1. CASE results # <<>>
      <4>1. Head(results) \in ChunkType /\ Tail(results) \in Seq(ChunkType)
        BY <1>1, <3>1
      <4>2. QED BY <1>1, <1>8, <3>1, <4>1 DEF ReducerReceive, ReducerType
    <3>2. CASE results = <<>>
      <4>1. Goto("conclude") \/ Return("Interrupted") \/ Goto("control")
        BY <1>8, <3>2 DEF ReducerReceive
      <4>2. QED BY <4>1, <1>3, <1>4, <1>6
    <3>3. QED BY <3>1, <3>2
  <2>3. QED BY <1>1, <1>2, <2>1, <2>2
<1>9. CASE ReducerDrain
  <2>1. UNCHANGED <<row, history, run, cancelled, inbox>> /\ stop' \in BOOLEAN
    BY <1>1, <1>9 DEF ReducerDrain, storeVars
  <2>2. reducer' \in ReducerType /\ reorder' \subseteq ChunkType /\ results' \in Seq(ChunkType)
    <3> DEFINE ready == {r \in reorder : r.start = reducer.next}
               result == CHOOSE r \in ready : TRUE
    <3>1. ready # {} => result \in ChunkType
      BY <1>1
    <3>2. \/ Goto("control") \/ Return("Err")
          \/ /\ ready # {} /\ reducer' = [reducer EXCEPT !.pc = "record", !.chunk = result]
             /\ reorder' = reorder \ {result} /\ results' = results
      BY <1>9 DEF ReducerDrain
    <3> HIDE DEF ready, result
    <3>3. CASE Goto("control")
      BY <3>3, <1>4
    <3>4. CASE Return("Err")
      BY <3>4, <1>3
    <3>5. CASE ~Goto("control") /\ ~Return("Err")
      BY <3>1, <3>2, <3>5, <1>1 DEF ReducerType
    <3>6. QED BY <3>3, <3>4, <3>5
  <2>3. QED BY <1>1, <1>2, <2>1, <2>2
<1>10. CASE RecordEvent
  <2> DEFINE o == NextBest
             top == Best(run.top \cup {o})
             offset == o + 1
             scanned == reducer.chunk.scanned + (o - reducer.chunk.start) + 1
             r == [run EXCEPT !.best = score[o], !.bestAt = o, !.offset = offset,
                              !.scanned = scanned, !.top = top]
  <2>1. /\ o \in Offsets /\ score[o] \in 0..PerfectScore /\ o \in Nat
        /\ reducer.chunk.start <= o
    BY <1>10, NextBestIs DEF RecordEvent, AtChunk
  <2>2. offset \in Nat /\ scanned \in Nat /\ top \in SUBSET Offsets
    <3>1. /\ reducer.chunk.start \in Nat /\ reducer.chunk.scanned \in Nat
          /\ run.top \in SUBSET Offsets
      BY FieldTypes, ChunkFields
    <3>2. run.top \cup {o} \in SUBSET Offsets
      BY <3>1, <2>1
    <3>3. top \in SUBSET Offsets
      BY <3>2, BestIsSubset
    <3>4. QED BY <3>1, <3>3, <2>1
  <2>3. run' = r /\ row' = row /\ stop' = stop /\ cancelled' = cancelled /\ inbox' = inbox
    BY <1>10 DEF RecordEvent
  <2>4. r \in RowType
    <3> HIDE DEF offset, scanned, top, o
    <3> QED BY <1>1, <2>1, <2>2 DEF RowType
  <2>5. history' \in Seq([offset : Offsets, score : 0..PerfectScore])
    <3>1. history' = history \/ history' = Append(history, [offset |-> o, score |-> score[o]])
      BY <1>10 DEF RecordEvent
    <3> HIDE DEF o
    <3>2. [offset |-> o, score |-> score[o]] \in [offset : Offsets, score : 0..PerfectScore]
      BY <2>1
    <3>3. Append(history, [offset |-> o, score |-> score[o]])
             \in Seq([offset : Offsets, score : 0..PerfectScore])
      <4>1. history \in Seq([offset : Offsets, score : 0..PerfectScore])
        BY <1>1
      <4>2. QED BY <3>2, <4>1, AppendStays
    <3>4. QED BY <1>1, <3>1, <3>3
  <2>6. reducer' \in ReducerType /\ reorder' \subseteq ChunkType /\ results' \in Seq(ChunkType)
    <3>1. Goto("persist") \/ Return("Err")
      BY <1>10 DEF RecordEvent
    <3>2. QED BY <3>1, <1>3, <1>4
  <2> HIDE DEF r
  <2>7. QED BY <1>1, <1>2, <2>3, <2>4, <2>5, <2>6
<1>11. CASE PersistBest
  <2>1. /\ row' = run \/ row' = row
        /\ UNCHANGED <<history, run, cancelled, inbox>> /\ stop' \in BOOLEAN
        /\ Return("PerfectFound") \/ Return("Err") \/ Goto("record")
    BY <1>1, <1>11 DEF PersistBest
  <2>2. reducer' \in ReducerType /\ reorder' \subseteq ChunkType /\ results' \in Seq(ChunkType)
    BY <2>1, <1>3, <1>4, <1>6
  <2>3. QED BY <1>1, <1>2, <2>1, <2>2
<1>12. CASE AdvanceChunk
  <2> DEFINE next == reducer.next + reducer.chunk.windows
             scanned == reducer.chunk.scanned + reducer.chunk.windows
             top == MergedTop(run.top, reducer.chunk)
             r == [run EXCEPT !.top = top, !.offset = next, !.scanned = scanned]
  <2>1. next \in Nat /\ scanned \in Nat
    BY FieldTypes, ChunkFields
  <2>2. top \in SUBSET Offsets
    <3>1. Windows(reducer.chunk) \in SUBSET Offsets /\ run.top \in SUBSET Offsets
      <4>1. /\ reducer.chunk.start \in Nat /\ reducer.chunk.windows \in Nat
            /\ GoodChunk(reducer.chunk) /\ WindowLen \in Nat \ {0} /\ MaxDigits \in Nat
        BY <1>12, FieldTypes, ChunkFields, SizesAssumption DEF AdvanceChunk, AtChunk
      <4>2. QED BY <4>1, FieldTypes DEF Windows, Offsets, GoodChunk, ChunkEnd
    <3>2. run.top \cup Best(Windows(reducer.chunk)) \in SUBSET Offsets
      BY <3>1, BestIsSubset
    <3>3. QED BY <3>2, BestIsSubset DEF MergedTop
  <2>3. /\ run' = r /\ history' = history /\ stop' = stop /\ cancelled' = cancelled
        /\ inbox' = inbox
        /\ row' = row \/ row' = CheckpointOf(run')
        /\ \/ Return("Err")
           \/ /\ reducer' = [reducer EXCEPT !.pc = "drain", !.next = next]
              /\ reorder' = reorder /\ results' = results
    BY <1>12 DEF AdvanceChunk
  <2>4. r \in RowType
    <3> HIDE DEF next, scanned, top
    <3> QED BY <1>1, <2>1, <2>2 DEF RowType
  <2> HIDE DEF r
  <2>5. row' \in RowType
    <3>1. CheckpointOf(run') \in RowType
      BY <1>1, <2>3, <2>4 DEF CheckpointOf, RowType
    <3>2. QED BY <1>1, <2>3, <3>1
  <2>6. reducer' \in ReducerType /\ reorder' \subseteq ChunkType /\ results' \in Seq(ChunkType)
    <3> HIDE DEF next
    <3>1. CASE Return("Err")
      BY <3>1, <1>3
    <3>2. CASE ~Return("Err")
      BY <3>2, <1>1, <2>1, <2>3 DEF ReducerType
    <3>3. QED BY <3>1, <3>2
  <2>7. QED BY <1>1, <1>2, <2>3, <2>4, <2>5, <2>6
<1>13. CASE ReducerConclude
  <2>1. /\ UNCHANGED <<row, history, run, stop, cancelled, inbox>>
        /\ \/ Return("Interrupted") \/ Return("MaxOffsetReached") \/ Return("LimitReached")
           \/ Return("SourceExhausted") \/ Return("Err")
    BY <1>13 DEF ReducerConclude, storeVars
  <2>2. QED BY <1>1, <1>2, <1>3, <1>6, <2>1
<1>14. CASE CancelWaiters
  <2>1. UNCHANGED <<row, history, run, stop, inbox>> /\ cancelled' \in BOOLEAN /\ Goto("join")
    BY <1>14 DEF CancelWaiters, storeVars
  <2>2. QED BY <1>1, <1>2, <1>4, <2>1
<1>15. CASE JoinThreads
  <2>1. UNCHANGED <<row, history, run, stop, cancelled, inbox, reorder, results>>
    BY <1>15 DEF JoinThreads, storeVars
  <2>2. reducer' \in ReducerType
    BY <1>1, <1>15 DEF JoinThreads, ReducerType
  <2>3. QED BY <1>1, <1>2, <2>1, <2>2
<1>16. CASE Finish
  <2>1. /\ UNCHANGED <<history, stop, cancelled, inbox>>
        /\ run' = [run EXCEPT !.status = FinalStatus]
        /\ row' = run' \/ row' = row
        /\ \/ Goto("off")
           \/ /\ reducer' = [reducer EXCEPT !.pc = "off", !.outcome = "Err"]
              /\ reorder' = reorder /\ results' = results
    BY <1>16 DEF Finish
  <2>2. FinalStatus \in {"Paused", "Running", "PerfectFound", "SourceExhausted"}
    BY DEF FinalStatus
  <2>3. run' \in RowType /\ row' \in RowType
    BY <1>1, <1>5, <2>1, <2>2
  <2>4. reducer' \in ReducerType /\ reorder' \subseteq ChunkType /\ results' \in Seq(ChunkType)
    <3>1. CASE Goto("off")
      BY <3>1, <1>4
    <3>2. CASE ~Goto("off")
      BY <3>2, <1>1, <2>1 DEF ReducerType
    <3>3. QED BY <3>1, <3>2
  <2>5. QED BY <1>1, <1>2, <2>1, <2>3, <2>4
<1>17. QED
  BY <1>7, <1>8, <1>9, <1>10, <1>11, <1>12, <1>13, <1>14, <1>15, <1>16 DEF ReducerActs

\* Every step keeps the types.
LEMMA TypesKept ==
    ASSUME IInv, Next
    PROVE  TypeOK'
<1>1. TypeOK /\ (AtChunk => GoodChunk(reducer.chunk))
  BY DEF IInv, ChunksAreGood
<1>2. IdleReducer \in ReducerType /\ IdleProducer \in ProducerType /\ IdleBackend \in BackendType
  BY DEF IdleReducer, IdleProducer, IdleBackend, ReducerType, ProducerType, BackendType,
         NoChunk, ChunkType
<1>3. CASE ProducerActs
  <2>1. /\ producer' \in ProducerType /\ demand' \in Nat /\ chunks' \in Seq(ChunkType)
        /\ ProducerKeepsRest
    BY <1>1, <1>3, ProducerTypes
  <2>2. QED BY <1>1, <2>1 DEF TypeOK, ProducerKeepsRest, storeVars, signalVars
<1>4. CASE BackendActs
  <2>1. /\ backend' \in BackendType /\ chunks' \in Seq(ChunkType)
        /\ results' \in Seq(ChunkType) /\ BackendKeepsRest
    BY <1>1, <1>4, BackendTypes
  <2>2. QED BY <1>1, <2>1 DEF TypeOK, BackendKeepsRest, sourceVars, storeVars, signalVars
<1>5. CASE ReducerActs
  <2>1. /\ reducer' \in ReducerType /\ reorder' \subseteq ChunkType
        /\ results' \in Seq(ChunkType) /\ run' \in RowType /\ row' \in RowType
        /\ history' \in Seq([offset : Offsets, score : 0..PerfectScore])
        /\ stop' \in BOOLEAN /\ cancelled' \in BOOLEAN /\ inbox' \in Seq(Commands)
        /\ ReducerKeepsRest
    BY <1>1, <1>5, ReducerTypes
  <2>2. QED BY <1>1, <2>1 DEF TypeOK, ReducerKeepsRest, sourceVars
<1>6. CASE Start
  <2>1. /\ session' \in [offset : {row.offset}, scanned : {row.scanned},
                         keepGoing : setup.keepGoing]
        /\ run' = [row EXCEPT !.status = "Running"] /\ row' = run'
        /\ invocations < setup.maxInvocations /\ invocations' = invocations + 1
        /\ reducer' = [IdleReducer EXCEPT !.pc = "control", !.next = row.offset]
        /\ producer' = [IdleProducer EXCEPT !.pc = "prefetch", !.offset = row.offset,
                                            !.scanned = row.scanned]
        /\ backend' = [IdleBackend EXCEPT !.pc = "recv"]
        /\ reorder' = {} /\ chunks' = <<>> /\ results' = <<>>
        /\ stop' = FALSE /\ cancelled' = FALSE /\ inbox' = <<>>
        /\ demand' = 0 /\ generatorError' = FALSE
        /\ UNCHANGED <<setup, score, published, history, commandsSent>>
    BY <1>6 DEF Start
  <2>2. row.offset \in Nat /\ row.scanned \in Nat /\ row \in RowType
    BY <1>1, FieldTypes DEF TypeOK
  <2>3. session' \in [offset : Nat, scanned : Nat, keepGoing : BOOLEAN]
    BY <1>1, <2>1, <2>2, SetupIs
  <2>4. run' \in RowType /\ row' \in RowType
    BY <2>1, <2>2 DEF RowType
  <2>5. reducer' \in ReducerType
    BY <1>2, <2>1, <2>2 DEF ReducerType
  <2>6. producer' \in ProducerType
    BY <1>2, <2>1, <2>2 DEF ProducerType
  <2>7. backend' \in BackendType
    BY <1>2, <2>1 DEF BackendType
  <2>8. invocations' \in 0..setup'.maxInvocations
    BY SMTT(40), <1>1, <2>1, SetupIs DEF TypeOK
  <2>9. /\ reorder' \subseteq ChunkType /\ chunks' \in Seq(ChunkType)
        /\ results' \in Seq(ChunkType) /\ inbox' \in Seq(Commands)
    BY <2>1
  <2>10. QED
    BY <1>1, <2>1, <2>3, <2>4, <2>5, <2>6, <2>7, <2>8, <2>9 DEF TypeOK
<1>7. CASE Generate
  <2>1. published' \in 0..MaxDigits /\ generatorError' \in BOOLEAN
    <3>1. /\ published \in 0..MaxDigits /\ generatorError \in BOOLEAN
          /\ demand \in Nat /\ MaxDigits \in Nat
      BY <1>1, SizesAssumption DEF TypeOK
    <3>2. \/ /\ published' \in (published + 1)..Lesser(demand, MaxDigits)
             /\ generatorError' = generatorError
          \/ published' = published /\ generatorError' = TRUE
      BY <1>7 DEF Generate
    <3>3. published' \in 0..MaxDigits
      BY <3>1, <3>2 DEF Lesser
    <3>4. generatorError' \in BOOLEAN
      BY <3>1, <3>2
    <3>5. QED BY <3>3, <3>4
  <2>2. UNCHANGED <<setup, score, demand, storeVars, invocations, session, run,
                    threadVars, signalVars>>
    BY <1>7 DEF Generate
  <2>3. QED BY <1>1, <2>1, <2>2 DEF TypeOK, storeVars, threadVars, signalVars
<1>8. CASE Interrupt
  BY <1>1, <1>8 DEF Interrupt, TypeOK, sourceVars, storeVars, threadVars
<1>9. CASE Crash
  <2>1. /\ reducer' = IdleReducer /\ producer' = IdleProducer /\ backend' = IdleBackend
        /\ reorder' = {} /\ chunks' = <<>> /\ results' = <<>> /\ inbox' = <<>>
        /\ UNCHANGED <<setup, score, sourceVars, storeVars, invocations, session, run,
                       stop, cancelled, commandsSent>>
    BY <1>9 DEF Crash, NoThreads
  <2>2. /\ reorder' \subseteq ChunkType /\ chunks' \in Seq(ChunkType)
        /\ results' \in Seq(ChunkType) /\ inbox' \in Seq(Commands)
    BY <2>1
  <2>3. QED BY <1>1, <1>2, <2>1, <2>2 DEF TypeOK, sourceVars, storeVars
<1>10. CASE \E c \in Commands : SendCommand(c)
  <2>1. PICK c \in Commands : SendCommand(c)
    BY <1>10
  <2>2. inbox' \in Seq(Commands) /\ commandsSent' \in 0..setup.maxCommands
    <3>1. /\ inbox \in Seq(Commands) /\ commandsSent \in 0..setup.maxCommands
          /\ setup.maxCommands \in Nat
      BY <1>1, SetupIs DEF TypeOK
    <3>2. /\ inbox' = Append(inbox, c) /\ commandsSent' = commandsSent + 1
          /\ commandsSent < setup.maxCommands
      BY <2>1 DEF SendCommand
    <3>3. inbox' \in Seq(Commands)
      BY <2>1, <3>1, <3>2, AppendStays
    <3>4. QED BY <3>1, <3>2, <3>3
  <2>3. UNCHANGED <<setup, score, sourceVars, storeVars, invocations, session, run,
                    threadVars, stop, cancelled>>
    BY <2>1 DEF SendCommand
  <2>4. QED BY <1>1, <2>2, <2>3 DEF TypeOK, sourceVars, storeVars, threadVars
<1>11. QED
  BY <1>3, <1>4, <1>5, <1>6, <1>7, <1>8, <1>9, <1>10, StepsOf
     DEF ProducerActs, BackendActs, ReducerActs

-----------------------------------------------------------------------------
(* What the steps of the producer and the backend do, as far as the        *)
(* invariant is concerned.                                                 *)

ProducerGoesOn ==
    /\ producer'.pc \notin {"reserve", "send"} /\ chunks' = chunks
    /\ producer'.offset = producer.offset /\ producer'.scanned = producer.scanned
    /\ producer'.pc = "done" =>
           stop \/ NothingLeft \/ (producer.pc = "send" /\ backend.pc = "done")
    /\ producer.pc \notin {"done", "failed"}
ProducerCuts ==
    /\ producer.pc = "check" /\ producer'.pc = "reserve" /\ chunks' = chunks
    /\ producer'.offset = producer.offset /\ producer'.scanned = producer.scanned
    /\ producer'.chunk.start = producer.offset
    /\ GoodChunk(producer'.chunk) /\ producer'.chunk.ok
ProducerReserves ==
    /\ producer.pc = "reserve" /\ producer'.pc = "send" /\ chunks' = chunks
    /\ producer'.offset = producer.offset /\ producer'.scanned = producer.scanned
    /\ producer'.chunk = producer.chunk
ProducerHandsOver ==
    /\ producer.pc = "send" /\ producer'.pc = "check" /\ backend.pc # "done"
    /\ chunks' = Append(chunks, producer.chunk)
    /\ producer'.offset = ChunkEnd(producer.chunk)
    /\ producer'.scanned = producer'.offset

LEMMA ProducerEffect ==
    ASSUME IInv, ProducerActs
    PROVE  /\ ProducerKeepsRest
           /\ ProducerGoesOn \/ ProducerCuts \/ ProducerReserves \/ ProducerHandsOver
           /\ setup.faults = {} /\ ~setup.growing =>
                  /\ producer'.pc \notin {"failed", "request", "waiting"}
                  /\ demand' = 0
<1>1. TypeOK /\ ChunksAreGood /\ CountsAgree /\ NoErrors
  BY DEF IInv
<1>2. /\ producer \in ProducerType /\ producer.chunk \in ChunkType
      /\ producer.offset \in Nat /\ producer.scanned \in Nat
      /\ producer.scanned = producer.offset /\ session.scanned = session.offset
  BY <1>1, FieldTypes DEF TypeOK, CountsAgree
<1>3. ProducerKeepsRest
  BY <1>1, ProducerTypes
<1>4. CASE ProducerPrefetch
  <2>1. /\ chunks' = chunks /\ producer.pc = "prefetch"
        /\ \/ producer' = [producer EXCEPT !.pc = "check"]
           \/ \E t : producer' = [producer EXCEPT !.pc = "check", !.prefetched = t]
        /\ ~setup.growing => demand' = demand
    BY <1>4 DEF ProducerPrefetch
  <2>2. /\ producer'.pc = "check" /\ producer'.offset = producer.offset
        /\ producer'.scanned = producer.scanned
    BY <1>2, <2>1 DEF ProducerType
  <2>3. ProducerGoesOn
    BY <2>1, <2>2 DEF ProducerGoesOn
  <2>4. QED BY <1>1, <1>3, <2>1, <2>2, <2>3 DEF NoErrors
<1>5. CASE ProducerStops
  <2>1. /\ chunks' = chunks /\ demand' = demand /\ producer' = [producer EXCEPT !.pc = "done"]
        /\ producer.pc = "check" /\ (stop \/ BoundReached)
    BY <1>5 DEF ProducerStops, ProducerEnds
  <2>2. /\ producer'.pc = "done" /\ producer'.offset = producer.offset
        /\ producer'.scanned = producer.scanned
    BY <1>2, <2>1 DEF ProducerType
  <2>3. ProducerGoesOn
    BY <2>1, <2>2 DEF ProducerGoesOn, NothingLeft
  <2>4. QED BY <1>1, <1>3, <2>1, <2>2, <2>3 DEF NoErrors
<1>6. CASE ProducerCheck
  <2>1. /\ chunks' = chunks /\ producer.pc = "check" /\ ~stop /\ ~BoundReached
        /\ ~Prefetches => demand' = demand
    BY <1>6 DEF ProducerCheck
  <2>2. CASE Prefetches /\ generatorError
    <3>1. producer' = [producer EXCEPT !.pc = "failed"]
      BY <1>6, <2>2 DEF ProducerCheck, ProducerEnds
    <3>2. /\ producer'.pc = "failed" /\ producer'.offset = producer.offset
          /\ producer'.scanned = producer.scanned
      BY <1>2, <3>1 DEF ProducerType
    <3>3. ProducerGoesOn /\ setup.growing
      BY <2>1, <2>2, <3>2 DEF ProducerGoesOn, Prefetches
    <3>4. QED BY <1>3, <3>3
  <2>3. CASE ~(Prefetches /\ generatorError) /\ Available >= WindowLen
    <3> DEFINE next == [start |-> producer.offset, scanned |-> producer.scanned,
                        windows |-> ChunkSize, ok |-> TRUE]
    <3>1. producer' = [producer EXCEPT !.pc = "reserve", !.prefetched = PrefetchedAfter,
                                       !.chunk = next]
      BY <1>6, <2>3 DEF ProducerCheck
    <3>2. GoodChunk(next) /\ next.ok /\ next.start = producer.offset
      <4>1. /\ ChunkSize \in Nat /\ ChunkSize >= 1
            /\ producer.offset + ChunkSize + WindowLen <= published + 1
            /\ setup.limit # NoBound =>
                   producer.scanned + ChunkSize <= session.scanned + setup.limit
            /\ setup.maxOffset # NoBound => producer.offset + ChunkSize <= setup.maxOffset
        BY <1>1, <2>1, <2>3, ChunkSizeFits
      <4>2. /\ published <= MaxDigits /\ published \in Nat /\ MaxDigits \in Nat
            /\ WindowLen \in Nat
        BY <1>1, SizesAssumption DEF TypeOK
      <4>3. ChunkEnd(next) + WindowLen <= MaxDigits + 1
        BY <1>2, <4>1, <4>2 DEF ChunkEnd
      <4>4. QED BY <1>2, <4>1, <4>3 DEF ChunkEnd, GoodChunk
    <3> HIDE DEF next
    <3>3. /\ producer'.pc = "reserve" /\ producer'.offset = producer.offset
          /\ producer'.scanned = producer.scanned /\ producer'.chunk = next
      BY <1>2, <3>1 DEF ProducerType
    <3>4. ProducerCuts
      BY <2>1, <3>2, <3>3 DEF ProducerCuts
    <3>5. ~setup.growing => demand' = demand
      BY <2>1 DEF Prefetches
    <3>6. QED BY <1>1, <1>3, <3>3, <3>4, <3>5 DEF NoErrors
  <2>4. CASE ~(Prefetches /\ generatorError) /\ ~(Available >= WindowLen)
    <3>1. \/ /\ producer' = [producer EXCEPT !.pc = "request", !.prefetched = PrefetchedAfter]
             /\ setup.growing
          \/ /\ producer' = [producer EXCEPT !.pc = "done", !.prefetched = PrefetchedAfter]
             /\ ~setup.growing
      BY <1>6, <2>4 DEF ProducerCheck
    <3>2. /\ producer'.offset = producer.offset /\ producer'.scanned = producer.scanned
          /\ \/ producer'.pc = "request" /\ setup.growing
             \/ producer'.pc = "done" /\ ~setup.growing
      BY <1>2, <3>1 DEF ProducerType
    <3>3. producer.offset + WindowLen > published
      <4>1. published \in Nat /\ WindowLen \in Nat \ {0}
        BY <1>1, FieldTypes, SizesAssumption
      <4>2. QED BY <1>2, <2>4, <4>1 DEF Available
    <3>4. ProducerGoesOn
      BY <2>1, <3>2, <3>3 DEF ProducerGoesOn, NothingLeft
    <3>5. ~setup.growing => demand' = demand
      BY <2>1 DEF Prefetches
    <3>6. QED BY <1>1, <1>3, <3>2, <3>4, <3>5 DEF NoErrors
  <2>5. QED BY <2>2, <2>3, <2>4
<1>7. CASE ProducerReserve
  <2>1. /\ chunks' = chunks /\ demand' = demand /\ producer.pc = "reserve"
        /\ \/ producer' = [producer EXCEPT !.pc = "send"]
           \/ producer' = [producer EXCEPT !.pc = "failed"] /\ setup.faults # {}
    BY <1>7 DEF ProducerReserve, ProducerEnds
  <2>2. /\ producer'.offset = producer.offset /\ producer'.scanned = producer.scanned
        /\ producer'.chunk = producer.chunk
        /\ producer'.pc = "send" \/ (producer'.pc = "failed" /\ setup.faults # {})
    BY <1>2, <2>1 DEF ProducerType
  <2>3. ProducerReserves \/ ProducerGoesOn
    BY <2>1, <2>2 DEF ProducerReserves, ProducerGoesOn
  <2>4. QED BY <1>1, <1>3, <2>1, <2>2, <2>3 DEF NoErrors
<1>8. CASE ProducerSend
  <2> DEFINE offset == producer.offset + producer.chunk.windows
             scanned == producer.scanned + producer.chunk.windows
  <2>1. /\ demand' = demand /\ producer.pc = "send"
        /\ \/ /\ backend.pc = "done" /\ chunks' = chunks
              /\ producer' = [producer EXCEPT !.pc = "done"]
           \/ /\ backend.pc # "done" /\ chunks' = Append(chunks, producer.chunk)
              /\ producer' = [producer EXCEPT !.pc = "check", !.offset = offset,
                                              !.scanned = scanned]
    BY <1>8 DEF ProducerSend, ProducerEnds
  <2>2. producer.chunk.start = producer.offset
    BY <1>1, <2>1 DEF ChunksAreGood
  <2>3. offset = ChunkEnd(producer.chunk) /\ scanned = offset
    BY <1>2, <2>2 DEF ChunkEnd
  <2>4. CASE backend.pc = "done"
    <3>1. /\ producer'.pc = "done" /\ producer'.offset = producer.offset
          /\ producer'.scanned = producer.scanned /\ chunks' = chunks
      BY <1>2, <2>1, <2>4 DEF ProducerType
    <3>2. ProducerGoesOn
      BY <2>1, <2>4, <3>1 DEF ProducerGoesOn
    <3>3. QED BY <1>1, <1>3, <2>1, <3>1, <3>2 DEF NoErrors
  <2>5. CASE backend.pc # "done"
    <3> HIDE DEF offset, scanned
    <3>1. producer'.pc = "check" /\ producer'.offset = offset /\ producer'.scanned = scanned
      BY <1>2, <2>1, <2>5 DEF ProducerType
    <3>2. ProducerHandsOver
      BY <2>1, <2>3, <2>5, <3>1 DEF ProducerHandsOver
    <3>3. QED BY <1>1, <1>3, <2>1, <3>1, <3>2 DEF NoErrors
  <2>6. QED BY <2>4, <2>5
<1>9. CASE ProducerRequest \/ ProducerWaitEnds \/ ProducerSeesStop
  <2>1. /\ chunks' = chunks /\ producer.pc \in {"request", "waiting"}
        /\ \/ producer' = [producer EXCEPT !.pc = "check"]
           \/ producer' = [producer EXCEPT !.pc = "failed"]
           \/ producer' = [producer EXCEPT !.pc = "waiting"]
    BY <1>9 DEF ProducerRequest, ProducerWaitEnds, ProducerSeesStop, ProducerEnds
  <2>2. /\ producer'.offset = producer.offset /\ producer'.scanned = producer.scanned
        /\ producer'.pc \in {"check", "failed", "waiting"}
    BY <1>2, <2>1 DEF ProducerType
  <2>3. ProducerGoesOn
    BY <2>1, <2>2 DEF ProducerGoesOn
  <2>4. ~(setup.faults = {} /\ ~setup.growing)
    BY <1>1, <2>1 DEF NoErrors
  <2>5. QED BY <1>3, <2>3, <2>4
<1>10. QED
  BY <1>4, <1>5, <1>6, <1>7, <1>8, <1>9 DEF ProducerActs

BackendTakes ==
    /\ backend.pc = "recv" /\ backend'.pc = "search" /\ ~stop
    /\ chunks # <<>> /\ chunks' = Tail(chunks) /\ backend'.chunk = Head(chunks)
    /\ results' = results
BackendScores ==
    /\ backend.pc = "search" /\ backend'.pc = "send"
    /\ backend'.chunk.start = backend.chunk.start
    /\ backend'.chunk.scanned = backend.chunk.scanned
    /\ backend'.chunk.windows = backend.chunk.windows
    /\ setup.faults = {} => backend'.chunk.ok = backend.chunk.ok
    /\ chunks' = chunks /\ results' = results
BackendHandsOver ==
    /\ backend.pc = "send" /\ ReducerListens
    /\ results' = Append(results, backend.chunk) /\ chunks' = chunks
    /\ backend'.pc = "recv" \/ (backend'.pc = "dropSender" /\ ~backend.chunk.ok)
BackendLeaves ==
    /\ backend.pc \in {"recv", "search", "send"} /\ backend'.pc = "dropSender"
    /\ results' = results
    /\ \/ backend.pc = "recv" /\ chunks = <<>> /\ chunks' = chunks /\ ProducerDone
       \/ backend.pc = "recv" /\ chunks # <<>> /\ chunks' = Tail(chunks) /\ stop
       \/ backend.pc = "search" /\ chunks' = chunks /\ "rebuild" \in setup.faults
       \/ backend.pc = "send" /\ chunks' = chunks /\ ~ReducerListens
BackendDrops ==
    /\ results' = results
    /\ \/ backend.pc = "dropSender" /\ backend'.pc = "dropQueue" /\ chunks' = chunks
       \/ backend.pc = "dropQueue" /\ backend'.pc = "done" /\ chunks' = <<>>

LEMMA BackendEffect ==
    ASSUME TypeOK, BackendActs
    PROVE  /\ BackendKeepsRest
           /\ \/ BackendTakes \/ BackendScores \/ BackendHandsOver
              \/ BackendLeaves \/ BackendDrops
<1>1. backend \in BackendType /\ backend.chunk \in ChunkType
  BY FieldTypes DEF TypeOK
<1>2. BackendKeepsRest
  BY BackendTypes
<1>3. CASE BackendReceive
  <2>1. CASE chunks # <<>> /\ ~stop
    <3>1. /\ backend' = [pc |-> "search", chunk |-> Head(chunks)] /\ chunks' = Tail(chunks)
          /\ results' = results /\ backend.pc = "recv"
      BY <1>3, <2>1 DEF BackendReceive
    <3>2. BackendTakes
      BY <2>1, <3>1 DEF BackendTakes
    <3>3. QED BY <1>2, <3>2
  <2>2. CASE ~(chunks # <<>> /\ ~stop)
    <3>1. /\ backend' = [backend EXCEPT !.pc = "dropSender"] /\ results' = results
          /\ backend.pc = "recv"
          /\ \/ chunks = <<>> /\ chunks' = chunks /\ ProducerDone
             \/ chunks # <<>> /\ chunks' = Tail(chunks) /\ stop
      BY <1>3, <2>2 DEF BackendReceive
    <3>2. backend'.pc = "dropSender"
      BY <1>1, <3>1 DEF BackendType
    <3>3. BackendLeaves
      BY <3>1, <3>2 DEF BackendLeaves
    <3>4. QED BY <1>2, <3>3
  <2>3. QED BY <2>1, <2>2
<1>4. CASE BackendSearch
  <2> DEFINE failed == [backend.chunk EXCEPT !.ok = FALSE]
  <2>1. /\ backend.pc = "search" /\ chunks' = chunks /\ results' = results
        /\ \/ backend' = [backend EXCEPT !.pc = "send"]
           \/ /\ backend' = [backend EXCEPT !.pc = "send", !.chunk = failed]
              /\ "search" \in setup.faults
           \/ /\ backend' = [backend EXCEPT !.pc = "dropSender"]
              /\ "rebuild" \in setup.faults
    BY <1>1, <1>4 DEF BackendSearch, BackendType
  <2>2. /\ failed.start = backend.chunk.start /\ failed.windows = backend.chunk.windows
        /\ failed.scanned = backend.chunk.scanned
    BY <1>1 DEF ChunkType
  <2> HIDE DEF failed
  <2>3. \/ backend'.pc = "send" /\ backend'.chunk = backend.chunk
        \/ backend'.pc = "send" /\ backend'.chunk = failed /\ "search" \in setup.faults
        \/ backend'.pc = "dropSender" /\ "rebuild" \in setup.faults
    BY <1>1, <2>1 DEF BackendType
  <2>4. BackendScores \/ BackendLeaves
    BY <2>1, <2>2, <2>3 DEF BackendScores, BackendLeaves
  <2>5. QED BY <1>2, <2>4
<1>5. CASE BackendSend
  <2>1. backend.pc = "send" /\ chunks' = chunks
    BY <1>5 DEF BackendSend
  <2>2. CASE ReducerListens
    <3>1. /\ results' = Append(results, backend.chunk)
          /\ backend' = [backend EXCEPT !.pc = IF backend.chunk.ok THEN "recv"
                                               ELSE "dropSender"]
      BY <1>5, <2>2 DEF BackendSend
    <3>2. backend'.pc = IF backend.chunk.ok THEN "recv" ELSE "dropSender"
      BY <1>1, <3>1 DEF BackendType
    <3>3. BackendHandsOver
      BY <2>1, <2>2, <3>1, <3>2 DEF BackendHandsOver
    <3>4. QED BY <1>2, <3>3
  <2>3. CASE ~ReducerListens
    <3>1. results' = results /\ backend' = [backend EXCEPT !.pc = "dropSender"]
      BY <1>5, <2>3 DEF BackendSend
    <3>2. backend'.pc = "dropSender"
      BY <1>1, <3>1 DEF BackendType
    <3>3. BackendLeaves
      BY <2>1, <2>3, <3>1, <3>2 DEF BackendLeaves
    <3>4. QED BY <1>2, <3>3
  <2>4. QED BY <2>2, <2>3
<1>6. CASE BackendDropSender \/ BackendDropQueue
  <2>1. BackendDrops
    BY <1>1, <1>6 DEF BackendDropSender, BackendDropQueue, BackendDrops, BackendType, IdleBackend
  <2>2. QED BY <1>2, <2>1
<1>7. QED BY <1>3, <1>4, <1>5, <1>6 DEF BackendActs

-----------------------------------------------------------------------------
(* What the steps of the reducer do.                                       *)

\* reduce returns.
Returns(outcome) ==
    /\ reducer'.pc = "cancel" /\ reducer'.outcome = outcome
    /\ reorder' = {} /\ results' = <<>>
\* It goes on.
GoesTo(pc) ==
    /\ reducer'.pc = pc /\ reducer'.outcome = reducer.outcome
    /\ reducer'.next = reducer.next /\ reducer'.chunk = reducer.chunk
    /\ reorder' = reorder /\ results' = results
\* Two records that differ in their status alone.
SameFindings(r, s) ==
    /\ r.offset = s.offset /\ r.scanned = s.scanned /\ r.best = s.best
    /\ r.bestAt = s.bestAt /\ r.top = s.top

LEMMA ReturnEffect ==
    ASSUME TypeOK, NEW outcome, Return(outcome)
    PROVE  Returns(outcome)
<1>1. /\ reducer' = [reducer EXCEPT !.pc = "cancel", !.outcome = outcome]
      /\ reorder' = {} /\ results' = <<>> /\ reducer \in ReducerType
  BY DEF Return, TypeOK
<1>2. QED BY <1>1 DEF ReducerType, Returns

LEMMA GotoEffect ==
    ASSUME TypeOK, NEW pc, Goto(pc)
    PROVE  GoesTo(pc)
<1>1. /\ reducer' = [reducer EXCEPT !.pc = pc] /\ reorder' = reorder /\ results' = results
      /\ reducer \in ReducerType
  BY DEF Goto, TypeOK
<1>2. QED BY <1>1 DEF ReducerType, GoesTo

LEMMA ControlEffect ==
    ASSUME TypeOK, ReducerControl
    PROVE  /\ reducer.pc = "control" /\ ReducerKeepsRest
           /\ UNCHANGED <<history, cancelled>>
           /\ SameFindings(run', run) /\ run'.status \in {run.status, "Paused", "Running"}
           /\ \/ /\ GoesTo("control") \/ GoesTo("recv")
                 /\ row' = run' \/ (row' = row /\ run'.status = run.status)
                 /\ stop' = stop
              \/ Returns("Interrupted") /\ row' = run' /\ stop'
              \/ Returns("Err") /\ row' = row /\ stop' = stop /\ setup.faults # {}
<1> DEFINE toggles == {i \in DOMAIN inbox : inbox[i] \in {"Pause", "Resume"}}
           paused == IF toggles = {} THEN reducer.paused
                     ELSE \E i \in toggles : inbox[i] = "Pause" /\ \A j \in toggles : j <= i
           status == IF toggles = {} THEN run.status
                     ELSE IF paused THEN "Paused" ELSE "Running"
<1>1. reducer \in ReducerType /\ run \in RowType /\ stop \in BOOLEAN
  BY DEF TypeOK
<1>2. /\ reducer.pc = "control" /\ run' = [run EXCEPT !.status = status]
      /\ UNCHANGED <<history, cancelled>> /\ ReducerKeepsRest
      /\ \/ /\ row' = IF inbox = <<>> THEN row ELSE run'
            /\ stop' = (stop \/ StopRequested)
            /\ IF StopRequested
               THEN Return("Interrupted")
               ELSE /\ reducer' = [reducer EXCEPT !.paused = paused,
                                       !.pc = IF paused THEN "control" ELSE "recv"]
                    /\ UNCHANGED <<reorder, results>>
         \/ "storage" \in setup.faults /\ Return("Err") /\ UNCHANGED <<row, stop>>
  BY DEF ReducerControl
<1>3. status \in {run.status, "Paused", "Running"} /\ (inbox = <<>> => status = run.status)
  <2>1. inbox = <<>> => toggles = {}
    OBVIOUS
  <2>2. QED BY <2>1
<1> HIDE DEF toggles, paused, status
<1>4. SameFindings(run', run) /\ run'.status = status
  BY <1>1, <1>2 DEF RowType, SameFindings
<1>5. CASE "storage" \in setup.faults /\ Return("Err") /\ UNCHANGED <<row, stop>>
  <2>1. Returns("Err")
    BY <1>5, ReturnEffect
  <2>2. QED BY <1>2, <1>3, <1>4, <1>5, <2>1
<1>6. CASE /\ row' = IF inbox = <<>> THEN row ELSE run'
           /\ stop' = (stop \/ StopRequested)
           /\ StopRequested /\ Return("Interrupted")
  <2>1. inbox # <<>>
    BY <1>6 DEF StopRequested
  <2>2. Returns("Interrupted")
    BY <1>6, ReturnEffect
  <2>3. QED BY <1>2, <1>3, <1>4, <1>6, <2>1, <2>2
<1>7. CASE /\ row' = IF inbox = <<>> THEN row ELSE run'
           /\ stop' = (stop \/ StopRequested) /\ ~StopRequested
           /\ reducer' = [reducer EXCEPT !.paused = paused,
                              !.pc = IF paused THEN "control" ELSE "recv"]
           /\ UNCHANGED <<reorder, results>>
  <2>1. GoesTo("control") \/ GoesTo("recv")
    BY <1>1, <1>7 DEF ReducerType, GoesTo
  <2>2. stop' = stop
    BY <1>1, <1>7
  <2>3. row' = run' \/ (row' = row /\ run'.status = run.status)
    BY <1>3, <1>4, <1>7
  <2>4. QED BY <1>2, <1>3, <1>4, <2>1, <2>2, <2>3
<1>8. QED BY <1>2, <1>5, <1>6, <1>7

LEMMA ReceiveEffect ==
    ASSUME IInv, ReducerReceive
    PROVE  /\ reducer.pc = "recv" /\ ReducerKeepsRest
           /\ UNCHANGED <<row, history, run, stop, cancelled>>
           /\ \/ /\ results # <<>> /\ results' = Tail(results) /\ reorder' = {Head(results)}
                 /\ reducer'.pc = "drain" /\ reducer'.outcome = reducer.outcome
                 /\ reducer'.next = reducer.next
              \/ results = <<>> /\ ResultSenderGone /\ GoesTo("conclude")
              \/ results = <<>> /\ (Returns("Interrupted") \/ GoesTo("control"))
<1>1. reducer \in ReducerType /\ TypeOK
  BY DEF IInv, TypeOK
<1>2. /\ reducer.pc = "recv" /\ ReducerKeepsRest
      /\ UNCHANGED <<row, history, run, stop, cancelled>>
  BY DEF ReducerReceive, storeVars
<1>3. CASE results # <<>>
  <2>1. /\ reorder' = reorder \cup {Head(results)} /\ results' = Tail(results)
        /\ reducer' = [reducer EXCEPT !.pc = "drain"]
    BY <1>3 DEF ReducerReceive
  <2>2. reorder = {}
    BY <1>2 DEF IInv, ReducerAt
  <2>3. QED BY <1>1, <1>2, <1>3, <2>1, <2>2 DEF ReducerType
<1>4. CASE results = <<>> /\ ResultSenderGone
  <2>1. Goto("conclude")
    BY <1>4 DEF ReducerReceive
  <2>2. QED BY <1>1, <1>2, <1>4, <2>1, GotoEffect
<1>5. CASE results = <<>> /\ ~ResultSenderGone
  <2>1. Return("Interrupted") \/ Goto("control")
    BY <1>5 DEF ReducerReceive
  <2>2. QED BY <1>1, <1>2, <1>5, <2>1, GotoEffect, ReturnEffect
<1>6. QED BY <1>3, <1>4, <1>5

LEMMA DrainEffect ==
    ASSUME IInv, ReducerDrain
    PROVE  /\ reducer.pc = "drain" /\ ReducerKeepsRest
           /\ UNCHANGED <<row, history, run, cancelled>>
           /\ \/ reorder = {} /\ GoesTo("control") /\ stop' = stop
              \/ \E r \in reorder :
                     /\ reorder = {r} /\ r.start = reducer.next
                     /\ \/ /\ r.ok /\ reducer'.pc = "record" /\ reducer'.chunk = r
                           /\ reducer'.outcome = reducer.outcome
                           /\ reducer'.next = reducer.next
                           /\ reorder' = {} /\ results' = results /\ stop' = stop
                        \/ ~r.ok /\ Returns("Err") /\ stop'
<1>1. reducer \in ReducerType /\ TypeOK
  BY DEF IInv, TypeOK
<1>2. /\ reducer.pc = "drain" /\ ReducerKeepsRest
      /\ UNCHANGED <<row, history, run, cancelled>>
  BY DEF ReducerDrain, storeVars
<1>3. (\A r \in reorder : r.start = reducer.next) /\ (\A r, q \in reorder : r = q)
  BY DEF IInv, ReducerAt
<1> DEFINE ready == {r \in reorder : r.start = reducer.next}
<1>4. ready = reorder
  BY <1>3
<1>5. CASE reorder = {}
  <2>1. Goto("control") /\ stop' = stop
    BY <1>4, <1>5 DEF ReducerDrain
  <2>2. QED BY <1>1, <1>2, <1>5, <2>1, GotoEffect
<1>6. CASE reorder # {}
  <2> DEFINE result == CHOOSE r \in ready : TRUE
  <2>1. result \in reorder /\ reorder = {result} /\ result.start = reducer.next
    <3>1. result \in ready
      BY <1>4, <1>6
    <3>2. QED BY <3>1, <1>3
  <2>2. \/ /\ result.ok /\ reducer' = [reducer EXCEPT !.pc = "record", !.chunk = result]
           /\ reorder' = reorder \ {result} /\ results' = results /\ stop' = stop
        \/ ~result.ok /\ Return("Err") /\ stop' = TRUE
    <3>1. ready # {}
      BY <1>4, <1>6
    <3>2. QED BY <3>1 DEF ReducerDrain
  <2> HIDE DEF result, ready
  <2>3. CASE result.ok
    <3>1. /\ reducer' = [reducer EXCEPT !.pc = "record", !.chunk = result]
          /\ reorder' = reorder \ {result} /\ results' = results /\ stop' = stop
      BY <2>2, <2>3
    <3>2. /\ reducer'.pc = "record" /\ reducer'.chunk = result
          /\ reducer'.outcome = reducer.outcome /\ reducer'.next = reducer.next
      BY <1>1, <3>1 DEF ReducerType
    <3>3. reorder' = {}
      BY <2>1, <3>1
    <3>4. QED BY <1>2, <2>1, <2>3, <3>1, <3>2, <3>3
  <2>4. CASE ~result.ok
    <3>1. Returns("Err") /\ stop'
      BY <1>1, <2>2, <2>4, ReturnEffect
    <3>2. QED BY <1>2, <2>1, <2>4, <3>1
  <2>5. QED BY <2>3, <2>4
<1>7. QED BY <1>5, <1>6

LEMMA RecordEffect ==
    ASSUME IInv, RecordEvent
    PROVE  /\ reducer.pc = "record" /\ Improving # {} /\ ReducerKeepsRest
           /\ UNCHANGED <<row, stop, cancelled>>
           /\ run'.best = score[NextBest] /\ run'.bestAt = NextBest
           /\ run'.offset = NextBest + 1 /\ run'.scanned = NextBest + 1
           /\ run'.top = Best(run.top \cup {NextBest}) /\ run'.status = run.status
           /\ \/ /\ history' = Append(history, [offset |-> NextBest, score |-> score[NextBest]])
                 /\ GoesTo("persist")
              \/ history' = history /\ Returns("Err") /\ setup.faults # {}
<1>1. TypeOK /\ run \in RowType /\ (reducer.pc = "record" => GoodChunk(reducer.chunk))
  BY DEF IInv, TypeOK, ChunksAreGood, AtChunk
<1>2. /\ reducer.pc = "record" /\ Improving # {} /\ ReducerKeepsRest
      /\ UNCHANGED <<row, stop, cancelled>>
  BY DEF RecordEvent
<1>3. NextBest \in Nat
  BY <1>1, <1>2, NextBestIs
<1> DEFINE offset == NextBest + 1
           scanned == reducer.chunk.scanned + (NextBest - reducer.chunk.start) + 1
           top == Best(run.top \cup {NextBest})
<1>4. run' = [run EXCEPT !.best = score[NextBest], !.bestAt = NextBest,
                         !.offset = offset, !.scanned = scanned, !.top = top]
  BY DEF RecordEvent
<1>5. scanned = offset
  BY <1>1, <1>2, <1>3, FieldTypes, ChunkFields DEF GoodChunk
<1>6. /\ run'.best = score[NextBest] /\ run'.bestAt = NextBest
      /\ run'.offset = offset /\ run'.scanned = scanned
      /\ run'.top = top /\ run'.status = run.status
  <2> HIDE DEF offset, scanned, top
  <2> QED BY <1>1, <1>4 DEF RowType
<1>7. \/ /\ history' = Append(history, [offset |-> NextBest, score |-> score[NextBest]])
         /\ GoesTo("persist")
      \/ history' = history /\ Returns("Err") /\ setup.faults # {}
  <2>1. \/ /\ history' = Append(history, [offset |-> NextBest, score |-> score[NextBest]])
           /\ Goto("persist")
        \/ history' = history /\ Return("Err") /\ "storage" \in setup.faults
    BY DEF RecordEvent
  <2>2. QED BY <1>1, <2>1, GotoEffect, ReturnEffect
<1>8. QED BY <1>2, <1>5, <1>6, <1>7

LEMMA PersistEffect ==
    ASSUME TypeOK, PersistBest
    PROVE  /\ reducer.pc = "persist" /\ ReducerKeepsRest
           /\ UNCHANGED <<history, run, cancelled>>
           /\ \/ row' = run /\ MatchEndsSearch /\ Returns("PerfectFound") /\ stop'
              \/ row' = run /\ ~MatchEndsSearch /\ GoesTo("record") /\ stop' = stop
              \/ row' = row /\ Returns("Err") /\ stop' = stop /\ setup.faults # {}
<1>1. /\ reducer.pc = "persist" /\ ReducerKeepsRest
      /\ UNCHANGED <<history, run, cancelled>>
  BY DEF PersistBest
<1>2. \/ row' = run /\ MatchEndsSearch /\ Return("PerfectFound") /\ stop'
      \/ row' = run /\ ~MatchEndsSearch /\ Goto("record") /\ stop' = stop
      \/ row' = row /\ Return("Err") /\ stop' = stop /\ setup.faults # {}
  BY DEF PersistBest
<1>3. QED BY <1>1, <1>2, GotoEffect, ReturnEffect

LEMMA AdvanceEffect ==
    ASSUME IInv, AdvanceChunk
    PROVE  /\ reducer.pc = "record" /\ Improving = {} /\ ReducerKeepsRest
           /\ UNCHANGED <<history, stop, cancelled>>
           /\ run'.offset = ChunkEnd(reducer.chunk) /\ run'.scanned = ChunkEnd(reducer.chunk)
           /\ run'.top = MergedTop(run.top, reducer.chunk)
           /\ run'.best = run.best /\ run'.bestAt = run.bestAt /\ run'.status = run.status
           /\ \/ row' = row
              \/ /\ row'.offset = run'.offset /\ row'.scanned = run'.scanned
                 /\ row'.best = run.best /\ row'.bestAt = run.bestAt
                 /\ row'.status = row.status /\ row'.top = row.top
           /\ \/ /\ reducer'.pc = "drain" /\ reducer'.next = ChunkEnd(reducer.chunk)
                 /\ reducer'.outcome = reducer.outcome
                 /\ reorder' = reorder /\ results' = results
              \/ Returns("Err") /\ row' = row /\ setup.faults # {}
<1>1. /\ TypeOK /\ run \in RowType /\ row \in RowType /\ reducer \in ReducerType
      /\ reducer.pc = "record" =>
             GoodChunk(reducer.chunk) /\ reducer.chunk.start = reducer.next
  BY DEF IInv, TypeOK, ChunksAreGood, AtChunk, ReducerAt
<1>2. /\ reducer.pc = "record" /\ Improving = {} /\ ReducerKeepsRest
      /\ UNCHANGED <<history, stop, cancelled>>
  BY DEF AdvanceChunk
<1> DEFINE next == reducer.next + reducer.chunk.windows
           scanned == reducer.chunk.scanned + reducer.chunk.windows
           top == MergedTop(run.top, reducer.chunk)
<1>3. next = ChunkEnd(reducer.chunk) /\ scanned = ChunkEnd(reducer.chunk)
  BY <1>1, <1>2 DEF GoodChunk, ChunkEnd
<1>4. /\ run' = [run EXCEPT !.top = top, !.offset = next, !.scanned = scanned]
      /\ \/ /\ row' = row \/ row' = CheckpointOf(run')
            /\ reducer' = [reducer EXCEPT !.pc = "drain", !.next = next]
            /\ reorder' = reorder /\ results' = results
         \/ Return("Err") /\ row' = row /\ setup.faults # {}
  BY DEF AdvanceChunk
<1> HIDE DEF next, scanned, top
<1>5. /\ run'.offset = next /\ run'.scanned = scanned /\ run'.top = top
      /\ run'.best = run.best /\ run'.bestAt = run.bestAt /\ run'.status = run.status
  BY <1>1, <1>4 DEF RowType
<1>6. row' = CheckpointOf(run') =>
          /\ row'.offset = run'.offset /\ row'.scanned = run'.scanned
          /\ row'.best = run'.best /\ row'.bestAt = run'.bestAt
          /\ row'.status = row.status /\ row'.top = row.top
  BY <1>1 DEF CheckpointOf, RowType
<1>7. \/ /\ row' = row \/ row' = CheckpointOf(run')
         /\ reducer'.pc = "drain" /\ reducer'.next = next
         /\ reducer'.outcome = reducer.outcome
         /\ reorder' = reorder /\ results' = results
      \/ Returns("Err") /\ row' = row /\ setup.faults # {}
  <2>1. CASE Return("Err") /\ row' = row /\ setup.faults # {}
    BY <1>1, <2>1, ReturnEffect
  <2>2. CASE ~(Return("Err") /\ row' = row /\ setup.faults # {})
    BY <1>1, <1>4, <2>2 DEF ReducerType
  <2>3. QED BY <2>1, <2>2
<1>8. QED BY <1>2, <1>3, <1>5, <1>6, <1>7 DEF top

LEMMA ConcludeEffect ==
    ASSUME TypeOK, ReducerConclude
    PROVE  /\ reducer.pc = "conclude" /\ ReducerKeepsRest
           /\ UNCHANGED <<row, history, run, stop, cancelled>>
           /\ \/ Returns("Interrupted") \/ Returns("MaxOffsetReached")
              \/ /\ Returns("LimitReached") /\ setup.limit # NoBound
                 /\ run.scanned - session.scanned >= setup.limit
              \/ /\ Returns("SourceExhausted") /\ ~stop /\ QueueCurrent = 0
                 /\ ~(setup.maxOffset # NoBound /\ run.offset >= setup.maxOffset)
                 /\ ~(setup.limit # NoBound /\ run.scanned - session.scanned >= setup.limit)
              \/ /\ Returns("Err") /\ ~stop /\ (QueueCurrent # 0 \/ demand > published)
                 /\ ~(setup.maxOffset # NoBound /\ run.offset >= setup.maxOffset)
                 /\ ~(setup.limit # NoBound /\ run.scanned - session.scanned >= setup.limit)
<1>1. /\ reducer.pc = "conclude" /\ ReducerKeepsRest
      /\ UNCHANGED <<row, history, run, stop, cancelled>>
  BY DEF ReducerConclude, storeVars
<1> DEFINE past == setup.maxOffset # NoBound /\ run.offset >= setup.maxOffset
           full == setup.limit # NoBound /\ run.scanned - session.scanned >= setup.limit
<1>2. \/ Return("Interrupted") \/ Return("MaxOffsetReached")
      \/ Return("LimitReached") /\ full
      \/ Return("SourceExhausted") /\ ~stop /\ QueueCurrent = 0 /\ ~past /\ ~full
      \/ Return("Err") /\ ~stop /\ (QueueCurrent # 0 \/ demand > published) /\ ~past /\ ~full
  BY DEF ReducerConclude
<1> HIDE DEF past, full
<1>3. \/ Returns("Interrupted") \/ Returns("MaxOffsetReached")
      \/ Returns("LimitReached") /\ full
      \/ Returns("SourceExhausted") /\ ~stop /\ QueueCurrent = 0 /\ ~past /\ ~full
      \/ Returns("Err") /\ ~stop /\ (QueueCurrent # 0 \/ demand > published) /\ ~past /\ ~full
  BY <1>2, ReturnEffect
<1>4. QED BY <1>1, <1>3 DEF past, full

LEMMA CancelEffect ==
    ASSUME TypeOK, CancelWaiters
    PROVE  /\ reducer.pc = "cancel" /\ ReducerKeepsRest
           /\ UNCHANGED <<row, history, run, stop>> /\ GoesTo("join")
<1>1. /\ reducer.pc = "cancel" /\ ReducerKeepsRest
      /\ UNCHANGED <<row, history, run, stop>> /\ Goto("join")
  BY DEF CancelWaiters, storeVars
<1>2. QED BY <1>1, GotoEffect

LEMMA JoinEffect ==
    ASSUME TypeOK, JoinThreads
    PROVE  /\ reducer.pc = "join" /\ ReducerKeepsRest
           /\ UNCHANGED <<row, history, run, stop, cancelled, reorder, results>>
           /\ ProducerDone /\ backend.pc = "done"
           /\ \/ /\ producer.pc = "failed" /\ reducer'.pc = "off" /\ reducer'.outcome = "Err"
              \/ /\ producer.pc = "done" /\ reducer'.outcome = reducer.outcome
                 /\ reducer'.pc = IF reducer.outcome = "Err" THEN "off" ELSE "finish"
<1>1. reducer \in ReducerType
  BY DEF TypeOK
<1>2. /\ reducer.pc = "join" /\ ReducerKeepsRest
      /\ UNCHANGED <<row, history, run, stop, cancelled, reorder, results>>
      /\ ProducerDone /\ backend.pc = "done"
  BY DEF JoinThreads, storeVars
<1>3. CASE producer.pc = "failed"
  BY <1>1, <1>2, <1>3 DEF JoinThreads, ReducerType
<1>4. CASE producer.pc # "failed"
  <2>1. producer.pc = "done"
    BY <1>2, <1>4 DEF ProducerDone
  <2>2. reducer' = [reducer EXCEPT !.pc = IF reducer.outcome = "Err" THEN "off" ELSE "finish",
                                   !.outcome = reducer.outcome]
    BY <1>1, <1>4 DEF JoinThreads, ReducerType
  <2>3. QED BY <1>1, <1>2, <2>1, <2>2 DEF ReducerType
<1>5. QED BY <1>3, <1>4

LEMMA FinishEffect ==
    ASSUME TypeOK, Finish
    PROVE  /\ reducer.pc = "finish" /\ ReducerKeepsRest
           /\ UNCHANGED <<history, stop, cancelled, reorder, results>>
           /\ SameFindings(run', run) /\ run'.status = FinalStatus
           /\ reducer'.pc = "off"
           /\ \/ row' = run' /\ reducer'.outcome = reducer.outcome
              \/ row' = row /\ reducer'.outcome = "Err" /\ setup.faults # {}
<1>1. reducer \in ReducerType /\ run \in RowType
  BY DEF TypeOK
<1>2. /\ reducer.pc = "finish" /\ ReducerKeepsRest
      /\ UNCHANGED <<history, stop, cancelled, reorder, results>>
      /\ run' = [run EXCEPT !.status = FinalStatus]
      /\ \/ row' = run' /\ reducer' = [reducer EXCEPT !.pc = "off"]
         \/ /\ row' = row /\ reducer' = [reducer EXCEPT !.pc = "off", !.outcome = "Err"]
            /\ setup.faults # {}
  BY DEF Finish, Goto
<1>3. SameFindings(run', run) /\ run'.status = FinalStatus
  BY <1>1, <1>2 DEF SameFindings, RowType
<1>4. /\ reducer'.pc = "off"
      /\ \/ row' = run' /\ reducer'.outcome = reducer.outcome
         \/ row' = row /\ reducer'.outcome = "Err" /\ setup.faults # {}
  BY <1>1, <1>2 DEF ReducerType
<1>5. QED BY <1>2, <1>3, <1>4

-----------------------------------------------------------------------------
(* The other steps.                                                        *)

\* Nothing but the digits, the stop flag and the inbox changes.
Quiet ==
    /\ UNCHANGED <<setup, score, demand, row, history, session, run, reducer, reorder,
                   producer, backend, chunks, results>>
    /\ stop' = stop \/ stop'
    /\ published' = published \/ (setup.growing /\ Running)

LEMMA Cases ==
    ASSUME TypeOK, [Next]_vars
    PROVE  Quiet \/ Start \/ Crash \/ ProducerActs \/ BackendActs \/ ReducerActs
<1>1. CASE UNCHANGED vars
  BY <1>1 DEF vars, sourceVars, storeVars, threadVars, signalVars, Quiet
<1>2. CASE Generate
  BY <1>2 DEF Generate, storeVars, threadVars, signalVars, Quiet
<1>3. CASE Interrupt
  BY <1>3 DEF Interrupt, sourceVars, storeVars, threadVars, Quiet
<1>4. CASE \E c \in Commands : SendCommand(c)
  BY <1>4 DEF SendCommand, sourceVars, storeVars, threadVars, Quiet
<1>5. QED BY <1>1, <1>2, <1>3, <1>4, StepsOf DEF ProducerActs, BackendActs, ReducerActs

LEMMA StartEffect ==
    ASSUME TypeOK, Start
    PROVE  /\ reducer.pc = "off" /\ row.status # "SourceExhausted"
           /\ session'.offset = row.offset /\ session'.scanned = row.scanned
           /\ session'.keepGoing \in setup.keepGoing
           /\ row.status = "PerfectFound" => session'.keepGoing
           /\ row' = run' /\ SameFindings(run', row) /\ run'.status = "Running"
           /\ reducer'.pc = "control" /\ reducer'.next = row.offset
           /\ reducer'.outcome = "none"
           /\ producer'.pc = "prefetch" /\ producer'.offset = row.offset
           /\ producer'.scanned = row.scanned
           /\ backend'.pc = "recv"
           /\ reorder' = {} /\ chunks' = <<>> /\ results' = <<>>
           /\ ~stop' /\ demand' = 0
           /\ UNCHANGED <<setup, score, published, history>>
<1>1. row \in RowType
  BY DEF TypeOK
<1>2. /\ reducer.pc = "off" /\ row.status # "SourceExhausted"
      /\ reorder' = {} /\ chunks' = <<>> /\ results' = <<>>
      /\ ~stop' /\ demand' = 0
      /\ UNCHANGED <<setup, score, published, history>>
  BY DEF Start, Running
<1>3. /\ session'.offset = row.offset /\ session'.scanned = row.scanned
      /\ session'.keepGoing \in setup.keepGoing
      /\ row.status = "PerfectFound" => session'.keepGoing
  BY DEF Start
<1>4. row' = run' /\ SameFindings(run', row) /\ run'.status = "Running"
  BY <1>1 DEF Start, RowType, SameFindings
<1>5. /\ reducer'.pc = "control" /\ reducer'.next = row.offset
      /\ reducer'.outcome = "none"
  BY DEF Start, IdleReducer
<1>6. /\ producer'.pc = "prefetch" /\ producer'.offset = row.offset
      /\ producer'.scanned = row.scanned /\ backend'.pc = "recv"
  BY DEF Start, IdleProducer, IdleBackend
<1>7. QED BY <1>2, <1>3, <1>4, <1>5, <1>6

LEMMA CrashEffect ==
    ASSUME TypeOK, Crash
    PROVE  /\ Running /\ setup.crashes
           /\ reducer'.pc = "off" /\ reducer'.outcome = "none"
           /\ producer'.pc = "done" /\ producer'.offset = 0 /\ producer'.scanned = 0
           /\ backend'.pc = "done"
           /\ reorder' = {} /\ chunks' = <<>> /\ results' = <<>>
           /\ UNCHANGED <<setup, score, published, demand, row, history, session, run, stop>>
<1>1. /\ Running /\ setup.crashes
      /\ reducer' = IdleReducer /\ producer' = IdleProducer /\ backend' = IdleBackend
      /\ reorder' = {} /\ chunks' = <<>> /\ results' = <<>>
      /\ UNCHANGED <<setup, score, published, demand, row, history, session, run, stop>>
  BY DEF Crash, NoThreads, sourceVars, storeVars
<1>2. QED BY <1>1 DEF IdleReducer, IdleProducer, IdleBackend

\* What the threads leave alone.
LEMMA Frames ==
    /\ ProducerKeepsRest =>
           UNCHANGED <<setup, score, published, row, history, session, run, reducer,
                       reorder, backend, results, stop>>
    /\ BackendKeepsRest =>
           UNCHANGED <<setup, score, published, demand, row, history, session, run,
                       reducer, reorder, producer, stop>>
    /\ ReducerKeepsRest =>
           UNCHANGED <<setup, score, published, demand, session, producer, backend,
                       chunks>>
  BY DEF ProducerKeepsRest, BackendKeepsRest, ReducerKeepsRest, sourceVars, storeVars, signalVars

\* What a queue holds after something was put in, or taken out.
LEMMA AppendHolds ==
    ASSUME NEW S, NEW s \in Seq(S), NEW e \in S, NEW i \in DOMAIN Append(s, e)
    PROVE  (i \in DOMAIN s /\ Append(s, e)[i] = s[i]) \/ Append(s, e)[i] = e
  OBVIOUS

LEMMA TailHolds ==
    ASSUME NEW S, NEW s \in Seq(S), s # <<>>
    PROVE  /\ 1 \in DOMAIN s /\ Head(s) = s[1] /\ Head(s) \in S
           /\ \A i \in DOMAIN Tail(s) : i + 1 \in DOMAIN s /\ Tail(s)[i] = s[i + 1]
  OBVIOUS

-----------------------------------------------------------------------------
(* Every chunk is a good one.                                              *)

LEMMA ChunksStayGood ==
    ASSUME IInv, [Next]_vars
    PROVE  ChunksAreGood'
<1>1. /\ TypeOK /\ ChunksAreGood /\ chunks \in Seq(ChunkType) /\ results \in Seq(ChunkType)
      /\ producer.chunk \in ChunkType /\ backend.chunk \in ChunkType
  BY FieldTypes DEF IInv, TypeOK
<1>2. CASE Quiet
  BY <1>1, <1>2 DEF Quiet, ChunksAreGood, GoodChunk, BackendHolds, AtChunk
<1>3. CASE Start
  BY <1>1, <1>3, StartEffect DEF ChunksAreGood, BackendHolds, AtChunk
<1>4. CASE Crash
  BY <1>1, <1>4, CrashEffect DEF ChunksAreGood, BackendHolds, AtChunk
<1>5. CASE ProducerActs
  <2>1. UNCHANGED <<setup, session, reducer, reorder, backend, results>>
    BY <1>5, ProducerEffect, Frames
  <2>2. CASE ProducerGoesOn
    BY <1>1, <2>1, <2>2 DEF ProducerGoesOn, ChunksAreGood, GoodChunk, BackendHolds, AtChunk
  <2>3. CASE ProducerCuts \/ ProducerReserves
    BY <1>1, <2>1, <2>3
       DEF ProducerCuts, ProducerReserves, ChunksAreGood, GoodChunk, BackendHolds, AtChunk
  <2>4. CASE ProducerHandsOver
    <3>1. /\ producer.pc = "send" /\ producer'.pc = "check"
          /\ chunks' = Append(chunks, producer.chunk)
      BY <2>4 DEF ProducerHandsOver
    <3>2. \A i \in DOMAIN chunks' : GoodChunk(chunks'[i]) /\ chunks'[i].ok
      BY <1>1, <3>1, AppendHolds DEF ChunksAreGood
    <3>3. QED BY <1>1, <2>1, <3>1, <3>2 DEF ChunksAreGood, GoodChunk, BackendHolds, AtChunk
  <2>5. QED BY <1>5, <2>2, <2>3, <2>4, ProducerEffect
<1>6. CASE BackendActs
  <2>1. UNCHANGED <<setup, session, reducer, reorder, producer>>
    BY <1>1, <1>6, BackendEffect, Frames
  <2>2. \A i \in DOMAIN chunks' : GoodChunk(chunks'[i]) /\ chunks'[i].ok
    <3>1. \/ chunks' = chunks \/ chunks' = <<>> \/ (chunks # <<>> /\ chunks' = Tail(chunks))
      BY <1>1, <1>6, BackendEffect
         DEF BackendTakes, BackendScores, BackendHandsOver, BackendLeaves, BackendDrops
    <3>2. QED BY SMTT(40), <1>1, <3>1, TailHolds DEF ChunksAreGood
  <2>3. \A i \in DOMAIN results' : GoodChunk(results'[i])
    <3>1. \/ results' = results
          \/ backend.pc = "send" /\ results' = Append(results, backend.chunk)
      BY <1>1, <1>6, BackendEffect
         DEF BackendTakes, BackendScores, BackendHandsOver, BackendLeaves, BackendDrops
    <3>2. QED BY <1>1, <3>1, AppendHolds DEF ChunksAreGood, BackendHolds
  <2>4. /\ backend'.pc \in {"search", "send"} => GoodChunk(backend'.chunk)
        /\ backend'.pc = "search" => backend'.chunk.ok
    <3>1. CASE BackendTakes
      BY <1>1, <3>1, TailHolds DEF BackendTakes, ChunksAreGood
    <3>2. CASE BackendScores
      BY <1>1, <3>2 DEF BackendScores, ChunksAreGood, BackendHolds, GoodChunk, ChunkEnd
    <3>3. CASE BackendHandsOver \/ BackendLeaves \/ BackendDrops
      BY <3>3 DEF BackendHandsOver, BackendLeaves, BackendDrops
    <3>4. QED BY <1>1, <1>6, <3>1, <3>2, <3>3, BackendEffect
  <2>5. QED BY <1>1, <2>1, <2>2, <2>3, <2>4 DEF ChunksAreGood, GoodChunk, BackendHolds, AtChunk
<1>7. CASE ReducerActs
  <2>1. UNCHANGED <<setup, session, producer, backend, chunks>>
    BY <1>1, <1>7, ReducerTypes, Frames DEF ChunksAreGood
  <2>2. \/ reducer'.pc \notin {"record", "persist"}
        \/ AtChunk /\ reducer'.chunk = reducer.chunk
        \/ reducer'.chunk \in reorder
    <3>1. CASE ReducerControl
      BY <1>1, <3>1, ControlEffect DEF GoesTo, Returns
    <3>2. CASE ReducerReceive
      BY <1>1, <3>2, ReceiveEffect DEF GoesTo, Returns
    <3>3. CASE ReducerDrain
      BY <1>1, <3>3, DrainEffect DEF GoesTo, Returns
    <3>4. CASE RecordEvent
      BY <1>1, <3>4, RecordEffect DEF GoesTo, Returns, AtChunk
    <3>5. CASE PersistBest
      BY <1>1, <3>5, PersistEffect DEF GoesTo, Returns, AtChunk
    <3>6. CASE AdvanceChunk
      BY <1>1, <3>6, AdvanceEffect DEF Returns
    <3>7. CASE ReducerConclude \/ CancelWaiters
      BY <1>1, <3>7, ConcludeEffect, CancelEffect DEF GoesTo, Returns
    <3>8. CASE JoinThreads \/ Finish
      BY <1>1, <3>8, JoinEffect, FinishEffect
    <3>9. QED
      BY <1>7, <3>1, <3>2, <3>3, <3>4, <3>5, <3>6, <3>7, <3>8 DEF ReducerActs
  <2>3. /\ reorder' \subseteq reorder \/ (results # <<>> /\ reorder' = {Head(results)})
        /\ \/ results' = results \/ results' = <<>>
           \/ results # <<>> /\ results' = Tail(results)
    <3>1. CASE ReducerControl
      BY <1>1, <3>1, ControlEffect DEF GoesTo, Returns
    <3>2. CASE ReducerReceive
      BY <1>1, <3>2, ReceiveEffect DEF GoesTo, Returns
    <3>3. CASE ReducerDrain
      BY <1>1, <3>3, DrainEffect DEF GoesTo, Returns
    <3>4. CASE RecordEvent
      BY <1>1, <3>4, RecordEffect DEF GoesTo, Returns
    <3>5. CASE PersistBest
      BY <1>1, <3>5, PersistEffect DEF GoesTo, Returns
    <3>6. CASE AdvanceChunk
      BY <1>1, <3>6, AdvanceEffect DEF Returns
    <3>7. CASE ReducerConclude \/ CancelWaiters
      BY <1>1, <3>7, ConcludeEffect, CancelEffect DEF GoesTo, Returns
    <3>8. CASE JoinThreads \/ Finish
      BY <1>1, <3>8, JoinEffect, FinishEffect
    <3>9. QED
      BY <1>7, <3>1, <3>2, <3>3, <3>4, <3>5, <3>6, <3>7, <3>8 DEF ReducerActs
  <2>4. reducer'.pc \in {"record", "persist"} => GoodChunk(reducer'.chunk)
    BY <1>1, <2>2 DEF ChunksAreGood
  <2>5. \A r \in reorder' : GoodChunk(r)
    BY <1>1, <2>3, TailHolds DEF ChunksAreGood
  <2>6. \A i \in DOMAIN results' : GoodChunk(results'[i])
    BY SMTT(40), <1>1, <2>3, TailHolds DEF ChunksAreGood
  <2>7. QED BY <1>1, <2>1, <2>4, <2>5, <2>6 DEF ChunksAreGood, GoodChunk, BackendHolds, AtChunk
<1>8. QED BY <1>1, <1>2, <1>3, <1>4, <1>5, <1>6, <1>7, Cases

-----------------------------------------------------------------------------
(* The counts agree.                                                       *)

\* A good chunk ends within the bounds.
LEMMA GoodChunkEnds ==
    ASSUME TypeOK, NEW c \in ChunkType, GoodChunk(c)
    PROVE  /\ c.start < ChunkEnd(c) /\ ChunkEnd(c) <= MaxDigits /\ ChunkEnd(c) \in Nat
           /\ Windows(c) \in SUBSET Offsets
<1>1. /\ WindowLen \in Nat \ {0} /\ MaxDigits \in Nat
      /\ c.start \in Nat /\ c.windows \in Nat /\ c.windows >= 1
      /\ ChunkEnd(c) + WindowLen <= MaxDigits + 1
  BY SizesAssumption, ChunkFields DEF GoodChunk
<1>2. QED BY <1>1 DEF ChunkEnd, Windows, Offsets

\* What the steps of the reducer do to the two records.
LEMMA ReducerMoves ==
    ASSUME IInv, ReducerActs
    PROVE  /\ UNCHANGED <<setup, score, published, demand, session, producer, backend, chunks>>
           /\ \/ SameFindings(run', run)
              \/ reducer.pc = "record" /\ run'.offset = run'.scanned
                   /\ run'.offset \in (reducer.chunk.start + 1)..ChunkEnd(reducer.chunk)
           /\ \/ row' = row
              \/ row' = run'
              \/ /\ row'.offset = run'.offset /\ row'.scanned = run'.scanned
<1>1. /\ TypeOK /\ ChunksAreGood /\ reducer.chunk \in ChunkType /\ reducer.chunk.start \in Nat
  BY FieldTypes, ChunkFields DEF IInv
<1>2. UNCHANGED <<setup, score, published, demand, session, producer, backend, chunks>>
  BY <1>1, ReducerTypes, Frames DEF ChunksAreGood
<1>3. CASE ReducerControl
  BY <1>1, <1>2, <1>3, ControlEffect
<1>4. CASE ReducerReceive \/ ReducerDrain \/ ReducerConclude \/ CancelWaiters \/ JoinThreads
  BY <1>1, <1>2, <1>4, ReceiveEffect, DrainEffect, ConcludeEffect, CancelEffect, JoinEffect
     DEF SameFindings
<1>5. CASE RecordEvent
  <2>1. /\ reducer.pc = "record" /\ Improving # {} /\ run'.offset = NextBest + 1
        /\ run'.scanned = NextBest + 1 /\ row' = row
    BY <1>5, RecordEffect
  <2>2. NextBest \in Nat /\ reducer.chunk.start <= NextBest /\ NextBest < ChunkEnd(reducer.chunk)
    BY <1>1, <2>1, NextBestIs DEF ChunksAreGood, AtChunk
  <2>3. ChunkEnd(reducer.chunk) \in Nat
    BY <1>1, ChunkFields
  <2>4. QED BY <1>1, <1>2, <2>1, <2>2, <2>3
<1>6. CASE PersistBest
  BY <1>1, <1>2, <1>6, PersistEffect DEF SameFindings
<1>7. CASE AdvanceChunk
  <2>1. reducer.pc = "record" => GoodChunk(reducer.chunk)
    BY <1>1 DEF ChunksAreGood, AtChunk
  <2>2. /\ reducer.pc = "record" /\ run'.offset = ChunkEnd(reducer.chunk)
        /\ run'.scanned = ChunkEnd(reducer.chunk)
        /\ row' = row \/ (row'.offset = run'.offset /\ row'.scanned = run'.scanned)
    BY <1>7, AdvanceEffect
  <2>3. ChunkEnd(reducer.chunk) \in Nat /\ reducer.chunk.start < ChunkEnd(reducer.chunk)
    BY <1>1, <2>1, <2>2, GoodChunkEnds
  <2>4. QED BY <1>1, <1>2, <2>2, <2>3
<1>8. CASE Finish
  BY <1>1, <1>2, <1>8, FinishEffect
<1>9. QED BY <1>3, <1>4, <1>5, <1>6, <1>7, <1>8 DEF ReducerActs

LEMMA CountsStayAgreed ==
    ASSUME IInv, [Next]_vars
    PROVE  CountsAgree'
<1>1. /\ TypeOK /\ CountsAgree
      /\ producer.chunk \in ChunkType /\ reducer.chunk \in ChunkType
      /\ run.offset \in Nat /\ row.offset \in Nat /\ session.offset \in Nat
      /\ setup.limit \in Nat \cup {NoBound} /\ NoBound \notin Nat
  BY FieldTypes, SetupIs, SizesAssumption DEF IInv
<1>2. CASE Quiet
  BY <1>1, <1>2 DEF Quiet, CountsAgree
<1>3. CASE Start
  BY <1>1, <1>3, StartEffect DEF CountsAgree, SameFindings
<1>4. CASE Crash
  BY <1>1, <1>4, CrashEffect DEF CountsAgree
<1>5. CASE ProducerActs
  <2>1. UNCHANGED <<setup, session, run, row>> /\ producer'.scanned = producer'.offset
    BY <1>1, <1>5, ProducerEffect, Frames
       DEF ProducerGoesOn, ProducerCuts, ProducerReserves, ProducerHandsOver, CountsAgree
  <2>2. QED BY <1>1, <2>1 DEF CountsAgree
<1>6. CASE BackendActs
  BY <1>1, <1>6, BackendEffect, Frames DEF CountsAgree
<1>7. CASE ReducerActs
  <2>1. UNCHANGED <<setup, session, producer>>
    BY <1>7, ReducerMoves
  <2>2. /\ run'.scanned = run'.offset /\ run'.offset <= MaxDigits
        /\ setup.limit # NoBound => run'.offset <= session.offset + setup.limit
    <3>1. CASE SameFindings(run', run)
      BY <1>1, <3>1 DEF SameFindings, CountsAgree
    <3>2. CASE /\ reducer.pc = "record" /\ run'.offset = run'.scanned
               /\ run'.offset \in (reducer.chunk.start + 1)..ChunkEnd(reducer.chunk)
      <4>1. GoodChunk(reducer.chunk)
        BY <3>2 DEF IInv, ChunksAreGood, AtChunk
      <4>2. ChunkEnd(reducer.chunk) <= MaxDigits /\ ChunkEnd(reducer.chunk) \in Nat
              /\ reducer.chunk.start \in Nat
        BY <1>1, <4>1, GoodChunkEnds, ChunkFields
      <4>3. MaxDigits \in Nat /\ run'.offset \in Nat
        BY <3>2, <4>2, SizesAssumption
      <4>4. QED BY <1>1, <3>2, <4>1, <4>2, <4>3 DEF GoodChunk
    <3>3. QED BY <1>7, <3>1, <3>2, ReducerMoves
  <2>3. row'.scanned = row'.offset /\ row'.offset <= MaxDigits
    BY <1>1, <1>7, <2>2, ReducerMoves DEF CountsAgree
  <2>4. QED BY <1>1, <2>1, <2>2, <2>3 DEF CountsAgree
<1>8. QED BY <1>1, <1>2, <1>3, <1>4, <1>5, <1>6, <1>7, Cases

-----------------------------------------------------------------------------
(* Where the reducer stands.                                               *)

\* The result that arrives next is the one the reducer waits for.
LEMMA NextResult ==
    ASSUME IInv, reducer.pc = "recv", results # <<>>
    PROVE  /\ Head(results) \in ChunkType /\ GoodChunk(Head(results))
           /\ Head(results).start = reducer.next
           /\ \A b \in Nat : Tiles(results, reducer.next, b)
                                => Tiles(Tail(results), ChunkEnd(Head(results)), b)
<1>1. /\ results \in Seq(ChunkType) /\ reducer.next \in Nat
      /\ \A i \in DOMAIN results : GoodChunk(results[i])
  BY FieldTypes DEF IInv, ChunksAreGood, TypeOK
<1>2. \A i \in DOMAIN results : results[i].windows >= 1
  BY <1>1 DEF GoodChunk
<1>3. PICK b \in Nat : Tiles(results, reducer.next, b)
  BY DEF IInv, ReducerAt, InOrder, CutAt, Reducing, ReducerListens, AtChunk
<1>4. /\ Head(results) = results[1] /\ 1 \in DOMAIN results /\ results[1] \in ChunkType
      /\ results[1].start = reducer.next
  BY <1>1, <1>2, <1>3, TilesHead
<1>5. \A d \in Nat : Tiles(results, reducer.next, d)
                        => Tiles(Tail(results), ChunkEnd(results[1]), d)
  BY <1>1, <1>2, TilesHead
<1>6. QED BY <1>1, <1>4, <1>5

LEMMA ReducerStaysAt ==
    ASSUME IInv, [Next]_vars
    PROVE  ReducerAt'
<1>1. TypeOK /\ ReducerAt
  BY DEF IInv
<1>2. CASE Quiet
  BY <1>1, <1>2 DEF Quiet, ReducerAt, AtChunk, Reducing, ReducerListens, ResultSenderGone
<1>3. CASE Start
  <2>1. run'.offset = reducer'.next /\ reducer'.pc = "control" /\ reducer'.outcome = "none"
          /\ reorder' = {}
    BY <1>1, <1>3, StartEffect DEF SameFindings
  <2>2. QED BY <2>1 DEF ReducerAt, AtChunk, Reducing, ReducerListens
<1>4. CASE Crash
  <2>1. reducer'.pc = "off" /\ reorder' = {}
    BY <1>1, <1>4, CrashEffect
  <2>2. QED BY <2>1 DEF ReducerAt, AtChunk, Reducing, ReducerListens
<1>5. CASE ProducerActs
  <2>1. UNCHANGED <<run, reducer, reorder, backend, results>>
    BY <1>5, ProducerEffect, Frames
  <2>2. producer.pc # "done"
    BY <1>5, ProducerEffect
       DEF ProducerGoesOn, ProducerCuts, ProducerReserves, ProducerHandsOver
  <2>3. QED
    BY <1>1, <2>1, <2>2 DEF ReducerAt, AtChunk, Reducing, ReducerListens, ResultSenderGone
<1>6. CASE BackendActs
  <2>1. UNCHANGED <<run, reducer, reorder, producer>>
    BY <1>1, <1>6, BackendEffect, Frames
  <2>2. reducer.pc = "conclude" /\ ResultSenderGone /\ results = <<>> =>
            backend'.pc \in {"dropQueue", "done"} /\ results' = <<>>
    BY <1>1, <1>6, BackendEffect
       DEF BackendTakes, BackendScores, BackendHandsOver, BackendLeaves, BackendDrops,
           ResultSenderGone, ReducerListens
  <2>3. QED
    BY <1>1, <2>1, <2>2 DEF ReducerAt, AtChunk, Reducing, ReducerListens, ResultSenderGone
<1>7. CASE ReducerActs
  <2>1. UNCHANGED <<producer, backend>>
    BY <1>7, ReducerMoves
  <2> USE DEF ReducerAt, AtChunk, Reducing, ReducerListens, ResultSenderGone
  <2>2. CASE ReducerControl
    BY <1>1, <2>1, <2>2, ControlEffect DEF GoesTo, Returns, SameFindings
  <2>3. CASE ReducerReceive
    BY <1>1, <2>1, <2>3, ReceiveEffect, NextResult DEF GoesTo, Returns
  <2>4. CASE ReducerDrain
    <3>1. CASE reorder = {} /\ GoesTo("control") /\ stop' = stop
      BY <1>1, <2>1, <2>4, <3>1, DrainEffect DEF GoesTo
    <3>2. CASE Returns("Err")
      BY <1>1, <2>1, <2>4, <3>2, DrainEffect DEF Returns
    <3>3. CASE \E r \in reorder :
                     /\ reorder = {r} /\ r.start = reducer.next
                     /\ r.ok /\ reducer'.pc = "record" /\ reducer'.chunk = r
                     /\ reducer'.outcome = reducer.outcome
                     /\ reducer'.next = reducer.next /\ reorder' = {}
      <4>1. PICK r \in reorder :
                     /\ r.start = reducer.next
                     /\ r.ok /\ reducer'.pc = "record" /\ reducer'.chunk = r
                     /\ reducer'.outcome = reducer.outcome
                     /\ reducer'.next = reducer.next /\ reorder' = {}
        BY <3>3
      <4>2. r \in ChunkType /\ GoodChunk(r)
        BY DEF IInv, TypeOK, ChunksAreGood
      <4>3. reducer.next <= ChunkEnd(r) /\ reducer.next \in Nat
        BY <1>1, <4>1, <4>2, GoodChunkEnds, FieldTypes
      <4>4. run' = run /\ run.offset = reducer.next /\ reducer.outcome = "none"
        BY <1>1, <2>4, DrainEffect
      <4>5. QED BY <2>1, <4>1, <4>3, <4>4
    <3>4. QED BY <2>4, <3>1, <3>2, <3>3, DrainEffect
  <2>5. CASE RecordEvent
    <3>1. /\ reducer.pc = "record" /\ Improving # {} /\ run'.offset = NextBest + 1
          /\ Returns("Err") \/ GoesTo("persist")
      BY <2>5, RecordEffect
    <3>2. /\ NextBest \in Nat /\ reducer.chunk.start <= NextBest
          /\ NextBest < ChunkEnd(reducer.chunk) /\ ChunkEnd(reducer.chunk) \in Nat
          /\ reducer.chunk.start \in Nat
      <4>1. GoodChunk(reducer.chunk) /\ reducer.chunk \in ChunkType
        BY <3>1, FieldTypes DEF IInv, ChunksAreGood
      <4>2. QED BY <1>1, <3>1, <4>1, NextBestIs, ChunkFields
    <3>3. reducer.next <= run'.offset /\ run'.offset <= ChunkEnd(reducer.chunk)
      BY <1>1, <3>1, <3>2
    <3>4. QED BY <1>1, <2>1, <3>1, <3>3 DEF GoesTo, Returns
  <2>6. CASE PersistBest
    BY <1>1, <2>1, <2>6, PersistEffect DEF GoesTo, Returns
  <2>7. CASE AdvanceChunk
    BY <1>1, <2>1, <2>7, AdvanceEffect DEF Returns
  <2>8. CASE ReducerConclude \/ CancelWaiters
    BY <1>1, <2>1, <2>8, ConcludeEffect, CancelEffect DEF GoesTo, Returns
  <2>9. CASE JoinThreads \/ Finish
    BY <1>1, <2>1, <2>9, JoinEffect, FinishEffect
  <2>10. QED
    BY <1>7, <2>2, <2>3, <2>4, <2>5, <2>6, <2>7, <2>8, <2>9 DEF ReducerActs
<1>8. QED BY <1>1, <1>2, <1>3, <1>4, <1>5, <1>6, <1>7, Cases

-----------------------------------------------------------------------------
(* The best matches are real, and the row follows the run.                 *)

\* The next improvement lies ahead, and no window before it beats the best.
LEMMA RecordFinds ==
    ASSUME IInv, RecordEvent
    PROVE  /\ NextBest \in Offsets /\ NextBest \in Nat
           /\ score[NextBest] \in 0..PerfectScore /\ score[NextBest] > run.best
           /\ run.offset <= NextBest /\ row.offset <= NextBest
           /\ \A p \in 0..(NextBest - 1) : score[p] <= run.best
           /\ row.best = run.best /\ row.bestAt = run.bestAt
           /\ NextBest < ChunkEnd(reducer.chunk) /\ NextBest \in Windows(reducer.chunk)
<1>1. reducer.pc = "record" /\ Improving # {}
  BY RecordEffect
<1>2. /\ TypeOK /\ GoodChunk(reducer.chunk) /\ reducer.chunk.start = reducer.next
      /\ reducer.next <= run.offset /\ reducer.outcome = "none"
      /\ reducer.chunk \in ChunkType /\ reducer.next \in Nat
      /\ run.offset \in Nat /\ row.offset \in Nat /\ row.offset <= run.offset
      /\ row.best = run.best /\ row.bestAt = run.bestAt
      /\ run.best \in 0..PerfectScore /\ PerfectScore \in Nat
  BY <1>1, FieldTypes, SizesAssumption
     DEF IInv, ChunksAreGood, ReducerAt, AtChunk, Reducing, ReducerListens, RowFollowsRun, Running
<1>3. /\ NextBest \in Windows(reducer.chunk) /\ NextBest \in Offsets /\ NextBest \in Nat
      /\ reducer.chunk.start <= NextBest /\ NextBest < ChunkEnd(reducer.chunk)
      /\ score[NextBest] \in 0..PerfectScore /\ score[NextBest] > run.best
      /\ \A p \in Windows(reducer.chunk) : p < NextBest => score[p] <= run.best
  BY <1>1, <1>2, NextBestIs
<1>4. \A p \in 0..(run.offset - 1) : score[p] <= run.best
  BY DEF IInv, BestsAreReal, RealBest
<1>5. run.offset <= NextBest
  <2>1. SUFFICES ASSUME NextBest < run.offset PROVE FALSE
    BY <1>2, <1>3
  <2>2. NextBest \in 0..(run.offset - 1)
    BY <1>2, <1>3, <2>1
  <2>3. QED BY <1>2, <1>3, <1>4, <2>2
<1>6. \A p \in 0..(NextBest - 1) : score[p] <= run.best
  <2> TAKE p \in 0..(NextBest - 1)
  <2>1. CASE p < run.offset
    BY <1>2, <1>3, <1>4, <2>1
  <2>2. CASE p >= run.offset
    <3>1. p \in Windows(reducer.chunk) /\ p < NextBest
      <4>1. ChunkEnd(reducer.chunk) \in Nat /\ reducer.chunk.windows \in Nat
        BY <1>2, ChunkFields
      <4>2. QED BY <1>2, <1>3, <2>2, <4>1 DEF Windows, ChunkEnd
    <3>2. QED BY <1>3, <3>1
  <2>3. QED BY <1>2, <1>3, <2>1, <2>2
<1>7. QED BY <1>2, <1>3, <1>5, <1>6

LEMMA SameBest ==
    ASSUME NEW r, NEW s, RealBest(r), s.best = r.best, s.bestAt = r.bestAt, s.offset = r.offset
    PROVE  RealBest(s)
  BY DEF RealBest

\* What moving past a chunk without improvement does to the best.
LEMMA AdvanceKeeps ==
    ASSUME IInv, AdvanceChunk
    PROVE  /\ \A p \in 0..(ChunkEnd(reducer.chunk) - 1) : score[p] <= run.best
           /\ run.offset <= ChunkEnd(reducer.chunk) /\ row.offset <= run.offset
           /\ row.best = run.best /\ row.bestAt = run.bestAt /\ reducer.outcome = "none"
           /\ ChunkEnd(reducer.chunk) \in Nat /\ run.offset \in Nat
           /\ reducer.chunk.start = reducer.next /\ reducer.chunk.start \in Nat
           /\ GoodChunk(reducer.chunk) /\ reducer.chunk \in ChunkType
<1>1. reducer.pc = "record" /\ Improving = {}
  BY AdvanceEffect
<1>2. /\ TypeOK /\ GoodChunk(reducer.chunk) /\ reducer.chunk.start = reducer.next
      /\ reducer.next <= run.offset /\ reducer.outcome = "none"
      /\ run.offset <= ChunkEnd(reducer.chunk)
      /\ reducer.chunk \in ChunkType /\ reducer.next \in Nat
      /\ run.offset \in Nat /\ row.offset \in Nat /\ row.offset <= run.offset
      /\ row.best = run.best /\ row.bestAt = run.bestAt
      /\ run.best \in 0..PerfectScore /\ PerfectScore \in Nat
  BY <1>1, FieldTypes, SizesAssumption
     DEF IInv, ChunksAreGood, ReducerAt, AtChunk, Reducing, ReducerListens, RowFollowsRun, Running
<1>3. /\ ChunkEnd(reducer.chunk) \in Nat /\ reducer.chunk.start \in Nat
      /\ reducer.chunk.windows \in Nat /\ Windows(reducer.chunk) \in SUBSET Offsets
  BY <1>2, ChunkFields, GoodChunkEnds
<1>4. \A p \in Windows(reducer.chunk) : score[p] <= run.best
  <2>1. \A p \in Windows(reducer.chunk) : score[p] \in 0..PerfectScore /\ ~(score[p] > run.best)
    BY <1>1, <1>2, <1>3, SetupIs DEF Improving, Scored
  <2>2. QED BY <1>2, <2>1
<1>5. \A p \in 0..(ChunkEnd(reducer.chunk) - 1) : score[p] <= run.best
  <2> TAKE p \in 0..(ChunkEnd(reducer.chunk) - 1)
  <2>1. CASE p < run.offset
    BY <1>2, <1>3, <2>1 DEF IInv, BestsAreReal, RealBest
  <2>2. CASE p >= run.offset
    BY <1>2, <1>3, <1>4, <2>2 DEF Windows, ChunkEnd
  <2>3. QED BY <1>2, <1>3, <2>1, <2>2
<1>6. QED BY <1>2, <1>3, <1>5

LEMMA BestsStayReal ==
    ASSUME IInv, [Next]_vars
    PROVE  BestsAreReal'
<1>1. /\ TypeOK /\ RealBest(run) /\ RealBest(row) /\ OnRecord(row)
      /\ reducer.pc = "persist" => OnRecord(run)
      /\ history \in Seq([offset : Offsets, score : 0..PerfectScore])
  BY DEF IInv, BestsAreReal, TypeOK
<1>2. CASE Quiet
  BY <1>1, <1>2 DEF Quiet, BestsAreReal, RealBest, OnRecord
<1>3. CASE Start
  <2>1. /\ UNCHANGED <<score, history>> /\ reducer'.pc = "control" /\ row' = run'
        /\ SameFindings(run', row)
    BY <1>1, <1>3, StartEffect
  <2>2. QED BY <1>1, <2>1 DEF BestsAreReal, RealBest, OnRecord, SameFindings
<1>4. CASE Crash
  <2>1. UNCHANGED <<score, history, run, row>> /\ reducer'.pc = "off"
    BY <1>1, <1>4, CrashEffect
  <2>2. QED BY <1>1, <2>1 DEF BestsAreReal, RealBest, OnRecord
<1>5. CASE ProducerActs \/ BackendActs
  <2>1. UNCHANGED <<score, history, run, row, reducer>>
    BY <1>1, <1>5, ProducerEffect, BackendEffect, Frames
  <2>2. QED BY <1>1, <2>1 DEF BestsAreReal, RealBest, OnRecord
<1>6. CASE ReducerActs
  <2>1. score' = score
    BY <1>6, ReducerMoves
  <2>2. CASE ReducerControl \/ Finish
    <3>1. /\ history' = history /\ SameFindings(run', run) /\ reducer'.pc # "persist"
          /\ row' = row \/ row' = run'
      BY <1>1, <2>2, ControlEffect, FinishEffect DEF GoesTo, Returns
    <3>2. row.bestAt = run.bestAt /\ row.best = run.best
      <4>1. reducer.pc \in {"control", "finish"}
        BY <1>1, <2>2, ControlEffect, FinishEffect
      <4>2. QED BY <4>1 DEF IInv, RowFollowsRun, Running, ReducerAt, Reducing, ReducerListens
    <3>3. QED BY <1>1, <2>1, <3>1, <3>2 DEF BestsAreReal, RealBest, OnRecord, SameFindings
  <2>3. CASE ReducerReceive \/ ReducerDrain \/ ReducerConclude \/ CancelWaiters \/ JoinThreads
    <3>1. UNCHANGED <<history, run, row>> /\ reducer'.pc # "persist"
      BY <1>1, <2>3, ReceiveEffect, DrainEffect, ConcludeEffect, CancelEffect, JoinEffect
         DEF GoesTo, Returns
    <3>2. QED BY <1>1, <2>1, <3>1 DEF BestsAreReal, RealBest, OnRecord
  <2>4. CASE RecordEvent
    <3> DEFINE event == [offset |-> NextBest, score |-> score[NextBest]]
    <3>1. /\ NextBest \in Offsets /\ NextBest \in Nat
          /\ score[NextBest] \in 0..PerfectScore /\ score[NextBest] > run.best
          /\ \A p \in 0..(NextBest - 1) : score[p] <= run.best
      BY <2>4, RecordFinds
    <3>2. /\ row' = row /\ run'.best = score[NextBest] /\ run'.bestAt = NextBest
          /\ run'.offset = NextBest + 1
          /\ \/ history' = Append(history, event)
             \/ history' = history /\ reducer'.pc # "persist"
      BY <2>4, RecordEffect DEF Returns
    <3>3. NoBound \notin Nat /\ PerfectScore \in Nat /\ run.best \in 0..PerfectScore /\ Scored
      BY <1>1, SizesAssumption, FieldTypes, SetupIs
    <3>4. \A p \in 0..(run'.offset - 1) : score[p] <= run'.best
      <4> TAKE p \in 0..(run'.offset - 1)
      <4>1. p \in 0..(NextBest - 1) \/ p = NextBest
        BY <3>1, <3>2
      <4>2. p \in Offsets /\ score[p] \in 0..PerfectScore
        BY <3>1, <3>3, <4>1, SizesAssumption DEF Offsets, Scored
      <4>3. QED BY <3>1, <3>2, <3>3, <4>1, <4>2
    <3>5. RealBest(run)'
      BY <2>1, <3>1, <3>2, <3>3, <3>4 DEF RealBest
    <3>6. RealBest(row)'
      BY <1>1, <2>1, <3>2 DEF RealBest
    <3>7. event \in [offset : Offsets, score : 0..PerfectScore]
      BY <3>1
    <3> HIDE DEF event
    <3>8. history' = Append(history, event) =>
              /\ \A i \in DOMAIN history : i \in DOMAIN history' /\ history'[i] = history[i]
              /\ Len(history) + 1 \in DOMAIN history' /\ history'[Len(history) + 1] = event
      BY <1>1, <3>7
    <3>9. OnRecord(row)'
      BY <1>1, <3>2, <3>8 DEF OnRecord
    <3>10. reducer'.pc = "persist" => OnRecord(run)'
      BY <3>2, <3>8 DEF OnRecord, event
    <3>11. QED BY <3>5, <3>6, <3>9, <3>10 DEF BestsAreReal
  <2>5. CASE PersistBest
    <3>1. /\ UNCHANGED <<history, run>> /\ reducer.pc = "persist" /\ reducer'.pc # "persist"
          /\ row' = row \/ row' = run
      BY <1>1, <2>5, PersistEffect DEF GoesTo, Returns
    <3>2. QED BY <1>1, <2>1, <3>1 DEF BestsAreReal, RealBest, OnRecord
  <2>6. CASE AdvanceChunk
    <3>1. /\ \A p \in 0..(ChunkEnd(reducer.chunk) - 1) : score[p] <= run.best
          /\ run.offset <= ChunkEnd(reducer.chunk)
          /\ row.best = run.best /\ row.bestAt = run.bestAt
          /\ ChunkEnd(reducer.chunk) \in Nat /\ run.offset \in Nat
      BY <2>6, AdvanceKeeps
    <3>2. /\ history' = history /\ reducer'.pc # "persist"
          /\ run'.offset = ChunkEnd(reducer.chunk)
          /\ run'.best = run.best /\ run'.bestAt = run.bestAt
          /\ \/ row' = row
             \/ row'.offset = run'.offset /\ row'.best = run.best /\ row'.bestAt = run.bestAt
      BY <2>6, AdvanceEffect DEF Returns
    <3>3. run.bestAt # NoBound => run.bestAt < run'.offset
      <4>1. run.bestAt \in Nat \cup {NoBound}
        BY <1>1, FieldTypes, SizesAssumption DEF Offsets
      <4>2. QED BY <1>1, <3>1, <3>2, <4>1 DEF RealBest
    <3>4. RealBest(run)'
      BY <1>1, <2>1, <3>1, <3>2, <3>3 DEF RealBest
    <3>5. RealBest(row)'
      BY <1>1, <2>1, <3>2, <3>4 DEF RealBest
    <3>6. OnRecord(row)'
      BY <1>1, <3>1, <3>2 DEF OnRecord
    <3>7. QED BY <3>2, <3>4, <3>5, <3>6 DEF BestsAreReal
  <2>7. QED BY <1>6, <2>2, <2>3, <2>4, <2>5, <2>6 DEF ReducerActs
<1>7. QED BY <1>1, <1>2, <1>3, <1>4, <1>5, <1>6, Cases

LEMMA RowKeepsFollowing ==
    ASSUME IInv, [Next]_vars
    PROVE  RowFollowsRun'
<1>1. TypeOK /\ RowFollowsRun /\ row.offset \in Nat /\ run.offset \in Nat
  BY FieldTypes DEF IInv
<1>2. CASE Quiet
  BY <1>1, <1>2 DEF Quiet, RowFollowsRun, Running, ReducerListens
<1>3. CASE Start
  <2>1. /\ row' = run' /\ run'.status = "Running" /\ reducer'.pc = "control"
        /\ run'.offset \in Nat
    BY <1>1, <1>3, StartEffect DEF SameFindings
  <2>2. QED BY <2>1 DEF RowFollowsRun
<1>4. CASE Crash
  BY <1>1, <1>4, CrashEffect DEF RowFollowsRun, Running
<1>5. CASE ProducerActs \/ BackendActs
  <2>1. UNCHANGED <<score, run, row, reducer>>
    BY <1>1, <1>5, ProducerEffect, BackendEffect, Frames
  <2>2. QED BY <1>1, <2>1 DEF RowFollowsRun, Running, ReducerListens
<1>6. CASE ReducerActs
  <2>1. score' = score
    BY <1>6, ReducerMoves
  <2>2. CASE ReducerControl
    <3>1. /\ reducer.pc = "control" /\ reducer.outcome = "none"
          /\ SameFindings(run', run) /\ run'.status \in {run.status, "Paused", "Running"}
          /\ reducer'.pc \in {"control", "recv", "cancel"}
          /\ \/ row' = run'
             \/ row' = row /\ run'.status = run.status
             \/ row' = row /\ reducer'.pc = "cancel"
      BY <1>1, <2>2, ControlEffect
         DEF GoesTo, Returns, IInv, ReducerAt, Reducing, ReducerListens
    <3>2. QED BY <1>1, <3>1 DEF RowFollowsRun, Running, ReducerListens, SameFindings
  <2>3. CASE ReducerReceive \/ ReducerDrain \/ ReducerConclude \/ CancelWaiters
    <3>1. /\ UNCHANGED <<run, row>> /\ reducer'.pc # "persist"
          /\ reducer.pc \in {"recv", "drain", "conclude", "cancel"}
          /\ reducer'.pc \notin {"off", "persist"}
          /\ ReducerListens' => ReducerListens
          /\ reducer.pc # "cancel" => reducer.outcome = "none"
          /\ reducer.pc = "cancel" => reducer'.outcome = reducer.outcome
      BY <1>1, <2>3, ReceiveEffect, DrainEffect, ConcludeEffect, CancelEffect
         DEF GoesTo, Returns, IInv, ReducerAt, Reducing, ReducerListens
    <3>2. QED BY <1>1, <3>1 DEF RowFollowsRun, Running
  <2>4. CASE JoinThreads \/ Finish
    <3>1. CASE reducer'.pc = "off"
      BY <3>1 DEF RowFollowsRun, Running
    <3>2. CASE reducer'.pc # "off"
      <4>1. /\ UNCHANGED <<run, row>> /\ reducer.pc = "join" /\ reducer'.pc = "finish"
            /\ reducer'.outcome = reducer.outcome
        BY <1>1, <2>4, <3>2, JoinEffect, FinishEffect
      <4>2. QED BY <1>1, <4>1 DEF RowFollowsRun, Running, ReducerListens
    <3>3. QED BY <3>1, <3>2
  <2>5. CASE RecordEvent
    <3>1. /\ NextBest \in Nat /\ score[NextBest] > run.best
          /\ run.offset <= NextBest /\ row.offset <= NextBest
          /\ \A p \in 0..(NextBest - 1) : score[p] <= run.best
          /\ row.best = run.best /\ NoBound \notin Nat
      BY <2>5, RecordFinds, SizesAssumption
    <3>2. /\ reducer.pc = "record" /\ row' = row
          /\ run'.best = score[NextBest] /\ run'.bestAt = NextBest
          /\ run'.offset = NextBest + 1 /\ run'.status = run.status
          /\ reducer'.pc = "persist" \/ (reducer'.pc = "cancel" /\ reducer'.outcome = "Err")
      BY <2>5, RecordEffect DEF GoesTo, Returns
    <3>3. QED BY <1>1, <2>1, <3>1, <3>2 DEF RowFollowsRun, Running, ReducerListens
  <2>6. CASE PersistBest
    <3>1. /\ run' = run /\ reducer.pc = "persist"
          /\ \/ row' = run /\ reducer'.pc \in {"record", "cancel"}
             \/ row' = row /\ reducer'.pc = "cancel" /\ reducer'.outcome = "Err"
      BY <1>1, <2>6, PersistEffect DEF GoesTo, Returns
    <3>2. QED BY <1>1, <3>1 DEF RowFollowsRun, Running, ReducerListens
  <2>7. CASE AdvanceChunk
    <3>1. /\ run.offset <= ChunkEnd(reducer.chunk) /\ ChunkEnd(reducer.chunk) \in Nat
          /\ row.best = run.best /\ row.bestAt = run.bestAt
      BY <2>7, AdvanceKeeps
    <3>2. /\ reducer.pc = "record" /\ reducer'.pc \in {"drain", "cancel"}
          /\ run'.offset = ChunkEnd(reducer.chunk)
          /\ run'.best = run.best /\ run'.bestAt = run.bestAt /\ run'.status = run.status
          /\ row'.status = row.status
          /\ \/ row' = row
             \/ row'.offset = run'.offset /\ row'.best = run.best /\ row'.bestAt = run.bestAt
      BY <2>7, AdvanceEffect DEF Returns
    <3>3. QED BY <1>1, <3>1, <3>2 DEF RowFollowsRun, Running, ReducerListens
  <2>8. QED BY <1>6, <2>2, <2>3, <2>4, <2>5, <2>6, <2>7 DEF ReducerActs
<1>7. QED BY <1>1, <1>2, <1>3, <1>4, <1>5, <1>6, Cases

-----------------------------------------------------------------------------
(* The windows between the reducer and the producer.                       *)

\* A producer that has nothing left has nothing left later.
LEMMA NothingLeftStays ==
    ASSUME NothingLeft, UNCHANGED <<setup, session>>,
           producer'.offset = producer.offset, producer'.scanned = producer.scanned,
           published' = published \/ setup.growing
    PROVE  NothingLeft'
  BY DEF NothingLeft, BoundReached

\* The stop flag is never taken back while the search runs.
LEMMA StopStays ==
    ASSUME IInv, ReducerActs
    PROVE  Running /\ (stop' = stop \/ stop')
<1>1. TypeOK
  BY DEF IInv
<1>2. CASE ReducerControl \/ ReducerReceive \/ ReducerDrain
  BY <1>1, <1>2, ControlEffect, ReceiveEffect, DrainEffect DEF Running
<1>3. CASE RecordEvent \/ PersistBest \/ AdvanceChunk \/ ReducerConclude
  BY <1>1, <1>3, RecordEffect, PersistEffect, AdvanceEffect, ConcludeEffect DEF Running
<1>4. CASE CancelWaiters \/ JoinThreads \/ Finish
  BY <1>1, <1>4, CancelEffect, JoinEffect, FinishEffect DEF Running
<1>5. QED BY <1>2, <1>3, <1>4 DEF ReducerActs

LEMMA ProducerDoneStaysSo ==
    ASSUME IInv, [Next]_vars
    PROVE  ProducerDoneWhy'
<1>1. TypeOK /\ ProducerDoneWhy
  BY DEF IInv
<1>2. CASE Quiet
  BY <1>1, <1>2, NothingLeftStays DEF Quiet, ProducerDoneWhy, Running, BackendGone
<1>3. CASE Start
  BY <1>1, <1>3, StartEffect DEF ProducerDoneWhy
<1>4. CASE Crash
  BY <1>1, <1>4, CrashEffect DEF ProducerDoneWhy, Running
<1>5. CASE ProducerActs
  <2>1. UNCHANGED <<setup, published, session, reducer, backend, stop>>
    BY <1>5, ProducerEffect, Frames
  <2>2. CASE ProducerGoesOn
    BY <1>1, <2>1, <2>2, NothingLeftStays DEF ProducerGoesOn, ProducerDoneWhy, BackendGone
  <2>3. CASE ProducerCuts \/ ProducerReserves \/ ProducerHandsOver
    BY <2>3 DEF ProducerCuts, ProducerReserves, ProducerHandsOver, ProducerDoneWhy
  <2>4. QED BY <1>5, <2>2, <2>3, ProducerEffect
<1>6. CASE BackendActs
  <2>1. UNCHANGED <<setup, published, session, reducer, producer, stop>>
    BY <1>1, <1>6, BackendEffect, Frames
  <2>2. BackendGone => BackendGone'
    BY <1>1, <1>6, BackendEffect
       DEF BackendTakes, BackendScores, BackendHandsOver, BackendLeaves, BackendDrops, BackendGone
  <2>3. QED BY <1>1, <2>1, <2>2, NothingLeftStays DEF ProducerDoneWhy, Running
<1>7. CASE ReducerActs
  <2>1. UNCHANGED <<setup, published, session, producer, backend>>
    BY <1>7, ReducerMoves
  <2>2. QED BY <1>1, <1>7, <2>1, StopStays, NothingLeftStays DEF ProducerDoneWhy, BackendGone
<1>8. QED BY <1>1, <1>2, <1>3, <1>4, <1>5, <1>6, <1>7, Cases

\* Once everything was handed over, it stays so.
LEMMA HandedOverStays ==
    ASSUME NEW b, AllHandedOver(b), UNCHANGED <<setup, session, producer>>,
           published' = published \/ setup.growing, chunks' = <<>>
    PROVE  AllHandedOver(b)'
<1>1. NothingLeft => NothingLeft'
  BY NothingLeftStays
<1>2. QED BY <1>1 DEF AllHandedOver

LEMMA OrderByProducer ==
    ASSUME IInv, ProducerActs
    PROVE  InOrder'
<1>1. UNCHANGED <<setup, reducer, reorder, backend, results, stop>>
  BY ProducerEffect, Frames
<1>2. SUFFICES ASSUME Reducing PROVE InOrder'
  BY <1>1 DEF InOrder, Reducing, ReducerListens
<1>3. PICK a, b, c \in Nat : CutAt(a, b, c) /\ (EndOfStream => AllHandedOver(b))
  BY <1>2 DEF IInv, InOrder
<1>4. producer.pc \notin {"done", "failed"}
  BY ProducerEffect DEF ProducerGoesOn, ProducerCuts, ProducerReserves, ProducerHandsOver
<1>5. ~EndOfStream'
  BY <1>1, <1>3, <1>4 DEF EndOfStream, AllHandedOver, BackendGone
<1>6. Tiles(chunks', c, producer'.offset)
  <2>1. CASE ProducerGoesOn \/ ProducerCuts \/ ProducerReserves
    BY <1>3, <2>1 DEF CutAt, ProducerGoesOn, ProducerCuts, ProducerReserves
  <2>2. CASE ProducerHandsOver
    <3>1. /\ chunks \in Seq(ChunkType) /\ producer.chunk \in ChunkType
          /\ producer.offset \in Nat
      BY FieldTypes DEF IInv, TypeOK
    <3>2. producer.chunk.start = producer.offset
      BY <2>2 DEF IInv, ChunksAreGood, ProducerHandsOver
    <3>3. Tiles(chunks, c, producer.offset)
      BY <1>3 DEF CutAt
    <3>4. QED BY <2>2, <3>1, <3>2, <3>3, TilesAppend DEF ProducerHandsOver
  <2>3. QED BY <2>1, <2>2, ProducerEffect
<1>7. CutAt(a, b, c)'
  BY <1>1, <1>3, <1>6 DEF CutAt, AtChunk, BackendHolds
<1>8. QED BY <1>5, <1>7 DEF InOrder

LEMMA OrderByBackend ==
    ASSUME IInv, BackendActs
    PROVE  InOrder'
<1>1. /\ TypeOK /\ ChunksAreGood /\ chunks \in Seq(ChunkType) /\ results \in Seq(ChunkType)
      /\ backend.chunk \in ChunkType /\ producer.offset \in Nat
  BY FieldTypes DEF IInv, TypeOK
<1>2. UNCHANGED <<setup, session, published, reducer, reorder, producer, stop>>
  BY <1>1, BackendEffect, Frames
<1>3. SUFFICES ASSUME Reducing PROVE InOrder'
  BY <1>2 DEF InOrder, Reducing, ReducerListens
<1>4. PICK a, b, c \in Nat : CutAt(a, b, c) /\ (EndOfStream => AllHandedOver(b))
  BY <1>3 DEF IInv, InOrder
<1>5. chunks # <<>> => \E d \in Nat : /\ d = ChunkEnd(Head(chunks)) /\ Head(chunks).start = c
                                      /\ Tiles(Tail(chunks), d, producer.offset)
  <2>1. \A i \in DOMAIN chunks : chunks[i].windows >= 1
    BY <1>1 DEF ChunksAreGood, GoodChunk
  <2>2. QED BY <1>1, <1>4, <2>1, TilesHead DEF CutAt
<1>6. CASE BackendTakes
  <2>1. PICK d \in Nat : /\ d = ChunkEnd(Head(chunks)) /\ Head(chunks).start = c
                         /\ Tiles(Tail(chunks), d, producer.offset)
    BY <1>5, <1>6 DEF BackendTakes
  <2>2. CutAt(a, b, d)'
    BY <1>2, <1>4, <1>6, <2>1 DEF BackendTakes, CutAt, AtChunk, BackendHolds
  <2>3. ~EndOfStream'
    BY <1>6 DEF BackendTakes, EndOfStream, BackendGone
  <2>4. QED BY <2>2, <2>3 DEF InOrder
<1>7. CASE BackendScores
  <2>1. CutAt(a, b, c)'
    BY <1>2, <1>4, <1>7 DEF BackendScores, CutAt, AtChunk, BackendHolds, ChunkEnd
  <2>2. ~EndOfStream'
    BY <1>7 DEF BackendScores, EndOfStream, BackendGone
  <2>3. QED BY <2>1, <2>2 DEF InOrder
<1>8. CASE BackendHandsOver
  <2>1. b = backend.chunk.start /\ c = ChunkEnd(backend.chunk)
    BY <1>4, <1>8 DEF BackendHandsOver, CutAt, BackendHolds
  <2>2. Tiles(results', a, c)
    BY <1>1, <1>4, <1>8, <2>1, TilesAppend DEF BackendHandsOver, CutAt
  <2>3. CutAt(a, c, c)'
    BY <1>2, <1>4, <1>8, <2>2 DEF BackendHandsOver, CutAt, AtChunk, BackendHolds
  <2>4. ~EndOfStream'
    <3>1. CASE backend'.pc = "recv"
      BY <3>1 DEF EndOfStream, BackendGone
    <3>2. CASE ~backend.chunk.ok
      <4>1. results' = Append(results, backend.chunk)
        BY <1>8 DEF BackendHandsOver
      <4>2. Len(results) + 1 \in DOMAIN results' /\ results'[Len(results) + 1] = backend.chunk
        BY <1>1, <4>1
      <4>3. QED BY <3>2, <4>2 DEF EndOfStream
    <3>3. QED BY <1>8, <3>1, <3>2 DEF BackendHandsOver
  <2>5. QED BY <2>3, <2>4 DEF InOrder
<1>9. CASE BackendLeaves
  <2>1. backend'.pc = "dropSender" /\ results' = results
    BY <1>9 DEF BackendLeaves
  <2>2. CASE backend.pc = "recv" /\ chunks = <<>> /\ chunks' = chunks /\ ProducerDone
    <3>1. b = c /\ c = producer.offset
      BY <1>1, <1>4, <2>2, TilesNone DEF CutAt
    <3>2. CutAt(a, b, c)'
      BY <1>2, <1>4, <2>1, <2>2 DEF CutAt, AtChunk, BackendHolds
    <3>3. ~stop => AllHandedOver(b)
      <4>1. Running /\ ~BackendGone
        BY <1>3, <2>2 DEF Reducing, ReducerListens, Running, BackendGone
      <4>2. producer.pc = "done" => stop \/ NothingLeft
        BY <4>1 DEF IInv, ProducerDoneWhy
      <4>3. QED BY <2>2, <3>1, <4>2 DEF AllHandedOver, ProducerDone
    <3>4. EndOfStream' => AllHandedOver(b)'
      BY <1>2, <2>2, <3>3, HandedOverStays DEF EndOfStream
    <3>5. QED BY <3>2, <3>4 DEF InOrder
  <2>3. CASE backend.pc = "recv" /\ chunks # <<>> /\ chunks' = Tail(chunks) /\ stop
    <3>1. PICK d \in Nat : Tiles(Tail(chunks), d, producer.offset)
      BY <1>5, <2>3
    <3>2. CutAt(a, b, d)'
      BY <1>2, <1>4, <2>1, <2>3, <3>1 DEF CutAt, AtChunk, BackendHolds
    <3>3. ~EndOfStream'
      BY <1>2, <2>3 DEF EndOfStream
    <3>4. QED BY <3>2, <3>3 DEF InOrder
  <2>4. CASE backend.pc = "search" /\ chunks' = chunks /\ "rebuild" \in setup.faults
    <3>1. CutAt(a, b, c)'
      BY <1>2, <1>4, <2>1, <2>4 DEF CutAt, AtChunk, BackendHolds
    <3>2. ~EndOfStream'
      BY <1>2, <2>4 DEF EndOfStream
    <3>3. QED BY <3>1, <3>2 DEF InOrder
  <2>5. CASE backend.pc = "send" /\ ~ReducerListens
    BY <1>3, <2>5 DEF IInv, ReducerAt, Reducing, ResultSenderGone
  <2>6. QED BY <1>9, <2>2, <2>3, <2>4, <2>5 DEF BackendLeaves
<1>10. CASE BackendDrops
  <2>1. results' = results /\ BackendGone /\ BackendGone'
    BY <1>10 DEF BackendDrops, BackendGone
  <2>2. PICK d \in Nat : Tiles(chunks', d, producer.offset)
    <3>1. CASE chunks' = chunks
      BY <1>4, <3>1 DEF CutAt
    <3>2. CASE chunks' = <<>>
      BY <1>1, <3>2, TilesNone
    <3>3. QED BY <1>10, <3>1, <3>2 DEF BackendDrops
  <2>3. CutAt(a, b, d)'
    BY <1>2, <1>4, <2>1, <2>2 DEF CutAt, AtChunk, BackendHolds, BackendGone
  <2>4. EndOfStream' => AllHandedOver(b)'
    <3>1. EndOfStream' => AllHandedOver(b)
      BY <1>2, <1>4, <2>1 DEF EndOfStream
    <3>2. AllHandedOver(b) => chunks' = <<>>
      BY <1>10 DEF BackendDrops, AllHandedOver
    <3>3. QED BY <1>2, <3>1, <3>2, HandedOverStays
  <2>5. QED BY <2>3, <2>4 DEF InOrder
<1>11. QED BY <1>1, <1>6, <1>7, <1>8, <1>9, <1>10, BackendEffect

LEMMA OrderByReducer ==
    ASSUME IInv, ReducerActs
    PROVE  InOrder'
<1>1. /\ TypeOK /\ ReducerAt /\ results \in Seq(ChunkType)
  BY DEF IInv, TypeOK
<1>2. UNCHANGED <<setup, session, published, producer, backend, chunks>>
  BY ReducerMoves
<1>3. CASE ~Reducing'
  BY <1>3 DEF InOrder
<1>4. ASSUME Reducing,
             NEW a \in Nat, NEW b \in Nat, NEW c \in Nat,
             CutAt(a, b, c), EndOfStream => AllHandedOver(b),
             stop' = stop, results' = results, reorder' = reorder,
             IF AtChunk' THEN AtChunk /\ reducer'.chunk = reducer.chunk
             ELSE reorder = {} => a = reducer'.next
      PROVE  InOrder'
  <2>1. CutAt(a, b, c)'
    BY <1>2, <1>4 DEF CutAt, AtChunk, BackendHolds
  <2>2. EndOfStream' => AllHandedOver(b)'
    BY <1>2, <1>4, HandedOverStays DEF EndOfStream, BackendGone, AllHandedOver
  <2>3. QED BY <2>1, <2>2 DEF InOrder
<1>5. ASSUME Reducing PROVE \E a, b, c \in Nat : CutAt(a, b, c) /\ (EndOfStream => AllHandedOver(b))
  BY <1>5 DEF IInv, InOrder
<1>6. CASE ReducerControl
  <2>1. CASE (GoesTo("control") \/ GoesTo("recv")) /\ stop' = stop
    <3>1. /\ reducer.pc = "control" /\ Reducing /\ ~AtChunk /\ reorder = {}
          /\ reducer'.next = reducer.next /\ ~AtChunk'
          /\ stop' = stop /\ results' = results /\ reorder' = reorder
      BY <1>1, <1>6, <2>1, ControlEffect DEF GoesTo, Reducing, ReducerListens, AtChunk, ReducerAt
    <3>2. PICK a, b, c \in Nat : CutAt(a, b, c) /\ (EndOfStream => AllHandedOver(b))
      BY <1>5, <3>1
    <3>3. a = reducer'.next
      BY <3>1, <3>2 DEF CutAt
    <3>4. QED BY <1>4, <3>1, <3>2, <3>3
  <2>2. CASE Returns("Interrupted") \/ Returns("Err")
    BY <2>2, <1>3 DEF Returns, Reducing, ReducerListens
  <2>3. QED BY <1>1, <1>6, <2>1, <2>2, ControlEffect
<1>7. CASE ReducerReceive
  <2>1. /\ reducer.pc = "recv" /\ Reducing /\ ~AtChunk /\ reorder = {} /\ stop' = stop
    BY <1>1, <1>7, ReceiveEffect DEF Reducing, ReducerListens, AtChunk, ReducerAt
  <2>2. PICK a, b, c \in Nat : CutAt(a, b, c) /\ (EndOfStream => AllHandedOver(b))
    BY <1>5, <2>1
  <2>3. a = reducer.next
    BY <2>1, <2>2 DEF CutAt
  <2>4. CASE results # <<>> /\ results' = Tail(results) /\ reorder' = {Head(results)}
               /\ reducer'.pc = "drain"
    <3>1. PICK d \in Nat : d = ChunkEnd(Head(results))
      BY <2>1, <2>4, NextResult, ChunkFields
    <3>2. Tiles(results', d, b)
      BY <2>1, <2>2, <2>3, <2>4, <3>1, NextResult DEF CutAt
    <3>3. CutAt(d, b, c)'
      BY <1>2, <2>2, <2>4, <3>1, <3>2 DEF CutAt, AtChunk, BackendHolds
    <3>4. EndOfStream' => EndOfStream
      <4>1. \A i \in DOMAIN results : \/ i = 1 /\ results[i] = Head(results)
                                      \/ i - 1 \in DOMAIN Tail(results)
                                           /\ results[i] = Tail(results)[i - 1]
        BY <1>1, <2>4
      <4>2. QED BY <1>2, <2>1, <2>4, <4>1 DEF EndOfStream, BackendGone
    <3>5. EndOfStream' => AllHandedOver(b)'
      BY <1>2, <2>2, <3>4, HandedOverStays DEF AllHandedOver
    <3>6. QED BY <3>3, <3>5 DEF InOrder
  <2>5. CASE GoesTo("conclude") \/ GoesTo("control")
    <3>1. /\ reducer'.next = reducer.next /\ ~AtChunk'
          /\ results' = results /\ reorder' = reorder
      BY <2>5 DEF GoesTo, AtChunk
    <3>2. QED BY <1>4, <2>1, <2>2, <2>3, <3>1
  <2>6. CASE Returns("Interrupted")
    BY <2>6, <1>3 DEF Returns, Reducing, ReducerListens
  <2>7. QED BY <1>7, <2>4, <2>5, <2>6, ReceiveEffect
<1>8. CASE ReducerDrain
  <2>1. reducer.pc = "drain" /\ Reducing /\ ~AtChunk
    BY <1>1, <1>8, DrainEffect DEF Reducing, ReducerListens, AtChunk
  <2>2. PICK a, b, c \in Nat : CutAt(a, b, c) /\ (EndOfStream => AllHandedOver(b))
    BY <1>5, <2>1
  <2>3. CASE reorder = {} /\ GoesTo("control") /\ stop' = stop
    <3>1. /\ reducer'.next = reducer.next /\ ~AtChunk'
          /\ results' = results /\ reorder' = reorder
      BY <2>3 DEF GoesTo, AtChunk
    <3>2. a = reducer'.next
      BY <2>1, <2>2, <2>3, <3>1 DEF CutAt
    <3>3. QED BY <1>4, <2>1, <2>2, <2>3, <3>1, <3>2
  <2>4. CASE \E r \in reorder : /\ reorder = {r} /\ r.ok
                                /\ reducer'.pc = "record" /\ reducer'.chunk = r
                                /\ reorder' = {} /\ results' = results /\ stop' = stop
    <3>1. PICK r \in reorder : /\ reorder = {r} /\ r.ok
                               /\ reducer'.pc = "record" /\ reducer'.chunk = r
                               /\ reorder' = {} /\ results' = results /\ stop' = stop
      BY <2>4
    <3>2. CutAt(a, b, c)'
      BY <1>2, <2>2, <3>1 DEF CutAt, AtChunk, BackendHolds
    <3>3. EndOfStream' => EndOfStream
      BY <1>2, <3>1 DEF EndOfStream, BackendGone
    <3>4. EndOfStream' => AllHandedOver(b)'
      BY <1>2, <2>2, <3>3, HandedOverStays DEF AllHandedOver
    <3>5. QED BY <3>2, <3>4 DEF InOrder
  <2>5. CASE Returns("Err")
    BY <2>5, <1>3 DEF Returns, Reducing, ReducerListens
  <2>6. QED BY <1>8, <2>3, <2>4, <2>5, DrainEffect
<1>9. CASE RecordEvent \/ PersistBest
  <2>1. CASE Returns("Err") \/ Returns("PerfectFound")
    BY <2>1, <1>3 DEF Returns, Reducing, ReducerListens
  <2>2. CASE GoesTo("persist") \/ GoesTo("record")
    <3>1. /\ reducer.pc \in {"record", "persist"} /\ stop' = stop
      BY <1>1, <1>9, <2>2, RecordEffect, PersistEffect DEF GoesTo, Returns
    <3>2. /\ Reducing /\ AtChunk /\ AtChunk' /\ reducer'.chunk = reducer.chunk
          /\ results' = results /\ reorder' = reorder
      BY <2>2, <3>1 DEF GoesTo, Reducing, ReducerListens, AtChunk
    <3>3. QED BY <1>4, <1>5, <3>1, <3>2
  <2>3. QED BY <1>1, <1>9, <2>1, <2>2, RecordEffect, PersistEffect
<1>10. CASE AdvanceChunk
  <2>1. reducer.pc = "record" /\ stop' = stop
    BY <1>10, AdvanceEffect
  <2>2. CASE Returns("Err")
    BY <2>2, <1>3 DEF Returns, Reducing, ReducerListens
  <2>3. CASE /\ reducer'.pc = "drain" /\ reducer'.next = ChunkEnd(reducer.chunk)
             /\ reorder' = reorder /\ results' = results
    <3>1. Reducing /\ AtChunk /\ ~AtChunk'
      BY <2>1, <2>3 DEF Reducing, ReducerListens, AtChunk
    <3>2. PICK a, b, c \in Nat : CutAt(a, b, c) /\ (EndOfStream => AllHandedOver(b))
      BY <1>5, <3>1
    <3>3. a = reducer'.next
      BY <2>3, <3>1, <3>2 DEF CutAt
    <3>4. QED BY <1>4, <2>1, <2>3, <3>1, <3>2, <3>3
  <2>4. QED BY <1>10, <2>2, <2>3, AdvanceEffect
<1>11. CASE ReducerConclude \/ CancelWaiters \/ JoinThreads \/ Finish
  <2>1. ~Reducing'
    BY <1>1, <1>11, ConcludeEffect, CancelEffect, JoinEffect, FinishEffect
       DEF Returns, GoesTo, Reducing, ReducerListens
  <2>2. QED BY <1>3, <2>1
<1>12. QED BY <1>6, <1>7, <1>8, <1>9, <1>10, <1>11 DEF ReducerActs

LEMMA OrderStays ==
    ASSUME IInv, [Next]_vars
    PROVE  InOrder'
<1>1. TypeOK
  BY DEF IInv
<1>2. CASE Quiet
  <2>1. SUFFICES ASSUME Reducing PROVE InOrder'
    BY <1>2 DEF InOrder, Reducing, ReducerListens, Quiet
  <2>2. PICK a, b, c \in Nat : CutAt(a, b, c) /\ (EndOfStream => AllHandedOver(b))
    BY <2>1 DEF IInv, InOrder
  <2>3. CutAt(a, b, c)'
    BY <1>2, <2>2 DEF Quiet, CutAt, AtChunk, BackendHolds
  <2>4. EndOfStream' => EndOfStream
    BY <1>2 DEF Quiet, EndOfStream, BackendGone
  <2>5. EndOfStream' => AllHandedOver(b)'
    BY <1>2, <2>2, <2>4, HandedOverStays DEF Quiet, AllHandedOver
  <2>6. QED BY <2>3, <2>5 DEF InOrder
<1>3. CASE Start
  <2>1. /\ reducer'.pc = "control" /\ reducer'.next = row.offset
        /\ producer'.offset = row.offset /\ backend'.pc = "recv"
        /\ reorder' = {} /\ chunks' = <<>> /\ results' = <<>>
    BY <1>1, <1>3, StartEffect
  <2>2. PICK a \in Nat : a = row.offset
    BY <1>1, FieldTypes
  <2>3. Tiles(<<>>, a, a)
    BY TilesNone
  <2>4. CutAt(a, a, a)' /\ ~EndOfStream'
    BY <2>1, <2>2, <2>3 DEF CutAt, EndOfStream, AtChunk, BackendHolds, BackendGone
  <2>5. QED BY <2>4 DEF InOrder
<1>4. CASE Crash
  BY <1>1, <1>4, CrashEffect DEF InOrder, Reducing, ReducerListens
<1>5. QED
  BY <1>1, <1>2, <1>3, <1>4, Cases, OrderByProducer, OrderByBackend, OrderByReducer

-----------------------------------------------------------------------------
(* Why a search ends.                                                      *)

\* When every sender is gone and nobody asked for a stop, everything the
\* producer handed over has been scanned and nothing is in flight.
LEMMA StreamEnded ==
    ASSUME IInv, reducer.pc = "conclude", ~stop, "rebuild" \notin setup.faults
    PROVE  /\ run.offset = producer.offset /\ chunks = <<>>
           /\ producer.pc = "failed" \/ (producer.pc = "done" /\ NothingLeft)
           /\ QueueCurrent = 0
<1>1. /\ results = <<>> /\ ResultSenderGone /\ reorder = {} /\ run.offset = reducer.next
      /\ Reducing /\ ~AtChunk
  BY DEF IInv, ReducerAt, Reducing, AtChunk
<1>2. PICK a, b, c \in Nat : CutAt(a, b, c) /\ (EndOfStream => AllHandedOver(b))
  BY <1>1 DEF IInv, InOrder
<1>3. EndOfStream
  BY <1>1 DEF EndOfStream, BackendGone, ResultSenderGone
<1>4. a = reducer.next /\ a = b
  BY <1>1, <1>2, TilesNone DEF CutAt
<1>5. /\ b = producer.offset /\ chunks = <<>>
      /\ producer.pc = "failed" \/ (producer.pc = "done" /\ NothingLeft)
  BY <1>2, <1>3 DEF AllHandedOver
<1>6. InFlight = {}
  BY <1>1, <1>5 DEF InFlight, ResultSenderGone
<1>7. QueueCurrent = 0
  BY <1>6, FS_EmptySet DEF QueueCurrent
<1>8. QED BY <1>1, <1>4, <1>5, <1>7

LEMMA NoErrorsArise ==
    ASSUME IInv, [Next]_vars
    PROVE  NoErrors'
<1>1. /\ TypeOK /\ NoErrors /\ results \in Seq(ChunkType) /\ chunks \in Seq(ChunkType)
      /\ backend.chunk \in ChunkType /\ published \in Nat
  BY FieldTypes DEF IInv, TypeOK
<1>2. setup' = setup
  BY <1>1, Cases, StartEffect, CrashEffect, ProducerEffect, BackendEffect, ReducerMoves, Frames
     DEF Quiet
<1>3. SUFFICES ASSUME setup.faults = {}, ~setup.growing
               PROVE  /\ reducer'.outcome # "Err"
                      /\ producer'.pc \notin {"failed", "request", "waiting"}
                      /\ demand' = 0
                      /\ \A i \in DOMAIN results' : results'[i].ok
                      /\ \A r \in reorder' : r.ok
                      /\ BackendHolds' => backend'.chunk.ok
  BY <1>2 DEF NoErrors
<1>4. /\ reducer.outcome # "Err" /\ producer.pc \notin {"failed", "request", "waiting"}
      /\ demand = 0
      /\ \A i \in DOMAIN results : results[i].ok
      /\ \A r \in reorder : r.ok
      /\ BackendHolds => backend.chunk.ok
  BY <1>1, <1>3 DEF NoErrors
<1>5. CASE Quiet
  BY <1>4, <1>5 DEF Quiet, BackendHolds
<1>6. CASE Start
  BY <1>1, <1>6, StartEffect DEF BackendHolds
<1>7. CASE Crash
  BY <1>1, <1>4, <1>7, CrashEffect DEF BackendHolds
<1>8. CASE ProducerActs
  BY <1>3, <1>4, <1>8, ProducerEffect, Frames DEF BackendHolds
<1>9. CASE BackendActs
  <2>1. UNCHANGED <<reducer, reorder, producer, demand>>
    BY <1>1, <1>9, BackendEffect, Frames
  <2>2. \A i \in DOMAIN results' : results'[i].ok
    <3>1. \/ results' = results
          \/ backend.pc = "send" /\ results' = Append(results, backend.chunk)
      BY <1>1, <1>9, BackendEffect
         DEF BackendTakes, BackendScores, BackendHandsOver, BackendLeaves, BackendDrops
    <3>2. QED BY <1>1, <1>4, <3>1, AppendHolds DEF BackendHolds
  <2>3. BackendHolds' => backend'.chunk.ok
    <3>1. CASE BackendTakes
      <4>1. Head(chunks).ok
        BY <1>1, <3>1, TailHolds DEF IInv, ChunksAreGood, BackendTakes
      <4>2. QED BY <3>1, <4>1 DEF BackendTakes
    <3>2. CASE BackendScores
      BY <1>3, <1>4, <3>2 DEF BackendScores, BackendHolds
    <3>3. CASE BackendHandsOver \/ BackendLeaves \/ BackendDrops
      BY <3>3 DEF BackendHandsOver, BackendLeaves, BackendDrops, BackendHolds
    <3>4. QED BY <1>1, <1>9, <3>1, <3>2, <3>3, BackendEffect
  <2>4. QED BY <1>4, <2>1, <2>2, <2>3
<1>10. CASE ReducerActs
  <2>1. UNCHANGED <<producer, backend, demand>>
    BY <1>10, ReducerMoves
  <2>2. SUFFICES /\ reducer'.outcome # "Err"
                 /\ \A i \in DOMAIN results' : results'[i].ok
                 /\ \A r \in reorder' : r.ok
    BY <1>4, <2>1 DEF BackendHolds
  <2>3. CASE ReducerControl
    BY <1>1, <1>3, <1>4, <2>3, ControlEffect DEF GoesTo, Returns
  <2>4. CASE ReducerReceive
    BY <1>1, <1>4, <2>4, ReceiveEffect, TailHolds DEF GoesTo, Returns
  <2>5. CASE ReducerDrain
    BY <1>4, <2>5, DrainEffect DEF GoesTo, Returns
  <2>6. CASE RecordEvent
    BY <1>3, <1>4, <2>6, RecordEffect DEF GoesTo, Returns
  <2>7. CASE PersistBest
    BY <1>1, <1>3, <1>4, <2>7, PersistEffect DEF GoesTo, Returns
  <2>8. CASE AdvanceChunk
    BY <1>3, <1>4, <2>8, AdvanceEffect DEF Returns
  <2>9. CASE ReducerConclude
    <3>1. ~Returns("Err")
      <4>1. SUFFICES ASSUME Returns("Err") PROVE FALSE
        OBVIOUS
      <4>2. /\ reducer.pc = "conclude" /\ ~stop /\ (QueueCurrent # 0 \/ demand > published)
        BY <1>1, <2>9, <4>1, ConcludeEffect DEF Returns
      <4>3. QueueCurrent = 0
        BY <1>3, <4>2, StreamEnded
      <4>4. QED BY <1>1, <1>4, <4>2, <4>3
    <3>2. QED BY <1>1, <1>4, <2>9, <3>1, ConcludeEffect DEF Returns
  <2>10. CASE CancelWaiters
    BY <1>1, <1>4, <2>10, CancelEffect DEF GoesTo
  <2>11. CASE JoinThreads \/ Finish
    BY <1>1, <1>3, <1>4, <2>11, JoinEffect, FinishEffect
  <2>12. QED
    BY <1>10, <2>3, <2>4, <2>5, <2>6, <2>7, <2>8, <2>9, <2>10, <2>11 DEF ReducerActs
<1>11. QED BY <1>1, <1>5, <1>6, <1>7, <1>8, <1>9, <1>10, Cases

\* Once the reducer has an outcome it keeps it, and its findings, unless it
\* turns into an error.
LEMMA OutcomeStays ==
    ASSUME IInv, ReducerActs
    PROVE  /\ reducer.outcome # "none" =>
                  /\ SameFindings(run', run)
                  /\ reducer'.outcome = reducer.outcome \/ reducer'.outcome = "Err"
           /\ reducer.outcome = "none" /\ reducer'.outcome \notin {"none", "Err"} =>
                  /\ SameFindings(run', run)
                  /\ reducer.pc \in {"control", "recv", "persist", "conclude"}
<1>1. TypeOK /\ ReducerAt
  BY DEF IInv
<1>2. CASE ReducerControl
  BY <1>1, <1>2, ControlEffect DEF ReducerAt, Reducing, ReducerListens, GoesTo, Returns
<1>3. CASE ReducerReceive \/ ReducerDrain \/ ReducerConclude
  <2>1. run' = run /\ reducer.pc \in {"recv", "drain", "conclude"}
          /\ (reducer.pc = "drain" => reducer'.outcome \in {reducer.outcome, "Err"})
    BY <1>1, <1>3, ReceiveEffect, DrainEffect, ConcludeEffect DEF GoesTo, Returns
  <2>2. QED BY <1>1, <2>1 DEF ReducerAt, Reducing, ReducerListens, SameFindings
<1>4. CASE RecordEvent \/ AdvanceChunk
  <2>1. reducer.pc = "record" /\ reducer'.outcome \in {reducer.outcome, "Err"}
    BY <1>4, RecordEffect, AdvanceEffect DEF GoesTo, Returns
  <2>2. QED BY <1>1, <2>1 DEF ReducerAt, Reducing, ReducerListens
<1>5. CASE PersistBest
  BY <1>1, <1>5, PersistEffect
     DEF ReducerAt, Reducing, ReducerListens, SameFindings, GoesTo, Returns
<1>6. CASE CancelWaiters \/ JoinThreads
  BY <1>1, <1>6, CancelEffect, JoinEffect DEF SameFindings, GoesTo
<1>7. CASE Finish
  BY <1>1, <1>7, FinishEffect
<1>8. QED BY <1>2, <1>3, <1>4, <1>5, <1>6, <1>7 DEF ReducerActs

\* Only the conclusion reports a limit or an exhausted source, only a recorded
\* match a perfect one.
LEMMA OutcomeArises ==
    ASSUME IInv, ReducerActs, reducer.outcome = "none"
    PROVE  /\ reducer'.outcome = "LimitReached" =>
                  setup.limit # NoBound /\ run.scanned - session.scanned >= setup.limit
           /\ reducer'.outcome = "PerfectFound" => MatchEndsSearch
           /\ reducer'.outcome = "SourceExhausted" =>
                  /\ reducer.pc = "conclude" /\ ~stop
                  /\ ~(setup.maxOffset # NoBound /\ run.offset >= setup.maxOffset)
                  /\ ~(setup.limit # NoBound /\ run.scanned - session.scanned >= setup.limit)
<1>1. TypeOK
  BY DEF IInv
<1>2. CASE ReducerControl \/ ReducerReceive
  <2>1. reducer'.outcome \in {"none", "Interrupted", "Err"}
    BY <1>1, <1>2, ControlEffect, ReceiveEffect DEF GoesTo, Returns
  <2>2. QED BY <2>1
<1>3. CASE ReducerDrain \/ RecordEvent \/ AdvanceChunk
  <2>1. reducer'.outcome \in {"none", "Err"}
    BY <1>1, <1>3, DrainEffect, RecordEffect, AdvanceEffect DEF GoesTo, Returns
  <2>2. QED BY <2>1
<1>4. CASE PersistBest
  BY <1>1, <1>4, PersistEffect DEF GoesTo, Returns
<1>5. CASE ReducerConclude
  <2>1. CASE Returns("Interrupted") \/ Returns("MaxOffsetReached") \/ Returns("Err")
    BY <2>1 DEF Returns
  <2>2. CASE Returns("LimitReached")
    BY <1>1, <1>5, <2>2, ConcludeEffect DEF Returns
  <2>3. CASE Returns("SourceExhausted")
    BY <1>1, <1>5, <2>3, ConcludeEffect DEF Returns
  <2>4. QED BY <1>1, <1>5, <2>1, <2>2, <2>3, ConcludeEffect
<1>6. CASE CancelWaiters \/ JoinThreads \/ Finish
  <2>1. reducer'.outcome \in {"none", "Err"}
    BY <1>1, <1>6, CancelEffect, JoinEffect, FinishEffect DEF GoesTo
  <2>2. QED BY <2>1
<1>7. QED BY <1>2, <1>3, <1>4, <1>5, <1>6 DEF ReducerActs

LEMMA BoundsStayTold ==
    ASSUME IInv, [Next]_vars
    PROVE  BoundsTold'
<1>1. TypeOK /\ BoundsTold /\ CountsAgree
  BY DEF IInv, EndsAreTold
<1>2. CASE Quiet
  BY <1>1, <1>2 DEF Quiet, BoundsTold
<1>3. CASE Start \/ Crash
  BY <1>1, <1>3, StartEffect, CrashEffect DEF BoundsTold
<1>4. CASE ProducerActs \/ BackendActs
  <2>1. UNCHANGED <<setup, session, run, reducer>>
    BY <1>1, <1>4, ProducerEffect, BackendEffect, Frames
  <2>2. QED BY <1>1, <2>1 DEF BoundsTold
<1>5. CASE ReducerActs
  <2>1. UNCHANGED <<setup, session>>
    BY <1>5, ReducerMoves
  <2>2. CASE reducer.outcome # "none"
    BY <1>1, <1>5, <2>1, <2>2, OutcomeStays DEF BoundsTold, SameFindings
  <2>3. CASE reducer.outcome = "none" /\ reducer'.outcome = "LimitReached"
    <3>1. /\ setup.limit # NoBound /\ run.scanned - session.scanned >= setup.limit
          /\ run'.scanned = run.scanned
      BY <1>5, <2>3, OutcomeStays, OutcomeArises DEF SameFindings
    <3>2. /\ run.offset <= session.offset + setup.limit
          /\ run.scanned = run.offset /\ session.scanned = session.offset
      BY <1>1, <3>1 DEF CountsAgree
    <3>3. setup.limit \in Nat /\ run.offset \in Nat /\ session.offset \in Nat
      BY <1>1, <3>1, SetupIs, FieldTypes
    <3>4. QED BY <2>1, <2>3, <3>1, <3>2, <3>3 DEF BoundsTold
  <2>4. CASE reducer.outcome = "none" /\ reducer'.outcome = "PerfectFound"
    BY <1>5, <2>1, <2>4, OutcomeStays, OutcomeArises DEF SameFindings, BoundsTold, MatchEndsSearch
  <2>5. CASE reducer'.outcome \notin {"LimitReached", "PerfectFound"}
    BY <2>5 DEF BoundsTold
  <2>6. QED BY <2>2, <2>3, <2>4, <2>5
<1>6. QED BY <1>1, <1>2, <1>3, <1>4, <1>5, Cases

LEMMA ExhaustionStaysTold ==
    ASSUME IInv, [Next]_vars
    PROVE  ExhaustionTold'
<1>1. /\ TypeOK /\ ExhaustionTold /\ CountsAgree
      /\ producer.offset \in Nat /\ session.offset \in Nat /\ run.offset \in Nat
  BY FieldTypes DEF IInv, EndsAreTold
<1>2. CASE Quiet
  BY <1>1, <1>2 DEF Quiet, ExhaustionTold, Running
<1>3. CASE Start
  BY <1>1, <1>3, StartEffect DEF ExhaustionTold
<1>4. CASE Crash
  BY <1>1, <1>4, CrashEffect DEF ExhaustionTold
<1>5. CASE ProducerActs
  <2>1. UNCHANGED <<setup, reducer>> /\ producer.pc \notin {"done", "failed"}
    BY <1>5, ProducerEffect, Frames
       DEF ProducerGoesOn, ProducerCuts, ProducerReserves, ProducerHandsOver
  <2>2. QED BY <1>1, <2>1 DEF ExhaustionTold, Running
<1>6. CASE BackendActs
  <2>1. UNCHANGED <<setup, published, run, reducer, producer>>
    BY <1>1, <1>6, BackendEffect, Frames
  <2>2. QED BY <1>1, <2>1 DEF ExhaustionTold, Running
<1>7. CASE ReducerActs
  <2>1. UNCHANGED <<setup, published, producer>> /\ Running
    BY <1>7, ReducerMoves, StopStays
  <2>2. SUFFICES ASSUME reducer'.outcome = "SourceExhausted", producer.pc # "failed",
                        "rebuild" \notin setup.faults
                 PROVE  /\ producer.pc = "done" /\ ~setup.growing
                        /\ run'.offset + WindowLen > published
    BY <2>1 DEF ExhaustionTold
  <2>3. CASE reducer.outcome # "none"
    BY <1>1, <1>7, <2>1, <2>2, <2>3, OutcomeStays DEF ExhaustionTold, SameFindings
  <2>4. CASE reducer.outcome = "none"
    <3>1. /\ run'.offset = run.offset /\ reducer.pc = "conclude" /\ ~stop
          /\ ~(setup.maxOffset # NoBound /\ run.offset >= setup.maxOffset)
          /\ ~(setup.limit # NoBound /\ run.scanned - session.scanned >= setup.limit)
      BY <1>7, <2>2, <2>4, OutcomeStays, OutcomeArises DEF SameFindings
    <3>2. run.offset = producer.offset /\ producer.pc = "done" /\ NothingLeft
      BY <2>2, <3>1, StreamEnded
    <3>3. producer.scanned = run.scanned
      BY <1>1, <3>2 DEF CountsAgree
    <3>4. ~BoundReached
      BY <3>1, <3>2, <3>3 DEF BoundReached
    <3>5. QED BY <3>1, <3>2, <3>4 DEF NothingLeft
  <2>5. QED BY <2>3, <2>4
<1>8. QED BY <1>1, <1>2, <1>3, <1>4, <1>5, <1>6, <1>7, Cases

LEMMA NoMatchStays ==
    ASSUME IInv, [Next]_vars
    PROVE  NoMatchYet'
<1>1. /\ TypeOK /\ NoMatchYet /\ run.best \in 0..PerfectScore
      /\ row.best \in 0..PerfectScore /\ PerfectScore \in Nat \ {0}
  BY FieldTypes, SizesAssumption DEF IInv, EndsAreTold
<1>2. CASE Quiet
  BY <1>1, <1>2 DEF Quiet, NoMatchYet, Running, CleanStart
<1>3. CASE Start
  <2>1. /\ UNCHANGED score /\ session'.offset = row.offset /\ run'.best = row.best
    BY <1>1, <1>3, StartEffect DEF SameFindings
  <2>2. ASSUME CleanStart' PROVE row.best < PerfectScore
    <3>1. \A o \in 0..(row.offset - 1) : score[o] < PerfectScore
      BY <2>1, <2>2 DEF CleanStart
    <3>2. CASE row.bestAt = NoBound
      BY <1>1, <3>2 DEF IInv, BestsAreReal, RealBest
    <3>3. CASE row.bestAt # NoBound
      <4>1. row.bestAt \in Nat /\ row.offset \in Nat
        BY <1>1, <3>3, FieldTypes, SizesAssumption DEF Offsets
      <4>2. row.bestAt < row.offset /\ row.best = score[row.bestAt]
        BY <3>3 DEF IInv, BestsAreReal, RealBest
      <4>3. QED BY <3>1, <4>1, <4>2
    <3>4. QED BY <3>2, <3>3
  <2>3. QED BY <2>1, <2>2 DEF NoMatchYet
<1>4. CASE Crash
  BY <1>1, <1>4, CrashEffect DEF NoMatchYet, Running
<1>5. CASE ProducerActs \/ BackendActs
  <2>1. UNCHANGED <<score, session, run, reducer>>
    BY <1>1, <1>5, ProducerEffect, BackendEffect, Frames
  <2>2. QED BY <1>1, <2>1 DEF NoMatchYet, Running, CleanStart
<1>6. CASE ReducerActs
  <2>1. UNCHANGED <<score, session>> /\ Running
    BY <1>6, ReducerMoves, StopStays
  <2>2. CleanStart' = CleanStart
    BY <2>1 DEF CleanStart
  <2>3. CASE RecordEvent
    <3>1. reducer'.pc = "persist" \/ reducer'.outcome = "Err"
      BY <2>3, RecordEffect DEF GoesTo, Returns
    <3>2. QED BY <3>1 DEF NoMatchYet
  <2>4. CASE PersistBest
    <3>1. run' = run /\ (~MatchEndsSearch \/ reducer'.outcome \in {"PerfectFound", "Err"})
      BY <1>1, <2>4, PersistEffect DEF Returns
    <3>2. QED BY <1>1, <2>1, <3>1 DEF NoMatchYet, MatchEndsSearch
  <2>5. CASE ~RecordEvent /\ ~PersistBest
    <3>1. run'.best = run.best /\ reducer.pc # "persist"
            /\ (reducer.outcome \in {"Err", "PerfectFound"} =>
                    reducer'.outcome \in {"Err", "PerfectFound"})
      <4>1. CASE ReducerControl \/ Finish
        BY <1>1, <4>1, <1>6, OutcomeStays, ControlEffect, FinishEffect DEF SameFindings
      <4>2. CASE ReducerReceive \/ ReducerDrain \/ AdvanceChunk \/ ReducerConclude
        BY <1>1, <4>2, <1>6, OutcomeStays, ReceiveEffect, DrainEffect, AdvanceEffect, ConcludeEffect
      <4>3. CASE CancelWaiters \/ JoinThreads
        BY <1>1, <4>3, <1>6, OutcomeStays, CancelEffect, JoinEffect
      <4>4. QED BY <1>6, <2>5, <4>1, <4>2, <4>3 DEF ReducerActs
    <3>2. QED BY <1>1, <2>1, <2>2, <3>1 DEF NoMatchYet
  <2>6. QED BY <2>3, <2>4, <2>5
<1>7. QED BY <1>1, <1>2, <1>3, <1>4, <1>5, <1>6, Cases

\* A running search's row has no terminal status.
LEMMA NotFinalYet ==
    ASSUME IInv, Running
    PROVE  row.status \notin {"PerfectFound", "SourceExhausted"}
  BY DEF IInv, RowFollowsRun

LEMMA NotFinalThen ==
    ASSUME IInv, [Next]_vars, Running'
    PROVE  row'.status \notin {"PerfectFound", "SourceExhausted"}
  BY RowKeepsFollowing DEF RowFollowsRun

LEMMA ExhaustedStaysScanned ==
    ASSUME IInv, [Next]_vars
    PROVE  ExhaustedMeansScanned'
<1>1. TypeOK /\ ExhaustedMeansScanned
  BY DEF IInv, EndsAreTold
<1>2. CASE Quiet
  BY <1>1, <1>2, NotFinalYet DEF Quiet, ExhaustedMeansScanned
<1>3. CASE Start
  BY <1>1, <1>3, StartEffect DEF ExhaustedMeansScanned
<1>4. CASE Crash
  BY <1>1, <1>4, CrashEffect DEF ExhaustedMeansScanned
<1>5. CASE ProducerActs \/ BackendActs
  <2>1. UNCHANGED <<setup, published, row>>
    BY <1>1, <1>5, ProducerEffect, BackendEffect, Frames
  <2>2. QED BY <1>1, <2>1 DEF ExhaustedMeansScanned
<1>6. CASE ReducerActs
  <2>1. UNCHANGED <<setup, published>> /\ Running
    BY <1>6, ReducerMoves, StopStays
  <2>2. CASE Running'
    BY <2>2, NotFinalThen DEF ExhaustedMeansScanned
  <2>3. CASE row' = row
    BY <1>1, <2>1, <2>3 DEF ExhaustedMeansScanned
  <2>4. CASE ~Running' /\ row' # row
    <3>1. Finish
      <4>1. CASE ReducerControl
        BY <1>1, <2>4, <4>1, ControlEffect DEF GoesTo, Returns, Running
      <4>2. CASE ReducerReceive \/ ReducerDrain \/ ReducerConclude \/ RecordEvent
        BY <1>1, <2>4, <4>2, ReceiveEffect, DrainEffect, ConcludeEffect, RecordEffect
      <4>3. CASE PersistBest \/ AdvanceChunk
        BY <1>1, <2>4, <4>3, PersistEffect, AdvanceEffect DEF GoesTo, Returns, Running
      <4>4. CASE CancelWaiters \/ JoinThreads
        BY <1>1, <2>4, <4>4, CancelEffect, JoinEffect
      <4>5. QED BY <1>6, <4>1, <4>2, <4>3, <4>4 DEF ReducerActs
    <3>2. /\ reducer.pc = "finish" /\ row' = run' /\ SameFindings(run', run)
          /\ run'.status = FinalStatus
      BY <1>1, <2>4, <3>1, FinishEffect
    <3>3. producer.pc = "done"
      BY <3>2 DEF IInv, ReducerAt
    <3>4. run'.status = "SourceExhausted" => reducer.outcome = "SourceExhausted"
      BY <3>2 DEF FinalStatus
    <3>5. QED
      BY <2>1, <3>2, <3>3, <3>4
         DEF IInv, EndsAreTold, ExhaustionTold, ExhaustedMeansScanned, SameFindings
  <2>5. QED BY <2>2, <2>3, <2>4
<1>7. QED BY <1>1, <1>2, <1>3, <1>4, <1>5, <1>6, Cases

LEMMA PerfectMatchStaysTold ==
    ASSUME IInv, [Next]_vars
    PROVE  PerfectMatchEndsRun'
<1>1. TypeOK /\ PerfectMatchEndsRun
  BY DEF IInv, EndsAreTold
<1>2. CASE Quiet
  BY <1>1, <1>2 DEF Quiet, PerfectMatchEndsRun
<1>3. CASE Start
  BY <1>1, <1>3, StartEffect DEF PerfectMatchEndsRun
<1>4. CASE Crash
  BY <1>1, <1>4, CrashEffect DEF PerfectMatchEndsRun, Finishes
<1>5. CASE ProducerActs \/ BackendActs
  <2>1. UNCHANGED <<score, session, row, reducer>>
    BY <1>1, <1>5, ProducerEffect, BackendEffect, Frames
  <2>2. QED BY <1>1, <2>1 DEF PerfectMatchEndsRun
<1>6. CASE ReducerActs
  <2>1. UNCHANGED <<score, session>> /\ Running
    BY <1>6, ReducerMoves, StopStays
  <2>2. CASE Finish /\ reducer'.outcome # "Err"
    <3>1. /\ reducer.pc = "finish" /\ row' = run' /\ SameFindings(run', run)
          /\ run'.status = FinalStatus /\ reducer'.outcome = reducer.outcome
      BY <1>1, <2>2, FinishEffect
    <3>2. row'.status = "PerfectFound" <=> reducer.outcome = "PerfectFound"
      BY <3>1 DEF FinalStatus
    <3>3. /\ RealBest(run) /\ run.best \in 0..PerfectScore /\ PerfectScore \in Nat \ {0}
          /\ run.offset \in Nat /\ Scored /\ run.offset <= MaxDigits /\ MaxDigits \in Nat
      BY <1>1, FieldTypes, SizesAssumption, SetupIs DEF IInv, BestsAreReal, CountsAgree
    <3>4. CASE reducer.outcome = "PerfectFound"
      <4>1. run.best >= PerfectScore
        BY <3>4 DEF IInv, EndsAreTold, BoundsTold
      <4>2. run.bestAt # NoBound
        BY <3>3, <4>1 DEF RealBest
      <4>3. run.bestAt \in Nat
        BY <1>1, <4>2, FieldTypes, SizesAssumption DEF Offsets
      <4>4. run.bestAt \in 0..(run.offset - 1) /\ score[run.bestAt] >= PerfectScore
        BY <3>3, <4>1, <4>2, <4>3 DEF RealBest
      <4>5. QED BY <2>1, <3>1, <3>2, <3>4, <4>4 DEF PerfectMatchEndsRun, SameFindings
    <3>5. CASE reducer.outcome # "PerfectFound"
      <4>1. ~session.keepGoing /\ CleanStart => run.best < PerfectScore
        <5>1. reducer.outcome # "Err"
          BY <3>1 DEF IInv, ReducerAt
        <5>2. QED BY <2>1, <3>1, <3>5, <5>1 DEF IInv, EndsAreTold, NoMatchYet
      <4>2. run.best < PerfectScore => ~\E o \in 0..(run.offset - 1) : score[o] >= PerfectScore
        <5>1. \A o \in 0..(run.offset - 1) : score[o] <= run.best /\ score[o] \in Nat
          BY <3>3 DEF RealBest, Scored, Offsets
        <5>2. QED BY <3>3, <5>1
      <4>3. QED
        BY <2>1, <3>1, <3>2, <3>5, <4>1, <4>2 DEF PerfectMatchEndsRun, SameFindings, CleanStart
    <3>6. QED BY <3>4, <3>5
  <2>3. CASE reducer'.outcome = "Err"
    BY <2>3 DEF PerfectMatchEndsRun, Finishes
  <2>4. CASE reducer'.outcome # "Err" /\ ~Finish
    <3>1. reducer'.pc # "off"
      <4>1. CASE ReducerControl \/ ReducerReceive \/ ReducerDrain
        BY <1>1, <4>1, ControlEffect, ReceiveEffect, DrainEffect DEF GoesTo, Returns
      <4>2. CASE RecordEvent \/ PersistBest \/ AdvanceChunk
        BY <1>1, <4>2, RecordEffect, PersistEffect, AdvanceEffect DEF GoesTo, Returns
      <4>3. CASE ReducerConclude \/ CancelWaiters \/ JoinThreads
        BY <1>1, <2>4, <4>3, ConcludeEffect, CancelEffect, JoinEffect DEF GoesTo, Returns
      <4>4. QED BY <1>6, <2>4, <4>1, <4>2, <4>3 DEF ReducerActs
    <3>2. QED BY <3>1 DEF PerfectMatchEndsRun
  <2>5. QED BY <2>2, <2>3, <2>4
<1>7. QED BY <1>1, <1>2, <1>3, <1>4, <1>5, <1>6, Cases

-----------------------------------------------------------------------------
(* The matches that are kept.                                              *)

LEMMA TopsStayBest ==
    ASSUME IInv, [Next]_vars
    PROVE  TopsAreBest'
<1>1. /\ TypeOK /\ TopsAreBest /\ Scored
      /\ run.offset \in Nat /\ row.offset \in Nat /\ reducer.next \in Nat
  BY SetupIs, FieldTypes DEF IInv
<1>2. setup' = setup
  BY <1>1, Cases, StartEffect, CrashEffect, ProducerEffect, BackendEffect, ReducerMoves, Frames
     DEF Quiet
<1>3. SUFFICES ASSUME SteadyMatches PROVE TopsAreBest'
  BY <1>2 DEF TopsAreBest, SteadyMatches
<1>4. /\ (reducer.outcome # "PerfectFound" /\ ~AtChunk)
            => run.top = BestOf(score, 0..(run.offset - 1))
      /\ AtChunk => \E found \in SUBSET Windows(reducer.chunk) :
                        run.top = BestOf(score, (0..(reducer.next - 1)) \cup found)
      /\ ~Running /\ row.status # "PerfectFound" =>
             row.top = BestOf(score, 0..(row.offset - 1))
      /\ Running => session.keepGoing \in setup.keepGoing
      /\ row.status = "PerfectFound" => FALSE \in setup.keepGoing
  BY <1>1, <1>3 DEF TopsAreBest
<1>6. CASE Quiet
  <2>1. UNCHANGED <<score, setup, row, session, run, reducer>>
    BY <1>6 DEF Quiet
  <2>2. QED BY <1>4, <2>1 DEF TopsAreBest, Running, AtChunk
<1>7. CASE Start
  <2>1. /\ score' = score /\ session'.keepGoing \in setup.keepGoing
        /\ row.status = "PerfectFound" => session'.keepGoing
        /\ run'.top = row.top /\ run'.offset = row.offset /\ row' = run'
        /\ run'.status = "Running" /\ reducer'.pc = "control" /\ ~Running
    BY <1>1, <1>7, StartEffect DEF SameFindings, Running
  <2>2. row.status # "PerfectFound"
    <3>1. SUFFICES ASSUME row.status = "PerfectFound" PROVE FALSE
      OBVIOUS
    <3>2. FALSE \in setup.keepGoing /\ TRUE \in setup.keepGoing
      <4>1. session'.keepGoing \in BOOLEAN
        BY <1>1, <2>1, SetupIs
      <4>2. QED BY <1>4, <2>1, <3>1, <4>1
    <3>3. setup.keepGoing = BOOLEAN
      BY <1>1, <3>2, SetupIs
    <3>4. QED BY <1>3, <3>3 DEF SteadyMatches
  <2>3. QED BY <1>2, <1>4, <2>1, <2>2 DEF TopsAreBest, Running, AtChunk
<1>8. CASE Crash
  BY <1>1, <1>3, <1>8, CrashEffect DEF SteadyMatches
<1>9. CASE ProducerActs \/ BackendActs
  <2>1. UNCHANGED <<score, row, session, run, reducer>>
    BY <1>1, <1>9, ProducerEffect, BackendEffect, Frames
  <2>2. QED BY <1>2, <1>4, <2>1 DEF TopsAreBest, Running, AtChunk
<1>10. CASE ReducerActs
  <2>1. /\ UNCHANGED <<score, session>> /\ Running
        /\ Running' => row'.status # "PerfectFound"
    BY <1>10, ReducerMoves, StopStays, NotFinalThen
  <2>2. reducer.outcome # "Err" /\ reducer'.outcome # "Err"
    BY <1>2, <1>3, NoErrorsArise DEF IInv, NoErrors, SteadyMatches
  <2>3. setup.faults = {}
    BY <1>3 DEF SteadyMatches
  <2>4. CASE ReducerControl \/ ReducerReceive \/ ReducerConclude \/ CancelWaiters \/ JoinThreads
    <3>1. SameFindings(run', run) /\ reducer.pc \notin {"record", "persist"}
            /\ reducer'.pc \notin {"record", "persist", "off"}
      <4>1. CASE ReducerControl \/ ReducerReceive
        BY <1>1, <4>1, ControlEffect, ReceiveEffect DEF GoesTo, Returns, SameFindings
      <4>2. CASE ReducerConclude \/ CancelWaiters \/ JoinThreads
        BY <1>1, <2>2, <4>2, ConcludeEffect, CancelEffect, JoinEffect
           DEF GoesTo, Returns, SameFindings
      <4>3. QED BY <2>4, <4>1, <4>2
    <3>2. reducer'.outcome # "PerfectFound" => reducer.outcome # "PerfectFound"
      BY <1>10, <2>2, OutcomeStays
    <3>3. QED
      BY <1>2, <1>4, <2>1, <3>1, <3>2
         DEF TopsAreBest, Running, AtChunk, SameFindings
  <2>5. CASE ReducerDrain
    <3>1. CASE GoesTo("control")
      <4>1. run' = run /\ reducer.pc = "drain"
        BY <2>5, DrainEffect
      <4>2. QED
        BY <1>2, <1>4, <2>1, <3>1, <4>1 DEF GoesTo, TopsAreBest, Running, AtChunk
    <3>2. CASE reducer'.pc = "record" /\ reducer'.next = reducer.next
      <4>1. run' = run /\ reducer.pc = "drain"
        BY <2>5, DrainEffect
      <4>2. run.top = BestOf(score, 0..(run.offset - 1)) /\ run.offset = reducer.next
        BY <1>4, <4>1 DEF AtChunk, IInv, ReducerAt, Reducing, ReducerListens
      <4>3. run'.top = BestOf(score', (0..(reducer'.next - 1)) \cup {})
        BY <2>1, <3>2, <4>1, <4>2
      <4>4. QED BY <1>2, <1>4, <2>1, <3>2, <4>3 DEF TopsAreBest, Running, AtChunk
    <3>3. CASE Returns("Err")
      BY <2>2, <3>3 DEF Returns
    <3>4. QED BY <2>5, <3>1, <3>2, <3>3, DrainEffect
  <2>6. CASE RecordEvent
    <3>1. /\ reducer.pc = "record" /\ run'.top = Best(run.top \cup {NextBest})
          /\ GoesTo("persist")
      BY <2>2, <2>3, <2>6, RecordEffect DEF Returns
    <3>2. PICK found \in SUBSET Windows(reducer.chunk) :
                    run.top = BestOf(score, (0..(reducer.next - 1)) \cup found)
      BY <1>4, <3>1 DEF AtChunk
    <3>3. NextBest \in Windows(reducer.chunk) /\ NextBest \in Offsets
      BY <2>6, RecordFinds
    <3> DEFINE A == (0..(reducer.next - 1)) \cup found
    <3>4. A \in SUBSET Offsets
      <4>1. /\ reducer.chunk \in ChunkType /\ GoodChunk(reducer.chunk)
            /\ reducer.next <= run.offset /\ run.offset <= MaxDigits /\ MaxDigits \in Nat
        BY <1>1, <3>1, FieldTypes, SizesAssumption
           DEF IInv, ChunksAreGood, ReducerAt, AtChunk, CountsAgree
      <4>2. 0..(reducer.next - 1) \in SUBSET Offsets
        BY <1>1, <4>1 DEF Offsets
      <4>3. Windows(reducer.chunk) \in SUBSET Offsets
        BY <1>1, <4>1, GoodChunkEnds
      <4>4. QED BY <4>2, <4>3
    <3>5. Best(run.top \cup {NextBest}) = Best(A \cup {NextBest})
      <4> HIDE DEF A
      <4>1. run.top = Best(A)
        BY <3>2, BestIs DEF A
      <4>2. QED BY <1>1, <3>3, <3>4, <4>1, BestOfMerge
    <3>6. A \cup {NextBest} = (0..(reducer.next - 1)) \cup (found \cup {NextBest})
      OBVIOUS
    <3>7. run'.top = BestOf(score, (0..(reducer.next - 1)) \cup (found \cup {NextBest}))
      BY <3>1, <3>5, <3>6, BestIs
    <3>8. PICK new \in SUBSET Windows(reducer.chunk) :
                    run'.top = BestOf(score, (0..(reducer.next - 1)) \cup new)
      BY <3>3, <3>7
    <3>9. run'.top = BestOf(score', (0..(reducer'.next - 1)) \cup new)
      BY <2>1, <3>1, <3>8 DEF GoesTo
    <3>10. QED BY <1>2, <1>4, <2>1, <3>1, <3>9 DEF GoesTo, TopsAreBest, Running, AtChunk
  <2>7. CASE PersistBest
    <3>1. run' = run /\ reducer.pc = "persist"
            /\ (Returns("PerfectFound") \/ GoesTo("record"))
      BY <1>1, <2>2, <2>3, <2>7, PersistEffect
    <3>2. CASE Returns("PerfectFound")
      BY <1>2, <1>4, <2>1, <3>2 DEF Returns, TopsAreBest, Running, AtChunk
    <3>3. CASE GoesTo("record")
      BY <1>2, <1>4, <2>1, <3>1, <3>3 DEF GoesTo, TopsAreBest, Running, AtChunk
    <3>4. QED BY <3>1, <3>2, <3>3
  <2>8. CASE AdvanceChunk
    <3>1. /\ reducer.pc = "record" /\ reducer'.pc = "drain"
          /\ run'.offset = ChunkEnd(reducer.chunk)
          /\ run'.top = MergedTop(run.top, reducer.chunk)
      BY <2>2, <2>3, <2>8, AdvanceEffect DEF Returns
    <3>2. PICK found \in SUBSET Windows(reducer.chunk) :
                    run.top = BestOf(score, (0..(reducer.next - 1)) \cup found)
      BY <1>4, <3>1 DEF AtChunk
    <3> DEFINE A == (0..(reducer.next - 1)) \cup found
               W == Windows(reducer.chunk)
    <3>3. /\ ChunkEnd(reducer.chunk) \in Nat /\ reducer.chunk.start = reducer.next
          /\ reducer.chunk \in ChunkType /\ GoodChunk(reducer.chunk)
      BY <2>8, AdvanceKeeps
    <3>4. A \in SUBSET Offsets /\ W \in SUBSET Offsets
      <4>1. 0..(reducer.next - 1) \in SUBSET Offsets
        <5>1. reducer.next <= MaxDigits /\ MaxDigits \in Nat
          BY <1>1, <3>3, GoodChunkEnds, SizesAssumption
        <5>2. QED BY <1>1, <5>1 DEF Offsets
      <4>2. W \in SUBSET Offsets
        BY <1>1, <3>3, GoodChunkEnds
      <4>3. QED BY <4>1, <4>2
    <3>5. A \cup W = 0..(ChunkEnd(reducer.chunk) - 1)
      <4>1. /\ W = reducer.next..(ChunkEnd(reducer.chunk) - 1)
            /\ reducer.next \in Nat /\ reducer.next < ChunkEnd(reducer.chunk)
        BY <1>1, <3>3, ChunkFields, GoodChunkEnds DEF Windows, ChunkEnd
      <4>2. found \in SUBSET (reducer.next..(ChunkEnd(reducer.chunk) - 1))
        BY <4>1
      <4> HIDE DEF W
      <4> QED BY <3>3, <4>1, <4>2, StretchesJoin
    <3>6. run'.top = Best(A \cup W)
      <4>1. run.top = Best(A) /\ run'.top = Best(run.top \cup Best(W))
        BY <3>1, <3>2, BestIs DEF MergedTop
      <4> HIDE DEF A, W
      <4>2. Best(W) \in SUBSET Offsets
        BY <3>4, BestIsSubset
      <4>3. run'.top = Best(A \cup Best(W))
        BY <1>1, <3>4, <4>1, <4>2, BestOfMerge
      <4>4. Best(Best(W) \cup A) = Best(W \cup A)
        BY <1>1, <3>4, BestOfMerge
      <4>5. A \cup Best(W) = Best(W) \cup A /\ A \cup W = W \cup A
        OBVIOUS
      <4>6. QED BY <4>3, <4>4, <4>5
    <3>7. run'.top = BestOf(score', 0..(run'.offset - 1))
      <4>1. run'.top = BestOf(score, 0..(run'.offset - 1))
        BY <3>1, <3>5, <3>6, BestIs
      <4>2. QED BY <2>1, <4>1
    <3>8. QED BY <1>2, <1>4, <2>1, <3>1, <3>7 DEF TopsAreBest, Running, AtChunk
  <2>9. CASE Finish
    <3>1. /\ reducer.pc = "finish" /\ reducer'.pc = "off" /\ SameFindings(run', run)
          /\ row' = run' /\ run'.status = FinalStatus /\ reducer'.outcome = reducer.outcome
      BY <1>1, <2>2, <2>3, <2>9, FinishEffect
    <3>2. row'.status = "PerfectFound" <=> reducer.outcome = "PerfectFound"
      BY <3>1 DEF FinalStatus
    <3>3. reducer.outcome = "PerfectFound" => FALSE \in setup.keepGoing
      <4>1. reducer.outcome = "PerfectFound" => ~session.keepGoing
        BY DEF IInv, EndsAreTold, BoundsTold
      <4>2. session.keepGoing \in BOOLEAN
        BY <1>1, FieldTypes
      <4>3. QED BY <1>4, <2>1, <4>1, <4>2
    <3>4. reducer.outcome # "PerfectFound" => run'.top = BestOf(score', 0..(run'.offset - 1))
      BY <1>4, <2>1, <3>1 DEF AtChunk, SameFindings
    <3>5. QED BY <1>2, <3>1, <3>2, <3>3, <3>4 DEF TopsAreBest, Running, AtChunk
  <2>10. QED BY <1>10, <2>4, <2>5, <2>6, <2>7, <2>8, <2>9 DEF ReducerActs
<1>11. QED BY <1>1, <1>6, <1>7, <1>8, <1>9, <1>10, Cases

-----------------------------------------------------------------------------
(* The invariant holds.                                                    *)

LEMMA InitiallyTyped ==
    ASSUME Init
    PROVE  TypeOK
<1>1. /\ setup \in Setups /\ score \in setup.tables
      /\ setup.initialDigits \in 0..MaxDigits /\ setup.maxCommands \in Nat
      /\ setup.maxInvocations \in Nat
  BY SetupsAssumption DEF Init
<1>2. FreshRow \in RowType
  BY SizesAssumption DEF FreshRow, RowType
<1>3. IdleReducer \in ReducerType /\ IdleProducer \in ProducerType /\ IdleBackend \in BackendType
  BY DEF IdleReducer, IdleProducer, IdleBackend, ReducerType, ProducerType, BackendType,
         NoChunk, ChunkType
<1>4. /\ published = setup.initialDigits /\ demand = 0 /\ generatorError = FALSE
      /\ row = FreshRow /\ run = FreshRow /\ history = <<>> /\ invocations = 0
      /\ session = [offset |-> 0, scanned |-> 0, keepGoing |-> FALSE]
      /\ reducer = IdleReducer /\ reorder = {} /\ producer = IdleProducer
      /\ backend = IdleBackend /\ chunks = <<>> /\ results = <<>>
      /\ stop = FALSE /\ cancelled = FALSE /\ inbox = <<>> /\ commandsSent = 0
  BY DEF Init
<1>5. session \in [offset : Nat, scanned : Nat, keepGoing : BOOLEAN]
  BY <1>4
<1>6. /\ history \in Seq([offset : Offsets, score : 0..PerfectScore])
      /\ chunks \in Seq(ChunkType) /\ results \in Seq(ChunkType) /\ inbox \in Seq(Commands)
      /\ reorder \subseteq ChunkType
  BY <1>4
<1>7. generatorError \in BOOLEAN /\ stop \in BOOLEAN /\ cancelled \in BOOLEAN
  BY <1>4
<1>8. /\ published \in 0..MaxDigits /\ demand \in Nat /\ invocations \in 0..setup.maxInvocations
      /\ commandsSent \in 0..setup.maxCommands
  BY <1>1, <1>4
<1>9. /\ row \in RowType /\ run \in RowType
      /\ reducer \in ReducerType /\ producer \in ProducerType /\ backend \in BackendType
  BY <1>2, <1>3, <1>4
<1>10. QED BY <1>1, <1>5, <1>6, <1>7, <1>8, <1>9 DEF TypeOK

LEMMA InitiallySo ==
    ASSUME Init
    PROVE  IInv
<1>1. TypeOK
  BY InitiallyTyped
<1>2. /\ reducer.pc = "off" /\ reducer.outcome = "none" /\ reorder = {}
      /\ producer.pc = "done" /\ producer.offset = 0 /\ producer.scanned = 0
      /\ backend.pc = "done" /\ chunks = <<>> /\ results = <<>> /\ demand = 0
      /\ session.offset = 0 /\ session.scanned = 0
      /\ \A r \in {row, run} : /\ r.offset = 0 /\ r.scanned = 0 /\ r.best = 0
                               /\ r.bestAt = NoBound /\ r.top = {} /\ r.status = "Paused"
  BY DEF Init, IdleReducer, IdleProducer, IdleBackend, FreshRow
<1>3. ~Running /\ ~Reducing /\ ~AtChunk /\ ~BackendHolds
  BY <1>2 DEF Running, Reducing, ReducerListens, AtChunk, BackendHolds
<1>4. ChunksAreGood
  BY <1>2, <1>3 DEF ChunksAreGood
<1>5. CountsAgree
  <2>1. MaxDigits \in Nat /\ (setup.limit # NoBound => setup.limit \in Nat)
    BY <1>1, SizesAssumption, SetupIs
  <2>2. QED BY <1>2, <2>1 DEF CountsAgree
<1>6. ReducerAt
  BY <1>2, <1>3 DEF ReducerAt
<1>7. BestsAreReal
  BY <1>2 DEF BestsAreReal, RealBest, OnRecord
<1>8. RowFollowsRun /\ InOrder /\ ProducerDoneWhy
  BY <1>3 DEF RowFollowsRun, InOrder, ProducerDoneWhy
<1>9. NoErrors
  BY <1>2, <1>3 DEF NoErrors
<1>10. EndsAreTold
  BY <1>2, <1>3 DEF EndsAreTold, BoundsTold, ExhaustionTold, ExhaustedMeansScanned, NoMatchYet,
                    PerfectMatchEndsRun, Finishes
<1>11. TopsAreBest
  <2>1. BestOf(score, 0..(0 - 1)) = {}
    BY DEF BestOf
  <2>2. QED BY <1>2, <1>3, <2>1 DEF TopsAreBest
<1>12. QED
  BY <1>1, <1>4, <1>5, <1>6, <1>7, <1>8, <1>9, <1>10, <1>11 DEF IInv

LEMMA StepKeeps ==
    ASSUME IInv, [Next]_vars
    PROVE  IInv'
<1>1. TypeOK'
  <2>1. CASE Next
    BY <2>1, TypesKept
  <2>2. CASE UNCHANGED vars
    BY <2>2 DEF IInv, TypeOK, vars, sourceVars, storeVars, threadVars, signalVars
  <2>3. QED BY <2>1, <2>2
<1>2. ChunksAreGood' /\ CountsAgree' /\ ReducerAt'
  BY ChunksStayGood, CountsStayAgreed, ReducerStaysAt
<1>3. BestsAreReal' /\ RowFollowsRun'
  BY BestsStayReal, RowKeepsFollowing
<1>4. InOrder' /\ ProducerDoneWhy'
  BY OrderStays, ProducerDoneStaysSo
<1>5. NoErrors' /\ TopsAreBest'
  BY NoErrorsArise, TopsStayBest
<1>6. EndsAreTold'
  BY BoundsStayTold, ExhaustionStaysTold, ExhaustedStaysScanned, NoMatchStays, PerfectMatchStaysTold
     DEF EndsAreTold
<1>7. QED BY <1>1, <1>2, <1>3, <1>4, <1>5, <1>6 DEF IInv

\* The inductive invariant: in every reachable state the chunks between the
\* reducer and the producer are in order and the row trails the run record.
THEOREM Invariance == Spec => []IInv
<1>1. Init => IInv
  BY InitiallySo
<1>2. IInv /\ [Next]_vars => IInv'
  BY StepKeeps
<1>3. QED BY <1>1, <1>2, PTL DEF Spec

-----------------------------------------------------------------------------
(* What follows from it.                                                   *)

\* Of two adjacent chunks no window is in both.
LEMMA Apart ==
    ASSUME NEW c \in ChunkType, NEW d \in ChunkType,
           ChunkEnd(c) <= d.start \/ ChunkEnd(d) <= c.start
    PROVE  Windows(c) \cap Windows(d) = {}
  BY DEF ChunkType, ChunkEnd, Windows

LEMMA InFlightAreChunks ==
    ASSUME TypeOK
    PROVE  InFlight \in SUBSET ChunkType
<1>1. /\ chunks \in Seq(ChunkType) /\ results \in Seq(ChunkType) /\ reorder \in SUBSET ChunkType
      /\ producer.chunk \in ChunkType /\ backend.chunk \in ChunkType
      /\ reducer.chunk \in ChunkType
  BY FieldTypes DEF TypeOK
<1>2. /\ \A i \in DOMAIN chunks : chunks[i] \in ChunkType
      /\ \A i \in DOMAIN results : results[i] \in ChunkType
  BY <1>1
<1>3. QED BY <1>1, <1>2 DEF InFlight

LEMMA OrderTiles ==
    ASSUME IInv
    PROVE  InFlightTiles
<1> SUFFICES ASSUME reducer.pc \in {"control", "recv", "drain", "record", "persist"},
                    backend.pc \in {"recv", "search", "send"}
             PROVE  /\ (UNION {Windows(c) : c \in InFlight}) \cap 0..(producer.offset - 1)
                          = reducer.next..(producer.offset - 1)
                    /\ \A c, d \in InFlight : c # d => Windows(c) \cap Windows(d) = {}
  BY DEF InFlightTiles
<1> DEFINE first == reorder \cup (IF AtChunk THEN {reducer.chunk} ELSE {})
           second == {results[i] : i \in DOMAIN results}
           third == IF BackendHolds THEN {backend.chunk} ELSE {}
           fourth == {chunks[i] : i \in DOMAIN chunks}
           last == IF producer.pc = "send" THEN {producer.chunk} ELSE {}
           n == reducer.next
           e == producer.offset
<1>1. InFlight = first \cup second \cup third \cup fourth \cup last
  BY DEF InFlight, AtChunk, BackendHolds
<1>2. InFlight \in SUBSET ChunkType /\ n \in Nat /\ e \in Nat
  BY InFlightAreChunks, FieldTypes DEF IInv
<1>3. \A f \in InFlight : /\ f.start \in Nat /\ f.windows \in Nat /\ ChunkEnd(f) \in Nat
                          /\ f.start <= ChunkEnd(f) /\ Windows(f) = f.start..(ChunkEnd(f) - 1)
  BY <1>2, ChunkFields DEF ChunkType, ChunkEnd, Windows
<1>4. PICK a, b, c \in Nat : CutAt(a, b, c)
  BY DEF IInv, InOrder, Reducing, ReducerListens
<1>5. /\ \A f, g \in first : f = g
      /\ \A f \in first : f.start = n /\ ChunkEnd(f) = a
      /\ first = {} => n = a
  <2>1. AtChunk => reorder = {}
    BY DEF IInv, ReducerAt, AtChunk
  <2>2. CASE AtChunk
    BY <1>4, <2>1, <2>2 DEF IInv, ReducerAt, CutAt
  <2>3. CASE ~AtChunk
    BY <1>4, <2>3 DEF IInv, ReducerAt, CutAt
  <2>4. QED BY <2>2, <2>3
<1>6. n <= a
  <2>1. CASE first = {}
    BY <1>2, <1>5, <2>1
  <2>2. CASE first # {}
    <3>1. PICK f \in first : TRUE
      BY <2>2
    <3>2. f \in InFlight /\ f.start = n /\ ChunkEnd(f) = a
      BY <1>1, <1>5, <3>1
    <3>3. QED BY <1>3, <3>2
  <2>3. QED BY <2>1, <2>2
<1>7. /\ a <= b
      /\ \A f \in second : a <= f.start /\ ChunkEnd(f) <= b
      /\ \A f, g \in second : f # g => ChunkEnd(f) <= g.start \/ ChunkEnd(g) <= f.start
      /\ \A w \in a..(b - 1) : \E f \in second : w \in Windows(f)
  <2>1. Tiles(results, a, b) /\ results \in Seq(ChunkType)
    BY <1>4 DEF CutAt, IInv, TypeOK
  <2>2. \A i, j \in DOMAIN results : i = j \/ i < j \/ j < i
    BY <2>1
  <2>3. QED BY <2>1, <2>2 DEF Tiles
<1>8. /\ \A f, g \in third : f = g
      /\ \A f \in third : f.start = b /\ ChunkEnd(f) = c
      /\ third = {} => b = c
  BY <1>4 DEF CutAt, BackendHolds
<1>9. b <= c
  BY <1>1, <1>2, <1>3, <1>8
<1>10. /\ c <= e
       /\ \A f \in fourth : c <= f.start /\ ChunkEnd(f) <= e
       /\ \A f, g \in fourth : f # g => ChunkEnd(f) <= g.start \/ ChunkEnd(g) <= f.start
       /\ \A w \in c..(e - 1) : \E f \in fourth : w \in Windows(f)
  <2>1. Tiles(chunks, c, producer.offset) /\ chunks \in Seq(ChunkType)
    BY <1>4 DEF CutAt, IInv, TypeOK
  <2>2. \A i, j \in DOMAIN chunks : i = j \/ i < j \/ j < i
    BY <2>1
  <2>3. QED BY <2>1, <2>2 DEF Tiles
<1>11. \A f \in last : f.start = e /\ f = producer.chunk
  BY DEF IInv, ChunksAreGood
<1> HIDE DEF first, second, third, fourth, last, n, e
<1>12. \A f \in InFlight : n <= f.start
  BY <1>1, <1>2, <1>3, <1>5, <1>6, <1>7, <1>8, <1>9, <1>10, <1>11
<1>13. \A w \in n..(e - 1) : \E f \in InFlight : w \in Windows(f)
  <2> TAKE w \in n..(e - 1)
  <2>1. CASE w < a
    <3>1. PICK f \in first : TRUE
      BY <1>2, <1>5, <2>1
    <3>2. w \in Windows(f)
      BY <1>1, <1>2, <1>3, <1>5, <2>1, <3>1
    <3>3. QED BY <1>1, <3>1, <3>2
  <2>2. CASE a <= w /\ w < b
    BY <1>1, <1>2, <1>7, <2>2
  <2>3. CASE b <= w /\ w < c
    <3>1. PICK f \in third : TRUE
      BY <1>2, <1>8, <2>3
    <3>2. w \in Windows(f)
      BY <1>1, <1>2, <1>3, <1>8, <2>3, <3>1
    <3>3. QED BY <1>1, <3>1, <3>2
  <2>4. CASE c <= w
    BY <1>1, <1>2, <1>10, <2>4
  <2>5. QED BY <1>2, <2>1, <2>2, <2>3, <2>4
<1>14. (UNION {Windows(f) : f \in InFlight}) \cap 0..(e - 1) = n..(e - 1)
  <2> DEFINE covered == UNION {Windows(x) : x \in InFlight}
  <2>1. ASSUME NEW w \in n..(e - 1)
        PROVE  w \in covered /\ w \in 0..(e - 1)
    <3>1. PICK f \in InFlight : w \in Windows(f)
      BY <1>13
    <3>2. w \in 0..(e - 1)
      BY <1>2
    <3>3. w \in covered
      BY <3>1, Zenon
    <3>4. QED BY <3>2, <3>3
  <2>2. ASSUME NEW w \in 0..(e - 1), NEW f \in InFlight, w \in Windows(f)
        PROVE  w \in n..(e - 1)
    BY <1>2, <1>3, <1>12, <2>2
  <2>3. ASSUME NEW w \in covered, w \in 0..(e - 1)
        PROVE  w \in n..(e - 1)
    <3>1. PICK f \in InFlight : w \in Windows(f)
      BY Zenon
    <3>2. QED BY <2>2, <2>3, <3>1
  <2> HIDE DEF covered
  <2>4. covered \cap 0..(e - 1) = n..(e - 1)
    BY <2>1, <2>3
  <2>5. QED BY <2>4 DEF covered
<1>15. ASSUME NEW f \in InFlight, NEW g \in InFlight, f # g
       PROVE  Windows(f) \cap Windows(g) = {}
  <2>1. SUFFICES ChunkEnd(f) <= g.start \/ ChunkEnd(g) <= f.start
    BY <1>2, Apart
  <2> DEFINE Before(S, T) == \A x \in S, y \in T : ChunkEnd(x) <= y.start
  <2>2. /\ a \in Nat /\ b \in Nat /\ c \in Nat /\ e \in Nat /\ a <= b /\ b <= c /\ c <= e
        /\ \A x \in InFlight : ChunkEnd(x) \in Nat /\ x.start \in Nat
        /\ \A x \in first : ChunkEnd(x) = a
        /\ \A x \in second : a <= x.start /\ ChunkEnd(x) <= b
        /\ \A x \in third : x.start = b /\ ChunkEnd(x) = c
        /\ \A x \in fourth : c <= x.start /\ ChunkEnd(x) <= e
        /\ \A x \in last : x.start = e
    BY <1>2, <1>3, <1>5, <1>7, <1>8, <1>9, <1>10, <1>11
  <2>3. /\ first \in SUBSET InFlight /\ second \in SUBSET InFlight /\ third \in SUBSET InFlight
        /\ fourth \in SUBSET InFlight /\ last \in SUBSET InFlight
    BY <1>1
  <2>4. /\ Before(first, second) /\ Before(first, third)
        /\ Before(first, fourth) /\ Before(first, last)
    BY <2>2, <2>3
  <2>5. /\ Before(second, third) /\ Before(second, fourth) /\ Before(second, last)
    BY <2>2, <2>3
  <2>6. Before(third, fourth) /\ Before(third, last) /\ Before(fourth, last)
    BY <2>2, <2>3
  <2>7. /\ f \in first \cup second \cup third \cup fourth \cup last
        /\ g \in first \cup second \cup third \cup fourth \cup last
    BY <1>1
  <2>8. /\ ~(f \in first /\ g \in first) /\ ~(f \in third /\ g \in third)
        /\ ~(f \in last /\ g \in last)
    BY <1>5, <1>8, <1>11, <1>15
  <2> DEFINE OneEach(S, T) == (f \in S /\ g \in T) \/ (g \in S /\ f \in T)
             Sorted == ChunkEnd(f) <= g.start \/ ChunkEnd(g) <= f.start
  <2>10. /\ OneEach(first, second) => Sorted
         /\ OneEach(first, third) => Sorted
         /\ OneEach(first, fourth) => Sorted
         /\ OneEach(first, last) => Sorted
    BY <2>4
  <2>11. /\ OneEach(second, third) => Sorted
         /\ OneEach(second, fourth) => Sorted
         /\ OneEach(second, last) => Sorted
    BY <2>5
  <2>12. /\ OneEach(third, fourth) => Sorted
         /\ OneEach(third, last) => Sorted
         /\ OneEach(fourth, last) => Sorted
    BY <2>6
  <2>13. /\ f \in second /\ g \in second => Sorted
         /\ f \in fourth /\ g \in fourth => Sorted
    BY <1>7, <1>10, <1>15
  <2>14. QED BY <2>7, <2>8, <2>10, <2>11, <2>12, <2>13
<1>16. QED BY <1>14, <1>15 DEF n, e

\* The threads agree on what is on its way: state is well formed, and until a
\* stop or a lost backend the chunks in flight tile the windows from the
\* reducer's next one to the producer's next one, none lost and none twice.
THEOREM ThreadsAgree == Spec => []PipelineInvariant
<1>1. IInv => PipelineInvariant
  BY OrderTiles DEF IInv, PipelineInvariant
<1>2. QED BY <1>1, Invariance, PTL

\* Whatever a crash, a stop or an error leaves in the database is sound: no
\* better window was passed over, the best is real and on record, every window
\* is counted once, and without failures the matches shown are the best ones.
THEOREM ResultsSound == Spec => []ResultsAreSound
<1>1. ASSUME IInv PROVE ResumeMissesNothing /\ BestIsOnRecord /\ ScannedIsOffset
  BY <1>1 DEF IInv, BestsAreReal, RealBest, OnRecord, CountsAgree, ResumeMissesNothing,
              BestIsOnRecord, ScannedIsOffset
<1>2. ASSUME IInv PROVE TopMatchesExact
  BY <1>2, BestIs DEF IInv, TopsAreBest, SteadyMatches, TopMatchesExact, AtChunk
<1>3. IInv => ResultsAreSound
  BY <1>1, <1>2 DEF ResultsAreSound, RowIsSound
<1>4. QED BY <1>3, Invariance, PTL

\* A search ends for the reason it reports: a limit is met exactly and nothing
\* past the last offset is scored, an exhausted source was scanned to its end, a
\* perfect match ends the run, and nothing but a failure makes an error.
THEOREM EndsTold == Spec => []EndsForItsReason
<1>1. ASSUME IInv PROVE BoundsExact
  <2>1. reducer.outcome = "LimitReached" => run.scanned - session.scanned = setup.limit
    BY <1>1 DEF IInv, EndsAreTold, BoundsTold
  <2>2. ASSUME setup.maxOffset # NoBound, NEW c \in InFlight
        PROVE  c.start + c.windows <= Larger(setup.maxOffset, session.offset)
    <3>1. GoodChunk(c)
      BY <1>1 DEF IInv, ChunksAreGood, InFlight, BackendHolds, AtChunk
    <3>2. c.start + c.windows <= setup.maxOffset
      BY <2>2, <3>1 DEF GoodChunk, ChunkEnd
    <3>3. /\ setup.maxOffset \in Nat /\ session.offset \in Nat
          /\ c.start \in Nat /\ c.windows \in Nat
      BY <1>1, <2>2, SetupIs, FieldTypes, InFlightAreChunks, ChunkFields DEF IInv
    <3>4. QED BY <3>2, <3>3 DEF Larger
  <2>3. QED BY <2>1, <2>2 DEF BoundsExact
<1>2. ASSUME IInv PROVE ExhaustedMeansScanned /\ PerfectMatchEndsRun /\ EndsWithoutError
  BY <1>2 DEF IInv, EndsAreTold, NoErrors, EndsWithoutError
<1>3. IInv => EndsForItsReason
  BY <1>1, <1>2 DEF EndsForItsReason
<1>4. QED BY <1>3, Invariance, PTL

-----------------------------------------------------------------------------
(* The sequential scan.                                                    *)

\* A write that keeps the best is one of the scan's records, if it moves the
\* offset past nothing better.
LEMMA IsRecord ==
    ASSUME IInv, [Next]_vars, score' = score, row.status \in {"Running", "Paused"},
           row'.offset >= row.offset,
           \A p \in 0..(row'.offset - 1) : score[p] <= row.best,
           row'.best = row.best, row'.bestAt = row.bestAt,
           row'.status = "PerfectFound" => row.best >= PerfectScore
    PROVE  Scan!Record
<1>1. row'.scanned = row'.offset
  BY CountsStayAgreed DEF CountsAgree
<1>2. row' \in RowType
  BY StepKeeps DEF IInv, TypeOK
<1>3. row'.status \in {"Paused", "Running", "PerfectFound", "SourceExhausted"}
  BY <1>2 DEF RowType
<1>4. row.offset \in Nat /\ row'.offset \in Nat
  BY <1>2, FieldTypes DEF IInv, RowType
<1>5. Scan!NothingBetterBefore(row'.offset)
  BY <1>4 DEF Scan!NothingBetterBefore
<1>6. QED BY <1>1, <1>3, <1>5 DEF Scan!Record, Scan!Open

LEMMA ScanStep ==
    ASSUME IInv, [Next]_vars
    PROVE  [Scan!Next]_Scan!scanVars
<1>1. TypeOK /\ RealBest(run) /\ run.offset \in Nat /\ row.offset \in Nat
  BY FieldTypes DEF IInv, BestsAreReal
<1>2. score' = score /\ row' = row => UNCHANGED Scan!scanVars
  BY DEF Scan!scanVars
<1>3. CASE Quiet \/ ProducerActs \/ BackendActs
  BY <1>1, <1>2, <1>3, ProducerEffect, BackendEffect, Frames DEF Quiet
<1>4. CASE Crash
  BY <1>1, <1>2, <1>4, CrashEffect
<1>5. CASE Start
  <2>1. /\ score' = score /\ setup' = setup /\ row.status # "SourceExhausted"
        /\ session'.keepGoing \in setup.keepGoing
        /\ row.status = "PerfectFound" => session'.keepGoing
        /\ row'.offset = row.offset /\ row'.scanned = row.scanned
        /\ row'.best = row.best /\ row'.bestAt = row.bestAt /\ row'.status = "Running"
    BY <1>1, <1>5, StartEffect DEF SameFindings
  <2>2. row.status = "PerfectFound" => TRUE \in UNION {s.keepGoing : s \in Setups}
    <3>1. setup \in Setups /\ session'.keepGoing \in BOOLEAN
      BY <1>1, <2>1, SetupIs
    <3>2. QED BY <2>1, <3>1
  <2>3. row.scanned = row.offset
    BY DEF IInv, CountsAgree
  <2>4. Scan!NothingBetterBefore(row'.offset)
    BY <1>1, <2>1 DEF Scan!NothingBetterBefore
  <2>5. Scan!Record
    <3>1. Scan!Open
      BY <2>1, <2>2 DEF Scan!Open
    <3>2. row'.offset >= row.offset /\ row'.scanned = row'.offset
      BY <1>1, <2>1, <2>3
    <3>3. QED BY <2>1, <2>4, <3>1, <3>2 DEF Scan!Record
  <2>6. QED BY <2>5 DEF Scan!Next
<1>6. CASE ReducerActs
  <2>1. score' = score /\ Running /\ RowFollowsRun
    BY <1>6, ReducerMoves, StopStays DEF IInv
  <2>2. row.status \in {"Running", "Paused"} /\ row.offset <= run.offset
    BY <2>1 DEF RowFollowsRun
  <2>3. CASE row' = row
    BY <1>2, <2>1, <2>3
  <2>4. CASE ReducerControl /\ row' = run'
    <3>1. /\ reducer.pc = "control" /\ reducer.outcome = "none" /\ SameFindings(run', run)
          /\ run'.status \in {run.status, "Paused", "Running"}
      BY <1>1, <2>4, ControlEffect DEF IInv, ReducerAt, Reducing, ReducerListens
    <3>2. /\ row.best = run.best /\ row.bestAt = run.bestAt
          /\ run.status \in {"Running", "Paused"}
      BY <2>1, <3>1 DEF RowFollowsRun
    <3>3. Scan!Record
      BY <1>1, <2>1, <2>2, <2>4, <3>1, <3>2, IsRecord DEF RealBest, SameFindings
    <3>4. QED BY <3>3 DEF Scan!Next
  <2>5. CASE PersistBest /\ row' = run
    <3>1. reducer.pc = "persist"
      BY <1>1, <2>5, PersistEffect
    <3>2. /\ run.bestAt # NoBound /\ run.offset = run.bestAt + 1
          /\ row.offset <= run.bestAt /\ run.best > row.best
          /\ \A p \in 0..(run.bestAt - 1) : score[p] <= row.best
          /\ run.status = row.status
      BY <2>1, <3>1 DEF RowFollowsRun, ReducerListens
    <3>3. /\ run.bestAt \in Offsets /\ run.bestAt \in Nat /\ run.best = score[run.bestAt]
          /\ run.scanned = run.offset
      BY <1>1, <3>2, FieldTypes, SizesAssumption DEF RealBest, IInv, CountsAgree, Offsets
    <3>4. Scan!NothingBetterBefore(row'.bestAt)
      BY <1>1, <2>5, <3>2, <3>3 DEF Scan!NothingBetterBefore
    <3>5. Scan!Open
      BY <2>2 DEF Scan!Open
    <3>6. /\ row'.bestAt >= row.offset /\ score[row'.bestAt] > row.best
      BY <1>1, <2>5, <3>2, <3>3
    <3>7. Scan!Improve
      BY <2>1, <2>5, <3>2, <3>3, <3>4, <3>5, <3>6 DEF Scan!Improve
    <3>8. QED BY <3>7 DEF Scan!Next
  <2>6. CASE AdvanceChunk /\ row' # row
    <3>1. /\ row'.offset = ChunkEnd(reducer.chunk) /\ row'.best = run.best
          /\ row'.bestAt = run.bestAt /\ row'.status = row.status
      BY <2>6, AdvanceEffect
    <3>2. /\ \A p \in 0..(ChunkEnd(reducer.chunk) - 1) : score[p] <= run.best
          /\ row.offset <= ChunkEnd(reducer.chunk)
          /\ row.best = run.best /\ row.bestAt = run.bestAt
      BY <1>1, <2>2, <2>6, AdvanceKeeps
    <3>3. Scan!Record
      BY <2>1, <2>2, <3>1, <3>2, IsRecord
    <3>4. QED BY <3>3 DEF Scan!Next
  <2>7. CASE Finish /\ row' = run'
    <3>1. reducer.pc = "finish" /\ SameFindings(run', run) /\ run'.status = FinalStatus
      BY <1>1, <2>7, FinishEffect
    <3>2. reducer.outcome # "Err"
      BY <3>1 DEF IInv, ReducerAt
    <3>3. row.best = run.best /\ row.bestAt = run.bestAt
      BY <2>1, <3>1, <3>2 DEF RowFollowsRun
    <3>4. run'.status = "PerfectFound" => run.best >= PerfectScore
      BY <3>1 DEF FinalStatus, IInv, EndsAreTold, BoundsTold
    <3>5. Scan!Record
      BY <1>1, <2>1, <2>2, <2>7, <3>1, <3>3, <3>4, IsRecord DEF RealBest, SameFindings
    <3>6. QED BY <3>5 DEF Scan!Next
  <2>8. QED
    BY <1>1, <1>6, <2>3, <2>4, <2>5, <2>6, <2>7, ControlEffect, ReceiveEffect, DrainEffect,
       RecordEffect, PersistEffect, ConcludeEffect, CancelEffect, JoinEffect, FinishEffect
       DEF ReducerActs
<1>7. QED BY <1>1, <1>3, <1>4, <1>5, <1>6, Cases

\* The run implements the sequential scan: whatever the threads, the commands and
\* the crashes do, the row is written as by one reader of one window after another.
THEOREM Sequential == Spec => ScansSequentially
<1>1. Init => Scan!Init
  <2>1. Init => score \in UNION {s.tables : s \in Setups}
    BY DEF Init
  <2>2. QED BY <2>1 DEF Init, FreshRow, Scan!Init
<1>2. IInv /\ [Next]_vars => [Scan!Next]_Scan!scanVars
  BY ScanStep
<1>3. QED BY <1>1, <1>2, Invariance, PTL DEF Spec, ScansSequentially, Scan!Spec
=============================================================================
