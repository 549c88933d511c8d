-------------------------- MODULE CacheWriterProofs --------------------------
(***************************************************************************)
(* Proofs about those who write the digit cache: what becomes of its       *)
(* digits (CacheGrowth), and the lock that keeps them apart (WriterLock).  *)
(*                                                                         *)
(* Of CacheGrowth: for any finite sets of searching and of generating      *)
(* processes, and any bounds, the cache holds pi under the conditions that *)
(* GuardedCacheHoldsPi names.  A lone writer's argument is in what it      *)
(* remembers: its count, its batch and its resident generator all go on    *)
(* where the cache ends.  The lock follows, in a section of its own.       *)
(***************************************************************************)
EXTENDS MCWriterLock, FiniteSetTheorems, SequenceTheorems, TLAPS

\* What the theorems assume of the constants.
UseAssumption ==
    /\ IsFiniteSet(Sessions) /\ IsFiniteSet(Commands)
    /\ InitialDigits \in Nat
    /\ GrowthSetups \subseteq SetupType

SessionType ==
    [pc : {"idle", "loop", "publish", "import", "failed"},
     current : Nat, target : Nat, high : Nat, batch : Seq(Nat),
     resident : BOOLEAN, position : Nat, cut : BOOLEAN, epochs : Nat, completed : Nat]

CommandType == [pc : {"idle", "append", "done"}, existing : Nat, target : Nat]

Typed ==
    /\ TypeOK
    /\ session \in [Sessions -> SessionType]
    /\ command \in [Commands -> CommandType]

\* An epoch is of a session that is there, and what it publishes is of its backend.
Backing ==
    \A s \in Sessions :
        /\ session[s].pc # "idle" => s \in Participants
        /\ session[s].pc = "publish" => setup.backend[s] \in {"chudnovsky", "spigot"}
        /\ session[s].pc = "import" => setup.backend[s] = "ycruncher"
        /\ session[s].resident => setup.backend[s] = "spigot"

\* An epoch never counts more than there is.
CountsFollow ==
    \A s \in Sessions :
        session[s].pc \in {"loop", "publish", "import"} => session[s].current <= Len(cache)

\* A command that has the lock has it alone, and counts what is there.
LockHolders ==
    /\ lock \subseteq setup.commands
    /\ \A c, d \in lock : c = d
    /\ \A c \in lock : command[c].existing = Len(cache)

\* What session s remembers goes on where the cache ends.
GoesOn(s) ==
    /\ session[s].pc \in {"loop", "publish", "import"} => session[s].current = Len(cache)
    /\ session[s].pc = "publish" =>
          session[s].batch = Run(Len(cache), Len(cache) + Len(session[s].batch))
    /\ session[s].resident =>
          session[s].position = Len(cache) + Len(session[s].batch)
LonerGoesOn == Alone /\ faults = 0 => \A s \in Participants : GoesOn(s)

IInv ==
    /\ Typed /\ Backing /\ CountsFollow /\ LockHolders /\ LonerGoesOn
    /\ EpochKeepsPromise /\ GuardedCacheHoldsPi

-----------------------------------------------------------------------------
\* Runs of digits.

\* A run is a sequence of numbers.
LEMMA RunIsSeq ==
    ASSUME NEW a \in Nat, NEW b \in Nat, a <= b
    PROVE  /\ Run(a, b) \in Seq(Nat)
           /\ Len(Run(a, b)) = b - a
           /\ \A k \in 1..(b - a) : Run(a, b)[k] = a + k
<1>1. b - a \in Nat
  OBVIOUS
<1>2. Run(a, b) = [k \in 1..(b - a) |-> a + k]
  BY DEF Run
<1>3. Run(a, b) \in [1..(b - a) -> Nat]
  BY <1>1, <1>2
<1>4. Run(a, b) \in Seq(Nat)
  BY <1>1, <1>3, SeqDef
<1>5. DOMAIN Run(a, b) = 1..(b - a) /\ DOMAIN Run(a, b) = 1..Len(Run(a, b))
  BY <1>3, <1>4, LenProperties
<1>6. Len(Run(a, b)) \in Nat
  BY <1>4, LenProperties
<1>7. Len(Run(a, b)) = b - a
  BY <1>1, <1>5, <1>6
<1> QED
  BY <1>2, <1>4, <1>7

\* Digits of pi that are followed by the next ones are digits of pi.
LEMMA PiGoesOn ==
    ASSUME NEW digits \in Seq(Nat), HoldsPi(digits), NEW m \in Nat, m >= Len(digits)
    PROVE  HoldsPi(digits \o Run(Len(digits), m))
<1> DEFINE n == Len(digits)
           longer == digits \o Run(n, m)
<1>1. n \in Nat
  BY LenProperties
<1>2. Run(n, m) \in Seq(Nat) /\ Len(Run(n, m)) = m - n
      /\ \A k \in 1..(m - n) : Run(n, m)[k] = n + k
  BY <1>1, RunIsSeq
<1>3. longer \in Seq(Nat) /\ Len(longer) = m
      /\ \A i \in 1..m : longer[i] = IF i <= n THEN digits[i] ELSE Run(n, m)[i - n]
  BY <1>1, <1>2, ConcatProperties
<1>4. \A i \in 1..n : digits[i] = i
  <2>1. digits = Run(0, n)
    BY DEF HoldsPi
  <2> QED
    <3>1. 0 \in Nat /\ 0 <= n /\ n - 0 = n
      BY <1>1
    <3>2. \A k \in 1..(n - 0) : Run(0, n)[k] = 0 + k
      BY <1>1, <3>1, RunIsSeq
    <3> QED
      BY <1>1, <2>1, <3>1, <3>2
<1>5. Run(0, m) \in Seq(Nat) /\ Len(Run(0, m)) = m /\ \A i \in 1..m : Run(0, m)[i] = i
  <2>1. 0 \in Nat /\ 0 <= m /\ m - 0 = m
    OBVIOUS
  <2>2. /\ Run(0, m) \in Seq(Nat) /\ Len(Run(0, m)) = m - 0
        /\ \A k \in 1..(m - 0) : Run(0, m)[k] = 0 + k
    BY <2>1, RunIsSeq
  <2> QED
    BY <2>1, <2>2
<1> HIDE DEF longer, n
<1>6. \A i \in 1..m : longer[i] = Run(0, m)[i]
  <2> SUFFICES ASSUME NEW i \in 1..m PROVE longer[i] = i
    BY <1>5
  <2>1. CASE i <= n
    BY <1>1, <1>3, <1>4, <2>1
  <2>2. CASE i > n
    <3>1. i - n \in 1..(m - n)
      BY <1>1, <2>2
    <3>2. Run(n, m)[i - n] = n + (i - n)
      BY <1>2, <3>1
    <3>3. longer[i] = Run(n, m)[i - n]
      BY <1>1, <1>3, <2>2
    <3> QED
      BY <1>1, <3>2, <3>3
  <2> QED
    BY <1>1, <2>1, <2>2
<1>7. longer = Run(0, m)
  BY <1>3, <1>5, <1>6, SeqEqual
<1> QED
  BY <1>3, <1>7 DEF HoldsPi, longer, n

\* A whole text that begins with the cache adds what makes it that text.
LEMMA ContinuationIsPi ==
    ASSUME cache \in Seq(Nat), NEW s \in Sessions, session[s].high \in Nat,
           NEW added \in Continuation(s)
    PROVE  added \in Seq(Nat) /\ HoldsPi(cache \o added)
<1> DEFINE source == Run(0, session[s].high)
<1>1. source \in Seq(Nat) /\ Len(source) = session[s].high
  <2>1. 0 \in Nat /\ 0 <= session[s].high /\ session[s].high - 0 = session[s].high
    OBVIOUS
  <2> QED
    BY <2>1, RunIsSeq
<1>2. /\ Len(source) >= Len(cache) /\ SubSeq(source, 1, Len(cache)) = cache
      /\ added = SubSeq(source, Len(cache) + 1, Len(source))
  BY DEF Continuation
<1>3. Len(cache) \in Nat
  BY LenProperties
<1> HIDE DEF source
<1>4. SubSeq(source, 1, Len(cache)) \o SubSeq(source, Len(cache) + 1, Len(source))
        = SubSeq(source, 1, Len(source))
  <2>1. /\ 1 \in 1..(Len(source) + 1) /\ Len(cache) \in (1 - 1)..Len(source)
        /\ Len(source) \in Len(cache)..Len(source)
    BY <1>1, <1>2, <1>3
  <2> QED
    BY <1>1, <2>1, ConcatAdjacentSubSeq
<1>5. cache \o added = source
  BY <1>1, <1>2, <1>4, SubSeqFull
<1>6. added \in Seq(Nat)
  <2>1. \A i \in (Len(cache) + 1)..Len(source) : source[i] \in Nat
    BY <1>1, <1>3, ElementOfSeq
  <2> QED
    BY <1>1, <1>2, <1>3, <2>1, SubSeqProperties
<1> QED
  BY <1>1, <1>5, <1>6 DEF HoldsPi, source

-----------------------------------------------------------------------------
\* Who is there.

\* A lone process is alone: two sessions are one, and with a session there is
\* no command.
LEMMA AloneMeansOne ==
    ASSUME UseAssumption, setup \in SetupType, Alone, NEW s \in Participants
    PROVE  /\ \A t \in Participants : t = s
           /\ setup.commands = {}
<1>1. /\ Participants \subseteq Sessions /\ IsFiniteSet(Participants)
      /\ setup.commands \subseteq Commands /\ IsFiniteSet(setup.commands)
  BY FS_Subset DEF UseAssumption, Participants, SetupType
<1>2. Cardinality(Participants) \in Nat /\ Cardinality(setup.commands) \in Nat
  BY <1>1, FS_CardinalityType
<1>3. Participants # {} /\ Cardinality(Participants) # 0
  BY <1>1, FS_EmptySet
<1>4. Cardinality(Participants) = 1 /\ Cardinality(setup.commands) = 0
  BY <1>2, <1>3 DEF Alone
<1>5. setup.commands = {}
  BY <1>1, <1>4, FS_EmptySet
<1>6. PICK x : Participants = {x}
  BY <1>1, <1>4, FS_Singleton
<1> QED
  BY <1>5, <1>6
-----------------------------------------------------------------------------
\* What each action of a session makes of it.

\* What is known of a session before its step.
LEMMA SessionKnown ==
    ASSUME Typed, NEW s \in Sessions
    PROVE  /\ session[s] \in SessionType
           /\ session[s].current \in Nat /\ session[s].target \in Nat
           /\ session[s].high \in Nat /\ session[s].position \in Nat
           /\ session[s].completed \in Nat /\ session[s].resident \in BOOLEAN
           /\ session[s].batch \in Seq(Nat) /\ Len(session[s].batch) \in Nat
           /\ session[s].batch # <<>> => session[s].pc = "publish"
           /\ session[s].epochs \in 0..setup.maxEpochs
           /\ setup.maxEpochs \in Nat /\ setup.maxFaults \in Nat /\ setup.maxDigits \in Nat
           /\ cache \in Seq(Nat) /\ Len(cache) \in Nat
           /\ faults \in 0..setup.maxFaults
<1>1. session[s] \in SessionType /\ setup \in SetupType /\ cache \in Seq(Nat)
  BY DEF Typed, TypeOK
<1>2. session[s].batch \in Seq(Nat)
  BY <1>1 DEF SessionType
<1>3. Len(cache) \in Nat /\ Len(session[s].batch) \in Nat
  BY <1>1, <1>2, LenProperties
<1>4. /\ session[s].batch # <<>> => session[s].pc = "publish"
      /\ session[s].epochs \in 0..setup.maxEpochs
      /\ faults \in 0..setup.maxFaults
  BY DEF Typed, TypeOK
<1>5. setup.maxEpochs \in Nat /\ setup.maxFaults \in Nat /\ setup.maxDigits \in Nat
  BY <1>1 DEF SetupType
<1>6. /\ session[s].current \in Nat /\ session[s].target \in Nat
      /\ session[s].high \in Nat /\ session[s].position \in Nat
      /\ session[s].completed \in Nat /\ session[s].resident \in BOOLEAN
  BY <1>1 DEF SessionType
<1> QED
  BY <1>1, <1>2, <1>3, <1>4, <1>5, <1>6

\* The other sessions, the setup and what commands have stay as they are.
Apart(s) ==
    /\ session' \in [Sessions -> SessionType]
    /\ \A t \in Sessions \ {s} : session'[t] = session[t]
    /\ UNCHANGED <<setup, lock, command>>
\* Fields of session s that stay.
KeepsGenerator(s) ==
    /\ session'[s].resident = session[s].resident
    /\ session'[s].position = session[s].position
KeepsRecord(s) ==
    /\ session'[s].epochs = session[s].epochs
    /\ session'[s].completed = session[s].completed

\* One session is replaced.
LEMMA Replaced ==
    ASSUME Typed, NEW s \in Sessions, NEW r \in SessionType,
           session' = [session EXCEPT ![s] = r], UNCHANGED <<setup, lock, command>>
    PROVE  Apart(s) /\ session'[s] = r
BY DEF Typed, Apart

\* An epoch begins with the length of the cache.
LEMMA BeginEffect ==
    ASSUME Typed, NEW s \in Sessions, BeginEpoch(s)
    PROVE  /\ Apart(s) /\ KeepsGenerator(s) /\ UNCHANGED <<cache, faults>>
           /\ s \in Participants
           /\ session'[s].pc = "loop" /\ session'[s].current = Len(cache)
           /\ session'[s].batch = <<>>
           /\ session'[s].epochs \in 0..setup.maxEpochs
           /\ session'[s].completed = session[s].completed
<1>1. /\ session[s].pc = "idle" /\ setup.backend[s] # "none"
      /\ session[s].epochs < setup.maxEpochs
      /\ UNCHANGED <<setup, cache, lock, command, faults>>
  BY DEF BeginEpoch
<1>2. PICK target \in 1..setup.maxDigits :
        session' = [session EXCEPT ![s].pc = "loop", ![s].current = Len(cache),
                                   ![s].target = target, ![s].epochs = @ + 1]
  BY DEF BeginEpoch
<1>3. /\ session[s] \in SessionType /\ session[s].batch = <<>>
      /\ setup.maxEpochs \in Nat /\ setup.maxDigits \in Nat /\ Len(cache) \in Nat
      /\ session[s].epochs \in 0..setup.maxEpochs
  BY <1>1, SessionKnown
<1>4. /\ target \in Nat /\ session[s].epochs + 1 \in Nat
      /\ session[s].epochs + 1 \in 0..setup.maxEpochs
  BY <1>1, <1>3
<1> DEFINE r == [session[s] EXCEPT !.pc = "loop", !.current = Len(cache),
                                   !.target = target, !.epochs = @ + 1]
<1>5. session' = [session EXCEPT ![s] = r]
  BY <1>2 DEF Typed, SessionType
<1>6. r \in SessionType
  BY <1>3, <1>4 DEF SessionType
<1>7. /\ r.pc = "loop" /\ r.current = Len(cache) /\ r.batch = session[s].batch
      /\ r.epochs = session[s].epochs + 1 /\ r.completed = session[s].completed
      /\ r.resident = session[s].resident /\ r.position = session[s].position
  BY <1>3 DEF SessionType
<1> HIDE DEF r
<1>8. Apart(s) /\ session'[s] = r
  BY <1>1, <1>5, <1>6, Replaced
<1> QED
  BY <1>1, <1>3, <1>4, <1>7, <1>8 DEF KeepsGenerator, Participants

\* An epoch ends, with its target or cancelled.
LEMMA EndEffect ==
    ASSUME Typed, NEW s \in Sessions, EndEpoch(s) \/ Cancelled(s)
    PROVE  /\ Apart(s) /\ KeepsGenerator(s) /\ UNCHANGED <<cache, faults>>
           /\ session[s].pc = "loop"
           /\ session'[s].pc = "idle"
           /\ session'[s].batch = <<>>
           /\ session'[s].epochs = session[s].epochs
           /\ \/ session'[s].completed = session[s].completed
              \/ /\ session'[s].completed = session[s].target
                 /\ session[s].target <= session[s].current
<1>1. session[s].pc = "loop" /\ UNCHANGED <<setup, cache, lock, command, faults>>
  BY DEF EndEpoch, Cancelled
<1>2. /\ session[s] \in SessionType /\ session[s].batch = <<>>
      /\ session[s].target \in Nat /\ session[s].current \in Nat
      /\ session[s].completed \in Nat
  BY <1>1, SessionKnown
<1> DEFINE r(n) == [session[s] EXCEPT !.pc = "idle", !.cut = FALSE, !.completed = n]
<1>3. PICK n \in Nat :
        /\ session' = [session EXCEPT ![s] = r(n)]
        /\ n = session[s].completed \/ (n = session[s].target /\ n <= session[s].current)
  <2>1. CASE EndEpoch(s)
    <3>1. session' = [session EXCEPT ![s].pc = "idle", ![s].cut = FALSE,
                                     ![s].completed = session[s].target]
          /\ session[s].current >= session[s].target
      BY <2>1 DEF EndEpoch
    <3>2. session' = [session EXCEPT ![s] = r(session[s].target)]
      BY <3>1 DEF Typed, SessionType
    <3> QED
      BY <1>2, <3>1, <3>2
  <2>2. CASE Cancelled(s)
    <3>1. session' = [session EXCEPT ![s].pc = "idle", ![s].cut = FALSE]
      BY <2>2 DEF Cancelled
    <3>2. session' = [session EXCEPT
                         ![s] = [session[s] EXCEPT !.pc = "idle", !.cut = FALSE]]
      BY <3>1 DEF Typed, SessionType
    <3>3. [session[s] EXCEPT !.pc = "idle", !.cut = FALSE] = r(session[s].completed)
      BY <1>2 DEF SessionType
    <3> QED
      BY <1>2, <3>2, <3>3
  <2> QED
    BY <2>1, <2>2
<1>4. r(n) \in SessionType
  BY <1>2 DEF SessionType
<1>5. /\ r(n).pc = "idle" /\ r(n).batch = session[s].batch
      /\ r(n).epochs = session[s].epochs /\ r(n).completed = n
      /\ r(n).resident = session[s].resident /\ r(n).position = session[s].position
  BY <1>2 DEF SessionType
<1> HIDE DEF r
<1>6. Apart(s) /\ session'[s] = r(n)
  BY <1>1, <1>3, <1>4, Replaced
<1> QED
  BY <1>1, <1>2, <1>3, <1>5, <1>6 DEF KeepsGenerator

\* A batch that cannot be published is gone.
LEMMA FailEffect ==
    ASSUME Typed, NEW s \in Sessions, PublishFails(s)
    PROVE  /\ Apart(s) /\ KeepsGenerator(s) /\ KeepsRecord(s) /\ UNCHANGED cache
           /\ session[s].pc \in {"publish", "import"}
           /\ session'[s].pc \in {"idle", "failed"}
           /\ session'[s].batch = <<>>
           /\ faults' = faults + 1 /\ faults' \in 0..setup.maxFaults
<1>1. /\ session[s].pc \in {"publish", "import"}
      /\ faults < setup.maxFaults /\ faults' = faults + 1
      /\ UNCHANGED <<setup, cache, lock, command>>
  BY DEF PublishFails
<1>2. PICK place \in {"idle", "failed"} :
        session' = [session EXCEPT ![s].pc = place, ![s].batch = <<>>, ![s].cut = FALSE]
  BY DEF PublishFails
<1>3. /\ session[s] \in SessionType /\ <<>> \in Seq(Nat)
      /\ setup.maxFaults \in Nat /\ faults \in 0..setup.maxFaults
  BY SessionKnown, EmptySeq
<1>4. faults' \in 0..setup.maxFaults
  BY <1>1, <1>3
<1> DEFINE r == [session[s] EXCEPT !.pc = place, !.batch = <<>>, !.cut = FALSE]
<1>5. session' = [session EXCEPT ![s] = r]
  BY <1>2 DEF Typed, SessionType
<1>6. r \in SessionType
  BY <1>3 DEF SessionType
<1>7. /\ r.pc = place /\ r.batch = <<>>
      /\ r.epochs = session[s].epochs /\ r.completed = session[s].completed
      /\ r.resident = session[s].resident /\ r.position = session[s].position
  BY <1>3 DEF SessionType
<1> HIDE DEF r
<1>8. Apart(s) /\ session'[s] = r
  BY <1>1, <1>5, <1>6, Replaced
<1> QED
  BY <1>1, <1>4, <1>7, <1>8 DEF KeepsGenerator, KeepsRecord

\* The built-in generator takes what is beyond the count.
LEMMA ChudnovskyEffect ==
    ASSUME Typed, NEW s \in Sessions, Chudnovsky(s)
    PROVE  /\ Apart(s) /\ KeepsGenerator(s) /\ KeepsRecord(s)
           /\ UNCHANGED <<cache, faults>>
           /\ session[s].pc = "loop" /\ setup.backend[s] = "chudnovsky"
           /\ session'[s].pc = "publish" /\ session'[s].current = session[s].current
           /\ \E high \in Nat : /\ session[s].current <= high
                                /\ session'[s].batch = Run(session[s].current, high)
<1>1. /\ session[s].pc = "loop" /\ setup.backend[s] = "chudnovsky"
      /\ UNCHANGED <<setup, cache, lock, command, faults>>
  BY DEF Chudnovsky, NextBatch
<1>2. PICK high \in (session[s].current + 1)..setup.maxDigits :
        session' = [session EXCEPT ![s].pc = "publish",
                                   ![s].batch = Run(session[s].current, high)]
  BY DEF Chudnovsky
<1>3. /\ session[s] \in SessionType /\ session[s].current \in Nat
      /\ session[s].target \in Nat
  BY SessionKnown
<1>4. high \in Nat /\ session[s].current <= high
  BY <1>3
<1> DEFINE added == Run(session[s].current, high)
<1>5. added \in Seq(Nat)
  BY <1>3, <1>4, RunIsSeq
<1> HIDE DEF added
<1> DEFINE r == [session[s] EXCEPT !.pc = "publish", !.batch = added]
<1>6. session' = [session EXCEPT ![s] = r]
  BY <1>2 DEF Typed, SessionType, added
<1>7. r \in SessionType
  BY <1>3, <1>5 DEF SessionType
<1>8. /\ r.pc = "publish" /\ r.batch = added /\ r.current = session[s].current
      /\ r.epochs = session[s].epochs /\ r.completed = session[s].completed
      /\ r.resident = session[s].resident /\ r.position = session[s].position
  BY <1>3 DEF SessionType
<1> HIDE DEF r
<1>9. Apart(s) /\ session'[s] = r
  BY <1>1, <1>6, <1>7, Replaced
<1> QED
  BY <1>1, <1>4, <1>8, <1>9 DEF KeepsGenerator, KeepsRecord, added

\* The resident generator goes on from where it is, and remembers where it got.
LEMMA SpigotEffect ==
    ASSUME Typed, NEW s \in Sessions, Spigot(s)
    PROVE  /\ Apart(s) /\ KeepsRecord(s) /\ UNCHANGED <<cache, faults>>
           /\ session[s].pc = "loop" /\ setup.backend[s] = "spigot"
           /\ session'[s].pc = "publish" /\ session'[s].current = session[s].current
           /\ \E to \in Nat : /\ SpigotStart(s) <= to
                              /\ session'[s].batch = Run(SpigotStart(s), to)
                              /\ session'[s].position = to
<1> DEFINE from == SpigotStart(s)
<1>1. /\ session[s].pc = "loop" /\ setup.backend[s] = "spigot"
      /\ UNCHANGED <<setup, cache, lock, command, faults>>
  BY DEF Spigot, NextBatch
<1>2. PICK high \in HighWaters(s) :
        \E to \in from..(from + high - session[s].current) :
            session' = [session EXCEPT ![s].pc = "publish",
                                       ![s].batch = Run(from, to),
                                       ![s].resident = TRUE,
                                       ![s].cut = to < from + high - session[s].current,
                                       ![s].position = to]
  BY DEF Spigot
<1>3. PICK to \in from..(from + high - session[s].current) :
            session' = [session EXCEPT ![s].pc = "publish",
                                       ![s].batch = Run(from, to),
                                       ![s].resident = TRUE,
                                       ![s].cut = to < from + high - session[s].current,
                                       ![s].position = to]
  BY <1>2
<1>4. /\ session[s] \in SessionType /\ session[s].current \in Nat
      /\ session[s].target \in Nat /\ session[s].position \in Nat
  BY SessionKnown
<1>5. from \in Nat
  BY <1>4 DEF SpigotStart
<1> DEFINE cut == to < from + high - session[s].current
           added == Run(from, to)
<1> HIDE DEF from
<1>6. to \in Nat /\ from <= to /\ cut \in BOOLEAN
  BY <1>4, <1>5 DEF HighWaters
<1>7. added \in Seq(Nat)
  BY <1>5, <1>6, RunIsSeq
<1>8. session' = [session EXCEPT ![s].pc = "publish", ![s].batch = added,
                                 ![s].resident = TRUE, ![s].cut = cut,
                                 ![s].position = to]
  BY <1>3
<1> HIDE DEF cut, added
<1> DEFINE r == [session[s] EXCEPT !.pc = "publish", !.batch = added, !.resident = TRUE,
                                   !.cut = cut, !.position = to]
<1>9. session' = [session EXCEPT ![s] = r]
  BY <1>8 DEF Typed, SessionType
<1>10. r \in SessionType
  BY <1>4, <1>6, <1>7 DEF SessionType
<1>11. /\ r.pc = "publish" /\ r.batch = added /\ r.current = session[s].current
       /\ r.epochs = session[s].epochs /\ r.completed = session[s].completed
       /\ r.position = to
  BY <1>4 DEF SessionType
<1> HIDE DEF r
<1>12. Apart(s) /\ session'[s] = r
  BY <1>1, <1>9, <1>10, Replaced
<1> QED
  BY <1>1, <1>6, <1>11, <1>12 DEF KeepsRecord, added, from

\* A batch goes to the end of the cache.
LEMMA PublishEffect ==
    ASSUME Typed, NEW s \in Sessions, Publish(s)
    PROVE  /\ Apart(s) /\ KeepsGenerator(s) /\ KeepsRecord(s) /\ UNCHANGED faults
           /\ session[s].pc = "publish" /\ lock = {}
           /\ cache' = cache \o session[s].batch /\ cache' \in Seq(Nat)
           /\ Len(cache') = Len(cache) + Len(session[s].batch)
           /\ session'[s].pc = "loop" /\ session'[s].batch = <<>>
           /\ session'[s].current = session[s].current + Len(session[s].batch)
<1>1. /\ session[s].pc = "publish" /\ lock = {}
      /\ cache' = cache \o session[s].batch
      /\ UNCHANGED <<setup, lock, command, faults>>
      /\ session' = [session EXCEPT ![s].pc = "loop",
                                    ![s].current = @ + Len(session[s].batch),
                                    ![s].batch = <<>>]
  BY DEF Publish
<1>2. /\ session[s] \in SessionType /\ session[s].current \in Nat /\ <<>> \in Seq(Nat)
      /\ session[s].batch \in Seq(Nat) /\ Len(session[s].batch) \in Nat
      /\ cache \in Seq(Nat)
  BY SessionKnown, EmptySeq
<1>3. cache' \in Seq(Nat) /\ Len(cache') = Len(cache) + Len(session[s].batch)
  BY <1>1, <1>2, ConcatProperties
<1> DEFINE count == session[s].current + Len(session[s].batch)
<1>4. count \in Nat
  BY <1>2
<1> DEFINE r == [session[s] EXCEPT !.pc = "loop", !.current = count, !.batch = <<>>]
<1>5. session' = [session EXCEPT ![s] = r]
  BY <1>1 DEF Typed, SessionType
<1> HIDE DEF count
<1>6. r \in SessionType
  BY <1>2, <1>4 DEF SessionType
<1>7. /\ r.pc = "loop" /\ r.batch = <<>> /\ r.current = count
      /\ r.epochs = session[s].epochs /\ r.completed = session[s].completed
      /\ r.resident = session[s].resident /\ r.position = session[s].position
  BY <1>2 DEF SessionType
<1> HIDE DEF r
<1>8. Apart(s) /\ session'[s] = r
  BY <1>1, <1>5, <1>6, Replaced
<1> QED
  BY <1>1, <1>3, <1>7, <1>8 DEF KeepsGenerator, KeepsRecord, count

\* An external program is run, or not.
LEMMA YCruncherEffect ==
    ASSUME Typed, NEW s \in Sessions, YCruncher(s)
    PROVE  /\ Apart(s) /\ KeepsGenerator(s) /\ KeepsRecord(s)
           /\ UNCHANGED <<cache, faults>>
           /\ session[s].pc = "loop" /\ setup.backend[s] = "ycruncher"
           /\ session'[s].pc \in {"loop", "import"} /\ session'[s].batch = <<>>
           /\ session'[s].current = session[s].current
<1>1. /\ session[s].pc = "loop" /\ setup.backend[s] = "ycruncher"
      /\ UNCHANGED <<setup, cache, lock, command, faults>>
  BY DEF YCruncher, NextBatch
<1>2. PICK high \in HighWaters(s), place \in {"loop", "import"} :
        session' = [session EXCEPT ![s].pc = place, ![s].high = high]
  BY DEF YCruncher
<1>3. /\ session[s] \in SessionType /\ session[s].current \in Nat
      /\ session[s].target \in Nat /\ session[s].batch = <<>>
  BY <1>1, SessionKnown
<1>4. high \in Nat
  BY <1>3 DEF HighWaters
<1> DEFINE r == [session[s] EXCEPT !.pc = place, !.high = high]
<1>5. session' = [session EXCEPT ![s] = r]
  BY <1>2 DEF Typed, SessionType
<1>6. r \in SessionType
  BY <1>3, <1>4 DEF SessionType
<1>7. /\ r.pc = place /\ r.batch = session[s].batch /\ r.current = session[s].current
      /\ r.epochs = session[s].epochs /\ r.completed = session[s].completed
      /\ r.resident = session[s].resident /\ r.position = session[s].position
  BY <1>3 DEF SessionType
<1> HIDE DEF r
<1>8. Apart(s) /\ session'[s] = r
  BY <1>1, <1>5, <1>6, Replaced
<1> QED
  BY <1>1, <1>3, <1>7, <1>8 DEF KeepsGenerator, KeepsRecord

\* What was checked against the whole cache is added, or nothing is.
LEMMA ImportEffect ==
    ASSUME Typed, NEW s \in Sessions, Import(s)
    PROVE  /\ Apart(s) /\ KeepsGenerator(s) /\ KeepsRecord(s) /\ UNCHANGED faults
           /\ session[s].pc = "import" /\ lock = {}
           /\ session'[s].batch = <<>>
           /\ \/ session'[s].pc \in {"idle", "failed"} /\ UNCHANGED cache
              \/ \E added \in Seq(Nat) :
                    /\ session'[s].pc = "loop"
                    /\ session'[s].current = session[s].current + Len(added)
                    /\ cache' = cache \o added
                    /\ cache' \in Seq(Nat) /\ Len(cache') = Len(cache) + Len(added)
                    /\ HoldsPi(cache')
<1>1. /\ session[s].pc = "import" /\ lock = {}
      /\ UNCHANGED <<setup, lock, command, faults>>
  BY DEF Import
<1>2. /\ session[s] \in SessionType /\ session[s].current \in Nat
      /\ session[s].high \in Nat /\ session[s].batch = <<>> /\ cache \in Seq(Nat)
  BY <1>1, SessionKnown
<1>3. CASE Continuation(s) = {}
  <2>1. PICK place \in {"idle", "failed"} : session' = [session EXCEPT ![s].pc = place]
    BY <1>3 DEF Import
  <2>2. UNCHANGED cache
    BY <1>3 DEF Import
  <2> DEFINE r == [session[s] EXCEPT !.pc = place]
  <2>3. session' = [session EXCEPT ![s] = r]
    BY <2>1 DEF Typed, SessionType
  <2>4. r \in SessionType
    BY <1>2 DEF SessionType
  <2>5. /\ r.pc = place /\ r.batch = session[s].batch
        /\ r.epochs = session[s].epochs /\ r.completed = session[s].completed
        /\ r.resident = session[s].resident /\ r.position = session[s].position
    BY <1>2 DEF SessionType
  <2> HIDE DEF r
  <2>6. Apart(s) /\ session'[s] = r
    BY <1>1, <2>3, <2>4, Replaced
  <2> QED
    BY <1>1, <1>2, <2>2, <2>5, <2>6 DEF KeepsGenerator, KeepsRecord
<1>4. CASE Continuation(s) # {}
  <2>1. PICK added \in Continuation(s) :
           /\ cache' = cache \o added
           /\ session' = [session EXCEPT ![s].pc = "loop", ![s].current = @ + Len(added)]
    BY <1>4 DEF Import
  <2>2. added \in Seq(Nat) /\ HoldsPi(cache \o added)
    BY <1>2, ContinuationIsPi
  <2>3. cache' \in Seq(Nat) /\ Len(cache') = Len(cache) + Len(added)
    BY <1>2, <2>1, <2>2, ConcatProperties
  <2> DEFINE count == session[s].current + Len(added)
  <2>4. count \in Nat
    BY <1>2, <2>2, LenProperties
  <2> DEFINE r == [session[s] EXCEPT !.pc = "loop", !.current = count]
  <2>5. session' = [session EXCEPT ![s] = r]
    BY <2>1 DEF Typed, SessionType
  <2> HIDE DEF count
  <2>6. r \in SessionType
    BY <1>2, <2>4 DEF SessionType
  <2>7. /\ r.pc = "loop" /\ r.batch = session[s].batch /\ r.current = count
        /\ r.epochs = session[s].epochs /\ r.completed = session[s].completed
        /\ r.resident = session[s].resident /\ r.position = session[s].position
    BY <1>2 DEF SessionType
  <2> HIDE DEF r
  <2>8. Apart(s) /\ session'[s] = r
    BY <1>1, <2>5, <2>6, Replaced
  <2>9. HoldsPi(cache')
    BY <2>1, <2>2
  <2> QED
    BY <1>1, <1>2, <2>1, <2>2, <2>3, <2>7, <2>8, <2>9 DEF KeepsGenerator, KeepsRecord, count
<1> QED
  BY <1>3, <1>4

-----------------------------------------------------------------------------
\* A session's step preserves the invariant.

SessionActs(s) == BeginEpoch(s) \/ Cancelled(s) \/ PublishFails(s) \/ Epoch(s)

\* The actions of a session, one by one.
LEMMA ActionsOf ==
    ASSUME NEW s \in Sessions, SessionActs(s)
    PROVE  \/ BeginEpoch(s) \/ EndEpoch(s) \/ Cancelled(s) \/ PublishFails(s)
           \/ Chudnovsky(s) \/ Spigot(s) \/ Publish(s) \/ YCruncher(s) \/ Import(s)
BY Zenon DEF SessionActs, Epoch

\* Who is there, and who is alone, was chosen once.
LEMMA SameSetup ==
    ASSUME UNCHANGED setup
    PROVE  /\ Participants' = Participants
           /\ Alone' <=> Alone
           /\ Validated' <=> Validated
<1>1. Participants' = Participants
  BY DEF Participants
<1>2. Alone' <=> Alone
  BY <1>1 DEF Alone
<1>3. Validated' <=> Validated
  BY <1>1 DEF Validated
<1> QED
  BY <1>1, <1>2, <1>3

\* What every step of a session leaves in order.
LEMMA SessionInOrder ==
    ASSUME Typed, NEW s \in Sessions, SessionActs(s)
    PROVE  /\ Apart(s)
           /\ session'[s].batch # <<>> => session'[s].pc = "publish"
           /\ session'[s].epochs \in 0..setup.maxEpochs
           /\ cache' \in Seq(Nat) /\ Len(cache) <= Len(cache')
           /\ UNCHANGED cache \/ lock = {}
           /\ faults' \in 0..setup.maxFaults
<1>1. /\ session[s].epochs \in 0..setup.maxEpochs
      /\ cache \in Seq(Nat) /\ Len(cache) \in Nat /\ Len(session[s].batch) \in Nat
      /\ faults \in 0..setup.maxFaults
  BY SessionKnown
<1>2. CASE BeginEpoch(s)
  BY <1>1, <1>2, BeginEffect
<1>3. CASE EndEpoch(s) \/ Cancelled(s)
  BY <1>1, <1>3, EndEffect
<1>4. CASE PublishFails(s)
  BY <1>1, <1>4, FailEffect DEF KeepsRecord
<1>5. CASE Chudnovsky(s)
  BY <1>1, <1>5, ChudnovskyEffect DEF KeepsRecord
<1>6. CASE Spigot(s)
  BY <1>1, <1>6, SpigotEffect DEF KeepsRecord
<1>7. CASE Publish(s)
  BY <1>1, <1>7, PublishEffect DEF KeepsRecord
<1>8. CASE YCruncher(s)
  BY <1>1, <1>8, YCruncherEffect DEF KeepsRecord
<1>9. CASE Import(s)
  <2>1. /\ Apart(s) /\ KeepsRecord(s) /\ UNCHANGED faults
        /\ lock = {} /\ session'[s].batch = <<>>
    BY <1>9, ImportEffect
  <2>2. CASE UNCHANGED cache
    BY <1>1, <2>1, <2>2 DEF KeepsRecord
  <2>3. CASE cache' # cache
    <3>1. PICK added \in Seq(Nat) :
             cache' \in Seq(Nat) /\ Len(cache') = Len(cache) + Len(added)
      BY <1>9, <2>3, ImportEffect
    <3>2. Len(added) \in Nat
      BY <3>1, LenProperties
    <3> QED
      BY <1>1, <2>1, <3>1, <3>2 DEF KeepsRecord
  <2> QED
    BY <2>2, <2>3
<1> QED
  BY <1>2, <1>3, <1>4, <1>5, <1>6, <1>7, <1>8, <1>9, ActionsOf

\* The types, and the order of lock and commands.
LEMMA SessionTyped ==
    ASSUME Typed, LockHolders, NEW s \in Sessions, SessionActs(s)
    PROVE  Typed' /\ LockHolders'
<1>1. /\ Apart(s)
      /\ session'[s].batch # <<>> => session'[s].pc = "publish"
      /\ session'[s].epochs \in 0..setup.maxEpochs
      /\ cache' \in Seq(Nat) /\ (UNCHANGED cache \/ lock = {})
      /\ faults' \in 0..setup.maxFaults
  BY SessionInOrder
<1>2. /\ session' \in [Sessions -> SessionType]
      /\ \A t \in Sessions \ {s} : session'[t] = session[t]
      /\ setup' = setup /\ lock' = lock /\ command' = command
  BY <1>1 DEF Apart
<1>3. ASSUME NEW t \in Sessions
      PROVE  /\ session'[t].pc \in {"idle", "loop", "publish", "import", "failed"}
             /\ session'[t].batch # <<>> => session'[t].pc = "publish"
             /\ session'[t].epochs \in 0..setup.maxEpochs
  <2>1. session'[t].pc \in {"idle", "loop", "publish", "import", "failed"}
    BY <1>2 DEF SessionType
  <2>2. CASE t = s
    BY <1>1, <2>1, <2>2
  <2>3. CASE t # s
    BY <1>2, <2>1, <2>3 DEF Typed, TypeOK
  <2> QED
    BY <2>2, <2>3
<1>4. TypeOK'
  BY <1>1, <1>2, <1>3 DEF Typed, TypeOK
<1>5. LockHolders'
  BY <1>1, <1>2 DEF LockHolders
<1> QED
  BY <1>2, <1>4, <1>5 DEF Typed

\* A session's step is one of a participant.
LEMMA SessionTakesPart ==
    ASSUME Typed, Backing, NEW s \in Sessions, SessionActs(s)
    PROVE  s \in Participants
<1>1. CASE session[s].pc # "idle"
  BY <1>1 DEF Backing
<1>2. CASE session[s].pc = "idle"
  <2>1. BeginEpoch(s)
    BY <1>2, ActionsOf DEF EndEpoch, Cancelled, PublishFails, Chudnovsky, Spigot, Publish,
       YCruncher, Import, NextBatch
  <2> QED
    BY <2>1, BeginEffect
<1> QED
  BY <1>1, <1>2

\* What an epoch publishes is of its backend.
LEMMA SessionBacking ==
    ASSUME Typed, Backing, NEW s \in Sessions, SessionActs(s)
    PROVE  Backing'
<1>1. /\ \A t \in Sessions \ {s} : session'[t] = session[t]
      /\ setup' = setup /\ Participants' = Participants
  BY SessionInOrder, SameSetup DEF Apart
<1>2. s \in Participants
  BY SessionTakesPart
<1>3. /\ session'[s].pc = "publish" => setup.backend[s] \in {"chudnovsky", "spigot"}
      /\ session'[s].pc = "import" => setup.backend[s] = "ycruncher"
      /\ session'[s].resident => setup.backend[s] = "spigot"
  <2>1. session[s].resident => setup.backend[s] = "spigot"
    BY DEF Backing
  <2>2. CASE BeginEpoch(s)
    BY <2>1, <2>2, BeginEffect DEF KeepsGenerator
  <2>3. CASE EndEpoch(s) \/ Cancelled(s)
    BY <2>1, <2>3, EndEffect DEF KeepsGenerator
  <2>4. CASE PublishFails(s)
    BY <2>1, <2>4, FailEffect DEF KeepsGenerator
  <2>5. CASE Chudnovsky(s)
    BY <2>1, <2>5, ChudnovskyEffect DEF KeepsGenerator
  <2>6. CASE Spigot(s)
    BY <2>6, SpigotEffect
  <2>7. CASE Publish(s)
    BY <2>1, <2>7, PublishEffect DEF KeepsGenerator
  <2>8. CASE YCruncher(s)
    BY <2>1, <2>8, YCruncherEffect DEF KeepsGenerator
  <2>9. CASE Import(s)
    BY <2>1, <2>9, ImportEffect DEF KeepsGenerator
  <2> QED
    BY <2>2, <2>3, <2>4, <2>5, <2>6, <2>7, <2>8, <2>9, ActionsOf
<1> QED
  BY <1>1, <1>2, <1>3 DEF Backing

\* An epoch counts no more than there is, and what it promised is published.
LEMMA SessionCounts ==
    ASSUME Typed, CountsFollow, EpochKeepsPromise, NEW s \in Sessions, SessionActs(s)
    PROVE  CountsFollow' /\ EpochKeepsPromise'
<1> DEFINE follows(t) == session[t].pc \in {"loop", "publish", "import"}
                            => session[t].current <= Len(cache)
           followsNow(t) == session'[t].pc \in {"loop", "publish", "import"}
                            => session'[t].current <= Len(cache')
<1>1. /\ \A t \in Sessions \ {s} : session'[t] = session[t]
      /\ Len(cache) <= Len(cache') /\ cache' \in Seq(Nat)
  BY SessionInOrder DEF Apart
<1>2. Len(cache) \in Nat /\ Len(cache') \in Nat
  BY <1>1, SessionKnown, LenProperties
<1>3. /\ session[s].current \in Nat /\ session[s].completed \in Nat
      /\ session[s].target \in Nat /\ Len(session[s].batch) \in Nat
      /\ session[s].completed <= Len(cache) /\ follows(s)
  BY SessionKnown DEF EpochKeepsPromise, CountsFollow
<1>4. followsNow(s) /\ session'[s].completed <= Len(cache')
  <2>2. CASE BeginEpoch(s)
    BY <1>1, <1>2, <1>3, <2>2, BeginEffect
  <2>3. CASE EndEpoch(s) \/ Cancelled(s)
    BY <1>1, <1>2, <1>3, <2>3, EndEffect
  <2>4. CASE PublishFails(s)
    BY <1>1, <1>2, <1>3, <2>4, FailEffect DEF KeepsRecord
  <2>5. CASE Chudnovsky(s)
    BY <1>1, <1>2, <1>3, <2>5, ChudnovskyEffect DEF KeepsRecord
  <2>6. CASE Spigot(s)
    BY <1>1, <1>2, <1>3, <2>6, SpigotEffect DEF KeepsRecord
  <2>7. CASE Publish(s)
    BY SMTT(40), <1>1, <1>2, <1>3, <2>7, PublishEffect DEF KeepsRecord
  <2>8. CASE YCruncher(s)
    BY <1>1, <1>2, <1>3, <2>8, YCruncherEffect DEF KeepsRecord
  <2>9. CASE Import(s)
    <3>1. session'[s].completed = session[s].completed /\ session[s].pc = "import"
      BY <2>9, ImportEffect DEF KeepsRecord
    <3>2. CASE session'[s].pc \in {"idle", "failed"}
      BY <1>1, <1>2, <1>3, <3>1, <3>2
    <3>3. CASE session'[s].pc \notin {"idle", "failed"}
      <4>1. PICK added \in Seq(Nat) :
               /\ session'[s].current = session[s].current + Len(added)
               /\ Len(cache') = Len(cache) + Len(added)
        BY <2>9, <3>3, ImportEffect
      <4>2. Len(added) \in Nat
        BY LenProperties
      <4> QED
        BY <1>1, <1>2, <1>3, <3>1, <4>1, <4>2
    <3> QED
      BY <3>2, <3>3
  <2> QED
    BY <2>2, <2>3, <2>4, <2>5, <2>6, <2>7, <2>8, <2>9, ActionsOf
<1>5. ASSUME NEW t \in Sessions, t # s
      PROVE  followsNow(t) /\ session'[t].completed <= Len(cache')
  <2>1. session'[t] = session[t] /\ session[t].completed \in Nat /\ session[t].current \in Nat
    BY <1>1, <1>5, SessionKnown
  <2>2. follows(t) /\ session[t].completed <= Len(cache)
    BY DEF CountsFollow, EpochKeepsPromise
  <2> QED
    BY <1>1, <1>2, <2>1, <2>2
<1> QED
  BY <1>4, <1>5 DEF CountsFollow, EpochKeepsPromise

\* What a lone session remembers still goes on where the cache ends.
LEMMA SessionGoesOn ==
    ASSUME UseAssumption, Typed, Backing, LonerGoesOn, NEW s \in Sessions, SessionActs(s)
    PROVE  LonerGoesOn'
<1> SUFFICES ASSUME Alone', faults' = 0, NEW t \in Participants' PROVE GoesOn(t)'
  BY DEF LonerGoesOn
<1>1. /\ Participants' = Participants /\ Alone /\ setup \in SetupType
      /\ s \in Participants /\ s \in Sessions
  <2>1. UNCHANGED setup
    BY SessionInOrder DEF Apart
  <2> QED
    BY <2>1, SameSetup, SessionTakesPart DEF Typed, TypeOK
<1>2. t = s
  BY <1>1, AloneMeansOne
<1>3. faults = 0 /\ ~PublishFails(s)
  <2>1. faults \in Nat
    BY SessionKnown
  <2>2. ~PublishFails(s)
    BY <2>1, FailEffect
  <2> QED
    BY <2>2, BeginEffect, EndEffect, ChudnovskyEffect, SpigotEffect, PublishEffect,
       YCruncherEffect, ImportEffect, ActionsOf
<1>4. GoesOn(s)
  BY <1>1, <1>3 DEF LonerGoesOn
<1> DEFINE n == Len(cache)
           b == Len(session[s].batch)
<1>5. /\ n \in Nat /\ b \in Nat /\ cache \in Seq(Nat) /\ Len(<<>>) = 0
      /\ session[s].current \in Nat /\ session[s].position \in Nat
      /\ session[s].batch # <<>> => session[s].pc = "publish"
  BY SessionKnown
<1>6. /\ session[s].pc \in {"loop", "publish", "import"} => session[s].current = n
      /\ session[s].resident => session[s].position = n + b
  BY <1>4 DEF GoesOn
<1>7. session[s].pc # "publish" => b = 0
  BY <1>5
<1> HIDE DEF b
<1>10. CASE BeginEpoch(s)
  <2>1. /\ session'[s].pc = "loop" /\ session'[s].current = n /\ cache' = cache
        /\ session'[s].batch = <<>> /\ KeepsGenerator(s) /\ session[s].pc = "idle"
    BY <1>10, BeginEffect DEF BeginEpoch
  <2> QED
    BY <1>2, <1>5, <1>6, <1>7, <2>1 DEF GoesOn, KeepsGenerator
<1>11. CASE EndEpoch(s) \/ Cancelled(s)
  <2>1. /\ session'[s].pc = "idle" /\ cache' = cache
        /\ session'[s].batch = <<>> /\ KeepsGenerator(s) /\ session[s].pc = "loop"
    BY <1>11, EndEffect
  <2> QED
    BY <1>2, <1>5, <1>6, <1>7, <2>1 DEF GoesOn, KeepsGenerator
<1>12. CASE Chudnovsky(s)
  <2>1. PICK high \in Nat : /\ session[s].current <= high
                            /\ session'[s].batch = Run(session[s].current, high)
    BY <1>12, ChudnovskyEffect
  <2>2. /\ session'[s].pc = "publish" /\ session'[s].current = session[s].current
        /\ KeepsGenerator(s) /\ cache' = cache
        /\ session[s].pc = "loop" /\ setup.backend[s] = "chudnovsky"
    BY <1>12, ChudnovskyEffect
  <2>3. session[s].current = n /\ ~session'[s].resident
    BY <1>6, <2>2 DEF Backing, KeepsGenerator
  <2>4. Len(session'[s].batch) = high - n
    <3>1. session'[s].batch = Run(n, high) /\ n <= high
      BY <2>1, <2>3
    <3> QED
      BY <1>5, <3>1, RunIsSeq
  <2>5. n + Len(session'[s].batch) = high
    BY <1>5, <2>4
  <2> QED
    BY <1>2, <2>1, <2>2, <2>3, <2>5 DEF GoesOn
<1>13. CASE Spigot(s)
  <2>1. PICK to \in Nat : /\ SpigotStart(s) <= to
                          /\ session'[s].batch = Run(SpigotStart(s), to)
                          /\ session'[s].position = to
    BY <1>13, SpigotEffect
  <2>2. /\ session'[s].pc = "publish" /\ session'[s].current = session[s].current
        /\ cache' = cache /\ session[s].pc = "loop"
    BY <1>13, SpigotEffect
  <2>3. session[s].current = n /\ SpigotStart(s) = n
    BY <1>5, <1>6, <1>7, <2>2 DEF SpigotStart
  <2>4. Len(session'[s].batch) = to - n
    <3>1. session'[s].batch = Run(n, to) /\ n <= to
      BY <2>1, <2>3
    <3> QED
      BY <1>5, <3>1, RunIsSeq
  <2>5. n + Len(session'[s].batch) = to
    BY <1>5, <2>4
  <2> QED
    BY <1>2, <2>1, <2>2, <2>3, <2>5 DEF GoesOn
<1>14. CASE Publish(s)
  <2>1. /\ session[s].pc = "publish" /\ Len(cache') = n + b /\ KeepsGenerator(s)
        /\ session'[s].pc = "loop" /\ session'[s].batch = <<>>
        /\ session'[s].current = session[s].current + b
    BY <1>14, PublishEffect DEF b
  <2>2. session'[s].current = Len(cache')
    BY <1>6, <2>1
  <2>3. session'[s].resident => session'[s].position = Len(cache') + Len(session'[s].batch)
    BY <1>5, <1>6, <2>1 DEF KeepsGenerator
  <2> QED
    BY <1>2, <2>1, <2>2, <2>3 DEF GoesOn
<1>15. CASE YCruncher(s)
  <2>1. /\ session[s].pc = "loop" /\ session'[s].pc \in {"loop", "import"}
        /\ session'[s].batch = <<>> /\ session'[s].current = session[s].current
        /\ cache' = cache /\ KeepsGenerator(s)
    BY <1>15, YCruncherEffect
  <2> QED
    BY <1>2, <1>5, <1>6, <1>7, <2>1 DEF GoesOn, KeepsGenerator
<1>16. CASE Import(s)
  <2>1. /\ session[s].pc = "import" /\ session'[s].batch = <<>> /\ KeepsGenerator(s)
    BY <1>16, ImportEffect
  <2>2. ~session'[s].resident
    BY <2>1 DEF Backing, KeepsGenerator
  <2>3. CASE session'[s].pc \in {"idle", "failed"}
    BY <1>2, <2>2, <2>3 DEF GoesOn
  <2>4. CASE session'[s].pc \notin {"idle", "failed"}
    <3>1. PICK added \in Seq(Nat) :
             /\ session'[s].pc = "loop"
             /\ session'[s].current = session[s].current + Len(added)
             /\ Len(cache') = Len(cache) + Len(added)
      BY <1>16, <2>4, ImportEffect
    <3>2. session'[s].current = Len(cache')
      BY <1>6, <2>1, <3>1
    <3> QED
      BY <1>2, <2>2, <3>1, <3>2 DEF GoesOn
  <2> QED
    BY <2>3, <2>4
<1> QED
  BY <1>3, <1>10, <1>11, <1>12, <1>13, <1>14, <1>15, <1>16, ActionsOf

\* What a session appends is checked, or goes on where the cache ends.
LEMMA SessionKeepsPi ==
    ASSUME Typed, Backing, LonerGoesOn, GuardedCacheHoldsPi, NEW s \in Sessions, SessionActs(s)
    PROVE  GuardedCacheHoldsPi'
<1> SUFFICES ASSUME (Validated \/ (Alone /\ faults = 0))' PROVE HoldsPi(cache')
  BY DEF GuardedCacheHoldsPi, HoldsPi
<1>1. /\ UNCHANGED setup /\ (Alone' <=> Alone) /\ (Validated' <=> Validated)
      /\ s \in Participants
  BY SessionInOrder, SameSetup, SessionTakesPart DEF Apart
<1>2. Validated \/ (Alone /\ faults = 0)
  <2>1. faults' = faults \/ faults' # 0
    <3>1. faults \in Nat
      BY SessionKnown
    <3> QED
      BY <3>1, BeginEffect, EndEffect, FailEffect, ChudnovskyEffect, SpigotEffect,
         PublishEffect, YCruncherEffect, ImportEffect, ActionsOf
  <2> QED
    BY <1>1, <2>1
<1>3. HoldsPi(cache)
  BY <1>2 DEF GuardedCacheHoldsPi
<1>4. CASE UNCHANGED cache
  BY <1>3, <1>4 DEF HoldsPi
<1>5. CASE Publish(s)
  <2>1. /\ session[s].pc = "publish" /\ cache' = cache \o session[s].batch
        /\ Len(session[s].batch) \in Nat /\ cache \in Seq(Nat) /\ Len(cache) \in Nat
    BY <1>5, PublishEffect, SessionKnown
  <2>2. ~Validated
    BY <1>1, <2>1 DEF Validated, Backing
  <2>3. session[s].batch = Run(Len(cache), Len(cache) + Len(session[s].batch))
    BY <1>1, <1>2, <2>1, <2>2 DEF LonerGoesOn, GoesOn
  <2>4. /\ Len(cache) + Len(session[s].batch) \in Nat
        /\ Len(cache) + Len(session[s].batch) >= Len(cache)
    BY <2>1
  <2>5. HoldsPi(cache \o Run(Len(cache), Len(cache) + Len(session[s].batch)))
    BY <1>3, <2>1, <2>4, PiGoesOn
  <2> QED
    BY <2>1, <2>3, <2>5
<1>6. CASE Import(s) /\ cache' # cache
  BY <1>6, ImportEffect
<1> QED
  BY <1>4, <1>5, <1>6, BeginEffect, EndEffect, FailEffect, ChudnovskyEffect, SpigotEffect,
     YCruncherEffect, ActionsOf

-----------------------------------------------------------------------------
\* A command's step preserves the invariant.

\* What every step of a command leaves in order.
CommandInOrder(c) ==
    /\ UNCHANGED <<setup, session, faults>>
    /\ c \in setup.commands
    /\ command' \in [Commands -> CommandType]
    /\ \A d \in Commands : command'[d].pc = "append" <=> d \in lock'
    /\ LockHolders'
    /\ cache' \in Seq(Nat) /\ Len(cache) <= Len(cache')
    /\ HoldsPi(cache) => HoldsPi(cache')

\* What is known of the commands before a step.
LEMMA CommandKnown ==
    ASSUME Typed, LockHolders, NEW c \in Commands
    PROVE  /\ command \in [Commands -> CommandType] /\ command[c] \in CommandType
           /\ command[c].existing \in Nat /\ command[c].target \in Nat
           /\ \A d \in Commands : command[d].pc = "append" <=> d \in lock
           /\ \A d, e \in lock : d = e
           /\ lock \subseteq setup.commands /\ lock \subseteq Commands
           /\ cache \in Seq(Nat) /\ Len(cache) \in Nat /\ setup.maxDigits \in Nat
<1>1. command \in [Commands -> CommandType] /\ command[c] \in CommandType
  BY DEF Typed
<1>2. command[c].existing \in Nat /\ command[c].target \in Nat
  BY <1>1 DEF CommandType
<1>3. \A d \in Commands : command[d].pc = "append" <=> d \in lock
  BY DEF Typed, TypeOK
<1>4. /\ \A d, e \in lock : d = e
      /\ lock \subseteq setup.commands
  BY DEF LockHolders
<1>5. lock \subseteq Commands /\ cache \in Seq(Nat) /\ setup.maxDigits \in Nat
  BY DEF Typed, TypeOK, SetupType
<1>6. Len(cache) \in Nat
  BY <1>5, LenProperties
<1> QED
  BY <1>1, <1>2, <1>3, <1>4, <1>5, <1>6

\* A command begins with the lock, and counts from the length of the cache.
LEMMA CommandBegins ==
    ASSUME Typed, LockHolders, NEW c \in Commands, BeginCommand(c)
    PROVE  CommandInOrder(c)
<1>1. /\ c \in setup.commands /\ lock = {} /\ lock' = {c}
      /\ UNCHANGED <<setup, cache, session, faults>>
  BY DEF BeginCommand
<1>2. PICK target \in (Len(cache) + 1)..setup.maxDigits :
        command' = [command EXCEPT ![c] = [pc |-> "append", existing |-> Len(cache),
                                           target |-> target]]
  BY DEF BeginCommand
<1>3. /\ command \in [Commands -> CommandType]
      /\ \A d \in Commands : command[d].pc = "append" <=> d \in lock
      /\ cache \in Seq(Nat) /\ Len(cache) \in Nat /\ setup.maxDigits \in Nat
  BY CommandKnown
<1>4. target \in Nat
  BY <1>3
<1> DEFINE r == [pc |-> "append", existing |-> Len(cache), target |-> target]
<1>5. r \in CommandType
  BY <1>3, <1>4 DEF CommandType
<1>6. r.pc = "append" /\ r.existing = Len(cache)
  OBVIOUS
<1>7. command' = [command EXCEPT ![c] = r]
  BY <1>2
<1> HIDE DEF r
<1>8. /\ command' \in [Commands -> CommandType] /\ command'[c] = r
      /\ \A d \in Commands \ {c} : command'[d] = command[d]
  BY <1>3, <1>5, <1>7
<1>9. \A d \in Commands : command'[d].pc = "append" <=> d \in lock'
  BY <1>1, <1>3, <1>6, <1>8
<1>10. LockHolders'
  BY <1>1, <1>6, <1>8 DEF LockHolders
<1>11. HoldsPi(cache) => HoldsPi(cache')
  BY <1>1 DEF HoldsPi
<1> QED
  BY <1>1, <1>3, <1>8, <1>9, <1>10, <1>11 DEF CommandInOrder

\* It appends what follows.
LEMMA CommandGoesOn ==
    ASSUME Typed, LockHolders, NEW c \in Commands, CommandAppends(c)
    PROVE  CommandInOrder(c)
<1>1. command[c].pc = "append" /\ UNCHANGED <<setup, lock, session, faults>>
  BY DEF CommandAppends
<1>2. PICK to \in (command[c].existing + 1)..command[c].target :
        /\ cache' = cache \o Run(command[c].existing, to)
        /\ command' = [command EXCEPT ![c].existing = to]
  BY DEF CommandAppends
<1>3. /\ command \in [Commands -> CommandType] /\ command[c] \in CommandType
      /\ command[c].existing \in Nat /\ command[c].target \in Nat
      /\ \A d \in Commands : command[d].pc = "append" <=> d \in lock
      /\ \A d, e \in lock : d = e
      /\ lock \subseteq setup.commands /\ lock \subseteq Commands
      /\ cache \in Seq(Nat) /\ Len(cache) \in Nat
  BY CommandKnown
<1>4. c \in lock /\ command[c].existing = Len(cache)
  BY <1>1, <1>3 DEF LockHolders
<1>5. to \in Nat /\ to >= Len(cache)
  BY <1>2, <1>3, <1>4
<1> DEFINE added == Run(Len(cache), to)
<1>6. added \in Seq(Nat) /\ Len(added) = to - Len(cache)
  BY <1>3, <1>5, RunIsSeq
<1>7. cache' = cache \o added
  BY <1>2, <1>4
<1>8. HoldsPi(cache) => HoldsPi(cache')
  <2> SUFFICES ASSUME HoldsPi(cache) PROVE HoldsPi(cache \o added)
    BY <1>7 DEF HoldsPi
  <2> QED
    BY <1>3, <1>5, PiGoesOn
<1> HIDE DEF added
<1>9. cache' \in Seq(Nat) /\ Len(cache') = Len(cache) + Len(added)
  BY <1>3, <1>6, <1>7, ConcatProperties
<1>10. Len(cache') = to
  BY <1>3, <1>5, <1>6, <1>9
<1> DEFINE r == [command[c] EXCEPT !.existing = to]
<1>11. command' = [command EXCEPT ![c] = r]
  BY <1>2, <1>3 DEF CommandType
<1>12. r \in CommandType
  BY <1>3, <1>5 DEF CommandType
<1>13. r.pc = command[c].pc /\ r.existing = to
  BY <1>3 DEF CommandType
<1> HIDE DEF r
<1>14. /\ command' \in [Commands -> CommandType] /\ command'[c] = r
       /\ \A d \in Commands \ {c} : command'[d] = command[d]
  BY <1>3, <1>11, <1>12
<1>15. \A d \in Commands : command'[d].pc = "append" <=> d \in lock'
  <2> SUFFICES ASSUME NEW d \in Commands
               PROVE  command'[d].pc = "append" <=> d \in lock
    BY <1>1
  <2>1. command'[d].pc = command[d].pc
    BY <1>13, <1>14
  <2> QED
    BY <1>3, <2>1
<1>16. LockHolders'
  <2>1. \A d \in lock' : command'[d].existing = Len(cache')
    BY <1>1, <1>3, <1>4, <1>10, <1>13, <1>14
  <2>2. lock' = lock /\ setup' = setup
    BY <1>1
  <2> QED
    BY <1>3, <2>1, <2>2 DEF LockHolders
<1>17. Len(cache) <= Len(cache')
  BY <1>3, <1>5, <1>10
<1> QED
  BY <1>1, <1>3, <1>4, <1>8, <1>9, <1>14, <1>15, <1>16, <1>17 DEF CommandInOrder

\* It ends, and the lock is free.
LEMMA CommandEnds ==
    ASSUME Typed, LockHolders, NEW c \in Commands, EndCommand(c)
    PROVE  CommandInOrder(c)
<1>1. /\ command[c].pc = "append" /\ lock' = lock \ {c}
      /\ UNCHANGED <<setup, cache, session, faults>>
      /\ command' = [command EXCEPT ![c].pc = "done"]
  BY DEF EndCommand
<1>2. /\ command \in [Commands -> CommandType] /\ command[c] \in CommandType
      /\ \A d \in Commands : command[d].pc = "append" <=> d \in lock
      /\ lock \subseteq setup.commands /\ \A d, e \in lock : d = e
      /\ cache \in Seq(Nat) /\ Len(cache) \in Nat
  BY CommandKnown
<1>3. c \in lock /\ lock' = {}
  BY <1>1, <1>2
<1> DEFINE r == [command[c] EXCEPT !.pc = "done"]
<1>4. command' = [command EXCEPT ![c] = r]
  BY <1>1, <1>2 DEF CommandType
<1>5. r \in CommandType /\ r.pc = "done"
  BY <1>2 DEF CommandType
<1> HIDE DEF r
<1>6. /\ command' \in [Commands -> CommandType] /\ command'[c] = r
      /\ \A d \in Commands \ {c} : command'[d] = command[d]
  BY <1>2, <1>4, <1>5
<1>7. \A d \in Commands : command'[d].pc = "append" <=> d \in lock'
  BY <1>2, <1>3, <1>5, <1>6
<1>8. LockHolders'
  BY <1>3 DEF LockHolders
<1>9. HoldsPi(cache) => HoldsPi(cache')
  BY <1>1 DEF HoldsPi
<1> QED
  BY <1>1, <1>2, <1>3, <1>6, <1>7, <1>8, <1>9 DEF CommandInOrder

\* A command, alone or not, keeps what sessions rely on.
LEMMA CommandPreserves ==
    ASSUME UseAssumption, IInv, NEW c \in Commands, Command(c)
    PROVE  IInv'
<1>1. CommandInOrder(c)
  BY CommandBegins, CommandGoesOn, CommandEnds DEF Command, IInv
<1>2. /\ setup' = setup /\ session' = session /\ faults' = faults
      /\ c \in setup.commands /\ cache' \in Seq(Nat) /\ LockHolders'
      /\ command' \in [Commands -> CommandType]
      /\ \A d \in Commands : command'[d].pc = "append" <=> d \in lock'
      /\ Len(cache) <= Len(cache') /\ (HoldsPi(cache) => HoldsPi(cache'))
  BY <1>1 DEF CommandInOrder
<1>3. Participants' = Participants /\ (Alone' <=> Alone) /\ (Validated' <=> Validated)
  BY <1>2, SameSetup
<1>4. Typed'
  <2>1. lock' \subseteq Commands
    BY <1>2 DEF LockHolders, IInv, Typed, TypeOK, SetupType
  <2>2. TypeOK'
    BY <1>2, <2>1 DEF IInv, Typed, TypeOK
  <2> QED
    BY <1>2, <2>2 DEF IInv, Typed
<1>5. Backing'
  BY <1>2, <1>3 DEF IInv, Backing
<1>6. CountsFollow' /\ EpochKeepsPromise'
  <2>1. Len(cache) \in Nat /\ Len(cache') \in Nat
    BY <1>2, LenProperties DEF IInv, Typed, TypeOK
  <2>2. ASSUME NEW s \in Sessions
        PROVE  /\ session[s].completed <= Len(cache')
               /\ session[s].pc \in {"loop", "publish", "import"}
                     => session[s].current <= Len(cache')
    <3>1. session[s].completed \in Nat /\ session[s].current \in Nat
      BY SessionKnown DEF IInv
    <3> QED
      BY <1>2, <2>1, <3>1 DEF IInv, CountsFollow, EpochKeepsPromise
  <2> QED
    BY <1>2, <2>2 DEF CountsFollow, EpochKeepsPromise
<1>7. LonerGoesOn'
  <2> SUFFICES ASSUME Alone', NEW t \in Participants' PROVE FALSE
    BY DEF LonerGoesOn
  <2>1. Alone /\ t \in Participants /\ setup \in SetupType
    BY <1>3 DEF IInv, Typed, TypeOK
  <2> QED
    BY <1>2, <2>1, AloneMeansOne
<1>8. GuardedCacheHoldsPi'
  <2> SUFFICES ASSUME (Validated \/ (Alone /\ faults = 0))' PROVE HoldsPi(cache')
    BY DEF GuardedCacheHoldsPi, HoldsPi
  <2>1. Validated \/ (Alone /\ faults = 0)
    BY <1>2, <1>3
  <2> QED
    BY <1>2, <2>1 DEF IInv, GuardedCacheHoldsPi
<1> QED
  BY <1>2, <1>4, <1>5, <1>6, <1>7, <1>8 DEF IInv

-----------------------------------------------------------------------------
\* The theorem.

\* Nothing is begun, and the cache holds pi.
LEMMA InitGoesOn ==
    ASSUME UseAssumption, Init
    PROVE  IInv
<1>1. /\ setup \in GrowthSetups /\ setup \in SetupType
      /\ cache = Run(0, InitialDigits) /\ lock = {} /\ faults = 0
  BY DEF Init, UseAssumption
<1>2. cache \in Seq(Nat) /\ Len(cache) = InitialDigits /\ InitialDigits \in Nat
  <2>1. InitialDigits \in Nat /\ 0 \in Nat /\ 0 <= InitialDigits
        /\ InitialDigits - 0 = InitialDigits
    BY DEF UseAssumption
  <2> QED
    BY <1>1, <2>1, RunIsSeq
<1> DEFINE r == [pc |-> "idle", current |-> 0, target |-> 0, high |-> 0, batch |-> <<>>,
                 resident |-> FALSE, position |-> 0, cut |-> FALSE, epochs |-> 0,
                 completed |-> 0]
<1>3. session = [s \in Sessions |-> r]
  BY DEF Init
<1>4. /\ r \in SessionType /\ r.pc = "idle" /\ r.batch = <<>> /\ ~r.resident
      /\ r.epochs = 0 /\ r.completed = 0
  <2>1. <<>> \in Seq(Nat)
    BY EmptySeq
  <2> QED
    BY <2>1 DEF SessionType
<1> HIDE DEF r
<1>5. session \in [Sessions -> SessionType] /\ \A s \in Sessions : session[s] = r
  BY <1>3, <1>4
<1>6. /\ command \in [Commands -> CommandType]
      /\ \A c \in Commands : command[c].pc = "idle"
  BY DEF Init, CommandType
<1>7. setup.maxEpochs \in Nat /\ setup.maxFaults \in Nat
  BY <1>1 DEF SetupType
<1>8. TypeOK
  BY <1>1, <1>2, <1>4, <1>5, <1>6, <1>7 DEF TypeOK
<1>9. Typed
  BY <1>5, <1>6, <1>8 DEF Typed
<1>10. Backing /\ CountsFollow
  BY <1>4, <1>5 DEF Backing, CountsFollow
<1>11. LockHolders
  BY <1>1 DEF LockHolders
<1>12. LonerGoesOn
  BY <1>4, <1>5 DEF LonerGoesOn, GoesOn, Participants
<1>13. EpochKeepsPromise
  BY <1>2, <1>4, <1>5 DEF EpochKeepsPromise
<1>14. GuardedCacheHoldsPi
  BY <1>1, <1>2 DEF GuardedCacheHoldsPi, HoldsPi
<1> QED
  BY <1>9, <1>10, <1>11, <1>12, <1>13, <1>14 DEF IInv

\* Every step is one session's or one command's.
LEMMA StepsOf ==
    [Next]_vars => \/ \E s \in Sessions : SessionActs(s)
                   \/ \E c \in Commands : Command(c)
                   \/ UNCHANGED vars
BY Zenon DEF Next, SessionActs

\* The invariant is inductive.
LEMMA StepGoesOn ==
    ASSUME UseAssumption, IInv, [Next]_vars
    PROVE  IInv'
<1>1. CASE \E s \in Sessions : SessionActs(s)
  <2>1. PICK s \in Sessions : SessionActs(s)
    BY <1>1
  <2>2. Typed' /\ LockHolders'
    BY <2>1, SessionTyped DEF IInv
  <2>3. Backing'
    BY <2>1, SessionBacking DEF IInv
  <2>4. CountsFollow' /\ EpochKeepsPromise'
    BY <2>1, SessionCounts DEF IInv
  <2>5. LonerGoesOn'
    BY <2>1, SessionGoesOn DEF IInv
  <2>6. GuardedCacheHoldsPi'
    BY <2>1, SessionKeepsPi DEF IInv
  <2> QED
    BY <2>2, <2>3, <2>4, <2>5, <2>6 DEF IInv
<1>2. CASE \E c \in Commands : Command(c)
  BY <1>2, CommandPreserves
<1>3. CASE UNCHANGED vars
  BY <1>3 DEF vars, IInv, Typed, TypeOK, Backing, CountsFollow, LockHolders, LonerGoesOn,
     GoesOn, EpochKeepsPromise, GuardedCacheHoldsPi, HoldsPi, Validated, Alone, Participants
<1> QED
  BY <1>1, <1>2, <1>3, StepsOf

\* Whatever processes there are, and in whatever order their epochs, commands,
\* cancellations and failed appends come: the cache holds pi if texts are
\* validated or one process alone loses no batch, what an epoch promised is
\* published, and commands hold the lock exactly while they append
\* (pi/producer.rs, commands/pi.rs, pi/cache.rs).
THEOREM GrowthCorrect ==
    ASSUME UseAssumption
    PROVE  Spec => []GrowthInvariant
<1>1. Init => IInv
  BY InitGoesOn
<1>2. IInv /\ [Next]_vars => IInv'
  BY StepGoesOn
<1>3. IInv => GrowthInvariant
  BY DEF IInv, Typed, GrowthInvariant
<1> QED
  BY <1>1, <1>2, <1>3, PTL DEF Spec

-----------------------------------------------------------------------------
(***************************************************************************)
(* The writer lock, for any number of threads, processes, deaths and       *)
(* failures.  What makes the takeover of a dead owner's file safe is       *)
(* Takeover below: whoever has the file open and still finds the record of *)
(* the dead owner in it has the file the lock path leads to.               *)
(***************************************************************************)
\* An owner that was found dead stays dead (no identifier is reused).
FoundDead ==
    \A t \in Threads :
        /\ pc[t] = "probe" => saw[t] \in Processes
        /\ pc[t] \in {"open", "flock", "verify", "truncate"} =>
               saw[t] \in Processes /\ saw[t] \notin alive

\* An open file that is no longer the lock file does not name the dead owner
\* any more: it was removed by a thread that had put its own process there.
Takeover ==
    \A t \in Threads :
        pc[t] \in {"flock", "verify"} =>
            path = ino[t] \/ text[ino[t]] # saw[t]

\* From the advisory lock on, the open file is locked by its thread.
Locked ==
    \A t \in Threads : pc[t] \in Lock!Opened \ {"flock"} => flock[ino[t]] = t

\* From the second look at the record to the removal, the open file is the
\* lock file, and its text is what the thread left there.
Mine ==
    \A t \in Threads :
        /\ pc[t] \in {"truncate", "write"} \cup Lock!Owning => path = ino[t]
        /\ pc[t] = "truncate" => text[ino[t]] = saw[t]
        /\ pc[t] = "write" => text[ino[t]] = Empty
        /\ pc[t] \in Lock!Owning => text[ino[t]] = Owner[t]

LockInv == Lock!TypeOK /\ FoundDead /\ Takeover /\ Locked /\ Mine

\* Every thread starts outside the lock, with no file on disk.
LEMMA LockTypeInit == Lock!LockConstants /\ Lock!Init => Lock!TypeOK
BY DEF Lock!LockConstants, Lock!Init, Lock!TypeOK, Lock!Places, Lock!Opened

\* Dropping a descriptor releases the advisory locks of its thread only.
LEMMA DropTyped ==
    ASSUME Lock!LockConstants, Lock!TypeOK, NEW t \in Threads, Lock!Drop(t)
    PROVE  /\ ino' \in [Threads -> Inodes \cup {None}]
           /\ flock' \in [Inodes -> Threads \cup {None}]
           /\ ino'[t] = None
           /\ \A u \in Threads \ {t} : ino'[u] = ino[u]
           /\ \A i \in Inodes, u \in Threads \ {t} : flock[i] = u => flock'[i] = u
BY DEF Lock!Drop, Lock!TypeOK

\* Leaving with an outcome, Ok or Err, keeps the types.
LEMMA LeaveTyped ==
    ASSUME Lock!LockConstants, Lock!TypeOK, NEW t \in Threads, Lock!Leave(t)
    PROVE  /\ pc' \in [Threads -> Lock!Places]
           /\ pc'[t] = "idle"
           /\ \A u \in Threads \ {t} : pc'[u] = pc[u]
           /\ mutex' \in [Processes -> Threads \cup {None}]
BY DEF Lock!LockConstants, Lock!Leave, Lock!Goto, Lock!TypeOK, Lock!Places

\* Every step of a live thread keeps the types.
LEMMA LockStepTyped ==
    ASSUME Lock!LockConstants, Lock!TypeOK, NEW t \in Threads, Lock!Step(t)
    PROVE  Lock!TypeOK'
<1> USE DEF Lock!LockConstants, Lock!Goto, Lock!TypeOK, Lock!Opened, Lock!Owning,
             Lock!Places, Lock!disk, Lock!threads, Lock!bounds
<1>1. ASSUME Lock!LockLocal(t) PROVE Lock!TypeOK'
  BY <1>1 DEF Lock!LockLocal
<1>2. ASSUME Lock!Create(t) PROVE Lock!TypeOK'
  BY <1>2 DEF Lock!Create
<1>3. ASSUME Lock!Observe(t) PROVE Lock!TypeOK'
  BY <1>3, LeaveTyped DEF Lock!Observe
<1>4. ASSUME Lock!Probe(t) PROVE Lock!TypeOK'
  BY <1>4, LeaveTyped DEF Lock!Probe
<1>5. ASSUME Lock!Open(t) PROVE Lock!TypeOK'
  BY <1>5 DEF Lock!Open
<1>6. ASSUME Lock!Flock(t) PROVE Lock!TypeOK'
  BY <1>6, DropTyped DEF Lock!Flock
<1>7. ASSUME Lock!Verify(t) PROVE Lock!TypeOK'
  BY <1>7, DropTyped DEF Lock!Verify
<1>8. ASSUME Lock!Truncate(t) PROVE Lock!TypeOK'
  BY <1>8 DEF Lock!Truncate
<1>9. ASSUME Lock!Write(t) PROVE Lock!TypeOK'
  BY <1>9, DropTyped, LeaveTyped DEF Lock!Write
<1>10. ASSUME Lock!SyncParent(t) PROVE Lock!TypeOK'
  BY <1>10 DEF Lock!SyncParent
<1>11. ASSUME Lock!Finish(t) PROVE Lock!TypeOK'
  BY <1>11 DEF Lock!Finish
<1>12. ASSUME Lock!Check(t) PROVE Lock!TypeOK'
  BY <1>12 DEF Lock!Check
<1>13. ASSUME Lock!Unlink(t) PROVE Lock!TypeOK'
  BY <1>13 DEF Lock!Unlink
<1>14. ASSUME Lock!Close(t) PROVE Lock!TypeOK'
  BY <1>14, DropTyped, LeaveTyped DEF Lock!Close
<1> QED
  BY <1>1, <1>2, <1>3, <1>4, <1>5, <1>6, <1>7, <1>8, <1>9, <1>10, <1>11, <1>12, <1>13, <1>14
  DEF Lock!Step

\* The death of a process, which drops its descriptors, keeps the types.
LEMMA CrashTyped ==
    ASSUME Lock!LockConstants, Lock!TypeOK, NEW p \in Processes, Lock!Crash(p)
    PROVE  Lock!TypeOK'
BY DEF Lock!LockConstants, Lock!Crash, Lock!TypeOK, Lock!Places, Lock!Opened, Lock!threads

\* The invariant is kept by every step of a thread.  Only the linking of a
\* new file, the rewriting of one and its removal touch what other threads
\* rely on: the first uses an inode nobody has open, the other two are done
\* by the thread that holds the advisory lock of the file.
LEMMA StepKeepsInv ==
    ASSUME Lock!LockConstants, LockInv, NEW t \in Threads, Lock!Step(t)
    PROVE  FoundDead' /\ Takeover' /\ Locked' /\ Mine'
<1> USE DEF LockInv, Lock!LockConstants, Lock!Goto, Lock!TypeOK, Lock!Opened, Lock!Owning,
             Lock!Places, Lock!disk, Lock!threads, Lock!bounds
<1>0. Lock!TypeOK'
  BY LockStepTyped
<1>1. ASSUME Lock!LockLocal(t) PROVE FoundDead' /\ Takeover' /\ Locked' /\ Mine'
  <2>1. FoundDead'
    BY <1>0, <1>1 DEF Lock!LockLocal, FoundDead
  <2>2. Takeover'
    BY <1>0, <1>1 DEF Lock!LockLocal, FoundDead, Takeover, Locked, Mine
  <2>3. Locked'
    BY <1>0, <1>1 DEF Lock!LockLocal, Locked
  <2>4. Mine'
    BY <1>0, <1>1 DEF Lock!LockLocal, FoundDead, Takeover, Locked, Mine
  <2> QED
    BY <2>1, <2>2, <2>3, <2>4
<1>2. ASSUME Lock!Create(t) PROVE FoundDead' /\ Takeover' /\ Locked' /\ Mine'
  <2>1. FoundDead'
    BY <1>0, <1>2 DEF Lock!Create, FoundDead
  <2>2. Takeover'
    BY <1>0, <1>2 DEF Lock!Create, FoundDead, Takeover, Locked, Mine
  <2>3. Locked'
    BY <1>0, <1>2 DEF Lock!Create, Locked
  <2>4. Mine'
    BY <1>0, <1>2 DEF Lock!Create, FoundDead, Takeover, Locked, Mine
  <2> QED
    BY <2>1, <2>2, <2>3, <2>4
<1>3. ASSUME Lock!Observe(t) PROVE FoundDead' /\ Takeover' /\ Locked' /\ Mine'
  <2>1. FoundDead'
    BY <1>0, <1>3, LeaveTyped DEF Lock!Observe, FoundDead
  <2>2. Takeover'
    BY <1>0, <1>3, LeaveTyped DEF Lock!Observe, FoundDead, Takeover, Locked, Mine
  <2>3. Locked'
    BY <1>0, <1>3, LeaveTyped DEF Lock!Observe, Locked
  <2>4. Mine'
    BY <1>0, <1>3, LeaveTyped DEF Lock!Observe, FoundDead, Takeover, Locked, Mine
  <2> QED
    BY <2>1, <2>2, <2>3, <2>4
<1>4. ASSUME Lock!Probe(t) PROVE FoundDead' /\ Takeover' /\ Locked' /\ Mine'
  <2>1. FoundDead'
    BY <1>0, <1>4, LeaveTyped DEF Lock!Probe, FoundDead
  <2>2. Takeover'
    BY <1>0, <1>4, LeaveTyped DEF Lock!Probe, FoundDead, Takeover, Locked, Mine
  <2>3. Locked'
    BY <1>0, <1>4, LeaveTyped DEF Lock!Probe, Locked
  <2>4. Mine'
    BY <1>0, <1>4, LeaveTyped DEF Lock!Probe, FoundDead, Takeover, Locked, Mine
  <2> QED
    BY <2>1, <2>2, <2>3, <2>4
<1>5. ASSUME Lock!Open(t) PROVE FoundDead' /\ Takeover' /\ Locked' /\ Mine'
  <2>1. FoundDead'
    BY <1>0, <1>5 DEF Lock!Open, FoundDead
  <2>2. Takeover'
    BY <1>0, <1>5 DEF Lock!Open, FoundDead, Takeover, Locked, Mine
  <2>3. Locked'
    BY <1>0, <1>5 DEF Lock!Open, Locked
  <2>4. Mine'
    BY <1>0, <1>5 DEF Lock!Open, FoundDead, Takeover, Locked, Mine
  <2> QED
    BY <2>1, <2>2, <2>3, <2>4
<1>6. ASSUME Lock!Flock(t) PROVE FoundDead' /\ Takeover' /\ Locked' /\ Mine'
  <2>1. FoundDead'
    BY <1>0, <1>6, DropTyped DEF Lock!Flock, FoundDead
  <2>2. Takeover'
    BY <1>0, <1>6, DropTyped DEF Lock!Flock, FoundDead, Takeover, Locked, Mine
  <2>3. Locked'
    BY <1>0, <1>6, DropTyped DEF Lock!Flock, Locked
  <2>4. Mine'
    BY <1>0, <1>6, DropTyped DEF Lock!Flock, FoundDead, Takeover, Locked, Mine
  <2> QED
    BY <2>1, <2>2, <2>3, <2>4
<1>7. ASSUME Lock!Verify(t) PROVE FoundDead' /\ Takeover' /\ Locked' /\ Mine'
  <2>1. FoundDead'
    BY <1>0, <1>7, DropTyped DEF Lock!Verify, FoundDead
  <2>2. Takeover'
    BY <1>0, <1>7, DropTyped DEF Lock!Verify, FoundDead, Takeover, Locked, Mine
  <2>3. Locked'
    BY <1>0, <1>7, DropTyped DEF Lock!Verify, Locked
  <2>4. Mine'
    BY <1>0, <1>7, DropTyped DEF Lock!Verify, FoundDead, Takeover, Locked, Mine
  <2> QED
    BY <2>1, <2>2, <2>3, <2>4
<1>8. ASSUME Lock!Truncate(t) PROVE FoundDead' /\ Takeover' /\ Locked' /\ Mine'
  <2>1. FoundDead'
    BY <1>0, <1>8 DEF Lock!Truncate, FoundDead
  <2>2. Takeover'
    BY <1>0, <1>8 DEF Lock!Truncate, FoundDead, Takeover, Locked, Mine
  <2>3. Locked'
    BY <1>0, <1>8 DEF Lock!Truncate, Locked
  <2>4. Mine'
    BY <1>0, <1>8 DEF Lock!Truncate, FoundDead, Takeover, Locked, Mine
  <2> QED
    BY <2>1, <2>2, <2>3, <2>4
<1>9. ASSUME Lock!Write(t) PROVE FoundDead' /\ Takeover' /\ Locked' /\ Mine'
  <2>1. FoundDead'
    BY <1>0, <1>9, DropTyped, LeaveTyped DEF Lock!Write, FoundDead
  <2>2. Takeover'
    BY <1>0, <1>9, DropTyped, LeaveTyped DEF Lock!Write, FoundDead, Takeover, Locked, Mine
  <2>3. Locked'
    BY <1>0, <1>9, DropTyped, LeaveTyped DEF Lock!Write, Locked
  <2>4. Mine'
    BY <1>0, <1>9, DropTyped, LeaveTyped DEF Lock!Write, FoundDead, Takeover, Locked, Mine
  <2> QED
    BY <2>1, <2>2, <2>3, <2>4
<1>10. ASSUME Lock!SyncParent(t) PROVE FoundDead' /\ Takeover' /\ Locked' /\ Mine'
  <2>1. FoundDead'
    BY <1>0, <1>10 DEF Lock!SyncParent, FoundDead
  <2>2. Takeover'
    BY <1>0, <1>10 DEF Lock!SyncParent, FoundDead, Takeover, Locked, Mine
  <2>3. Locked'
    BY <1>0, <1>10 DEF Lock!SyncParent, Locked
  <2>4. Mine'
    BY <1>0, <1>10 DEF Lock!SyncParent, FoundDead, Takeover, Locked, Mine
  <2> QED
    BY <2>1, <2>2, <2>3, <2>4
<1>11. ASSUME Lock!Finish(t) PROVE FoundDead' /\ Takeover' /\ Locked' /\ Mine'
  <2>1. FoundDead'
    BY <1>0, <1>11 DEF Lock!Finish, FoundDead
  <2>2. Takeover'
    BY <1>0, <1>11 DEF Lock!Finish, FoundDead, Takeover, Locked, Mine
  <2>3. Locked'
    BY <1>0, <1>11 DEF Lock!Finish, Locked
  <2>4. Mine'
    BY <1>0, <1>11 DEF Lock!Finish, FoundDead, Takeover, Locked, Mine
  <2> QED
    BY <2>1, <2>2, <2>3, <2>4
<1>12. ASSUME Lock!Check(t) PROVE FoundDead' /\ Takeover' /\ Locked' /\ Mine'
  <2>1. FoundDead'
    BY <1>0, <1>12 DEF Lock!Check, FoundDead
  <2>2. Takeover'
    BY <1>0, <1>12 DEF Lock!Check, FoundDead, Takeover, Locked, Mine
  <2>3. Locked'
    BY <1>0, <1>12 DEF Lock!Check, Locked
  <2>4. Mine'
    BY <1>0, <1>12 DEF Lock!Check, FoundDead, Takeover, Locked, Mine
  <2> QED
    BY <2>1, <2>2, <2>3, <2>4
<1>13. ASSUME Lock!Unlink(t) PROVE FoundDead' /\ Takeover' /\ Locked' /\ Mine'
  <2>1. FoundDead'
    BY <1>0, <1>13 DEF Lock!Unlink, FoundDead
  <2>2. Takeover'
    BY <1>0, <1>13 DEF Lock!Unlink, FoundDead, Takeover, Locked, Mine
  <2>3. Locked'
    BY <1>0, <1>13 DEF Lock!Unlink, Locked
  <2>4. Mine'
    BY <1>0, <1>13 DEF Lock!Unlink, FoundDead, Takeover, Locked, Mine
  <2> QED
    BY <2>1, <2>2, <2>3, <2>4
<1>14. ASSUME Lock!Close(t) PROVE FoundDead' /\ Takeover' /\ Locked' /\ Mine'
  <2>1. FoundDead'
    BY <1>0, <1>14, DropTyped, LeaveTyped DEF Lock!Close, FoundDead
  <2>2. Takeover'
    BY <1>0, <1>14, DropTyped, LeaveTyped DEF Lock!Close, FoundDead, Takeover, Locked, Mine
  <2>3. Locked'
    BY <1>0, <1>14, DropTyped, LeaveTyped DEF Lock!Close, Locked
  <2>4. Mine'
    BY <1>0, <1>14, DropTyped, LeaveTyped DEF Lock!Close, FoundDead, Takeover, Locked, Mine
  <2> QED
    BY <2>1, <2>2, <2>3, <2>4
<1> QED
  BY <1>1, <1>2, <1>3, <1>4, <1>5, <1>6, <1>7, <1>8, <1>9, <1>10, <1>11, <1>12, <1>13, <1>14
  DEF Lock!Step

\* A death leaves lock files behind, none of which names a live process.
LEMMA CrashKeepsInv ==
    ASSUME Lock!LockConstants, LockInv, NEW p \in Processes, Lock!Crash(p)
    PROVE  FoundDead' /\ Takeover' /\ Locked' /\ Mine'
<1> USE DEF LockInv
<1>1. Lock!TypeOK'
  BY CrashTyped
<1>2. \A t \in Threads : pc'[t] # "dead" => pc'[t] = pc[t] /\ ino'[t] = ino[t]
  BY DEF Lock!LockConstants, Lock!Crash, Lock!TypeOK
<1>3. FoundDead'
  BY <1>1, <1>2 DEF Lock!Crash, FoundDead
<1>4. Takeover'
  BY <1>1, <1>2 DEF Lock!Crash, Takeover
<1>5. Locked'
  BY <1>1, <1>2 DEF Lock!LockConstants, Lock!Crash, Locked, Lock!TypeOK, Lock!Opened
<1>6. Mine'
  BY <1>1, <1>2 DEF Lock!Crash, Mine, Lock!Owning
<1> QED
  BY <1>3, <1>4, <1>5, <1>6

\* The inductive invariant holds at the start.
LEMMA LockInvInit == Lock!LockConstants /\ Lock!Init => LockInv
BY LockTypeInit
DEF Lock!LockConstants, Lock!Init, LockInv, FoundDead, Takeover, Locked, Mine,
    Lock!Opened, Lock!Owning

\* The inductive invariant is kept by every step and by stuttering.
LEMMA LockInvKept ==
    Lock!LockConstants /\ LockInv /\ [Lock!Next]_(Lock!vars) => LockInv'
<1> SUFFICES ASSUME Lock!LockConstants, LockInv, [Lock!Next]_(Lock!vars) PROVE LockInv'
  OBVIOUS
<1>1. ASSUME NEW t \in Threads, Lock!Step(t) PROVE LockInv'
  BY <1>1, LockStepTyped, StepKeepsInv DEF LockInv
<1>2. ASSUME NEW p \in Processes, Lock!Crash(p) PROVE LockInv'
  BY <1>2, CrashTyped, CrashKeepsInv DEF LockInv
<1>3. CASE UNCHANGED Lock!vars
  BY <1>3 DEF Lock!vars, Lock!disk, Lock!threads, Lock!bounds, LockInv, Lock!TypeOK,
              FoundDead, Takeover, Locked, Mine
<1> QED
  BY <1>1, <1>2, <1>3 DEF Lock!Next

\* Types, and with them that no path through acquire, recover_dead_lock or
\* drop leaks the descriptor that holds the advisory lock.
THEOREM LockTypeCorrect == Lock!Spec => []Lock!TypeOK
<1>1. Lock!Init => LockInv
  BY LockInvInit, LockAssumption
<1>2. LockInv /\ [Lock!Next]_(Lock!vars) => LockInv'
  BY LockInvKept, LockAssumption
<1>3. LockInv => Lock!TypeOK
  BY DEF LockInv
<1> QED
  BY <1>1, <1>2, <1>3, PTL DEF Lock!Spec

\* While an operation of with_writer_lock runs, the lock file is the one its
\* thread has open and locked, and it names the process.
THEOREM OwnerKeeps == Lock!Spec => []OwnerKeepsLock
<1>1. Lock!Init => LockInv
  BY LockInvInit, LockAssumption
<1>2. LockInv /\ [Lock!Next]_(Lock!vars) => LockInv'
  BY LockInvKept, LockAssumption
<1>3. LockInv => OwnerKeepsLock
  BY DEF OwnerKeepsLock, LockInv, Lock!TypeOK, Locked, Mine, Lock!OwnerKeepsLock, Lock!Opened,
         Lock!Owning
<1> QED
  BY <1>1, <1>2, <1>3, PTL DEF Lock!Spec

\* Operations of with_writer_lock exclude each other, over any number of
\* processes and threads, any number of which die anywhere.
THEOREM OneOperationAtATime == Lock!Spec => []MutualExclusion
<1>1. Lock!Init => LockInv
  BY LockInvInit, LockAssumption
<1>2. LockInv /\ [Lock!Next]_(Lock!vars) => LockInv'
  BY LockInvKept, LockAssumption
<1>3. LockInv => MutualExclusion
  BY DEF MutualExclusion, LockInv, Locked, Mine, Lock!MutualExclusion, Lock!Opened, Lock!Owning
<1> QED
  BY <1>1, <1>2, <1>3, PTL DEF Lock!Spec

\* No step but the removal by its own process changes the lock file of a
\* process that lives.
THEOREM LiveLocksAreRespected == Lock!Spec => LiveLockRespected
<1>1. Lock!Init => LockInv
  BY LockInvInit, LockAssumption
<1>2. LockInv /\ [Lock!Next]_(Lock!vars) => LockInv'
  BY LockInvKept, LockAssumption
<1>3. LockInv /\ [Lock!Next]_(Lock!vars) => [Lock!OwnerRemoves]_lockVars
  <2> DEFINE Own(i) ==
        \E t \in Threads :
            Owner[t] = text[i] /\ pc[t] = "unlink" /\ pc'[t] = "close"
  <2> SUFFICES ASSUME LockInv, [Lock!Next]_(Lock!vars),
                      NEW i \in Inodes, path = i, text[i] \in alive,
                      path' # i \/ text'[i] # text[i]
               PROVE  Own(i)
    BY DEF Lock!OwnerRemoves
  <2> USE DEF LockInv
  <2>1. PICK t \in Threads :
            Lock!Create(t) \/ Lock!Truncate(t) \/ Lock!Write(t) \/ Lock!Unlink(t)
    <3>1. ASSUME NEW t \in Threads, Lock!Step(t), path' # path \/ text' # text
          PROVE  Lock!Create(t) \/ Lock!Truncate(t) \/ Lock!Write(t) \/ Lock!Unlink(t)
      BY <3>1 DEF Lock!Step, Lock!LockLocal, Lock!Observe, Lock!Probe, Lock!Open,
                  Lock!Flock, Lock!Verify, Lock!SyncParent, Lock!Finish, Lock!Check,
                  Lock!Close, Lock!disk
    <3>2. path' # path \/ text' # text
      OBVIOUS
    <3> QED
      BY <3>1, <3>2 DEF Lock!Next, Lock!Crash, Lock!vars, Lock!disk
  <2>2. CASE Lock!Create(t)
    BY <2>2, LockAssumption DEF Lock!LockConstants, Lock!Create, Lock!disk
  <2>3. CASE Lock!Truncate(t)
    BY <2>3 DEF Lock!Truncate, Lock!TypeOK, FoundDead, Mine
  <2>4. CASE Lock!Write(t)
    BY <2>4, LockAssumption DEF Lock!LockConstants, Lock!Write, Lock!TypeOK, Mine
  <2>5. CASE Lock!Unlink(t)
    BY <2>5 DEF Lock!Unlink, Lock!Goto, Lock!TypeOK, Mine, Lock!Owning
  <2> QED
    BY <2>1, <2>2, <2>3, <2>4, <2>5
<1> QED
  BY <1>1, <1>2, <1>3, PTL DEF Lock!Spec, LiveLockRespected
=============================================================================
