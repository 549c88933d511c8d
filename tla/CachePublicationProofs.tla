----------------------- MODULE CachePublicationProofs -----------------------
(***************************************************************************)
(* Theorems about the publication of the digit cache, for every setup: any *)
(* texts, any number of writers, deaths and digits cut off, any retries.   *)
(*                                                                         *)
(* For readers: a version tells the text of a file (Told), so a reader     *)
(* that meets the same version twice has seen one file all along, and what *)
(* it read in between is a slice of that.  For writers: whenever sidecar   *)
(* and raw file disagree, either a complete backup holds the text the      *)
(* sidecar describes, or the published digits are still the first ones of  *)
(* the raw file (WayBack).                                                 *)
(***************************************************************************)
EXTENDS CachePublication, FiniteSetTheorems, SequenceTheorems, TLAPS

Exact == MatchesExact(sidecar, raw)
Backed == MatchesExact(previousSidecar, previousRaw)
Named == sidecar.ino \in {0, raw.ino}

-----------------------------------------------------------------------------
(* Files.                                                                  *)

\* A file that is not there is NoFile; what was not parsed has no text.
FilesAreWhole ==
    /\ raw.ino = 0 => raw = NoFile
    /\ previousRaw.ino = 0 => previousRaw = NoFile
    /\ raw.version = 0 => raw.text = <<>>
    /\ raw = NoFile => sidecar.ino = 0
    /\ reader.stat.version = 0 => reader.stat.text = <<>>
    /\ \A s \in {sidecar, previousSidecar, reader.side} :
           /\ s.version = 0 => s.text = <<>>
           /\ ~Parsed(s) => s.text = <<>> /\ s.ino = 0 /\ s.version = 0

\* A version tells the text.
Told(s, f) == s.version = f.version => s.text = f.text
VersionsTell ==
    /\ \A s \in {sidecar, previousSidecar, reader.side} :
           Told(s, raw) /\ Told(s, reader.stat)
    /\ Told(raw, reader.stat)

-----------------------------------------------------------------------------
(* The writer.                                                             *)

Importing == {"clearRaw", "clearSidecar", "copyRaw", "copySidecar", "swap"}
Repairing == {"inspect", "truncate", "restoreRaw", "restoreSidecar", "resign"}
Cleaning == {"cleanRaw", "cleanSidecar"}

\* Which calls get where.
Calls ==
    /\ writer.pc = "append" => writer.op \in {"append", "continue"}
    /\ writer.pc \in Importing => writer.op = "replace"
    /\ writer.pc = "check" => writer.op \in {"append", "continue", "replace"}
    /\ writer.pc = "publish" => writer.op \in {"append", "continue", "replace"}
    /\ writer.pc \in Repairing => writer.op \in {"repair", "force"}
    /\ writer.pc \in Cleaning => writer.op \in {"replace", "repair", "force"}

\* What the writer relies on where it stands.
WriterAt ==
    /\ writer.pc \in Importing => Writable
    /\ writer.pc \in {"append", "truncate"} => Present(raw)
    /\ writer.pc = "append" /\ Parsed(sidecar) => Prefix(sidecar.text, raw.text)
    /\ writer.pc \in {"clearSidecar", "cleanSidecar"} => previousRaw = NoFile
    /\ writer.pc \in {"copyRaw", "copySidecar"} => ~Parsed(previousSidecar)
    /\ writer.pc = "copySidecar" =>
           previousRaw.text = raw.text /\ (Present(raw) => Present(previousRaw))
    /\ writer.pc = "swap" =>
           /\ previousSidecar = sidecar /\ (Present(raw) => Present(previousRaw))
           /\ Parsed(sidecar) => previousRaw.text = sidecar.text
    /\ writer.pc = "truncate" => Parsed(sidecar) /\ ~Backed /\ ~Exact
    /\ writer.pc = "restoreRaw" => Backed /\ ~Exact
    /\ writer.pc = "restoreSidecar" =>
           /\ Parsed(previousSidecar) /\ previousSidecar.text = raw.text /\ Present(raw)
           /\ ~overlaid => Parsed(sidecar) /\ sidecar.text = raw.text
    /\ writer.pc = "resign" /\ Undisturbed /\ Parsed(sidecar) => Exact
    /\ writer.pc \in Cleaning => Exact
    /\ writer.pc = "release" /\ writer.op \in {"repair", "force"} => Exact
    /\ writer.pc \in Cleaning \cup {"release"} /\ writer.op \in {"append", "replace"} =>
           sidecar = Describe(raw)

\* A backup is one of a published cache, and whole once its sidecar is.
BackupIsWhole ==
    Parsed(previousSidecar) =>
        /\ Parsed(sidecar)
        /\ previousRaw.text = previousSidecar.text \/ previousRaw = NoFile

\* When sidecar and raw file disagree there is a way back: a backup of what the
\* sidecar describes, or the digits themselves; or the file is too short.
WayBack ==
    ~overlaid /\ ~Exact =>
        /\ Backed => /\ Parsed(sidecar) /\ sidecar.text = previousSidecar.text
                     /\ Present(previousRaw) \/ previousSidecar.ino = 0
        /\ ~Backed /\ Parsed(sidecar) =>
               \/ Prefix(sidecar.text, raw.text) /\ Named
               \/ damage # 0 /\ Len(raw.text) < Len(sidecar.text)

CommittedIsDescribed ==
    Undisturbed /\ committed # NoText => Parsed(sidecar) /\ sidecar.text = committed

\* Where nothing is imported there is never a backup.
NoBackups ==
    setup.imports = {} =>
        /\ previousSidecar = NoSidecar /\ previousRaw = NoFile
        /\ Named /\ ~overlaid
        /\ writer.op # "replace" /\ writer.pc \notin {"restoreRaw", "restoreSidecar"}

-----------------------------------------------------------------------------
(* The reader.                                                             *)

\* The first text digits of the file are those that s describes.
Covers(s, text) ==
    IF Parsed(s) THEN Prefix(s.text, text) ELSE s.text = <<>> /\ text = <<>>
Got ==
    LET text == reader.before.side.text
    IN  reader.got = Slice(text, reader.offset,
                           Lesser(reader.offset + reader.length, Len(text)))

ReaderAt ==
    /\ reader.pc \in {"read", "sideAgain", "statAgain", "lockAgain", "judgeAgain"}
         /\ raw.version = reader.before.version => Covers(reader.before.side, raw.text)
    /\ reader.pc \in {"sideAgain", "statAgain"} /\ raw.version = reader.before.version => Got
    /\ reader.pc = "statAgain" /\ raw.version = reader.before.version
         /\ reader.side = reader.before.side => reader.before.side.text \in seen
    /\ reader.pc \in {"lockAgain", "judgeAgain"} /\ reader.stat.version = reader.before.version
         => Got /\ (reader.side = reader.before.side => reader.before.side.text \in seen)

WriterPart ==
    /\ setup \in Setups /\ TypeOK /\ damage \in Nat /\ FilesAreWhole
    /\ Calls /\ WriterAt /\ BackupIsWhole /\ WayBack /\ CommittedIsDescribed /\ NoBackups
IInv == WriterPart /\ VersionsTell /\ ReaderAt /\ ReadsArePublished

-----------------------------------------------------------------------------
(* Texts.                                                                  *)

\* A prefix, digit by digit.
LEMMA PrefixIs ==
    ASSUME NEW s \in Texts, NEW t \in Texts
    PROVE  Prefix(s, t) <=> Len(s) <= Len(t) /\ \A i \in 1..Len(s) : s[i] = t[i]
<1> USE DEF Texts
<1>1. CASE Len(s) <= Len(t)
  <2> DEFINE u == SubSeq(t, 1, Len(s))
  <2>1. \A i \in 1..Len(s) : t[i] \in Digits
    BY <1>1
  <2>2. u \in Seq(Digits) /\ Len(u) = Len(s) /\ \A i \in 1..Len(s) : u[i] = t[i]
    BY <1>1, <2>1, SubSeqProperties
  <2> HIDE DEF u
  <2>3. u = s <=> \A i \in 1..Len(s) : s[i] = t[i]
    BY <2>2, SeqEqual
  <2>4. QED BY <1>1, <2>3 DEF Prefix, u
<1>2. CASE ~(Len(s) <= Len(t))
  BY <1>2 DEF Prefix
<1>3. QED BY <1>1, <1>2

\* A text is its own prefix; what is as long as its prefix is the prefix.
LEMMA PrefixBounds ==
    ASSUME NEW s \in Texts, NEW t \in Texts
    PROVE  /\ Prefix(s, s) /\ Prefix(<<>>, s)
           /\ Prefix(s, t) => Len(s) <= Len(t)
           /\ Prefix(s, t) /\ Len(t) <= Len(s) => s = t
<1>1. Prefix(s, s)
  BY PrefixIs
<1>2. <<>> \in Texts /\ Len(<<>>) = 0 /\ Len(s) \in Nat
  BY DEF Texts
<1>3. Prefix(<<>>, s)
  <2>1. Len(<<>>) <= Len(s) /\ \A i \in 1..Len(<<>>) : <<>>[i] = s[i]
    BY <1>2
  <2>2. QED BY <1>2, <2>1, PrefixIs
<1>4. Prefix(s, t) => Len(s) <= Len(t)
  BY DEF Prefix
<1>5. ASSUME Prefix(s, t), Len(t) <= Len(s) PROVE s = t
  <2>1. Len(s) = Len(t) /\ \A i \in 1..Len(s) : s[i] = t[i]
    BY <1>5, PrefixIs DEF Texts
  <2>2. QED BY <2>1, SeqEqual DEF Texts
<1>6. QED BY <1>1, <1>3, <1>4, <1>5

\* A prefix stays one when digits are appended.
LEMMA PrefixGrows ==
    ASSUME NEW s \in Texts, NEW t \in Texts, NEW d \in Digits, Prefix(s, t)
    PROVE  Append(t, d) \in Texts /\ Prefix(s, Append(t, d))
<1>1. /\ Append(t, d) \in Texts /\ Len(Append(t, d)) = Len(t) + 1
      /\ \A i \in 1..Len(t) : Append(t, d)[i] = t[i]
  BY AppendProperties DEF Texts
<1>2. Len(s) <= Len(t) /\ \A i \in 1..Len(s) : s[i] = t[i]
  BY PrefixIs
<1>3. Len(s) \in Nat /\ Len(t) \in Nat
  BY DEF Texts
<1>4. Len(s) <= Len(Append(t, d)) /\ \A i \in 1..Len(s) : s[i] = Append(t, d)[i]
  BY <1>1, <1>2, <1>3
<1>5. QED BY <1>1, <1>4, PrefixIs

\* Cutting off the last digit leaves every prefix but the text itself.
LEMMA PrefixCut ==
    ASSUME NEW s \in Texts, NEW t \in Texts, t # <<>>
    PROVE  /\ SubSeq(t, 1, Len(t) - 1) \in Texts
           /\ Len(SubSeq(t, 1, Len(t) - 1)) = Len(t) - 1
           /\ Prefix(s, t) => s = t \/ Prefix(s, SubSeq(t, 1, Len(t) - 1))
<1> DEFINE u == SubSeq(t, 1, Len(t) - 1)
<1>1. Len(t) \in Nat \ {0} /\ Len(s) \in Nat
  BY DEF Texts
<1>2. \A i \in 1..(Len(t) - 1) : t[i] \in Digits
  BY <1>1 DEF Texts
<1>3. /\ u \in Seq(Digits) /\ Len(u) = Len(t) - 1
      /\ \A i \in 1..(Len(t) - 1) : u[i] = t[i]
  <2> DEFINE n == Len(t) - 1
  <2>1. n \in Int /\ n >= 0 /\ \A i \in 1..n : t[i] \in Digits
    BY <1>1, <1>2
  <2> HIDE DEF n
  <2> DEFINE w == SubSeq(t, 1, n)
  <2>2. /\ w \in Seq(Digits) /\ Len(w) = IF 1 <= n THEN n - 1 + 1 ELSE 0
        /\ \A i \in 1..(n - 1 + 1) : w[i] = t[1 + i - 1]
    BY <2>1, SubSeqProperties
  <2> HIDE DEF w
  <2>3. w \in Seq(Digits) /\ Len(w) = n /\ \A i \in 1..n : w[i] = t[i]
    BY <2>1, <2>2
  <2>4. QED BY <2>3 DEF w, n
<1> HIDE DEF u
<1>4. ASSUME Prefix(s, t), s # t PROVE Prefix(s, u)
  <2>1. Len(s) <= Len(t) /\ \A i \in 1..Len(s) : s[i] = t[i]
    BY <1>4, PrefixIs
  <2>2. Len(s) # Len(t)
    BY <1>1, <1>4, PrefixBounds
  <2>3. Len(s) <= Len(u) /\ \A i \in 1..Len(s) : s[i] = u[i]
    BY <1>1, <1>3, <2>1, <2>2
  <2>4. QED BY <1>3, <2>3, PrefixIs DEF Texts
<1>5. QED BY <1>3, <1>4 DEF u, Texts

\* A slice within a prefix is the slice of the whole.
LEMMA SliceOfPrefix ==
    ASSUME NEW s \in Texts, NEW t \in Texts, Prefix(s, t),
           NEW offset \in Nat, NEW end \in Nat, end <= Len(s)
    PROVE  /\ Slice(t, offset, end) = Slice(s, offset, end)
           /\ Slice(t, offset, end) \in Texts
<1>1. Len(s) <= Len(t) /\ \A i \in 1..Len(s) : s[i] = t[i]
  BY PrefixIs
<1>2. Len(s) \in Nat /\ Len(t) \in Nat
  BY DEF Texts
<1>3. \A i \in (offset + 1)..end : s[i] \in Digits /\ t[i] \in Digits /\ s[i] = t[i]
  BY <1>1, <1>2 DEF Texts
<1> DEFINE a == SubSeq(s, offset + 1, end)
           b == SubSeq(t, offset + 1, end)
<1>4. /\ a \in Seq(Digits) /\ Len(a) = IF offset + 1 <= end THEN end - (offset + 1) + 1 ELSE 0
      /\ \A i \in 1..(end - (offset + 1) + 1) : a[i] = s[(offset + 1) + i - 1]
  BY <1>3, SubSeqProperties
<1>5. /\ b \in Seq(Digits) /\ Len(b) = IF offset + 1 <= end THEN end - (offset + 1) + 1 ELSE 0
      /\ \A i \in 1..(end - (offset + 1) + 1) : b[i] = t[(offset + 1) + i - 1]
  BY <1>3, SubSeqProperties
<1> HIDE DEF a, b
<1>6. \A i \in 1..Len(a) : a[i] = b[i]
  <2> TAKE i \in 1..Len(a)
  <2>1. i \in 1..(end - (offset + 1) + 1) /\ (offset + 1) + i - 1 \in (offset + 1)..end
    BY <1>4
  <2>2. QED BY <1>3, <1>4, <1>5, <2>1
<1>7. a = b
  BY <1>4, <1>5, <1>6, SeqEqual
<1>8. QED BY <1>5, <1>7 DEF a, b, Slice, Texts

LEMMA SliceEmpty ==
    ASSUME NEW t, NEW offset \in Nat, NEW end \in Nat, end <= offset
    PROVE  Slice(t, offset, end) = <<>>
BY SubSeqEmpty DEF Slice

-----------------------------------------------------------------------------
(* Fresh numbers.                                                          *)

LEMMA OneMore ==
    ASSUME NEW T, IsFiniteSet(T), NEW x, NEW n \in Nat, Cardinality(T) <= n
    PROVE  IsFiniteSet(T \cup {x}) /\ Cardinality(T \cup {x}) <= n + 1
<1>1. Cardinality(T) \in Nat
  BY FS_CardinalityType
<1>2. IsFiniteSet(T \cup {x})
  BY FS_AddElement
<1>3. Cardinality(T \cup {x}) = Cardinality(T) \/ Cardinality(T \cup {x}) = Cardinality(T) + 1
  BY FS_AddElement
<1>4. QED BY <1>1, <1>2, <1>3

\* Of nine numbers one is none of eight.
LEMMA NinePigeons ==
    ASSUME NEW a, NEW b, NEW c, NEW d, NEW e, NEW f, NEW g, NEW h
    PROVE  \E v \in 1..9 : v \notin {a, b, c, d, e, f, g, h}
<1> DEFINE S == {a, b, c, d, e, f, g, h}
<1>1. IsFiniteSet(S) /\ Cardinality(S) <= 8
  <2> DEFINE s1 == {a}
             s2 == s1 \cup {b}
             s3 == s2 \cup {c}
             s4 == s3 \cup {d}
             s5 == s4 \cup {e}
             s6 == s5 \cup {f}
             s7 == s6 \cup {g}
             s8 == s7 \cup {h}
  <2>1. IsFiniteSet(s1) /\ Cardinality(s1) <= 1
    BY SMTT(40), FS_Singleton
  <2>3. S = s8
    OBVIOUS
  <2> HIDE DEF s1, S
  <2>4. IsFiniteSet(s2) /\ Cardinality(s2) <= 2
    <3>1. IsFiniteSet(s1 \cup {b}) /\ Cardinality(s1 \cup {b}) <= 1 + 1
      BY <2>1, OneMore
    <3>2. QED BY <3>1
  <2> HIDE DEF s2
  <2>5. IsFiniteSet(s3) /\ Cardinality(s3) <= 3
    <3>1. IsFiniteSet(s2 \cup {c}) /\ Cardinality(s2 \cup {c}) <= 2 + 1
      BY <2>4, OneMore
    <3>2. QED BY <3>1
  <2> HIDE DEF s3
  <2>6. IsFiniteSet(s4) /\ Cardinality(s4) <= 4
    <3>1. IsFiniteSet(s3 \cup {d}) /\ Cardinality(s3 \cup {d}) <= 3 + 1
      BY <2>5, OneMore
    <3>2. QED BY <3>1
  <2> HIDE DEF s4
  <2>7. IsFiniteSet(s5) /\ Cardinality(s5) <= 5
    <3>1. IsFiniteSet(s4 \cup {e}) /\ Cardinality(s4 \cup {e}) <= 4 + 1
      BY <2>6, OneMore
    <3>2. QED BY <3>1
  <2> HIDE DEF s5
  <2>8. IsFiniteSet(s6) /\ Cardinality(s6) <= 6
    <3>1. IsFiniteSet(s5 \cup {f}) /\ Cardinality(s5 \cup {f}) <= 5 + 1
      BY <2>7, OneMore
    <3>2. QED BY <3>1
  <2> HIDE DEF s6
  <2>9. IsFiniteSet(s7) /\ Cardinality(s7) <= 7
    <3>1. IsFiniteSet(s6 \cup {g}) /\ Cardinality(s6 \cup {g}) <= 6 + 1
      BY <2>8, OneMore
    <3>2. QED BY <3>1
  <2> HIDE DEF s7
  <2>10. IsFiniteSet(s8) /\ Cardinality(s8) <= 8
    <3>1. IsFiniteSet(s7 \cup {h}) /\ Cardinality(s7 \cup {h}) <= 7 + 1
      BY <2>9, OneMore
    <3>2. QED BY <3>1
  <2>11. QED BY <2>3, <2>10
<1>2. Cardinality(1..9) = 9
  <2>1. Cardinality(1..9) = IF 1 > 9 THEN 0 ELSE 9 - 1 + 1
    BY FS_Interval, 1 \in Int, 9 \in Int, Zenon
  <2>2. QED BY <2>1
<1> HIDE DEF S
<1>3. ~(1..9 \subseteq S)
  <2>1. Cardinality(S) \in Nat
    BY <1>1, FS_CardinalityType
  <2>2. 1..9 \subseteq S => Cardinality(1..9) <= Cardinality(S)
    BY <1>1, FS_Subset
  <2>3. QED BY <1>1, <1>2, <2>1, <2>2
<1>4. QED BY <1>3 DEF S

\* A fresh version is one, and is none that anybody remembers.
LEMMA FreshVersionIs ==
    /\ FreshVersion \in 1..9
    /\ FreshVersion \notin
           {raw.version, sidecar.version, previousRaw.version, previousSidecar.version,
            reader.side.version, reader.stat.version, reader.before.version,
            reader.before.side.version}
<1> DEFINE S == {raw.version, sidecar.version, previousRaw.version,
                 previousSidecar.version, reader.side.version, reader.stat.version,
                 reader.before.version, reader.before.side.version}
<1>1. \E v \in 1..9 : v \notin S
  BY NinePigeons
<1>2. FreshVersion = CHOOSE v \in 1..9 : v \notin S
  BY DEF FreshVersion
<1> HIDE DEF S
<1>3. FreshVersion \in 1..9 /\ FreshVersion \notin S
  BY <1>1, <1>2
<1>4. QED BY <1>3 DEF S

LEMMA FreshInoIs ==
    FreshIno \in 1..3 /\ FreshIno \notin {raw.ino, previousRaw.ino}
<1>1. \E i \in 1..3 : i \notin {raw.ino, previousRaw.ino}
  <2>1. 1 \in 1..3 /\ 2 \in 1..3 /\ 3 \in 1..3
    OBVIOUS
  <2>2. QED BY <2>1
<1>2. QED BY <1>1 DEF FreshIno

LEMMA NewFileIs ==
    ASSUME NEW t \in Texts
    PROVE  /\ NewFile(t) \in FileType /\ NewFile(t).text = t
           /\ NewFile(t).ino = FreshIno /\ NewFile(t).version = FreshVersion
           /\ NewFile(t).ino # 0
BY FreshVersionIs, FreshInoIs DEF NewFile, FileType

LEMMA RewrittenIs ==
    ASSUME NEW f \in FileType, NEW t \in Texts
    PROVE  /\ Rewritten(f, t) \in FileType /\ Rewritten(f, t).text = t
           /\ Rewritten(f, t).ino = f.ino /\ Rewritten(f, t).version = FreshVersion
<1> DEFINE v == FreshVersion
<1>1. v \in 0..9
  BY FreshVersionIs
<1> HIDE DEF v
<1>2. Rewritten(f, t) = [f EXCEPT !.text = t, !.version = v]
  BY DEF Rewritten, v
<1>3. [f EXCEPT !.text = t, !.version = v] \in FileType
  BY <1>1 DEF FileType
<1>4. /\ [f EXCEPT !.text = t, !.version = v].text = t
      /\ [f EXCEPT !.text = t, !.version = v].ino = f.ino
      /\ [f EXCEPT !.text = t, !.version = v].version = v
  BY DEF FileType
<1>5. QED BY <1>2, <1>3, <1>4 DEF v


-----------------------------------------------------------------------------
(* The reader is told the truth, whatever the writers do.                  *)

\* The empty sidecars are sidecars.
LEMMA NoSidecars ==
    /\ NoSidecar \in SidecarType /\ TornSidecar \in SidecarType
    /\ NoSidecar.kind = "missing" /\ NoSidecar.text = <<>>
    /\ NoSidecar.ino = 0 /\ NoSidecar.version = 0
    /\ TornSidecar.kind = "torn" /\ TornSidecar.text = <<>>
    /\ TornSidecar.ino = 0 /\ TornSidecar.version = 0
<1>1. <<>> \in Texts
  BY DEF Texts
<1>2. QED BY <1>1 DEF NoSidecar, TornSidecar, SidecarType

LEMMA NoFiles ==
    NoFile \in FileType /\ NoFile.text = <<>> /\ NoFile.ino = 0 /\ NoFile.version = 0
<1>1. <<>> \in Texts
  BY DEF Texts
<1>2. QED BY <1>1 DEF NoFile, FileType

\* What writers, and those who cut digits off, do to the files.
FileStep ==
    /\ reader' = reader
    /\ raw' = raw \/ (raw'.version = FreshVersion /\ sidecar' = sidecar)
    /\ sidecar' \in {sidecar, Describe(raw), previousSidecar}
    /\ previousSidecar' \in {previousSidecar, sidecar, NoSidecar, TornSidecar}

Seeing ==
    seen' = IF reader'.pc = "idle" THEN {}
            ELSE IF reader.pc = "idle" THEN Published'
            ELSE seen \cup Published'

\* A version that comes back tells the same text, whatever is done to files.
LEMMA FileStepTells ==
    ASSUME TypeOK, FilesAreWhole, VersionsTell, FileStep
    PROVE  VersionsTell'
<1>1. /\ FreshVersion # 0
      /\ FreshVersion \notin {raw.version, sidecar.version, previousSidecar.version,
                              reader.side.version, reader.stat.version}
  BY FreshVersionIs
<1>2. reader' = reader /\ reader'.side = reader.side /\ reader'.stat = reader.stat
  BY DEF FileStep
<1>3. \A s \in {sidecar', previousSidecar', reader.side} : Told(s, reader.stat)
  BY NoSidecars DEF FileStep, VersionsTell, Told, Describe, FilesAreWhole
<1>4. CASE raw' = raw
  <2>1. \A s \in {sidecar', previousSidecar', reader.side} : Told(s, raw)
    BY NoSidecars DEF FileStep, VersionsTell, Told, Describe, FilesAreWhole
  <2>2. QED BY <1>2, <1>3, <1>4, <2>1 DEF VersionsTell
<1>5. CASE raw'.version = FreshVersion /\ sidecar' = sidecar
  <2>1. \A s \in {sidecar', previousSidecar', reader.side} : Told(s, raw')
    BY <1>1, <1>5, NoSidecars DEF FileStep, Told
  <2>2. Told(raw', reader.stat)
    BY <1>1, <1>5 DEF Told
  <2>3. QED BY <1>2, <1>3, <2>1, <2>2 DEF VersionsTell
<1>6. QED BY <1>4, <1>5 DEF FileStep

\* What a reader relies on stays true while others change the files.
LEMMA FileStepReads ==
    ASSUME TypeOK, ReaderAt, ReadsArePublished, FileStep, Seeing
    PROVE  ReaderAt' /\ ReadsArePublished'
<1>1. FreshVersion # reader.before.version
  BY FreshVersionIs
<1>2. reader' = reader
  BY DEF FileStep
<1>3. raw' = raw \/ raw'.version # reader.before.version
  BY <1>1 DEF FileStep
<1>4. reader.pc # "idle" => seen \subseteq seen'
  BY <1>2 DEF Seeing
<1>5. ReaderAt'
  BY <1>2, <1>3, <1>4 DEF ReaderAt, Got, Covers, Parsed
<1>6. ReadsArePublished'
  BY <1>2, <1>4 DEF ReadsArePublished
<1>7. QED BY <1>5, <1>6

\* A read leaves everything alone but the reader.
Reading ==
    /\ setup \in Setups /\ TypeOK /\ FilesAreWhole /\ VersionsTell
    /\ ReaderAt /\ ReadsArePublished
    /\ ReaderKeepsRest /\ Seeing
ReadKept ==
    /\ reader' \in ReaderType
    /\ FilesAreWhole' /\ VersionsTell' /\ ReaderAt' /\ ReadsArePublished'

LEMMA ReadingTypes ==
    ASSUME Reading
    PROVE  /\ reader \in ReaderType
           /\ raw' = raw /\ sidecar' = sidecar
           /\ previousRaw' = previousRaw /\ previousSidecar' = previousSidecar
           /\ reader.pc # "idle" /\ reader'.pc # "idle" => seen' = seen \cup Published
<1>1. /\ reader \in ReaderType
      /\ raw' = raw /\ sidecar' = sidecar
      /\ previousRaw' = previousRaw /\ previousSidecar' = previousSidecar
  BY DEF Reading, TypeOK, ReaderKeepsRest, files
<1>2. Published' = Published
  BY <1>1 DEF Published
<1>3. QED BY <1>1, <1>2 DEF Reading, Seeing

\* What is left to show where the reader forgets what it saw.
LEMMA IdleReaderIs ==
    /\ IdleReader \in ReaderType
    /\ IdleReader.side = NoSidecar /\ IdleReader.stat = NoFile /\ IdleReader.attempt = 1
    /\ IdleReader.pc = "idle"
<1>1. <<>> \in Texts
  BY DEF Texts
<1>2. NoId \in IdType
  BY NoSidecars DEF NoId, IdType, StatusType
<1>3. 1 \in 1..ReadRetries
  BY RetriesAssumption
<1>4. QED BY <1>1, <1>2, <1>3, NoSidecars, NoFiles DEF IdleReader, ReaderType

LEMMA Forgetting ==
    ASSUME Reading, reader'.side = NoSidecar, reader'.stat = NoFile,
           reader'.pc \in {"idle", "side", "error", "ok"}
    PROVE  /\ FilesAreWhole' /\ VersionsTell' /\ ReaderAt'
           /\ reader'.pc # "ok" => ReadsArePublished'
<1>1. FilesAreWhole'
  BY ReadingTypes, NoSidecars, NoFiles DEF FilesAreWhole, Reading, Parsed
<1>2. /\ raw' = raw /\ sidecar' = sidecar /\ previousSidecar' = previousSidecar
  BY ReadingTypes
<1>3. \A s \in {sidecar, previousSidecar, NoSidecar} : Told(s, raw) /\ Told(s, NoFile)
  BY NoSidecars, NoFiles DEF FilesAreWhole, Reading, VersionsTell, Told
<1>4. Told(raw, NoFile)
  BY NoFiles DEF FilesAreWhole, Reading, Told
<1>5. VersionsTell'
  BY <1>2, <1>3, <1>4 DEF VersionsTell
<1>6. ReaderAt'
  BY DEF ReaderAt
<1>7. reader'.pc # "ok" => ReadsArePublished'
  BY DEF ReadsArePublished
<1>8. QED BY <1>1, <1>5, <1>6, <1>7

LEMMA BeginReadKeeps == ASSUME Reading, BeginRead PROVE ReadKept
<1>1. PICK range \in setup.ranges :
          reader' = [IdleReader EXCEPT !.pc = "side", !.offset = range.offset,
                                       !.length = range.length]
  BY DEF BeginRead
<1>2. range.offset \in Nat /\ range.length \in Nat
  <2>1. setup.ranges \subseteq [offset : Nat, length : Nat]
    BY SetupsAssumption DEF Reading
  <2>2. QED BY <2>1
<1>3. /\ reader' \in ReaderType /\ reader'.side = NoSidecar /\ reader'.stat = NoFile
      /\ reader'.pc = "side"
  <2> DEFINE o == range.offset
             l == range.length
  <2>1. o \in Nat /\ l \in Nat
    BY <1>2
  <2>2. reader' = [IdleReader EXCEPT !.pc = "side", !.offset = o, !.length = l]
    BY <1>1
  <2> HIDE DEF o, l
  <2>3. QED BY <2>1, <2>2, IdleReaderIs DEF ReaderType
<1>4. QED BY <1>3, Forgetting DEF ReadKept

LEMMA EndReadKeeps == ASSUME Reading, EndRead PROVE ReadKept
<1>1. reader' = IdleReader
  BY DEF EndRead
<1>2. QED BY <1>1, IdleReaderIs, Forgetting DEF ReadKept

\* The sidecar the reader finds again is one it was told of in between.
LEMMA LookAtSidecarKeeps == ASSUME Reading, LookAtSidecar PROVE ReadKept
<1> DEFINE pc == IF reader.pc = "side" THEN "stat" ELSE "statAgain"
<1>1. reader' = [reader EXCEPT !.side = sidecar, !.pc = pc] /\ reader.pc \in {"side", "sideAgain"}
  BY DEF LookAtSidecar
<1>2. pc \in {"stat", "statAgain"} /\ (pc = "statAgain" => reader.pc = "sideAgain")
  BY <1>1
<1>3. sidecar \in SidecarType /\ sidecar.text \in Texts /\ raw.text \in Texts
  BY DEF Reading, TypeOK, SidecarType, FileType
<1> HIDE DEF pc
<1>4. /\ reader' \in ReaderType /\ reader'.pc = pc /\ reader'.side = sidecar
      /\ reader'.stat = reader.stat /\ reader'.before = reader.before
      /\ reader'.got = reader.got /\ reader'.offset = reader.offset
      /\ reader'.length = reader.length
  BY <1>1, <1>2, <1>3, ReadingTypes DEF ReaderType
<1>5. FilesAreWhole' /\ VersionsTell'
  BY <1>4, ReadingTypes DEF FilesAreWhole, VersionsTell, Reading
<1>6. ASSUME pc = "statAgain", raw.version = reader.before.version,
             sidecar = reader.before.side
      PROVE  reader.before.side.text \in seen'
  <2>1. Covers(reader.before.side, raw.text)
    BY <1>2, <1>6 DEF Reading, ReaderAt
  <2>2. sidecar.text \in Published
    BY <1>6, <2>1 DEF Covers, Published
  <2>3. seen' = seen \cup Published
    BY <1>2, <1>4, <1>6, ReadingTypes
  <2>4. QED BY <1>6, <2>2, <2>3
<1>7. pc = "statAgain" => (raw.version = reader.before.version =>
          Covers(reader.before.side, raw.text) /\ Got)
  BY <1>2 DEF Reading, ReaderAt
<1>8. ReaderAt'
  BY <1>2, <1>4, <1>6, <1>7, ReadingTypes DEF ReaderAt, Got, Covers, Parsed
<1>9. ReadsArePublished'
  BY <1>2, <1>4 DEF ReadsArePublished
<1>10. QED BY <1>4, <1>5, <1>8, <1>9 DEF ReadKept

\* What was true of the raw file the reader now knows by its metadata.
LEMMA LookAtRawKeeps == ASSUME Reading, LookAtRaw PROVE ReadKept
<1> DEFINE pc == IF reader.pc = "stat" THEN "lock" ELSE "lockAgain"
<1>1. reader' = [reader EXCEPT !.stat = raw, !.pc = pc] /\ reader.pc \in {"stat", "statAgain"}
  BY DEF LookAtRaw
<1>2. pc \in {"lock", "lockAgain"} /\ (pc = "lockAgain" => reader.pc = "statAgain")
  BY <1>1
<1>3. raw \in FileType
  BY DEF Reading, TypeOK
<1> HIDE DEF pc
<1>4. /\ reader' \in ReaderType /\ reader'.pc = pc /\ reader'.side = reader.side
      /\ reader'.stat = raw /\ reader'.before = reader.before
      /\ reader'.got = reader.got /\ reader'.offset = reader.offset
      /\ reader'.length = reader.length
  BY <1>1, <1>2, <1>3, ReadingTypes DEF ReaderType
<1>5. FilesAreWhole'
  BY <1>4, ReadingTypes DEF FilesAreWhole, Reading
<1>6. VersionsTell'
  BY <1>4, ReadingTypes DEF VersionsTell, Reading, Told
<1>7. pc = "lockAgain" /\ raw.version = reader.before.version =>
          /\ Covers(reader.before.side, raw.text) /\ Got
          /\ reader.side = reader.before.side => reader.before.side.text \in seen
  BY <1>2 DEF Reading, ReaderAt
<1>8. pc = "lockAgain" => seen \subseteq seen'
  BY <1>2, <1>4, ReadingTypes
<1>9. ReaderAt'
  BY <1>2, <1>4, <1>7, <1>8, ReadingTypes DEF ReaderAt, Got, Covers, Parsed
<1>10. ReadsArePublished'
  BY <1>2, <1>4 DEF ReadsArePublished
<1>11. QED BY <1>4, <1>5, <1>6, <1>9, <1>10 DEF ReadKept

LEMMA LookAtLockKeeps == ASSUME Reading, LookAtLock PROVE ReadKept
<1> DEFINE pc == IF reader.pc = "lock" THEN "judge" ELSE "judgeAgain"
<1>1. reader' = [reader EXCEPT !.live = live, !.pc = pc] /\ reader.pc \in {"lock", "lockAgain"}
  BY DEF LookAtLock
<1>2. pc \in {"judge", "judgeAgain"} /\ (pc = "judgeAgain" => reader.pc = "lockAgain")
  BY <1>1
<1>3. live \in BOOLEAN
  BY DEF Reading, TypeOK
<1> HIDE DEF pc
<1>4. /\ reader' \in ReaderType /\ reader'.pc = pc /\ reader'.side = reader.side
      /\ reader'.stat = reader.stat /\ reader'.before = reader.before
      /\ reader'.got = reader.got /\ reader'.offset = reader.offset
      /\ reader'.length = reader.length
  BY <1>1, <1>2, <1>3, ReadingTypes DEF ReaderType
<1>5. FilesAreWhole' /\ VersionsTell'
  BY <1>4, ReadingTypes DEF FilesAreWhole, VersionsTell, Reading
<1>7. pc = "judgeAgain" =>
          /\ raw.version = reader.before.version => Covers(reader.before.side, raw.text)
          /\ reader.stat.version = reader.before.version =>
                Got /\ (reader.side = reader.before.side => reader.before.side.text \in seen)
  BY <1>2 DEF Reading, ReaderAt
<1>8. pc = "judgeAgain" => seen \subseteq seen'
  BY <1>2, <1>4, ReadingTypes
<1>9. ReaderAt'
  BY <1>2, <1>4, <1>7, <1>8, ReadingTypes DEF ReaderAt, Got, Covers, Parsed
<1>10. ReadsArePublished'
  BY <1>2, <1>4 DEF ReadsArePublished
<1>11. QED BY <1>4, <1>5, <1>9, <1>10 DEF ReadKept

\* A reader that goes on has a sidecar that covers the file it looked at.
LEMMA JudgedCovers ==
    ASSUME Reading, reader.stat.version = raw.version,
           ~Refuses(Status(reader.side, reader.stat, reader.live),
                    Len(reader.stat.text), Len(reader.side.text))
    PROVE  Covers(reader.side, raw.text)
<1> DEFINE s == reader.side
           stat == reader.stat
           status == Status(s, stat, reader.live)
<1>1. /\ s \in SidecarType /\ stat \in FileType
      /\ raw.text \in Texts /\ s.text \in Texts /\ stat.text \in Texts
  BY DEF Reading, TypeOK, ReaderType, SidecarType, FileType
<1>2. raw.text = stat.text /\ Told(s, stat)
  BY DEF Reading, VersionsTell, Told
<1>3. (status = "missing" /\ Len(stat.text) = 0) \/ status = "ok"
  BY DEF Refuses
<1>4. CASE Parsed(s)
  <2>1. status \in {"ok", "inconsistent"}
    BY <1>4 DEF Status
  <2>2. status = "ok"
    BY <1>3, <2>1
  <2>3. FastExact(s, stat) \/ MatchesPublishedPrefix(s, raw)
    BY <1>4, <2>2 DEF Status
  <2>4. ASSUME FastExact(s, stat) PROVE Prefix(s.text, raw.text)
    <3>1. CASE s.version # 0
      <4>1. s.text = raw.text
        BY <1>2, <2>4, <3>1 DEF FastExact, Told
      <4>2. QED BY <1>1, <4>1, PrefixBounds
    <3>2. CASE s.version = 0
      <4>1. s.text = <<>>
        BY <3>2 DEF Reading, FilesAreWhole
      <4>2. Prefix(<<>>, raw.text)
        BY <1>1, PrefixBounds
      <4>3. QED BY <4>1, <4>2
    <3>3. QED BY <3>1, <3>2
  <2>5. QED BY <1>4, <2>3, <2>4 DEF Covers, MatchesPublishedPrefix
<1>5. CASE ~Parsed(s)
  <2>1. status = s.kind /\ s.kind \in {"missing", "torn", "parsed"}
    BY <1>1, <1>5 DEF Status, SidecarType
  <2>2. s.text = <<>> /\ Len(stat.text) = 0
    <3>1. s.text = <<>>
      BY <1>5 DEF Reading, FilesAreWhole
    <3>2. QED BY <1>3, <2>1, <3>1
  <2>3. raw.text = <<>>
    BY <1>1, <1>2, <2>2, EmptySeq DEF Texts
  <2>4. QED BY <1>5, <2>2, <2>3 DEF Covers
<1>6. QED BY <1>4, <1>5

LEMMA SnapshotIdIs ==
    ASSUME reader \in ReaderType
    PROVE  /\ SnapshotId \in IdType
           /\ SnapshotId.side = reader.side /\ SnapshotId.version = reader.stat.version
<1> DEFINE st == Status(reader.side, reader.stat, reader.live)
<1>1. /\ reader.side \in SidecarType /\ reader.stat \in FileType
      /\ reader.stat.ino \in 0..3 /\ reader.stat.version \in 0..9
      /\ reader.stat.text \in Texts
  BY DEF ReaderType, FileType
<1>2. st \in StatusType
  <2>1. reader.side.kind \in {"missing", "torn", "parsed"}
    BY <1>1 DEF SidecarType
  <2>2. QED BY <2>1 DEF Status, StatusType, Parsed
<1>3. Len(reader.stat.text) \in Nat
  BY <1>1 DEF Texts
<1>4. SnapshotId = [status |-> st, side |-> reader.side, size |-> Len(reader.stat.text),
                    ino |-> reader.stat.ino, version |-> reader.stat.version]
  BY DEF SnapshotId
<1> HIDE DEF st
<1>5. QED BY <1>1, <1>2, <1>3, <1>4 DEF IdType

LEMMA JudgeKeeps == ASSUME Reading, Judge PROVE ReadKept
<1> DEFINE refuses == Refuses(Status(reader.side, reader.stat, reader.live),
                              Len(reader.stat.text), Len(reader.side.text))
<1>1. reader' = IF refuses THEN [IdleReader EXCEPT !.pc = "error"]
                ELSE [reader EXCEPT !.pc = "read", !.before = SnapshotId]
  BY DEF Judge
<1>2. CASE refuses
  <2>1. reader' = [IdleReader EXCEPT !.pc = "error"]
    BY <1>1, <1>2
  <2>2. /\ reader' \in ReaderType /\ reader'.pc = "error"
        /\ reader'.side = NoSidecar /\ reader'.stat = NoFile
    BY <2>1, IdleReaderIs DEF ReaderType
  <2>3. QED BY <2>2, Forgetting DEF ReadKept
<1>3. CASE ~refuses
  <2> DEFINE id == SnapshotId
  <2>1. id \in IdType /\ id.side = reader.side /\ id.version = reader.stat.version
    BY SnapshotIdIs, ReadingTypes
  <2>2. reader' = [reader EXCEPT !.pc = "read", !.before = id]
    BY <1>1, <1>3
  <2> HIDE DEF id
  <2>3. /\ reader' \in ReaderType /\ reader'.pc = "read" /\ reader'.side = reader.side
        /\ reader'.stat = reader.stat /\ reader'.before = id
    BY <2>1, <2>2, ReadingTypes DEF ReaderType
  <2>4. FilesAreWhole' /\ VersionsTell'
    BY <2>3, ReadingTypes DEF FilesAreWhole, VersionsTell, Reading
  <2>5. raw.version = id.version => Covers(id.side, raw.text)
    BY <1>3, <2>1, JudgedCovers
  <2>6. ReaderAt'
    BY <2>3, <2>5, ReadingTypes DEF ReaderAt, Covers, Parsed
  <2>7. ReadsArePublished'
    BY <2>3 DEF ReadsArePublished
  <2>8. QED BY <2>3, <2>4, <2>6, <2>7 DEF ReadKept
<1>4. QED BY <1>2, <1>3

\* If the file is still the one that was judged, its digits are the published
\* ones.
LEMMA ReadDigitsKeeps == ASSUME Reading, ReadDigits PROVE ReadKept
<1> DEFINE text == reader.before.side.text
           offset == reader.offset
           end == Lesser(offset + reader.length, Len(text))
           e == Greater(offset, Lesser(end, Len(raw.text)))
<1>1. /\ text \in Texts /\ raw.text \in Texts /\ offset \in Nat /\ reader.length \in Nat
      /\ Len(text) \in Nat /\ Len(raw.text) \in Nat
  <2>1. /\ reader.before \in IdType /\ raw \in FileType
        /\ offset \in Nat /\ reader.length \in Nat
    BY DEF Reading, TypeOK, ReaderType
  <2>2. text \in Texts /\ raw.text \in Texts
    BY <2>1 DEF IdType, SidecarType, FileType
  <2>3. QED BY <2>1, <2>2 DEF Texts
<1>2. end \in Nat /\ end <= Len(text)
  BY <1>1 DEF Lesser
<1>3. CASE reader' = [IdleReader EXCEPT !.pc = "error"]
  <2>2. /\ reader' \in ReaderType /\ reader'.pc = "error"
        /\ reader'.side = NoSidecar /\ reader'.stat = NoFile
    BY <1>3, IdleReaderIs DEF ReaderType
  <2>3. QED BY <2>2, Forgetting DEF ReadKept
<1>4. ASSUME NEW got \in Texts, reader' = [reader EXCEPT !.pc = "sideAgain", !.got = got],
             raw.version = reader.before.version => got = Slice(text, offset, end)
      PROVE  ReadKept
  <2>1. /\ reader' \in ReaderType /\ reader'.pc = "sideAgain" /\ reader'.side = reader.side
        /\ reader'.stat = reader.stat /\ reader'.before = reader.before /\ reader'.got = got
        /\ reader'.offset = reader.offset /\ reader'.length = reader.length
    BY <1>4, ReadingTypes DEF ReaderType
  <2>2. FilesAreWhole' /\ VersionsTell'
    BY <2>1, ReadingTypes DEF FilesAreWhole, VersionsTell, Reading
  <2>3. raw.version = reader.before.version => Covers(reader.before.side, raw.text)
    BY DEF Reading, ReaderAt, ReadDigits
  <2>4. ReaderAt'
    BY <1>4, <2>1, <2>3, ReadingTypes DEF ReaderAt, Covers, Parsed, Got
  <2>5. ReadsArePublished'
    BY <2>1 DEF ReadsArePublished
  <2>6. QED BY <2>1, <2>2, <2>4, <2>5 DEF ReadKept
<1>5. CASE end <= offset
  <2>1. reader' = [reader EXCEPT !.pc = "sideAgain", !.got = <<>>]
    BY <1>5 DEF ReadDigits
  <2>2. Slice(text, offset, end) = <<>> /\ <<>> \in Texts
    BY <1>1, <1>2, <1>5, SliceEmpty DEF Texts
  <2>3. QED BY <1>4, <2>1, <2>2
<1>6. CASE end > offset
  <2> DEFINE got == Slice(raw.text, offset, e)
  <2>1. reader' = [IdleReader EXCEPT !.pc = "error"]
          \/ reader' = [reader EXCEPT !.pc = "sideAgain", !.got = got]
    BY <1>1, <1>2, <1>6 DEF ReadDigits
  <2>2. e \in Nat /\ (e = offset \/ e <= Len(raw.text))
    BY <1>1, <1>2 DEF Lesser, Greater
  <2>3. got \in Texts
    <3>1. CASE e = offset
      <4>1. Slice(raw.text, offset, e) = <<>> /\ <<>> \in Texts
        BY <1>1, <2>2, <3>1, SliceEmpty DEF Texts
      <4>2. QED BY <4>1
    <3>2. CASE e <= Len(raw.text)
      <4>1. Prefix(raw.text, raw.text)
        BY <1>1, PrefixBounds
      <4>2. QED BY <1>1, <2>2, <3>2, <4>1, SliceOfPrefix
    <3>3. QED BY <2>2, <3>1, <3>2
  <2>4. ASSUME raw.version = reader.before.version PROVE got = Slice(text, offset, end)
    <3>1. Covers(reader.before.side, raw.text)
      BY <2>4 DEF Reading, ReaderAt, ReadDigits
    <3>2. Len(text) # 0
      BY <1>1, <1>2, <1>6
    <3>3. Prefix(text, raw.text)
      <4>1. text # <<>>
        BY <3>2
      <4>2. QED BY <3>1, <4>1 DEF Covers
    <3>4. Len(text) <= Len(raw.text)
      BY <1>1, <3>3, PrefixBounds
    <3>5. e = end
      BY <1>1, <1>2, <1>6, <3>4 DEF Lesser, Greater
    <3>6. QED BY <1>1, <1>2, <3>3, <3>5, SliceOfPrefix
  <2> HIDE DEF got
  <2>5. QED BY <1>3, <1>4, <2>1, <2>3, <2>4
<1>7. QED BY <1>1, <1>2, <1>5, <1>6

\* Nothing has changed, so the digits are those of one published text.
LEMMA CompareKeeps == ASSUME Reading, Compare PROVE ReadKept
<1>1. /\ reader \in ReaderType /\ reader.offset \in Nat /\ reader.length \in Nat
      /\ reader.got \in Texts /\ reader.attempt \in 1..ReadRetries
  BY ReadingTypes DEF ReaderType
<1>2. CASE SnapshotId = reader.before
  <2> DEFINE o == reader.offset
             l == reader.length
             g == reader.got
  <2>1. reader' = [IdleReader EXCEPT !.pc = "ok", !.offset = o, !.length = l, !.got = g]
    BY <1>2 DEF Compare
  <2>2. o \in Nat /\ l \in Nat /\ g \in Texts
    BY <1>1
  <2>3. /\ reader.side = reader.before.side /\ reader.stat.version = reader.before.version
    BY <1>1, <1>2, SnapshotIdIs
  <2>4. Got /\ reader.before.side.text \in seen
    BY <2>3 DEF Reading, ReaderAt, Compare
  <2> HIDE DEF o, l, g
  <2>5. /\ reader' \in ReaderType /\ reader'.pc = "ok" /\ reader'.side = NoSidecar
        /\ reader'.stat = NoFile /\ reader'.offset = o /\ reader'.length = l /\ reader'.got = g
    BY <2>1, <2>2, IdleReaderIs DEF ReaderType
  <2>6. seen \subseteq seen'
    <3>1. reader.pc # "idle"
      BY DEF Compare
    <3>2. QED BY <2>5, <3>1, ReadingTypes
  <2>7. ReadsArePublished'
    BY <2>4, <2>5, <2>6 DEF ReadsArePublished, Got, o, l, g
  <2>8. QED BY <2>5, <2>7, Forgetting DEF ReadKept
<1>3. CASE SnapshotId # reader.before
  <2>1. reader' \in ReaderType /\ reader'.pc \in {"side", "error"}
        /\ reader'.side = NoSidecar /\ reader'.stat = NoFile
    <3>1. CASE reader.attempt = ReadRetries
      <4>1. reader' = [IdleReader EXCEPT !.pc = "error"]
        BY <1>3, <3>1 DEF Compare
      <4>2. QED BY <4>1, IdleReaderIs DEF ReaderType
    <3>2. CASE reader.attempt # ReadRetries
      <4> DEFINE o == reader.offset
                 l == reader.length
                 a == reader.attempt + 1
      <4>1. reader' = [IdleReader EXCEPT !.pc = "side", !.offset = o, !.length = l,
                                         !.attempt = a]
        BY <1>3, <3>2 DEF Compare
      <4>2. o \in Nat /\ l \in Nat /\ a \in 1..ReadRetries
        BY <1>1, <3>2, RetriesAssumption
      <4> HIDE DEF o, l, a
      <4>3. QED BY <4>1, <4>2, IdleReaderIs DEF ReaderType
    <3>3. QED BY <3>1, <3>2
  <2>2. QED BY <2>1, Forgetting DEF ReadKept
<1>4. QED BY <1>2, <1>3

LEMMA ReaderStepKeeps == ASSUME Reading, ReaderStep PROVE ReadKept
BY BeginReadKeeps, LookAtSidecarKeeps, LookAtRawKeeps, LookAtLockKeeps, JudgeKeeps,
   ReadDigitsKeeps, CompareKeeps, EndReadKeeps DEF ReaderStep

-----------------------------------------------------------------------------
(* What writers, and those who die or cut digits off, leave.               *)

\* Every step of theirs leaves the setup and the reader alone.
Writing ==
    /\ WriterPart
    /\ setup' = setup /\ reader' = reader
    /\ overlaid' = (overlaid \/ Overlays)
Left == WriterPart' /\ FileStep

LEMMA WritingTypes ==
    ASSUME WriterPart
    PROVE  /\ raw \in FileType /\ previousRaw \in FileType
           /\ sidecar \in SidecarType /\ previousSidecar \in SidecarType
           /\ raw.text \in Texts /\ previousRaw.text \in Texts
           /\ sidecar.text \in Texts /\ previousSidecar.text \in Texts
           /\ raw.ino \in 0..3 /\ sidecar.ino \in 0..3 /\ previousRaw.ino \in 0..3
           /\ sidecar.kind # "torn"
           /\ writer \in WriterType /\ writer.text \in Texts
           /\ live = (writer.pc # "idle") /\ damage \in Nat
BY DEF WriterPart, TypeOK, FileType, SidecarType, WriterType

LEMMA GotoIs ==
    ASSUME writer \in WriterType, NEW pc \in WriterPlaces, Goto(pc)
    PROVE  /\ writer' \in WriterType
           /\ writer'.pc = pc /\ writer'.op = writer.op /\ writer'.text = writer.text
BY DEF Goto, WriterType

LEMMA GoneIs ==
    ASSUME Gone
    PROVE  /\ writer' \in WriterType /\ live' = (writer'.pc # "idle")
           /\ writer'.pc = "idle" /\ writer'.op = "none"
<1>1. <<>> \in Texts
  BY DEF Texts
<1>2. QED BY <1>1 DEF Gone, IdleWriter, WriterType, WriterPlaces

\* Nobody is anywhere when the writer is gone.
LEMMA GoneKeeps ==
    ASSUME Gone, setup' = setup,
           setup.imports = {} => previousSidecar' = NoSidecar /\ previousRaw' = NoFile
                                 /\ Named' /\ ~overlaid'
    PROVE  Calls' /\ WriterAt' /\ NoBackups'
<1>1. writer'.pc = "idle" /\ writer'.op = "none"
  BY GoneIs
<1>2. Calls'
  BY <1>1 DEF Calls, Importing, Repairing, Cleaning
<1>3. WriterAt'
  BY <1>1 DEF WriterAt, Importing, Cleaning
<1>4. NoBackups'
  BY <1>1 DEF NoBackups
<1>5. QED BY <1>2, <1>3, <1>4

\* What says nothing of the writer stays true while the files stay.
LEMMA StillFiles ==
    ASSUME Writing, UNCHANGED files, UNCHANGED damage
    PROVE  /\ FileStep /\ FilesAreWhole' /\ BackupIsWhole' /\ WayBack'
           /\ committed' = committed => CommittedIsDescribed'
           /\ overlaid' = overlaid /\ damage' \in Nat
           /\ setup' \in Setups
           /\ setup.imports = {} => previousSidecar' = NoSidecar /\ previousRaw' = NoFile
                                    /\ Named' /\ ~overlaid'
           /\ \A b \in BOOLEAN, s \in WriterType :
                  live' = b /\ writer' = s /\ b = (s.pc # "idle")
                  /\ committed' \in Texts \cup {NoText} => TypeOK'
<1>1. /\ raw' = raw /\ sidecar' = sidecar /\ previousRaw' = previousRaw
      /\ previousSidecar' = previousSidecar /\ reader' = reader /\ setup' = setup
  BY DEF files, Writing
<1>2. overlaid' = overlaid
  <2>1. overlaid \in BOOLEAN /\ ~Overlays
    BY <1>1 DEF Overlays, Writing, WriterPart, TypeOK
  <2>2. QED BY <2>1 DEF Writing
<1>3. FileStep
  BY <1>1 DEF FileStep
<1>4. FilesAreWhole'
  BY <1>1 DEF Writing, WriterPart, FilesAreWhole, Parsed
<1>5. BackupIsWhole'
  BY <1>1 DEF Writing, WriterPart, BackupIsWhole, Parsed
<1>6. WayBack'
  BY <1>1, <1>2 DEF Writing, WriterPart, WayBack, Backed, Exact, Named, MatchesExact, Parsed,
                    Prefix, Present
<1>7. committed' = committed => CommittedIsDescribed'
  BY <1>1, <1>2 DEF Writing, WriterPart, CommittedIsDescribed, Undisturbed, Parsed
<1>8. setup' \in Setups /\ damage' \in Nat
  BY <1>1 DEF Writing, WriterPart
<1>9. setup.imports = {} => previousSidecar' = NoSidecar /\ previousRaw' = NoFile
                            /\ Named' /\ ~overlaid'
  BY <1>1, <1>2 DEF Writing, WriterPart, NoBackups, Named
<1>10. ASSUME NEW b \in BOOLEAN, NEW s \in WriterType, live' = b, writer' = s,
              b = (s.pc # "idle"), committed' \in Texts \cup {NoText}
       PROVE  TypeOK'
  BY <1>1, <1>2, <1>10 DEF Writing, WriterPart, TypeOK
<1>11. QED BY <1>2, <1>3, <1>4, <1>5, <1>6, <1>7, <1>8, <1>9, <1>10

\* A call begins.
LEMMA BeginWriteLeaves == ASSUME Writing, BeginWrite PROVE Left
<1>1. /\ UNCHANGED files /\ damage' = damage /\ committed' = committed
      /\ live' = TRUE /\ writer' \in Operations
  BY DEF BeginWrite
<1>2. /\ setup.appends \subseteq Texts /\ setup.continuations \subseteq Texts
      /\ setup.imports \subseteq Texts
  BY SetupsAssumption DEF Writing, WriterPart, Texts
<1>3. <<>> \in Texts
  BY DEF Texts
<1>4. /\ writer' \in WriterType
      /\ writer'.pc \in {"check", "inspect"}
      /\ writer'.pc = "check" => writer'.op \in {"append", "continue", "replace"}
      /\ writer'.pc = "inspect" => writer'.op \in {"repair", "force"}
      /\ setup.imports = {} => writer'.op # "replace"
  <2>1. CASE writer' \in [pc : {"check"}, op : {"append"}, text : setup.appends]
    BY <1>2, <2>1 DEF WriterType, WriterPlaces
  <2>2. CASE writer' \in [pc : {"check"}, op : {"continue"}, text : setup.continuations]
    BY <1>2, <2>2 DEF WriterType, WriterPlaces
  <2>3. CASE writer' \in [pc : {"check"}, op : {"replace"}, text : setup.imports]
    BY <1>2, <2>3 DEF WriterType, WriterPlaces
  <2>4. CASE writer' \in [pc : {"inspect"},
                          op : {IF force THEN "force" ELSE "repair" : force \in setup.repairs},
                          text : {<<>>}]
    <3>1. \A op \in {IF force THEN "force" ELSE "repair" : force \in setup.repairs} :
              op \in {"repair", "force"}
      OBVIOUS
    <3>2. QED BY <1>3, <2>4, <3>1 DEF WriterType, WriterPlaces
  <2>5. QED BY <1>1, <2>1, <2>2, <2>3, <2>4 DEF Operations
<1>5. TypeOK'
  <2>1. live' = TRUE /\ TRUE = (writer'.pc # "idle") /\ committed' \in Texts \cup {NoText}
    BY <1>1, <1>4 DEF Writing, WriterPart, TypeOK
  <2>2. QED BY <1>1, <1>4, <2>1, StillFiles
<1>6. Calls'
  BY <1>4 DEF Calls, Importing, Repairing, Cleaning
<1>7. WriterAt'
  BY <1>4 DEF WriterAt, Importing, Cleaning
<1>8. NoBackups'
  BY <1>1, <1>4, StillFiles DEF NoBackups, Writing
<1>9. QED BY <1>1, <1>5, <1>6, <1>7, <1>8, StillFiles DEF Left, WriterPart

\* A writer fails or dies.
LEMMA FaultLeaves == ASSUME Writing, Fault PROVE Left
<1>1. UNCHANGED files /\ damage' = damage /\ committed' = committed /\ Gone
  BY DEF Fault
<1>2. TypeOK'
  <2>1. live' = (writer'.pc # "idle") /\ live' \in BOOLEAN /\ writer' \in WriterType
    BY <1>1, GoneIs
  <2>2. committed' \in Texts \cup {NoText}
    BY <1>1 DEF Writing, WriterPart, TypeOK
  <2>3. QED BY <1>1, <2>1, <2>2, StillFiles
<1>3. Calls' /\ WriterAt' /\ NoBackups'
  BY <1>1, GoneKeeps, StillFiles DEF Writing
<1>4. QED BY <1>1, <1>2, <1>3, StillFiles DEF Left, WriterPart

\* A call returns.
LEMMA ReleaseLeaves == ASSUME Writing, Release PROVE Left
<1>1. /\ UNCHANGED files /\ damage' = damage /\ Gone /\ writer.pc = "release"
      /\ committed' = IF writer.op \in {"repair", "force"} THEN raw.text ELSE committed
  BY DEF Release, bounds
<1>2. TypeOK'
  <2>1. live' = (writer'.pc # "idle") /\ live' \in BOOLEAN /\ writer' \in WriterType
    BY <1>1, GoneIs
  <2>2. committed \in Texts \cup {NoText} /\ raw.text \in Texts
    BY WritingTypes DEF Writing, WriterPart, TypeOK
  <2>3. committed' \in Texts \cup {NoText}
    BY <1>1, <2>2
  <2>4. QED BY <1>1, <2>1, <2>3, StillFiles
<1>3. Calls' /\ WriterAt' /\ NoBackups'
  BY <1>1, GoneKeeps, StillFiles DEF Writing
<1>4. CommittedIsDescribed'
  <2>1. CASE writer.op \in {"repair", "force"}
    <3>1. Exact /\ committed' = raw.text /\ sidecar' = sidecar
      BY <1>1, <2>1 DEF Writing, WriterPart, WriterAt, files
    <3>2. QED BY <3>1 DEF CommittedIsDescribed, Exact, MatchesExact, Parsed
  <2>2. CASE writer.op \notin {"repair", "force"}
    BY <1>1, <2>2, StillFiles
  <2>3. QED BY <2>1, <2>2
<1>5. QED BY <1>1, <1>2, <1>3, <1>4, StillFiles DEF Left, WriterPart

\* A writer moves on and leaves the files alone: what is left to show.
LEMMA OnlyMoves ==
    ASSUME Writing, UNCHANGED <<files, live, committed, damage>>, writer.pc # "idle",
           NEW pc \in WriterPlaces \ {"idle"}, Goto(pc),
           Calls', WriterAt',
           setup.imports = {} => pc \notin {"restoreRaw", "restoreSidecar"}
    PROVE  Left
<1>1. /\ writer' \in WriterType /\ writer'.pc = pc /\ writer'.op = writer.op
  BY WritingTypes, GotoIs DEF Writing
<1>2. live' = (writer'.pc # "idle") /\ live' \in BOOLEAN
  BY <1>1, WritingTypes DEF Writing
<1>3. committed' \in Texts \cup {NoText}
  BY DEF Writing, WriterPart, TypeOK
<1>4. TypeOK'
  BY <1>1, <1>2, <1>3, StillFiles
<1>5. NoBackups'
  BY <1>1, StillFiles DEF NoBackups, Writing, WriterPart
<1>6. QED BY <1>4, <1>5, StillFiles DEF Left, WriterPart

\* Which way a repair takes, it can take.
LEMMA InspectLeaves == ASSUME Writing, Inspect PROVE Left
<1> DEFINE plan == RepairPlan(writer.op = "force")
<1>1. /\ UNCHANGED <<files, committed>> /\ damage' = damage /\ writer.pc = "inspect"
      /\ IF plan = "fail" THEN Gone ELSE Goto(plan) /\ live' = live
  BY DEF Inspect, bounds
<1>2. CASE plan = "fail"
  <2>1. Gone
    BY <1>1, <1>2
  <2>2. TypeOK'
    <3>1. live' = (writer'.pc # "idle") /\ live' \in BOOLEAN /\ writer' \in WriterType
      BY <2>1, GoneIs
    <3>2. committed' \in Texts \cup {NoText}
      BY <1>1 DEF Writing, WriterPart, TypeOK
    <3>3. QED BY <1>1, <3>1, <3>2, StillFiles
  <2>3. Calls' /\ WriterAt' /\ NoBackups'
    BY <1>1, <2>1, GoneKeeps, StillFiles DEF Writing
  <2>4. QED BY <1>1, <2>2, <2>3, StillFiles DEF Left, WriterPart
<1>3. CASE plan # "fail"
  <2>1. plan \in {"resign", "restoreRaw", "truncate"}
    BY <1>3 DEF RepairPlan
  <2>2. Goto(plan) /\ live' = live
    BY <1>1, <1>3
  <2>3. plan = "restoreRaw" => Backed /\ ~Exact
    BY DEF RepairPlan, Backed, Exact
  <2>4. plan = "truncate" => Parsed(sidecar) /\ ~Backed /\ ~Exact /\ Present(raw)
    <3>1. ASSUME plan = "truncate"
          PROVE  ~Backed /\ ~Exact /\ MatchesPublishedPrefix(sidecar, raw)
      BY <3>1 DEF RepairPlan, Backed, Exact
    <3>2. ASSUME plan = "truncate" PROVE Present(raw)
      <4>1. SUFFICES ASSUME raw.ino = 0 PROVE FALSE
        BY DEF Present
      <4>2. raw.text = <<>>
        BY <4>1, NoFiles DEF Writing, WriterPart, FilesAreWhole
      <4>3. Prefix(sidecar.text, raw.text) /\ Parsed(sidecar)
        BY <3>1, <3>2 DEF MatchesPublishedPrefix
      <4>4. Len(sidecar.text) <= 0 /\ Len(sidecar.text) \in Nat
        BY <4>2, <4>3, WritingTypes DEF Prefix, Writing, Texts
      <4>5. sidecar.text = <<>>
        BY <4>4, WritingTypes, EmptySeq DEF Writing, Texts
      <4>6. QED BY <3>1, <3>2, <4>2, <4>3, <4>5 DEF Exact, MatchesExact
    <3>3. QED BY <3>1, <3>2 DEF MatchesPublishedPrefix
  <2>5. plan = "resign" /\ Undisturbed /\ Parsed(sidecar) => Exact
    <3>1. SUFFICES ASSUME plan = "resign", Undisturbed, Parsed(sidecar), ~Exact
                   PROVE  FALSE
      OBVIOUS
    <3>2. ~Backed /\ ~MatchesPublishedPrefix(sidecar, raw)
      BY <3>1 DEF RepairPlan, Exact, Backed
    <3>3. Prefix(sidecar.text, raw.text) /\ Named
      BY <3>1, <3>2 DEF Writing, WriterPart, WayBack, Undisturbed
    <3>4. QED BY <3>1, <3>2, <3>3 DEF MatchesPublishedPrefix, Named
  <2>6. writer.op \in {"repair", "force"}
    BY <1>1 DEF Writing, WriterPart, Calls, Repairing
  <2>7. setup.imports = {} => plan # "restoreRaw"
    BY <2>3, NoSidecars DEF Writing, WriterPart, NoBackups, Backed, MatchesExact, Parsed
  <2> HIDE DEF plan
  <2>8. plan \in WriterPlaces \ {"idle"}
    BY <2>1 DEF WriterPlaces
  <2>9. writer'.pc = plan /\ writer'.op = writer.op
    BY <2>2, <2>8, GotoIs, WritingTypes DEF Writing
  <2>10. /\ raw' = raw /\ sidecar' = sidecar /\ previousRaw' = previousRaw
         /\ previousSidecar' = previousSidecar /\ overlaid' = overlaid
    BY <1>1, StillFiles DEF files
  <2>11. Calls'
    BY <2>1, <2>6, <2>9 DEF Calls, Importing, Repairing, Cleaning
  <2>12. WriterAt'
    BY <1>1, <2>1, <2>3, <2>4, <2>5, <2>9, <2>10
       DEF WriterAt, Importing, Cleaning, Parsed, Backed, Exact, MatchesExact,
           Undisturbed, Present
  <2>13. QED BY <1>1, <2>1, <2>2, <2>7, <2>8, <2>11, <2>12, OnlyMoves
<1>4. QED BY <1>2, <1>3

\* The types, where the writer moves on and the files stay files.
LEMMA MovesTyped ==
    ASSUME Writing, UNCHANGED live, writer.pc # "idle",
           NEW pc \in WriterPlaces \ {"idle"},
           writer' \in WriterType, writer'.pc = pc,
           raw' \in FileType, previousRaw' \in FileType,
           sidecar' \in SidecarType, sidecar'.kind # "torn",
           previousSidecar' \in SidecarType,
           committed' \in Texts \cup {NoText}
    PROVE  TypeOK' /\ setup' \in Setups
<1>1. live' = (writer'.pc # "idle")
  BY WritingTypes DEF Writing
<1>2. reader' \in ReaderType /\ overlaid' \in BOOLEAN
  BY DEF Writing, WriterPart, TypeOK, Overlays, MatchesExact, Leftovers, Parsed
<1>3. setup' \in Setups
  BY DEF Writing, WriterPart
<1>4. QED BY <1>1, <1>2, <1>3 DEF TypeOK

\* The digits of the batch go to the end of the raw file; without one a new file
\* is made, and the texts are as they were.
LEMMA SameTexts ==
    ASSUME Writing, raw' \in FileType, raw'.text = raw.text,
           raw'.ino = raw.ino \/ (raw = NoFile /\ raw'.ino # 0),
           raw' = raw \/ (raw'.version = FreshVersion /\ raw'.ino # 0),
           UNCHANGED <<sidecar, previousRaw, previousSidecar, committed, damage>>
    PROVE  /\ FileStep /\ FilesAreWhole' /\ BackupIsWhole' /\ WayBack' /\ CommittedIsDescribed'
           /\ overlaid' = overlaid /\ damage' \in Nat
           /\ NoBackups' <=> (setup.imports = {} =>
                 writer'.op # "replace" /\ writer'.pc \notin {"restoreRaw", "restoreSidecar"})
<1>1. /\ sidecar' = sidecar /\ previousRaw' = previousRaw
      /\ previousSidecar' = previousSidecar /\ reader' = reader /\ setup' = setup
  BY DEF Writing
<1>2. overlaid' = overlaid
  <2>1. overlaid \in BOOLEAN /\ ~Overlays
    BY DEF Overlays, Writing, WriterPart, TypeOK
  <2>2. QED BY <2>1 DEF Writing
<1>3. FileStep
  BY <1>1 DEF FileStep
<1>4. raw = NoFile => sidecar.ino = 0
  BY DEF Writing, WriterPart, FilesAreWhole
<1>5. Named => Named'
  BY <1>1, <1>4 DEF Named
<1>6. FilesAreWhole'
  <2>1. raw'.ino = 0 => raw' = NoFile
    <3>1. SUFFICES ASSUME raw'.ino = 0 PROVE raw' = NoFile
      OBVIOUS
    <3>2. raw = NoFile /\ raw'.ino = raw.ino
      BY <3>1 DEF Writing, WriterPart, FilesAreWhole
    <3>3. QED BY <3>1, <3>2
  <2>2. raw'.version = 0 => raw'.text = <<>>
    BY FreshVersionIs DEF Writing, WriterPart, FilesAreWhole
  <2>3. raw' = NoFile => sidecar'.ino = 0
    BY <1>1, <1>4, NoFiles DEF Writing, WriterPart, FilesAreWhole
  <2>4. QED BY <1>1, <2>1, <2>2, <2>3 DEF Writing, WriterPart, FilesAreWhole, Parsed
<1>7. BackupIsWhole'
  BY <1>1 DEF Writing, WriterPart, BackupIsWhole, Parsed
<1>8. WayBack'
  <2>1. (Backed <=> Backed') /\ (Exact <=> Exact') /\ (Present(previousRaw) <=> Present(previousRaw'))
    BY <1>1 DEF Backed, Exact, MatchesExact, Parsed, Present
  <2>2. QED BY <1>1, <1>2, <1>5, <2>1 DEF Writing, WriterPart, WayBack, Prefix, Parsed, Present
<1>9. CommittedIsDescribed'
  BY <1>1, <1>2 DEF Writing, WriterPart, CommittedIsDescribed, Undisturbed, Parsed
<1>10. NoBackups' <=> (setup.imports = {} =>
           writer'.op # "replace" /\ writer'.pc \notin {"restoreRaw", "restoreSidecar"})
  BY <1>1, <1>2, <1>5 DEF Writing, WriterPart, NoBackups
<1>11. damage' \in Nat
  BY DEF Writing, WriterPart
<1>12. QED BY <1>2, <1>3, <1>6, <1>7, <1>8, <1>9, <1>10, <1>11

\* A writable cache describes its raw file, or nothing is described.
LEMMA WritableIs ==
    ASSUME WriterPart, Writable
    PROVE  Parsed(sidecar) => Exact
BY DEF Writable, Parsed, Exact, MatchesExact

LEMMA CheckLeaves == ASSUME Writing, Check PROVE Left
<1> DEFINE refused == ~Writable \/ (writer.op = "continue" /\ ~Prefix(raw.text, writer.text))
<1>1. /\ writer.pc = "check" /\ damage' = damage /\ committed' = committed
      /\ writer.pc # "idle"
      /\ writer.op \in {"append", "continue", "replace"}
      /\ writer.op = "replace" => setup.imports # {}
  BY DEF Check, bounds, Writing, WriterPart, Calls, NoBackups
<1>2. CASE refused
  <2>1. Gone /\ UNCHANGED files
    BY <1>2 DEF Check
  <2>2. TypeOK'
    <3>1. live' = (writer'.pc # "idle") /\ live' \in BOOLEAN /\ writer' \in WriterType
      BY <2>1, GoneIs
    <3>2. committed' \in Texts \cup {NoText}
      BY <1>1 DEF Writing, WriterPart, TypeOK
    <3>3. QED BY <1>1, <2>1, <3>1, <3>2, StillFiles
  <2>3. Calls' /\ WriterAt' /\ NoBackups'
    BY <1>1, <2>1, GoneKeeps, StillFiles DEF Writing
  <2>4. QED BY <1>1, <2>1, <2>2, <2>3, StillFiles DEF Left, WriterPart
<1>3. CASE ~refused /\ writer.op = "replace"
  <2>1. Goto("clearRaw") /\ UNCHANGED files /\ live' = live /\ Writable
    BY <1>3 DEF Check
  <2>2. "clearRaw" \in WriterPlaces \ {"idle"}
    BY DEF WriterPlaces
  <2>3. writer'.pc = "clearRaw" /\ writer'.op = "replace"
    BY <1>3, <2>1, <2>2, GotoIs, WritingTypes DEF Writing
  <2>4. Calls'
    BY <2>3 DEF Calls, Importing, Repairing, Cleaning
  <2>5. Writable'
    BY <2>1 DEF Writable, MatchesExact, Parsed, files
  <2>6. WriterAt'
    BY <2>3, <2>5 DEF WriterAt, Importing, Cleaning
  <2>7. QED BY <1>1, <2>1, <2>2, <2>4, <2>6, OnlyMoves
<1>4. CASE ~refused /\ writer.op = "continue" /\ writer.text = raw.text
  <2>1. Goto("release") /\ UNCHANGED files /\ live' = live
    BY <1>4 DEF Check
  <2>2. "release" \in WriterPlaces \ {"idle"}
    BY DEF WriterPlaces
  <2>3. writer'.pc = "release" /\ writer'.op = "continue"
    BY <1>4, <2>1, <2>2, GotoIs, WritingTypes DEF Writing
  <2>4. Calls'
    BY <2>3 DEF Calls, Importing, Repairing, Cleaning
  <2>5. WriterAt'
    BY <2>3 DEF WriterAt, Importing, Cleaning
  <2>6. QED BY <1>1, <2>1, <2>2, <2>4, <2>5, OnlyMoves
<1>5. CASE ~refused /\ writer.op # "replace" /\ ~(writer.op = "continue" /\ writer.text = raw.text)
  <2> DEFINE text == IF writer.op = "continue"
                     THEN Slice(writer.text, Len(raw.text), Len(writer.text)) ELSE writer.text
  <2>1. /\ UNCHANGED live /\ Writable
        /\ writer' = [writer EXCEPT !.pc = "append", !.text = text]
        /\ raw' = IF Present(raw) THEN raw ELSE NewFile(<<>>)
        /\ UNCHANGED <<sidecar, previousRaw, previousSidecar>>
    BY <1>5 DEF Check
  <2>2. text \in Texts
    <3>1. writer.text \in Texts /\ raw.text \in Texts
      BY WritingTypes DEF Writing
    <3>2. Len(raw.text) \in Nat /\ Len(writer.text) \in Nat
      BY <3>1 DEF Texts
    <3>3. Prefix(writer.text, writer.text)
      BY <3>1, PrefixBounds
    <3>4. Slice(writer.text, Len(raw.text), Len(writer.text)) \in Texts
      BY <3>1, <3>2, <3>3, SliceOfPrefix
    <3>5. QED BY <3>1, <3>4
  <2> HIDE DEF text
  <2>3. writer' \in WriterType /\ writer'.pc = "append" /\ writer'.op = writer.op
    BY <2>1, <2>2, WritingTypes DEF Writing, WriterType, WriterPlaces
  <2>4. <<>> \in Texts
    BY DEF Texts
  <2>5. /\ raw' \in FileType /\ raw'.text = raw.text /\ raw'.ino # 0
        /\ raw'.ino = raw.ino \/ raw = NoFile
        /\ raw' = raw \/ raw'.version = FreshVersion
    <3>1. CASE Present(raw)
      BY <2>1, <3>1, WritingTypes DEF Writing, Present
    <3>2. CASE ~Present(raw)
      <4>1. raw = NoFile /\ raw.text = <<>>
        BY <3>2, NoFiles DEF Present, Writing, WriterPart, FilesAreWhole
      <4>2. QED BY <2>1, <2>4, <3>2, <4>1, NewFileIs
    <3>3. QED BY <3>1, <3>2
  <2>6. /\ FileStep /\ FilesAreWhole' /\ BackupIsWhole' /\ WayBack' /\ CommittedIsDescribed'
        /\ damage' \in Nat
        /\ NoBackups' <=> (setup.imports = {} =>
              writer'.op # "replace" /\ writer'.pc \notin {"restoreRaw", "restoreSidecar"})
    BY <1>1, <2>1, <2>5, SameTexts
  <2>7. "append" \in WriterPlaces \ {"idle"}
    BY DEF WriterPlaces
  <2>8. TypeOK' /\ setup' \in Setups
    <3>1. /\ previousRaw' \in FileType /\ sidecar' \in SidecarType /\ sidecar'.kind # "torn"
          /\ previousSidecar' \in SidecarType
      BY <2>1, WritingTypes DEF Writing
    <3>2. committed' \in Texts \cup {NoText}
      BY <1>1 DEF Writing, WriterPart, TypeOK
    <3>3. QED BY <1>1, <2>1, <2>3, <2>5, <2>7, <3>1, <3>2, MovesTyped
  <2>9. Calls'
    BY <1>1, <1>5, <2>3 DEF Calls, Importing, Repairing, Cleaning
  <2>10. Parsed(sidecar) => Prefix(sidecar.text, raw.text)
    BY <2>1, WritableIs, WritingTypes, PrefixBounds DEF Writing, Exact, MatchesExact
  <2>11. WriterAt'
    BY <2>1, <2>3, <2>5, <2>10 DEF WriterAt, Importing, Cleaning, Present, Parsed, Prefix
  <2>12. NoBackups'
    BY <1>5, <2>3, <2>6
  <2>13. QED BY <2>6, <2>8, <2>9, <2>11, <2>12 DEF Left, WriterPart
<1>6. QED BY <1>2, <1>3, <1>4, <1>5

\* Digits are appended to what is published, or to what was.
LEMMA AppendDigitsLeaves == ASSUME Writing, AppendDigits PROVE Left
<1>1. /\ writer.pc = "append" /\ writer.pc # "idle" /\ damage' = damage
      /\ committed' = committed /\ live' = live
      /\ previousRaw' = previousRaw /\ sidecar' = sidecar /\ previousSidecar' = previousSidecar
      /\ reader' = reader /\ setup' = setup
  BY DEF AppendDigits, bounds, Writing
<1>2. /\ writer.op \in {"append", "continue"} /\ Present(raw)
      /\ Parsed(sidecar) => Prefix(sidecar.text, raw.text)
  BY <1>1 DEF Writing, WriterPart, Calls, WriterAt
<1>3. CASE writer.text = <<>>
  <2>1. Goto("publish") /\ UNCHANGED files
    BY <1>1, <1>3 DEF AppendDigits, files
  <2>2. "publish" \in WriterPlaces \ {"idle"}
    BY DEF WriterPlaces
  <2>3. writer'.pc = "publish" /\ writer'.op = writer.op
    BY <2>1, <2>2, GotoIs, WritingTypes DEF Writing
  <2>4. Calls'
    BY <1>2, <2>3 DEF Calls, Importing, Repairing, Cleaning
  <2>5. WriterAt'
    BY <2>3 DEF WriterAt, Importing, Cleaning
  <2>6. QED BY <1>1, <2>1, <2>2, <2>4, <2>5, OnlyMoves
<1>4. CASE writer.text # <<>>
  <2> DEFINE d == Head(writer.text)
             rest == Tail(writer.text)
             text == Append(raw.text, d)
  <2>1. raw' = Rewritten(raw, text) /\ writer' = [writer EXCEPT !.text = rest]
    BY <1>4 DEF AppendDigits
  <2>2. d \in Digits /\ rest \in Texts
    BY <1>4, WritingTypes, HeadTailProperties DEF Texts, Writing
  <2>3. text \in Texts /\ Len(text) = Len(raw.text) + 1 /\ Len(raw.text) \in Nat
    BY <2>2, WritingTypes, AppendProperties DEF Texts, Writing
  <2>4. Parsed(sidecar) => Prefix(sidecar.text, text)
    BY <1>2, <2>2, WritingTypes, PrefixGrows DEF Writing
  <2> HIDE DEF d, rest, text
  <2>5. /\ writer' \in WriterType /\ writer'.pc = "append" /\ writer'.op = writer.op
    BY <1>1, <2>1, <2>2, WritingTypes DEF WriterType, Writing
  <2>6. /\ raw' \in FileType /\ raw'.text = text /\ raw'.ino = raw.ino
        /\ raw'.version = FreshVersion /\ raw'.ino # 0 /\ raw.ino # 0
    BY <1>2, <2>1, <2>3, WritingTypes, RewrittenIs DEF Writing, Present
  <2>7. raw'.text # raw.text
    BY <2>3, <2>6
  <2>8. ~overlaid' => ~overlaid /\ (Exact => ~Backed /\ Named)
    BY <1>1, <2>7 DEF Writing, Overlays, Leftovers, Exact, Backed, Named
  <2>9. ~overlaid' /\ ~Backed /\ Parsed(sidecar) => Named
    <3>1. SUFFICES ASSUME ~overlaid', ~Backed, Parsed(sidecar), ~Exact PROVE Named
      BY <2>8
    <3>2. Len(sidecar.text) <= Len(raw.text) /\ Len(sidecar.text) \in Nat
      BY <1>2, <3>1, WritingTypes DEF Prefix, Writing, Texts
    <3>3. (Prefix(sidecar.text, raw.text) /\ Named) \/ Len(raw.text) < Len(sidecar.text)
      BY <2>8, <3>1 DEF Writing, WriterPart, WayBack
    <3>4. QED BY <2>3, <3>2, <3>3
  <2>10. FileStep
    BY <1>1, <2>6 DEF FileStep
  <2>11. FilesAreWhole'
    BY <1>1, <2>6, NoFiles, FreshVersionIs DEF Writing, WriterPart, FilesAreWhole, Parsed
  <2>12. Calls'
    BY <1>2, <2>5 DEF Calls, Importing, Repairing, Cleaning
  <2>13. WriterAt'
    BY <1>1, <2>4, <2>5, <2>6 DEF WriterAt, Importing, Cleaning, Present, Parsed, Prefix
  <2>14. BackupIsWhole'
    BY <1>1 DEF Writing, WriterPart, BackupIsWhole, Parsed
  <2>15. WayBack'
    <3>1. SUFFICES ASSUME ~overlaid'
                   PROVE  WayBack'
      BY DEF WayBack
    <3>2. Backed' <=> Backed
      BY <1>1 DEF Backed, MatchesExact, Parsed
    <3>3. Backed => /\ Parsed(sidecar) /\ sidecar.text = previousSidecar.text
                    /\ Present(previousRaw) \/ previousSidecar.ino = 0
      BY <2>8, <3>1 DEF Writing, WriterPart, WayBack
    <3>4. ~Backed /\ Parsed(sidecar) => Prefix(sidecar.text, raw'.text) /\ Named'
      BY <1>1, <2>4, <2>6, <2>9, <3>1 DEF Named
    <3>5. QED BY <1>1, <3>2, <3>3, <3>4 DEF WayBack, Parsed, Prefix, Present
  <2>16. CommittedIsDescribed'
    BY <1>1, <2>8 DEF Writing, WriterPart, CommittedIsDescribed, Undisturbed, Parsed
  <2>17. NoBackups'
    <3>1. setup.imports = {} => ~Backed /\ Named /\ ~overlaid
      BY NoSidecars DEF Writing, WriterPart, NoBackups, Backed, MatchesExact, Parsed
    <3>2. setup.imports = {} => ~overlaid'
      BY <3>1 DEF Writing, Overlays, Leftovers, Backed, Named
    <3>3. QED BY <1>1, <2>5, <2>6, <3>2 DEF Writing, WriterPart, NoBackups, Named
  <2>18. TypeOK' /\ setup' \in Setups
    <3>1. committed' \in Texts \cup {NoText} /\ "append" \in WriterPlaces \ {"idle"}
      BY <1>1 DEF Writing, WriterPart, TypeOK, WriterPlaces
    <3>2. previousRaw' \in FileType /\ sidecar' \in SidecarType /\ sidecar'.kind # "torn"
          /\ previousSidecar' \in SidecarType
      BY <1>1, WritingTypes DEF Writing
    <3>3. QED BY <1>1, <2>5, <2>6, <3>1, <3>2, MovesTyped
  <2>19. damage' \in Nat
    BY <1>1 DEF Writing, WriterPart
  <2>20. QED BY <2>10, <2>11, <2>12, <2>13, <2>14, <2>15, <2>16, <2>17, <2>18, <2>19
             DEF Left, WriterPart
<1>5. QED BY <1>3, <1>4

\* Digits are cut off from outside: the file is too short, or still long enough.
LEMMA DamageLeaves == ASSUME Writing, Damage PROVE Left
<1> DEFINE text == SubSeq(raw.text, 1, Len(raw.text) - 1)
<1>1. /\ ~live /\ raw.text # <<>> /\ raw' = Rewritten(raw, text) /\ damage' = damage + 1
      /\ committed' = committed /\ live' = live /\ writer' = writer
      /\ previousRaw' = previousRaw /\ sidecar' = sidecar /\ previousSidecar' = previousSidecar
      /\ reader' = reader /\ setup' = setup
  BY DEF Damage, Writing
<1>2. writer.pc = "idle" /\ writer'.pc = "idle"
  BY <1>1, WritingTypes DEF Writing
<1>3. /\ text \in Texts /\ Len(text) = Len(raw.text) - 1 /\ Len(raw.text) \in Nat
      /\ Prefix(sidecar.text, raw.text) => sidecar.text = raw.text \/ Prefix(sidecar.text, text)
  BY <1>1, WritingTypes, PrefixCut DEF Writing, Texts
<1> HIDE DEF text
<1>4. damage' \in Nat /\ damage' # 0
  BY <1>1, WritingTypes DEF Writing
<1>5. raw.ino # 0
  BY <1>1, NoFiles DEF Writing, WriterPart, FilesAreWhole
<1>6. /\ raw' \in FileType /\ raw'.text = text /\ raw'.ino = raw.ino
      /\ raw'.version = FreshVersion
  BY <1>1, <1>3, WritingTypes, RewrittenIs DEF Writing
<1>7. raw'.text # raw.text
  BY <1>3, <1>6
<1>8. ~overlaid' => ~overlaid /\ (Exact => ~Backed)
  BY <1>2, <1>7 DEF Writing, Overlays, Leftovers, Exact, Backed
<1>9. FileStep
  BY <1>1, <1>6 DEF FileStep
<1>10. FilesAreWhole'
  BY <1>1, <1>5, <1>6, NoFiles, FreshVersionIs DEF Writing, WriterPart, FilesAreWhole, Parsed
<1>11. Calls'
  BY <1>2 DEF Calls, Importing, Repairing, Cleaning
<1>12. WriterAt'
  BY <1>2 DEF WriterAt, Importing, Cleaning
<1>13. BackupIsWhole'
  BY <1>1 DEF Writing, WriterPart, BackupIsWhole, Parsed
<1>14. WayBack'
  <2>1. SUFFICES ASSUME ~overlaid'
                 PROVE  WayBack'
    BY DEF WayBack
  <2>2. Backed' <=> Backed
    BY <1>1 DEF Backed, MatchesExact, Parsed
  <2>3. Backed => /\ Parsed(sidecar) /\ sidecar.text = previousSidecar.text
                  /\ Present(previousRaw) \/ previousSidecar.ino = 0
    BY <1>8, <2>1 DEF Writing, WriterPart, WayBack
  <2>4. ASSUME ~Backed, Parsed(sidecar)
        PROVE  (Prefix(sidecar.text, raw'.text) /\ Named') \/ Len(raw'.text) < Len(sidecar.text)
    <3>1. CASE sidecar.text = raw.text
      BY <1>3, <1>6, <3>1
    <3>2. CASE sidecar.text # raw.text
      <4>1. ~Exact
        BY <3>2 DEF Exact, MatchesExact
      <4>2. (Prefix(sidecar.text, raw.text) /\ Named) \/ Len(raw.text) < Len(sidecar.text)
        BY <1>8, <2>1, <2>4, <4>1 DEF Writing, WriterPart, WayBack
      <4>3. CASE Prefix(sidecar.text, raw.text) /\ Named
        BY <1>1, <1>3, <1>6, <3>2, <4>3 DEF Named
      <4>4. CASE Len(raw.text) < Len(sidecar.text)
        <5>1. Len(sidecar.text) \in Nat
          BY WritingTypes DEF Writing, Texts
        <5>2. QED BY <1>3, <1>6, <4>4, <5>1
      <4>5. QED BY <4>2, <4>3, <4>4
    <3>3. QED BY <3>1, <3>2
  <2>5. QED BY <1>1, <1>4, <2>2, <2>3, <2>4 DEF WayBack, Parsed, Prefix, Present
<1>15. CommittedIsDescribed'
  BY <1>4 DEF CommittedIsDescribed, Undisturbed
<1>16. NoBackups'
  <2>1. setup.imports = {} => ~Backed /\ Named /\ ~overlaid
    BY NoSidecars DEF Writing, WriterPart, NoBackups, Backed, MatchesExact, Parsed
  <2>2. setup.imports = {} => ~overlaid'
    BY <2>1 DEF Writing, Overlays, Leftovers, Backed, Named
  <2>3. QED BY <1>1, <1>6, <2>2 DEF Writing, WriterPart, NoBackups, Named
<1>17. TypeOK' /\ setup' \in Setups
  <2>1. reader' \in ReaderType /\ overlaid' \in BOOLEAN /\ committed' \in Texts \cup {NoText}
    BY <1>1 DEF Writing, WriterPart, TypeOK, Overlays, MatchesExact, Leftovers, Parsed
  <2>2. QED BY <1>1, <1>6, <2>1, WritingTypes DEF Writing, WriterPart, TypeOK
<1>18. QED BY <1>4, <1>9, <1>10, <1>11, <1>12, <1>13, <1>14, <1>15, <1>16, <1>17
           DEF Left, WriterPart

\* A step of the backup: the cache itself stays as it is, and is in order or not
\* described at all.
LEMMA BackupMoves ==
    ASSUME Writing, writer.pc # "idle",
           UNCHANGED <<raw, sidecar, live, committed, damage>>,
           NEW pc \in WriterPlaces \ {"idle", "restoreRaw", "restoreSidecar"},
           writer' \in WriterType, writer'.pc = pc, writer'.op = writer.op,
           previousRaw' \in FileType, previousRaw'.ino = 0 => previousRaw' = NoFile,
           previousSidecar' \in {previousSidecar, sidecar, NoSidecar, TornSidecar},
           setup.imports = {} => previousSidecar' = NoSidecar /\ previousRaw' = NoFile,
           Calls', WriterAt', BackupIsWhole', Parsed(sidecar) => Exact
    PROVE  Left
<1>1. /\ raw' = raw /\ sidecar' = sidecar /\ reader' = reader /\ setup' = setup
      /\ committed' = committed /\ damage' = damage
  BY DEF Writing
<1>2. overlaid' = overlaid
  <2>1. overlaid \in BOOLEAN /\ ~Overlays
    BY <1>1 DEF Overlays, Writing, WriterPart, TypeOK
  <2>2. QED BY <2>1 DEF Writing
<1>3. FileStep
  BY <1>1 DEF FileStep
<1>4. FilesAreWhole'
  BY <1>1, NoSidecars DEF Writing, WriterPart, FilesAreWhole, Parsed
<1>5. WayBack'
  BY <1>1 DEF WayBack, Backed, Exact, MatchesExact, Parsed, BackupIsWhole
<1>6. CommittedIsDescribed'
  BY <1>1, <1>2 DEF Writing, WriterPart, CommittedIsDescribed, Undisturbed, Parsed
<1>7. NoBackups'
  BY <1>1, <1>2 DEF Writing, WriterPart, NoBackups, Named
<1>8. TypeOK' /\ setup' \in Setups
  <2>1. /\ raw' \in FileType /\ sidecar' \in SidecarType /\ sidecar'.kind # "torn"
        /\ previousSidecar' \in SidecarType
    BY <1>1, WritingTypes, NoSidecars DEF Writing
  <2>2. committed' \in Texts \cup {NoText}
    BY <1>1 DEF Writing, WriterPart, TypeOK
  <2>3. QED BY <2>1, <2>2, MovesTyped
<1>9. damage' \in Nat
  BY <1>1 DEF Writing, WriterPart
<1>10. QED BY <1>3, <1>4, <1>5, <1>6, <1>7, <1>8, <1>9 DEF Left, WriterPart

LEMMA ImportsAreOrdered ==
    ASSUME WriterPart, writer.pc \in Importing \cup Cleaning
    PROVE  Parsed(sidecar) => Exact
BY WritableIs DEF WriterPart, WriterAt

LEMMA ClearRawLeaves == ASSUME Writing, ClearRaw PROVE Left
<1> DEFINE pc == IF writer.pc = "clearRaw" THEN "clearSidecar" ELSE "cleanSidecar"
<1>1. /\ writer.pc \in {"clearRaw", "cleanRaw"} /\ previousRaw' = NoFile /\ Goto(pc)
      /\ raw' = raw /\ sidecar' = sidecar /\ previousSidecar' = previousSidecar
      /\ live' = live /\ committed' = committed /\ damage' = damage /\ setup' = setup
  BY DEF ClearRaw, bounds, Writing
<1>2. pc \in {"clearSidecar", "cleanSidecar"} /\ (pc = "clearSidecar" <=> writer.pc = "clearRaw")
  BY <1>1
<1>3. Parsed(sidecar) => Exact
  BY <1>1, ImportsAreOrdered DEF Importing, Cleaning, Writing
<1> HIDE DEF pc
<1>4. pc \in WriterPlaces \ {"idle", "restoreRaw", "restoreSidecar"}
  BY <1>2 DEF WriterPlaces
<1>5. writer' \in WriterType /\ writer'.pc = pc /\ writer'.op = writer.op
  BY <1>1, <1>4, GotoIs, WritingTypes DEF Writing
<1>6. Calls'
  BY <1>1, <1>2, <1>5 DEF Calls, Importing, Repairing, Cleaning, Writing, WriterPart
<1>7. WriterAt'
  <2>1. (writer.pc = "clearRaw" => Writable) /\ (writer.pc = "cleanRaw" => Exact)
        /\ (writer.pc = "cleanRaw" /\ writer.op \in {"append", "replace"} =>
               sidecar = Describe(raw))
    BY DEF Writing, WriterPart, WriterAt, Importing, Cleaning
  <2>2. (Writable <=> Writable') /\ (Exact <=> Exact')
    BY <1>1 DEF Writable, Exact, MatchesExact, Parsed
  <2>3. QED BY <1>1, <1>2, <1>5, <2>1, <2>2 DEF WriterAt, Importing, Cleaning, Describe
<1>8. BackupIsWhole'
  BY <1>1 DEF Writing, WriterPart, BackupIsWhole, Parsed
<1>9. QED BY <1>1, <1>3, <1>4, <1>5, <1>6, <1>7, <1>8, NoFiles, BackupMoves
          DEF Writing, WriterPart, NoBackups

LEMMA ClearSidecarLeaves == ASSUME Writing, ClearSidecar PROVE Left
<1> DEFINE pc == IF writer.pc = "clearSidecar" THEN "copyRaw" ELSE "release"
<1>1. /\ writer.pc \in {"clearSidecar", "cleanSidecar"} /\ previousSidecar' = NoSidecar
      /\ Goto(pc) /\ raw' = raw /\ sidecar' = sidecar /\ previousRaw' = previousRaw
      /\ live' = live /\ committed' = committed /\ damage' = damage /\ setup' = setup
  BY DEF ClearSidecar, bounds, Writing
<1>2. pc \in {"copyRaw", "release"} /\ (pc = "copyRaw" <=> writer.pc = "clearSidecar")
  BY <1>1
<1>3. Parsed(sidecar) => Exact
  BY <1>1, ImportsAreOrdered DEF Importing, Cleaning, Writing
<1> HIDE DEF pc
<1>4. pc \in WriterPlaces \ {"idle", "restoreRaw", "restoreSidecar"}
  BY <1>2 DEF WriterPlaces
<1>5. writer' \in WriterType /\ writer'.pc = pc /\ writer'.op = writer.op
  BY <1>1, <1>4, GotoIs, WritingTypes DEF Writing
<1>6. Calls'
  BY <1>1, <1>2, <1>5 DEF Calls, Importing, Repairing, Cleaning, Writing, WriterPart
<1>7. WriterAt'
  <2>1. (writer.pc = "clearSidecar" => Writable) /\ (writer.pc = "cleanSidecar" => Exact)
        /\ (writer.pc = "cleanSidecar" /\ writer.op \in {"append", "replace"} =>
               sidecar = Describe(raw))
    BY DEF Writing, WriterPart, WriterAt, Importing, Cleaning
  <2>2. (Writable <=> Writable') /\ (Exact <=> Exact') /\ ~Parsed(previousSidecar')
    BY <1>1, NoSidecars DEF Writable, Exact, MatchesExact, Parsed
  <2>3. QED BY <1>1, <1>2, <1>5, <2>1, <2>2 DEF WriterAt, Importing, Cleaning, Describe
<1>8. BackupIsWhole'
  BY <1>1, NoSidecars DEF BackupIsWhole, Parsed
<1>9. previousRaw' \in FileType /\ (previousRaw'.ino = 0 => previousRaw' = NoFile)
  BY <1>1, WritingTypes DEF Writing, WriterPart, FilesAreWhole
<1>10. QED BY <1>1, <1>3, <1>4, <1>5, <1>6, <1>7, <1>8, <1>9, BackupMoves
           DEF Writing, WriterPart, NoBackups

LEMMA BackupRawLeaves == ASSUME Writing, BackupRaw PROVE Left
<1>1. /\ writer.pc = "copyRaw" /\ writer.op = "replace" /\ Writable /\ ~Parsed(previousSidecar)
      /\ raw' = raw /\ sidecar' = sidecar /\ previousSidecar' = previousSidecar
      /\ live' = live /\ committed' = committed /\ damage' = damage /\ setup' = setup
      /\ setup.imports # {}
  BY DEF BackupRaw, bounds, Writing, WriterPart, WriterAt, Calls, Importing, NoBackups
<1>2. (Parsed(sidecar) => Exact) /\ Writable' /\ ~Parsed(previousSidecar')
  BY <1>1, WritableIs DEF Writing, Writable, MatchesExact, Parsed
<1>3. <<>> \in Texts /\ raw.text \in Texts /\ previousRaw \in FileType
  BY WritingTypes DEF Texts, Writing
<1>4. BackupIsWhole'
  BY <1>2 DEF BackupIsWhole
<1>5. CASE Present(raw) /\ ~Present(previousRaw)
  <2>1. previousRaw' = NewFile(<<>>) /\ writer' = writer
    BY <1>1, <1>5 DEF BackupRaw
  <2>2. previousRaw' \in FileType /\ previousRaw'.ino # 0
    BY <1>3, <2>1, NewFileIs
  <2>3. "copyRaw" \in WriterPlaces \ {"idle", "restoreRaw", "restoreSidecar"}
    BY DEF WriterPlaces
  <2>4. Calls'
    BY <2>1 DEF Writing, WriterPart, Calls
  <2>5. WriterAt'
    BY <1>1, <1>2, <2>1 DEF WriterAt, Importing, Cleaning
  <2>6. QED BY <1>1, <1>2, <1>4, <2>1, <2>2, <2>3, <2>4, <2>5, WritingTypes, BackupMoves
            DEF Writing
<1>6. CASE ~(Present(raw) /\ ~Present(previousRaw))
  <2>1. /\ previousRaw' = IF Present(raw) THEN Rewritten(previousRaw, raw.text) ELSE NoFile
        /\ Goto("copySidecar")
    BY <1>1, <1>6 DEF BackupRaw
  <2>2. /\ previousRaw' \in FileType /\ previousRaw'.text = raw.text
        /\ Present(raw) => previousRaw'.ino # 0
        /\ previousRaw'.ino = 0 => previousRaw' = NoFile
    <3>1. CASE Present(raw)
      BY <1>3, <1>6, <2>1, <3>1, RewrittenIs DEF Present
    <3>2. CASE ~Present(raw)
      <4>1. raw.text = <<>>
        BY <3>2, NoFiles DEF Present, Writing, WriterPart, FilesAreWhole
      <4>2. QED BY <2>1, <3>2, <4>1, NoFiles
    <3>3. QED BY <3>1, <3>2
  <2>3. "copySidecar" \in WriterPlaces \ {"idle", "restoreRaw", "restoreSidecar"}
    BY DEF WriterPlaces
  <2>4. writer' \in WriterType /\ writer'.pc = "copySidecar" /\ writer'.op = writer.op
    BY <2>1, <2>3, GotoIs, WritingTypes DEF Writing
  <2>5. Calls'
    BY <1>1, <2>4 DEF Calls, Importing, Repairing, Cleaning
  <2>6. WriterAt'
    BY <1>1, <1>2, <2>2, <2>4 DEF WriterAt, Importing, Cleaning, Present
  <2>7. QED BY <1>1, <1>2, <1>4, <2>2, <2>3, <2>4, <2>5, <2>6, BackupMoves
<1>7. QED BY <1>5, <1>6

LEMMA BackupSidecarLeaves == ASSUME Writing, BackupSidecar PROVE Left
<1>1. /\ writer.pc = "copySidecar" /\ writer.op = "replace" /\ Writable
      /\ ~Parsed(previousSidecar)
      /\ previousRaw.text = raw.text /\ (Present(raw) => Present(previousRaw))
      /\ raw' = raw /\ sidecar' = sidecar /\ previousRaw' = previousRaw
      /\ live' = live /\ committed' = committed /\ damage' = damage /\ setup' = setup
      /\ setup.imports # {}
  BY DEF BackupSidecar, bounds, Writing, WriterPart, WriterAt, Calls, Importing, NoBackups
<1>2. (Parsed(sidecar) => Exact) /\ Writable'
  BY <1>1, WritableIs DEF Writing, Writable, MatchesExact, Parsed
<1>3. previousRaw' \in FileType /\ (previousRaw'.ino = 0 => previousRaw' = NoFile)
  BY <1>1, WritingTypes DEF Writing, WriterPart, FilesAreWhole
<1>4. CASE Parsed(sidecar) /\ previousSidecar.kind = "missing"
  <2>1. previousSidecar' = TornSidecar /\ writer' = writer
    BY <1>1, <1>4 DEF BackupSidecar
  <2>2. ~Parsed(previousSidecar')
    BY <2>1, NoSidecars DEF Parsed
  <2>3. "copySidecar" \in WriterPlaces \ {"idle", "restoreRaw", "restoreSidecar"}
    BY DEF WriterPlaces
  <2>4. Calls'
    BY <2>1 DEF Writing, WriterPart, Calls
  <2>5. WriterAt'
    BY <1>1, <1>2, <2>1, <2>2 DEF WriterAt, Importing, Cleaning, Present
  <2>6. BackupIsWhole'
    BY <2>2 DEF BackupIsWhole
  <2>7. QED BY <1>1, <1>2, <1>3, <2>1, <2>3, <2>4, <2>5, <2>6, WritingTypes, BackupMoves
            DEF Writing
<1>5. CASE ~(Parsed(sidecar) /\ previousSidecar.kind = "missing")
  <2>1. previousSidecar' = sidecar /\ Goto("swap")
    BY <1>1, <1>5 DEF BackupSidecar
  <2>2. "swap" \in WriterPlaces \ {"idle", "restoreRaw", "restoreSidecar"}
    BY DEF WriterPlaces
  <2>3. writer' \in WriterType /\ writer'.pc = "swap" /\ writer'.op = writer.op
    BY <2>1, <2>2, GotoIs, WritingTypes DEF Writing
  <2>4. Calls'
    BY <1>1, <2>3 DEF Calls, Importing, Repairing, Cleaning
  <2>5. Parsed(sidecar) => previousRaw.text = sidecar.text
    BY <1>1, <1>2 DEF Exact, MatchesExact
  <2>6. WriterAt'
    BY <1>1, <1>2, <2>1, <2>3, <2>5 DEF WriterAt, Importing, Cleaning, Present, Parsed
  <2>7. BackupIsWhole'
    BY <1>1, <2>1, <2>5 DEF BackupIsWhole, Parsed
  <2>8. QED BY <1>1, <1>2, <1>3, <2>1, <2>2, <2>3, <2>4, <2>6, <2>7, BackupMoves
<1>6. QED BY <1>4, <1>5

\* The staged import takes the place of the cache; the backup is of what the
\* sidecar still describes.
LEMMA SwapRawLeaves == ASSUME Writing, SwapRaw PROVE Left
<1>1. /\ writer.pc = "swap" /\ writer.pc # "idle" /\ writer.op = "replace"
      /\ previousSidecar = sidecar /\ (Present(raw) => Present(previousRaw))
      /\ Parsed(sidecar) => previousRaw.text = sidecar.text
      /\ raw' = NewFile(writer.text) /\ Goto("publish")
      /\ previousRaw' = previousRaw /\ sidecar' = sidecar /\ previousSidecar' = previousSidecar
      /\ live' = live /\ committed' = committed /\ damage' = damage /\ setup' = setup
      /\ reader' = reader /\ setup.imports # {}
  BY DEF SwapRaw, bounds, Writing, WriterPart, WriterAt, Calls, Importing, NoBackups
<1>2. "publish" \in WriterPlaces \ {"idle"}
  BY DEF WriterPlaces
<1>3. writer' \in WriterType /\ writer'.pc = "publish" /\ writer'.op = writer.op
  BY <1>1, <1>2, GotoIs, WritingTypes DEF Writing
<1>4. raw' \in FileType /\ raw'.version = FreshVersion /\ raw'.ino # 0
  BY <1>1, NewFileIs, WritingTypes DEF Writing
<1>5. overlaid' = overlaid
  <2>1. overlaid \in BOOLEAN /\ ~Overlays
    BY <1>1 DEF Overlays, Writing, WriterPart, TypeOK
  <2>2. QED BY <2>1 DEF Writing
<1>6. FileStep
  BY <1>1, <1>4 DEF FileStep
<1>7. FilesAreWhole'
  BY <1>1, <1>4, NoFiles, FreshVersionIs DEF Writing, WriterPart, FilesAreWhole, Parsed
<1>8. Calls'
  BY <1>1, <1>3 DEF Calls, Importing, Repairing, Cleaning
<1>9. WriterAt'
  BY <1>3 DEF WriterAt, Importing, Cleaning
<1>10. BackupIsWhole'
  BY <1>1 DEF BackupIsWhole
<1>11. WayBack'
  <2>1. Parsed(sidecar) => Backed'
    BY <1>1 DEF Backed, MatchesExact, Parsed
  <2>2. Backed' => Parsed(sidecar)
    BY <1>1 DEF Backed, MatchesExact, Parsed
  <2>3. Present(previousRaw) \/ previousSidecar.ino = 0
    BY <1>1 DEF Writing, WriterPart, FilesAreWhole, Present
  <2>4. QED BY <1>1, <2>1, <2>2, <2>3 DEF WayBack, Parsed, Present
<1>12. CommittedIsDescribed'
  BY <1>1, <1>5 DEF Writing, WriterPart, CommittedIsDescribed, Undisturbed, Parsed
<1>13. NoBackups'
  BY <1>1 DEF NoBackups
<1>14. TypeOK' /\ setup' \in Setups
  <2>1. committed' \in Texts \cup {NoText}
    BY <1>1 DEF Writing, WriterPart, TypeOK
  <2>2. QED BY <1>1, <1>2, <1>3, <1>4, <2>1, WritingTypes, MovesTyped DEF Writing
<1>15. damage' \in Nat
  BY <1>1 DEF Writing, WriterPart
<1>16. QED BY <1>6, <1>7, <1>8, <1>9, <1>10, <1>11, <1>12, <1>13, <1>14, <1>15
           DEF Left, WriterPart

\* The sidecar comes to describe the raw file.
LEMMA PublishSidecarLeaves == ASSUME Writing, PublishSidecar PROVE Left
<1> DEFINE pc == IF writer.op \in {"append", "continue"} THEN "release" ELSE "cleanRaw"
<1>1. /\ writer.pc \in {"publish", "resign"} /\ writer.pc # "idle"
      /\ sidecar' = Describe(raw) /\ Goto(pc)
      /\ committed' = (IF writer.pc = "publish" THEN raw.text ELSE committed)
      /\ raw' = raw /\ previousRaw' = previousRaw /\ previousSidecar' = previousSidecar
      /\ live' = live /\ damage' = damage /\ setup' = setup /\ reader' = reader
  BY DEF PublishSidecar, bounds, Writing
<1>2. /\ pc \in {"release", "cleanRaw"}
      /\ pc = "release" => writer.op \in {"append", "continue"}
      /\ pc = "cleanRaw" => writer.op \in {"replace", "repair", "force"}
  BY <1>1 DEF Writing, WriterPart, Calls, Repairing
<1> HIDE DEF pc
<1>3. pc \in WriterPlaces \ {"idle"}
  BY <1>2 DEF WriterPlaces
<1>4. writer' \in WriterType /\ writer'.pc = pc /\ writer'.op = writer.op
  BY <1>1, <1>3, GotoIs, WritingTypes DEF Writing
<1>5. /\ sidecar' \in SidecarType /\ sidecar'.kind = "parsed" /\ sidecar'.text = raw.text
      /\ sidecar'.ino = raw.ino /\ sidecar'.version = raw.version
  BY <1>1, WritingTypes DEF Describe, SidecarType, FileType, Writing
<1>6. overlaid' = overlaid
  <2>1. overlaid \in BOOLEAN /\ ~Overlays
    BY <1>1 DEF Overlays, Writing, WriterPart, TypeOK
  <2>2. QED BY <2>1 DEF Writing
<1>7. FileStep
  BY <1>1 DEF FileStep
<1>8. FilesAreWhole'
  BY <1>1, <1>5, NoFiles DEF Writing, WriterPart, FilesAreWhole, Parsed
<1>9. Calls'
  BY <1>2, <1>4 DEF Calls, Importing, Repairing, Cleaning
<1>10. Exact' /\ (sidecar = Describe(raw))'
  BY <1>1, <1>5 DEF Exact, MatchesExact, Parsed, Describe
<1>11. WriterAt'
  BY <1>2, <1>4, <1>10 DEF WriterAt, Importing, Cleaning
<1>12. BackupIsWhole'
  BY <1>1, <1>5 DEF Writing, WriterPart, BackupIsWhole, Parsed
<1>13. WayBack'
  BY <1>10 DEF WayBack
<1>14. CommittedIsDescribed'
  <2>1. CASE writer.pc = "publish"
    BY <1>1, <1>5, <2>1 DEF CommittedIsDescribed, Parsed
  <2>2. CASE writer.pc # "publish"
    <3>1. writer.pc = "resign" /\ committed' = committed
      BY <1>1, <2>2
    <3>2. ASSUME Undisturbed, committed # NoText PROVE sidecar'.text = committed
      <4>1. Parsed(sidecar) /\ sidecar.text = committed
        BY <3>2 DEF Writing, WriterPart, CommittedIsDescribed
      <4>2. raw.text = sidecar.text
        BY <3>1, <3>2, <4>1 DEF Writing, WriterPart, WriterAt, Exact, MatchesExact
      <4>3. QED BY <1>5, <4>1, <4>2
    <3>3. QED BY <1>1, <1>5, <1>6, <3>1, <3>2 DEF CommittedIsDescribed, Undisturbed, Parsed
  <2>3. QED BY <2>1, <2>2
<1>15. NoBackups'
  BY <1>1, <1>2, <1>4, <1>5, <1>6 DEF Writing, WriterPart, NoBackups, Named
<1>16. TypeOK' /\ setup' \in Setups
  <2>1. committed' \in Texts \cup {NoText}
    <3>1. committed \in Texts \cup {NoText} /\ raw.text \in Texts
      BY WritingTypes DEF Writing, WriterPart, TypeOK
    <3>2. QED BY <1>1, <3>1
  <2>2. QED BY <1>1, <1>3, <1>4, <1>5, <2>1, WritingTypes, MovesTyped DEF Writing
<1>17. damage' \in Nat
  BY <1>1 DEF Writing, WriterPart
<1>18. QED BY <1>7, <1>8, <1>9, <1>11, <1>12, <1>13, <1>14, <1>15, <1>16, <1>17
           DEF Left, WriterPart

\* What was appended after the published digits is cut off.
LEMMA TruncateLeaves == ASSUME Writing, Truncate PROVE Left
<1>1. /\ writer.pc = "truncate" /\ writer.pc # "idle" /\ writer.op \in {"repair", "force"}
      /\ Parsed(sidecar) /\ ~Exact /\ Present(raw)
      /\ raw' = Rewritten(raw, sidecar.text) /\ Goto("resign")
      /\ previousRaw' = previousRaw /\ sidecar' = sidecar /\ previousSidecar' = previousSidecar
      /\ live' = live /\ committed' = committed /\ damage' = damage /\ setup' = setup
      /\ reader' = reader
  BY DEF Truncate, bounds, Writing, WriterPart, WriterAt, Calls, Repairing
<1>2. "resign" \in WriterPlaces \ {"idle"}
  BY DEF WriterPlaces
<1>3. writer' \in WriterType /\ writer'.pc = "resign" /\ writer'.op = writer.op
  BY <1>1, <1>2, GotoIs, WritingTypes DEF Writing
<1>4. /\ raw' \in FileType /\ raw'.version = FreshVersion /\ raw'.text = sidecar.text
      /\ raw'.ino = raw.ino /\ raw.ino # 0
  BY <1>1, RewrittenIs, WritingTypes DEF Writing, Present
<1>5. overlaid' = overlaid
  <2>1. overlaid \in BOOLEAN /\ ~Overlays
    BY <1>1 DEF Overlays, Exact, Writing, WriterPart, TypeOK
  <2>2. QED BY <2>1 DEF Writing
<1>6. FileStep
  BY <1>1, <1>4 DEF FileStep
<1>7. FilesAreWhole'
  BY <1>1, <1>4, NoFiles, FreshVersionIs DEF Writing, WriterPart, FilesAreWhole, Parsed
<1>8. Exact'
  BY <1>1, <1>4 DEF Exact, MatchesExact, Parsed
<1>9. Calls'
  BY <1>1, <1>3 DEF Calls, Importing, Repairing, Cleaning
<1>10. WriterAt'
  BY <1>3, <1>8 DEF WriterAt, Importing, Cleaning
<1>11. BackupIsWhole'
  BY <1>1 DEF Writing, WriterPart, BackupIsWhole, Parsed
<1>12. WayBack'
  BY <1>8 DEF WayBack
<1>13. CommittedIsDescribed'
  BY <1>1, <1>5 DEF Writing, WriterPart, CommittedIsDescribed, Undisturbed, Parsed
<1>14. NoBackups'
  BY <1>1, <1>3, <1>4, <1>5 DEF Writing, WriterPart, NoBackups, Named
<1>15. TypeOK' /\ setup' \in Setups
  <2>1. committed' \in Texts \cup {NoText}
    BY <1>1 DEF Writing, WriterPart, TypeOK
  <2>2. QED BY <1>1, <1>2, <1>3, <1>4, <2>1, WritingTypes, MovesTyped DEF Writing
<1>16. damage' \in Nat
  BY <1>1 DEF Writing, WriterPart
<1>17. QED BY <1>6, <1>7, <1>9, <1>10, <1>11, <1>12, <1>13, <1>14, <1>15, <1>16
           DEF Left, WriterPart

\* The backup's raw file is renamed into place: the sidecar describes it, or
\* somebody has changed the cache over it.
LEMMA RestoreRawLeaves == ASSUME Writing, RestoreRaw PROVE Left
<1>1. /\ writer.pc = "restoreRaw" /\ writer.pc # "idle" /\ writer.op \in {"repair", "force"}
      /\ Backed /\ ~Exact /\ setup.imports # {}
      /\ sidecar' = sidecar /\ previousSidecar' = previousSidecar
      /\ committed' = committed /\ damage' = damage /\ setup' = setup /\ reader' = reader
  BY DEF RestoreRaw, bounds, Writing, WriterPart, WriterAt, Calls, Repairing, NoBackups
<1>2. CASE ~Present(previousRaw)
  <2>1. Gone /\ UNCHANGED files
    BY <1>1, <1>2 DEF RestoreRaw, files
  <2>2. TypeOK'
    <3>1. live' = (writer'.pc # "idle") /\ live' \in BOOLEAN /\ writer' \in WriterType
      BY <2>1, GoneIs
    <3>2. committed' \in Texts \cup {NoText}
      BY <1>1 DEF Writing, WriterPart, TypeOK
    <3>3. QED BY <1>1, <2>1, <3>1, <3>2, StillFiles
  <2>3. Calls' /\ WriterAt' /\ NoBackups'
    BY <1>1, <2>1, GoneKeeps, StillFiles DEF Writing
  <2>4. QED BY <1>1, <2>1, <2>2, <2>3, StillFiles DEF Left, WriterPart
<1>3. CASE Present(previousRaw)
  <2>1. /\ raw' = Rewritten(previousRaw, previousRaw.text) /\ previousRaw' = NoFile
        /\ Goto("restoreSidecar") /\ live' = live
    BY <1>1, <1>3 DEF RestoreRaw
  <2>2. "restoreSidecar" \in WriterPlaces \ {"idle"}
    BY DEF WriterPlaces
  <2>3. writer' \in WriterType /\ writer'.pc = "restoreSidecar" /\ writer'.op = writer.op
    BY <2>1, <2>2, GotoIs, WritingTypes DEF Writing
  <2>4. /\ raw' \in FileType /\ raw'.version = FreshVersion /\ raw'.text = previousRaw.text
        /\ raw'.ino # 0
    BY <1>3, <2>1, RewrittenIs, WritingTypes DEF Writing, Present
  <2>5. overlaid' = overlaid
    <3>1. overlaid \in BOOLEAN /\ ~Overlays
      BY <1>1 DEF Overlays, Exact, Writing, WriterPart, TypeOK
    <3>2. QED BY <3>1 DEF Writing
  <2>6. /\ Parsed(previousSidecar) /\ previousSidecar.text = raw'.text
        /\ ~overlaid => Parsed(sidecar) /\ sidecar.text = raw'.text
    BY <1>1, <2>4 DEF Backed, MatchesExact, Writing, WriterPart, WayBack
  <2>7. FileStep
    BY <1>1, <2>4 DEF FileStep
  <2>8. FilesAreWhole'
    BY <1>1, <2>1, <2>4, NoFiles, FreshVersionIs
       DEF Writing, WriterPart, FilesAreWhole, Parsed
  <2>9. Calls'
    BY <1>1, <2>3 DEF Calls, Importing, Repairing, Cleaning
  <2>10. WriterAt'
    BY <1>1, <2>3, <2>4, <2>5, <2>6 DEF WriterAt, Importing, Cleaning, Present, Parsed
  <2>11. BackupIsWhole'
    BY <1>1, <2>1 DEF Writing, WriterPart, BackupIsWhole, Parsed
  <2>12. WayBack'
    BY <1>1, <2>5, <2>6 DEF WayBack, Exact, MatchesExact, Parsed
  <2>13. CommittedIsDescribed'
    BY <1>1, <2>5 DEF Writing, WriterPart, CommittedIsDescribed, Undisturbed, Parsed
  <2>14. NoBackups'
    BY <1>1 DEF NoBackups
  <2>15. TypeOK' /\ setup' \in Setups
    <3>1. committed' \in Texts \cup {NoText}
      BY <1>1 DEF Writing, WriterPart, TypeOK
    <3>2. QED BY <1>1, <2>1, <2>2, <2>3, <2>4, <3>1, WritingTypes, NoFiles, MovesTyped
              DEF Writing
  <2>16. damage' \in Nat
    BY <1>1 DEF Writing, WriterPart
  <2>17. QED BY <2>7, <2>8, <2>9, <2>10, <2>11, <2>12, <2>13, <2>14, <2>15, <2>16
             DEF Left, WriterPart
<1>4. QED BY <1>2, <1>3

\* Its sidecar follows.
LEMMA RestoreSidecarLeaves == ASSUME Writing, RestoreSidecar PROVE Left
<1>1. /\ writer.pc = "restoreSidecar" /\ writer.pc # "idle"
      /\ writer.op \in {"repair", "force"} /\ setup.imports # {}
      /\ Parsed(previousSidecar) /\ previousSidecar.text = raw.text /\ Present(raw)
      /\ ~overlaid => Parsed(sidecar) /\ sidecar.text = raw.text
      /\ sidecar' = previousSidecar /\ previousSidecar' = NoSidecar /\ Goto("cleanRaw")
      /\ raw' = raw /\ previousRaw' = previousRaw
      /\ live' = live /\ committed' = committed /\ damage' = damage /\ setup' = setup
      /\ reader' = reader
  <2>1. /\ writer.pc = "restoreSidecar" /\ writer.pc # "idle"
        /\ sidecar' = previousSidecar /\ previousSidecar' = NoSidecar /\ Goto("cleanRaw")
        /\ raw' = raw /\ previousRaw' = previousRaw
        /\ live' = live /\ committed' = committed /\ damage' = damage
    BY DEF RestoreSidecar, bounds
  <2>2. /\ Parsed(previousSidecar) /\ previousSidecar.text = raw.text /\ Present(raw)
        /\ ~overlaid => Parsed(sidecar) /\ sidecar.text = raw.text
    BY <2>1 DEF Writing, WriterPart, WriterAt
  <2>3. writer.op \in {"repair", "force"}
    BY <2>1 DEF Writing, WriterPart, Calls, Repairing
  <2>4. setup.imports # {}
    BY <2>1 DEF Writing, WriterPart, NoBackups
  <2>5. QED BY <2>1, <2>2, <2>3, <2>4 DEF Writing
<1>2. "cleanRaw" \in WriterPlaces \ {"idle"}
  BY DEF WriterPlaces
<1>3. writer' \in WriterType /\ writer'.pc = "cleanRaw" /\ writer'.op = writer.op
  BY <1>1, <1>2, GotoIs, WritingTypes DEF Writing
<1>4. overlaid' = overlaid
  <2>1. overlaid \in BOOLEAN /\ ~Overlays
    BY <1>1 DEF Overlays, Writing, WriterPart, TypeOK
  <2>2. QED BY <2>1 DEF Writing
<1>5. FileStep
  BY <1>1 DEF FileStep
<1>6. FilesAreWhole'
  BY <1>1, NoSidecars, NoFiles DEF Writing, WriterPart, FilesAreWhole, Parsed, Present
<1>7. Exact'
  BY <1>1 DEF Exact, MatchesExact, Parsed
<1>8. Calls'
  BY <1>1, <1>3 DEF Calls, Importing, Repairing, Cleaning
<1>9. WriterAt'
  BY <1>1, <1>3, <1>7 DEF WriterAt, Importing, Cleaning
<1>10. BackupIsWhole'
  BY <1>1, NoSidecars DEF BackupIsWhole, Parsed
<1>11. WayBack'
  BY <1>7 DEF WayBack
<1>12. CommittedIsDescribed'
  BY <1>1, <1>4 DEF Writing, WriterPart, CommittedIsDescribed, Undisturbed, Parsed
<1>13. NoBackups'
  BY <1>1 DEF NoBackups
<1>14. TypeOK' /\ setup' \in Setups
  <2>1. committed' \in Texts \cup {NoText}
    BY <1>1 DEF Writing, WriterPart, TypeOK
  <2>2. sidecar' \in SidecarType /\ sidecar'.kind # "torn" /\ previousSidecar' \in SidecarType
    BY <1>1, WritingTypes, NoSidecars DEF Writing, Parsed
  <2>3. QED BY <1>1, <1>2, <1>3, <2>1, <2>2, WritingTypes, MovesTyped DEF Writing
<1>15. damage' \in Nat
  BY <1>1 DEF Writing, WriterPart
<1>16. QED BY <1>5, <1>6, <1>8, <1>9, <1>10, <1>11, <1>12, <1>13, <1>14, <1>15
           DEF Left, WriterPart

LEMMA WriterStepLeaves == ASSUME Writing, WriterStep PROVE Left
BY CheckLeaves, AppendDigitsLeaves, ClearRawLeaves, ClearSidecarLeaves, BackupRawLeaves,
   BackupSidecarLeaves, SwapRawLeaves, PublishSidecarLeaves, InspectLeaves, TruncateLeaves,
   RestoreRawLeaves, RestoreSidecarLeaves, ReleaseLeaves DEF WriterStep

-----------------------------------------------------------------------------
(* The theorems.                                                           *)

LEMMA InitHolds == ASSUME Init PROVE IInv
<1>1. /\ setup \in Setups /\ previousRaw = NoFile /\ previousSidecar = NoSidecar
      /\ live = FALSE /\ writer = IdleWriter /\ reader = IdleReader
      /\ committed = setup.initial /\ overlaid = FALSE /\ damage = 0
      /\ raw = IF setup.initial = NoText THEN NoFile
               ELSE [text |-> setup.initial, ino |-> 1, version |-> 1]
      /\ sidecar = IF setup.initial = NoText THEN NoSidecar
                   ELSE [kind |-> "parsed", text |-> setup.initial, ino |-> 1, version |-> 1]
  BY DEF Init
<1>2. setup.initial # NoText => setup.initial \in Texts
  BY <1>1, SetupsAssumption DEF Texts
<1>3. <<>> \in Texts
  BY DEF Texts
<1>4. writer \in WriterType /\ writer.pc = "idle" /\ writer.op = "none"
  BY <1>1, <1>3 DEF IdleWriter, WriterType, WriterPlaces
<1>5. /\ reader \in ReaderType /\ reader.side = NoSidecar /\ reader.stat = NoFile
      /\ reader.pc = "idle"
  BY <1>1, IdleReaderIs
<1>6. CASE setup.initial = NoText
  <2>1. raw = NoFile /\ sidecar = NoSidecar /\ committed = NoText
    BY <1>1, <1>6
  <2>2. TypeOK
    BY <1>1, <1>4, <1>5, <2>1, NoFiles, NoSidecars DEF TypeOK
  <2>3. FilesAreWhole /\ BackupIsWhole /\ CommittedIsDescribed
    BY <1>1, <1>5, <2>1, NoFiles, NoSidecars
       DEF FilesAreWhole, BackupIsWhole, CommittedIsDescribed, Parsed
  <2>4. WayBack /\ VersionsTell
    BY <1>1, <1>5, <2>1, NoFiles, NoSidecars
       DEF WayBack, VersionsTell, Told, Parsed, Backed, MatchesExact
  <2>5. NoBackups
    BY <1>1, <1>4, <2>1, NoSidecars DEF NoBackups, Named
  <2>6. Calls /\ WriterAt
    BY <1>4 DEF Calls, WriterAt, Importing, Repairing, Cleaning
  <2>7. ReaderAt /\ ReadsArePublished
    BY <1>5 DEF ReaderAt, ReadsArePublished
  <2>8. QED BY <1>1, <2>2, <2>3, <2>4, <2>5, <2>6, <2>7 DEF IInv, WriterPart
<1>7. CASE setup.initial # NoText
  <2> DEFINE text == setup.initial
  <2>1. /\ raw = [text |-> text, ino |-> 1, version |-> 1]
        /\ sidecar = [kind |-> "parsed", text |-> text, ino |-> 1, version |-> 1]
        /\ committed = text /\ text \in Texts
    BY <1>1, <1>2, <1>7
  <2> HIDE DEF text
  <2>2. /\ raw \in FileType /\ raw.text = text /\ raw.ino = 1 /\ raw.version = 1
        /\ sidecar \in SidecarType /\ sidecar.kind = "parsed" /\ sidecar.text = text
        /\ sidecar.ino = 1 /\ sidecar.version = 1
    BY <2>1 DEF FileType, SidecarType
  <2>3. TypeOK
    BY <1>1, <1>4, <1>5, <2>1, <2>2, NoFiles, NoSidecars DEF TypeOK
  <2>4. FilesAreWhole /\ BackupIsWhole /\ CommittedIsDescribed
    BY <1>1, <1>5, <2>1, <2>2, NoFiles, NoSidecars
       DEF FilesAreWhole, BackupIsWhole, CommittedIsDescribed, Parsed
  <2>5. WayBack /\ VersionsTell
    BY <1>1, <1>5, <2>2, NoFiles, NoSidecars
       DEF WayBack, VersionsTell, Told, Parsed, Exact, MatchesExact
  <2>6. NoBackups
    BY <1>1, <1>4, <2>2, NoSidecars DEF NoBackups, Named
  <2>7. Calls /\ WriterAt
    BY <1>4 DEF Calls, WriterAt, Importing, Repairing, Cleaning
  <2>8. ReaderAt /\ ReadsArePublished
    BY <1>5 DEF ReaderAt, ReadsArePublished
  <2>9. QED BY <1>1, <2>3, <2>4, <2>5, <2>6, <2>7, <2>8 DEF IInv, WriterPart
<1>8. QED BY <1>6, <1>7

LEMMA StepKeeps == ASSUME IInv, [Next]_vars PROVE IInv'
<1>1. CASE Next /\ (BeginWrite \/ WriterStep \/ Fault \/ Damage)
  <2>1. Writing /\ Seeing
    <3>1. reader' = reader
      BY <1>1 DEF BeginWrite, WriterStep, Check, AppendDigits, ClearRaw, ClearSidecar,
                  BackupRaw, BackupSidecar, SwapRaw, PublishSidecar, Inspect, Truncate,
                  RestoreRaw, RestoreSidecar, Release, Fault, Damage
    <3>2. QED BY <1>1, <3>1 DEF IInv, Next, Writing, Seeing
  <2>2. Left
    BY <1>1, <2>1, BeginWriteLeaves, WriterStepLeaves, FaultLeaves, DamageLeaves
  <2>3. TypeOK /\ FilesAreWhole /\ VersionsTell /\ ReaderAt /\ ReadsArePublished
    BY DEF IInv, WriterPart
  <2>4. VersionsTell' /\ ReaderAt' /\ ReadsArePublished'
    BY <2>1, <2>2, <2>3, FileStepTells, FileStepReads DEF Left
  <2>5. QED BY <2>2, <2>4 DEF Left, IInv
<1>2. CASE Next /\ ReaderStep
  <2>1. ReaderKeepsRest /\ setup' = setup /\ overlaid' = (overlaid \/ Overlays)
    BY <1>2 DEF Next, ReaderStep, BeginRead, LookAtSidecar, LookAtRaw, LookAtLock, Judge,
                ReadDigits, Compare, EndRead
  <2>2. Reading
    BY <1>2, <2>1 DEF IInv, WriterPart, Next, Reading, Seeing
  <2>3. ReadKept
    BY <1>2, <2>2, ReaderStepKeeps
  <2>4. /\ raw' = raw /\ sidecar' = sidecar /\ previousRaw' = previousRaw
        /\ previousSidecar' = previousSidecar /\ writer' = writer /\ live' = live
        /\ committed' = committed /\ damage' = damage /\ setup' = setup
    BY <2>1 DEF ReaderKeepsRest, files, bounds
  <2>5. overlaid' = overlaid
    <3>1. overlaid \in BOOLEAN /\ ~Overlays
      BY <2>4 DEF Overlays, IInv, WriterPart, TypeOK
    <3>2. QED BY <2>1, <3>1
  <2>6. TypeOK' /\ setup' \in Setups /\ damage' \in Nat
    BY <2>3, <2>4, <2>5 DEF IInv, WriterPart, TypeOK, ReadKept
  <2>7. Calls' /\ BackupIsWhole' /\ CommittedIsDescribed' /\ NoBackups'
    BY <2>4, <2>5 DEF IInv, WriterPart, Calls, BackupIsWhole, CommittedIsDescribed, NoBackups,
                      Named, Undisturbed, Parsed
  <2>8. WayBack'
    BY <2>4, <2>5 DEF IInv, WriterPart, WayBack, Backed, Exact, Named, MatchesExact, Parsed,
                      Prefix, Present
  <2>9. WriterAt'
    BY <2>4, <2>5 DEF IInv, WriterPart, WriterAt, Backed, Exact, MatchesExact, Parsed,
                      Prefix, Present, Writable, Undisturbed, Describe
  <2>10. QED BY <2>3, <2>6, <2>7, <2>8, <2>9 DEF IInv, WriterPart, ReadKept
<1>3. CASE UNCHANGED vars
  <2>1. /\ raw' = raw /\ sidecar' = sidecar /\ previousRaw' = previousRaw
        /\ previousSidecar' = previousSidecar /\ writer' = writer /\ live' = live
        /\ committed' = committed /\ damage' = damage /\ setup' = setup
        /\ overlaid' = overlaid /\ reader' = reader /\ seen' = seen
    BY <1>3 DEF vars, files, bounds
  <2>2. TypeOK' /\ setup' \in Setups /\ damage' \in Nat
    BY <2>1 DEF IInv, WriterPart, TypeOK
  <2>3. FilesAreWhole' /\ VersionsTell'
    BY <2>1 DEF IInv, WriterPart, FilesAreWhole, VersionsTell
  <2>4. ReaderAt' /\ ReadsArePublished'
    BY <2>1 DEF IInv, ReaderAt, ReadsArePublished, Got
  <2>5. Calls' /\ BackupIsWhole' /\ CommittedIsDescribed' /\ NoBackups'
    BY <2>1 DEF IInv, WriterPart, Calls, BackupIsWhole, CommittedIsDescribed, NoBackups,
                Named, Undisturbed, Parsed
  <2>6. WayBack'
    BY <2>1 DEF IInv, WriterPart, WayBack, Backed, Exact, Named, MatchesExact, Parsed,
                Prefix, Present
  <2>7. WriterAt'
    BY <2>1 DEF IInv, WriterPart, WriterAt, Backed, Exact, MatchesExact, Parsed,
                Prefix, Present, Writable, Undisturbed, Describe
  <2>8. QED BY <2>2, <2>3, <2>4, <2>5, <2>6, <2>7 DEF IInv, WriterPart
<1>4. QED BY <1>1, <1>2, <1>3 DEF Next, Step

\* The inductive invariant holds of every behaviour, for every setup.
THEOREM Invariance == Spec => []IInv
<1>1. Init => IInv
  BY InitHolds
<1>2. IInv /\ [Next]_vars => IInv'
  BY StepKeeps
<1>3. QED BY <1>1, <1>2, PTL DEF Spec

\* What can be repaired: a way back is one RepairPlan takes.
LEMMA WayBackIsTaken ==
    ASSUME WriterPart, ~overlaid
    PROVE  /\ damage = 0 => RepairPlan(FALSE) # "fail"
           /\ RepairPlan(TRUE) # "fail"
           /\ BackupIsThere
<1>1. CASE Exact
  <2>1. RepairPlan(FALSE) = "resign" /\ RepairPlan(TRUE) = "resign"
    BY <1>1 DEF RepairPlan, Exact
  <2>2. QED BY <2>1 DEF BackupIsThere
<1>2. CASE ~Exact /\ Backed
  <2>1. RepairPlan(FALSE) = "restoreRaw" /\ RepairPlan(TRUE) = "restoreRaw"
    BY <1>2 DEF RepairPlan, Exact, Backed
  <2>2. QED BY <1>2, <2>1 DEF BackupIsThere, WriterPart, WayBack
<1>3. CASE ~Exact /\ ~Backed
  <2>1. \A forced \in BOOLEAN :
            RepairPlan(forced) =
                IF MatchesPublishedPrefix(sidecar, raw) THEN "truncate"
                ELSE IF Parsed(sidecar)
                THEN IF Len(raw.text) < Len(sidecar.text) /\ forced THEN "resign" ELSE "fail"
                ELSE "resign"
    BY <1>3 DEF RepairPlan, Exact, Backed
  <2>2. Parsed(sidecar) =>
            \/ MatchesPublishedPrefix(sidecar, raw)
            \/ damage # 0 /\ Len(raw.text) < Len(sidecar.text)
    BY <1>3 DEF WriterPart, WayBack, MatchesPublishedPrefix, Named
  <2>3. RepairPlan(TRUE) # "fail" /\ RepairPlan(TRUE) # "restoreRaw"
    BY <2>1, <2>2
  <2>4. /\ damage = 0 => RepairPlan(FALSE) # "fail"
        /\ RepairPlan(FALSE) # "restoreRaw"
    BY <2>1, <2>2
  <2>5. QED BY <2>3, <2>4 DEF BackupIsThere
<1>4. QED BY <1>1, <1>2, <1>3

\* Where sidecar and raw file agree, what they hold is what a reader is told.
LEMMA ExactIsPublished ==
    ASSUME WriterPart, Exact
    PROVE  Published = {raw.text}
<1>1. Parsed(sidecar) /\ sidecar.text = raw.text
  BY DEF Exact, MatchesExact
<1>2. Prefix(raw.text, raw.text)
  BY WritingTypes, PrefixBounds
<1>3. QED BY <1>1, <1>2 DEF Published

\* After every call what was published is readable, and after every death what
\* was left can be repaired: for any texts, any number of calls and deaths.
THEOREM WriterSound == Spec => []WriterInvariant
<1>1. IInv => WriterInvariant
  <2> SUFFICES ASSUME IInv PROVE WriterInvariant
    OBVIOUS
  <2>1. WriterPart
    BY DEF IInv
  <2>2. PublicationReadable
    <3>1. SUFFICES ASSUME writer.pc = "release", writer.op \in {"append", "replace"}
                   PROVE  ReadableNow
      BY DEF PublicationReadable
    <3>2. sidecar = Describe(raw)
      BY <2>1, <3>1 DEF WriterPart, WriterAt
    <3>3. /\ Parsed(sidecar) /\ sidecar.text = raw.text /\ sidecar.version = raw.version
      BY <3>2 DEF Describe, Parsed
    <3>4. FastExact(sidecar, raw)
      BY <3>3 DEF FastExact, MatchesExact
    <3>5. QED BY <3>3, <3>4 DEF ReadableNow, Status
  <2>3. Recoverable /\ ForceRecovers
    BY <2>1, WayBackIsTaken DEF Recoverable, ForceRecovers, Undisturbed
  <2>4. QED BY <2>1, <2>2, <2>3 DEF WriterPart, WriterInvariant
<1>2. QED BY <1>1, Invariance, PTL

\* Readers without the lock get what was published, repairs restore what was
\* last committed, and nothing else is ever published.
THEOREM PublicationKept == Spec => []PublicationIsKept
<1>1. IInv => PublicationIsKept
  <2> SUFFICES ASSUME IInv PROVE PublicationIsKept
    OBVIOUS
  <2>1. WriterPart /\ ReadsArePublished
    BY DEF IInv
  <2>2. ASSUME Undisturbed, committed # NoText
        PROVE  Published \subseteq {committed}
    <3>1. Parsed(sidecar) /\ sidecar.text = committed
      BY <2>1, <2>2 DEF WriterPart, CommittedIsDescribed
    <3>2. QED BY <3>1 DEF Published
  <2>3. RepairRestoresCommitted
    <3>1. SUFFICES ASSUME Undisturbed, writer.pc = "release", writer.op = "repair",
                          committed # NoText
                   PROVE  Published = {committed}
      BY DEF RepairRestoresCommitted
    <3>2. Exact
      BY <2>1, <3>1 DEF WriterPart, WriterAt
    <3>3. Published = {raw.text}
      BY <2>1, <3>2, ExactIsPublished
    <3>4. QED BY <2>2, <3>1, <3>3
  <2>4. OnlyCommittedIsPublished
    BY <2>2 DEF OnlyCommittedIsPublished
  <2>5. AppendsLeaveNothing
    BY <2>1 DEF WriterPart, NoBackups, AppendsLeaveNothing
  <2>6. QED BY <2>1, <2>3, <2>4, <2>5 DEF PublicationIsKept
<1>2. QED BY <1>1, Invariance, PTL
=============================================================================
