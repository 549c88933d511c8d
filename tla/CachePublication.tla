-------------------------- MODULE CachePublication --------------------------
(***************************************************************************)
(* The digit cache on disk: a raw file of digits, the sidecar that says    *)
(* how many of them are published, the backup pair an import leaves while  *)
(* it runs, the one writer that holds the writer lock, and a reader that   *)
(* takes no lock and works from snapshots.  A writer may fail or die       *)
(* between any two of its steps; what it leaves is what the next one finds.*)
(*                                                                         *)
(* A file is its text, its inode and its version; the version stands for   *)
(* the metadata fingerprint (inode and time stamps) and is new whenever    *)
(* the file is written, copied or renamed.  A hash of a text is the text.  *)
(* Replacing the sidecar is one rename, so it is one step; its temporary   *)
(* file is nobody else's business and is left out.                         *)
(***************************************************************************)
EXTENDS Integers, Sequences

CONSTANTS
    Digits,         \* the digits texts are made of
    NoText,
    ReadRetries,    \* READ_SNAPSHOT_RETRIES
    Setups          \* what may happen in a behaviour: see SetupFields

\* Batches the generators append, whole texts an external generator offers,
\* texts a user imports, which repairs are called (TRUE is forced), the reads,
\* and bounds: writer calls, writers that fail or die, digits cut off the raw
\* file from outside.
SetupFields == {"initial", "appends", "continuations", "imports", "repairs", "ranges",
                "maxWrites", "maxFaults", "maxDamage"}

ASSUME SetupsAssumption ==
    \A s \in Setups :
        /\ DOMAIN s = SetupFields
        /\ s.initial # NoText => s.initial \in Seq(Digits)
        /\ s.appends \cup s.continuations \cup s.imports \subseteq Seq(Digits)
        /\ s.repairs \subseteq BOOLEAN
        /\ s.ranges \subseteq [offset : Nat, length : Nat]
        /\ s.maxWrites \in Nat /\ s.maxFaults \in Nat /\ s.maxDamage \in Nat

ASSUME RetriesAssumption == ReadRetries \in Nat \ {0}

VARIABLES
    setup,          \* chosen once
    raw, sidecar, previousRaw, previousSidecar,
    live,           \* a live process holds the writer lock
    writer,         \* what it is doing
    reader,
    committed,      \* ghost: the text last published, NoText if none
    seen,           \* ghost: texts published since the read began
    overlaid,       \* ghost: the raw file was changed on top of leftovers
    writes, faults, damage

files == <<raw, sidecar, previousRaw, previousSidecar>>
bounds == <<writes, faults, damage>>
vars == <<setup, files, live, writer, reader, committed, seen, overlaid, bounds>>

Lesser(a, b) == IF a <= b THEN a ELSE b
Greater(a, b) == IF a >= b THEN a ELSE b
Prefix(s, t) == Len(s) <= Len(t) /\ SubSeq(t, 1, Len(s)) = s
Slice(t, offset, end) == SubSeq(t, offset + 1, end)

-----------------------------------------------------------------------------
(* Files and sidecars.                                                     *)

NoFile == [text |-> <<>>, ino |-> 0, version |-> 0]
Present(file) == file.ino # 0

NoSidecar == [kind |-> "missing", text |-> <<>>, ino |-> 0, version |-> 0]
TornSidecar == [NoSidecar EXCEPT !.kind = "torn"]
Parsed(s) == s.kind = "parsed"

\* Sidecar::from_raw
Describe(file) == [kind |-> "parsed", text |-> file.text, ino |-> file.ino,
                   version |-> file.version]

MatchesExact(s, file) == Parsed(s) /\ s.text = file.text
MatchesPublishedPrefix(s, file) ==
    Parsed(s) /\ Prefix(s.text, file.text) /\ s.ino \in {0, file.ino}

\* The file system reuses inode numbers; a version never returns while
\* somebody remembers it.
FreshIno == CHOOSE i \in 1..3 : i \notin {raw.ino, previousRaw.ino}
FreshVersion ==
    CHOOSE v \in 1..9 :
        v \notin {raw.version, sidecar.version, previousRaw.version,
                  previousSidecar.version, reader.side.version,
                  reader.stat.version, reader.before.version,
                  reader.before.side.version}
NewFile(text) == [text |-> text, ino |-> FreshIno, version |-> FreshVersion]
Rewritten(file, text) == [file EXCEPT !.text = text, !.version = FreshVersion]

\* What a reader can be told at this moment, by the files alone.
Published ==
    IF Parsed(sidecar)
    THEN IF Prefix(sidecar.text, raw.text) THEN {sidecar.text} ELSE {}
    ELSE IF raw.text = <<>> THEN {<<>>} ELSE {}

-----------------------------------------------------------------------------
IdleWriter == [pc |-> "idle", op |-> "none", text |-> <<>>]
NoId == [status |-> "none", side |-> NoSidecar, size |-> 0, ino |-> 0, version |-> 0]
IdleReader == [pc |-> "idle", offset |-> 0, length |-> 0, attempt |-> 1,
               side |-> NoSidecar, stat |-> NoFile, live |-> FALSE,
               before |-> NoId, got |-> <<>>]

Init ==
    /\ setup \in Setups
    /\ raw = IF setup.initial = NoText THEN NoFile
             ELSE [text |-> setup.initial, ino |-> 1, version |-> 1]
    /\ sidecar = IF setup.initial = NoText THEN NoSidecar
                 ELSE [kind |-> "parsed", text |-> setup.initial, ino |-> 1, version |-> 1]
    /\ previousRaw = NoFile
    /\ previousSidecar = NoSidecar
    /\ live = FALSE
    /\ writer = IdleWriter
    /\ reader = IdleReader
    /\ committed = setup.initial
    /\ seen = {}
    /\ overlaid = FALSE
    /\ writes = 0 /\ faults = 0 /\ damage = 0

-----------------------------------------------------------------------------
(* Writers, one at a time.                                                 *)

Operations ==
    [pc : {"check"}, op : {"append"}, text : setup.appends]
      \cup [pc : {"check"}, op : {"continue"}, text : setup.continuations]
      \cup [pc : {"check"}, op : {"replace"}, text : setup.imports]
      \cup [pc : {"inspect"}, op : {IF force THEN "force" ELSE "repair" : force \in setup.repairs},
            text : {<<>>}]

Goto(pc) == writer' = [writer EXCEPT !.pc = pc]

\* An operation ends, well or with an error, and the lock is removed.
Gone ==
    /\ writer' = IdleWriter
    /\ live' = FALSE

\* A lock that a dead process left is taken over, so only a live one blocks.
BeginWrite ==
    /\ ~live
    /\ writes < setup.maxWrites
    /\ writes' = writes + 1
    /\ live' = TRUE
    /\ writer' \in Operations
    /\ UNCHANGED <<files, reader, committed, faults, damage>>

Writable == sidecar.kind = "missing" \/ MatchesExact(sidecar, raw)

\* ensure_writable, and what each operation does right after it.
Check ==
    /\ writer.pc = "check"
    /\ IF \/ ~Writable
          \/ writer.op = "continue" /\ ~Prefix(raw.text, writer.text)
       THEN Gone /\ UNCHANGED files
       ELSE /\ UNCHANGED live
            /\ IF writer.op = "replace"
               THEN Goto("clearRaw") /\ UNCHANGED files
               ELSE IF writer.op = "continue" /\ writer.text = raw.text
               THEN Goto("release") /\ UNCHANGED files
               ELSE /\ writer' = [writer EXCEPT
                           !.pc = "append",
                           !.text = IF writer.op = "continue"
                                    THEN Slice(@, Len(raw.text), Len(@)) ELSE @]
                    /\ raw' = IF Present(raw) THEN raw ELSE NewFile(<<>>)
                    /\ UNCHANGED <<sidecar, previousRaw, previousSidecar>>
    /\ UNCHANGED <<reader, committed, bounds>>

\* The digits reach the raw file one after another, then it is synchronized.
AppendDigits ==
    /\ writer.pc = "append"
    /\ IF writer.text = <<>>
       THEN Goto("publish") /\ UNCHANGED raw
       ELSE /\ raw' = Rewritten(raw, Append(raw.text, Head(writer.text)))
            /\ writer' = [writer EXCEPT !.text = Tail(@)]
    /\ UNCHANGED <<sidecar, previousRaw, previousSidecar, live, reader,
                   committed, bounds>>

\* cleanup_previous removes the backup's raw file, then its sidecar; it is
\* called before a backup is made and after it has served.
ClearRaw ==
    /\ writer.pc \in {"clearRaw", "cleanRaw"}
    /\ previousRaw' = NoFile
    /\ Goto(IF writer.pc = "clearRaw" THEN "clearSidecar" ELSE "cleanSidecar")
    /\ UNCHANGED <<raw, sidecar, previousSidecar, live, reader, committed, bounds>>

ClearSidecar ==
    /\ writer.pc \in {"clearSidecar", "cleanSidecar"}
    /\ previousSidecar' = NoSidecar
    /\ Goto(IF writer.pc = "clearSidecar" THEN "copyRaw" ELSE "release")
    /\ UNCHANGED <<raw, sidecar, previousRaw, live, reader, committed, bounds>>

\* backup_previous: each copy is created first and then filled.
BackupRaw ==
    /\ writer.pc = "copyRaw"
    /\ IF Present(raw) /\ ~Present(previousRaw)
       THEN previousRaw' = NewFile(<<>>) /\ UNCHANGED writer
       ELSE /\ previousRaw' = IF Present(raw) THEN Rewritten(previousRaw, raw.text)
                              ELSE NoFile
            /\ Goto("copySidecar")
    /\ UNCHANGED <<raw, sidecar, previousSidecar, live, reader, committed, bounds>>

BackupSidecar ==
    /\ writer.pc = "copySidecar"
    /\ IF Parsed(sidecar) /\ previousSidecar.kind = "missing"
       THEN previousSidecar' = TornSidecar /\ UNCHANGED writer
       ELSE previousSidecar' = sidecar /\ Goto("swap")
    /\ UNCHANGED <<raw, sidecar, previousRaw, live, reader, committed, bounds>>

\* The staged import replaces the raw file in one rename.
SwapRaw ==
    /\ writer.pc = "swap"
    /\ raw' = NewFile(writer.text)
    /\ Goto("publish")
    /\ UNCHANGED <<sidecar, previousRaw, previousSidecar, live, reader,
                   committed, bounds>>

\* The raw file is hashed and the sidecar that describes it renamed into place.
PublishSidecar ==
    /\ writer.pc \in {"publish", "resign"}
    /\ sidecar' = Describe(raw)
    /\ committed' = IF writer.pc = "publish" THEN raw.text ELSE committed
    /\ Goto(IF writer.op \in {"append", "continue"} THEN "release" ELSE "cleanRaw")
    /\ UNCHANGED <<raw, previousRaw, previousSidecar, live, reader, bounds>>

-----------------------------------------------------------------------------
(* Repair.                                                                 *)

\* Seeded fault: whatever is in the raw file is published.
RepairPlan_Accepts(forced) ==
    IF MatchesExact(previousSidecar, previousRaw) /\ ~MatchesExact(sidecar, raw)
    THEN "restoreRaw" ELSE "resign"
\* Seeded fault: the backup is not looked at.
RepairPlan_NoRestore(forced) ==
    IF MatchesExact(sidecar, raw) THEN "resign"
    ELSE IF MatchesPublishedPrefix(sidecar, raw) THEN "truncate"
    ELSE IF Parsed(sidecar) THEN "fail"
    ELSE "resign"

\* Which way repair_publication_inner takes.
RepairPlan(forced) ==
    IF MatchesExact(sidecar, raw) THEN "resign"
    ELSE IF MatchesExact(previousSidecar, previousRaw) THEN "restoreRaw"
    ELSE IF MatchesPublishedPrefix(sidecar, raw) THEN "truncate"
    ELSE IF Parsed(sidecar)
    THEN IF Len(raw.text) < Len(sidecar.text) /\ forced THEN "resign" ELSE "fail"
    ELSE "resign"

Inspect ==
    /\ writer.pc = "inspect"
    /\ LET plan == RepairPlan(writer.op = "force")
       IN  IF plan = "fail" THEN Gone ELSE Goto(plan) /\ UNCHANGED live
    /\ UNCHANGED <<files, reader, committed, bounds>>

\* Seeded fault: the file is emptied, not cut.
Truncate_ToZero ==
    /\ writer.pc = "truncate"
    /\ raw' = Rewritten(raw, <<>>)
    /\ Goto("resign")
    /\ UNCHANGED <<sidecar, previousRaw, previousSidecar, live, reader,
                   committed, bounds>>

\* The published digits are kept, what was appended after them is cut off.
Truncate ==
    /\ writer.pc = "truncate"
    /\ raw' = Rewritten(raw, sidecar.text)
    /\ Goto("resign")
    /\ UNCHANGED <<sidecar, previousRaw, previousSidecar, live, reader,
                   committed, bounds>>

\* restore_previous: two renames, the raw file first; renaming a file that is
\* not there is an error.
RestoreRaw ==
    /\ writer.pc = "restoreRaw"
    /\ IF Present(previousRaw)
       THEN /\ raw' = Rewritten(previousRaw, previousRaw.text)
            /\ previousRaw' = NoFile
            /\ Goto("restoreSidecar") /\ UNCHANGED live
       ELSE Gone /\ UNCHANGED <<raw, previousRaw>>
    /\ UNCHANGED <<sidecar, previousSidecar, reader, committed, bounds>>

RestoreSidecar ==
    /\ writer.pc = "restoreSidecar"
    /\ sidecar' = previousSidecar
    /\ previousSidecar' = NoSidecar
    /\ Goto("cleanRaw")
    /\ UNCHANGED <<raw, previousRaw, live, reader, committed, bounds>>

\* The call returns; after a repair what it left is what is published.
Release ==
    /\ writer.pc = "release"
    /\ Gone
    /\ committed' = IF writer.op \in {"repair", "force"} THEN raw.text ELSE committed
    /\ UNCHANGED <<files, reader, bounds>>

WriterStep ==
    \/ Check \/ AppendDigits \/ ClearRaw \/ ClearSidecar \/ BackupRaw
    \/ BackupSidecar \/ SwapRaw \/ PublishSidecar \/ Inspect \/ Truncate
    \/ RestoreRaw \/ RestoreSidecar \/ Release

-----------------------------------------------------------------------------
(* A reader: published_digit_count and read_range_timed, without the lock. *)

ReaderKeepsRest == UNCHANGED <<files, live, writer, committed, bounds>>

BeginRead ==
    /\ reader.pc = "idle"
    /\ \E range \in setup.ranges :
          reader' = [IdleReader EXCEPT !.pc = "side", !.offset = range.offset,
                                       !.length = range.length]
    /\ ReaderKeepsRest

\* fast_info looks at the sidecar, the raw file's metadata, the lock, and,
\* when the file may have grown under a live writer, at its digits.
LookAtSidecar ==
    /\ reader.pc \in {"side", "sideAgain"}
    /\ reader' = [reader EXCEPT !.side = sidecar,
                     !.pc = IF reader.pc = "side" THEN "stat" ELSE "statAgain"]
    /\ ReaderKeepsRest

LookAtRaw ==
    /\ reader.pc \in {"stat", "statAgain"}
    /\ reader' = [reader EXCEPT !.stat = raw,
                     !.pc = IF reader.pc = "stat" THEN "lock" ELSE "lockAgain"]
    /\ ReaderKeepsRest

LookAtLock ==
    /\ reader.pc \in {"lock", "lockAgain"}
    /\ reader' = [reader EXCEPT !.live = live,
                     !.pc = IF reader.pc = "lock" THEN "judge" ELSE "judgeAgain"]
    /\ ReaderKeepsRest

\* Without a fingerprint (the sidecar describes a file that is not there) the
\* digits are compared.
FastExact(s, stat) ==
    /\ Len(s.text) = Len(stat.text)
    /\ IF s.version # 0 THEN s.version = stat.version ELSE MatchesExact(s, raw)
Status(s, stat, lockLive) ==
    IF ~Parsed(s) THEN s.kind
    ELSE IF \/ FastExact(s, stat)
            \/ /\ lockLive
               /\ Len(s.text) <= Len(stat.text)
               /\ MatchesPublishedPrefix(s, raw)
    THEN "ok" ELSE "inconsistent"

\* readable_published_digits
Refuses(status, size, digits) ==
    /\ ~(status = "missing" /\ size = 0)
    /\ status # "ok" \/ (digits = 0 /\ size > 0)

\* Seeded fault: only the sidecar's identity is compared.
SnapshotId_SidecarOnly ==
    [NoId EXCEPT !.side = reader.side]
SnapshotId ==
    [status |-> Status(reader.side, reader.stat, reader.live),
     side |-> reader.side, size |-> Len(reader.stat.text),
     ino |-> reader.stat.ino, version |-> reader.stat.version]

Judge ==
    /\ reader.pc = "judge"
    /\ LET status == Status(reader.side, reader.stat, reader.live)
       IN  reader' = IF Refuses(status, Len(reader.stat.text), Len(reader.side.text))
                     THEN [IdleReader EXCEPT !.pc = "error"]
                     ELSE [reader EXCEPT !.pc = "read", !.before = SnapshotId]
    /\ ReaderKeepsRest

\* The file is opened by its name, whatever file that is by now.
ReadDigits ==
    /\ reader.pc = "read"
    /\ LET end == Lesser(reader.offset + reader.length, Len(reader.before.side.text))
       IN  reader' =
             IF end <= reader.offset
             THEN [reader EXCEPT !.pc = "sideAgain", !.got = <<>>]
             ELSE IF ~Present(raw) THEN [IdleReader EXCEPT !.pc = "error"]
             ELSE [reader EXCEPT !.pc = "sideAgain",
                      !.got = Slice(raw.text, reader.offset,
                                    Greater(reader.offset, Lesser(end, Len(raw.text))))]
    /\ ReaderKeepsRest

\* The digits count only if nothing has changed; otherwise it is tried again.
Compare ==
    /\ reader.pc = "judgeAgain"
    /\ reader' =
         IF SnapshotId = reader.before
         THEN [IdleReader EXCEPT !.pc = "ok", !.offset = reader.offset,
                                 !.length = reader.length, !.got = reader.got]
         ELSE IF reader.attempt = ReadRetries
         THEN [IdleReader EXCEPT !.pc = "error"]
         ELSE [IdleReader EXCEPT !.pc = "side", !.offset = reader.offset,
                                 !.length = reader.length,
                                 !.attempt = reader.attempt + 1]
    /\ ReaderKeepsRest

EndRead ==
    /\ reader.pc \in {"ok", "error"}
    /\ reader' = IdleReader
    /\ ReaderKeepsRest

ReaderStep ==
    \/ BeginRead \/ LookAtSidecar \/ LookAtRaw \/ LookAtLock \/ Judge
    \/ ReadDigits \/ Compare \/ EndRead

-----------------------------------------------------------------------------
(* The outside.                                                            *)

\* The writer fails or dies at any step: what it wrote so far stays, and its
\* lock is removed, or left by a process that lives no more.
Fault ==
    /\ writer.pc # "idle"
    /\ faults < setup.maxFaults
    /\ faults' = faults + 1
    /\ Gone
    /\ UNCHANGED <<files, reader, committed, writes, damage>>

\* Somebody cuts digits off the raw file.
Damage ==
    /\ ~live
    /\ damage < setup.maxDamage
    /\ raw.text # <<>>
    /\ raw' = Rewritten(raw, SubSeq(raw.text, 1, Len(raw.text) - 1))
    /\ damage' = damage + 1
    /\ UNCHANGED <<sidecar, previousRaw, previousSidecar, live, writer, reader,
                   committed, writes, faults>>

Step ==
    BeginWrite \/ WriterStep \/ ReaderStep \/ Fault \/ Damage

\* A complete backup is still there, or the sidecar names the file that was
\* the cache before a backup was restored.
Leftovers ==
    MatchesExact(previousSidecar, previousRaw) \/ sidecar.ino \notin {0, raw.ino}

\* The cache is in order, so nobody has cleaned up, and somebody appends to it
\* or cuts it off: what a repair finds later is no longer what was left.
Overlays ==
    /\ MatchesExact(sidecar, raw) /\ Leftovers
    /\ raw'.text # raw.text /\ writer.pc # "swap"

Next ==
    /\ Step
    /\ UNCHANGED setup
    /\ overlaid' = (overlaid \/ Overlays)
    /\ seen' = IF reader'.pc = "idle" THEN {}
               ELSE IF reader.pc = "idle" THEN Published'
               ELSE seen \cup Published'

Spec == Init /\ [][Next]_vars

-----------------------------------------------------------------------------
(* Properties                                                              *)

Texts == Seq(Digits)
FileType == [text : Texts, ino : 0..3, version : 0..9]
SidecarType == [kind : {"missing", "torn", "parsed"}, text : Texts, ino : 0..3,
                version : 0..9]
WriterPlaces == {"idle", "check", "append", "clearRaw", "clearSidecar", "copyRaw",
                 "copySidecar", "swap", "publish", "resign", "cleanRaw",
                 "cleanSidecar", "inspect", "truncate", "restoreRaw",
                 "restoreSidecar", "release"}
WriterType ==
    [pc : WriterPlaces, text : Texts,
     op : {"none", "append", "continue", "replace", "repair", "force"}]
StatusType == {"none", "missing", "torn", "ok", "inconsistent"}
IdType == [status : StatusType, side : SidecarType, size : Nat, ino : 0..3,
           version : 0..9]
ReaderType ==
    [pc : {"idle", "side", "stat", "lock", "judge", "read", "sideAgain", "statAgain",
           "lockAgain", "judgeAgain", "ok", "error"},
     offset : Nat, length : Nat, attempt : 1..ReadRetries, side : SidecarType,
     stat : FileType, live : BOOLEAN, before : IdType, got : Texts]

TypeOK ==
    /\ raw \in FileType /\ previousRaw \in FileType
    /\ sidecar \in SidecarType /\ sidecar.kind # "torn"
    /\ previousSidecar \in SidecarType
    /\ writer \in WriterType /\ live = (writer.pc # "idle")
    /\ reader \in ReaderType
    /\ committed \in Texts \cup {NoText}
    /\ overlaid \in BOOLEAN

\* A reader without the lock gets what was really published at some moment of
\* its call: no torn mixture of two publications, no digits of an append or
\* an import that is not published yet, and no fewer digits than there were.
ReadsArePublished ==
    reader.pc = "ok" =>
        \E text \in seen :
            reader.got = Slice(text, reader.offset,
                               Lesser(reader.offset + reader.length, Len(text)))

\* Nobody but the writers has touched the files, and no writer has touched them
\* before what an import left was cleaned up.
Undisturbed == damage = 0 /\ ~overlaid

\* A repair discards only what was never published: whatever died before it,
\* the publication it leaves is the one last committed.
RepairRestoresCommitted ==
    Undisturbed /\ writer.pc = "release" /\ writer.op = "repair" /\ committed # NoText
      => Published = {committed}

\* What an append or an import published is readable when the call returns.
ReadableNow == Status(sidecar, raw, FALSE) = "ok"
PublicationReadable ==
    writer.pc = "release" /\ writer.op \in {"append", "replace"} => ReadableNow

\* A repair that would restore the backup has one, unless what was backed up is
\* a sidecar that described no file: renaming a file that is not there fails.
BackupIsThere ==
    RepairPlan(FALSE) = "restoreRaw" => Present(previousRaw) \/ previousSidecar.ino = 0

\* Whatever a dead writer left, a repair that is not forced goes through.
Recoverable == ~live /\ Undisturbed => RepairPlan(FALSE) # "fail" /\ BackupIsThere

\* Forced, a repair goes through even if digits were cut off the raw file.
ForceRecovers == ~live /\ ~overlaid => RepairPlan(TRUE) # "fail" /\ BackupIsThere

\* After every call, and every crash, the cache can be used: what was published
\* is readable, what was left behind can be repaired.
WriterInvariant == TypeOK /\ PublicationReadable /\ Recoverable /\ ForceRecovers

\* No crash, and no repair after any number of crashes, takes back digits a
\* search has read: nothing but the text last committed is ever published.
OnlyCommittedIsPublished ==
    Undisturbed /\ committed # NoText => Published \subseteq {committed}

\* Only what an import leaves can be disturbed.
AppendsLeaveNothing == setup.imports = {} => ~overlaid

\* What was published stays and is what is read: by readers without the lock,
\* after repairs, and over any number of crashes.
PublicationIsKept ==
    /\ ReadsArePublished /\ RepairRestoresCommitted
    /\ OnlyCommittedIsPublished /\ AppendsLeaveNothing
=============================================================================
