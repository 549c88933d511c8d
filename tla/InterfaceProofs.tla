--------------------------- MODULE InterfaceProofs ---------------------------
(***************************************************************************)
(* The session of the terminal interface (TuiSession), the database of     *)
(* runs (RunStore), the configuration file (ConfigFile), when the          *)
(* interface is drawn (FrameLoop), the limits of a search                  *)
(* (ResourceLimits), where input goes (TuiInput) and the wizard            *)
(* (HuntWizard), for any runs, threads, processes, windows, texts, toasts, *)
(* machines, options, snapshots, forms and bounds: their invariants, and   *)
(* what no statement, no save, no key and no edit does.                    *)
(***************************************************************************)
EXTENDS InterfaceState, SequenceTheorems, FiniteSetTheorems, TLAPS

-----------------------------------------------------------------------------
(* A session of the terminal interface.                                    *)

RowType == [run : Runs, status : Statuses]
InboxType == [pause : {"keep", "pause", "resume"}, stop : BOOLEAN, any : BOOLEAN]
ThreadType ==
    [run : Runs, pc : {"begin", "control", "work", "finish", "announce", "gone"},
     paused : BOOLEAN, reason : Reasons \cup {"none"}, inbox : InboxType,
     shown : {"none", "paused", "running"}, ending : Reasons \cup {"none", "Error"},
     recent : BOOLEAN]
WorkerType ==
    [thread : Nat, run : Runs \cup {NoRun}, paused : BOOLEAN, finished : Reasons \cup {"none"},
     error : BOOLEAN, quitAfterStop : BOOLEAN]

StoreTypes ==
    /\ table \in Seq(Runs)
    /\ \A i, j \in DOMAIN table : table[i] = table[j] => i = j
    /\ status \in [Runs -> Statuses]
ListTypes ==
    /\ list \in Seq(RowType)
    /\ selected \in 0..Len(list)
    /\ list # <<>> => selected # 0
SearchTypes ==
    /\ worker \in WorkerType
    /\ threads \in Seq(ThreadType)
    /\ Len(threads) <= setup.searches
LoopTypes ==
    /\ setup \in SessionSetups
    /\ turn \in {"enter", "poll", "input", "shutdown", "join", "exited", "refused"}
    /\ tab \in {"Hunt", "Runs"}
    /\ dialog \in Runs \cup {NoRun}
    /\ shouldQuit \in BOOLEAN
Types == StoreTypes /\ ListTypes /\ SearchTypes /\ LoopTypes

\* Whoever still searches is the worker's thread; one that has told its end is
\* gone, and the worker has heard of an end only from its own thread.
Workers ==
    /\ Attached => worker.thread \in DOMAIN threads /\ worker.run = threads[worker.thread].run
    /\ \A t \in DOMAIN threads : threads[t].pc # "gone" => Attached /\ t = worker.thread
    /\ \A t \in DOMAIN threads :
           /\ threads[t].pc # "gone" => threads[t].ending = "none"
           /\ threads[t].pc \in {"finish", "announce"} => threads[t].reason \in Reasons
    /\ worker.finished # "none" \/ worker.error =>
           Attached /\ threads[worker.thread].pc = "gone"

\* The row says how the worker's search ended from before the thread tells it
\* until the worker has heard it.
EndIsStored ==
    Attached /\ Stored(worker.run) =>
        /\ threads[worker.thread].pc = "announce" =>
               status[worker.run] = FinalStatus(threads[worker.thread].reason)
        /\ threads[worker.thread].ending \in Reasons =>
               status[worker.run] = FinalStatus(threads[worker.thread].ending)
        /\ worker.finished # "none" => status[worker.run] = FinalStatus(worker.finished)

SessionInv == Types /\ Workers /\ EndIsStored /\ ListCurrentWhenIdle /\ ExitJoinsSearch

-----------------------------------------------------------------------------
LEMMA RunKnown == ASSUME Types, NEW r, Stored(r) PROVE r \in Runs
<1>1. table \in Seq(Runs)
  BY DEF Types, StoreTypes
<1>2. PICK i \in DOMAIN table : table[i] = r
  BY DEF Stored
<1> QED
  BY <1>1, <1>2, ElementOfSeq

\* The table without one of its runs.
LEMMA WithoutIs ==
    ASSUME StoreTypes, NEW r
    PROVE  /\ Without(r) \in Seq(Runs)
           /\ \A i, j \in DOMAIN Without(r) : Without(r)[i] = Without(r)[j] => i = j
           /\ \A i \in DOMAIN Without(r) : Without(r)[i] # r /\ Stored(Without(r)[i])
           /\ \A x : Stored(x) /\ x # r => \E i \in DOMAIN Without(r) : Without(r)[i] = x
<1>1. table \in Seq(Runs) /\ \A i, j \in DOMAIN table : table[i] = table[j] => i = j
  BY DEF StoreTypes
<1>2. CASE ~Stored(r)
  <2>1. Without(r) = table
    BY <1>2 DEF Without
  <2> QED BY <1>1, <1>2, <2>1 DEF Stored
<1>3. CASE Stored(r)
  <2> DEFINE k == CHOOSE i \in DOMAIN table : table[i] = r
             a == SubSeq(table, 1, k - 1)
             b == SubSeq(table, k + 1, Len(table))
             w == a \o b
  <2>1. k \in DOMAIN table /\ table[k] = r
    BY <1>3 DEF Stored
  <2>2. Without(r) = w
    BY <1>3 DEF Without
  <2> HIDE DEF k
  <2>3. Len(table) \in Nat /\ DOMAIN table = 1..Len(table) /\ k \in 1..Len(table)
        /\ \A i \in 1..Len(table) : table[i] \in Runs
    BY <1>1, <2>1, LenProperties, ElementOfSeq
  <2>4. /\ a \in Seq(Runs) /\ Len(a) = k - 1
        /\ \A i \in 1..(k - 1) : a[i] = table[i]
    <3>1. 1 \in Int /\ k - 1 \in Int /\ \A i \in 1..(k - 1) : table[i] \in Runs
      BY <2>3
    <3>2. /\ a \in Seq(Runs)
          /\ Len(a) = IF 1 <= k - 1 THEN (k - 1) - 1 + 1 ELSE 0
          /\ \A i \in 1..((k - 1) - 1 + 1) : a[i] = table[1 + i - 1]
      BY <3>1, SubSeqProperties
    <3> HIDE DEF a
    <3>3. \A i \in 1..(k - 1) : a[i] = table[i]
      <4>1. ASSUME NEW i \in 1..(k - 1) PROVE a[i] = table[i]
        <5>1. i \in 1..((k - 1) - 1 + 1) /\ 1 + i - 1 = i
          BY <2>3
        <5> QED BY <3>2, <5>1
      <4> QED BY <4>1
    <3> QED BY <2>3, <3>2, <3>3
  <2>5. /\ b \in Seq(Runs) /\ Len(b) = Len(table) - k
        /\ \A i \in 1..(Len(table) - k) : b[i] = table[i + k]
    <3> DEFINE n == Len(table)
    <3>1. k + 1 \in Int /\ n \in Int /\ \A i \in (k + 1)..n : table[i] \in Runs
      BY <2>3
    <3>2. /\ b \in Seq(Runs)
          /\ Len(b) = IF k + 1 <= n THEN n - (k + 1) + 1 ELSE 0
          /\ \A i \in 1..(n - (k + 1) + 1) : b[i] = table[(k + 1) + i - 1]
      BY <3>1, SubSeqProperties
    <3> HIDE DEF b, n
    <3>3. n \in Nat /\ k \in 1..n
      BY <2>3 DEF n
    <3>4. \A i \in 1..(n - k) : b[i] = table[i + k]
      <4>1. ASSUME NEW i \in 1..(n - k) PROVE b[i] = table[i + k]
        <5>1. i \in 1..(n - (k + 1) + 1) /\ (k + 1) + i - 1 = i + k
          BY <3>3
        <5> QED BY <3>2, <5>1
      <4> QED BY <4>1
    <3>5. Len(b) = n - k
      BY <3>2, <3>3
    <3> QED BY <3>2, <3>4, <3>5 DEF n
  <2> HIDE DEF a, b
  <2>6. /\ w \in Seq(Runs) /\ Len(w) = Len(a) + Len(b)
        /\ \A i \in 1..(Len(a) + Len(b)) : w[i] = IF i <= Len(a) THEN a[i] ELSE b[i - Len(a)]
    BY <2>4, <2>5, ConcatProperties
  <2> HIDE DEF w
  <2>7. DOMAIN w = 1..(Len(table) - 1)
    BY <2>3, <2>4, <2>5, <2>6
  <2> DEFINE At(i) == IF i < k THEN i ELSE i + 1
  <2>8. \A i \in DOMAIN w : w[i] = table[At(i)] /\ At(i) \in DOMAIN table /\ At(i) # k
    <3>1. ASSUME NEW i \in DOMAIN w
          PROVE  w[i] = table[At(i)] /\ At(i) \in DOMAIN table /\ At(i) # k
      <4>1. i \in 1..(Len(a) + Len(b))
        BY <2>3, <2>4, <2>5, <2>7, <3>1
      <4>2. CASE i < k
        <5>1. w[i] = a[i] /\ i \in 1..(k - 1)
          BY <2>3, <2>4, <2>6, <4>1, <4>2
        <5> QED BY <2>3, <2>4, <2>7, <3>1, <4>2, <5>1
      <4>3. CASE ~(i < k)
        <5>1. w[i] = b[i - (k - 1)]
          BY <2>3, <2>4, <2>6, <4>1, <4>3
        <5>2. i - (k - 1) \in 1..(Len(table) - k) /\ (i - (k - 1)) + k = i + 1
          BY <2>3, <2>7, <3>1, <4>3
        <5>3. b[i - (k - 1)] = table[(i - (k - 1)) + k]
          BY <2>5, <5>2
        <5> QED BY <2>3, <2>7, <3>1, <4>3, <5>1, <5>2, <5>3
      <4> QED BY <4>2, <4>3
    <3> QED BY <3>1
  <2>9. ASSUME NEW i \in DOMAIN w, NEW j \in DOMAIN w, w[i] = w[j] PROVE i = j
    <3>1. At(i) = At(j)
      BY <1>1, <2>8, <2>9
    <3> QED BY <2>3, <2>7, <3>1
  <2>10. ASSUME NEW i \in DOMAIN w PROVE w[i] # r /\ Stored(w[i])
    BY <1>1, <2>1, <2>8 DEF Stored
  <2>11. ASSUME NEW x, Stored(x), x # r PROVE \E i \in DOMAIN w : w[i] = x
    <3>1. PICK m \in DOMAIN table : table[m] = x
      BY <2>11 DEF Stored
    <3>2. m # k
      BY <2>1, <2>11, <3>1
    <3> DEFINE i == IF m < k THEN m ELSE m - 1
    <3>3. i \in DOMAIN w /\ At(i) = m
      BY <2>3, <2>7, <3>1, <3>2
    <3> QED BY <2>8, <3>1, <3>3
  <2> QED BY <2>2, <2>6, <2>9, <2>10, <2>11
<1> QED BY <1>2, <1>3

\* A row on top of the others.
LEMMA OnTopIs ==
    ASSUME NEW rows \in Seq(Runs), NEW r \in Runs,
           \A i, j \in DOMAIN rows : rows[i] = rows[j] => i = j,
           \A i \in DOMAIN rows : rows[i] # r
    PROVE  LET top == <<r>> \o rows
           IN  /\ top \in Seq(Runs)
               /\ \A i, j \in DOMAIN top : top[i] = top[j] => i = j
               /\ \A x : (\E i \in DOMAIN top : top[i] = x) <=>
                             x = r \/ \E i \in DOMAIN rows : rows[i] = x
<1> DEFINE one == <<r>>
           top == one \o rows
<1>1. one \in Seq(Runs) /\ Len(one) = 1 /\ one[1] = r
  OBVIOUS
<1> HIDE DEF one
<1>2. Len(rows) \in Nat /\ DOMAIN rows = 1..Len(rows)
  BY LenProperties
<1>3. /\ top \in Seq(Runs) /\ Len(top) = 1 + Len(rows)
      /\ \A i \in 1..(1 + Len(rows)) : top[i] = IF i <= 1 THEN one[i] ELSE rows[i - 1]
  BY <1>1, ConcatProperties, SMTT(40)
<1> HIDE DEF top
<1>4. DOMAIN top = 1..(1 + Len(rows))
  BY <1>2, <1>3
<1>5. top[1] = r /\ 1 \in DOMAIN top
  BY <1>1, <1>2, <1>3, <1>4
<1>6. \A i \in DOMAIN top : i # 1 => i - 1 \in DOMAIN rows /\ top[i] = rows[i - 1]
  BY <1>2, <1>3, <1>4
<1>7. \A i \in DOMAIN rows : i + 1 \in DOMAIN top /\ top[i + 1] = rows[i]
  <2>1. ASSUME NEW i \in DOMAIN rows PROVE i + 1 \in DOMAIN top /\ top[i + 1] = rows[i]
    <3>1. i + 1 \in DOMAIN top /\ i + 1 # 1 /\ (i + 1) - 1 = i
      BY <1>2, <1>4
    <3> QED BY <1>6, <3>1
  <2> QED BY <2>1
<1>8. ASSUME NEW i \in DOMAIN top, NEW j \in DOMAIN top, top[i] = top[j] PROVE i = j
  <2>1. CASE i = 1 \/ j = 1
    BY <1>5, <1>6, <1>8, <2>1
  <2>2. CASE i # 1 /\ j # 1
    <3>1. i - 1 = j - 1
      BY <1>6, <1>8, <2>2
    <3> QED BY <1>2, <1>4, <3>1
  <2> QED BY <2>1, <2>2
<1>9. ASSUME NEW x
      PROVE (\E i \in DOMAIN top : top[i] = x) <=> x = r \/ \E i \in DOMAIN rows : rows[i] = x
  BY <1>5, <1>6, <1>7
<1> QED BY <1>3, <1>8, <1>9 DEF top, one

LEMMA UpdateRowIs ==
    ASSUME StoreTypes, NEW r \in Runs, NEW s \in Statuses, UpdateRow(r, s)
    PROVE  /\ StoreTypes'
           /\ \A x : Stored(x)' <=> Stored(x)
           /\ Stored(r) => status'[r] = s
           /\ \A x \in Runs : x # r => status'[x] = status[x]
<1>1. CASE ~Stored(r)
  <2>1. table' = table /\ status' = status
    BY <1>1 DEF UpdateRow, storeVars
  <2> QED BY <1>1, <2>1 DEF StoreTypes, Stored
<1>2. CASE Stored(r)
  <2>1. table' = <<r>> \o Without(r) /\ status' = [status EXCEPT ![r] = s]
    BY <1>2 DEF UpdateRow
  <2>2. /\ Without(r) \in Seq(Runs)
        /\ \A i, j \in DOMAIN Without(r) : Without(r)[i] = Without(r)[j] => i = j
        /\ \A i \in DOMAIN Without(r) : Without(r)[i] # r /\ Stored(Without(r)[i])
        /\ \A x : Stored(x) /\ x # r => \E i \in DOMAIN Without(r) : Without(r)[i] = x
    BY WithoutIs
  <2> DEFINE w == Without(r)
  <2>3. /\ table' \in Seq(Runs)
        /\ \A i, j \in DOMAIN table' : table'[i] = table'[j] => i = j
        /\ \A x : (\E i \in DOMAIN table' : table'[i] = x) <=>
                      x = r \/ \E i \in DOMAIN w : w[i] = x
    <3>1. w \in Seq(Runs) /\ (\A i, j \in DOMAIN w : w[i] = w[j] => i = j)
          /\ \A i \in DOMAIN w : w[i] # r
      BY <2>2
    <3>2. table' = <<r>> \o w
      BY <2>1
    <3> HIDE DEF w
    <3> DEFINE top == <<r>> \o w
    <3>3. /\ top \in Seq(Runs)
          /\ \A i, j \in DOMAIN top : top[i] = top[j] => i = j
          /\ \A x : (\E i \in DOMAIN top : top[i] = x) <=>
                        x = r \/ \E i \in DOMAIN w : w[i] = x
      BY <3>1, OnTopIs
    <3>4. table' = top
      BY <3>2
    <3> HIDE DEF top
    <3> QED BY <3>3, <3>4
  <2>4. ASSUME NEW x PROVE Stored(x)' <=> Stored(x)
    <3>1. Stored(x)' <=> x = r \/ \E i \in DOMAIN w : w[i] = x
      BY <2>3 DEF Stored
    <3>2. (\E i \in DOMAIN w : w[i] = x) => Stored(x) /\ x # r
      BY <2>2
    <3>3. Stored(x) /\ x # r => \E i \in DOMAIN w : w[i] = x
      BY <2>2
    <3> QED BY <1>2, <3>1, <3>2, <3>3
  <2>5. status' \in [Runs -> Statuses] /\ status'[r] = s
        /\ \A x \in Runs : x # r => status'[x] = status[x]
    BY <2>1 DEF StoreTypes
  <2> QED BY <2>3, <2>4, <2>5 DEF StoreTypes
<1> QED BY <1>1, <1>2

\* The rows that are listed are those of the table.
LEMMA ListIs ==
    ASSUME NEW rows \in Seq(Runs), NEW column \in [Runs -> Statuses]
    PROVE  ListRuns(rows, column) \in Seq(RowType) /\ Len(ListRuns(rows, column)) = Len(rows)
<1>1. Len(rows) \in Nat /\ DOMAIN rows = 1..Len(rows) /\ \A i \in 1..Len(rows) : rows[i] \in Runs
  BY LenProperties, ElementOfSeq
<1>2. ListRuns(rows, column) = [i \in 1..Len(rows) |-> [run |-> rows[i],
        status |-> column[rows[i]]]]
  BY <1>1 DEF ListRuns
<1>3. \A i \in 1..Len(rows) : [run |-> rows[i], status |-> column[rows[i]]] \in RowType
  BY <1>1 DEF RowType
<1> QED BY <1>1, <1>2, <1>3

LEMMA ClampedIs ==
    ASSUME NEW index \in Nat, NEW length \in Nat
    PROVE  Clamped(index, length) \in 0..length /\ (length # 0 => Clamped(index, length) # 0)
BY DEF Clamped

LEMMA ReloadIs ==
    ASSUME ListTypes, StoreTypes', Reload
    PROVE  ListTypes' /\ list' = ListRuns(table', status')
<1>1. /\ list' \in Seq(RowType) /\ list' = ListRuns(table', status')
  BY ListIs DEF Reload, StoreTypes
<1>2. Len(list') \in Nat /\ (list' # <<>> => Len(list') # 0) /\ selected \in Nat
  BY <1>1, LenProperties, EmptySeq DEF ListTypes
<1>3. selected' = Clamped(selected, Len(list'))
  BY DEF Reload
<1>4. selected' \in 0..Len(list') /\ (Len(list') # 0 => selected' # 0)
  BY <1>2, <1>3, ClampedIs
<1> QED BY <1>1, <1>2, <1>4 DEF ListTypes

\* The selected row is one of the list.
LEMMA SelectedIs ==
    ASSUME ListTypes, selected # 0 PROVE Selected \in RowType
<1>1. Len(list) \in Nat /\ selected \in 1..Len(list) /\ list \in Seq(RowType)
  BY LenProperties DEF ListTypes
<1> QED BY <1>1, ElementOfSeq DEF Selected

LEMMA FinalIs == ASSUME NEW reason \in Reasons PROVE FinalStatus(reason) \in Statuses
BY DEF Reasons, FinalStatus, Statuses, Finished

LEMMA ThreadIs ==
    ASSUME SearchTypes, NEW t \in DOMAIN threads
    PROVE  threads[t] \in ThreadType /\ threads[t].run \in Runs /\ t \in Nat /\ t # 0
           /\ t <= Len(threads)
<1>1. threads \in Seq(ThreadType) /\ DOMAIN threads = 1..Len(threads) /\ Len(threads) \in Nat
  BY LenProperties DEF SearchTypes
<1>2. threads[t] \in ThreadType
  BY <1>1, ElementOfSeq
<1> QED BY <1>1, <1>2 DEF ThreadType

\* One thread moves on, the others keep theirs.
LEMMA BecomesIs ==
    ASSUME SearchTypes, NEW t \in DOMAIN threads, NEW record \in ThreadType, Becomes(t, record)
    PROVE  /\ threads' \in Seq(ThreadType) /\ Len(threads') = Len(threads)
           /\ DOMAIN threads' = DOMAIN threads
           /\ threads'[t] = record
           /\ \A u \in DOMAIN threads : u # t => threads'[u] = threads[u]
<1>1. threads \in Seq(ThreadType) /\ DOMAIN threads = 1..Len(threads) /\ Len(threads) \in Nat
  BY LenProperties DEF SearchTypes
<1>2. threads' = [threads EXCEPT ![t] = record]
  BY DEF Becomes
<1>3. /\ threads' \in Seq(ThreadType) /\ Len(threads') = Len(threads)
      /\ \A j \in 1..Len(threads) : threads'[j] = IF j = t THEN record ELSE threads[j]
  BY <1>1, <1>2, ExceptSeq
<1> QED BY <1>1, <1>2, <1>3

\* A command goes to the worker's thread, unless that is gone.
LEMMA SendIs ==
    ASSUME SearchTypes, worker.thread \in DOMAIN threads, NEW command, Send(command)
    PROVE  /\ threads' \in Seq(ThreadType) /\ Len(threads') = Len(threads)
           /\ DOMAIN threads' = DOMAIN threads
           /\ \A u \in DOMAIN threads :
                  /\ threads'[u].run = threads[u].run /\ threads'[u].pc = threads[u].pc
                  /\ threads'[u].ending = threads[u].ending
                       /\ threads'[u].reason = threads[u].reason
<1> DEFINE t == worker.thread
           inbox == Sent(threads[t].inbox, command)
           record == [threads[t] EXCEPT !.inbox = inbox]
<1>1. threads[t] \in ThreadType
  BY ThreadIs
<1>2. CASE threads[t].pc = "gone"
  <2>1. threads' = threads
    BY <1>2 DEF Send
  <2> QED BY <2>1 DEF SearchTypes
<1>3. CASE threads[t].pc # "gone"
  <2>1. Becomes(t, record)
    BY <1>3 DEF Send
  <2>2. inbox \in InboxType
    <3>1. threads[t].inbox \in InboxType
      BY <1>1 DEF ThreadType
    <3> QED BY <3>1 DEF Sent, InboxType
  <2> HIDE DEF inbox
  <2>3. /\ record \in ThreadType /\ record.run = threads[t].run /\ record.pc = threads[t].pc
        /\ record.ending = threads[t].ending /\ record.reason = threads[t].reason
    BY <1>1, <2>2 DEF ThreadType
  <2> HIDE DEF record, t
  <2>4. t \in DOMAIN threads
    BY DEF t
  <2> QED BY <2>1, <2>3, <2>4, BecomesIs
<1> QED BY <1>2, <1>3

\* What the thread tells is a snapshot of the rest.
LEMMA ReportIs ==
    ASSUME NEW record \in ThreadType
    PROVE  /\ Shown(record) \in ThreadType /\ Reported(record) \in ThreadType
           /\ Shown(record).run = record.run /\ Reported(record).run = record.run
           /\ Shown(record).pc = record.pc /\ Reported(record).pc = record.pc
           /\ Shown(record).ending = record.ending /\ Reported(record).ending = record.ending
           /\ Shown(record).reason = record.reason /\ Reported(record).reason = record.reason
<1>1. /\ Shown(record) \in ThreadType /\ Shown(record).run = record.run
      /\ Shown(record).pc = record.pc
      /\ Shown(record).ending = record.ending /\ Shown(record).reason = record.reason
  BY DEF Shown, ThreadType
<1>2. Reported(record) = record \/ Reported(record) = Shown(record)
  BY DEF Reported
<1> HIDE DEF Shown
<1> QED BY <1>1, <1>2

-----------------------------------------------------------------------------
(* The search thread.                                                      *)

HasRow(rows, r) == \E i \in DOMAIN rows : rows[i] = r

\* A live thread is the worker's, and writes nothing but its run's row.
LEMMA ThreadMoves ==
    ASSUME SessionInv, NEW t \in DOMAIN threads, Alive(t), UiKeeps,
           NEW record \in ThreadType, Becomes(t, record), record.run = threads[t].run,
           record.pc # "gone" => record.ending = "none",
           record.pc \in {"finish", "announce"} => record.reason \in Reasons,
           UNCHANGED storeVars \/ \E s \in Statuses : UpdateRow(threads[t].run, s),
           HasRow(table', threads[t].run) /\ record.pc = "announce" =>
               status'[threads[t].run] = FinalStatus(record.reason),
           HasRow(table', threads[t].run) /\ record.ending \in Reasons =>
               status'[threads[t].run] = FinalStatus(record.ending)
    PROVE  SessionInv'
<1> DEFINE r == threads[t].run
<1>1. /\ StoreTypes /\ SearchTypes /\ ListTypes /\ LoopTypes /\ Workers
      /\ threads[t].pc # "gone" /\ turn \notin {"exited", "refused"}
  BY DEF SessionInv, Types, Alive
<1>2. /\ Attached /\ t = worker.thread /\ worker.run = r /\ r \in Runs
      /\ worker.finished = "none" /\ ~worker.error
  BY <1>1, ThreadIs DEF Workers
<1>3. UNCHANGED <<setup, turn, tab, list, selected, dialog, worker, shouldQuit>>
  BY DEF UiKeeps, runsTabVars
<1>4. /\ threads' \in Seq(ThreadType) /\ Len(threads') = Len(threads)
      /\ DOMAIN threads' = DOMAIN threads
      /\ threads'[t] = record
      /\ \A u \in DOMAIN threads : u # t => threads'[u] = threads[u]
  BY <1>1, BecomesIs
<1>5. StoreTypes'
  <2>1. CASE UNCHANGED storeVars
    BY <1>1, <2>1 DEF storeVars, StoreTypes
  <2>2. CASE \E s \in Statuses : UpdateRow(threads[t].run, s)
    BY <1>1, <1>2, <2>2, UpdateRowIs
  <2> QED BY <2>1, <2>2
<1>6. Types'
  <2>1. ListTypes' /\ LoopTypes'
    BY <1>1, <1>3 DEF ListTypes, LoopTypes
  <2>2. SearchTypes'
    BY <1>1, <1>3, <1>4 DEF SearchTypes
  <2> QED BY <1>5, <2>1, <2>2 DEF Types
<1>7. Attached' /\ worker' = worker
  BY <1>2, <1>3 DEF Attached
<1>8. Workers'
  <2>1. worker'.thread \in DOMAIN threads' /\ worker'.run = threads'[worker'.thread].run
    BY <1>2, <1>4, <1>7
  <2>2. \A u \in DOMAIN threads' : threads'[u].pc # "gone" => u = worker'.thread
    BY <1>1, <1>2, <1>4, <1>7 DEF Workers
  <2>3. \A u \in DOMAIN threads' :
            /\ threads'[u].pc # "gone" => threads'[u].ending = "none"
            /\ threads'[u].pc \in {"finish", "announce"} => threads'[u].reason \in Reasons
    BY <1>1, <1>4 DEF Workers
  <2>4. ~(worker'.finished # "none" \/ worker'.error)
    BY <1>2, <1>7
  <2> QED BY <1>7, <2>1, <2>2, <2>3, <2>4 DEF Workers
<1>9. EndIsStored'
  BY <1>2, <1>4, <1>7 DEF EndIsStored, Stored, HasRow
<1>10. ListCurrentWhenIdle' /\ ExitJoinsSearch'
  BY <1>1, <1>3, <1>7 DEF ListCurrentWhenIdle, ExitJoinsSearch
<1> QED BY <1>6, <1>8, <1>9, <1>10 DEF SessionInv

\* A thread that is over forgets all but what it has told.
LEMMA EndsIs ==
    ASSUME SearchTypes, NEW t \in DOMAIN threads, NEW ending \in Reasons \cup {"none", "Error"},
           Ends(t, ending)
    PROVE  \E record \in ThreadType :
               /\ Becomes(t, record)
               /\ record.run = threads[t].run /\ record.pc = "gone" /\ record.ending = ending
<1> DEFINE new == NewThread(threads[t].run)
           record == [new EXCEPT !.pc = "gone", !.shown = threads[t].shown, !.ending = ending]
<1>1. threads[t] \in ThreadType /\ threads[t].run \in Runs
  BY ThreadIs
<1>2. new \in ThreadType /\ new.run = threads[t].run
  BY <1>1 DEF NewThread, ThreadType, NoCommands, InboxType
<1>3. threads[t].shown \in {"none", "paused", "running"}
  BY <1>1 DEF ThreadType
<1>4. Becomes(t, record)
  BY DEF Ends
<1> HIDE DEF new
<1>5. /\ record \in ThreadType /\ record.run = new.run /\ record.pc = "gone"
      /\ record.ending = ending
  BY <1>2, <1>3 DEF ThreadType
<1> QED BY <1>2, <1>4, <1>5

LEMMA ThreadFails ==
    ASSUME SessionInv, NEW t \in DOMAIN threads, Alive(t), UiKeeps, Fails(t), UNCHANGED storeVars
    PROVE  SessionInv'
<1>1. SearchTypes
  BY DEF SessionInv, Types
<1>2. "Error" \notin Reasons
  BY DEF Reasons
<1>3. PICK record \in ThreadType :
          /\ Becomes(t, record)
          /\ record.run = threads[t].run /\ record.pc = "gone" /\ record.ending = "Error"
  BY <1>1, EndsIs DEF Fails
<1>4. ~(record.pc \in {"finish", "announce"}) /\ record.pc # "announce"
      /\ ~(record.ending \in Reasons)
  BY <1>2, <1>3
<1> QED BY <1>3, <1>4, ThreadMoves

\* It goes on searching, and writes its row or not.
LEMMA ThreadGoesOn ==
    ASSUME SessionInv, NEW t \in DOMAIN threads, Alive(t), UiKeeps,
           NEW record \in ThreadType, Becomes(t, record), record.run = threads[t].run,
           record.ending = "none", record.pc # "announce",
           record.pc = "finish" => record.reason \in Reasons,
           UNCHANGED storeVars \/ \E s \in Statuses : UpdateRow(threads[t].run, s)
    PROVE  SessionInv'
<1>1. "none" \notin Reasons
  BY DEF Reasons
<1> QED BY <1>1, ThreadMoves

LEMMA LiveThread ==
    ASSUME SessionInv, NEW t \in DOMAIN threads, Alive(t)
    PROVE  /\ threads[t] \in ThreadType /\ threads[t].ending = "none" /\ threads[t].run \in Runs
           /\ threads[t].pc \in {"finish", "announce"} => threads[t].reason \in Reasons
BY ThreadIs DEF SessionInv, Types, Alive, Workers

LEMMA BeginKeeps ==
    ASSUME SessionInv, NEW t \in DOMAIN threads, Alive(t), UiKeeps, Begin(t) PROVE SessionInv'
<1>1. CASE UpdateRow(threads[t].run, "running")
           /\ Becomes(t, Reported([threads[t] EXCEPT !.pc = "control"]))
  <2> DEFINE next == [threads[t] EXCEPT !.pc = "control"]
  <2>1. next \in ThreadType /\ next.run = threads[t].run /\ next.ending = "none"
        /\ next.pc = "control"
    BY LiveThread DEF ThreadType
  <2> HIDE DEF next
  <2>2. /\ Reported(next) \in ThreadType /\ Reported(next).run = threads[t].run
        /\ Reported(next).ending = "none" /\ Reported(next).pc = "control"
    BY <2>1, ReportIs
  <2>3. Becomes(t, Reported(next)) /\ \E s \in Statuses : UpdateRow(threads[t].run, s)
    BY <1>1 DEF next, Statuses
  <2> QED BY <2>2, <2>3, ThreadGoesOn
<1>2. CASE WriteFails(t)
  BY <1>2, ThreadFails DEF WriteFails
<1> QED BY <1>1, <1>2 DEF Begin

LEMMA ControlKeeps ==
    ASSUME SessionInv, NEW t \in DOMAIN threads, Alive(t), UiKeeps, Control(t) PROVE SessionInv'
<1> DEFINE batch == threads[t].inbox
           paused == IF batch.pause = "keep" THEN threads[t].paused ELSE batch.pause = "pause"
           handled == [threads[t] EXCEPT !.paused = paused, !.inbox = NoCommands]
           reported == IF batch.any \/ paused THEN Reported(handled) ELSE handled
           pc == IF paused THEN "control" ELSE "work"
           next == IF batch.stop
                   THEN [reported EXCEPT !.pc = "finish", !.reason = "Interrupted"]
                   ELSE [reported EXCEPT !.pc = pc]
           s == IF paused THEN "paused" ELSE "running"
<1>1. CASE /\ IF batch.any THEN UpdateRow(threads[t].run, s) ELSE UNCHANGED storeVars
           /\ Becomes(t, next)
  <2>1. paused \in BOOLEAN
    BY LiveThread DEF ThreadType
  <2>2. s \in Statuses /\ pc \in {"control", "work"}
    BY DEF Statuses
  <2>3. batch.any \in BOOLEAN /\ batch.stop \in BOOLEAN
    BY LiveThread DEF ThreadType, InboxType
  <2>4. NoCommands \in InboxType
    BY DEF NoCommands, InboxType
  <2> HIDE DEF paused, s, batch, pc
  <2>5. handled \in ThreadType /\ handled.run = threads[t].run /\ handled.ending = "none"
    BY <2>1, <2>4, LiveThread DEF ThreadType
  <2> HIDE DEF handled
  <2>6. reported \in ThreadType /\ reported.run = threads[t].run /\ reported.ending = "none"
    BY <2>5, ReportIs
  <2> HIDE DEF reported
  <2>7. next \in ThreadType /\ next.run = threads[t].run /\ next.ending = "none"
        /\ next.pc # "announce" /\ (next.pc = "finish" => next.reason \in Reasons)
    <3>1. CASE batch.stop
      BY <2>6, <3>1 DEF ThreadType, Reasons
    <3>2. CASE ~batch.stop
      BY <2>2, <2>6, <3>2 DEF ThreadType
    <3> QED BY <3>1, <3>2
  <2>8. UNCHANGED storeVars \/ \E x \in Statuses : UpdateRow(threads[t].run, x)
    BY <1>1, <2>2
  <2> HIDE DEF next
  <2> QED BY <1>1, <2>7, <2>8, ThreadGoesOn
<1>2. CASE WriteFails(t)
  BY <1>2, ThreadFails DEF WriteFails
<1> QED BY <1>1, <1>2 DEF Control

LEMMA ChunkKeeps ==
    ASSUME SessionInv, NEW t \in DOMAIN threads, Alive(t), UiKeeps, Chunk(t) PROVE SessionInv'
<1> DEFINE next == [threads[t] EXCEPT !.pc = "control"]
<1>1. next \in ThreadType /\ next.run = threads[t].run /\ next.ending = "none"
      /\ next.pc = "control"
  BY LiveThread DEF ThreadType
<1>2. \/ UNCHANGED storeVars /\ Becomes(t, Reported(next))
      \/ UpdateRow(threads[t].run, "running")
         /\ (Becomes(t, Reported(next)) \/ Becomes(t, Shown(next)))
      \/ Fails(t) /\ UNCHANGED storeVars
  BY DEF Chunk, WriteFails
<1> HIDE DEF next
<1>3. /\ Reported(next) \in ThreadType /\ Reported(next).run = threads[t].run
      /\ Reported(next).ending = "none" /\ Reported(next).pc = "control"
      /\ Shown(next) \in ThreadType /\ Shown(next).run = threads[t].run
      /\ Shown(next).ending = "none" /\ Shown(next).pc = "control"
  BY <1>1, ReportIs
<1>4. CASE Fails(t) /\ UNCHANGED storeVars
  BY <1>4, ThreadFails
<1>5. CASE /\ Becomes(t, Reported(next)) \/ Becomes(t, Shown(next))
           /\ UNCHANGED storeVars \/ \E s \in Statuses : UpdateRow(threads[t].run, s)
  BY <1>3, <1>5, ThreadGoesOn
<1>6. "running" \in Statuses
  BY DEF Statuses
<1> QED BY <1>2, <1>4, <1>5, <1>6

LEMMA SearchKeepsOn ==
    ASSUME SessionInv, NEW t \in DOMAIN threads, Alive(t), UiKeeps,
           NothingArrives(t) \/ SearchOver(t)
    PROVE  SessionInv'
<1>1. CASE NothingArrives(t)
  <2> DEFINE next == [threads[t] EXCEPT !.pc = "control"]
  <2>1. next \in ThreadType /\ next.run = threads[t].run /\ next.ending = "none"
        /\ next.pc = "control"
    BY LiveThread DEF ThreadType
  <2>2. Becomes(t, next) /\ UNCHANGED storeVars
    BY <1>1 DEF NothingArrives
  <2> HIDE DEF next
  <2> QED BY <2>1, <2>2, ThreadGoesOn
<1>2. CASE SearchOver(t)
  <2>1. PICK reason \in Reasons :
            Becomes(t, [threads[t] EXCEPT !.pc = "finish", !.reason = reason])
    BY <1>2 DEF SearchOver
  <2> DEFINE next == [threads[t] EXCEPT !.pc = "finish", !.reason = reason]
  <2>2. next \in ThreadType /\ next.run = threads[t].run /\ next.ending = "none"
        /\ next.pc = "finish" /\ next.reason = reason
    BY LiveThread DEF ThreadType
  <2>3. Becomes(t, next) /\ UNCHANGED storeVars
    BY <1>2, <2>1 DEF SearchOver
  <2> HIDE DEF next
  <2> QED BY <2>2, <2>3, ThreadGoesOn
<1> QED BY <1>1, <1>2

\* The row is written before the event is sent, and nobody else writes it.
LEMMA FinishKeeps ==
    ASSUME SessionInv, NEW t \in DOMAIN threads, Alive(t), UiKeeps, Finish(t) PROVE SessionInv'
<1> DEFINE r == threads[t].run
<1>1. StoreTypes /\ SearchTypes
  BY DEF SessionInv, Types
<1>2. "none" \notin Reasons
  BY DEF Reasons
<1>3. CASE WriteFails(t)
  BY <1>3, ThreadFails DEF WriteFails
<1>4. CASE /\ threads[t].pc = "finish"
           /\ UpdateRow(r, FinalStatus(threads[t].reason))
           /\ Becomes(t, [threads[t] EXCEPT !.pc = "announce"])
  <2> DEFINE next == [threads[t] EXCEPT !.pc = "announce"]
             s == FinalStatus(threads[t].reason)
  <2>1. threads[t].reason \in Reasons /\ s \in Statuses /\ r \in Runs
    BY <1>4, LiveThread, FinalIs
  <2>2. next \in ThreadType /\ next.run = r /\ next.ending = "none"
        /\ next.pc = "announce" /\ next.reason = threads[t].reason
    BY LiveThread DEF ThreadType
  <2>3. Becomes(t, next) /\ UpdateRow(r, s)
    BY <1>4
  <2> HIDE DEF next, s
  <2>4. HasRow(table', r) => status'[r] = s
    <3>1. \A x : Stored(x)' <=> Stored(x)
      BY <1>1, <2>1, <2>3, UpdateRowIs
    <3>2. Stored(r) => status'[r] = s
      BY <1>1, <2>1, <2>3, UpdateRowIs
    <3> QED BY <3>1, <3>2 DEF Stored, HasRow
  <2>5. HasRow(table', threads[t].run) => status'[threads[t].run] = FinalStatus(next.reason)
    BY <2>2, <2>4 DEF s
  <2> QED BY <1>2, <2>1, <2>2, <2>3, <2>5, ThreadMoves
<1>5. CASE threads[t].pc = "announce" /\ Ends(t, threads[t].reason) /\ UNCHANGED storeVars
  <2>1. threads[t].reason \in Reasons
    BY <1>5, LiveThread
  <2>2. PICK record \in ThreadType :
            /\ Becomes(t, record)
            /\ record.run = r /\ record.pc = "gone" /\ record.ending = threads[t].reason
    BY <1>1, <1>5, <2>1, EndsIs
  <2>3. Attached /\ t = worker.thread /\ worker.run = r
    BY <1>5 DEF SessionInv, Workers
  <2>4. Stored(r) => status[r] = FinalStatus(threads[t].reason)
    BY <1>5, <2>3 DEF SessionInv, EndIsStored
  <2>5. HasRow(table', threads[t].run) => status'[threads[t].run] = FinalStatus(record.ending)
    BY <1>5, <2>2, <2>4 DEF storeVars, Stored, HasRow
  <2>6. ~(record.pc \in {"finish", "announce"})
    BY <2>2
  <2> QED BY <1>5, <2>2, <2>5, <2>6, ThreadMoves
<1> QED BY <1>3, <1>4, <1>5 DEF Finish

LEMMA RefreshKeeps ==
    ASSUME SessionInv, NEW t \in DOMAIN threads, Alive(t), UiKeeps, RefreshDue(t)
    PROVE SessionInv'
<1> DEFINE next == [threads[t] EXCEPT !.recent = FALSE]
           r == threads[t].run
<1>1. next \in ThreadType /\ next.run = r /\ next.ending = "none"
      /\ next.pc = threads[t].pc /\ next.reason = threads[t].reason
  BY LiveThread DEF ThreadType
<1>2. Becomes(t, next) /\ UNCHANGED storeVars
  BY DEF RefreshDue
<1>3. "none" \notin Reasons
  BY DEF Reasons
<1>4. Attached /\ t = worker.thread /\ worker.run = r
  BY DEF SessionInv, Workers, Alive
<1>5. Stored(r) /\ threads[t].pc = "announce" => status[r] = FinalStatus(threads[t].reason)
  BY <1>4 DEF SessionInv, EndIsStored
<1> HIDE DEF next
<1>6. HasRow(table', threads[t].run) /\ next.pc = "announce" =>
          status'[threads[t].run] = FinalStatus(next.reason)
  BY <1>1, <1>2, <1>5 DEF storeVars, Stored, HasRow
<1>7. next.pc \in {"finish", "announce"} => next.reason \in Reasons
  BY <1>1, LiveThread
<1> QED BY <1>1, <1>2, <1>3, <1>6, <1>7, ThreadMoves

LEMMA ThreadsKeep ==
    ASSUME SessionInv, NEW t \in DOMAIN threads, ThreadStep(t) \/ ThreadEnds(t) \/ Tick(t)
    PROVE  SessionInv'
BY BeginKeeps, ControlKeeps, ChunkKeeps, SearchKeepsOn, FinishKeeps, RefreshKeeps
   DEF ThreadStep, ThreadSteps, ThreadEnds, Tick

-----------------------------------------------------------------------------
(* The event loop.                                                         *)

LEMMA EnterKeeps == ASSUME SessionInv, EnterTerminal \/ TerminalFails PROVE SessionInv'
<1>1. /\ UNCHANGED <<setup, table, status, tab, list, selected, dialog, worker, shouldQuit,
           threads>>
      /\ turn' \in {"poll", "refused", "shutdown"}
  BY DEF EnterTerminal, TerminalFails, storeVars, runsTabVars
<1>2. Types'
  BY <1>1 DEF SessionInv, Types, StoreTypes, ListTypes, SearchTypes, LoopTypes
<1>3. Workers'
  BY <1>1 DEF SessionInv, Workers, Attached
<1>4. EndIsStored'
  BY <1>1 DEF SessionInv, EndIsStored, Attached, Stored
<1>5. ListCurrentWhenIdle' /\ ExitJoinsSearch'
  BY <1>1 DEF SessionInv, ListCurrentWhenIdle, Attached, ExitJoinsSearch
<1> QED BY <1>2, <1>3, <1>4, <1>5 DEF SessionInv

\* What the thread has told is taken in: a pause, an end, an error.
LEMMA PollKeeps == ASSUME SessionInv, PollWorker PROVE SessionInv'
<1>1. /\ turn = "poll" /\ turn' \in {"shutdown", "input"}
      /\ UNCHANGED <<setup, table, status, tab, dialog>>
      /\ StoreTypes /\ ListTypes /\ SearchTypes /\ LoopTypes /\ Workers
  BY DEF PollWorker, storeVars, SessionInv, Types
<1>2. StoreTypes'
  BY <1>1 DEF StoreTypes
<1>3. CASE ~Attached
  <2>1. UNCHANGED <<worker, threads, shouldQuit, list, selected>>
    BY <1>3 DEF PollWorker
  <2>2. Types'
    BY <1>1, <1>2, <2>1 DEF Types, ListTypes, SearchTypes, LoopTypes
  <2>3. Workers'
    BY <1>1, <2>1 DEF Workers, Attached
  <2>4. EndIsStored' /\ ListCurrentWhenIdle' /\ ExitJoinsSearch'
    BY <1>1, <1>3, <2>1
       DEF SessionInv, EndIsStored, ListCurrentWhenIdle, ExitJoinsSearch, Attached
  <2> QED BY <2>2, <2>3, <2>4 DEF SessionInv
<1>4. CASE Attached
  <2> DEFINE t == worker.thread
             ending == threads[t].ending
             paused == PauseFlag(threads[t].shown)
             finished == IF ending \in Reasons THEN ending ELSE worker.finished
             error == worker.error \/ ending = "Error"
             record == [threads[t] EXCEPT !.shown = "none", !.ending = "none"]
  <2>1. /\ t \in DOMAIN threads /\ worker.run = threads[t].run /\ threads[t] \in ThreadType
        /\ worker \in WorkerType
    BY <1>1, <1>4, ThreadIs DEF Workers, SearchTypes
  <2>2. /\ worker' = [worker EXCEPT !.paused = paused, !.finished = finished, !.error = error]
        /\ Becomes(t, record)
        /\ shouldQuit' = (shouldQuit \/ (ending \in Reasons /\ worker.quitAfterStop))
        /\ Reload \/ UNCHANGED <<list, selected>>
    BY <1>4 DEF PollWorker
  <2>3. paused \in BOOLEAN /\ finished \in Reasons \cup {"none"} /\ error \in BOOLEAN
    <3>1. threads[t].shown \in {"none", "paused", "running"} /\ worker.paused \in BOOLEAN
          /\ worker.finished \in Reasons \cup {"none"} /\ worker.error \in BOOLEAN
      BY <2>1 DEF ThreadType, WorkerType
    <3> QED BY <3>1 DEF PauseFlag
  <2>4. /\ finished # "none" => ending \in Reasons \/ worker.finished # "none"
        /\ error => ending = "Error" \/ worker.error
        /\ finished \in Reasons => \/ finished = ending /\ ending \in Reasons
                                   \/ finished = worker.finished
    BY DEF Reasons
  <2> HIDE DEF paused, finished, error
  <2>5. /\ worker' \in WorkerType /\ worker'.thread = t /\ worker'.run = worker.run
        /\ worker'.finished = finished /\ worker'.error = error
    BY <2>1, <2>2, <2>3 DEF WorkerType
  <2>6. /\ record \in ThreadType /\ record.run = threads[t].run /\ record.pc = threads[t].pc
        /\ record.ending = "none" /\ record.reason = threads[t].reason
    BY <2>1 DEF ThreadType
  <2> HIDE DEF record
  <2>7. /\ threads' \in Seq(ThreadType) /\ Len(threads') = Len(threads)
        /\ DOMAIN threads' = DOMAIN threads
        /\ threads'[t] = record
        /\ \A u \in DOMAIN threads : u # t => threads'[u] = threads[u]
    BY <1>1, <2>1, <2>2, <2>6, BecomesIs
  <2>8. ListTypes'
    <3>1. CASE Reload
      BY <1>1, <1>2, <3>1, ReloadIs
    <3>2. CASE UNCHANGED <<list, selected>>
      BY <1>1, <3>2 DEF ListTypes
    <3> QED BY <2>2, <3>1, <3>2
  <2>9. SearchTypes' /\ LoopTypes'
    BY <1>1, <2>2, <2>5, <2>7 DEF SearchTypes, LoopTypes
  <2>10. Attached'
    <3>1. t # 0
      BY <1>1, <2>1, ThreadIs
    <3> QED BY <2>5, <3>1 DEF Attached, NoWorker
  <2>11. Workers'
    <3>1. worker'.thread \in DOMAIN threads' /\ worker'.run = threads'[worker'.thread].run
      BY <2>1, <2>5, <2>6, <2>7
    <3>2. \A u \in DOMAIN threads' : threads'[u].pc # "gone" => u = worker'.thread
      BY <1>1, <2>5, <2>6, <2>7 DEF Workers
    <3>3. \A u \in DOMAIN threads' :
              /\ threads'[u].pc # "gone" => threads'[u].ending = "none"
              /\ threads'[u].pc \in {"finish", "announce"} => threads'[u].reason \in Reasons
      BY <1>1, <2>1, <2>6, <2>7 DEF Workers
    <3>4. worker'.finished # "none" \/ worker'.error => threads'[worker'.thread].pc = "gone"
      <4>1. worker'.finished # "none" \/ worker'.error => threads[t].pc = "gone"
        BY <1>1, <2>1, <2>4, <2>5 DEF Workers, Reasons
      <4> QED BY <2>5, <2>6, <2>7, <4>1
    <3> QED BY <2>10, <3>1, <3>2, <3>3, <3>4 DEF Workers
  <2>12. EndIsStored'
    <3> SUFFICES ASSUME HasRow(table, worker.run)
                 PROVE  /\ record.pc = "announce"
                             => status[worker.run] = FinalStatus(record.reason)
                        /\ record.ending \in Reasons =>
                               status[worker.run] = FinalStatus(record.ending)
                        /\ finished # "none" => status[worker.run] = FinalStatus(finished)
      BY <1>1, <2>5, <2>7 DEF EndIsStored, Stored, HasRow
    <3>1. /\ threads[t].pc = "announce" => status[worker.run] = FinalStatus(threads[t].reason)
          /\ ending \in Reasons => status[worker.run] = FinalStatus(ending)
          /\ worker.finished # "none" => status[worker.run] = FinalStatus(worker.finished)
      BY <1>4 DEF SessionInv, EndIsStored, Stored, HasRow
    <3>2. "none" \notin Reasons
      BY DEF Reasons
    <3> QED BY <2>3, <2>4, <2>6, <3>1, <3>2
  <2>13. ListCurrentWhenIdle' /\ ExitJoinsSearch'
    BY <1>1, <2>10 DEF ListCurrentWhenIdle, ExitJoinsSearch
  <2> QED BY <1>2, <2>8, <2>9, <2>11, <2>12, <2>13 DEF SessionInv, Types
<1> QED BY <1>3, <1>4

\* A command sent to the thread changes neither its place nor what it tells.
LEMMA SentKeeps ==
    ASSUME SessionInv,
           threads' \in Seq(ThreadType), Len(threads') = Len(threads),
           DOMAIN threads' = DOMAIN threads,
           \A u \in DOMAIN threads :
               /\ threads'[u].run = threads[u].run /\ threads'[u].pc = threads[u].pc
               /\ threads'[u].ending = threads[u].ending
               /\ threads'[u].reason = threads[u].reason,
           worker' \in WorkerType, worker'.thread = worker.thread, worker'.run = worker.run,
           worker'.finished = worker.finished, worker'.error = worker.error,
           Attached' <=> Attached,
           UNCHANGED <<setup, table, status, list, selected>>,
           LoopTypes', turn' # "exited"
    PROVE  SessionInv'
<1>1. StoreTypes /\ ListTypes /\ SearchTypes /\ Workers
  BY DEF SessionInv, Types
<1>2. Types'
  BY <1>1 DEF Types, StoreTypes, ListTypes, SearchTypes
<1>3. Workers'
  BY <1>1 DEF Workers
<1>4. EndIsStored'
  <2>1. Attached => worker.thread \in DOMAIN threads
    BY <1>1 DEF Workers
  <2> QED BY <2>1 DEF SessionInv, EndIsStored, Stored
<1>5. ListCurrentWhenIdle' /\ ExitJoinsSearch'
  BY DEF SessionInv, ListCurrentWhenIdle, ExitJoinsSearch
<1> QED BY <1>2, <1>3, <1>4, <1>5 DEF SessionInv

\* The same with nothing sent.
LEMMA SearchUntouched ==
    ASSUME SessionInv, UNCHANGED <<setup, table, status, list, selected, worker, threads>>,
           LoopTypes', turn' # "exited"
    PROVE  SessionInv'
<1>1. /\ threads' \in Seq(ThreadType) /\ Len(threads') = Len(threads)
      /\ DOMAIN threads' = DOMAIN threads /\ worker' \in WorkerType
      /\ (Attached' <=> Attached)
  BY DEF SessionInv, Types, SearchTypes, Attached
<1> QED BY <1>1, SentKeeps

LEMMA ShutdownKeeps == ASSUME SessionInv, Shutdown PROVE SessionInv'
<1>1. /\ UNCHANGED <<setup, table, status, tab, list, selected, dialog, worker, shouldQuit>>
      /\ SearchTypes /\ LoopTypes /\ Workers
  BY DEF Shutdown, storeVars, runsTabVars, SessionInv, Types
<1>2. CASE turn' = "join" /\ IF Attached THEN Send("Stop") ELSE UNCHANGED threads
  <2>1. LoopTypes' /\ turn' # "exited"
    BY <1>1, <1>2 DEF LoopTypes
  <2>2. CASE ~Attached
    BY <1>1, <1>2, <2>1, <2>2, SearchUntouched
  <2>3. CASE Attached
    <3>1. worker.thread \in DOMAIN threads
      BY <1>1, <2>3 DEF Workers
    <3>2. worker' \in WorkerType /\ (Attached' <=> Attached)
      BY <1>1 DEF SearchTypes, Attached
    <3> QED BY <1>1, <1>2, <2>1, <2>3, <3>1, <3>2, SendIs, SentKeeps
  <2> QED BY <2>2, <2>3
<1>3. CASE /\ Attached => threads[worker.thread].pc = "gone"
           /\ turn' = "exited" /\ UNCHANGED threads
  <2>1. \A t \in DOMAIN threads : threads[t].pc = "gone"
    BY <1>1, <1>3 DEF Workers
  <2>2. Types'
    BY <1>1, <1>3 DEF SessionInv, Types, StoreTypes, ListTypes, SearchTypes, LoopTypes
  <2>3. Workers'
    BY <1>1, <1>3 DEF Workers, Attached
  <2>4. EndIsStored'
    BY <1>1, <1>3 DEF SessionInv, EndIsStored, Attached, Stored
  <2>5. ListCurrentWhenIdle' /\ ExitJoinsSearch'
    BY <1>1, <1>3, <2>1 DEF SessionInv, ListCurrentWhenIdle, Attached, ExitJoinsSearch
  <2> QED BY <2>2, <2>3, <2>4, <2>5 DEF SessionInv
<1> QED BY <1>2, <1>3 DEF Shutdown

-----------------------------------------------------------------------------
(* Input.                                                                  *)

\* The list is loaded anew, after the table or after the search has changed.
LEMMA Reloaded ==
    ASSUME SessionInv, StoreTypes', Reload, UNCHANGED <<setup, threads>>, LoopTypes',
           turn' # "exited",
           \/ worker' = worker
           \/ worker' = NoWorker /\ \A t \in DOMAIN threads : threads[t].pc = "gone",
           \A x \in Runs : HasRow(table', x) => Stored(x) /\ status'[x] = status[x]
    PROVE  SessionInv'
<1>1. StoreTypes /\ ListTypes /\ SearchTypes /\ Workers /\ EndIsStored
  BY DEF SessionInv, Types
<1>2. ListTypes' /\ list' = ListRuns(table', status')
  BY <1>1, ReloadIs
<1>3. NoWorker \in WorkerType /\ NoWorker.thread = 0 /\ NoWorker.finished = "none"
      /\ ~NoWorker.error
  BY DEF NoWorker, WorkerType
<1>4. Types'
  BY <1>1, <1>2, <1>3 DEF Types, SearchTypes
<1>5. ListCurrentWhenIdle' /\ ExitJoinsSearch'
  BY <1>2 DEF ListCurrentWhenIdle, ExitJoinsSearch
<1>6. CASE worker' = worker
  <2>1. Workers'
    BY <1>1, <1>6 DEF Workers, Attached
  <2>2. EndIsStored'
    <3> SUFFICES ASSUME Attached, HasRow(table', worker.run)
                 PROVE  /\ threads[worker.thread].pc = "announce" =>
                               status'[worker.run] = FinalStatus(threads[worker.thread].reason)
                        /\ threads[worker.thread].ending \in Reasons =>
                               status'[worker.run] = FinalStatus(threads[worker.thread].ending)
                        /\ worker.finished # "none" =>
                               status'[worker.run] = FinalStatus(worker.finished)
      BY <1>6 DEF EndIsStored, Attached, Stored, HasRow
    <3>1. worker.run \in Runs
      BY <1>1, ThreadIs DEF Workers
    <3>2. Stored(worker.run) /\ status'[worker.run] = status[worker.run]
      BY <3>1
    <3> QED BY <1>1, <3>2 DEF EndIsStored
  <2> QED BY <1>4, <1>5, <2>1, <2>2 DEF SessionInv
<1>7. CASE worker' = NoWorker /\ \A t \in DOMAIN threads : threads[t].pc = "gone"
  <2>1. ~Attached'
    BY <1>7 DEF Attached
  <2>2. Workers'
    BY <1>1, <1>3, <1>7, <2>1 DEF Workers
  <2>3. EndIsStored'
    BY <2>1 DEF EndIsStored
  <2> QED BY <1>4, <1>5, <2>2, <2>3 DEF SessionInv
<1> QED BY <1>6, <1>7

\* A search starts when none is attached: all threads before it are gone.
LEMMA SearchStarts ==
    ASSUME SessionInv, ~Attached, NEW r \in Runs, StartWorker(r), StoreTypes',
           UNCHANGED <<setup, list, selected>>, LoopTypes', turn' # "exited"
    PROVE  SessionInv'
<1> DEFINE new == NewThread(r)
           n == Len(threads) + 1
<1>1. /\ ListTypes /\ SearchTypes /\ Workers /\ threads \in Seq(ThreadType)
      /\ Len(threads) \in Nat /\ DOMAIN threads = 1..Len(threads)
  BY LenProperties DEF SessionInv, Types, SearchTypes
<1>2. /\ new \in ThreadType /\ new.run = r /\ new.pc = "begin" /\ new.ending = "none"
  BY DEF NewThread, ThreadType, NoCommands, InboxType
<1>3. /\ threads' = Append(threads, new) /\ Len(threads) < setup.searches
      /\ worker' = [NoWorker EXCEPT !.thread = n, !.run = r]
  BY DEF StartWorker
<1> HIDE DEF new
<1>4. /\ threads' \in Seq(ThreadType) /\ Len(threads') = n /\ threads'[n] = new
      /\ \A i \in 1..Len(threads) : threads'[i] = threads[i]
  BY <1>1, <1>2, <1>3, AppendProperties
<1>5. DOMAIN threads' = 1..n
  BY <1>1, <1>4
<1>6. /\ worker' \in WorkerType /\ worker'.thread = n /\ worker'.run = r
      /\ worker'.finished = "none" /\ ~worker'.error
  <2>1. n \in Nat
    BY <1>1
  <2> HIDE DEF n
  <2>2. worker' = [thread |-> n, run |-> r, paused |-> FALSE, finished |-> "none",
                   error |-> FALSE, quitAfterStop |-> FALSE]
    BY <1>3 DEF NoWorker
  <2> QED BY <2>1, <2>2 DEF WorkerType
<1>7. Attached'
  <2>1. n # 0 /\ NoWorker.thread = 0
    BY <1>1 DEF NoWorker
  <2> QED BY <1>6, <2>1 DEF Attached
<1>8. setup.searches \in Nat
  <2>1. setup \in SetupType
    BY SetupsAssumption DEF SessionInv, Types, LoopTypes
  <2> QED BY <2>1, RunsAssumption DEF SetupType
<1>9. Types'
  <2>1. ListTypes'
    BY <1>1 DEF ListTypes
  <2>2. SearchTypes'
    BY <1>1, <1>3, <1>4, <1>6, <1>8 DEF SearchTypes
  <2> QED BY <2>1, <2>2 DEF Types
<1>10. \A t \in DOMAIN threads' : t # n => threads'[t] = threads[t] /\ t \in DOMAIN threads
  BY <1>1, <1>4, <1>5
<1>11. n \in DOMAIN threads'
  BY <1>1, <1>5
<1>12. Workers'
  <2>1. \A t \in DOMAIN threads' : threads'[t].pc # "gone" => t = n
    BY <1>1, <1>10 DEF Workers
  <2>2. \A t \in DOMAIN threads' :
            /\ threads'[t].pc # "gone" => threads'[t].ending = "none"
            /\ threads'[t].pc \in {"finish", "announce"} => threads'[t].reason \in Reasons
    BY <1>1, <1>2, <1>4, <1>10 DEF Workers
  <2> QED BY <1>2, <1>4, <1>6, <1>7, <1>11, <2>1, <2>2 DEF Workers
<1>13. EndIsStored'
  <2>1. "none" \notin Reasons
    BY DEF Reasons
  <2> QED BY <1>2, <1>4, <1>6, <2>1 DEF EndIsStored
<1>14. ListCurrentWhenIdle' /\ ExitJoinsSearch'
  BY <1>7 DEF ListCurrentWhenIdle, ExitJoinsSearch
<1> QED BY <1>9, <1>12, <1>13, <1>14 DEF SessionInv

\* What a key leaves of the state of the loop.
LEMMA InputLoop ==
    ASSUME SessionInv, turn' = "poll", setup' = setup, tab' \in {"Hunt", "Runs"},
           dialog' \in Runs \cup {NoRun}, shouldQuit' \in BOOLEAN
    PROVE  LoopTypes' /\ turn' # "exited"
BY DEF SessionInv, Types, LoopTypes

LEMMA GotoKeeps ==
    ASSUME SessionInv, turn' = "poll", setup' = setup,
           (\E destination \in {"Hunt", "Runs"} : Goto(destination)) \/ Refresh
    PROVE  SessionInv'
<1>1. /\ UNCHANGED <<table, status, dialog, shouldQuit, worker, threads>>
      /\ tab' \in {"Hunt", "Runs"}
      /\ Reload \/ UNCHANGED <<list, selected>>
  BY DEF Goto, Refresh, DatabaseKeeps, SearchKeeps, storeVars, SessionInv, Types, LoopTypes
<1>2. StoreTypes' /\ StoreTypes
  BY <1>1 DEF SessionInv, Types, StoreTypes
<1>3. LoopTypes' /\ turn' # "exited"
  BY <1>1, InputLoop DEF SessionInv, Types, LoopTypes
<1>4. CASE Reload
  <2>1. \A x \in Runs : HasRow(table', x) => Stored(x) /\ status'[x] = status[x]
    BY <1>1 DEF HasRow, Stored
  <2> QED BY <1>1, <1>2, <1>3, <1>4, <2>1, Reloaded
<1>5. CASE UNCHANGED <<list, selected>>
  BY <1>1, <1>3, <1>5, SearchUntouched
<1> QED BY <1>1, <1>4, <1>5

\* Another row is selected, the list stays.
LEMMA SelectKeeps ==
    ASSUME SessionInv, turn' = "poll", setup' = setup, Select \/ Scroll
    PROVE  SessionInv'
<1>1. /\ UNCHANGED <<table, status, tab, list, dialog, shouldQuit, worker, threads>>
      /\ StoreTypes /\ ListTypes /\ SearchTypes /\ LoopTypes /\ Workers
  BY DEF Select, Scroll, SearchKeeps, storeVars, SessionInv, Types
<1>2. Len(list) \in Nat /\ DOMAIN list = 1..Len(list) /\ selected \in Nat
  BY <1>1, LenProperties DEF ListTypes
<1>3. selected' \in 1..Len(list)
  <2>1. CASE Select
    BY <1>2, <2>1 DEF Select
  <2>2. CASE Scroll
    <3>1. PICK delta \in {-1, 1} :
              selected' = IF selected + delta < 1 THEN 1 ELSE Clamped(selected + delta, Len(list))
      BY <2>2 DEF Scroll
    <3>2. Len(list) # 0 /\ selected # 0
      BY <1>1, <2>2, EmptySeq DEF Scroll, ListTypes
    <3>3. CASE selected + delta < 1
      BY <1>2, <3>1, <3>2, <3>3
    <3>4. CASE ~(selected + delta < 1)
      <4> DEFINE index == selected + delta
      <4>1. index \in Nat /\ index # 0
        BY <1>2, <3>4, SMTT(40)
      <4>2. selected' = Clamped(index, Len(list))
        BY <3>1, <3>4
      <4> HIDE DEF index
      <4> QED BY <1>2, <3>2, <4>1, <4>2, ClampedIs, SMTT(40)
    <3> QED BY <3>3, <3>4
  <2> QED BY <2>1, <2>2
<1>4. ListTypes'
  BY <1>1, <1>2, <1>3 DEF ListTypes
<1>5. LoopTypes' /\ turn' # "exited"
  BY <1>1, InputLoop DEF LoopTypes
<1>6. Types'
  BY <1>1, <1>4, <1>5 DEF Types, StoreTypes, SearchTypes
<1>7. Workers'
  BY <1>1 DEF Workers, Attached
<1>8. EndIsStored'
  BY <1>1 DEF SessionInv, EndIsStored, Attached, Stored
<1>9. ListCurrentWhenIdle' /\ ExitJoinsSearch'
  BY <1>1, <1>5 DEF SessionInv, ListCurrentWhenIdle, Attached, ExitJoinsSearch
<1> QED BY <1>6, <1>7, <1>8, <1>9 DEF SessionInv

LEMMA StartKeeps ==
    ASSUME SessionInv, turn' = "poll", setup' = setup, StartSearch PROVE SessionInv'
<1>1. PICK r \in Runs :
          /\ ~Stored(r)
          /\ table' = <<r>> \o table
          /\ status' = [status EXCEPT ![r] = "paused"]
          /\ StartWorker(r)
  BY DEF StartSearch
<1>2. /\ ~Attached /\ UNCHANGED <<list, selected, dialog, shouldQuit>> /\ tab' = "Hunt"
      /\ StoreTypes
  BY <1>1 DEF StartSearch, RunsTabKeeps, StartWorker, SessionInv, Types
<1>3. StoreTypes'
  <2>1. /\ table \in Seq(Runs) /\ \A i, j \in DOMAIN table : table[i] = table[j] => i = j
        /\ \A i \in DOMAIN table : table[i] # r
    BY <1>1, <1>2 DEF StoreTypes, Stored
  <2>2. table' \in Seq(Runs) /\ \A i, j \in DOMAIN table' : table'[i] = table'[j] => i = j
    BY <1>1, <2>1, OnTopIs
  <2>3. status' \in [Runs -> Statuses]
    BY <1>1, <1>2 DEF StoreTypes, Statuses
  <2> QED BY <2>2, <2>3 DEF StoreTypes
<1>4. LoopTypes' /\ turn' # "exited"
  BY <1>2, InputLoop DEF SessionInv, Types, LoopTypes
<1> QED BY <1>1, <1>2, <1>3, <1>4, SearchStarts

LEMMA ResumeKeeps ==
    ASSUME SessionInv, turn' = "poll", setup' = setup, ResumeSelected PROVE SessionInv'
<1> DEFINE r == Selected.run
<1>1. /\ ~Attached /\ UNCHANGED <<list, selected, dialog, shouldQuit>> /\ tab' = "Hunt"
      /\ StoreTypes /\ ListTypes /\ selected # 0
      /\ UpdateRow(r, status[r]) /\ StartWorker(r)
  BY DEF ResumeSelected, RunsTabKeeps, StartWorker, SessionInv, Types
<1>2. r \in Runs
  BY <1>1, SelectedIs DEF RowType
<1> HIDE DEF r
<1>3. status[r] \in Statuses
  BY <1>1, <1>2 DEF StoreTypes
<1>4. StoreTypes'
  BY <1>1, <1>2, <1>3, UpdateRowIs
<1>5. LoopTypes' /\ turn' # "exited"
  BY <1>1, InputLoop DEF SessionInv, Types, LoopTypes
<1> QED BY <1>1, <1>2, <1>4, <1>5, SearchStarts

LEMMA DialogKeeps ==
    ASSUME SessionInv, turn' = "poll", setup' = setup, AskDelete \/ CancelDelete
    PROVE  SessionInv'
<1>1. /\ UNCHANGED <<table, status, tab, list, selected, shouldQuit, worker, threads>>
      /\ StoreTypes /\ ListTypes
  BY DEF AskDelete, CancelDelete, SearchKeeps, storeVars, SessionInv, Types
<1>2. dialog' \in Runs \cup {NoRun}
  <2>1. CASE AskDelete
    BY <1>1, <2>1, SelectedIs DEF AskDelete, RowType
  <2>2. CASE CancelDelete
    BY <2>2 DEF CancelDelete
  <2> QED BY <2>1, <2>2
<1>3. LoopTypes' /\ turn' # "exited"
  BY <1>1, <1>2, InputLoop DEF SessionInv, Types, LoopTypes
<1> QED BY <1>1, <1>3, SearchUntouched

LEMMA DeleteKeeps ==
    ASSUME SessionInv, turn' = "poll", setup' = setup, ConfirmDelete PROVE SessionInv'
<1>1. /\ UNCHANGED <<tab, shouldQuit, worker, threads>> /\ dialog' = NoRun
      /\ StoreTypes /\ ListTypes
  BY DEF ConfirmDelete, SearchKeeps, SessionInv, Types
<1>2. LoopTypes' /\ turn' # "exited"
  BY <1>1, InputLoop DEF SessionInv, Types, LoopTypes
<1>3. CASE selected # 0 /\ Stored(Selected.run)
  <2> DEFINE r == Selected.run
  <2>1. table' = Without(r) /\ status' = status /\ Reload
    BY <1>3 DEF ConfirmDelete
  <2> HIDE DEF r
  <2>2. /\ Without(r) \in Seq(Runs)
        /\ \A i, j \in DOMAIN Without(r) : Without(r)[i] = Without(r)[j] => i = j
        /\ \A i \in DOMAIN Without(r) : Without(r)[i] # r /\ Stored(Without(r)[i])
    BY <1>1, WithoutIs
  <2>3. StoreTypes'
    BY <1>1, <2>1, <2>2 DEF StoreTypes
  <2>4. \A x \in Runs : HasRow(table', x) => Stored(x) /\ status'[x] = status[x]
    BY <2>1, <2>2 DEF HasRow
  <2> QED BY <1>1, <1>2, <2>1, <2>3, <2>4, Reloaded
<1>4. CASE ~(selected # 0 /\ Stored(Selected.run))
  <2>1. UNCHANGED <<table, status, list, selected>>
    BY <1>4 DEF ConfirmDelete, storeVars
  <2> QED BY <1>1, <1>2, <2>1, SearchUntouched
<1> QED BY <1>3, <1>4

\* Keys that send a command to the search.
LEMMA CommandKeeps ==
    ASSUME SessionInv, turn' = "poll", setup' = setup,
           TogglePause \/ SaveCheckpoint \/ StopSearch \/ RequestQuit
    PROVE  SessionInv'
<1>1. /\ UNCHANGED <<table, status, tab, list, selected, dialog>>
      /\ StoreTypes /\ ListTypes /\ SearchTypes /\ Workers
  BY DEF TogglePause, SaveCheckpoint, StopSearch, RequestQuit, storeVars, runsTabVars,
         SessionInv, Types
<1>2. worker \in WorkerType /\ NoWorker.thread = 0
  BY <1>1 DEF SearchTypes, NoWorker
<1>3. shouldQuit' \in BOOLEAN
  BY DEF TogglePause, SaveCheckpoint, StopSearch, RequestQuit, SearchKeeps,
         SessionInv, Types, LoopTypes
<1>4. LoopTypes' /\ turn' # "exited"
  BY <1>1, <1>3, InputLoop DEF SessionInv, Types, LoopTypes
<1>5. ASSUME Attached, NEW command, Send(command),
             \/ worker' = worker
             \/ worker' = [worker EXCEPT !.paused = ~worker.paused]
             \/ worker' = [worker EXCEPT !.quitAfterStop = TRUE]
      PROVE  SessionInv'
  <2>1. worker.thread \in DOMAIN threads /\ worker.thread # 0
    BY <1>1, <1>5, ThreadIs DEF Workers
  <2>2. /\ worker' \in WorkerType /\ worker'.thread = worker.thread /\ worker'.run = worker.run
        /\ worker'.finished = worker.finished /\ worker'.error = worker.error
    <3>1. CASE worker' = worker
      BY <1>2, <3>1
    <3>2. CASE worker' = [worker EXCEPT !.paused = ~worker.paused]
      BY <1>2, <3>2 DEF WorkerType
    <3>3. CASE worker' = [worker EXCEPT !.quitAfterStop = TRUE]
      BY <1>2, <3>3 DEF WorkerType
    <3> QED BY <1>5, <3>1, <3>2, <3>3
  <2>3. Attached' <=> Attached
    BY <1>2, <1>5, <2>1, <2>2 DEF Attached
  <2>4. /\ threads' \in Seq(ThreadType) /\ Len(threads') = Len(threads)
        /\ DOMAIN threads' = DOMAIN threads
        /\ \A u \in DOMAIN threads :
               /\ threads'[u].run = threads[u].run /\ threads'[u].pc = threads[u].pc
               /\ threads'[u].ending = threads[u].ending
               /\ threads'[u].reason = threads[u].reason
    BY <1>1, <1>5, <2>1, SendIs
  <2> QED BY <1>1, <1>4, <2>2, <2>3, <2>4, SentKeeps
<1>6. CASE TogglePause
  <2>1. /\ Attached /\ Send(IF worker.paused THEN "Resume" ELSE "Pause")
        /\ worker' = [worker EXCEPT !.paused = ~worker.paused]
    BY <1>6 DEF TogglePause, OnSearch
  <2> QED BY <1>5, <2>1
<1>7. CASE SaveCheckpoint
  BY <1>5, <1>7 DEF SaveCheckpoint, OnSearch
<1>8. CASE StopSearch
  BY <1>5, <1>8 DEF StopSearch, OnSearch
<1>9. CASE RequestQuit
  <2>1. CASE IsRunning
    <3>1. Attached /\ Send("Stop") /\ worker' = [worker EXCEPT !.quitAfterStop = TRUE]
      BY <1>9, <2>1 DEF RequestQuit, IsRunning
    <3> QED BY <1>5, <3>1
  <2>2. CASE ~IsRunning
    <3>1. UNCHANGED <<worker, threads>>
      BY <1>9, <2>2 DEF RequestQuit, SearchKeeps
    <3> QED BY <1>1, <1>4, <3>1, SearchUntouched
  <2> QED BY <2>1, <2>2
<1> QED BY <1>6, <1>7, <1>8, <1>9

\* Only a search that has told its end can be dismissed.
LEMMA DismissKeeps ==
    ASSUME SessionInv, turn' = "poll", setup' = setup, DismissFinished PROVE SessionInv'
<1>1. /\ Attached /\ ~IsRunning /\ worker' = NoWorker /\ Reload
      /\ UNCHANGED <<table, status, tab, dialog, shouldQuit, threads>>
      /\ StoreTypes /\ Workers
  BY DEF DismissFinished, OnSearch, DatabaseKeeps, storeVars, SessionInv, Types
<1>2. \A t \in DOMAIN threads : threads[t].pc = "gone"
  BY <1>1 DEF Workers, IsRunning
<1>3. StoreTypes' /\ \A x \in Runs : HasRow(table', x) => Stored(x) /\ status'[x] = status[x]
  BY <1>1 DEF StoreTypes, HasRow, Stored
<1>4. LoopTypes' /\ turn' # "exited"
  BY <1>1, InputLoop DEF SessionInv, Types, LoopTypes
<1> QED BY <1>1, <1>2, <1>3, <1>4, Reloaded

LEMMA InputKeeps == ASSUME SessionInv, Input PROVE SessionInv'
<1>1. turn' = "poll" /\ setup' = setup
  BY DEF Input
<1>2. CASE NoInput
  <2>1. UNCHANGED <<table, status, tab, list, selected, dialog, worker, shouldQuit, threads>>
    BY <1>2 DEF NoInput, storeVars, runsTabVars
  <2>2. LoopTypes' /\ turn' # "exited"
    BY <1>1, <2>1, InputLoop DEF SessionInv, Types, LoopTypes
  <2> QED BY <1>1, <2>1, <2>2, SearchUntouched
<1> QED BY <1>1, <1>2, GotoKeeps, SelectKeeps, StartKeeps, ResumeKeeps, DialogKeeps, DeleteKeeps,
           CommandKeeps, DismissKeeps DEF Input

-----------------------------------------------------------------------------
(* Another process, which leaves the run of the search here alone.         *)

LEMMA OutsideKeeps == ASSUME SessionInv, OutsideFinish PROVE SessionInv'
<1>1. PICK i \in DOMAIN table, s \in Finished : table[i] # worker.run /\ UpdateRow(table[i], s)
  BY DEF OutsideFinish
<1> DEFINE r == table[i]
<1>2. /\ setup.outside
      /\ UNCHANGED <<setup, turn, tab, list, selected, dialog, worker, shouldQuit, threads>>
      /\ StoreTypes /\ ListTypes /\ SearchTypes /\ LoopTypes /\ Workers
  BY DEF OutsideFinish, runsTabVars, SessionInv, Types
<1>3. r \in Runs /\ r # worker.run /\ s \in Statuses /\ UpdateRow(r, s)
  BY <1>1, <1>2, ElementOfSeq, LenProperties DEF StoreTypes, Statuses
<1> HIDE DEF r
<1>4. /\ StoreTypes'
      /\ \A x : Stored(x)' <=> Stored(x)
      /\ \A x \in Runs : x # r => status'[x] = status[x]
  BY <1>2, <1>3, UpdateRowIs
<1>5. Types'
  BY <1>2, <1>4 DEF Types, ListTypes, SearchTypes, LoopTypes
<1>6. Workers'
  BY <1>2 DEF Workers, Attached
<1>7. EndIsStored'
  <2> SUFFICES ASSUME Attached, HasRow(table', worker.run)
               PROVE  /\ threads[worker.thread].pc = "announce" =>
                             status'[worker.run] = FinalStatus(threads[worker.thread].reason)
                      /\ threads[worker.thread].ending \in Reasons =>
                             status'[worker.run] = FinalStatus(threads[worker.thread].ending)
                      /\ worker.finished # "none" =>
                             status'[worker.run] = FinalStatus(worker.finished)
    BY <1>2 DEF EndIsStored, Attached, Stored, HasRow
  <2>1. worker.run \in Runs
    BY <1>2, ThreadIs DEF Workers
  <2>2. HasRow(table, worker.run) /\ status'[worker.run] = status[worker.run]
    BY <1>3, <1>4, <2>1 DEF Stored, HasRow
  <2> QED BY <2>2 DEF SessionInv, EndIsStored, Stored, HasRow
<1>8. ListCurrentWhenIdle' /\ ExitJoinsSearch'
  BY <1>2 DEF SessionInv, ListCurrentWhenIdle, ExitJoinsSearch
<1> QED BY <1>5, <1>6, <1>7, <1>8 DEF SessionInv

-----------------------------------------------------------------------------
LEMMA SessionBegins == ASSUME Init PROVE SessionInv
<1>1. /\ setup \in SessionSetups /\ setup \in SetupType
      /\ \A i, j \in DOMAIN setup.saved : setup.saved[i] = setup.saved[j] => i = j
      /\ setup.launch => setup.saved # <<>>
  BY SetupsAssumption DEF Init
<1>2. /\ setup.saved \in Seq(Runs) /\ setup.searches \in 1..MaxSearches
  BY <1>1 DEF SetupType
<1>3. StoreTypes
  BY <1>1, <1>2 DEF Init, StoreTypes
<1>4. ListTypes /\ list = ListRuns(table, status)
  <2>1. list \in Seq(RowType) /\ list = ListRuns(table, status)
          /\ selected = Clamped(0, Len(list))
    BY <1>3, ListIs DEF Init, StoreTypes
  <2>2. Len(list) \in Nat /\ (list # <<>> => Len(list) # 0)
    BY <2>1, LenProperties, EmptySeq
  <2>3. selected \in 0..Len(list) /\ (Len(list) # 0 => selected # 0)
    BY <2>1, <2>2, ClampedIs
  <2> QED BY <2>1, <2>2, <2>3 DEF ListTypes
<1>5. LoopTypes /\ turn = "enter"
  BY <1>1 DEF Init, LoopTypes
<1>6. CASE setup.launch
  <2> DEFINE r == table[1]
             new == NewThread(r)
  <2>1. threads = <<new>> /\ worker = [NoWorker EXCEPT !.thread = 1, !.run = r]
    BY <1>6 DEF Init
  <2>2. r \in Runs
    <3>1. table \in Seq(Runs) /\ table # <<>>
      BY <1>1, <1>3, <1>6 DEF Init, StoreTypes
    <3>2. Len(table) \in Nat /\ Len(table) # 0
      BY <3>1, LenProperties, EmptySeq
    <3>3. 1 \in 1..Len(table)
      BY <3>2
    <3> QED BY <3>1, <3>3, ElementOfSeq
  <2> HIDE DEF r
  <2>3. new \in ThreadType /\ new.run = r /\ new.ending = "none" /\ new.pc = "begin"
    BY <2>2 DEF NewThread, ThreadType, NoCommands, InboxType
  <2> HIDE DEF new
  <2>4. worker = [thread |-> 1, run |-> r, paused |-> FALSE, finished |-> "none",
                  error |-> FALSE, quitAfterStop |-> FALSE]
    BY <2>1 DEF NoWorker
  <2>5. threads \in Seq(ThreadType) /\ Len(threads) = 1 /\ threads[1] = new
        /\ DOMAIN threads = 1..1
    BY <2>1, <2>3
  <2>6. SearchTypes
    BY <1>2, <2>2, <2>4, <2>5 DEF SearchTypes, WorkerType
  <2>7. Attached
    BY <2>4 DEF Attached, NoWorker
  <2>8. Workers
    BY <2>3, <2>4, <2>5, <2>7 DEF Workers
  <2>9. EndIsStored
    <3>1. "none" \notin Reasons
      BY DEF Reasons
    <3> QED BY <2>3, <2>4, <2>5, <3>1 DEF EndIsStored
  <2>10. ListCurrentWhenIdle /\ ExitJoinsSearch
    BY <1>5, <2>7 DEF ListCurrentWhenIdle, ExitJoinsSearch
  <2> QED BY <1>3, <1>4, <1>5, <2>6, <2>8, <2>9, <2>10 DEF SessionInv, Types
<1>7. CASE ~setup.launch
  <2>1. threads = <<>> /\ worker = NoWorker
    BY <1>7 DEF Init
  <2>2. threads \in Seq(ThreadType) /\ Len(threads) = 0 /\ DOMAIN threads = {}
    BY <2>1
  <2>3. SearchTypes
    BY <1>2, <2>1, <2>2, RunsAssumption DEF SearchTypes, NoWorker, WorkerType
  <2>4. ~Attached /\ worker.finished = "none" /\ ~worker.error
    BY <2>1 DEF Attached, NoWorker
  <2>5. Workers /\ EndIsStored
    BY <2>2, <2>4 DEF Workers, EndIsStored
  <2>6. ListCurrentWhenIdle /\ ExitJoinsSearch
    BY <1>4, <1>5 DEF ListCurrentWhenIdle, ExitJoinsSearch
  <2> QED BY <1>3, <1>4, <1>5, <2>3, <2>5, <2>6 DEF SessionInv, Types
<1> QED BY <1>6, <1>7

LEMMA SessionStutters == ASSUME SessionInv, UNCHANGED vars PROVE SessionInv'
<1>1. UNCHANGED <<setup, table, status, turn, tab, list, selected, dialog, worker, shouldQuit,
        threads>>
  BY DEF vars, storeVars, runsTabVars
<1>2. Types'
  BY <1>1 DEF SessionInv, Types, StoreTypes, ListTypes, SearchTypes, LoopTypes
<1>3. Workers'
  BY <1>1 DEF SessionInv, Workers, Attached
<1>4. EndIsStored'
  BY <1>1 DEF SessionInv, EndIsStored, Attached, Stored
<1>5. ListCurrentWhenIdle' /\ ExitJoinsSearch'
  BY <1>1 DEF SessionInv, ListCurrentWhenIdle, Attached, ExitJoinsSearch
<1> QED BY <1>2, <1>3, <1>4, <1>5 DEF SessionInv

LEMMA SessionGoesOn == ASSUME SessionInv, [Next]_vars PROVE SessionInv'
BY EnterKeeps, PollKeeps, ShutdownKeeps, InputKeeps, OutsideKeeps, ThreadsKeep, SessionStutters
   DEF Next, EventLoop

LEMMA SessionIsSound == ASSUME SessionInv PROVE SessionInvariant /\ RowsShownAreTrue
<1>1. /\ Types /\ Workers /\ EndIsStored /\ ListCurrentWhenIdle /\ ExitJoinsSearch
      /\ StoreTypes /\ ListTypes /\ SearchTypes /\ LoopTypes
  BY DEF SessionInv, Types
<1>2. /\ DOMAIN table = 1..Len(table) /\ DOMAIN list = 1..Len(list)
      /\ DOMAIN threads = 1..Len(threads) /\ Len(threads) \in Nat
      /\ \A i \in DOMAIN table : table[i] \in Runs
      /\ \A i \in DOMAIN list : list[i] \in RowType
      /\ \A i \in DOMAIN threads : threads[i] \in ThreadType
  BY <1>1, LenProperties, ElementOfSeq DEF StoreTypes, ListTypes, SearchTypes
<1>3. TypeOK
  <2>1. worker.thread \in 0..Len(threads)
    <3>1. CASE Attached
      BY <1>1, <1>2, <3>1 DEF Workers
    <3>2. CASE ~Attached
      BY <1>2, <3>2 DEF Attached, NoWorker
    <3> QED BY <3>1, <3>2
  <2>2. worker \in [thread : 0..Len(threads), run : Runs \cup {NoRun}, paused : BOOLEAN,
                    finished : Reasons \cup {"none"}, error : BOOLEAN, quitAfterStop : BOOLEAN]
    BY <1>1, <2>1 DEF SearchTypes, WorkerType
  <2> QED
    BY <1>1, <1>2, <2>2
       DEF TypeOK, StoreTypes, ListTypes, SearchTypes, LoopTypes, RowType, ThreadType, InboxType
<1>4. OneSearchAtATime
  <2> DEFINE live == {t \in DOMAIN threads : threads[t].pc # "gone"}
  <2>1. live \subseteq {worker.thread}
    BY <1>1 DEF Workers
  <2>2. IsFiniteSet({worker.thread}) /\ Cardinality({worker.thread}) = 1
    BY FS_Singleton
  <2> HIDE DEF live
  <2>3. Cardinality(live) <= 1
    BY <2>1, <2>2, FS_Subset
  <2> QED BY <2>3 DEF OneSearchAtATime, live
<1>5. FinishShownIsStored
  BY <1>1 DEF Workers, EndIsStored, FinishShownIsStored
<1> QED BY <1>1, <1>3, <1>4, <1>5 DEF SessionInvariant, RowsShownAreTrue


-----------------------------------------------------------------------------
(* The database of runs, for any processes, runs and windows.              *)

HuntingPcs == {"hunt", "begin", "commit", "start", "scan", "persist"}
DeletingPcs == {"delete", "delete row"}
MigratingPcs == {"closed", "events table", "check", "alter"}
ProcType ==
    [pc : Store!Pcs, at : DOMAIN Store!ColumnsAdded, id : Ids \cup {None},
      run : Store!Row \cup {Store!Absent},
     prior : BOOLEAN, next : {"none", "start", "scan"}]

DatabaseTypes ==
    /\ roles \in StoreSetups
    /\ tables \subseteq Store!Tables
    /\ columns \subseteq Store!AllColumns
    /\ runs \in [Ids -> Store!Row \cup {Store!Absent}]
    /\ events \in [Ids -> SUBSET Store!Offsets]
    /\ writer \in Processes \cup {None}
    /\ proc \in [Processes -> ProcType]
    /\ crashes \in Nat
    /\ born \subseteq Ids /\ ancient \subseteq born
    /\ shared \subseteq born /\ trimmed \subseteq born
    /\ Store!Stored \subseteq born

\* A run that has no row has no events.
NoRowNoEvents == \A i \in Ids : i \notin Store!Stored => events[i] = {}

\* What is known of process p, which may work on a run.
WorkIsOnRuns(p) ==
    /\ proc[p].pc \in HuntingPcs \cup DeletingPcs => proc[p].id \in born
    /\ proc[p].pc \in HuntingPcs => proc[p].run \in Store!Row
         /\ proc[p].next \in {"start", "scan"}
\* Whose transaction is open writes it, to a row that is there.
TransactionHasRow(p) == proc[p].pc = "commit" => writer = p /\ proc[p].id \in Store!Stored
\* What a checkpoint read of the stored parameters is still what they are.
PriorIsCurrent(p) ==
    proc[p].pc \in {"begin", "commit"} /\ proc[p].id \in Store!Stored =>
        proc[p].prior = runs[proc[p].id].legacy
\* What it has in memory of its run is a scan from the start, and the history
\* of that scan is stored.
MemoryIsAPrefix(p) ==
    proc[p].pc \in HuntingPcs =>
        /\ Store!ScannedTo(proc[p].run.offset, proc[p].run.best)
        /\ proc[p].id \in Store!Stored \ trimmed =>
              \A o \in Store!Records : o < proc[p].run.offset => o \in events[proc[p].id]
\* If it hunts a run that was not shared it knows what the row says.
MemoryIsTheRow(p) ==
    proc[p].pc \in HuntingPcs /\ proc[p].id \notin shared =>
        /\ proc[p].run.details = proc[p].run.best
        /\ proc[p].id \in Store!Stored /\ proc[p].pc # "persist" =>
              proc[p].run.best = runs[proc[p].id].best
\* How far it is with the migration.
TablesAreThere(p) ==
    /\ proc[p].pc = "events table" => "runs" \in tables
    /\ proc[p].pc \in {"check", "alter"} => tables = Store!Tables
    /\ proc[p].pc \notin MigratingPcs => columns = Store!AllColumns
Sound(p) ==
    /\ WorkIsOnRuns(p) /\ TransactionHasRow(p) /\ PriorIsCurrent(p)
    /\ MemoryIsAPrefix(p) /\ MemoryIsTheRow(p) /\ TablesAreThere(p)
ProcessesAreSound == \A p \in Processes : Sound(p)

\* A run that was not shared has one hunter.
HuntersAreAlone ==
    \A p, q \in Processes :
        /\ proc[p].pc \in HuntingPcs /\ proc[q].pc \in HuntingPcs
        /\ proc[p].id = proc[q].id /\ proc[p].id \notin shared
        => p = q

\* What the migration has done to the tables and to the rows.
TablesAreMade ==
    /\ ancient # {} => roles.age = "earlier"
    /\ roles.age # "none" => tables = Store!Tables
    /\ roles.age = "none" => \A t \in tables : Store!ColumnsOf(t) \subseteq columns
RowsAreMigrated ==
    \A i \in Store!Stored :
        IF i \in ancient
        THEN /\ runs[i].mode = IF "match_mode" \in columns THEN "threshold" ELSE "none"
             /\ runs[i].canvas = IF "canvas_width" \in columns THEN "zero" ELSE "none"
        ELSE /\ runs[i].mode = "emergence" /\ runs[i].canvas = "set"
             /\ roles.age # "none" => columns = Store!AllColumns

RowsAreSound ==
    /\ NoRowNoEvents /\ TablesAreMade /\ RowsAreMigrated
    /\ Store!ProgressIsAPrefix /\ Store!HistoryIsExact /\ Store!NamesAreUnique
         /\ Store!DetailsBelongToBest
StoreInv == DatabaseTypes /\ ProcessesAreSound /\ HuntersAreAlone /\ RowsAreSound

-----------------------------------------------------------------------------
(* Scans.                                                                  *)

\* A scan that has seen nothing has no best.
LEMMA ScanBegins ==
    ASSUME Store!StoreConstants
    PROVE  Store!ScannedTo(0, None)
BY DEF Store!ScannedTo, Store!StoreConstants

\* A window that is no better is no record, and the scan goes on with its best.
LEMMA ScanGoesOn ==
    ASSUME Store!StoreConstants, NEW o \in Store!Offsets, NEW b \in Store!Offsets \cup {None},
           Store!ScannedTo(o, b), o < MaxOffset, ~Store!Beats(o, b)
    PROVE  /\ o + 1 \in Store!Offsets
           /\ Store!ScannedTo(o + 1, b)
           /\ o \notin Store!Records
<1>1. o + 1 \in Store!Offsets /\ \A e \in 0..o : e \in 0..o-1 \/ e = o
  BY DEF Store!Offsets, Store!StoreConstants
<1>2. Store!ScannedTo(o + 1, b)
  BY <1>1 DEF Store!ScannedTo, Store!Offsets, Store!StoreConstants
<1>3. ASSUME o \in Store!Records PROVE FALSE
  <2>1. Score[o] \in Nat /\ Score[o] > 0 /\ \A e \in 0..o-1 : Score[e] < Score[o]
    BY <1>3 DEF Store!Records, Store!StoreConstants
  <2>2. CASE b = None
    BY <2>1, <2>2 DEF Store!Beats
  <2>3. CASE b # None
    <3>1. b \in 0..o-1
      BY <2>3 DEF Store!ScannedTo, Store!Offsets
    <3> QED
      BY <3>1, <2>1, <2>3 DEF Store!Beats
  <2> QED
    BY <2>2, <2>3
<1> QED
  BY <1>1, <1>2, <1>3

\* A window that beats the best of all before it is a record, and the new best.
LEMMA ScanImproves ==
    ASSUME Store!StoreConstants, NEW o \in Store!Offsets, NEW b \in Store!Offsets \cup {None},
           Store!ScannedTo(o, b), o < MaxOffset, Store!Beats(o, b)
    PROVE  /\ o + 1 \in Store!Offsets
           /\ Store!ScannedTo(o + 1, o)
           /\ o \in Store!Records
<1>1. o + 1 \in Store!Offsets /\ \A e \in 0..o : e \in 0..o-1 \/ e = o
  BY DEF Store!Offsets, Store!StoreConstants
<1>2. None \notin Store!Offsets /\ \A e \in Store!Offsets : Score[e] \in Nat
  BY DEF Store!Offsets, Store!StoreConstants
<1>3. \A e \in 0..o-1 : e \in Store!Offsets /\ Score[e] < Score[o]
  <2> SUFFICES ASSUME NEW e \in 0..o-1 PROVE e \in Store!Offsets /\ Score[e] < Score[o]
    OBVIOUS
  <2>1. e \in Store!Offsets /\ ~Store!Beats(e, b)
    BY DEF Store!ScannedTo, Store!Offsets, Store!StoreConstants
  <2> QED
    BY <1>2, <2>1 DEF Store!Beats
<1>4. Score[o] > 0
  BY <1>2 DEF Store!Beats
<1>5. o \in Store!Records
  BY <1>3, <1>4 DEF Store!Records
<1>6. \A e \in 0..o : ~Store!Beats(e, o)
  BY <1>1, <1>2, <1>3 DEF Store!Beats
<1>7. 0..(o + 1)-1 = 0..o /\ o < o + 1
  BY DEF Store!Offsets
<1> QED
  BY <1>1, <1>5, <1>6, <1>7 DEF Store!ScannedTo

-----------------------------------------------------------------------------
(* Rows and processes.                                                     *)

\* The columns and where they are.
LEMMA ColumnsThere ==
    /\ DOMAIN Store!ColumnsAdded = 1..3
    /\ Store!AllColumns = {"canvas_width", "match_mode", "match_json"}
    /\ Store!ColumnsOf("runs") = {"canvas_width", "match_mode"}
    /\ Store!ColumnsOf("best_events") = {"match_json"}
<1>1. DOMAIN Store!ColumnsAdded = 1..3
  BY DEF Store!ColumnsAdded
<1>2. Store!AllColumns = {"canvas_width", "match_mode", "match_json"}
  BY <1>1 DEF Store!AllColumns, Store!ColumnsAdded
<1> QED
  BY <1>1, <1>2 DEF Store!ColumnsOf, Store!Home

\* A row has a name, and so it is there.
LEMMA RowFields ==
    ASSUME Store!StoreConstants, NEW row \in Store!Row
    PROVE  /\ row # Store!Absent
           /\ row.name \in Names /\ row.offset \in Store!Offsets
           /\ row.best \in Store!Offsets \cup {None} /\ row.details \in Store!Offsets \cup {None}
           /\ row.params \in Store!Offsets /\ row.legacy \in BOOLEAN
           /\ Store!RowToRun(row) \in Store!Row
           /\ Store!RowToRun(row).offset = row.offset /\ Store!RowToRun(row).best = row.best
           /\ Store!RowToRun(row).details = row.details
           /\ Store!RowToRun(row).mode = row.mode
           /\ Store!RowToRun(row).canvas = IF row.canvas = "zero" THEN "as target" ELSE row.canvas
<1> DEFINE canvas == IF row.canvas = "zero" THEN "as target" ELSE row.canvas
<1>1. Store!RowToRun(row) = [row EXCEPT !.canvas = canvas]
  BY DEF Store!RowToRun
<1>2. row.name \in Names /\ canvas \in {"none", "zero", "set", "as target"}
  BY DEF Store!Row
<1>3. row # Store!Absent
  <2>1. Store!Absent.name = None /\ None \notin Names
    BY DEF Store!Absent, Store!StoreConstants
  <2> QED
    BY <1>2, <2>1
<1> HIDE DEF canvas
<1>4. /\ [row EXCEPT !.canvas = canvas] \in Store!Row
      /\ [row EXCEPT !.canvas = canvas].offset = row.offset
      /\ [row EXCEPT !.canvas = canvas].best = row.best
      /\ [row EXCEPT !.canvas = canvas].details = row.details
      /\ [row EXCEPT !.canvas = canvas].mode = row.mode
      /\ [row EXCEPT !.canvas = canvas].canvas = canvas
  BY <1>2 DEF Store!Row
<1>5. row.offset \in Store!Offsets /\ row.best \in Store!Offsets \cup {None}
        /\ row.details \in Store!Offsets \cup {None}
      /\ row.params \in Store!Offsets /\ row.legacy \in BOOLEAN
  BY DEF Store!Row
<1> QED
  BY <1>1, <1>2, <1>3, <1>4, <1>5 DEF canvas

\* A new row is one that has been scanned nowhere.
LEMMA NewRowIsRow ==
    ASSUME Store!StoreConstants, NEW n \in Names, NEW m \in {"none", "emergence"},
           NEW l \in BOOLEAN
    PROVE  /\ Store!NewRow(n, m, l) \in Store!Row
           /\ Store!NewRow(n, m, l).name = n /\ Store!NewRow(n, m, l).mode = m
           /\ Store!NewRow(n, m, l).canvas = IF m = "none" THEN "none" ELSE "set"
           /\ Store!NewRow(n, m, l).offset = 0 /\ Store!NewRow(n, m, l).best = None
           /\ Store!NewRow(n, m, l).details = None
<1> DEFINE canvas == IF m = "none" THEN "none" ELSE "set"
           new == [Store!Absent EXCEPT !.name = n, !.mode = m, !.legacy = l, !.canvas = canvas]
<1>1. Store!NewRow(n, m, l) = new
  BY DEF Store!NewRow
<1>2. canvas \in {"none", "set"} /\ 0 \in Store!Offsets
  BY DEF Store!Offsets, Store!StoreConstants
<1> HIDE DEF canvas
<1>3. new.name = n /\ new.mode = m /\ new.canvas = canvas /\ new.legacy = l
      /\ new.offset = 0 /\ new.best = None /\ new.details = None /\ new.params = 0
  BY DEF Store!Absent
<1>4. new \in Store!Row
  <2> DEFINE any == [name : Names \cup {None}, mode : {"none", "threshold", "emergence"},
        canvas : {"none", "zero", "set", "as target"},
        offset : Store!Offsets, best : Store!Offsets \cup {None},
        details : Store!Offsets \cup {None}, params : Store!Offsets, legacy : BOOLEAN]
  <2>1. Store!Absent \in any
    BY <1>2 DEF Store!Absent
  <2>2. new \in any
    BY <1>2, <2>1
  <2> QED
    BY <1>3, <2>2 DEF Store!Row
<1> QED
  BY <1>1, <1>3, <1>4 DEF canvas

\* A run is stored when it has a row.
LEMMA StoredRows ==
    ASSUME Store!StoreConstants, runs \in [Ids -> Store!Row \cup {Store!Absent}]
    PROVE  /\ Store!Stored \subseteq Ids
           /\ \A i \in Ids : i \in Store!Stored <=> runs[i] \in Store!Row
           /\ \A i \in Ids : i \notin Store!Stored <=> runs[i] = Store!Absent
BY RowFields DEF Store!Stored
LEMMA StoredRowsNext ==
    ASSUME Store!StoreConstants, runs' \in [Ids -> Store!Row \cup {Store!Absent}]
    PROVE  /\ Store!Stored' \subseteq Ids
           /\ \A i \in Ids : i \in Store!Stored' <=> runs'[i] \in Store!Row
           /\ \A i \in Ids : i \notin Store!Stored' <=> runs'[i] = Store!Absent
BY RowFields DEF Store!Stored

\* A process that hunts nothing is closed or idle.
LEMMA ClosedTyped ==
    ASSUME Store!StoreConstants
    PROVE  /\ Store!Closed \in ProcType /\ Store!Idle \in ProcType
           /\ Store!Idle.pc = "idle" /\ Store!Closed.pc = "closed"
           /\ Store!Idle.id = None /\ Store!Closed.id = None
<1>1. Store!Idle \in ProcType
  BY ColumnsThere DEF Store!Idle, ProcType, Store!Pcs
<1>2. Store!Closed \in ProcType
  BY <1>1 DEF Store!Closed, ProcType, Store!Pcs
<1> QED
  BY <1>1, <1>2 DEF Store!Idle, Store!Closed, ProcType

\* One process moves, and the others stay.
LEMMA OneMoves ==
    ASSUME Store!StoreConstants, proc \in [Processes -> ProcType],
           NEW p \in Processes, NEW r \in ProcType, Store!Becomes(p, r)
    PROVE  /\ proc' \in [Processes -> ProcType]
           /\ proc'[p] = r
           /\ \A q \in Processes : q # p => proc'[q] = proc[q]
BY DEF Store!Becomes

\* Databases are sound when the first process opens them.
LEMMA StoreBegins ==
    ASSUME Store!StoreConstants, Store!Init
    PROVE  StoreInv
<1>0. \A i \in Ids : IF i \in born THEN <<i, runs[i].name>> \in roles.saved
                     ELSE runs[i] = Store!Absent
  BY DEF Store!Init
<1> USE DEF Store!Init
<1>1. roles \in Store!StoreSetupType /\ roles.age \in {"none", "earlier", "current"}
  BY DEF Store!StoreConstants, Store!StoreSetupType
<1>2. roles.saved \subseteq Ids \X Names
  BY <1>1 DEF Store!StoreSetupType
<1>3. born \subseteq Ids
  BY <1>2
<1>4. runs \in [Ids -> Store!Row \cup {Store!Absent}]
  BY <1>1, NewRowIsRow
<1>5. Store!Stored = born
  <2>1. ASSUME NEW i \in born PROVE runs[i] # Store!Absent
    <3>1. <<i, runs[i].name>> \in roles.saved
      BY <1>3
    <3>2. runs[i].name \in Names
      BY <1>2, <3>1
    <3>3. Store!Absent.name = None /\ None \notin Names
      BY DEF Store!Absent, Store!StoreConstants
    <3> QED
      BY <3>2, <3>3
  <2>2. \A i \in Ids \ born : runs[i] = Store!Absent
    BY <1>0
  <2> QED
    BY <1>3, <2>1, <2>2 DEF Store!Stored
<1>6. \A i \in Store!Stored : /\ i \in Ids
                              /\ runs[i].offset = 0 /\ runs[i].best = None
                                   /\ runs[i].details = None
                              /\ <<runs[i].mode, runs[i].canvas>> =
                                    IF roles.age = "earlier" THEN <<"none", "none">>
                                    ELSE <<"emergence", "set">>
  BY <1>3, <1>4, <1>5, NewRowIsRow DEF Store!Stored
<1>7. DatabaseTypes
  <2>1. proc \in [Processes -> ProcType]
    BY ClosedTyped
  <2>2. Store!Stored \subseteq born /\ ancient \subseteq born
    BY <1>5
  <2> QED
    BY <1>3, <1>4, <2>1, <2>2 DEF DatabaseTypes
<1>8. ProcessesAreSound /\ HuntersAreAlone
  BY DEF ProcessesAreSound, HuntersAreAlone, Sound, WorkIsOnRuns, TransactionHasRow,
     PriorIsCurrent, MemoryIsAPrefix, MemoryIsTheRow, TablesAreThere, Store!Closed, Store!Idle,
     HuntingPcs, DeletingPcs, MigratingPcs
<1>9. TablesAreMade
  BY <1>1 DEF TablesAreMade, Store!Tables, Store!AllColumns, Store!ColumnsOf
<1>10. RowsAreMigrated
  BY <1>1, <1>5, <1>6 DEF RowsAreMigrated
<1>11. Store!ProgressIsAPrefix /\ Store!HistoryIsExact /\ Store!DetailsBelongToBest
  <2>1. Store!ProgressIsAPrefix
    BY <1>6, ScanBegins DEF Store!ProgressIsAPrefix
  <2>2. Store!HistoryIsExact
    <3>1. \A o \in Store!Records : ~(o < 0)
      BY DEF Store!Records, Store!Offsets, Store!StoreConstants
    <3> QED
      BY <1>6, <3>1 DEF Store!HistoryIsExact
  <2> QED
    BY <1>6, <2>1, <2>2 DEF Store!DetailsBelongToBest
<1>12. Store!NamesAreUnique
  <2> SUFFICES ASSUME NEW i \in Store!Stored, NEW j \in Store!Stored, runs[i].name = runs[j].name
               PROVE  i = j
    BY DEF Store!NamesAreUnique
  <2>1. <<i, runs[i].name>> \in roles.saved /\ <<j, runs[j].name>> \in roles.saved
    BY <1>3, <1>5
  <2>2. \A a, b \in roles.saved : a[2] = b[2] => a = b
    BY DEF Store!StoreConstants
  <2>3. <<i, runs[i].name>>[2] = <<j, runs[j].name>>[2]
    OBVIOUS
  <2>4. <<i, runs[i].name>> = <<j, runs[j].name>>
    BY <2>1, <2>2, <2>3
  <2> QED
    BY <2>4
<1>13. NoRowNoEvents
  BY DEF NoRowNoEvents
<1> QED
  BY <1>7, <1>8, <1>9, <1>10, <1>11, <1>12, <1>13 DEF StoreInv, RowsAreSound

-----------------------------------------------------------------------------
(* What a step leaves alone.                                               *)

\* Rows stay sound where nothing of them changes; a run may become a shared one.
LEMMA RowsRest ==
    ASSUME RowsAreSound, shared \subseteq shared',
           UNCHANGED <<roles, tables, columns, runs, events, born, ancient, trimmed>>
    PROVE  RowsAreSound'
<1>1. Store!Stored' = Store!Stored
  BY DEF Store!Stored
<1>2. NoRowNoEvents' /\ Store!NamesAreUnique' /\ Store!ProgressIsAPrefix'
  BY <1>1 DEF RowsAreSound, NoRowNoEvents, Store!NamesAreUnique, Store!ProgressIsAPrefix
<1>3. TablesAreMade' /\ RowsAreMigrated'
  BY <1>1 DEF RowsAreSound, TablesAreMade, RowsAreMigrated
<1>4. Store!HistoryIsExact' /\ Store!DetailsBelongToBest'
  BY <1>1 DEF RowsAreSound, Store!HistoryIsExact, Store!DetailsBelongToBest
<1> QED
  BY <1>2, <1>3, <1>4 DEF RowsAreSound

\* A process stays sound while others add tables, columns, runs and events, and
\* delete runs.
LEMMA OthersStaySound ==
    ASSUME NEW q \in Processes, Sound(q), proc'[q] = proc[q],
           tables \subseteq tables', tables' \subseteq Store!Tables,
           columns \subseteq columns', columns' \subseteq Store!AllColumns,
           born \subseteq born', trimmed \subseteq trimmed', shared \subseteq shared',
           born \cap Store!Stored' \subseteq Store!Stored,
           proc[q].pc = "commit" => writer' = writer /\ proc[q].id \in Store!Stored',
           \A i \in born \cap Store!Stored' :
              /\ runs'[i].legacy = runs[i].legacy
              /\ i \notin trimmed' => events[i] \subseteq events'[i],
           proc[q].pc \in HuntingPcs /\ proc[q].id \in (born \cap Store!Stored') \ shared' =>
              runs'[proc[q].id].best = runs[proc[q].id].best
    PROVE  Sound(q)'
<1>1. WorkIsOnRuns(q)' /\ TransactionHasRow(q)'
  BY DEF Sound, WorkIsOnRuns, TransactionHasRow
<1>2. proc[q].pc \in HuntingPcs => proc[q].id \in born
  BY DEF Sound, WorkIsOnRuns
<1>3. PriorIsCurrent(q)'
  BY <1>2 DEF Sound, PriorIsCurrent, HuntingPcs
<1>4. MemoryIsAPrefix(q)'
  BY <1>2 DEF Sound, MemoryIsAPrefix
<1>5. MemoryIsTheRow(q)'
  BY <1>2 DEF Sound, MemoryIsTheRow
<1>6. TablesAreThere(q)'
  BY DEF Sound, TablesAreThere
<1> QED
  BY <1>1, <1>3, <1>4, <1>5, <1>6 DEF Sound

\* A process that goes on hunting what it hunts, or hunts no more, is no second
\* hunter.
LEMMA StaysAlone ==
    ASSUME HuntersAreAlone, shared \subseteq shared', NEW p \in Processes,
           \A q \in Processes : q # p => proc'[q] = proc[q],
           proc'[p].pc \in HuntingPcs => proc[p].pc \in HuntingPcs /\ proc'[p].id = proc[p].id
    PROVE  HuntersAreAlone'
BY DEF HuntersAreAlone

\* What changes when process p writes the row of its run.
RowIsWritten(p) ==
    LET i == proc[p].id
        run == proc[p].run
    IN  /\ runs' \in [Ids -> Store!Row \cup {Store!Absent}]
        /\ Store!Stored' = Store!Stored
        /\ \A j \in Ids : j # i => runs'[j] = runs[j]
        /\ i \in Store!Stored =>
              /\ runs'[i].offset = run.offset /\ runs'[i].best = run.best
              /\ \/ runs'[i].details = run.details
                 \/ runs'[i].details = runs[i].details /\ proc[p].pc # "persist"
              /\ runs'[i].name = runs[i].name /\ runs'[i].legacy = runs[i].legacy
              /\ runs'[i].mode = runs[i].mode /\ runs'[i].canvas = runs[i].canvas

\* It leaves sound rows.
LEMMA WrittenRowIsSound ==
    ASSUME Store!StoreConstants, StoreInv, NEW p \in Processes, proc[p].pc \in HuntingPcs,
           RowIsWritten(p), UNCHANGED <<roles, tables, columns, events, born, ancient, trimmed>>,
           shared' = shared
    PROVE  RowsAreSound'
<1> DEFINE i == proc[p].id
           run == proc[p].run
<1>1. Sound(p) /\ RowsAreSound /\ DatabaseTypes
  BY DEF StoreInv, ProcessesAreSound
<1>2. Store!Stored' = Store!Stored /\ Store!Stored \subseteq Ids
  BY DEF RowIsWritten, Store!Stored
<1>3. /\ \A j \in Ids : j # i => runs'[j] = runs[j]
      /\ i \in Store!Stored =>
            /\ runs'[i].offset = run.offset /\ runs'[i].best = run.best
            /\ \/ runs'[i].details = run.details
               \/ runs'[i].details = runs[i].details /\ proc[p].pc # "persist"
            /\ runs'[i].name = runs[i].name
            /\ runs'[i].mode = runs[i].mode /\ runs'[i].canvas = runs[i].canvas
  BY DEF RowIsWritten
<1>4. /\ Store!ScannedTo(run.offset, run.best)
      /\ i \in Store!Stored \ trimmed => \A o \in Store!Records : o < run.offset
           => o \in events[i]
      /\ i \in Store!Stored \ shared => /\ run.details = run.best
                                        /\ proc[p].pc # "persist" => run.best = runs[i].best
  BY <1>1 DEF Sound, MemoryIsAPrefix, MemoryIsTheRow
<1> HIDE DEF i, run
<1>5. Store!ProgressIsAPrefix'
  BY <1>1, <1>2, <1>3, <1>4 DEF RowsAreSound, Store!ProgressIsAPrefix
<1>6. Store!HistoryIsExact'
  BY <1>1, <1>2, <1>3, <1>4 DEF RowsAreSound, Store!HistoryIsExact
<1>7. Store!DetailsBelongToBest'
  BY <1>1, <1>2, <1>3, <1>4 DEF RowsAreSound, Store!DetailsBelongToBest
<1>8. Store!NamesAreUnique'
  BY <1>1, <1>2, <1>3 DEF RowsAreSound, Store!NamesAreUnique
<1>9. NoRowNoEvents' /\ TablesAreMade'
  BY <1>1, <1>2 DEF RowsAreSound, NoRowNoEvents, TablesAreMade
<1>10. RowsAreMigrated'
  BY <1>1, <1>2, <1>3 DEF RowsAreSound, RowsAreMigrated
<1> QED
  BY <1>5, <1>6, <1>7, <1>8, <1>9, <1>10 DEF RowsAreSound

-----------------------------------------------------------------------------
(* Steps that write the row of a run.                                      *)

\* update_run writes the record to the row, if it is there.
LEMMA UpdateWrites ==
    ASSUME Store!StoreConstants, runs \in [Ids -> Store!Row \cup {Store!Absent}],
           NEW p \in Processes,
           proc[p].id \in Ids, proc[p].run \in Store!Row, Store!UpdateRun(proc[p].id, proc[p].run)
    PROVE  RowIsWritten(p)
<1> DEFINE i == proc[p].id
           run == proc[p].run
<1>1. CASE i \notin Store!Stored
  <2>1. runs' = runs
    BY <1>1 DEF Store!UpdateRun
  <2> QED
    BY <1>1, <2>1 DEF RowIsWritten, Store!Stored
<1>2. CASE i \in Store!Stored
  <2> DEFINE o == run.offset
             b == run.best
             d == run.details
  <2>1. runs' = [runs EXCEPT ![i].offset = o, ![i].best = b, ![i].details = d]
    BY <1>2 DEF Store!UpdateRun
  <2>2. o \in Store!Offsets /\ b \in Store!Offsets \cup {None} /\ d \in Store!Offsets \cup {None}
    BY RowFields
  <2>3. runs[i] \in Store!Row /\ i \in Ids
    BY <1>2, StoredRows
  <2> HIDE DEF i, run, o, b, d
  <2>4. /\ runs'[i] \in Store!Row
        /\ runs'[i].offset = o /\ runs'[i].best = b /\ runs'[i].details = d
        /\ runs'[i].name = runs[i].name /\ runs'[i].legacy = runs[i].legacy
        /\ runs'[i].params = runs[i].params
        /\ runs'[i].mode = runs[i].mode /\ runs'[i].canvas = runs[i].canvas
    BY <2>1, <2>2, <2>3 DEF Store!Row
  <2>5. /\ runs' \in [Ids -> Store!Row \cup {Store!Absent}]
        /\ \A j \in Ids : j # i => runs'[j] = runs[j]
    <3>1. /\ DOMAIN runs' = Ids /\ runs' = [j \in Ids |-> runs'[j]]
          /\ \A j \in Ids : j # i => runs'[j] = runs[j]
      BY <2>1, <2>3
    <3> QED
      BY <2>4, <3>1
  <2>6. Store!Stored' = Store!Stored
    BY <2>3, <2>4, <2>5, StoredRows, StoredRowsNext
  <2> QED
    BY <2>4, <2>5, <2>6 DEF RowIsWritten, i, run, o, b, d
<1> QED
  BY <1>1, <1>2

\* The commit writes position, best and parameters, and keeps what it had read.
LEMMA CommitWrites ==
    ASSUME Store!StoreConstants, StoreInv, NEW p \in Processes, Store!Commit(p)
    PROVE  /\ RowIsWritten(p)
           /\ runs'[proc[p].id].params = runs'[proc[p].id].offset
<1> DEFINE i == proc[p].id
           run == proc[p].run
           o == run.offset
           b == run.best
           l == proc[p].prior
<1>1. proc[p].pc = "commit" /\ Sound(p) /\ runs \in [Ids -> Store!Row \cup {Store!Absent}]
  BY DEF Store!Commit, StoreInv, ProcessesAreSound, DatabaseTypes
<1>2. runs' = [runs EXCEPT ![i].offset = o, ![i].best = b, ![i].params = o, ![i].legacy = l]
  BY DEF Store!Commit
<1>3. i \in Store!Stored /\ run \in Store!Row /\ l = runs[i].legacy
  BY <1>1 DEF Sound, TransactionHasRow, WorkIsOnRuns, PriorIsCurrent, HuntingPcs
<1>4. o \in Store!Offsets /\ b \in Store!Offsets \cup {None}
  BY <1>3, RowFields
<1>5. runs[i] \in Store!Row /\ i \in Ids /\ l \in BOOLEAN
  <2>1. i \in Ids /\ runs[i] \in Store!Row
    BY <1>1, <1>3, StoredRows
  <2> QED
    BY <1>3, <2>1, RowFields
<1> HIDE DEF i, run, o, b, l
<1>6. /\ runs'[i] \in Store!Row
      /\ runs'[i].offset = o /\ runs'[i].best = b /\ runs'[i].details = runs[i].details
      /\ runs'[i].name = runs[i].name /\ runs'[i].legacy = l
      /\ runs'[i].params = o
      /\ runs'[i].mode = runs[i].mode /\ runs'[i].canvas = runs[i].canvas
  BY <1>1, <1>2, <1>4, <1>5 DEF Store!Row
<1>7. /\ runs' \in [Ids -> Store!Row \cup {Store!Absent}]
      /\ \A j \in Ids : j # i => runs'[j] = runs[j]
  <2>1. /\ DOMAIN runs' = Ids /\ runs' = [j \in Ids |-> runs'[j]]
        /\ \A j \in Ids : j # i => runs'[j] = runs[j]
    BY <1>1, <1>2, <1>5
  <2> QED
    BY <1>1, <1>6, <2>1
<1>8. Store!Stored' = Store!Stored
  BY <1>1, <1>5, <1>6, <1>7, StoredRows, StoredRowsNext
<1> QED
  BY <1>1, <1>3, <1>6, <1>7, <1>8 DEF RowIsWritten, i, run, o, b, l

\* The process that wrote the row goes on with what it has in memory, or is done;
\* nobody else is disturbed.
LEMMA WriterGoesOn ==
    ASSUME Store!StoreConstants, StoreInv, NEW p \in Processes, proc[p].pc \in HuntingPcs,
           RowIsWritten(p), UNCHANGED <<roles, tables, columns, events, born, ancient, trimmed>>,
           shared' = shared, crashes' = crashes, writer' \in {writer, None},
           writer' = writer \/ writer = p,
           NEW r \in ProcType, Store!Becomes(p, r),
           \/ r = Store!Idle
           \/ /\ r.pc \in {"start", "scan"} /\ r.id = proc[p].id /\ r.run = proc[p].run
              /\ r.next \in {"start", "scan"}
    PROVE  StoreInv'
<1>1. DatabaseTypes /\ Sound(p) /\ HuntersAreAlone /\ \A q \in Processes : Sound(q)
  BY DEF StoreInv, ProcessesAreSound
<1>2. /\ proc' \in [Processes -> ProcType] /\ proc'[p] = r
      /\ \A q \in Processes : q # p => proc'[q] = proc[q]
  BY <1>1, OneMoves DEF DatabaseTypes
<1>3. /\ runs' \in [Ids -> Store!Row \cup {Store!Absent}] /\ Store!Stored' = Store!Stored
      /\ \A j \in Ids : j # proc[p].id => runs'[j] = runs[j]
      /\ proc[p].id \in Store!Stored => /\ runs'[proc[p].id].best = proc[p].run.best
                                        /\ runs'[proc[p].id].legacy = runs[proc[p].id].legacy
  BY DEF RowIsWritten
<1>4. Store!Idle.pc = "idle" /\ Store!Idle.id = None
  BY ClosedTyped
<1>5. DatabaseTypes'
  BY <1>1, <1>2, <1>3 DEF DatabaseTypes
<1>6. RowsAreSound'
  BY WrittenRowIsSound
<1>7. HuntersAreAlone'
  BY <1>1, <1>2, <1>4, StaysAlone DEF HuntingPcs
<1>8. ASSUME NEW q \in Processes, q # p PROVE Sound(q)'
  <2>1. /\ Sound(q) /\ proc'[q] = proc[q] /\ tables' \subseteq Store!Tables
             /\ columns' \subseteq Store!AllColumns
        /\ Store!Stored \subseteq Ids
    BY <1>1, <1>2, <1>8 DEF DatabaseTypes, Store!Stored
  <2>2. proc[q].pc = "commit" => writer' = writer /\ proc[q].id \in Store!Stored'
    BY <1>3, <1>8, <2>1 DEF Sound, TransactionHasRow
  <2>3. \A i \in born \cap Store!Stored' :
           /\ runs'[i].legacy = runs[i].legacy
           /\ i \notin trimmed' => events[i] \subseteq events'[i]
    BY <1>3, <2>1
  <2>4. proc[q].pc \in HuntingPcs /\ proc[q].id \in (born \cap Store!Stored') \ shared' =>
           runs'[proc[q].id].best = runs[proc[q].id].best
    BY <1>1, <1>3, <1>8, <2>1 DEF HuntersAreAlone
  <2> QED
    BY <1>3, <2>1, <2>2, <2>3, <2>4, OthersStaySound
<1>9. Sound(p)'
  <2>1. CASE r = Store!Idle
    BY <1>1, <1>2, <1>4, <2>1 DEF Sound, WorkIsOnRuns, TransactionHasRow, PriorIsCurrent,
       MemoryIsAPrefix, MemoryIsTheRow, TablesAreThere, HuntingPcs, DeletingPcs, MigratingPcs
  <2>2. CASE r.pc \in {"start", "scan"} /\ r.id = proc[p].id /\ r.run = proc[p].run
             /\ r.next \in {"start", "scan"}
    <3>1. WorkIsOnRuns(p)' /\ TransactionHasRow(p)' /\ PriorIsCurrent(p)' /\ TablesAreThere(p)'
      BY <1>1, <1>2, <2>2 DEF Sound, WorkIsOnRuns, TransactionHasRow, PriorIsCurrent,
         TablesAreThere, HuntingPcs, DeletingPcs, MigratingPcs
    <3>2. MemoryIsAPrefix(p)'
      BY <1>1, <1>2, <1>3, <2>2 DEF Sound, MemoryIsAPrefix
    <3>3. MemoryIsTheRow(p)'
      BY <1>1, <1>2, <1>3, <2>2 DEF Sound, MemoryIsTheRow
    <3> QED
      BY <3>1, <3>2, <3>3 DEF Sound
  <2> QED
    BY <2>1, <2>2
<1> QED
  BY <1>5, <1>6, <1>7, <1>8, <1>9 DEF StoreInv, ProcessesAreSound

\* The steps of a hunt that write the row: the commit of a checkpoint, the row
\* marked as running, the best persisted, the end.
LEMMA RowWriters ==
    ASSUME Store!StoreConstants, StoreInv, NEW p \in Processes,
           Store!Commit(p) \/ Store!Start(p) \/ Store!PersistBest(p) \/ Store!Finish(p)
    PROVE  StoreInv'
<1>1. /\ runs \in [Ids -> Store!Row \cup {Store!Absent}] /\ proc \in [Processes -> ProcType]
           /\ born \subseteq Ids
      /\ Sound(p)
  BY DEF StoreInv, DatabaseTypes, ProcessesAreSound
<1>2. proc[p] \in ProcType
  BY <1>1
<1>3. ASSUME proc[p].pc \in HuntingPcs
      PROVE  proc[p].id \in Ids /\ proc[p].run \in Store!Row /\ proc[p].next \in {"start", "scan"}
  BY <1>1, <1>3 DEF Sound, WorkIsOnRuns
<1>4. CASE Store!Commit(p)
  <2> DEFINE r == [proc[p] EXCEPT !.pc = proc[p].next, !.next = "scan"]
  <2>1. proc[p].pc = "commit" /\ writer = p
    BY <1>1, <1>4 DEF Store!Commit, Sound, TransactionHasRow
  <2>2. proc[p].next \in {"start", "scan"}
    BY <1>3, <2>1 DEF HuntingPcs
  <2>3. /\ r \in ProcType /\ r.pc \in {"start", "scan"} /\ r.id = proc[p].id
        /\ r.run = proc[p].run /\ r.next \in {"start", "scan"}
    BY <1>2, <2>2 DEF ProcType, Store!Pcs
  <2>4. /\ Store!Becomes(p, r) /\ writer' = None
        /\ UNCHANGED <<roles, tables, columns, events, born, ancient, trimmed, shared, crashes>>
    BY <1>4 DEF Store!Commit, Store!HistoryKeeps
  <2> HIDE DEF r
  <2> QED
    BY <1>4, <2>1, <2>3, <2>4, CommitWrites, WriterGoesOn DEF HuntingPcs
<1>5. CASE Store!Start(p)
  <2> DEFINE r == [proc[p] EXCEPT !.pc = "scan"]
  <2>1. /\ proc[p].pc = "start" /\ Store!Becomes(p, r) /\ Store!UpdateRun(proc[p].id, proc[p].run)
        /\ UNCHANGED <<roles, tables, columns, events, born, ancient, trimmed, shared, crashes,
                       writer>>
    BY <1>5 DEF Store!Start, Store!HistoryKeeps
  <2>2. proc[p].pc \in HuntingPcs
    BY <2>1 DEF HuntingPcs
  <2>3. /\ r \in ProcType /\ r.pc \in {"start", "scan"} /\ r.id = proc[p].id
        /\ r.run = proc[p].run /\ r.next \in {"start", "scan"}
    BY <1>2, <1>3, <2>2 DEF ProcType, Store!Pcs
  <2> HIDE DEF r
  <2> QED
    BY <1>1, <1>3, <2>1, <2>2, <2>3, UpdateWrites, WriterGoesOn
<1>6. CASE Store!PersistBest(p)
  <2> DEFINE r == [proc[p] EXCEPT !.pc = "scan"]
  <2>1. /\ proc[p].pc = "persist" /\ Store!Becomes(p, r)
             /\ Store!UpdateRun(proc[p].id, proc[p].run)
        /\ UNCHANGED <<roles, tables, columns, events, born, ancient, trimmed, shared, crashes,
                       writer>>
    BY <1>6 DEF Store!PersistBest, Store!HistoryKeeps
  <2>2. proc[p].pc \in HuntingPcs
    BY <2>1 DEF HuntingPcs
  <2>3. /\ r \in ProcType /\ r.pc \in {"start", "scan"} /\ r.id = proc[p].id
        /\ r.run = proc[p].run /\ r.next \in {"start", "scan"}
    BY <1>2, <1>3, <2>2 DEF ProcType, Store!Pcs
  <2> HIDE DEF r
  <2> QED
    BY <1>1, <1>3, <2>1, <2>2, <2>3, UpdateWrites, WriterGoesOn
<1>7. CASE Store!Finish(p)
  <2>1. /\ proc[p].pc = "scan" /\ Store!Becomes(p, Store!Idle)
             /\ Store!UpdateRun(proc[p].id, proc[p].run)
        /\ UNCHANGED <<roles, tables, columns, events, born, ancient, trimmed, shared, crashes,
                       writer>>
    BY <1>7 DEF Store!Finish, Store!HistoryKeeps
  <2>2. proc[p].pc \in HuntingPcs
    BY <2>1 DEF HuntingPcs
  <2> QED
    BY <1>1, <1>3, <2>1, <2>2, ClosedTyped, UpdateWrites, WriterGoesOn
<1> QED
  BY <1>4, <1>5, <1>6, <1>7

-----------------------------------------------------------------------------
(* Steps that change what a process has in memory, and nothing that is     *)
(* stored.                                                                 *)

\* Whatever process p does to its own memory, the rows and the others are as
\* they were.
LEMMA MemoryStep ==
    ASSUME Store!StoreConstants, StoreInv, NEW p \in Processes, NEW r \in ProcType,
           Store!Becomes(p, r),
           UNCHANGED <<roles, tables, columns, runs, events, born, ancient, trimmed>>,
           shared \subseteq shared', shared' \subseteq born, crashes' \in Nat,
           writer' \in Processes \cup {None},
           \A q \in Processes : q # p /\ writer = q => writer' = q,
           HuntersAreAlone', Sound(p)'
    PROVE  StoreInv'
<1>1. DatabaseTypes /\ RowsAreSound /\ \A q \in Processes : Sound(q)
  BY DEF StoreInv, ProcessesAreSound
<1>2. /\ proc' \in [Processes -> ProcType]
      /\ \A q \in Processes : q # p => proc'[q] = proc[q]
  BY <1>1, OneMoves DEF DatabaseTypes
<1>3. Store!Stored' = Store!Stored
  BY DEF Store!Stored
<1>4. DatabaseTypes'
  BY <1>1, <1>2, <1>3 DEF DatabaseTypes
<1>5. RowsAreSound'
  BY <1>1, RowsRest
<1>6. ASSUME NEW q \in Processes, q # p PROVE Sound(q)'
  <2>1. Sound(q) /\ proc'[q] = proc[q] /\ tables' \subseteq Store!Tables
          /\ columns' \subseteq Store!AllColumns
    BY <1>1, <1>2, <1>6 DEF DatabaseTypes
  <2>2. proc[q].pc = "commit" => writer' = writer /\ proc[q].id \in Store!Stored'
    BY <1>3, <1>6, <2>1 DEF Sound, TransactionHasRow
  <2> QED
    BY <1>3, <2>1, <2>2, OthersStaySound
<1> QED
  BY <1>4, <1>5, <1>6 DEF StoreInv, ProcessesAreSound

\* A process that ends, by a crash, by a statement that fails or because its run
\* is gone, and one that closes its connection again.
LEMMA EndIsSound ==
    ASSUME Store!StoreConstants, StoreInv, NEW p \in Processes,
           \/ Store!Crash(p)
           \/ Store!RunGone(p)
           \/ /\ Store!Becomes(p, Store!Closed) /\ proc[p].pc # "commit"
              /\ Store!StoreKeeps /\ Store!HistoryKeeps
    PROVE  StoreInv'
<1>1. DatabaseTypes /\ HuntersAreAlone /\ Sound(p) /\ \A q \in Processes : Sound(q)
  BY DEF StoreInv, ProcessesAreSound
<1>2. /\ Store!Becomes(p, Store!Closed)
      /\ UNCHANGED <<roles, tables, columns, runs, events, born, ancient, trimmed, shared>>
      /\ crashes' \in Nat
      /\ writer' # writer => writer = p /\ writer' = None
  <2>1. CASE Store!Crash(p)
    BY <1>1, <2>1 DEF DatabaseTypes, Store!Crash
  <2>2. CASE Store!RunGone(p)
    BY <1>1, <2>2 DEF DatabaseTypes, Store!RunGone, Store!StoreKeeps, Store!HistoryKeeps
  <2>3. CASE Store!Becomes(p, Store!Closed) /\ Store!StoreKeeps /\ Store!HistoryKeeps
    BY <1>1, <2>3 DEF DatabaseTypes, Store!StoreKeeps, Store!HistoryKeeps
  <2> QED
    BY <2>1, <2>2, <2>3
<1>3. Store!Closed \in ProcType /\ Store!Closed.pc = "closed" /\ Store!Closed.id = None
  BY ClosedTyped
<1>4. proc'[p] = Store!Closed /\ \A q \in Processes : q # p => proc'[q] = proc[q]
  BY <1>1, <1>2, <1>3, OneMoves DEF DatabaseTypes
<1>5. HuntersAreAlone'
  BY <1>1, <1>2, <1>3, <1>4, StaysAlone DEF HuntingPcs
<1>6. Sound(p)'
  BY <1>3, <1>4 DEF Sound, WorkIsOnRuns, TransactionHasRow, PriorIsCurrent, MemoryIsAPrefix,
     MemoryIsTheRow, TablesAreThere, HuntingPcs, DeletingPcs, MigratingPcs
<1>7. shared' \subseteq born /\ writer' \in Processes \cup {None}
      /\ \A q \in Processes : q # p /\ writer = q => writer' = q
  BY <1>1, <1>2 DEF DatabaseTypes
<1> QED
  BY <1>2, <1>3, <1>5, <1>6, <1>7, MemoryStep

\* A connection that has looked through the columns is open when all are there.
LEMMA CheckIsSound ==
    ASSUME Store!StoreConstants, StoreInv, NEW p \in Processes, Store!CheckColumn(p)
    PROVE  StoreInv'
<1> DEFINE missing == {k \in DOMAIN Store!ColumnsAdded : Store!ColumnsAdded[k] \notin columns}
           r == IF missing = {} THEN Store!Idle
                ELSE [proc[p] EXCEPT !.pc = "alter", !.at = Store!Min(missing)]
<1>1. DatabaseTypes /\ HuntersAreAlone /\ Sound(p)
  BY DEF StoreInv, ProcessesAreSound
<1>2. proc[p].pc = "check" /\ Store!Becomes(p, r) /\ proc[p] \in ProcType
      /\ UNCHANGED <<roles, tables, columns, runs, events, born, ancient, trimmed, shared,
                     crashes, writer>>
  BY <1>1 DEF Store!CheckColumn, Store!StoreKeeps, Store!HistoryKeeps, DatabaseTypes
<1>3. missing # {} => Store!Min(missing) \in DOMAIN Store!ColumnsAdded
  <2>1. missing \subseteq 1..3
    BY ColumnsThere
  <2>2. missing # {} => \E k \in missing : \A l \in missing : k <= l
    BY <2>1
  <2> HIDE DEF missing
  <2> QED
    BY <2>1, <2>2, ColumnsThere DEF Store!Min
<1>4. missing = {} => columns = Store!AllColumns
  BY <1>1 DEF DatabaseTypes, Store!AllColumns
<1> HIDE DEF missing
<1>5. /\ r \in ProcType
      /\ \/ r.pc = "alter" /\ missing # {}
         \/ r.pc = "idle" /\ missing = {}
  <2>1. CASE missing = {}
    BY <2>1, ClosedTyped
  <2>2. CASE missing # {}
    BY <1>2, <1>3, <2>2 DEF ProcType, Store!Pcs
  <2> QED
    BY <2>1, <2>2
<1> HIDE DEF r
<1>6. proc'[p] = r /\ \A q \in Processes : q # p => proc'[q] = proc[q]
  BY <1>1, <1>2, <1>5, OneMoves DEF DatabaseTypes
<1>7. HuntersAreAlone'
  BY <1>1, <1>2, <1>5, <1>6, StaysAlone DEF HuntingPcs
<1>8. Sound(p)'
  BY <1>1, <1>2, <1>4, <1>5, <1>6 DEF Sound, WorkIsOnRuns, TransactionHasRow, PriorIsCurrent,
     MemoryIsAPrefix, MemoryIsTheRow, TablesAreThere, HuntingPcs, DeletingPcs, MigratingPcs
<1>9. shared' \subseteq born /\ writer' \in Processes \cup {None} /\ crashes' \in Nat
  BY <1>1, <1>2 DEF DatabaseTypes
<1> QED
  BY <1>2, <1>5, <1>7, <1>8, <1>9, MemoryStep

\* What a hunter reads of its row before a checkpoint stays true until the commit,
\* and the transaction is opened where nobody else has one.
LEMMA CheckpointIsSound ==
    ASSUME Store!StoreConstants, StoreInv, NEW p \in Processes,
           Store!ReadPrior(p) \/ Store!Begin(p)
    PROVE  StoreInv'
<1>1. /\ DatabaseTypes /\ HuntersAreAlone /\ Sound(p) /\ proc[p] \in ProcType
      /\ \A q \in Processes : Sound(q)
  BY DEF StoreInv, ProcessesAreSound, DatabaseTypes
<1>2. proc[p].pc \in {"hunt", "scan", "begin"} /\ proc[p].id \in Store!Stored
      /\ UNCHANGED <<roles, tables, columns, runs, events, born, ancient, trimmed, shared,
                     crashes>>
  BY DEF Store!ReadPrior, Store!Begin, Store!StoreKeeps, Store!HistoryKeeps
<1>3. PICK r \in ProcType :
         /\ Store!Becomes(p, r) /\ r.id = proc[p].id /\ r.run = proc[p].run
         /\ r.next = proc[p].next
         /\ \/ r.pc = "begin" /\ r.prior = runs[proc[p].id].legacy /\ writer' = writer
            \/ /\ r.pc = "commit" /\ r.prior = proc[p].prior /\ proc[p].pc = "begin"
               /\ writer = None /\ writer' = p
  <2>1. CASE Store!ReadPrior(p)
    <3> DEFINE l == runs[proc[p].id].legacy
               r == [proc[p] EXCEPT !.pc = "begin", !.prior = l]
    <3>1. l \in BOOLEAN
      BY <1>1, <1>2, StoredRows, RowFields DEF DatabaseTypes
    <3>2. Store!Becomes(p, r) /\ writer' = writer
      BY <2>1 DEF Store!ReadPrior, Store!StoreKeeps
    <3> HIDE DEF l
    <3>3. r \in ProcType /\ r.id = proc[p].id /\ r.run = proc[p].run /\ r.next = proc[p].next
          /\ r.pc = "begin" /\ r.prior = l
      BY <1>1, <3>1 DEF ProcType, Store!Pcs
    <3> HIDE DEF r
    <3> QED
      BY <3>2, <3>3 DEF l
  <2>2. CASE Store!Begin(p)
    <3> DEFINE r == [proc[p] EXCEPT !.pc = "commit"]
    <3>1. Store!Becomes(p, r) /\ writer = None /\ writer' = p /\ proc[p].pc = "begin"
      BY <2>2 DEF Store!Begin
    <3>2. r \in ProcType /\ r.id = proc[p].id /\ r.run = proc[p].run /\ r.next = proc[p].next
          /\ r.pc = "commit" /\ r.prior = proc[p].prior
      BY <1>1 DEF ProcType, Store!Pcs
    <3> HIDE DEF r
    <3> QED
      BY <3>1, <3>2
  <2> QED
    BY <2>1, <2>2
<1>4. proc'[p] = r /\ \A q \in Processes : q # p => proc'[q] = proc[q]
  BY <1>1, <1>3, OneMoves DEF DatabaseTypes
<1>5. Store!Stored' = Store!Stored
  BY <1>2 DEF Store!Stored
<1>6. HuntersAreAlone'
  BY <1>1, <1>2, <1>3, <1>4, StaysAlone DEF HuntingPcs
<1>7. Sound(p)'
  <2>1. WorkIsOnRuns(p)'
    BY <1>1, <1>2, <1>3, <1>4 DEF Sound, WorkIsOnRuns, HuntingPcs, DeletingPcs
  <2>2. TransactionHasRow(p)' /\ TablesAreThere(p)'
    BY <1>1, <1>2, <1>3, <1>4, <1>5 DEF Sound, TransactionHasRow, TablesAreThere, MigratingPcs
  <2>3. PriorIsCurrent(p)'
    BY <1>1, <1>2, <1>3, <1>4, <1>5 DEF Sound, PriorIsCurrent
  <2>4. MemoryIsAPrefix(p)'
    BY <1>1, <1>2, <1>3, <1>4, <1>5 DEF Sound, MemoryIsAPrefix, HuntingPcs
  <2>5. MemoryIsTheRow(p)'
    BY <1>1, <1>2, <1>3, <1>4, <1>5 DEF Sound, MemoryIsTheRow, HuntingPcs
  <2> QED
    BY <2>1, <2>2, <2>3, <2>4, <2>5 DEF Sound
<1>8. shared' \subseteq born /\ writer' \in Processes \cup {None} /\ crashes' \in Nat
      /\ \A q \in Processes : q # p /\ writer = q => writer' = q
  BY <1>1, <1>2, <1>3 DEF DatabaseTypes, Store!StoreConstants
<1> QED
  BY <1>2, <1>3, <1>6, <1>7, <1>8, MemoryStep

\* A window that is no better advances the position in memory, past no record.
LEMMA ScanIsSound ==
    ASSUME Store!StoreConstants, StoreInv, NEW p \in Processes, Store!ScanOn(p)
    PROVE  StoreInv'
<1> DEFINE o == proc[p].run.offset
           run == [proc[p].run EXCEPT !.offset = @ + 1]
           r == [proc[p] EXCEPT !.run.offset = @ + 1]
<1>1. DatabaseTypes /\ HuntersAreAlone /\ Sound(p) /\ proc[p] \in ProcType
  BY DEF StoreInv, ProcessesAreSound, DatabaseTypes
<1>2. proc[p].pc = "scan" /\ o < MaxOffset /\ ~Store!Beats(o, proc[p].run.best)
        /\ Store!Becomes(p, r)
      /\ UNCHANGED <<roles, tables, columns, runs, events, born, ancient, trimmed, shared,
                     crashes, writer>>
  BY DEF Store!ScanOn, Store!StoreKeeps, Store!HistoryKeeps
<1>3. proc[p].run \in Store!Row /\ Store!ScannedTo(o, proc[p].run.best)
  BY <1>1, <1>2 DEF Sound, WorkIsOnRuns, MemoryIsAPrefix, HuntingPcs
<1>4. o \in Store!Offsets /\ proc[p].run.best \in Store!Offsets \cup {None}
  BY <1>3, RowFields
<1>5. o + 1 \in Store!Offsets /\ Store!ScannedTo(o + 1, proc[p].run.best)
        /\ o \notin Store!Records
  BY <1>2, <1>3, <1>4, ScanGoesOn
<1>6. \A e \in Store!Records : e < o + 1 => e < o
  BY <1>4, <1>5 DEF Store!Records, Store!Offsets
<1>7. run \in Store!Row /\ run.offset = o + 1 /\ run.best = proc[p].run.best
      /\ run.details = proc[p].run.details
  BY <1>3, <1>5 DEF Store!Row
<1>8. r \in ProcType /\ r.pc = proc[p].pc /\ r.id = proc[p].id /\ r.run = run
      /\ r.next = proc[p].next
  BY <1>1, <1>7 DEF ProcType
<1> HIDE DEF r, run, o
<1>9. proc'[p] = r /\ \A q \in Processes : q # p => proc'[q] = proc[q]
  BY <1>1, <1>2, <1>8, OneMoves DEF DatabaseTypes
<1>10. Store!Stored' = Store!Stored
  BY <1>2 DEF Store!Stored
<1>11. HuntersAreAlone'
  BY <1>1, <1>2, <1>8, <1>9, StaysAlone DEF HuntingPcs
<1>12. Sound(p)'
  <2>1. WorkIsOnRuns(p)' /\ TransactionHasRow(p)' /\ PriorIsCurrent(p)' /\ TablesAreThere(p)'
    BY <1>1, <1>2, <1>7, <1>8, <1>9 DEF Sound, WorkIsOnRuns, TransactionHasRow,
       PriorIsCurrent, TablesAreThere, HuntingPcs, DeletingPcs, MigratingPcs
  <2>2. MemoryIsAPrefix(p)'
    BY <1>1, <1>2, <1>5, <1>6, <1>7, <1>8, <1>9, <1>10 DEF Sound, MemoryIsAPrefix, o
  <2>3. MemoryIsTheRow(p)'
    BY <1>1, <1>2, <1>7, <1>8, <1>9, <1>10 DEF Sound, MemoryIsTheRow
  <2> QED
    BY <2>1, <2>2, <2>3 DEF Sound
<1>13. shared' \subseteq born /\ writer' \in Processes \cup {None} /\ crashes' \in Nat
  BY <1>1, <1>2 DEF DatabaseTypes
<1> QED
  BY <1>2, <1>8, <1>11, <1>12, <1>13, MemoryStep

\* What resolve_run hands over is the row as it is.
LEMMA ResolveRemembers ==
    ASSUME Store!StoreConstants, StoreInv, NEW p \in Processes, NEW role \in {"hunt", "delete"},
           Store!Resolve(p, role)
    PROVE  \E i \in Store!Stored, r \in ProcType :
              /\ i \in born /\ proc[p].pc = "idle" /\ Store!Becomes(p, r) /\ Store!StoreKeeps
              /\ r.pc = role /\ r.id = i /\ r.run = Store!RowToRun(runs[i]) /\ r.run \in Store!Row
              /\ r.next = IF role = "hunt" THEN "start" ELSE "none"
<1> DEFINE next == IF role = "hunt" THEN "start" ELSE "none"
           rec(i) == [Store!Idle EXCEPT !.pc = role, !.id = i, !.run = Store!RowToRun(runs[i]),
             !.next = next]
<1>1. DatabaseTypes
  BY DEF StoreInv
<1>2. PICK i \in Store!Stored : Store!Becomes(p, rec(i))
  BY DEF Store!Resolve
<1>3. i \in Ids /\ i \in born /\ Store!RowToRun(runs[i]) \in Store!Row
  BY <1>1, StoredRows, RowFields DEF DatabaseTypes
<1>4. next \in {"none", "start"}
  OBVIOUS
<1> HIDE DEF next
<1>5. /\ rec(i) \in ProcType
      /\ rec(i).pc = role /\ rec(i).id = i /\ rec(i).run = Store!RowToRun(runs[i])
           /\ rec(i).next = next
  BY <1>3, <1>4, ClosedTyped DEF ProcType, Store!Pcs
<1>6. proc[p].pc = "idle" /\ Store!StoreKeeps
  BY DEF Store!Resolve
<1> HIDE DEF rec
<1> QED
  BY <1>2, <1>3, <1>5, <1>6 DEF next

\* A hunter that takes a run up knows what its row says, and shares the run with
\* whoever hunts it; one that is to delete it remembers it.
LEMMA ResolveIsSound ==
    ASSUME Store!StoreConstants, StoreInv, NEW p \in Processes,
           Store!Resume(p) \/ Store!ResolveForDelete(p)
    PROVE  StoreInv'
<1>1. DatabaseTypes /\ HuntersAreAlone /\ Sound(p) /\ RowsAreSound
  BY DEF StoreInv, ProcessesAreSound
<1>2. PICK role \in {"hunt", "delete"}, i \in Store!Stored, r \in ProcType :
         /\ i \in born /\ proc[p].pc = "idle" /\ Store!Becomes(p, r) /\ Store!StoreKeeps
         /\ r.pc = role /\ r.id = i /\ r.run = Store!RowToRun(runs[i]) /\ r.run \in Store!Row
         /\ r.next = IF role = "hunt" THEN "start" ELSE "none"
         /\ role = "hunt" => Store!Resume(p)
         /\ role = "delete" => Store!HistoryKeeps
  <2>1. CASE Store!Resume(p)
    BY <2>1, ResolveRemembers DEF Store!Resume
  <2>2. CASE Store!ResolveForDelete(p)
    BY <2>2, ResolveRemembers DEF Store!ResolveForDelete
  <2> QED
    BY <2>1, <2>2
<1>3. proc'[p] = r /\ \A q \in Processes : q # p => proc'[q] = proc[q]
  BY <1>1, <1>2, OneMoves DEF DatabaseTypes
<1>4. /\ UNCHANGED <<roles, tables, columns, runs, events, born, ancient, trimmed, crashes,
           writer>>
      /\ shared \subseteq shared' /\ shared' \subseteq born
      /\ \A q \in Processes : role = "hunt" /\ proc[q].pc \in HuntingPcs /\ proc[q].id = i
           => i \in shared'
  <2>1. CASE role = "hunt"
    <3>1. shared' = shared \cup {j \in Ids : proc'[p].id = j /\ Store!Hunters(j) # {}}
          /\ UNCHANGED <<roles, crashes, born, ancient, trimmed>>
      BY <1>2, <2>1 DEF Store!Resume
    <3>2. i \in Ids /\ \A j \in Ids : proc'[p].id = j => j = i
      BY <1>1, <1>2, <1>3 DEF DatabaseTypes
    <3>3. \A q \in Processes : proc[q].pc \in HuntingPcs /\ proc[q].id = i
            => q \in Store!Hunters(i)
      BY DEF Store!Hunters, HuntingPcs
    <3> QED
      BY <1>1, <1>2, <1>3, <3>1, <3>2, <3>3 DEF DatabaseTypes, Store!StoreKeeps
  <2>2. CASE role = "delete"
    BY <1>1, <1>2, <2>2 DEF DatabaseTypes, Store!StoreKeeps, Store!HistoryKeeps
  <2> QED
    BY <2>1, <2>2
<1>5. HuntersAreAlone'
  BY <1>1, <1>2, <1>3, <1>4 DEF HuntersAreAlone, HuntingPcs
<1>6. Store!Stored' = Store!Stored
  BY <1>4 DEF Store!Stored
<1>7. runs[i] \in Store!Row /\ i \in Ids
  BY <1>1, <1>2, StoredRows DEF DatabaseTypes
<1>8. r.run.offset = runs[i].offset /\ r.run.best = runs[i].best
        /\ r.run.details = runs[i].details
  BY <1>2, <1>7, RowFields
<1>9. Sound(p)'
  <2>1. WorkIsOnRuns(p)'
    BY <1>2, <1>3, <1>4 DEF WorkIsOnRuns, HuntingPcs, DeletingPcs
  <2>2. TransactionHasRow(p)' /\ PriorIsCurrent(p)' /\ TablesAreThere(p)'
    BY <1>1, <1>2, <1>3, <1>4 DEF Sound, TransactionHasRow, PriorIsCurrent, TablesAreThere,
                                  MigratingPcs
  <2>3. MemoryIsAPrefix(p)'
    BY <1>1, <1>2, <1>3, <1>4, <1>6, <1>8
    DEF RowsAreSound, Store!ProgressIsAPrefix, Store!HistoryIsExact, MemoryIsAPrefix
  <2>4. MemoryIsTheRow(p)'
    BY <1>1, <1>2, <1>3, <1>4, <1>6, <1>8 DEF RowsAreSound, Store!DetailsBelongToBest,
                                              MemoryIsTheRow
  <2> QED
    BY <2>1, <2>2, <2>3, <2>4 DEF Sound
<1>10. writer' \in Processes \cup {None} /\ crashes' \in Nat
  BY <1>1, <1>4 DEF DatabaseTypes
<1> QED
  BY <1>2, <1>4, <1>5, <1>9, <1>10, MemoryStep

-----------------------------------------------------------------------------
(* Steps that change what is stored.                                       *)

\* The event of a better window is stored before its row.
LEMMA EventIsSound ==
    ASSUME Store!StoreConstants, StoreInv, NEW p \in Processes, Store!RecordEvent(p)
    PROVE  StoreInv'
<1> DEFINE o == proc[p].run.offset
           i == proc[p].id
           run == Store!Improved(proc[p].run)
           r == [proc[p] EXCEPT !.pc = "persist", !.run = Store!Improved(@)]
<1>1. /\ DatabaseTypes /\ HuntersAreAlone /\ Sound(p) /\ RowsAreSound /\ proc[p] \in ProcType
      /\ \A q \in Processes : Sound(q)
  BY DEF StoreInv, ProcessesAreSound, DatabaseTypes
<1>2. /\ proc[p].pc = "scan" /\ o < MaxOffset /\ Store!Beats(o, proc[p].run.best)
           /\ Store!Becomes(p, r)
      /\ i \in Store!Stored /\ events' = [events EXCEPT ![i] = @ \cup {o}]
      /\ UNCHANGED <<roles, tables, columns, runs, born, ancient, trimmed, shared, crashes,
           writer>>
  BY DEF Store!RecordEvent, Store!InsertBestEvent, Store!HistoryKeeps
<1>3. /\ proc[p].run \in Store!Row /\ Store!ScannedTo(o, proc[p].run.best)
      /\ i \notin trimmed => \A e \in Store!Records : e < o => e \in events[i]
  BY <1>1, <1>2 DEF Sound, WorkIsOnRuns, MemoryIsAPrefix, HuntingPcs
<1>4. o \in Store!Offsets /\ proc[p].run.best \in Store!Offsets \cup {None}
  BY <1>3, RowFields
<1>5. o + 1 \in Store!Offsets /\ Store!ScannedTo(o + 1, o) /\ o \in Store!Records
  BY <1>2, <1>3, <1>4, ScanImproves
<1>6. \A e \in Store!Records : e < o + 1 => e < o \/ e = o
  BY <1>4 DEF Store!Records, Store!Offsets
<1>7. run \in Store!Row /\ run.offset = o + 1 /\ run.best = o /\ run.details = o
  BY <1>3, <1>4, <1>5 DEF Store!Row, Store!Improved
<1>8. r \in ProcType /\ r.pc = "persist" /\ r.id = i /\ r.run = run /\ r.next = proc[p].next
  BY <1>1, <1>7 DEF ProcType, Store!Pcs
<1> HIDE DEF r, run, o, i
<1>9. /\ proc'[p] = r /\ \A q \in Processes : q # p => proc'[q] = proc[q]
      /\ proc' \in [Processes -> ProcType]
  BY <1>1, <1>2, <1>8, OneMoves DEF DatabaseTypes
<1>10. Store!Stored' = Store!Stored /\ Store!Stored \subseteq Ids
  BY <1>2 DEF Store!Stored
<1>11. /\ events' \in [Ids -> SUBSET Store!Offsets]
       /\ events'[i] = events[i] \cup {o}
       /\ \A j \in Ids : j # i => events'[j] = events[j]
  BY <1>1, <1>2, <1>4, <1>10 DEF DatabaseTypes
<1>12. DatabaseTypes'
  BY <1>1, <1>2, <1>9, <1>10, <1>11 DEF DatabaseTypes
<1>13. HuntersAreAlone'
  BY <1>1, <1>2, <1>8, <1>9, StaysAlone DEF HuntingPcs, i
<1>14. Sound(p)'
  <2>1. WorkIsOnRuns(p)' /\ TransactionHasRow(p)' /\ PriorIsCurrent(p)' /\ TablesAreThere(p)'
    BY <1>1, <1>2, <1>7, <1>8, <1>9 DEF Sound, WorkIsOnRuns, TransactionHasRow,
       PriorIsCurrent, TablesAreThere, HuntingPcs, DeletingPcs, MigratingPcs, i
  <2>2. MemoryIsAPrefix(p)'
    BY <1>2, <1>3, <1>5, <1>6, <1>7, <1>8, <1>9, <1>10, <1>11 DEF MemoryIsAPrefix
  <2>3. MemoryIsTheRow(p)'
    BY <1>7, <1>8, <1>9 DEF MemoryIsTheRow
  <2> QED
    BY <2>1, <2>2, <2>3 DEF Sound
<1>15. ASSUME NEW q \in Processes, q # p PROVE Sound(q)'
  <2>1. Sound(q) /\ proc'[q] = proc[q] /\ tables' \subseteq Store!Tables
          /\ columns' \subseteq Store!AllColumns
    BY <1>1, <1>2, <1>9, <1>15 DEF DatabaseTypes
  <2>2. proc[q].pc = "commit" => writer' = writer /\ proc[q].id \in Store!Stored'
    BY <1>2, <1>10, <2>1 DEF Sound, TransactionHasRow
  <2>3. \A j \in born \cap Store!Stored' :
           runs'[j].legacy = runs[j].legacy
             /\ (j \notin trimmed' => events[j] \subseteq events'[j])
    BY <1>2, <1>10, <1>11
  <2> QED
    BY <1>2, <1>10, <2>1, <2>2, <2>3, OthersStaySound
<1>16. RowsAreSound'
  <2>1. NoRowNoEvents' /\ Store!NamesAreUnique' /\ Store!ProgressIsAPrefix'
    BY <1>1, <1>2, <1>10, <1>11 DEF RowsAreSound, NoRowNoEvents, Store!NamesAreUnique,
                                    Store!ProgressIsAPrefix
  <2>2. TablesAreMade' /\ RowsAreMigrated' /\ Store!DetailsBelongToBest'
    BY <1>1, <1>2, <1>10 DEF RowsAreSound, TablesAreMade, RowsAreMigrated,
                             Store!DetailsBelongToBest
  <2>3. Store!HistoryIsExact'
    BY <1>1, <1>2, <1>5, <1>10, <1>11 DEF RowsAreSound, Store!HistoryIsExact
  <2> QED
    BY <2>1, <2>2, <2>3 DEF RowsAreSound
<1> QED
  BY <1>12, <1>13, <1>14, <1>15, <1>16 DEF StoreInv, ProcessesAreSound

\* A deletion removes the events first, and is remembered as half done.
LEMMA DeleteEventsIsSound ==
    ASSUME Store!StoreConstants, StoreInv, NEW p \in Processes, Store!DeleteEvents(p)
    PROVE  StoreInv'
<1> DEFINE i == proc[p].id
           r == [proc[p] EXCEPT !.pc = "delete row"]
<1>1. /\ DatabaseTypes /\ HuntersAreAlone /\ Sound(p) /\ RowsAreSound /\ proc[p] \in ProcType
      /\ \A q \in Processes : Sound(q)
  BY DEF StoreInv, ProcessesAreSound, DatabaseTypes
<1>2. /\ proc[p].pc = "delete" /\ Store!Becomes(p, r) /\ events' = [events EXCEPT ![i] = {}]
      /\ trimmed' = trimmed \cup {i}
      /\ UNCHANGED <<roles, tables, columns, runs, born, ancient, shared, crashes, writer>>
  BY DEF Store!DeleteEvents
<1>3. i \in born /\ i \in Ids
  BY <1>1, <1>2 DEF Sound, WorkIsOnRuns, DeletingPcs, DatabaseTypes
<1>4. r \in ProcType /\ r.pc = "delete row" /\ r.id = i
  BY <1>1 DEF ProcType, Store!Pcs
<1> HIDE DEF r, i
<1>5. /\ proc'[p] = r /\ \A q \in Processes : q # p => proc'[q] = proc[q]
      /\ proc' \in [Processes -> ProcType]
  BY <1>1, <1>2, <1>4, OneMoves DEF DatabaseTypes
<1>6. Store!Stored' = Store!Stored /\ Store!Stored \subseteq Ids
  BY <1>2 DEF Store!Stored
<1>7. /\ events' \in [Ids -> SUBSET Store!Offsets] /\ events'[i] = {}
      /\ \A j \in Ids : j # i => events'[j] = events[j]
  BY <1>1, <1>2, <1>3 DEF DatabaseTypes
<1>8. DatabaseTypes'
  BY <1>1, <1>2, <1>3, <1>5, <1>6, <1>7 DEF DatabaseTypes
<1>9. HuntersAreAlone'
  BY <1>1, <1>2, <1>4, <1>5, StaysAlone DEF HuntingPcs
<1>10. Sound(p)'
  BY <1>1, <1>2, <1>3, <1>4, <1>5 DEF Sound, WorkIsOnRuns, TransactionHasRow, PriorIsCurrent,
     MemoryIsAPrefix, MemoryIsTheRow, TablesAreThere, HuntingPcs, DeletingPcs, MigratingPcs
<1>11. ASSUME NEW q \in Processes, q # p PROVE Sound(q)'
  <2>1. Sound(q) /\ proc'[q] = proc[q] /\ tables' \subseteq Store!Tables
          /\ columns' \subseteq Store!AllColumns
    BY <1>1, <1>2, <1>5, <1>11 DEF DatabaseTypes
  <2>2. proc[q].pc = "commit" => writer' = writer /\ proc[q].id \in Store!Stored'
    BY <1>2, <1>6, <2>1 DEF Sound, TransactionHasRow
  <2>3. \A j \in born \cap Store!Stored' :
           runs'[j].legacy = runs[j].legacy
             /\ (j \notin trimmed' => events[j] \subseteq events'[j])
    BY <1>2, <1>6, <1>7
  <2> QED
    BY <1>2, <1>6, <2>1, <2>2, <2>3, OthersStaySound
<1>12. RowsAreSound'
  <2>1. NoRowNoEvents' /\ Store!NamesAreUnique' /\ Store!ProgressIsAPrefix'
    BY <1>1, <1>2, <1>6, <1>7 DEF RowsAreSound, NoRowNoEvents, Store!NamesAreUnique,
                                  Store!ProgressIsAPrefix
  <2>2. TablesAreMade' /\ RowsAreMigrated' /\ Store!DetailsBelongToBest'
    BY <1>1, <1>2, <1>6 DEF RowsAreSound, TablesAreMade, RowsAreMigrated,
                            Store!DetailsBelongToBest
  <2>3. Store!HistoryIsExact'
    BY <1>1, <1>2, <1>6, <1>7 DEF RowsAreSound, Store!HistoryIsExact
  <2> QED
    BY <2>1, <2>2, <2>3 DEF RowsAreSound
<1> QED
  BY <1>8, <1>9, <1>10, <1>11, <1>12 DEF StoreInv, ProcessesAreSound

\* The row goes with the events written meanwhile, while no transaction is open.
LEMMA DeleteRowIsSound ==
    ASSUME Store!StoreConstants, StoreInv, NEW p \in Processes, Store!DeleteRow(p)
    PROVE  StoreInv'
<1> DEFINE i == proc[p].id
<1>1. /\ DatabaseTypes /\ HuntersAreAlone /\ Sound(p) /\ RowsAreSound
      /\ \A q \in Processes : Sound(q)
  BY DEF StoreInv, ProcessesAreSound
<1>2. /\ proc[p].pc = "delete row" /\ writer = None /\ Store!Becomes(p, Store!Idle)
      /\ runs' = [runs EXCEPT ![i] = Store!Absent] /\ events' = [events EXCEPT ![i] = {}]
      /\ UNCHANGED <<roles, tables, columns, born, ancient, trimmed, shared, crashes, writer>>
  BY DEF Store!DeleteRow, Store!HistoryKeeps
<1>3. i \in Ids
  BY <1>1, <1>2 DEF Sound, WorkIsOnRuns, DeletingPcs, DatabaseTypes
<1> HIDE DEF i
<1>4. Store!Idle \in ProcType /\ Store!Idle.pc = "idle"
  BY ClosedTyped
<1>5. /\ proc'[p] = Store!Idle /\ \A q \in Processes : q # p => proc'[q] = proc[q]
      /\ proc' \in [Processes -> ProcType]
  BY <1>1, <1>2, <1>4, OneMoves DEF DatabaseTypes
<1>6. /\ runs' \in [Ids -> Store!Row \cup {Store!Absent}]
           /\ events' \in [Ids -> SUBSET Store!Offsets]
      /\ runs'[i] = Store!Absent /\ events'[i] = {}
      /\ \A j \in Ids : j # i => runs'[j] = runs[j] /\ events'[j] = events[j]
  BY <1>1, <1>2, <1>3 DEF DatabaseTypes
<1>7. Store!Stored' = Store!Stored \ {i} /\ Store!Stored' \subseteq Ids
  BY <1>6 DEF Store!Stored
<1>8. DatabaseTypes'
  BY <1>1, <1>2, <1>5, <1>6, <1>7 DEF DatabaseTypes
<1>9. HuntersAreAlone'
  BY <1>1, <1>2, <1>4, <1>5, StaysAlone DEF HuntingPcs
<1>10. Sound(p)'
  BY <1>1, <1>2, <1>4, <1>5 DEF Sound, WorkIsOnRuns, TransactionHasRow, PriorIsCurrent,
     MemoryIsAPrefix, MemoryIsTheRow, TablesAreThere, HuntingPcs, DeletingPcs, MigratingPcs
<1>11. ASSUME NEW q \in Processes, q # p PROVE Sound(q)'
  <2>1. Sound(q) /\ proc'[q] = proc[q] /\ tables' \subseteq Store!Tables
          /\ columns' \subseteq Store!AllColumns
    BY <1>1, <1>2, <1>5, <1>11 DEF DatabaseTypes
  <2>2. proc[q].pc # "commit"
    BY <1>2, <2>1 DEF Sound, TransactionHasRow, Store!StoreConstants
  <2>3. \A j \in born \cap Store!Stored' :
           runs'[j].legacy = runs[j].legacy
             /\ (j \notin trimmed' => events[j] \subseteq events'[j])
    BY <1>6, <1>7
  <2>4. proc[q].pc \in HuntingPcs /\ proc[q].id \in (born \cap Store!Stored') \ shared' =>
           runs'[proc[q].id].best = runs[proc[q].id].best
    BY <1>6, <1>7
  <2> QED
    BY <1>2, <1>7, <2>1, <2>2, <2>3, <2>4, OthersStaySound
<1>12. RowsAreSound'
  <2>1. NoRowNoEvents' /\ Store!NamesAreUnique' /\ Store!ProgressIsAPrefix'
    <3>1. NoRowNoEvents'
      BY <1>1, <1>6, <1>7 DEF RowsAreSound, NoRowNoEvents
    <3>2. Store!NamesAreUnique'
      <4> SUFFICES ASSUME NEW j \in Store!Stored', NEW k \in Store!Stored',
                          runs'[j].name = runs'[k].name
                   PROVE  j = k
        BY DEF Store!NamesAreUnique
      <4>1. j \in Store!Stored /\ k \in Store!Stored /\ runs'[j] = runs[j] /\ runs'[k] = runs[k]
        BY <1>6, <1>7
      <4> QED
        BY <1>1, <4>1 DEF RowsAreSound, Store!NamesAreUnique
    <3>3. Store!ProgressIsAPrefix'
      BY <1>1, <1>6, <1>7 DEF RowsAreSound, Store!ProgressIsAPrefix
    <3> QED
      BY <3>1, <3>2, <3>3
  <2>2. TablesAreMade' /\ RowsAreMigrated' /\ Store!DetailsBelongToBest'
    BY <1>1, <1>2, <1>6, <1>7 DEF RowsAreSound, TablesAreMade, RowsAreMigrated,
                                  Store!DetailsBelongToBest
  <2>3. Store!HistoryIsExact'
    BY <1>1, <1>2, <1>6, <1>7 DEF RowsAreSound, Store!HistoryIsExact
  <2> QED
    BY <2>1, <2>2, <2>3 DEF RowsAreSound
<1> QED
  BY <1>8, <1>9, <1>10, <1>11, <1>12 DEF StoreInv, ProcessesAreSound

\* A new run has an identifier that was never given out.
LEMMA CreateIsSound ==
    ASSUME Store!StoreConstants, StoreInv, NEW p \in Processes, Store!CreateRun(p)
    PROVE  StoreInv'
<1>1. /\ DatabaseTypes /\ HuntersAreAlone /\ RowsAreSound /\ \A q \in Processes : Sound(q)
  BY DEF StoreInv, ProcessesAreSound
<1>2. PICK i \in Ids \ born, n \in Names :
         /\ \A j \in Store!Stored : runs[j].name # n
         /\ runs' = [runs EXCEPT ![i] = Store!NewRow(n, "emergence", FALSE)]
         /\ born' = born \cup {i}
  BY DEF Store!CreateRun
<1>3. proc[p].pc = "idle"
      /\ UNCHANGED <<roles, tables, columns, events, writer, proc, crashes, ancient, shared,
           trimmed>>
  BY DEF Store!CreateRun
<1> DEFINE new == Store!NewRow(n, "emergence", FALSE)
<1>4. /\ new \in Store!Row /\ new.name = n /\ new.mode = "emergence" /\ new.canvas = "set"
      /\ new.offset = 0 /\ new.best = None /\ new.details = None
  BY NewRowIsRow
<1> HIDE DEF new
<1>5. /\ runs' \in [Ids -> Store!Row \cup {Store!Absent}] /\ runs'[i] = new
      /\ \A j \in Ids : j # i => runs'[j] = runs[j]
  BY <1>1, <1>2, <1>4 DEF DatabaseTypes, new
<1>6. Store!Stored' = Store!Stored \cup {i} /\ Store!Stored' \subseteq Ids
        /\ i \notin Store!Stored /\ Store!Stored \subseteq born
  <2>1. new # Store!Absent /\ Store!Stored \subseteq born
    BY <1>1, <1>4, RowFields DEF DatabaseTypes
  <2> QED
    BY <1>2, <1>5, <2>1 DEF Store!Stored
<1>7. DatabaseTypes'
  BY <1>1, <1>2, <1>3, <1>5, <1>6 DEF DatabaseTypes
<1>8. HuntersAreAlone'
  BY <1>1, <1>3 DEF HuntersAreAlone
<1>9. columns = Store!AllColumns
  BY <1>1, <1>3 DEF Sound, TablesAreThere, MigratingPcs
<1>10. ASSUME NEW q \in Processes PROVE Sound(q)'
  <2>1. Sound(q) /\ proc'[q] = proc[q] /\ tables' \subseteq Store!Tables
          /\ columns' \subseteq Store!AllColumns
    BY <1>1, <1>3 DEF DatabaseTypes
  <2>2. proc[q].pc = "commit" => writer' = writer /\ proc[q].id \in Store!Stored'
    BY <1>3, <1>6, <2>1 DEF Sound, TransactionHasRow
  <2>3. \A j \in born \cap Store!Stored' :
           /\ runs'[j].legacy = runs[j].legacy
                /\ (j \notin trimmed' => events[j] \subseteq events'[j])
           /\ runs'[j].best = runs[j].best
    BY <1>2, <1>3, <1>5, <1>6
  <2>4. born \cap Store!Stored' \subseteq Store!Stored /\ born \subseteq born'
    BY <1>2, <1>6
  <2> QED
    BY <1>3, <2>1, <2>2, <2>3, <2>4, OthersStaySound
<1>11. RowsAreSound'
  <2>1. NoRowNoEvents'
    BY <1>1, <1>3, <1>6 DEF RowsAreSound, NoRowNoEvents
  <2>2. Store!NamesAreUnique'
    <3> SUFFICES ASSUME NEW j \in Store!Stored', NEW k \in Store!Stored',
                        runs'[j].name = runs'[k].name
                 PROVE  j = k
      BY DEF Store!NamesAreUnique
    <3>1. \A l \in Store!Stored : l # i /\ l \in Ids /\ runs'[l] = runs[l] /\ runs'[l].name # n
      BY <1>2, <1>5, <1>6
    <3>2. runs'[i].name = n
      BY <1>4, <1>5
    <3>3. CASE j \in Store!Stored /\ k \in Store!Stored
      BY <1>1, <3>1, <3>3 DEF RowsAreSound, Store!NamesAreUnique
    <3> QED
      BY <1>6, <3>1, <3>2, <3>3
  <2>3. Store!ProgressIsAPrefix'
    BY <1>1, <1>4, <1>5, <1>6, ScanBegins DEF RowsAreSound, Store!ProgressIsAPrefix
  <2>4. TablesAreMade'
    BY <1>1, <1>3 DEF RowsAreSound, TablesAreMade
  <2>5. RowsAreMigrated'
    <3>1. i \notin ancient
      BY <1>1, <1>2 DEF DatabaseTypes
    <3> QED
      BY <1>1, <1>3, <1>4, <1>5, <1>6, <1>9, <3>1 DEF RowsAreSound, RowsAreMigrated
  <2>6. Store!DetailsBelongToBest'
    BY <1>1, <1>3, <1>4, <1>5, <1>6 DEF RowsAreSound, Store!DetailsBelongToBest
  <2>7. Store!HistoryIsExact'
    <3>1. \A o \in Store!Records : ~(o < 0)
      BY DEF Store!Records, Store!Offsets, Store!StoreConstants
    <3>2. events[i] = {}
      BY <1>1, <1>6 DEF RowsAreSound, NoRowNoEvents
    <3> QED
      BY <1>1, <1>3, <1>4, <1>5, <1>6, <3>1, <3>2 DEF RowsAreSound, Store!HistoryIsExact
  <2> QED
    BY <2>1, <2>2, <2>3, <2>4, <2>5, <2>6, <2>7 DEF RowsAreSound
<1> QED
  BY <1>7, <1>8, <1>10, <1>11 DEF StoreInv, ProcessesAreSound

\* A column that is missing is added with its default, by whoever comes first.
LEMMA DefaultedRow ==
    ASSUME Store!StoreConstants, NEW row \in Store!Row, NEW c \in Store!AllColumns
    PROVE  LET new == Store!Defaulted(row, c)
           IN  /\ new \in Store!Row
               /\ new.name = row.name /\ new.offset = row.offset /\ new.best = row.best
               /\ new.details = row.details /\ new.params = row.params /\ new.legacy = row.legacy
               /\ new.mode = IF c = "match_mode" THEN "threshold" ELSE row.mode
               /\ new.canvas = IF c = "canvas_width" THEN "zero" ELSE row.canvas
<1>1. CASE c = "match_mode"
  BY <1>1 DEF Store!Defaulted, Store!Row
<1>2. CASE c = "canvas_width"
  BY <1>2 DEF Store!Defaulted, Store!Row
<1>3. CASE c \notin {"match_mode", "canvas_width"}
  BY <1>3 DEF Store!Defaulted
<1> QED
  BY <1>1, <1>2, <1>3

\* ALTER TABLE gives the rows that are there, all of an earlier version, the
\* default of the column.
LEMMA AddColumnIsSound ==
    ASSUME Store!StoreConstants, StoreInv, NEW p \in Processes, Store!AddColumn(p)
    PROVE  StoreInv'
<1> DEFINE c == Store!ColumnsAdded[proc[p].at]
           r == [proc[p] EXCEPT !.pc = "check"]
<1>1. /\ DatabaseTypes /\ HuntersAreAlone /\ Sound(p) /\ RowsAreSound /\ proc[p] \in ProcType
      /\ \A q \in Processes : Sound(q)
  BY DEF StoreInv, ProcessesAreSound, DatabaseTypes
<1>2. c \in Store!AllColumns
  BY <1>1 DEF Store!AllColumns, ProcType
<1>3. proc[p].pc = "alter"
      /\ UNCHANGED <<roles, tables, events, writer, crashes, born, ancient, shared, trimmed>>
  BY DEF Store!AddColumn, Store!HistoryKeeps
<1>4. CASE c \in columns
  <2>1. Store!Becomes(p, Store!Closed) /\ UNCHANGED <<columns, runs>>
    BY <1>4 DEF Store!AddColumn
  <2>2. Store!StoreKeeps /\ Store!HistoryKeeps
    BY <1>3, <2>1 DEF Store!StoreKeeps, Store!HistoryKeeps
  <2> QED
    BY <1>3, <2>1, <2>2, EndIsSound
<1>5. CASE c \notin columns
  <2>1. /\ columns' = columns \cup {c} /\ Store!Becomes(p, r)
        /\ runs' = [i \in Ids |-> IF i \in Store!Stored THEN Store!Defaulted(runs[i], c)
             ELSE runs[i]]
    BY <1>5 DEF Store!AddColumn
  <2>2. r \in ProcType /\ r.pc = "check"
    BY <1>1 DEF ProcType, Store!Pcs
  <2> HIDE DEF c, r
  <2>3. /\ proc'[p] = r /\ \A q \in Processes : q # p => proc'[q] = proc[q]
        /\ proc' \in [Processes -> ProcType]
    BY <1>1, <2>1, <2>2, OneMoves DEF DatabaseTypes
  <2>4. \A i \in Ids : i \in Store!Stored <=> runs[i] \in Store!Row
    BY <1>1, StoredRows DEF DatabaseTypes
  <2>5. Store!Stored \subseteq Ids
    BY DEF Store!Stored
  <2>6. ASSUME NEW i \in Store!Stored
        PROVE  /\ runs'[i] \in Store!Row
               /\ runs'[i].name = runs[i].name /\ runs'[i].offset = runs[i].offset
               /\ runs'[i].best = runs[i].best /\ runs'[i].details = runs[i].details
               /\ runs'[i].legacy = runs[i].legacy
               /\ runs'[i].mode = IF c = "match_mode" THEN "threshold" ELSE runs[i].mode
               /\ runs'[i].canvas = IF c = "canvas_width" THEN "zero" ELSE runs[i].canvas
    <3>1. runs'[i] = Store!Defaulted(runs[i], c) /\ runs[i] \in Store!Row
      BY <2>1, <2>4, <2>5, <2>6
    <3> QED
      BY <1>2, <3>1, DefaultedRow
  <2>7. runs' \in [Ids -> Store!Row \cup {Store!Absent}] /\ Store!Stored' = Store!Stored
    <3>1. \A i \in Ids \ Store!Stored : runs'[i] = Store!Absent
      BY <2>1 DEF Store!Stored
    <3>2. \A i \in Ids : runs'[i] \in Store!Row \cup {Store!Absent}
      BY <2>6, <3>1
    <3>3. runs' \in [Ids -> Store!Row \cup {Store!Absent}]
      BY <2>1, <3>2
    <3> QED
      BY <2>5, <2>6, <3>1, <3>3, StoredRowsNext
  <2>8. DatabaseTypes'
    BY <1>1, <1>2, <1>3, <2>1, <2>3, <2>7 DEF DatabaseTypes
  <2>9. HuntersAreAlone'
    BY <1>1, <1>3, <2>2, <2>3, StaysAlone DEF HuntingPcs
  <2>10. Sound(p)'
    BY <1>1, <1>3, <2>2, <2>3 DEF Sound, WorkIsOnRuns, TransactionHasRow, PriorIsCurrent,
       MemoryIsAPrefix, MemoryIsTheRow, TablesAreThere, HuntingPcs, DeletingPcs, MigratingPcs
  <2>11. ASSUME NEW q \in Processes, q # p PROVE Sound(q)'
    <3>1. /\ Sound(q) /\ proc'[q] = proc[q] /\ tables' \subseteq Store!Tables
          /\ columns \subseteq columns' /\ columns' \subseteq Store!AllColumns
      BY <1>1, <1>2, <1>3, <2>1, <2>3, <2>11 DEF DatabaseTypes
    <3>2. proc[q].pc = "commit" => writer' = writer /\ proc[q].id \in Store!Stored'
      BY <1>3, <2>7, <3>1 DEF Sound, TransactionHasRow
    <3>3. \A j \in born \cap Store!Stored' :
             /\ runs'[j].legacy = runs[j].legacy
                  /\ (j \notin trimmed' => events[j] \subseteq events'[j])
             /\ runs'[j].best = runs[j].best
      BY <1>3, <2>6, <2>7
    <3> QED
      BY <1>3, <2>7, <3>1, <3>2, <3>3, OthersStaySound
  <2>12. RowsAreSound'
    <3>1. NoRowNoEvents'
      BY <1>1, <1>3, <2>7 DEF RowsAreSound, NoRowNoEvents
    <3>2. Store!NamesAreUnique'
      BY <1>1, <2>6, <2>7 DEF RowsAreSound, Store!NamesAreUnique
    <3>3. Store!ProgressIsAPrefix'
      BY <1>1, <2>6, <2>7 DEF RowsAreSound, Store!ProgressIsAPrefix
    <3>4. TablesAreMade'
      BY <1>1, <1>3, <2>1 DEF RowsAreSound, TablesAreMade
    <3>5. Store!DetailsBelongToBest'
      BY <1>1, <1>3, <2>6, <2>7 DEF RowsAreSound, Store!DetailsBelongToBest
    <3>6. Store!HistoryIsExact'
      BY <1>1, <1>3, <2>6, <2>7 DEF RowsAreSound, Store!HistoryIsExact
    <3>7. \A i \in Store!Stored : i \in ancient
      <4>1. tables = Store!Tables
        BY <1>1, <1>3 DEF Sound, TablesAreThere
      <4>2. roles.age = "none" => Store!AllColumns \subseteq columns
        BY <1>1, <4>1, ColumnsThere DEF RowsAreSound, TablesAreMade, Store!Tables
      <4>3. columns # Store!AllColumns /\ roles.age # "none"
        BY <1>2, <1>5, <4>2
      <4> QED
        BY <1>1, <4>3 DEF RowsAreSound, RowsAreMigrated
    <3>8. RowsAreMigrated'
      BY <1>1, <1>3, <1>5, <2>1, <2>6, <2>7, <3>7 DEF RowsAreSound, RowsAreMigrated
    <3> QED
      BY <3>1, <3>2, <3>3, <3>4, <3>5, <3>6, <3>8 DEF RowsAreSound
  <2> QED
    BY <2>8, <2>9, <2>10, <2>11, <2>12 DEF StoreInv, ProcessesAreSound
<1> QED
  BY <1>4, <1>5

\* A table that is not there yet is made with all its columns.
LEMMA CreateTablesIsSound ==
    ASSUME Store!StoreConstants, StoreInv, NEW p \in Processes, Store!CreateTables(p)
    PROVE  StoreInv'
<1>1. /\ DatabaseTypes /\ HuntersAreAlone /\ Sound(p) /\ RowsAreSound
      /\ \A q \in Processes : Sound(q)
  BY DEF StoreInv, ProcessesAreSound
<1>2. PICK t \in Store!Tables :
         /\ proc[p].pc = (IF t = "runs" THEN "closed" ELSE "events table")
         /\ tables' = tables \cup {t}
         /\ columns' = IF t \in tables THEN columns ELSE columns \cup Store!ColumnsOf(t)
         /\ Store!Becomes(p, [Store!Closed EXCEPT !.pc = IF t = "runs" THEN "events table"
              ELSE "check"])
  BY DEF Store!CreateTables
<1>3. UNCHANGED <<runs, events, writer, roles, crashes, born, ancient, shared, trimmed>>
  BY DEF Store!CreateTables, Store!HistoryKeeps
<1> DEFINE place == IF t = "runs" THEN "events table" ELSE "check"
           r == [Store!Closed EXCEPT !.pc = place]
<1>4. r \in ProcType /\ r.pc = place
  BY ClosedTyped DEF ProcType, Store!Pcs
<1> HIDE DEF r
<1>5. /\ proc'[p] = r /\ \A q \in Processes : q # p => proc'[q] = proc[q]
      /\ proc' \in [Processes -> ProcType]
  BY <1>1, <1>2, <1>4, OneMoves DEF DatabaseTypes, r
<1>6. Store!Stored' = Store!Stored
  BY <1>3 DEF Store!Stored
<1>7. columns \subseteq columns' /\ columns' \subseteq Store!AllColumns
        /\ tables' \subseteq Store!Tables
  BY <1>1, <1>2 DEF DatabaseTypes, Store!ColumnsOf
<1>8. DatabaseTypes'
  BY <1>1, <1>3, <1>5, <1>6, <1>7 DEF DatabaseTypes
<1>9. HuntersAreAlone'
  BY <1>1, <1>3, <1>4, <1>5, StaysAlone DEF HuntingPcs
<1>10. Sound(p)'
  <2>1. IF t = "runs" THEN proc'[p].pc = "events table" ELSE proc'[p].pc = "check"
    BY <1>4, <1>5
  <2>2. TablesAreThere(p)'
    <3>1. CASE t = "runs"
      BY <1>2, <2>1, <3>1 DEF TablesAreThere, MigratingPcs
    <3>2. CASE t # "runs"
      <4>1. t = "best_events" /\ "runs" \in tables
        BY <1>1, <1>2, <3>2 DEF Store!Tables, Sound, TablesAreThere
      <4>2. tables' = Store!Tables
        BY <1>2, <1>7, <4>1 DEF Store!Tables
      <4> QED
        BY <2>1, <3>2, <4>2 DEF TablesAreThere, MigratingPcs
    <3> QED
      BY <3>1, <3>2
  <2> QED
    BY <2>1, <2>2 DEF Sound, WorkIsOnRuns, TransactionHasRow, PriorIsCurrent,
       MemoryIsAPrefix, MemoryIsTheRow, HuntingPcs, DeletingPcs
<1>11. ASSUME NEW q \in Processes, q # p PROVE Sound(q)'
  <2>1. Sound(q) /\ proc'[q] = proc[q] /\ tables \subseteq tables'
    BY <1>1, <1>2, <1>5, <1>11
  <2>2. proc[q].pc = "commit" => writer' = writer /\ proc[q].id \in Store!Stored'
    BY <1>3, <1>6, <2>1 DEF Sound, TransactionHasRow
  <2> QED
    BY <1>3, <1>6, <1>7, <2>1, <2>2, OthersStaySound
<1>12. RowsAreSound'
  <2>1. NoRowNoEvents' /\ Store!NamesAreUnique' /\ Store!ProgressIsAPrefix'
    BY <1>1, <1>3, <1>6 DEF RowsAreSound, NoRowNoEvents, Store!NamesAreUnique,
                            Store!ProgressIsAPrefix
  <2>2. Store!HistoryIsExact' /\ Store!DetailsBelongToBest'
    BY <1>1, <1>3, <1>6 DEF RowsAreSound, Store!HistoryIsExact, Store!DetailsBelongToBest
  <2>3. t \notin tables => roles.age = "none"
    BY <1>1 DEF RowsAreSound, TablesAreMade
  <2>4. TablesAreMade'
    BY <1>1, <1>2, <1>3, <1>7, <2>3 DEF RowsAreSound, TablesAreMade, DatabaseTypes
  <2>5. RowsAreMigrated'
    <3>1. t \notin tables => ancient = {}
      BY <1>1, <2>3 DEF RowsAreSound, TablesAreMade
    <3> QED
      BY <1>1, <1>2, <1>3, <1>6, <2>3, <3>1 DEF RowsAreSound, RowsAreMigrated
  <2> QED
    BY <2>1, <2>2, <2>4, <2>5 DEF RowsAreSound
<1> QED
  BY <1>8, <1>9, <1>10, <1>11, <1>12 DEF StoreInv, ProcessesAreSound

-----------------------------------------------------------------------------
\* The invariant is kept by every step of every process.
LEMMA StoreStep ==
    ASSUME Store!StoreConstants, StoreInv, [Store!Next]_(Store!vars)
    PROVE  StoreInv'
<1>1. CASE UNCHANGED Store!vars
  <2>1. UNCHANGED databaseVars /\ Store!Stored' = Store!Stored
    BY <1>1 DEF Store!vars, databaseVars, Store!Stored
  <2>2. DatabaseTypes'
    BY <2>1 DEF databaseVars, StoreInv, DatabaseTypes
  <2>3. ASSUME NEW p \in Processes PROVE Sound(p)'
    <3>1. Sound(p)
      BY DEF StoreInv, ProcessesAreSound
    <3>2. WorkIsOnRuns(p)' /\ TransactionHasRow(p)' /\ PriorIsCurrent(p)'
      BY <2>1, <3>1 DEF databaseVars, Sound, WorkIsOnRuns, TransactionHasRow, PriorIsCurrent
    <3>3. MemoryIsAPrefix(p)' /\ MemoryIsTheRow(p)' /\ TablesAreThere(p)'
      BY <2>1, <3>1 DEF databaseVars, Sound, MemoryIsAPrefix, MemoryIsTheRow, TablesAreThere
    <3> QED
      BY <3>2, <3>3 DEF Sound
  <2>4. HuntersAreAlone'
    BY <2>1 DEF databaseVars, StoreInv, HuntersAreAlone
  <2>5. NoRowNoEvents' /\ TablesAreMade' /\ RowsAreMigrated'
    BY <2>1 DEF databaseVars, StoreInv, RowsAreSound, NoRowNoEvents, TablesAreMade,
                RowsAreMigrated
  <2>6. /\ Store!ProgressIsAPrefix' /\ Store!HistoryIsExact' /\ Store!NamesAreUnique'
        /\ Store!DetailsBelongToBest'
    BY <2>1 DEF databaseVars, StoreInv, RowsAreSound, Store!ProgressIsAPrefix,
                Store!HistoryIsExact, Store!NamesAreUnique, Store!DetailsBelongToBest
  <2> QED
    BY <2>2, <2>3, <2>4, <2>5, <2>6 DEF StoreInv, ProcessesAreSound, RowsAreSound
<1>2. CASE Store!Next
  <2>1. PICK p \in Processes :
            Store!Migrate(p) \/ Store!CreateRun(p) \/ Store!Hunt(p) \/ Store!Delete(p)
              \/ Store!Crash(p)
    BY <1>2 DEF Store!Next
  <2>2. CASE Store!Migrate(p)
    BY <2>2, CreateTablesIsSound, CheckIsSound, AddColumnIsSound DEF Store!Migrate
  <2>3. CASE Store!CreateRun(p)
    BY <2>3, CreateIsSound
  <2>4. CASE Store!Hunt(p)
    BY <2>4, ResolveIsSound, CheckpointIsSound, RowWriters, ScanIsSound, EventIsSound,
       EndIsSound DEF Store!Hunt
  <2>5. CASE Store!Delete(p)
    BY <2>5, ResolveIsSound, DeleteEventsIsSound, DeleteRowIsSound DEF Store!Delete
  <2>6. CASE Store!Crash(p)
    BY <2>6, EndIsSound
  <2> QED
    BY <2>1, <2>2, <2>3, <2>4, <2>5, <2>6
<1> QED
  BY <1>1, <1>2

\* What the invariant says of the database.
LEMMA SoundStore ==
    ASSUME Store!StoreConstants, StoreInv
    PROVE  Store!StoreInvariant
<1>1. DatabaseTypes /\ RowsAreSound /\ \A p \in Processes : Sound(p)
  BY DEF StoreInv, ProcessesAreSound
<1>2. Store!TypeOK
  BY <1>1 DEF DatabaseTypes, Store!TypeOK, ProcType
<1>3. Store!EventsHaveRuns
  BY <1>1 DEF RowsAreSound, NoRowNoEvents, Store!EventsHaveRuns
<1>4. Store!MigrationIsComplete
  <2> SUFFICES ASSUME NEW p \in Processes,
                      proc[p].pc \notin {"closed", "events table", "check", "alter"}
               PROVE  /\ columns = Store!AllColumns
                      /\ \A i \in Store!Stored :
                            LET run == Store!RowToRun(runs[i])
                            IN <<run.mode, run.canvas>> =
                                  IF i \in ancient THEN <<"threshold", "as target">>
                                  ELSE <<"emergence", "set">>
    BY DEF Store!MigrationIsComplete
  <2>1. columns = Store!AllColumns
    BY <1>1 DEF Sound, TablesAreThere, MigratingPcs
  <2>2. ASSUME NEW i \in Store!Stored
        PROVE  <<Store!RowToRun(runs[i]).mode, Store!RowToRun(runs[i]).canvas>> =
                  IF i \in ancient THEN <<"threshold", "as target">> ELSE <<"emergence", "set">>
    <3>1. runs[i] \in Store!Row
      BY <1>1, <2>2, StoredRows DEF DatabaseTypes
    <3>2. /\ Store!RowToRun(runs[i]).mode = runs[i].mode
          /\ Store!RowToRun(runs[i]).canvas = IF runs[i].canvas = "zero" THEN "as target"
               ELSE runs[i].canvas
      BY <3>1, RowFields
    <3>3. "match_mode" \in columns /\ "canvas_width" \in columns
      BY <2>1, ColumnsThere
    <3>4. IF i \in ancient THEN runs[i].mode = "threshold" /\ runs[i].canvas = "zero"
          ELSE runs[i].mode = "emergence" /\ runs[i].canvas = "set"
      BY <1>1, <3>3 DEF RowsAreSound, RowsAreMigrated
    <3> QED
      BY <3>2, <3>4
  <2> QED
    BY <2>1, <2>2
<1> QED
  BY <1>1, <1>2, <1>3, <1>4 DEF RowsAreSound, Store!StoreInvariant

\* No statement of any process harms a row that others work on.
LEMMA StoreStepIsSafe ==
    ASSUME Store!StoreConstants, StoreInv, Store!Next
    PROVE  Store!StatementIsSafe
<1>1. DatabaseTypes /\ RowsAreSound /\ \A p \in Processes : Sound(p)
  BY DEF StoreInv, ProcessesAreSound
<1>2. Store!Stored \subseteq Ids /\ \A i \in Store!Stored : runs[i] \in Store!Row
        /\ runs[i] # Store!Absent
  BY <1>1, StoredRows, RowFields DEF DatabaseTypes
<1>3. PICK p \in Processes :
          Store!Migrate(p) \/ Store!CreateRun(p) \/ Store!Hunt(p) \/ Store!Delete(p)
            \/ Store!Crash(p)
  BY DEF Store!Next
<1> DEFINE Harmless ==
       /\ columns \subseteq columns'
       /\ \A i \in Store!Stored : /\ runs'[i] # Store!Absent /\ runs'[i].legacy = runs[i].legacy
                                  /\ runs'[i].params = runs[i].params
                                     \/ runs'[i].params = runs'[i].offset
<1>4. Harmless => Store!StatementIsSafe
  BY DEF Store!StatementIsSafe, Store!CheckpointIsAtomic, Store!DeletesWhatWasResolved,
         Store!NothingIsForgotten
<1>5. ASSUME UNCHANGED <<columns, runs>> PROVE Harmless
  BY <1>2, <1>5
<1>6. CASE Store!CreateTables(p)
  <2>1. runs' = runs /\ columns \subseteq columns'
    BY <1>6 DEF Store!CreateTables
  <2> QED
    BY <1>2, <1>4, <2>1
<1>7. CASE Store!AddColumn(p)
  <2>1. CASE UNCHANGED runs
    <3>1. columns \subseteq columns'
      BY <1>7 DEF Store!AddColumn
    <3> QED
      BY <1>2, <1>4, <2>1, <3>1
  <2>2. CASE runs' # runs
    <3> DEFINE c == Store!ColumnsAdded[proc[p].at]
    <3>1. /\ columns' = columns \cup {c}
          /\ runs' = [i \in Ids |-> IF i \in Store!Stored THEN Store!Defaulted(runs[i], c)
               ELSE runs[i]]
      BY <1>7, <2>2 DEF Store!AddColumn
    <3>2. c \in Store!AllColumns
      BY <1>1 DEF Store!AllColumns, ProcType, DatabaseTypes
    <3> HIDE DEF c
    <3>3. \A i \in Store!Stored : /\ runs'[i] # Store!Absent /\ runs'[i].legacy = runs[i].legacy
                                  /\ runs'[i].params = runs[i].params
      BY <1>2, <3>1, <3>2, DefaultedRow, RowFields
    <3> QED
      BY <1>4, <3>1, <3>3, SMTT(40)
  <2> QED
    BY <2>1, <2>2
<1>8. CASE Store!CreateRun(p)
  <2>1. PICK i \in Ids \ born, n \in Names : runs' = [runs EXCEPT ![i] = Store!NewRow(n,
               "emergence", FALSE)]
    BY <1>8 DEF Store!CreateRun
  <2>2. columns' = columns /\ \A j \in Store!Stored : runs'[j] = runs[j]
    BY <1>1, <1>2, <1>8, <2>1 DEF Store!CreateRun, DatabaseTypes
  <2> QED
    BY <1>2, <1>4, <2>2
<1>9. CASE Store!Commit(p)
  <2>1. RowIsWritten(p) /\ runs'[proc[p].id].params = runs'[proc[p].id].offset
    BY <1>9, CommitWrites
  <2>2. columns' = columns
    BY <1>9 DEF Store!Commit
  <2>3. \A i \in Store!Stored : runs'[i] # Store!Absent
    BY <2>1 DEF RowIsWritten, Store!Stored
  <2>4. \A i \in Store!Stored : runs'[i].legacy = runs[i].legacy
                          /\ (i # proc[p].id => runs'[i].params = runs[i].params)
    BY <1>2, <2>1 DEF RowIsWritten
  <2> QED
    BY <1>4, <2>1, <2>2, <2>3, <2>4
<1>10. CASE Store!Start(p) \/ Store!PersistBest(p) \/ Store!Finish(p)
  <2>1. Store!UpdateRun(proc[p].id, proc[p].run) /\ columns' = columns
        /\ proc[p].pc \in HuntingPcs
    BY <1>10 DEF Store!Start, Store!PersistBest, Store!Finish, HuntingPcs
  <2>2. proc[p].id \in Ids /\ proc[p].run \in Store!Row
    BY <1>1, <2>1 DEF Sound, WorkIsOnRuns, DatabaseTypes
  <2>3. RowIsWritten(p)
    BY <1>1, <2>1, <2>2, UpdateWrites DEF DatabaseTypes
  <2>4. \A i \in Store!Stored : runs'[i] # Store!Absent /\ runs'[i].legacy = runs[i].legacy
    BY <1>2, <2>3 DEF RowIsWritten, Store!Stored
  <2>5. \A i \in Store!Stored : runs'[i].params = runs[i].params
    <3> DEFINE o == proc[p].run.offset
               b == proc[p].run.best
               d == proc[p].run.details
    <3>1. CASE runs' = runs
      BY <3>1
    <3>2. CASE runs' = [runs EXCEPT ![proc[p].id].offset = o, ![proc[p].id].best = b,
                                    ![proc[p].id].details = d]
      <4> HIDE DEF o, b, d
      <4> QED
        BY <1>1, <1>2, <2>2, <3>2 DEF Store!Row, DatabaseTypes
    <3> QED
      BY <2>1, <3>1, <3>2 DEF Store!UpdateRun
  <2> QED
    BY <1>4, <2>1, <2>4, <2>5
<1>11. CASE Store!DeleteRow(p)
  <2> DEFINE i == proc[p].id
  <2>1. proc[p].pc = "delete row" /\ runs' = [runs EXCEPT ![i] = Store!Absent]
          /\ columns' = columns
    BY <1>11 DEF Store!DeleteRow
  <2>2. \A j \in Store!Stored : j # i => runs'[j] = runs[j]
    BY <1>1, <1>2, <2>1 DEF DatabaseTypes
  <2>3. i \in Store!Stored => runs'[i] = Store!Absent
    BY <1>1, <1>2, <2>1 DEF DatabaseTypes
  <2> HIDE DEF i
  <2>4. Store!CheckpointIsAtomic /\ Store!NothingIsForgotten
    BY <2>1, <2>2, <2>3 DEF Store!CheckpointIsAtomic, Store!NothingIsForgotten
  <2>5. Store!DeletesWhatWasResolved
    BY <1>2, <2>1, <2>2 DEF Store!DeletesWhatWasResolved, i
  <2> QED
    BY <2>4, <2>5 DEF Store!StatementIsSafe
<1>12. CASE Store!CheckColumn(p) \/ Store!Crash(p) \/ Store!Resume(p) \/ Store!ReadPrior(p)
              \/ Store!Begin(p) \/ Store!ScanOn(p)
            \/ Store!RecordEvent(p) \/ Store!RunGone(p) \/ Store!ResolveForDelete(p)
                 \/ Store!DeleteEvents(p)
  <2>1. UNCHANGED <<columns, runs>>
    BY <1>12 DEF Store!CheckColumn, Store!Crash, Store!Resume, Store!Resolve, Store!ReadPrior,
                 Store!Begin, Store!ScanOn, Store!RecordEvent,
       Store!RunGone, Store!ResolveForDelete, Store!DeleteEvents, Store!StoreKeeps
  <2> QED
    BY <1>4, <1>5, <2>1
<1> QED
  BY <1>3, <1>6, <1>7, <1>8, <1>9, <1>10, <1>11, <1>12 DEF Store!Migrate, Store!Hunt, Store!Delete

-----------------------------------------------------------------------------
(* The configuration file, for any sessions, texts and deaths.             *)

SessionType ==
    [pc : {"off", "edit", "write", "rename"}, config : Config!Configs, form : Config!Forms,
      theme : Themes,
     dirty : BOOLEAN, warned : BOOLEAN, fd : Inodes \cup {None}]
FilesTyped ==
    /\ path \in Inodes \cup {None} /\ temp \in Inodes \cup {None}
    /\ text \in [Inodes -> Config!Configs \cup {Config!Torn}]
    /\ session \in [Sessions -> SessionType]
    /\ \A s \in Sessions : session[s].pc = "write" => session[s].fd \in Inodes

\* A save never begins in the file that is there.
TempIsApart == temp # None => temp # path
\* A save that is alone has the temporary file for itself, empty until it is
\* written and complete from then on.
LoneSaveIsWhole ==
    ~overlapped =>
        /\ \A s, t \in Config!Saving : s = t
        /\ \A s \in Config!Saving : temp \in Inodes
        /\ \A s \in Sessions :
              /\ session[s].pc = "write" => session[s].fd = temp /\ text[temp] = Config!Torn
              /\ session[s].pc = "rename" => text[temp] # Config!Torn
ConfigInv ==
    /\ FilesTyped /\ TempIsApart /\ LoneSaveIsWhole
    /\ Config!PreviewFollowsForm /\ Config!CleanMeansSaved

\* A text that was torn is no configuration.
LEMMA TornIsNone == Config!ConfigConstants => Config!Torn \notin Config!Configs
<1> SUFFICES ASSUME Config!ConfigConstants, Config!Torn \in Config!Configs PROVE FALSE
  OBVIOUS
<1>1. Config!Torn.theme \in Themes /\ Config!Torn.theme = None
  BY DEF Config!Torn, Config!Configs
<1> QED
  BY <1>1 DEF Config!ConfigConstants

\* What a form stands for is a configuration; once it is taken over it stands
\* for itself.
LEMMA ApplyForm ==
    ASSUME Config!ConfigConstants, NEW typed \in Config!Forms, NEW base \in Config!Configs
    PROVE  /\ Config!Apply(typed, base) \in Config!Configs
           /\ Config!Apply(typed, base).theme = typed.theme
           /\ Config!Apply(typed, Config!Apply(typed, base)) = Config!Apply(typed, base)
<1>1. /\ typed.theme \in Themes /\ base.threshold \in 0..MaxThreshold
      /\ typed.threshold \in Typeable \cup (0..MaxThreshold) \cup {Config!Unreadable}
  BY DEF Config!Forms, Config!Configs
<1>0. typed.threshold # Config!Unreadable => typed.threshold \in Nat
  <2>1. Typeable \subseteq Nat /\ MaxThreshold \in Nat
    BY DEF Config!ConfigConstants
  <2>2. 0..MaxThreshold \subseteq Nat
    BY <2>1
  <2> QED
    BY <1>1, <2>1, <2>2
<1> DEFINE cut(t) == IF typed.threshold = Config!Unreadable THEN t
                     ELSE IF typed.threshold > MaxThreshold THEN MaxThreshold
                     ELSE typed.threshold
<1>2. \A t \in 0..MaxThreshold : cut(t) \in 0..MaxThreshold /\ cut(cut(t)) = cut(t)
  BY <1>0, <1>1 DEF Config!ConfigConstants
<1>3. \A b : Config!Apply(typed, b) = [theme |-> typed.theme, threshold |-> cut(b.threshold)]
  BY DEF Config!Apply
<1> HIDE DEF cut
<1> QED
  BY <1>1, <1>2, <1>3 DEF Config!Configs

\* A form that says what the configuration says changes nothing.
LEMMA ApplySame ==
    ASSUME Config!ConfigConstants, NEW config \in Config!Configs
    PROVE  config \in Config!Forms /\ Config!Apply(config, config) = config
<1>1. /\ config.theme \in Themes /\ config.threshold \in 0..MaxThreshold
      /\ config.threshold # Config!Unreadable /\ ~(config.threshold > MaxThreshold)
  BY DEF Config!Configs, Config!Unreadable, Config!ConfigConstants
<1>2. Config!Apply(config, config) = [theme |-> config.theme, threshold |-> config.threshold]
  BY <1>1 DEF Config!Apply
<1>3. config = [theme |-> config.theme, threshold |-> config.threshold]
  BY DEF Config!Configs
<1>4. config \in Config!Forms
  BY <1>1, <1>3 DEF Config!Forms
<1> QED
  BY <1>2, <1>3, <1>4

LEMMA OffTyped ==
    ASSUME Config!ConfigConstants
    PROVE  /\ Config!Off \in SessionType /\ Config!Off.pc = "off"
                /\ Config!Off.theme = Config!Off.form.theme
           /\ Config!Apply(Config!Off.form, Config!Off.config) = Config!Off.config
<1>1. Config!Default \in Config!Configs
  BY DEF Config!Default, Config!Configs, Config!ConfigConstants
<1>2. Config!Default \in Config!Forms /\ Config!Apply(Config!Default,
        Config!Default) = Config!Default
  BY <1>1, ApplySame
<1>3. DefaultTheme \in Themes /\ Config!Default.theme = DefaultTheme
  BY DEF Config!ConfigConstants, Config!Default
<1> QED
  BY <1>1, <1>2, <1>3 DEF Config!Off, SessionType

\* One session moves, and the others stay.
LEMMA OneSessionMoves ==
    ASSUME session \in [Sessions -> SessionType],
           NEW s \in Sessions, NEW r \in SessionType, Config!Becomes(s, r)
    PROVE  /\ session' \in [Sessions -> SessionType] /\ session'[s] = r
           /\ \A t \in Sessions : t # s => session'[t] = session[t]
BY DEF Config!Becomes

LEMMA ConfigBegins ==
    ASSUME Config!ConfigConstants, Config!Init
    PROVE  ConfigInv
<1>1. session = [s \in Sessions |-> Config!Off] /\ temp = None
        /\ path \in {None} \cup {CHOOSE i \in Inodes : TRUE}
      /\ text \in [Inodes -> {Config!Torn} \cup Config!Configs]
  BY DEF Config!Init
<1>2. (CHOOSE i \in Inodes : TRUE) \in Inodes
  BY DEF Config!ConfigConstants
<1>3. FilesTyped
  BY <1>1, <1>2, OffTyped DEF FilesTyped
<1>4. TempIsApart /\ LoneSaveIsWhole
  BY <1>1, OffTyped DEF TempIsApart, LoneSaveIsWhole, Config!Saving
<1>5. Config!PreviewFollowsForm /\ Config!CleanMeansSaved
  BY <1>1, OffTyped DEF Config!PreviewFollowsForm, Config!CleanMeansSaved
<1> QED
  BY <1>3, <1>4, <1>5 DEF ConfigInv


\* A session that moves outside a save, the files untouched, breaks nothing if
\* its own record is right.
LEMMA QuietKeeps ==
    ASSUME ConfigInv, UNCHANGED <<path, temp, text, overlapped>>,
           NEW s \in Sessions, session' \in [Sessions -> SessionType],
           \A t \in Sessions : t # s => session'[t] = session[t],
           session'[s].pc \in {"off", "edit"}, session'[s].theme = session'[s].form.theme,
           \/ session'[s].dirty
           \/ Config!Apply(session'[s].form, session'[s].config) = session'[s].config
    PROVE  ConfigInv' /\ Config!AFileIsLeft
<1>1. /\ \A t \in Sessions : session'[t].pc \in {"write", "rename"} => session'[t] = session[t]
      /\ Config!Saving' \subseteq Config!Saving
  BY DEF Config!Saving
<1>2. FilesTyped' /\ TempIsApart'
  BY <1>1 DEF ConfigInv, FilesTyped, TempIsApart
<1>3. LoneSaveIsWhole'
  BY <1>1 DEF ConfigInv, LoneSaveIsWhole
<1>4. Config!PreviewFollowsForm' /\ Config!CleanMeansSaved'
  BY DEF ConfigInv, Config!PreviewFollowsForm, Config!CleanMeansSaved
<1> QED
  BY <1>2, <1>3, <1>4 DEF ConfigInv, Config!AFileIsLeft

LEMMA LoadKeeps ==
    ASSUME Config!ConfigConstants, ConfigInv, NEW s \in Sessions, Config!Load(s)
    PROVE  ConfigInv' /\ Config!AFileIsLeft
<1> USE DEF ConfigInv
<1>1. FilesTyped /\ session[s].pc = "off" /\ UNCHANGED <<path, temp, text, overlapped>>
  BY DEF Config!Load, Config!FilesKeep, Config!BoundsKeep
<1> DEFINE broken == path # None /\ text[path] = Config!Torn
           config == IF path = None \/ broken THEN Config!Default ELSE text[path]
           record == [Config!Off EXCEPT !.pc = "edit", !.config = config, !.form = config,
                                 !.theme = config.theme, !.warned = broken]
<1>2. config \in Config!Configs
  BY <1>1 DEF FilesTyped, Config!Default, Config!Configs, Config!ConfigConstants
<1>3. Config!Becomes(s, record)
  BY DEF Config!Load
<1>4. /\ record \in SessionType /\ record.pc = "edit" /\ record.theme = record.form.theme
      /\ record.form = config /\ record.config = config
  <2> HIDE DEF config, broken
  <2>1. config \in Config!Forms /\ config.theme \in Themes /\ broken \in BOOLEAN
    BY <1>2, ApplySame DEF Config!Configs, broken
  <2> QED
    BY <1>2, <2>1, OffTyped DEF SessionType
<1>5. Config!Apply(record.form, record.config) = record.config
  BY <1>2, <1>4, ApplySame
<1> HIDE DEF config, broken, record
<1>6. /\ session' \in [Sessions -> SessionType] /\ session'[s] = record
      /\ \A t \in Sessions : t # s => session'[t] = session[t]
  BY <1>1, <1>3, <1>4, OneSessionMoves DEF FilesTyped
<1> QED
  BY <1>1, <1>4, <1>5, <1>6, QuietKeeps

LEMMA EditKeeps ==
    ASSUME Config!ConfigConstants, ConfigInv, NEW s \in Sessions, Config!Edit(s)
    PROVE  ConfigInv' /\ Config!AFileIsLeft
<1> USE DEF ConfigInv
<1>1. FilesTyped /\ session[s].pc = "edit" /\ UNCHANGED <<path, temp, text, overlapped>>
  BY DEF Config!Edit, Config!FilesKeep, Config!BoundsKeep
<1>2. PICK typed \in Config!Forms :
          Config!Becomes(s, [session[s] EXCEPT !.form = typed, !.dirty = TRUE,
                                        !.theme = Config!Apply(typed, session[s].config).theme])
  BY DEF Config!Edit
<1> DEFINE seen == Config!Apply(typed, session[s].config).theme
           record == [session[s] EXCEPT !.form = typed, !.dirty = TRUE, !.theme = seen]
<1>3. session[s] \in SessionType /\ session[s].config \in Config!Configs
  BY <1>1 DEF FilesTyped, SessionType
<1>4. seen = typed.theme /\ seen \in Themes
  BY <1>3, ApplyForm DEF Config!Forms
<1> HIDE DEF seen
<1>5. /\ record \in SessionType /\ record.pc = "edit" /\ record.theme = record.form.theme
      /\ record.dirty
  BY <1>1, <1>3, <1>4 DEF SessionType
<1>6. Config!Becomes(s, record)
  BY <1>2 DEF seen
<1> HIDE DEF record
<1>7. /\ session' \in [Sessions -> SessionType] /\ session'[s] = record
      /\ \A t \in Sessions : t # s => session'[t] = session[t]
  BY <1>1, <1>5, <1>6, OneSessionMoves DEF FilesTyped
<1> QED
  BY <1>1, <1>5, <1>7, QuietKeeps

LEMMA EndKeeps ==
    ASSUME Config!ConfigConstants, ConfigInv, NEW s \in Sessions, Config!End(s)
    PROVE  ConfigInv' /\ Config!AFileIsLeft
<1> USE DEF ConfigInv
<1>1. FilesTyped /\ UNCHANGED <<path, temp, text, overlapped>> /\ Config!Becomes(s, Config!Off)
  BY DEF Config!End, Config!FilesKeep
<1>2. /\ session' \in [Sessions -> SessionType] /\ session'[s] = Config!Off
      /\ \A t \in Sessions : t # s => session'[t] = session[t]
  BY <1>1, OffTyped, OneSessionMoves DEF FilesTyped
<1> QED
  BY <1>1, <1>2, OffTyped, QuietKeeps

LEMMA OpenTempKeeps ==
    ASSUME Config!ConfigConstants, ConfigInv, NEW s \in Sessions, Config!OpenTemp(s)
    PROVE  ConfigInv' /\ Config!AFileIsLeft
<1> USE DEF ConfigInv
<1>1. PICK i \in Inodes :
          /\ IF temp # None THEN i = temp ELSE i # path /\ \A t \in Sessions : session[t].fd # i
          /\ temp' = i
          /\ text' = [text EXCEPT ![i] = Config!Torn]
          /\ Config!Becomes(s, [session[s] EXCEPT !.pc = "write", !.fd = i])
  BY DEF Config!OpenTemp
<1>2. /\ FilesTyped /\ session[s].pc = "edit" /\ path' = path
      /\ overlapped' = (overlapped \/ Config!Saving # {})
  BY DEF Config!OpenTemp
<1>3. i # path /\ i # None
  BY <1>1, <1>2 DEF TempIsApart, Config!ConfigConstants
<1> DEFINE record == [session[s] EXCEPT !.pc = "write", !.fd = i]
<1>4. session[s] \in SessionType
  BY <1>2 DEF FilesTyped
<1>5. /\ record \in SessionType /\ record.pc = "write" /\ record.fd = i
      /\ record.theme = session[s].theme /\ record.form = session[s].form
      /\ record.dirty = session[s].dirty /\ record.config = session[s].config
  BY <1>4 DEF SessionType
<1> HIDE DEF record
<1>6. /\ session' \in [Sessions -> SessionType] /\ session'[s] = record
      /\ \A t \in Sessions : t # s => session'[t] = session[t]
  BY <1>1, <1>2, <1>5, OneSessionMoves DEF FilesTyped, record
<1>7. /\ text' \in [Inodes -> Config!Configs \cup {Config!Torn}] /\ text'[i] = Config!Torn
      /\ \A j \in Inodes : j # i => text'[j] = text[j]
  BY <1>1, <1>2 DEF FilesTyped
<1>8. FilesTyped' /\ TempIsApart'
  BY <1>1, <1>2, <1>3, <1>5, <1>6, <1>7 DEF FilesTyped, TempIsApart
<1>9. LoneSaveIsWhole'
  <2> SUFFICES ASSUME ~overlapped' PROVE LoneSaveIsWhole'
    BY DEF LoneSaveIsWhole
  <2>1. \A t \in Sessions : session[t].pc \notin {"write", "rename"}
    BY <1>2 DEF Config!Saving
  <2>2. \A t \in Config!Saving' : t = s
    BY <1>6, <2>1 DEF Config!Saving
  <2> QED
    BY <1>1, <1>5, <1>6, <1>7, <2>1, <2>2 DEF LoneSaveIsWhole
<1>10. Config!PreviewFollowsForm' /\ Config!CleanMeansSaved'
  BY <1>5, <1>6 DEF Config!PreviewFollowsForm, Config!CleanMeansSaved
<1>11. Config!AFileIsLeft
  BY <1>2, <1>3, <1>7 DEF Config!AFileIsLeft, FilesTyped
<1> QED
  BY <1>8, <1>9, <1>10, <1>11

LEMMA WriteTempKeeps ==
    ASSUME Config!ConfigConstants, ConfigInv, NEW s \in Sessions, Config!WriteTemp(s)
    PROVE  ConfigInv' /\ Config!AFileIsLeft
<1> USE DEF ConfigInv
<1> DEFINE saved == Config!Apply(session[s].form, session[s].config)
           fd == session[s].fd
           record == [session[s] EXCEPT !.pc = "rename", !.fd = None]
<1>1. /\ FilesTyped /\ session[s].pc = "write" /\ UNCHANGED <<path, temp, overlapped>>
      /\ Config!Becomes(s, record)
  BY DEF Config!WriteTemp, Config!BoundsKeep
<1>2. PICK left \in {saved} \cup (IF text[fd] = Config!Torn THEN {} ELSE {Config!Torn}) :
          text' = [text EXCEPT ![fd] = left]
  BY DEF Config!WriteTemp
<1>3. session[s] \in SessionType /\ fd \in Inodes
  BY <1>1 DEF FilesTyped
<1>4. session[s].form \in Config!Forms /\ session[s].config \in Config!Configs
  BY <1>3 DEF SessionType
<1>5. saved \in Config!Configs
  BY <1>4, ApplyForm
<1>6. left \in Config!Configs \cup {Config!Torn}
        /\ (text[fd] = Config!Torn => left \in Config!Configs)
  BY <1>2, <1>5
<1>7. /\ record \in SessionType /\ record.pc = "rename"
      /\ record.theme = session[s].theme /\ record.form = session[s].form
      /\ record.dirty = session[s].dirty /\ record.config = session[s].config
  BY <1>3 DEF SessionType
<1> HIDE DEF saved, fd, record
<1>8. /\ session' \in [Sessions -> SessionType] /\ session'[s] = record
      /\ \A t \in Sessions : t # s => session'[t] = session[t]
  BY <1>1, <1>7, OneSessionMoves DEF FilesTyped
<1>9. /\ text' \in [Inodes -> Config!Configs \cup {Config!Torn}] /\ text'[fd] = left
      /\ \A j \in Inodes : j # fd => text'[j] = text[j]
  BY <1>1, <1>2, <1>3, <1>6 DEF FilesTyped
<1>10. FilesTyped' /\ TempIsApart'
  BY <1>1, <1>7, <1>8, <1>9 DEF FilesTyped, TempIsApart
<1>11. ~overlapped => /\ fd = temp /\ temp \in Inodes /\ left \in Config!Configs
                      /\ \A t \in Sessions : t # s => session[t].pc \notin {"write", "rename"}
  BY <1>1, <1>6 DEF LoneSaveIsWhole, Config!Saving, fd
<1>12. LoneSaveIsWhole'
  <2> SUFFICES ASSUME ~overlapped' PROVE LoneSaveIsWhole'
    BY DEF LoneSaveIsWhole
  <2>1. \A t \in Config!Saving' : t = s
    BY <1>1, <1>8, <1>11 DEF Config!Saving
  <2>2. text'[temp'] # Config!Torn
    BY <1>1, <1>9, <1>11, TornIsNone
  <2> QED
    BY <1>1, <1>7, <1>8, <1>11, <2>1, <2>2 DEF LoneSaveIsWhole, Config!Saving
<1>13. Config!PreviewFollowsForm' /\ Config!CleanMeansSaved'
  BY <1>7, <1>8 DEF Config!PreviewFollowsForm, Config!CleanMeansSaved
<1>14. Config!AFileIsLeft
  <2> SUFFICES ASSUME ~overlapped', path # None, text[path] # Config!Torn
               PROVE  path' # None /\ text'[path'] # Config!Torn
    BY DEF Config!AFileIsLeft
  <2>1. temp # path /\ path \in Inodes
    BY <1>1, <1>11 DEF TempIsApart, FilesTyped, Config!ConfigConstants
  <2> QED
    BY <1>1, <1>9, <1>11, <2>1
<1> QED
  BY <1>10, <1>12, <1>13, <1>14

LEMMA WriteFailsKeeps ==
    ASSUME Config!ConfigConstants, ConfigInv, NEW s \in Sessions, Config!WriteFails(s)
    PROVE  ConfigInv' /\ Config!AFileIsLeft
<1> USE DEF ConfigInv
<1> DEFINE fd == session[s].fd
           record == [session[s] EXCEPT !.pc = "edit", !.fd = None]
<1>1. /\ FilesTyped /\ session[s].pc = "write" /\ UNCHANGED <<path, temp, overlapped>>
      /\ Config!Becomes(s, record)
  BY DEF Config!WriteFails, Config!BoundsKeep
<1>2. PICK left \in {text[fd], Config!Torn} : text' = [text EXCEPT ![fd] = left]
  BY DEF Config!WriteFails
<1>3. session[s] \in SessionType /\ fd \in Inodes
  BY <1>1 DEF FilesTyped
<1>4. left \in Config!Configs \cup {Config!Torn}
  BY <1>1, <1>2, <1>3 DEF FilesTyped
<1>5. /\ record \in SessionType /\ record.pc = "edit"
      /\ record.theme = session[s].theme /\ record.form = session[s].form
      /\ record.dirty = session[s].dirty /\ record.config = session[s].config
  BY <1>3 DEF SessionType
<1> HIDE DEF fd, record
<1>6. /\ session' \in [Sessions -> SessionType] /\ session'[s] = record
      /\ \A t \in Sessions : t # s => session'[t] = session[t]
  BY <1>1, <1>5, OneSessionMoves DEF FilesTyped
<1>7. /\ text' \in [Inodes -> Config!Configs \cup {Config!Torn}]
      /\ \A j \in Inodes : j # fd => text'[j] = text[j]
  BY <1>1, <1>2, <1>3, <1>4 DEF FilesTyped
<1>8. FilesTyped' /\ TempIsApart'
  BY <1>1, <1>5, <1>6, <1>7 DEF FilesTyped, TempIsApart
<1>9. ~overlapped => /\ fd = temp /\ temp \in Inodes
                     /\ \A t \in Sessions : t # s => session[t].pc \notin {"write", "rename"}
  BY <1>1 DEF LoneSaveIsWhole, Config!Saving, fd
<1>10. LoneSaveIsWhole'
  <2> SUFFICES ASSUME ~overlapped' PROVE LoneSaveIsWhole'
    BY DEF LoneSaveIsWhole
  <2>1. \A t \in Sessions : session'[t].pc \notin {"write", "rename"}
    BY <1>1, <1>5, <1>6, <1>9
  <2> QED
    BY <2>1 DEF LoneSaveIsWhole, Config!Saving
<1>11. Config!PreviewFollowsForm' /\ Config!CleanMeansSaved'
  BY <1>5, <1>6 DEF Config!PreviewFollowsForm, Config!CleanMeansSaved
<1>12. Config!AFileIsLeft
  <2> SUFFICES ASSUME ~overlapped', path # None, text[path] # Config!Torn
               PROVE  path' # None /\ text'[path'] # Config!Torn
    BY DEF Config!AFileIsLeft
  <2>1. temp # path /\ path \in Inodes
    BY <1>1, <1>9 DEF TempIsApart, FilesTyped, Config!ConfigConstants
  <2> QED
    BY <1>1, <1>7, <1>9, <2>1
<1> QED
  BY <1>8, <1>10, <1>11, <1>12

LEMMA RenameKeeps ==
    ASSUME Config!ConfigConstants, ConfigInv, NEW s \in Sessions, Config!Rename(s)
    PROVE  ConfigInv' /\ Config!AFileIsLeft
<1> USE DEF ConfigInv
<1>1. /\ FilesTyped /\ session[s].pc = "rename" /\ UNCHANGED <<text, overlapped>>
      /\ session[s] \in SessionType
  BY DEF Config!Rename, Config!BoundsKeep, FilesTyped
<1>2. CASE Config!Becomes(s, [session[s] EXCEPT !.pc = "edit"]) /\ UNCHANGED <<path, temp>>
  <2> DEFINE record == [session[s] EXCEPT !.pc = "edit"]
  <2>1. Config!Becomes(s, record) /\ UNCHANGED <<path, temp>>
    BY <1>2
  <2>2. /\ record \in SessionType /\ record.pc = "edit"
        /\ record.theme = session[s].theme /\ record.form = session[s].form
        /\ record.dirty = session[s].dirty /\ record.config = session[s].config
    BY <1>1 DEF SessionType
  <2> HIDE DEF record
  <2>3. /\ session' \in [Sessions -> SessionType] /\ session'[s] = record
        /\ \A t \in Sessions : t # s => session'[t] = session[t]
    BY <1>1, <2>1, <2>2, OneSessionMoves DEF FilesTyped
  <2>4. /\ record.theme = record.form.theme
        /\ record.dirty \/ Config!Apply(record.form, record.config) = record.config
    BY <2>2 DEF Config!PreviewFollowsForm, Config!CleanMeansSaved
  <2> QED
    BY <1>1, <2>1, <2>2, <2>3, <2>4, QuietKeeps
<1> DEFINE saved == Config!Apply(session[s].form, session[s].config)
           renamed == [session[s] EXCEPT !.pc = "edit", !.config = saved,
                                         !.theme = saved.theme, !.dirty = FALSE]
<1>3. CASE temp # None /\ Config!Becomes(s, renamed) /\ path' = temp /\ temp' = None
  <2> DEFINE record == renamed
  <2>1. Config!Becomes(s, record) /\ path' = temp /\ temp' = None
    BY <1>3
  <2>2. session[s].form \in Config!Forms /\ session[s].config \in Config!Configs
    BY <1>1 DEF SessionType
  <2>3. /\ saved \in Config!Configs /\ saved.theme = session[s].form.theme
             /\ saved.theme \in Themes
        /\ Config!Apply(session[s].form, saved) = saved
    BY <2>2, ApplyForm DEF Config!Forms
  <2> HIDE DEF saved
  <2>4. /\ record \in SessionType /\ record.pc = "edit" /\ record.theme = saved.theme
        /\ record.form = session[s].form /\ record.config = saved
    BY <1>1, <2>3 DEF SessionType
  <2> HIDE DEF record
  <2>5. /\ session' \in [Sessions -> SessionType] /\ session'[s] = record
        /\ \A t \in Sessions : t # s => session'[t] = session[t]
    BY <1>1, <2>1, <2>4, OneSessionMoves DEF FilesTyped
  <2>6. FilesTyped' /\ TempIsApart'
    BY <1>1, <2>1, <2>4, <2>5 DEF FilesTyped, TempIsApart
  <2>7. ~overlapped => /\ text[temp] # Config!Torn
                       /\ \A t \in Sessions : t # s => session[t].pc \notin {"write", "rename"}
    BY <1>1 DEF LoneSaveIsWhole, Config!Saving
  <2>8. ~overlapped => \A t \in Sessions : session'[t].pc \notin {"write", "rename"}
    BY <2>4, <2>5, <2>7
  <2>9. LoneSaveIsWhole'
    BY <1>1, <2>8 DEF LoneSaveIsWhole, Config!Saving
  <2>10. Config!PreviewFollowsForm' /\ Config!CleanMeansSaved'
    BY <2>3, <2>4, <2>5 DEF Config!PreviewFollowsForm, Config!CleanMeansSaved
  <2>11. Config!AFileIsLeft
    BY <1>1, <1>3, <2>1, <2>7 DEF Config!AFileIsLeft
  <2> QED
    BY <2>6, <2>9, <2>10, <2>11
<1> QED
  BY <1>2, <1>3 DEF Config!Rename

LEMMA ConfigStep ==
    ASSUME Config!ConfigConstants, ConfigInv, Config!Next
    PROVE  ConfigInv' /\ Config!AFileIsLeft
<1>1. PICK s \in Sessions :
          Config!Load(s) \/ Config!Edit(s) \/ Config!OpenTemp(s) \/ Config!WriteTemp(s)
            \/ Config!WriteFails(s) \/ Config!Rename(s) \/ Config!End(s)
  BY DEF Config!Next
<1> QED
  BY <1>1, LoadKeeps, EditKeeps, OpenTempKeeps, WriteTempKeeps, WriteFailsKeeps, RenameKeeps,
     EndKeeps

LEMMA ConfigRests ==
    ASSUME ConfigInv, UNCHANGED <<path, temp, text, session, overlapped>>
    PROVE  ConfigInv'
BY DEF ConfigInv, FilesTyped, TempIsApart, LoneSaveIsWhole, Config!Saving,
       Config!PreviewFollowsForm,
       Config!CleanMeansSaved

LEMMA SoundConfig == ConfigInv => Config!ConfigInvariant
BY DEF ConfigInv, FilesTyped, SessionType, Config!ConfigInvariant, Config!TypeOK

-----------------------------------------------------------------------------
(* What the runs check of the three parts, for every value of the          *)
(* constants.  The specifications of the parts do not mention side, so a   *)
(* property that is guarded by it holds of the part without the guard.     *)

\* One search at a time, joined before it is forgotten, and a session that ends
\* has ended its search (App::poll_worker, App::start_worker, App::shutdown).
THEOREM SessionSound == Spec => []SessionInvariant
<1>1. Init => SessionInv
  BY SessionBegins
<1>2. SessionInv /\ [Next]_vars => SessionInv'
  BY SessionGoesOn
<1>3. SessionInv => SessionInvariant
  BY SessionIsSound
<1> QED BY <1>1, <1>2, <1>3, PTL DEF Spec

\* The statuses on the screen are the stored ones wherever they are said to be
\* (RunsTab::refresh, RunsTab::update_row).
THEOREM RowsTrue == Spec => []RowsShownAreTrue
<1>1. Init => SessionInv
  BY SessionBegins
<1>2. SessionInv /\ [Next]_vars => SessionInv'
  BY SessionGoesOn
<1>3. SessionInv => RowsShownAreTrue
  BY SessionIsSound
<1> QED BY <1>1, <1>2, <1>3, PTL DEF Spec

\* Rows, events and positions belong together, through migrations, checkpoints,
\* rival hunters, deletions and deaths (Storage).
THEOREM StoreSound == Store!Spec => []StoreInvariant
<1>1. Store!Init => StoreInv
  BY StoreBegins, StoreAssumption
<1>2. StoreInv /\ [Store!Next]_(Store!vars) => StoreInv'
  BY StoreStep, StoreAssumption
<1>3. StoreInv => StoreInvariant
  BY SoundStore, StoreAssumption DEF StoreInvariant
<1> QED BY <1>1, <1>2, <1>3, PTL DEF Store!Spec

\* A checkpoint is all or nothing, a deletion takes the run it resolved, and
\* what later versions wrote is kept (Storage::checkpoint_run, delete_run).
THEOREM StatementsSafe == Store!Spec => StatementsAreSafe
<1>1. Store!Init => StoreInv
  BY StoreBegins, StoreAssumption
<1>2. StoreInv /\ [Store!Next]_(Store!vars) => StoreInv'
  BY StoreStep, StoreAssumption
<1>3. StoreInv /\ [Store!Next]_(Store!vars)
      => [side = "store" => Store!StatementIsSafe]_databaseVars
  BY StoreStepIsSafe, StoreAssumption DEF databaseVars, Store!vars
<1> QED BY <1>1, <1>2, <1>3, PTL DEF Store!Spec, StatementsAreSafe

\* The preview follows the form, and a form that is not marked as changed has
\* nothing to save (SettingsTab).
THEOREM ConfigSound == Config!Spec => []ConfigInvariant
<1>1. Config!Init => ConfigInv
  BY ConfigBegins, ConfigAssumption
<1>2. ConfigInv /\ [Config!Next]_(Config!vars) => ConfigInv'
  BY ConfigStep, ConfigRests, ConfigAssumption DEF Config!vars
<1>3. ConfigInv => ConfigInvariant
  BY SoundConfig DEF ConfigInvariant
<1> QED BY <1>1, <1>2, <1>3, PTL DEF Config!Spec

\* A configuration that could be read can be read after any step of a save that
\* is alone, its death included (Config::save).
THEOREM SavesLeaveAFile == Config!Spec => InterruptedSavesLeaveAFile
<1>1. Config!Init => ConfigInv
  BY ConfigBegins, ConfigAssumption
<1>2. ConfigInv /\ [Config!Next]_(Config!vars) => ConfigInv'
  BY ConfigStep, ConfigRests, ConfigAssumption DEF Config!vars
<1>3. ConfigInv /\ [Config!Next]_(Config!vars)
      => [side = "config" => Config!AFileIsLeft]_configVars
  BY ConfigStep, ConfigAssumption DEF configVars, Config!vars
<1> QED BY <1>1, <1>2, <1>3, PTL DEF Config!Spec, InterruptedSavesLeaveAFile

-----------------------------------------------------------------------------
(* Drawing (FrameLoop).  What a recursive function computes is proved by   *)
(* its smallest counterexample, which the next lemmas find.                *)

\* Among finite sets there is one that no other is a part of.
LEMMA LeastSet ==
    ASSUME NEW T, T # {}, \A s \in T : IsFiniteSet(s)
    PROVE  \E s \in T : \A t \in T : t \subseteq s => t = s
<1> DEFINE U == UNION T
<1>1. T \subseteq FiniteSubsetsOf(U)
  BY DEF FiniteSubsetsOf
<1>2. IsWellFoundedOn(StrictSubsetOrdering(U), FiniteSubsetsOf(U))
  BY FS_StrictSubsetOrderingWellFounded
<1>3. PICK s \in T : \A t \in T : ~(<<t, s>> \in StrictSubsetOrdering(U))
  <2> HIDE DEF U
  <2>. QED  BY <1>1, <1>2, WFMin
<1>4. ASSUME NEW t \in T, t \subseteq s, t # s PROVE FALSE
  <2>1. s \in SUBSET U /\ t \in SUBSET U
    OBVIOUS
  <2>2. <<t, s>> \in (SUBSET U) \X (SUBSET U) /\ <<t, s>>[1] = t /\ <<t, s>>[2] = s
    BY <2>1
  <2>3. <<t, s>> \in StrictSubsetOrdering(U)
    BY <2>2, <1>4, Zenon DEF StrictSubsetOrdering
  <2>. QED  BY <2>3, <1>3
<1>. QED  BY <1>3, <1>4

\* A set of naturals that is not empty has a least element; what a finite set is
\* measured by has a greatest.
LEMMA LeastNatural ==
    ASSUME NEW S \in SUBSET Nat, S # {}
    PROVE  \E m \in S : \A n \in S : m <= n
<1> DEFINE T == {0..(n - 1) : n \in S}
<1>0. \A n \in S : IsFiniteSet(0..(n - 1))
  BY FS_Interval
<1>1. T # {} /\ \A s \in T : IsFiniteSet(s)
  BY <1>0
<1>2. PICK s \in T : \A t \in T : t \subseteq s => t = s
  <2> HIDE DEF T
  <2>. QED  BY <1>1, LeastSet
<1>3. PICK m \in S : s = 0..(m - 1)
  BY <1>2
<1>4. ASSUME NEW n \in S, ~(m <= n) PROVE FALSE
  <2>1. 0..(n - 1) \subseteq s /\ n \in s /\ n \notin 0..(n - 1)
    BY <1>3, <1>4
  <2>2. 0..(n - 1) \in T
    OBVIOUS
  <2>. QED  BY <1>2, <2>1, <2>2
<1>. QED  BY <1>4

LEMMA GreatestOf ==
    ASSUME NEW S, S # {}, IsFiniteSet(S), NEW f, \A n \in S : f[n] \in Nat
    PROVE  \E m \in S : \A n \in S : f[m] >= f[n]
<1> DEFINE Above(n) == {x \in S : f[x] > f[n]}
           T == {Above(n) : n \in S}
<1>1. \A n \in S : IsFiniteSet(Above(n))
  BY FS_Subset
<1>2. T # {} /\ \A s \in T : IsFiniteSet(s)
  BY <1>1
<1>3. PICK s \in T : \A t \in T : t \subseteq s => t = s
  <2> HIDE DEF T
  <2>. QED  BY <1>2, LeastSet
<1>4. PICK m \in S : s = Above(m)
  BY <1>3
<1>5. ASSUME NEW n \in S, ~(f[m] >= f[n]) PROVE FALSE
  <2>1. f[m] \in Nat /\ f[n] \in Nat /\ f[n] > f[m] /\ ~(f[n] > f[n])
    BY <1>5
  <2>2. Above(n) \subseteq Above(m)
    <3>1. \A x \in S : f[x] \in Nat /\ (f[x] > f[n] => f[x] > f[m])
      BY <2>1
    <3>. QED  BY <3>1
  <2>3. n \in Above(m) /\ n \notin Above(n)
    BY <2>1
  <2>4. Above(n) \in T
    OBVIOUS
  <2>. HIDE DEF Above, T
  <2>. QED  BY <1>3, <1>4, <2>2, <2>3, <2>4
<1>. QED  BY <1>5

\* The scan over the toasts: a function that is as it says exists.
IsScan(scan, items, last) ==
    scan = [n \in 0..last |->
              IF n = 0 THEN <<>>
              ELSE IF items[n].left > 0 THEN Append(scan[n - 1], items[n]) ELSE scan[n - 1]]

LEMMA ScanExists ==
    ASSUME NEW items, NEW last \in Nat
    PROVE  \E scan : IsScan(scan, items, last)
<1> DEFINE Lacking == {n \in Nat : ~\E scan : IsScan(scan, items, n)}
<1> SUFFICES ASSUME Lacking # {} PROVE FALSE
  OBVIOUS
<1>1. PICK n \in Lacking : \A m \in Lacking : n <= m
  <2> HIDE DEF Lacking
  <2>1. Lacking \in SUBSET Nat
    BY DEF Lacking
  <2>. QED  BY <2>1, LeastNatural
<1>2. CASE n = 0
  <2> DEFINE scan == [k \in 0..0 |-> <<>>]
  <2>1. IsScan(scan, items, 0)
    BY DEF IsScan
  <2>. QED  BY <1>1, <1>2, <2>1
<1>3. CASE n > 0
  <2>1. n - 1 \in Nat /\ n - 1 \notin Lacking
    <3>1. n \in Nat
      OBVIOUS
    <3>. QED  BY <1>1, <1>3, <3>1
  <2>2. PICK scan : IsScan(scan, items, n - 1)
    BY <2>1
  <2> DEFINE more ==
        IF items[n].left > 0 THEN Append(scan[n - 1], items[n]) ELSE scan[n - 1]
      longer == [k \in 0..n |-> IF k = n THEN more ELSE scan[k]]
  <2>3. \A k \in 0..(n - 1) :
          scan[k] = IF k = 0 THEN <<>>
                    ELSE IF items[k].left > 0 THEN Append(scan[k - 1], items[k]) ELSE scan[k - 1]
    BY <2>2 DEF IsScan
  <2>4. ASSUME NEW k \in 0..n
        PROVE  longer[k] =
                 IF k = 0 THEN <<>>
                 ELSE IF items[k].left > 0 THEN Append(longer[k - 1], items[k]) ELSE longer[k - 1]
    <3>1. CASE k = n
      BY <1>3, <3>1
    <3>2. CASE k # n
      BY <1>3, <2>3, <3>2
    <3>. QED  BY <3>1, <3>2
  <2>5. IsScan(longer, items, n)
    <3>1. longer = [k \in 0..n |-> longer[k]]
      OBVIOUS
    <3> HIDE DEF longer
    <3>. QED  BY <2>4, <3>1 DEF IsScan
  <2>. QED  BY <2>5
<1>. QED  BY <1>2, <1>3

\* Pruning keeps the toasts that have not expired, each once, and drops none
\* exactly if none has expired.
PrunedTo(items, last, kept) ==
    /\ kept \in Seq(Frame!ToastType)
    /\ Len(kept) <= last
    /\ \A i \in 1..Len(kept) :
          kept[i].left > 0 /\ \E j \in 1..last : kept[i] = items[j]
    /\ \A j \in 1..last : items[j].left > 0 => \E i \in 1..Len(kept) : kept[i] = items[j]
    /\ \A i, j \in 1..Len(kept) : kept[i].text = kept[j].text => i = j
    /\ Len(kept) = last => \A j \in 1..last : items[j].left > 0

LEMMA ScanPrunes ==
    ASSUME NEW items \in Seq(Frame!ToastType),
           \A i, j \in 1..Len(items) : items[i].text = items[j].text => i = j,
           NEW scan, IsScan(scan, items, Len(items))
    PROVE  \A n \in 0..Len(items) : PrunedTo(items, n, scan[n])
<1> DEFINE Bad == {n \in 0..Len(items) : ~PrunedTo(items, n, scan[n])}
<1> SUFFICES ASSUME Bad # {} PROVE FALSE
  OBVIOUS
<1>0. Len(items) \in Nat
  BY LenProperties
<1>1. PICK n \in Bad : \A m \in Bad : n <= m
  <2>1. Bad \in SUBSET Nat
    BY <1>0
  <2> HIDE DEF Bad
  <2>. QED  BY <2>1, LeastNatural
<1>2. \A k \in 0..Len(items) :
        scan[k] = IF k = 0 THEN <<>>
                  ELSE IF items[k].left > 0 THEN Append(scan[k - 1], items[k]) ELSE scan[k - 1]
  BY DEF IsScan
<1>3. CASE n = 0
  <2>1. scan[n] = <<>> /\ <<>> \in Seq(Frame!ToastType) /\ Len(<<>>) = 0
    BY <1>0, <1>2, <1>3, EmptySeq
  <2>2. PrunedTo(items, 0, <<>>)
    BY <2>1 DEF PrunedTo
  <2>. QED  BY <1>3, <2>1, <2>2
<1>4. CASE n > 0
  <2>1. n \in 1..Len(items) /\ n - 1 \in 0..Len(items) /\ n - 1 \notin Bad
    BY <1>0, <1>1, <1>4
  <2> DEFINE shorter == scan[n - 1]
  <2>2. PrunedTo(items, n - 1, shorter)
    BY <2>1
  <2>3. items[n] \in Frame!ToastType
    BY <2>1, ElementOfSeq
  <2>4. shorter \in Seq(Frame!ToastType) /\ Len(shorter) \in Nat /\ n \in Nat
    BY <2>1, <2>2, LenProperties DEF PrunedTo
  <2>5. CASE ~(items[n].left > 0)
    <3>1. scan[n] = shorter
      BY <1>2, <1>4, <2>1, <2>5
    <3> HIDE DEF shorter
    <3>2. PrunedTo(items, n, shorter)
      BY <2>2, <2>4, <2>5 DEF PrunedTo
    <3>. QED  BY <3>1, <3>2
  <2>6. CASE items[n].left > 0
    <3> DEFINE longer == Append(shorter, items[n])
    <3>1. scan[n] = longer
      <4>1. n \in 0..Len(items) /\ n # 0
        BY <1>0, <1>4, <2>1
      <4>. QED  BY <1>2, <2>6, <4>1
    <3> HIDE DEF shorter
    <3>2. /\ longer \in Seq(Frame!ToastType) /\ Len(longer) = Len(shorter) + 1
          /\ \A i \in 1..Len(shorter) : longer[i] = shorter[i]
          /\ longer[Len(shorter) + 1] = items[n]
      BY <2>3, <2>4, AppendProperties
    <3> HIDE DEF longer
    <3>3. \A i \in 1..Len(longer) : i \in 1..Len(shorter) \/ i = Len(shorter) + 1
      BY <2>4, <3>2
    <3>4. \A j \in 1..n : j \in 1..(n - 1) \/ j = n
      BY <2>4
    <3>5. 1..(n - 1) \subseteq 1..n /\ n \in 1..n /\ 1..Len(shorter) \subseteq 1..Len(longer)
          /\ Len(shorter) + 1 \in 1..Len(longer)
      BY <1>4, <2>4, <3>2
    <3>6. \A i \in 1..Len(shorter) : shorter[i].text # items[n].text
      <4> SUFFICES ASSUME NEW i \in 1..Len(shorter), shorter[i].text = items[n].text PROVE FALSE
        OBVIOUS
      <4>1. PICK j \in 1..(n - 1) : shorter[i] = items[j]
        BY <2>2 DEF PrunedTo
      <4>2. j \in 1..Len(items) /\ j # n
        BY <1>0, <2>1, <2>4
      <4>. QED  BY <2>1, <4>1, <4>2
    <3>7. /\ \A i \in 1..Len(shorter) :
               shorter[i].left > 0 /\ \E j \in 1..(n - 1) : shorter[i] = items[j]
          /\ \A j \in 1..(n - 1) :
               items[j].left > 0 => \E i \in 1..Len(shorter) : shorter[i] = items[j]
      BY <2>2 DEF PrunedTo
    <3>8. ASSUME NEW i \in 1..Len(longer)
          PROVE  longer[i].left > 0 /\ \E j \in 1..n : longer[i] = items[j]
      <4>1. CASE i = Len(shorter) + 1
        BY <2>6, <3>2, <3>5, <4>1
      <4>2. CASE i \in 1..Len(shorter)
        BY <3>2, <3>5, <3>7, <4>2
      <4>. QED  BY <3>3, <4>1, <4>2
    <3>9. ASSUME NEW j \in 1..n, items[j].left > 0
          PROVE  \E i \in 1..Len(longer) : longer[i] = items[j]
      <4>1. CASE j = n
        BY <3>2, <3>5, <4>1
      <4>2. CASE j \in 1..(n - 1)
        BY <3>2, <3>5, <3>7, <3>9, <4>2
      <4>. QED  BY <3>4, <4>1, <4>2
    <3>10. \A i, j \in 1..Len(longer) : longer[i].text = longer[j].text => i = j
      BY <2>2, <3>2, <3>3, <3>6 DEF PrunedTo
    <3>11. Len(longer) <= n /\ (Len(longer) = n => \A j \in 1..n : items[j].left > 0)
      <4>1. Len(shorter) <= n - 1
        BY <2>2 DEF PrunedTo
      <4>2. Len(shorter) = n - 1 => \A j \in 1..(n - 1) : items[j].left > 0
        BY <2>2 DEF PrunedTo
      <4>. QED  BY <2>4, <2>6, <3>2, <3>4, <4>1, <4>2
    <3>12. PrunedTo(items, n, longer)
      BY <3>2, <3>8, <3>9, <3>10, <3>11 DEF PrunedTo
    <3>. QED  BY <3>1, <3>12
  <2>. QED  BY <2>5, <2>6
<1>5. n \in Nat
  BY <1>0
<1>. QED  BY <1>3, <1>4, <1>5

LEMMA KeptPrunes ==
    ASSUME NEW items \in Seq(Frame!ToastType),
           \A i, j \in 1..Len(items) : items[i].text = items[j].text => i = j
    PROVE  PrunedTo(items, Len(items), Frame!Kept(items))
<1> DEFINE scan == CHOOSE f : IsScan(f, items, Len(items))
<1>0. Len(items) \in Nat
  BY LenProperties
<1>1. IsScan(scan, items, Len(items))
  BY <1>0, ScanExists
<1>2. Frame!Kept(items) = scan[Len(items)]
  BY DEF Frame!Kept, IsScan
<1> HIDE DEF scan
<1>3. Len(items) \in 0..Len(items)
  BY <1>0
<1>. QED  BY <1>1, <1>2, <1>3, ScanPrunes

\* The bounds of the waits: the intervals, and the longest of them.
FrameMost == Frame!Max({p[1] : p \in Policies})

LEMMA IntervalsAreBounded ==
    ASSUME NEW p \in Policies
    PROVE  /\ p[1] \in Nat /\ p[2] \in Nat
           /\ FrameMost \in Nat /\ p[1] <= FrameMost
           /\ Frame!Longest \in Nat
           /\ p[1] + 1 <= Frame!Longest /\ p[2] + 1 <= Frame!Longest
<1> DEFINE first == [q \in Policies |-> q[1]]
           larger == [q \in Policies |-> Frame!Larger(q[1], q[2])]
<1>1. \A q \in Policies :
        /\ q[1] \in Nat /\ q[2] \in Nat /\ Frame!Larger(q[1], q[2]) \in Nat
        /\ Frame!Larger(q[1], q[2]) >= q[1] /\ Frame!Larger(q[1], q[2]) >= q[2]
  BY FrameAssumption DEF Frame!FrameConstants, Frame!Larger
<1>2. IsFiniteSet(Policies)
  BY FrameAssumption DEF Frame!FrameConstants, Frame!IsFiniteSet, IsFiniteSet
<1>3. ASSUME NEW f, \A q \in Policies : f[q] \in Nat
      PROVE  LET S == {f[q] : q \in Policies}
             IN  Frame!Max(S) \in S /\ \A n \in S : Frame!Max(S) >= n
  <2>1. PICK m \in Policies : \A q \in Policies : f[m] >= f[q]
    BY <1>2, <1>3, GreatestOf
  <2>. QED  BY <2>1 DEF Frame!Max
<1>4. FrameMost = Frame!Max({first[q] : q \in Policies})
  <2>1. {q[1] : q \in Policies} = {first[q] : q \in Policies}
    OBVIOUS
  <2>. QED  BY <2>1 DEF FrameMost
<1>5. Frame!Longest = Frame!Max({larger[q] : q \in Policies}) + 1
  <2>1. {Frame!Larger(q[1], q[2]) : q \in Policies} = {larger[q] : q \in Policies}
    OBVIOUS
  <2>. QED  BY <2>1 DEF Frame!Longest
<1>6. \A q \in Policies : first[q] = q[1] /\ larger[q] = Frame!Larger(q[1], q[2])
  OBVIOUS
<1>. HIDE DEF first, larger
<1>7. FrameMost \in Nat /\ FrameMost >= p[1]
  BY <1>1, <1>3, <1>4, <1>6
<1>8. /\ Frame!Max({larger[q] : q \in Policies}) \in Nat
      /\ Frame!Max({larger[q] : q \in Policies}) >= Frame!Larger(p[1], p[2])
  BY <1>1, <1>3, <1>6
<1>. QED  BY <1>1, <1>5, <1>7, <1>8

LEMMA FrameInitSound == Frame!Init => Frame!FrameInv
<1> SUFFICES ASSUME Frame!Init PROVE Frame!FrameInv
  OBVIOUS
<1>1. /\ policy \in Policies /\ toasts = <<>> /\ marked = TRUE /\ full = FALSE
      /\ elapsed = Frame!Smaller(IdleRedraw, Frame!Longest)
      /\ waiting = FALSE /\ wait = 0 /\ screen = {} /\ changed = TRUE /\ stale = 0
  BY DEF Frame!Init
<1>2. IdleRedraw \in Nat /\ Frame!Longest \in Nat /\ FrameMost \in Nat /\ MaxVisible \in Nat
  BY <1>1, FrameAssumption, IntervalsAreBounded DEF Frame!FrameConstants
<1>3. elapsed \in 0..Frame!Longest
  BY <1>1, <1>2 DEF Frame!Smaller
<1>4. toasts \in Seq(Frame!ToastType) /\ Len(toasts) = 0 /\ DOMAIN toasts = {}
  BY <1>1, EmptySeq
<1>5. Frame!TypeOK
  <2>1. \A i \in DOMAIN toasts : toasts[i].left \in 0..Lifetime[toasts[i].text]
    BY <1>4
  <2>2. {marked, full, waiting, changed} \subseteq BOOLEAN
    BY <1>1
  <2>3. wait \in 0..Frame!InputWait /\ screen \subseteq DOMAIN Lifetime /\ stale \in Nat
    BY <1>1 DEF Frame!InputWait
  <2>. QED  BY <1>1, <1>3, <2>1, <2>2, <2>3 DEF Frame!TypeOK
<1>6. Frame!ScreenIsFresh /\ Frame!ToastsAreFew
  BY <1>1, <1>2, <1>4 DEF Frame!ScreenIsFresh, Frame!ToastsAreFew, FrameMost, Frame!InputWait
<1>7. Frame!ShownInv /\ Frame!WaitInv
  BY <1>1 DEF Frame!ShownInv, Frame!WaitInv
<1>. QED  BY <1>1, <1>3, <1>4, <1>5, <1>6, <1>7 DEF Frame!FrameInv

\* The wait is at most that of the input, and ends with the frame interval and
\* with the metrics interval.
LEMMA PollWaitEnds ==
    ASSUME policy \in Policies, NEW since \in Nat
    PROVE  /\ Frame!PollWait(since) \in 0..Frame!InputWait
           /\ Frame!PollWait(since) <= Frame!Larger(policy[1] - since, 0)
           /\ Frame!PollWait(since) <= Frame!Larger(policy[2] - since, 0)
<1>1. policy[1] \in Nat /\ policy[2] \in Nat
  BY IntervalsAreBounded
<1>. QED  BY <1>1 DEF Frame!PollWait, Frame!Smaller, Frame!Larger, Frame!InputWait

\* An iteration: what was due is drawn, and what was not due yet will be in time.
LEMMA IterateSound ==
    ASSUME Frame!FrameInv, Frame!Iterate
    PROVE  Frame!FrameInv'
<1> DEFINE left == Frame!Kept(toasts)
           due == marked \/ Len(left) # Len(toasts)
<1>1. /\ toasts' = left /\ full' = FALSE /\ waiting' = TRUE /\ policy' = policy
      /\ IF Frame!RedrawDue(due)
         THEN /\ screen' = Frame!Texts(left)
              /\ changed' = FALSE /\ marked' = FALSE
              /\ elapsed' = 0 /\ wait' = Frame!PollWait(0) /\ stale' = 0
         ELSE /\ marked' = due
              /\ wait' = Frame!PollWait(elapsed)
              /\ UNCHANGED <<screen, changed, elapsed, stale>>
  BY DEF Frame!Iterate
<1>2. /\ policy \in Policies /\ elapsed \in 0..Frame!Longest /\ elapsed \in Nat
      /\ stale \in Nat /\ stale <= elapsed
      /\ {marked, full, waiting, changed} \subseteq BOOLEAN
      /\ screen \subseteq DOMAIN Lifetime
      /\ toasts \in Seq(Frame!ToastType) /\ Len(toasts) \in Nat
      /\ DOMAIN toasts = 1..Len(toasts)
  BY LenProperties DEF Frame!FrameInv, Frame!TypeOK
<1>3. /\ policy[1] \in Nat /\ policy[2] \in Nat /\ FrameMost \in Nat /\ policy[1] <= FrameMost
      /\ Frame!Longest \in Nat
      /\ policy[1] + 1 <= Frame!Longest /\ policy[2] + 1 <= Frame!Longest
  BY <1>2, IntervalsAreBounded
<1>4. \A i, j \in 1..Len(toasts) : toasts[i].text = toasts[j].text => i = j
  BY <1>2 DEF Frame!FrameInv, Frame!ToastsAreFew
<1>5. PrunedTo(toasts, Len(toasts), left)
  BY <1>2, <1>4, KeptPrunes
<1>. HIDE DEF left
<1>6. /\ left \in Seq(Frame!ToastType) /\ Len(left) \in Nat /\ Len(left) <= Len(toasts)
      /\ DOMAIN left = 1..Len(left)
      /\ \A i \in 1..Len(left) : left[i] \in Frame!ToastType /\ left[i].left > 0
  BY <1>5, LenProperties, ElementOfSeq DEF PrunedTo
<1>7. \A i \in 1..Len(left) : left[i].left \in 0..Lifetime[left[i].text]
  <2> SUFFICES ASSUME NEW i \in 1..Len(left) PROVE left[i].left \in 0..Lifetime[left[i].text]
    OBVIOUS
  <2>1. PICK j \in 1..Len(toasts) : left[i] = toasts[j]
    BY <1>5 DEF PrunedTo
  <2>. QED  BY <1>2, <2>1 DEF Frame!FrameInv, Frame!TypeOK
<1>8. Frame!ToastsAreFew'
  <2>1. MaxVisible \in Nat /\ Len(toasts) <= MaxVisible
    BY FrameAssumption DEF Frame!FrameConstants, Frame!FrameInv, Frame!ToastsAreFew
  <2>2. \A i, j \in 1..Len(left) : left[i].text = left[j].text => i = j
    BY <1>5 DEF PrunedTo
  <2>3. Len(left) <= MaxVisible
    BY <1>2, <1>6, <2>1
  <2>4. \A i, j \in DOMAIN left : left[i].text = left[j].text => i = j
    BY <1>6, <2>2
  <2>. QED  BY <1>1, <2>3, <2>4 DEF Frame!ToastsAreFew
<1>9. ~Frame!Expired'
  BY <1>1, <1>6 DEF Frame!Expired
<1>10. Frame!Texts(left) \subseteq DOMAIN Lifetime
  BY <1>6 DEF Frame!Texts, Frame!ToastType
<1>11. CASE Frame!RedrawDue(due)
  <2>1. /\ screen' = Frame!Texts(left) /\ changed' = FALSE /\ marked' = FALSE
        /\ elapsed' = 0 /\ wait' = Frame!PollWait(0) /\ stale' = 0
    BY <1>1, <1>11
  <2>2. /\ wait' \in 0..Frame!InputWait /\ wait' <= policy[1] /\ wait' <= policy[2]
    <3>1. /\ wait' \in 0..Frame!InputWait
          /\ wait' <= Frame!Larger(policy[1] - 0, 0) /\ wait' <= Frame!Larger(policy[2] - 0, 0)
      BY <1>2, <2>1, PollWaitEnds
    <3>2. Frame!Larger(policy[1] - 0, 0) = policy[1] /\ Frame!Larger(policy[2] - 0, 0) = policy[2]
      BY <1>3 DEF Frame!Larger
    <3>. QED  BY <3>1, <3>2
  <2>3. Frame!TypeOK'
    <3>1. {marked', full', waiting', changed'} \subseteq BOOLEAN
      BY <1>1, <2>1
    <3>2. elapsed' \in 0..Frame!Longest /\ stale' \in Nat
      BY <1>3, <2>1
    <3>3. \A i \in DOMAIN toasts' : toasts'[i].left \in 0..Lifetime[toasts'[i].text]
      BY <1>1, <1>6, <1>7
    <3>. QED  BY <1>1, <1>2, <1>10, <2>1, <2>2, <3>1, <3>2, <3>3 DEF Frame!TypeOK
  <2>4. Frame!ScreenIsFresh'
    BY <1>3, <2>1 DEF Frame!ScreenIsFresh, FrameMost, Frame!InputWait
  <2>5. Frame!ShownInv'
    BY <1>1, <2>1 DEF Frame!ShownInv, Frame!Texts
  <2>6. Frame!WaitInv'
    <3>1. wait' \in Nat /\ elapsed' + wait' + 1 <= Frame!Longest
      BY <1>3, <2>1, <2>2 DEF Frame!InputWait
    <3>. QED  BY <1>9, <2>1, <3>1 DEF Frame!WaitInv
  <2>. QED
    BY <1>1, <1>6, <1>8, <2>1, <2>3, <2>4, <2>5, <2>6 DEF Frame!FrameInv
<1>12. CASE ~Frame!RedrawDue(due)
  <2>1. /\ marked' = due /\ wait' = Frame!PollWait(elapsed)
        /\ screen' = screen /\ changed' = changed /\ elapsed' = elapsed /\ stale' = stale
    BY <1>1, <1>12
  <2>2. /\ wait' \in 0..Frame!InputWait
        /\ wait' <= Frame!Larger(policy[1] - elapsed, 0)
        /\ wait' <= Frame!Larger(policy[2] - elapsed, 0)
    BY <1>2, <2>1, PollWaitEnds
  <2>3. wait' \in Nat
    BY <2>2 DEF Frame!InputWait
  <2>4. /\ due => elapsed < policy[1]
        /\ ~due => elapsed < policy[1] \/ elapsed < policy[2]
    BY <1>2, <1>3, <1>12 DEF Frame!RedrawDue
  <2>5. /\ elapsed + wait' + 1 <= Frame!Longest
        /\ due => elapsed + wait' <= policy[1]
    <3>1. CASE elapsed < policy[1]
      <4>1. Frame!Larger(policy[1] - elapsed, 0) = policy[1] - elapsed
        BY <1>2, <1>3, <3>1 DEF Frame!Larger
      <4>2. wait' <= policy[1] - elapsed
        BY <2>2, <4>1
      <4>3. elapsed + wait' <= policy[1] /\ elapsed + wait' + 1 <= policy[1] + 1
        BY <1>2, <1>3, <2>3, <4>2
      <4>4. elapsed + wait' + 1 <= Frame!Longest
        <5>1. elapsed \in Nat /\ policy[1] \in Nat /\ Frame!Longest \in Nat
              /\ policy[1] + 1 <= Frame!Longest /\ wait' \in Nat /\ elapsed + wait' <= policy[1]
          BY <1>2, <1>3, <2>3, <4>3
        <5>2. \A a, b, c, d \in Nat : a + b <= c /\ c + 1 <= d => a + b + 1 <= d
          OBVIOUS
        <5>. QED  BY <5>1, <5>2
      <4>. QED  BY <4>3, <4>4
    <3>2. CASE ~(elapsed < policy[1])
      <4>1. ~due /\ elapsed < policy[2]
        BY <2>4, <3>2
      <4>2. Frame!Larger(policy[1] - elapsed, 0) = 0
        BY <1>2, <1>3, <3>2 DEF Frame!Larger
      <4>3. wait' = 0
        BY <2>2, <2>3, <4>2
      <4>. QED  BY <1>2, <1>3, <4>1, <4>3
    <3>. QED  BY <3>1, <3>2
  <2>6. ASSUME ~due
        PROVE  /\ ~changed /\ screen = Frame!Texts(left) /\ stale = 0
    <3>1. /\ \A j \in 1..Len(toasts) : toasts[j].left > 0
          /\ \A i \in 1..Len(left) : \E j \in 1..Len(toasts) : left[i] = toasts[j]
          /\ \A j \in 1..Len(toasts) : \E i \in 1..Len(left) : left[i] = toasts[j]
      BY <1>5, <2>6 DEF PrunedTo
    <3>2. Frame!Texts(left) = Frame!Texts(toasts)
      <4>1. \A i \in 1..Len(left) : \E j \in 1..Len(toasts) : left[i].text = toasts[j].text
        BY <3>1
      <4>2. \A j \in 1..Len(toasts) : \E i \in 1..Len(left) : left[i].text = toasts[j].text
        BY <3>1
      <4>3. /\ Frame!Texts(left) = {left[i].text : i \in 1..Len(left)}
            /\ Frame!Texts(toasts) = {toasts[i].text : i \in 1..Len(toasts)}
        BY <1>2, <1>6 DEF Frame!Texts
      <4>4. {left[i].text : i \in 1..Len(left)} \subseteq {toasts[i].text : i \in 1..Len(toasts)}
        BY <4>1
      <4>5. {toasts[i].text : i \in 1..Len(toasts)} \subseteq {left[i].text : i \in 1..Len(left)}
        BY <4>2
      <4>. QED  BY <4>3, <4>4, <4>5
    <3>3. ~Frame!Expired
      BY <1>2, <3>1 DEF Frame!Expired
    <3>. QED
      BY <1>2, <2>6, <3>2, <3>3 DEF Frame!FrameInv, Frame!ShownInv
  <2>7. Frame!TypeOK'
    BY <1>1, <1>2, <1>6, <1>7, <2>1, <2>2 DEF Frame!TypeOK
  <2>8. Frame!ScreenIsFresh'
    BY <2>1 DEF Frame!FrameInv, Frame!ScreenIsFresh
  <2>9. Frame!ShownInv'
    <3>1. Frame!Texts(toasts)' = Frame!Texts(left)
      BY <1>1 DEF Frame!Texts
    <3>2. stale = 0 => ~(stale > 0)
      OBVIOUS
    <3>. QED  BY <2>1, <2>6, <3>1, <3>2 DEF Frame!ShownInv
  <2>10. Frame!WaitInv'
    BY <1>1, <1>9, <2>1, <2>5, <2>6 DEF Frame!WaitInv
  <2>. QED
    BY <1>1, <1>2, <1>6, <1>8, <2>1, <2>7, <2>8, <2>9, <2>10 DEF Frame!FrameInv
<1>. QED  BY <1>11, <1>12

\* A tick: toasts age, and a screen that was not true gets staler.
LEMMA PassesAges ==
    ASSUME Frame!FrameInv, Frame!Passes, elapsed + 1 <= Frame!Longest
    PROVE  /\ elapsed' = elapsed + 1
           /\ stale' \in Nat /\ stale' <= elapsed'
           /\ stale' = 0 \/ stale' = stale + 1
           /\ ~marked /\ ~Frame!Expired => stale' = 0
           /\ toasts' \in Seq(Frame!ToastType)
           /\ \A i \in DOMAIN toasts' : toasts'[i].left \in 0..Lifetime[toasts'[i].text]
           /\ Frame!ToastsAreFew'
           /\ Frame!ShownInv'
<1>1. /\ elapsed' = Frame!Smaller(elapsed + 1, Frame!Longest)
      /\ toasts' = [i \in DOMAIN toasts |-> [toasts[i] EXCEPT !.left = Frame!Larger(@ - 1, 0)]]
      /\ stale' = IF Frame!IsTrue THEN 0 ELSE stale + 1
      /\ UNCHANGED <<policy, marked, full, screen, changed>>
  BY DEF Frame!Passes
<1>2. /\ policy \in Policies /\ elapsed \in Nat /\ stale \in Nat /\ stale <= elapsed
      /\ toasts \in Seq(Frame!ToastType) /\ Len(toasts) \in Nat
      /\ DOMAIN toasts = 1..Len(toasts)
  BY LenProperties DEF Frame!FrameInv, Frame!TypeOK
<1>3. Frame!Longest \in Nat
  BY <1>2, IntervalsAreBounded
<1>4. elapsed' = elapsed + 1
  BY <1>1, <1>2, <1>3 DEF Frame!Smaller
<1>5. /\ stale' \in Nat /\ stale' <= elapsed'
      /\ stale' = 0 \/ stale' = stale + 1
  BY <1>1, <1>2, <1>4
<1>6. /\ toasts' = [i \in 1..Len(toasts) |-> [toasts[i] EXCEPT !.left = Frame!Larger(@ - 1, 0)]]
      /\ \A i \in 1..Len(toasts) : toasts[i] \in Frame!ToastType
  BY <1>1, <1>2, ElementOfSeq
<1>7. \A i \in 1..Len(toasts) :
        /\ toasts'[i] \in Frame!ToastType
        /\ toasts'[i].text = toasts[i].text
        /\ toasts'[i].left = Frame!Larger(toasts[i].left - 1, 0)
        /\ toasts[i].left \in Nat
  BY <1>6 DEF Frame!ToastType, Frame!Larger
<1>8. toasts' \in Seq(Frame!ToastType) /\ Len(toasts') = Len(toasts)
      /\ DOMAIN toasts' = 1..Len(toasts)
  <2>1. toasts' \in [1..Len(toasts) -> Frame!ToastType]
    BY <1>6, <1>7
  <2>. QED  BY <1>2, <2>1, SeqDef, LenProperties
<1>9. \A i \in DOMAIN toasts' : toasts'[i].left \in 0..Lifetime[toasts'[i].text]
  <2> SUFFICES ASSUME NEW i \in 1..Len(toasts)
               PROVE  toasts'[i].left \in 0..Lifetime[toasts'[i].text]
    BY <1>8
  <2>1. toasts[i].left \in 0..Lifetime[toasts[i].text]
    BY <1>2 DEF Frame!FrameInv, Frame!TypeOK
  <2>2. Lifetime[toasts[i].text] \in Nat
    BY <1>6, FrameAssumption DEF Frame!FrameConstants, Frame!ToastType
  <2>. QED  BY <1>7, <2>1, <2>2 DEF Frame!Larger
<1>10. Frame!ToastsAreFew'
  BY <1>2, <1>7, <1>8 DEF Frame!FrameInv, Frame!ToastsAreFew
<1>11. Frame!Texts(toasts)' = Frame!Texts(toasts)
  BY <1>2, <1>7, <1>8 DEF Frame!Texts
<1>12. ASSUME ~marked PROVE ~changed /\ screen = Frame!Texts(toasts) /\ (stale > 0 => Frame!Expired)
  BY <1>12 DEF Frame!FrameInv, Frame!ShownInv
<1>13. ASSUME ~marked, ~Frame!Expired PROVE stale' = 0
  <2>1. \A j \in DOMAIN toasts : toasts[j].left > 0
    BY <1>2, <1>7, <1>13 DEF Frame!Expired
  <2>2. {toasts[i].text : i \in {j \in DOMAIN toasts : toasts[j].left > 0}} = Frame!Texts(toasts)
    BY <2>1 DEF Frame!Texts
  <2>3. Frame!IsTrue
    BY <1>12, <1>13, <2>2 DEF Frame!IsTrue
  <2>. QED  BY <1>1, <2>3
<1>14. ASSUME Frame!Expired PROVE Frame!Expired'
  <2>1. PICK i \in 1..Len(toasts) : toasts[i].left = 0
    BY <1>2, <1>14 DEF Frame!Expired
  <2>2. toasts'[i].left = 0
    BY <1>7, <2>1 DEF Frame!Larger
  <2>. QED  BY <1>8, <2>1, <2>2 DEF Frame!Expired
<1>15. Frame!ShownInv'
  <2> SUFFICES ASSUME ~marked'
               PROVE  /\ ~changed' /\ screen' = Frame!Texts(toasts)'
                      /\ stale' > 0 => Frame!Expired'
    BY DEF Frame!ShownInv
  <2>1. ~marked /\ changed' = changed /\ screen' = screen
    BY <1>1
  <2>2. stale' > 0 => Frame!Expired'
    BY <1>5, <1>13, <1>14, <2>1
  <2>. QED  BY <1>11, <1>12, <2>1, <2>2
<1>. QED
  BY <1>4, <1>5, <1>8, <1>9, <1>10, <1>13, <1>15

LEMMA WaitSound ==
    ASSUME Frame!FrameInv, Frame!Wait \/ Frame!TimesOut
    PROVE  Frame!FrameInv'
<1>1. /\ waiting /\ policy \in Policies /\ elapsed \in Nat /\ wait \in 0..Frame!InputWait
      /\ wait \in Nat /\ stale \in Nat
      /\ {marked, full, waiting, changed} \subseteq BOOLEAN
      /\ screen \subseteq DOMAIN Lifetime
  BY DEF Frame!FrameInv, Frame!TypeOK, Frame!Wait, Frame!TimesOut, Frame!InputWait
<1>2. /\ policy[1] \in Nat /\ FrameMost \in Nat /\ policy[1] <= FrameMost /\ Frame!Longest \in Nat
  BY <1>1, IntervalsAreBounded
<1>3. /\ elapsed + wait + 1 <= Frame!Longest
      /\ marked => elapsed + wait <= policy[1]
      /\ ~marked => stale = 0 /\ (wait > 0 => ~Frame!Expired)
      /\ stale <= elapsed
  BY <1>1 DEF Frame!FrameInv, Frame!WaitInv
<1>4. CASE Frame!Passes
  <2>1. elapsed + 1 <= Frame!Longest
    BY <1>1, <1>2, <1>3
  <2>2. /\ elapsed' = elapsed + 1
        /\ stale' \in Nat /\ stale' <= elapsed'
        /\ stale' = 0 \/ stale' = stale + 1
        /\ ~marked /\ ~Frame!Expired => stale' = 0
        /\ toasts' \in Seq(Frame!ToastType)
        /\ \A i \in DOMAIN toasts' : toasts'[i].left \in 0..Lifetime[toasts'[i].text]
        /\ Frame!ToastsAreFew'
        /\ Frame!ShownInv'
    BY <1>4, <2>1, PassesAges
  <2>3. UNCHANGED <<policy, marked, full, screen, changed>>
    BY <1>4 DEF Frame!Passes
  <2>4. stale' <= FrameMost + 1
    BY <1>1, <1>2, <1>3, <2>2
  <2>5. Frame!ScreenIsFresh'
    BY <2>4 DEF Frame!ScreenIsFresh, FrameMost, Frame!InputWait
  <2>6. \/ waiting' = TRUE /\ wait > 0 /\ wait' = wait - 1
        \/ waiting' = FALSE /\ wait' = wait
    BY <1>1 DEF Frame!Wait, Frame!TimesOut
  <2>7. Frame!TypeOK'
    <3>1. wait' \in 0..Frame!InputWait
      <4>1. wait' = wait \/ (wait > 0 /\ wait' = wait - 1)
        BY <2>6
      <4>. QED  BY <1>1, <4>1 DEF Frame!InputWait
    <3>3. waiting' \in BOOLEAN
      BY <2>6
    <3>2. elapsed' \in 0..Frame!Longest
      BY <1>1, <1>2, <2>1, <2>2
    <3>. QED  BY <1>1, <2>2, <2>3, <3>1, <3>2, <3>3 DEF Frame!TypeOK
  <2>8. Frame!WaitInv'
    <3> SUFFICES ASSUME waiting'
                 PROVE  /\ elapsed' + wait' + 1 <= Frame!Longest
                        /\ marked => elapsed' + wait' <= policy[1]
                        /\ ~marked => stale' = 0 /\ wait' = 0
      <4>1. wait' = 0 => ~(wait' > 0)
        OBVIOUS
      <4>. QED  BY <2>3, <4>1 DEF Frame!WaitInv
    <3>1. wait > 0 /\ wait' = wait - 1 /\ wait = 1 /\ wait' = 0
      BY <1>1, <2>6 DEF Frame!InputWait
    <3>. QED  BY <1>1, <1>2, <1>3, <2>2, <3>1
  <2>. QED
    BY <2>2, <2>5, <2>7, <2>8 DEF Frame!FrameInv
<1>5. CASE ~Frame!Passes
  <2>1. waiting' = FALSE /\ wait' = wait
        /\ UNCHANGED <<policy, toasts, marked, full, elapsed, screen, changed, stale>>
    BY <1>5 DEF Frame!Wait, Frame!TimesOut
  <2>. QED
    BY <1>1, <2>1
    DEF Frame!FrameInv, Frame!TypeOK, Frame!ScreenIsFresh, Frame!ToastsAreFew,
        Frame!ShownInv, Frame!WaitInv, Frame!Expired
<1>. QED  BY <1>4, <1>5

\* A toast that is pushed: it refreshes its like, or the oldest makes room.
LEMMA PushedIsSound ==
    ASSUME Frame!FrameInv, NEW said \in DOMAIN Lifetime
    PROVE  LET pushed == Frame!Pushed(toasts, said)
           IN  /\ pushed \in Seq(Frame!ToastType)
               /\ Len(pushed) <= MaxVisible
               /\ \A i \in 1..Len(pushed) : pushed[i].left \in 0..Lifetime[pushed[i].text]
               /\ \A i, j \in 1..Len(pushed) : pushed[i].text = pushed[j].text => i = j
<1> DEFINE new == [text |-> said, left |-> Lifetime[said]]
           same == {i \in 1..Len(toasts) : toasts[i].text = said}
           at == Frame!SelectInSeq(toasts, LAMBDA toast : toast.text = said)
           longer == Append(toasts, new)
           pushed == Frame!Pushed(toasts, said)
<1>1. /\ toasts \in Seq(Frame!ToastType) /\ Len(toasts) \in Nat
      /\ DOMAIN toasts = 1..Len(toasts)
      /\ Len(toasts) <= MaxVisible /\ MaxVisible \in Nat
      /\ \A i \in 1..Len(toasts) : toasts[i].left \in 0..Lifetime[toasts[i].text]
      /\ \A i, j \in 1..Len(toasts) : toasts[i].text = toasts[j].text => i = j
  BY LenProperties, FrameAssumption
  DEF Frame!FrameInv, Frame!TypeOK, Frame!ToastsAreFew, Frame!FrameConstants
<1>2. /\ new \in Frame!ToastType /\ new.left \in 0..Lifetime[new.text] /\ new.text = said
  BY FrameAssumption DEF Frame!FrameConstants, Frame!ToastType
<1>3. at = IF same # {} THEN Frame!Min(same) ELSE 0
  BY DEF Frame!SelectInSeq
<1>4. pushed = IF at # 0 THEN [toasts EXCEPT ![at] = new]
               ELSE IF Len(longer) > MaxVisible THEN Tail(longer) ELSE longer
  BY DEF Frame!Pushed, Frame!ReplaceAt
<1>. HIDE DEF at, new, pushed
<1>5. CASE same # {}
  <2>1. at \in same /\ at # 0
    <3>1. same \in SUBSET Nat
      BY <1>1
    <3>2. \E m \in same : \A n \in same : m <= n
      BY <1>5, <3>1, LeastNatural
    <3>3. Frame!Min(same) \in same
      <4>. HIDE DEF same
      <4>. QED  BY <3>2 DEF Frame!Min
    <3>4. 0 \notin same
      OBVIOUS
    <3>. QED  BY <1>3, <1>5, <3>3, <3>4
  <2>2. pushed = [toasts EXCEPT ![at] = new]
    BY <1>4, <2>1
  <2>3. /\ pushed \in Seq(Frame!ToastType) /\ Len(pushed) = Len(toasts)
        /\ \A j \in 1..Len(toasts) : pushed[j] = IF j = at THEN new ELSE toasts[j]
    BY <1>1, <1>2, <2>1, <2>2, ExceptSeq
  <2>4. toasts[at].text = said /\ at \in 1..Len(toasts)
    BY <2>1
  <2>5. \A j \in 1..Len(toasts) : pushed[j].text = toasts[j].text
    BY <1>2, <2>3, <2>4
  <2>6. \A j \in 1..Len(toasts) : pushed[j].left \in 0..Lifetime[pushed[j].text]
    BY <1>1, <1>2, <2>3
  <2>. QED  BY <1>1, <2>3, <2>5, <2>6 DEF pushed
<1>6. CASE same = {}
  <2>1. at = 0
    BY <1>3, <1>6
  <2>2. /\ longer \in Seq(Frame!ToastType) /\ Len(longer) = Len(toasts) + 1 /\ longer # <<>>
        /\ \A i \in 1..Len(toasts) : longer[i] = toasts[i]
        /\ longer[Len(toasts) + 1] = new
    BY <1>1, <1>2, AppendProperties
  <2>. HIDE DEF longer
  <2>3. \A i \in 1..Len(longer) : i \in 1..Len(toasts) \/ i = Len(toasts) + 1
    BY <1>1, <2>2
  <2>4. \A i \in 1..Len(longer) : longer[i].left \in 0..Lifetime[longer[i].text]
    BY <1>1, <1>2, <2>2, <2>3
  <2>5. \A i, j \in 1..Len(longer) : longer[i].text = longer[j].text => i = j
    <3>1. \A i \in 1..Len(toasts) : toasts[i].text # said
      BY <1>6
    <3>. QED  BY <1>1, <1>2, <2>2, <2>3, <3>1
  <2>6. CASE Len(longer) > MaxVisible
    <3>1. pushed = Tail(longer)
      BY <1>4, <2>1, <2>6
    <3>2. /\ Tail(longer) \in Seq(Frame!ToastType) /\ Len(Tail(longer)) = Len(longer) - 1
          /\ \A i \in 1..Len(Tail(longer)) : Tail(longer)[i] = longer[i + 1]
      BY <2>2, HeadTailProperties
    <3>3. \A i \in 1..Len(Tail(longer)) : i + 1 \in 1..Len(longer)
      BY <1>1, <2>2, <3>2
    <3>4. \A i \in 1..Len(Tail(longer)) :
            Tail(longer)[i].left \in 0..Lifetime[Tail(longer)[i].text]
      BY <2>4, <3>2, <3>3
    <3>5. \A i, j \in 1..Len(Tail(longer)) :
            Tail(longer)[i].text = Tail(longer)[j].text => i = j
      <4> SUFFICES ASSUME NEW i \in 1..Len(Tail(longer)), NEW j \in 1..Len(Tail(longer)),
                          Tail(longer)[i].text = Tail(longer)[j].text
                   PROVE  i = j
        OBVIOUS
      <4>1. i + 1 = j + 1
        BY <2>5, <3>2, <3>3
      <4>2. i \in Int /\ j \in Int
        OBVIOUS
      <4>. QED  BY <4>1, <4>2
    <3>6. Len(Tail(longer)) <= MaxVisible
      BY <1>1, <2>2, <3>2
    <3>. QED  BY <3>1, <3>2, <3>4, <3>5, <3>6 DEF pushed
  <2>7. CASE ~(Len(longer) > MaxVisible)
    <3>1. pushed = longer
      BY <1>4, <2>1, <2>7
    <3>2. Len(longer) <= MaxVisible
      BY <1>1, <2>2, <2>7
    <3>. QED  BY <2>2, <2>4, <2>5, <3>1, <3>2 DEF pushed
  <2>. QED  BY <2>6, <2>7
<1>. QED  BY <1>5, <1>6

LEMMA EventSound ==
    ASSUME Frame!FrameInv, Frame!Event
    PROVE  Frame!FrameInv'
<1>1. /\ waiting' = FALSE /\ changed' = TRUE /\ marked' = TRUE
      /\ toasts' \in {toasts} \cup {Frame!Pushed(toasts, t) : t \in DOMAIN Lifetime}
      /\ policy' \in Policies
      /\ full' \in {full, policy' # policy}
      /\ elapsed' = elapsed /\ wait' = wait /\ screen' = screen /\ stale' = stale
  BY DEF Frame!Event
<1>2. /\ toasts \in Seq(Frame!ToastType) /\ Len(toasts) <= MaxVisible
      /\ DOMAIN toasts = 1..Len(toasts)
      /\ \A i \in 1..Len(toasts) : toasts[i].left \in 0..Lifetime[toasts[i].text]
      /\ \A i, j \in 1..Len(toasts) : toasts[i].text = toasts[j].text => i = j
  BY LenProperties DEF Frame!FrameInv, Frame!TypeOK, Frame!ToastsAreFew
<1>3. /\ toasts' \in Seq(Frame!ToastType) /\ Len(toasts') <= MaxVisible
      /\ \A i \in 1..Len(toasts') : toasts'[i].left \in 0..Lifetime[toasts'[i].text]
      /\ \A i, j \in 1..Len(toasts') : toasts'[i].text = toasts'[j].text => i = j
  <2>1. CASE toasts' = toasts
    BY <1>2, <2>1
  <2>2. CASE \E t \in DOMAIN Lifetime : toasts' = Frame!Pushed(toasts, t)
    BY <2>2, PushedIsSound
  <2>. QED  BY <1>1, <2>1, <2>2
<1>4. DOMAIN toasts' = 1..Len(toasts')
  BY <1>3, LenProperties
<1>5. Frame!TypeOK'
  <2>1. {marked', full', waiting', changed'} \subseteq BOOLEAN
    <3>1. full \in BOOLEAN
      BY DEF Frame!FrameInv, Frame!TypeOK
    <3>. QED  BY <1>1, <3>1
  <2>2. \A i \in DOMAIN toasts' : toasts'[i].left \in 0..Lifetime[toasts'[i].text]
    BY <1>3, <1>4
  <2>. QED  BY <1>1, <2>1, <2>2 DEF Frame!FrameInv, Frame!TypeOK
<1>6. Frame!ToastsAreFew'
  BY <1>3, <1>4 DEF Frame!ToastsAreFew
<1>7. Frame!ScreenIsFresh' /\ Frame!ShownInv' /\ Frame!WaitInv' /\ stale' <= elapsed'
  BY <1>1 DEF Frame!FrameInv, Frame!ScreenIsFresh, Frame!ShownInv, Frame!WaitInv
<1>. QED  BY <1>3, <1>5, <1>6, <1>7 DEF Frame!FrameInv

\* The screen is put right in time, whatever the policies, the toasts and their
\* lifetimes.
THEOREM FrameSound == Frame!Spec => []FrameInvariant
<1>1. Frame!FrameInv /\ [Frame!Next]_(Frame!vars) => Frame!FrameInv'
  <2> SUFFICES ASSUME Frame!FrameInv, [Frame!Next]_(Frame!vars) PROVE Frame!FrameInv'
    OBVIOUS
  <2>1. CASE UNCHANGED Frame!vars
    BY <2>1
    DEF Frame!vars, Frame!FrameInv, Frame!TypeOK, Frame!ScreenIsFresh, Frame!ToastsAreFew,
        Frame!ShownInv, Frame!WaitInv, Frame!Expired
  <2>. QED  BY <2>1, IterateSound, WaitSound, EventSound DEF Frame!Next
<1>2. Frame!FrameInv => FrameInvariant
  BY DEF FrameInvariant, Frame!FrameInvariant, Frame!FrameInv
<1>. QED  BY <1>1, <1>2, FrameInitSound, PTL DEF Frame!Spec

-----------------------------------------------------------------------------
(* The limits of a search and their snapshot.                              *)

Tables == [Limits!LimitFields -> Nat]

\* Limits that a snapshot may have, one by one.
Fair(l) ==
    /\ l["cpu_workers"] > 0 /\ l["chunk_size"] > 0 /\ l["queue_depth"] > 0
    /\ l["memory_limit_mb"] > 0 /\ l["checkpoint_every_secs"] > 0
    /\ 0 < l["cpu_utilization"] /\ l["cpu_utilization"] <= 100
    /\ l["gpu_utilization"] <= 100
    /\ 16 <= l["ui_refresh_ms"] /\ l["ui_refresh_ms"] <= 60000
    /\ 0 < l["max_fps"] /\ l["max_fps"] <= 120

\* The range of every limit, of all of them (validate_settings).
LEMMA FairIsValid ==
    ASSUME NEW l \in Tables
    PROVE  Limits!ValidLimits(l) <=> Fair(l)
<1>1. DOMAIN l = Limits!LimitFields
  BY DEF Tables
<1>. QED
  BY <1>1 DEF Tables, Limits!ValidLimits, Fair, Limits!ValidValue, Limits!LimitFields

\* The table of a profile has limits that a snapshot may have (for_profile).
LEMMA TableIsFair ==
    ASSUME NEW p \in Limits!Profiles, NEW c \in Nat \ {0}, NEW m
    PROVE  Limits!ProfileTable(p, c, m) \in Tables /\ Fair(Limits!ProfileTable(p, c, m))
<1>. DEFINE base == IF m = "emergence" THEN 65536 ELSE 50000
            chunk == Limits!Most(base \div 4, 64)
            two == Limits!Least(c, 2)
            half == Limits!Most(c \div 2, 1)
            most == Limits!Most(c - 1, 1)
<1>1. /\ base \in Nat \ {0} /\ chunk \in Nat \ {0} /\ two \in Nat \ {0}
      /\ half \in Nat \ {0} /\ most \in Nat \ {0}
  BY DEF Limits!Least, Limits!Most
<1>2. CASE p = "eco"
  <2>1. Limits!ProfileTable(p, c, m) =
            [cpu_workers |-> two, cpu_utilization |-> 25, gpu_utilization |-> 0,
             chunk_size |-> chunk, queue_depth |-> 1, memory_limit_mb |-> 128,
             ui_refresh_ms |-> 750, checkpoint_every_secs |-> 10,
             background_yield_ms |-> 25, max_fps |-> 2]
    BY <1>2 DEF Limits!ProfileTable
  <2>. HIDE DEF two, chunk
  <2>. QED  BY <1>1, <2>1 DEF Tables, Fair, Limits!LimitFields
<1>3. CASE p \in {"balanced", "custom"}
  <2>1. Limits!ProfileTable(p, c, m) =
            [cpu_workers |-> half, cpu_utilization |-> 60, gpu_utilization |-> 50,
             chunk_size |-> base, queue_depth |-> 2, memory_limit_mb |-> 512,
             ui_refresh_ms |-> 150, checkpoint_every_secs |-> 5,
             background_yield_ms |-> 0, max_fps |-> 10]
    BY <1>3 DEF Limits!ProfileTable
  <2>. HIDE DEF half, base
  <2>. QED  BY <1>1, <2>1 DEF Tables, Fair, Limits!LimitFields
<1>4. CASE p = "performance"
  <2>1. Limits!ProfileTable(p, c, m) =
            [cpu_workers |-> most, cpu_utilization |-> 90, gpu_utilization |-> 80,
             chunk_size |-> base * 4, queue_depth |-> 3, memory_limit_mb |-> 1024,
             ui_refresh_ms |-> 80, checkpoint_every_secs |-> 5,
             background_yield_ms |-> 0, max_fps |-> 20]
    BY <1>4 DEF Limits!ProfileTable
  <2>2. base * 4 \in Nat \ {0}
    BY <1>1
  <2>. HIDE DEF most, base
  <2>. QED  BY <1>1, <2>1, <2>2 DEF Tables, Fair, Limits!LimitFields
<1>5. CASE p = "max"
  <2>1. Limits!ProfileTable(p, c, m) =
            [cpu_workers |-> c, cpu_utilization |-> 100, gpu_utilization |-> 100,
             chunk_size |-> base * 8, queue_depth |-> 4, memory_limit_mb |-> 2048,
             ui_refresh_ms |-> 50, checkpoint_every_secs |-> 3,
             background_yield_ms |-> 0, max_fps |-> 30]
    BY <1>5 DEF Limits!ProfileTable
  <2>2. base * 8 \in Nat \ {0}
    BY <1>1
  <2>. HIDE DEF base
  <2>. QED  BY <1>1, <2>1, <2>2 DEF Tables, Fair, Limits!LimitFields
<1>. QED  BY <1>2, <1>3, <1>4, <1>5 DEF Limits!Profiles

\* So has every thermal mode of it.
LEMMA ProfileIsFair ==
    ASSUME NEW p \in Limits!Profiles, NEW t \in Limits!Thermals, NEW c \in Nat \ {0}, NEW m
    PROVE  Limits!ForProfile(p, t, c, m) \in Tables /\ Fair(Limits!ForProfile(p, t, c, m))
<1>. DEFINE l == Limits!ProfileTable(p, c, m)
            f == Limits!ForProfile(p, t, c, m)
<1>1. l \in Tables /\ Fair(l)
  BY TableIsFair
<1>2. CASE t = "normal"
  BY <1>1, <1>2 DEF Limits!ForProfile
<1>3. CASE t = "quiet"
  <2>1. f = [l EXCEPT !.cpu_utilization = Limits!Least(@, 35),
                      !.ui_refresh_ms = Limits!Most(@, 750),
                      !.background_yield_ms = Limits!Most(@, 30),
                      !.chunk_size = Limits!Most(@ \div 2, 32), !.max_fps = Limits!Least(@, 3)]
    BY <1>3 DEF Limits!ForProfile
  <2>. HIDE DEF l, f
  <2>2. /\ Limits!Least(l.cpu_utilization, 35) \in Nat
        /\ Limits!Most(l.ui_refresh_ms, 750) \in Nat
        /\ Limits!Most(l.background_yield_ms, 30) \in Nat
        /\ Limits!Most(l.chunk_size \div 2, 32) \in Nat
        /\ Limits!Least(l.max_fps, 3) \in Nat
    BY <1>1 DEF Limits!Least, Limits!Most, Tables, Limits!LimitFields
  <2>3. f \in Tables
    BY <1>1, <2>1, <2>2 DEF Tables
  <2>4. Fair(f)
    BY <1>1, <2>1 DEF Limits!Least, Limits!Most, Tables, Limits!LimitFields, Fair
  <2>. QED  BY <2>3, <2>4 DEF f
<1>4. CASE t = "aggressive"
  <2>1. f = [l EXCEPT !.cpu_utilization = Limits!Most(@, 85), !.chunk_size = @ * 2,
                      !.ui_refresh_ms = Limits!Least(@, 80), !.background_yield_ms = 0]
    BY <1>4 DEF Limits!ForProfile
  <2>. HIDE DEF l, f
  <2>2. /\ Limits!Most(l.cpu_utilization, 85) \in Nat /\ l.chunk_size * 2 \in Nat
        /\ Limits!Least(l.ui_refresh_ms, 80) \in Nat
    BY <1>1 DEF Limits!Least, Limits!Most, Tables, Limits!LimitFields
  <2>3. f \in Tables
    BY <1>1, <2>1, <2>2 DEF Tables
  <2>4. Fair(f)
    BY <1>1, <2>1 DEF Limits!Least, Limits!Most, Tables, Limits!LimitFields, Fair
  <2>. QED  BY <2>3, <2>4 DEF f
<1>. QED  BY <1>2, <1>3, <1>4 DEF Limits!Thermals

\* What is given is put within its bounds (apply).
LEMMA AppliedIsFair ==
    ASSUME NEW l \in Tables, Fair(l), NEW options, Limits!OptionsType(options)
    PROVE  Limits!Apply(l, options) \in Tables /\ Fair(Limits!Apply(l, options))
<1>. DEFINE a == Limits!Apply(l, options)
<1>1. ASSUME NEW f \in Limits!LimitFields
      PROVE  a[f] \in Nat /\ Limits!ValidValue(f, a[f])
  <2>1. a[f] = IF f \in DOMAIN options THEN Limits!Bounded(f, options[f]) ELSE l[f]
    BY DEF Limits!Apply
  <2>2. l[f] \in Nat /\ Limits!ValidValue(f, l[f])
    BY FairIsValid DEF Tables, Limits!ValidLimits
  <2>3. ASSUME f \in DOMAIN options
        PROVE  /\ Limits!Bounded(f, options[f]) \in Nat
               /\ Limits!ValidValue(f, Limits!Bounded(f, options[f]))
    <3>1. /\ options[f] \in Nat
          /\ f \in Limits!Ranged => Limits!ValidValue(f, options[f])
      BY <2>3 DEF Limits!OptionsType
    <3>. QED
      BY <3>1 DEF Limits!Bounded, Limits!ValidValue, Limits!Ranged, Limits!LimitFields,
                  Limits!Least, Limits!Most
  <2>. QED  BY <2>1, <2>2, <2>3
<1>2. a = [f \in Limits!LimitFields |-> a[f]]
  BY DEF Limits!Apply
<1>. HIDE DEF a
<1>3. a \in Tables
  BY <1>1, <1>2 DEF Tables
<1>4. Limits!ValidLimits(a)
  BY <1>1, <1>3 DEF Tables, Limits!ValidLimits
<1>. QED  BY <1>3, <1>4, FairIsValid DEF a

\* Within its bounds, what has a range is as it was given (apply, validate_overrides).
LEMMA BoundsKeepValid ==
    ASSUME NEW f \in Limits!LimitFields, NEW v \in Nat, Limits!ValidValue(f, v)
    PROVE  Limits!Bounded(f, v) = v
BY DEF Limits!Bounded, Limits!ValidValue, Limits!LimitFields, Limits!Least, Limits!Most

LEMMA NoOptions == Limits!OptionsType(<<>>)
BY DEF Limits!OptionsType

\* Settings from a profile are those of a search that can be stored (from_profile).
LEMMA SettingsAreFair ==
    ASSUME Limits!LimitsConstants, cores \in Cores, NEW p \in Limits!Profiles,
           NEW t \in Limits!Thermals, NEW m, NEW options, Limits!OptionsType(options)
    PROVE  LET s == Limits!FromProfile(p, t, m, options)
           IN s \in Limits!SettingsType /\ Fair(s.limits) /\ s.thermal = t
<1>1. cores \in Nat \ {0}
  BY DEF Limits!LimitsConstants
<1>2. /\ Limits!Apply(Limits!ForProfile(p, t, cores, m), options) \in Tables
      /\ Fair(Limits!Apply(Limits!ForProfile(p, t, cores, m), options))
  BY <1>1, ProfileIsFair, AppliedIsFair
<1>. QED  BY <1>2 DEF Limits!FromProfile, Limits!SettingsType, Tables

LEMMA NothingIsFair ==
    ASSUME Limits!LimitsConstants, cores \in Cores
    PROVE  Limits!Nothing \in Limits!SettingsType /\ Fair(Limits!Nothing.limits)
BY SettingsAreFair, NoOptions DEF Limits!Nothing, Limits!Profiles, Limits!Thermals

\* Options of a resume take their place as they are (merge_resume_snapshot).
LEMMA MergedTyped ==
    ASSUME NEW s \in Limits!SettingsType, NEW p \in Limits!Profiles, NEW options,
           Limits!OptionsType(options)
    PROVE  LET r == Limits!Merged(s, p, options)
           IN /\ r \in Limits!SettingsType
              /\ Fair(s.limits) /\ Limits!ValidLimits(options) => Fair(r.limits)
<1>. DEFINE r == Limits!Merged(s, p, options)
            l == [f \in Limits!LimitFields |->
                    IF f \in DOMAIN options THEN options[f] ELSE s.limits[f]]
<1>1. s.limits \in Tables
  BY DEF Limits!SettingsType, Tables
<1>2. l \in Tables
  BY <1>1 DEF Tables, Limits!OptionsType
<1>3. r \in Limits!SettingsType /\ r.limits = l
  BY <1>2 DEF Limits!Merged, Limits!SettingsType, Tables
<1>4. ASSUME Fair(s.limits), Limits!ValidLimits(options)
      PROVE  Fair(l)
  <2>1. \A f \in Limits!LimitFields : Limits!ValidValue(f, s.limits[f])
    BY <1>1, <1>4, FairIsValid DEF Tables, Limits!ValidLimits
  <2>2. \A f \in DOMAIN l : Limits!ValidValue(f, l[f])
    BY <1>4, <2>1 DEF Limits!ValidLimits
  <2>. QED  BY <1>2, <2>2, FairIsValid DEF Limits!ValidLimits
<1>. QED  BY <1>3, <1>4

\* A JSON value is of the kind it is.
LEMMA JsonNumber ==
    ASSUME NEW n
    PROVE  /\ Limits!KindOf(Limits!Number(n)) = "number" /\ Limits!ValueOf(Limits!Number(n)) = n
           /\ Limits!Number(n) # Limits!Null
<1>1. DOMAIN Limits!Number(n) = {"number"} /\ DOMAIN Limits!Null = {"null"}
  BY DEF Limits!Number, Limits!Null
<1>2. Limits!KindOf(Limits!Number(n)) = "number"
  BY <1>1 DEF Limits!KindOf
<1>. QED  BY <1>1, <1>2 DEF Limits!ValueOf, Limits!Number

LEMMA JsonSettings ==
    ASSUME NEW s
    PROVE  /\ Limits!KindOf(Limits!SettingsJson(s)) = "settings"
           /\ Limits!ValueOf(Limits!SettingsJson(s)) = s
<1>1. DOMAIN Limits!SettingsJson(s) = {"settings"}
  BY DEF Limits!SettingsJson
<1>2. Limits!KindOf(Limits!SettingsJson(s)) = "settings"
  BY <1>1 DEF Limits!KindOf
<1>. QED  BY <1>2 DEF Limits!ValueOf, Limits!SettingsJson

LEMMA JsonKinds ==
    ASSUME NEW j \in Limits!Json
    PROVE  /\ Limits!KindOf(j) = "number" => Limits!ValueOf(j) \in Int
           /\ Limits!KindOf(j) = "settings" => Limits!ValueOf(j) \in Limits!SettingsType
<1>1. CASE j \in [number : Int]
  <2>1. DOMAIN j = {"number"} /\ j.number \in Int
    BY <1>1
  <2>2. Limits!KindOf(j) = "number"
    BY <2>1 DEF Limits!KindOf
  <2>. QED  BY <2>1, <2>2 DEF Limits!ValueOf
<1>2. CASE j \in [settings : Limits!SettingsType]
  <2>1. DOMAIN j = {"settings"} /\ j.settings \in Limits!SettingsType
    BY <1>2
  <2>2. Limits!KindOf(j) = "settings"
    BY <2>1 DEF Limits!KindOf
  <2>. QED  BY <2>1, <2>2 DEF Limits!ValueOf
<1>3. CASE j \in [text : STRING]
  <2>1. DOMAIN j = {"text"}
    BY <1>3
  <2>2. Limits!KindOf(j) = "text"
    BY <2>1 DEF Limits!KindOf
  <2>. QED  BY <2>2
<1>4. CASE j \in [bool : BOOLEAN]
  <2>1. DOMAIN j = {"bool"}
    BY <1>4
  <2>2. Limits!KindOf(j) = "bool"
    BY <2>1 DEF Limits!KindOf
  <2>. QED  BY <2>2
<1>5. CASE j \in [null : {0}]
  <2>1. DOMAIN j = {"null"}
    BY <1>5
  <2>2. Limits!KindOf(j) = "null"
    BY <2>1 DEF Limits!KindOf
  <2>. QED  BY <2>2
<1>. QED  BY <1>1, <1>2, <1>3, <1>4, <1>5 DEF Limits!Json

\* What a type takes: a number of eight bits or of any size, not below zero.
LEMMA UnsignedIs ==
    ASSUME NEW j \in Limits!Json
    PROVE  /\ Limits!Is(j, "unsigned") => Limits!ValueOf(j) \in Nat
           /\ Limits!Is(j, "u8") => Limits!ValueOf(j) \in Nat
           /\ Limits!Is(j, "profile") => Limits!ValueOf(j) \in Limits!Profiles
           /\ Limits!Is(j, "thermal") => Limits!ValueOf(j) \in Limits!Thermals
<1>1. Limits!Is(j, "unsigned") => Limits!ValueOf(j) \in Nat
  BY JsonKinds DEF Limits!Is
<1>2. Limits!Is(j, "u8") => Limits!ValueOf(j) \in Nat
  BY JsonKinds DEF Limits!Is
<1>3. Limits!Is(j, "profile") => Limits!ValueOf(j) \in Limits!Profiles
  BY DEF Limits!Is
<1>4. Limits!Is(j, "thermal") => Limits!ValueOf(j) \in Limits!Thermals
  BY DEF Limits!Is
<1>. QED  BY <1>1, <1>2, <1>3, <1>4

LEMMA NumberIsUnsigned ==
    ASSUME NEW n \in Nat
    PROVE  Limits!Is(Limits!Number(n), "unsigned")
BY JsonNumber DEF Limits!Is

\* A snapshot that has been read: settings that can be stored, a position, and
\* what nobody knows.
IsSnapshot(d) ==
    /\ d = [settings |-> d.settings, offset |-> d.offset, extra |-> d.extra]
    /\ d.settings \in Limits!SettingsType
    /\ d.offset \in Nat \cup {Limits!NoOffset}
    /\ d.extra = [k \in DOMAIN d.extra |-> d.extra[k]]
ReadWell(d) == IsSnapshot(d) /\ Fair(d.settings.limits)

\* An object of this version, read (decode_v1).
LEMMA V1IsRead ==
    ASSUME NEW o, Limits!TakesV1(o), o["settings"] \in Limits!Json,
           "current_offset" \in DOMAIN o => o["current_offset"] \in Limits!Json
    PROVE  ReadWell(Limits!DecodeV1(o))
<1>. DEFINE s == Limits!ValueOf(o["settings"])
            f == IF "current_offset" \in DOMAIN o /\ o["current_offset"] # Limits!Null
                 THEN Limits!ValueOf(o["current_offset"]) ELSE Limits!NoOffset
            e == Limits!Without(o, Limits!V1Keys)
<1>1. Limits!DecodeV1(o) = [settings |-> s, offset |-> f, extra |-> e]
  BY DEF Limits!DecodeV1
<1>2. s \in Limits!SettingsType
  BY JsonKinds DEF Limits!TakesV1
<1>3. Fair(s.limits)
  BY <1>2, FairIsValid DEF Limits!TakesV1, Limits!SettingsType, Tables
<1>4. f \in Nat \cup {Limits!NoOffset}
  BY UnsignedIs DEF Limits!TakesV1
<1>5. e = [k \in DOMAIN e |-> e[k]]
  BY DEF Limits!Without
<1>. HIDE DEF s, f, e
<1>. QED  BY <1>1, <1>2, <1>3, <1>4, <1>5 DEF ReadWell, IsSnapshot

\* The keys of limits in an object of an earlier version: each is typed, and
\* stands for one limit (LegacyTypes, LegacyLimit).
LEMMA LegacyKeyTyped ==
    ASSUME NEW o, NEW k \in Limits!LegacyKeys(o)
    PROVE  /\ k \in DOMAIN o /\ k \in DOMAIN Limits!LegacyTypes
           /\ Limits!LegacyTypes[k] \in {"u8", "unsigned"}
           /\ Limits!LegacyLimit(k) \in Limits!LimitFields
<1>1. /\ k \in DOMAIN o /\ k \in DOMAIN Limits!LegacyTypes
      /\ Limits!LegacyLimit(k) \in Limits!LimitFields
  BY DEF Limits!LegacyKeys
<1>2. k \in {"workers", "checkpoint_every"} \cup (Limits!LimitFields \ {"checkpoint_every_secs"})
  BY <1>1 DEF Limits!LegacyLimit, Limits!LegacyTypes, Limits!LimitFields
<1>3. Limits!LegacyTypes[k] \in {"u8", "unsigned"}
  BY <1>2 DEF Limits!LegacyTypes, Limits!LimitFields
<1>. QED  BY <1>1, <1>3

LEMMA LegacyKeyIsOne ==
    ASSUME NEW o, Limits!TakesLegacy(o), NEW k \in Limits!LegacyKeys(o),
           NEW m \in Limits!LegacyKeys(o), Limits!LegacyLimit(k) = Limits!LegacyLimit(m)
    PROVE  k = m
<1>1. /\ k \in DOMAIN o /\ m \in DOMAIN o
      /\ k # "checkpoint_every_secs" /\ m # "checkpoint_every_secs"
  BY DEF Limits!LegacyKeys, Limits!LegacyTypes
<1>2. ~({"workers", "cpu_workers"} \subseteq DOMAIN o)
  BY DEF Limits!TakesLegacy, Limits!Aliases
<1>. QED  BY <1>1, <1>2 DEF Limits!LegacyLimit

\* What an earlier snapshot says of the limits are options that need no bounds
\* (validate_overrides).
LEMMA LegacyOptions ==
    ASSUME NEW o, Limits!TakesLegacy(o), \A k \in DOMAIN o : o[k] \in Limits!Json
    PROVE  /\ Limits!OptionsType(Limits!LegacyOverrides(o))
           /\ \A k \in Limits!LegacyKeys(o) :
                 /\ Limits!LegacyLimit(k) \in DOMAIN Limits!LegacyOverrides(o)
                 /\ Limits!LegacyOverrides(o)[Limits!LegacyLimit(k)] = Limits!ValueOf(o[k])
                 /\ Limits!ValueOf(o[k]) \in Nat
                 /\ Limits!ValidValue(Limits!LegacyLimit(k), Limits!ValueOf(o[k]))
<1>. DEFINE g == Limits!LegacyOverrides(o)
            keyOf(f) == CHOOSE k \in Limits!LegacyKeys(o) : Limits!LegacyLimit(k) = f
<1>1. g = [f \in {Limits!LegacyLimit(k) : k \in Limits!LegacyKeys(o)} |->
              Limits!ValueOf(o[keyOf(f)])]
  BY DEF Limits!LegacyOverrides
<1>2. ASSUME NEW k \in Limits!LegacyKeys(o)
      PROVE  /\ Limits!ValueOf(o[k]) \in Nat
             /\ Limits!ValidValue(Limits!LegacyLimit(k), Limits!ValueOf(o[k]))
  <2>1. Limits!Is(o[k], Limits!LegacyTypes[k]) /\ o[k] \in Limits!Json
    BY LegacyKeyTyped DEF Limits!TakesLegacy
  <2>2. Limits!ValueOf(o[k]) \in Nat
    BY <2>1, LegacyKeyTyped, UnsignedIs
  <2>. QED  BY <2>2 DEF Limits!TakesLegacy
<1>3. ASSUME NEW k \in Limits!LegacyKeys(o)
      PROVE  keyOf(Limits!LegacyLimit(k)) = k
  <2>1. /\ keyOf(Limits!LegacyLimit(k)) \in Limits!LegacyKeys(o)
        /\ Limits!LegacyLimit(keyOf(Limits!LegacyLimit(k))) = Limits!LegacyLimit(k)
    OBVIOUS
  <2>. HIDE DEF keyOf
  <2>. QED  BY <2>1, LegacyKeyIsOne
<1>. HIDE DEF g, keyOf
<1>4. ASSUME NEW k \in Limits!LegacyKeys(o)
      PROVE  /\ Limits!LegacyLimit(k) \in DOMAIN g
             /\ g[Limits!LegacyLimit(k)] = Limits!ValueOf(o[k])
  BY <1>1, <1>3
<1>5. ASSUME NEW f \in DOMAIN g
      PROVE  f \in Limits!LimitFields /\ g[f] \in Nat /\ Limits!ValidValue(f, g[f])
  <2>1. PICK k \in Limits!LegacyKeys(o) : f = Limits!LegacyLimit(k)
    BY <1>1
  <2>. QED  BY <1>2, <1>4, <2>1, LegacyKeyTyped
<1>6. Limits!OptionsType(g)
  BY <1>5 DEF Limits!OptionsType
<1>. QED  BY <1>2, <1>4, <1>6 DEF g

\* An object of an earlier version, read (decode_legacy).
LEMMA LegacyIsRead ==
    ASSUME Limits!LimitsConstants, cores \in Cores, NEW o, Limits!TakesLegacy(o),
           \A k \in DOMAIN o : o[k] \in Limits!Json
    PROVE  ReadWell(Limits!DecodeLegacy(o))
<1>. DEFINE p == Limits!Get(o, "profile", "balanced")
            t == Limits!Get(o, "thermal_mode", "normal")
            s == Limits!FromProfile(p, t, "emergence", Limits!LegacyOverrides(o))
            f == Limits!Get(o, "current_offset", Limits!Get(o, "offset", Limits!NoOffset))
            e == Limits!Without(o, DOMAIN Limits!LegacyTypes \cup {"schema_version"})
<1>1. Limits!DecodeLegacy(o) = [settings |-> s, offset |-> f, extra |-> e]
  BY DEF Limits!DecodeLegacy
<1>2. /\ "profile" \in DOMAIN o => Limits!Is(o["profile"], "profile")
      /\ "thermal_mode" \in DOMAIN o => Limits!Is(o["thermal_mode"], "thermal")
      /\ "current_offset" \in DOMAIN o => Limits!Is(o["current_offset"], "unsigned")
      /\ "offset" \in DOMAIN o => Limits!Is(o["offset"], "unsigned")
  BY DEF Limits!TakesLegacy, Limits!LegacyTypes
<1>3. p \in Limits!Profiles
  BY <1>2, UnsignedIs DEF Limits!Get, Limits!Profiles
<1>4. t \in Limits!Thermals
  BY <1>2, UnsignedIs DEF Limits!Get, Limits!Thermals
<1>5. f \in Nat \cup {Limits!NoOffset}
  BY <1>2, UnsignedIs DEF Limits!Get
<1>6. s \in Limits!SettingsType /\ Fair(s.limits)
  BY <1>3, <1>4, LegacyOptions, SettingsAreFair
<1>7. e = [k \in DOMAIN e |-> e[k]]
  BY DEF Limits!Without
<1>. HIDE DEF s, f, e
<1>. QED  BY <1>1, <1>5, <1>6, <1>7 DEF ReadWell, IsSnapshot

\* Whatever is taken is read as settings that can be stored.
LEMMA TakenIsRead ==
    ASSUME Limits!LimitsConstants, cores \in Cores, NEW o, Limits!Takes(o),
           o \in StoredObjects \/ Limits!IsWritten(o)
    PROVE  ReadWell(Limits!Decode(o))
<1>1. CASE o \in StoredObjects
  <2>1. \A k \in DOMAIN o : o[k] \in Limits!Json
    BY <1>1 DEF Limits!LimitsConstants
  <2>2. CASE Limits!SchemaVersion(o) = 1
    <3>1. Limits!TakesV1(o)
      BY <2>2 DEF Limits!Takes
    <3>. QED  BY <2>1, <2>2, <3>1, V1IsRead DEF Limits!Decode, Limits!TakesV1
  <2>3. CASE Limits!SchemaVersion(o) # 1
    <3>1. Limits!TakesLegacy(o)
      BY <2>3 DEF Limits!Takes
    <3>. QED  BY <2>1, <2>3, <3>1, LegacyIsRead DEF Limits!Decode
  <2>. QED  BY <2>2, <2>3
<1>2. CASE Limits!IsWritten(o)
  <2>1. Limits!SchemaVersion(o) = 1
    BY <1>2, JsonNumber DEF Limits!IsWritten, Limits!V1Keys, Limits!SchemaVersion, Limits!Get
  <2>2. Limits!TakesV1(o)
    BY <2>1 DEF Limits!Takes
  <2>3. o["settings"] \in Limits!Json /\ o["current_offset"] \in Limits!Json
    BY <1>2 DEF Limits!IsWritten, Limits!Json, Limits!Null
  <2>. QED  BY <2>1, <2>2, <2>3, V1IsRead DEF Limits!Decode
<1>. QED  BY <1>1, <1>2

\* What this version writes (encode_value).
LEMMA EncodedKeys ==
    ASSUME NEW d, IsSnapshot(d)
    PROVE  LET o == Limits!Encode(d)
           IN /\ DOMAIN o = Limits!V1Keys \cup DOMAIN d.extra
              /\ o["schema_version"] = Limits!Number(1)
              /\ o["settings"] = Limits!SettingsJson(d.settings)
              /\ o["current_offset"] = IF d.offset = Limits!NoOffset THEN Limits!Null
                                       ELSE Limits!Number(d.offset)
              /\ \A k \in DOMAIN d.extra \ Limits!V1Keys : o[k] = d.extra[k]
BY DEF Limits!Encode, Limits!V1Keys

\* What this version writes it reads as it was, without a key that is one of its
\* own (encode_value, decode_v1).
LEMMA WrittenIsRead ==
    ASSUME NEW d, IsSnapshot(d)
    PROVE  LET o == Limits!Encode(d)
           IN /\ Fair(d.settings.limits) => Limits!Takes(o)
              /\ Limits!Decode(o) = [d EXCEPT !.extra = Limits!Unknown(@)]
<1>. DEFINE o == Limits!Encode(d)
            e == Limits!Without(o, Limits!V1Keys)
            f == IF "current_offset" \in DOMAIN o /\ o["current_offset"] # Limits!Null
                 THEN Limits!ValueOf(o["current_offset"]) ELSE Limits!NoOffset
<1>1. /\ DOMAIN o = Limits!V1Keys \cup DOMAIN d.extra
      /\ o["schema_version"] = Limits!Number(1)
      /\ o["settings"] = Limits!SettingsJson(d.settings)
      /\ o["current_offset"] = IF d.offset = Limits!NoOffset THEN Limits!Null
                               ELSE Limits!Number(d.offset)
      /\ \A k \in DOMAIN d.extra \ Limits!V1Keys : o[k] = d.extra[k]
  BY EncodedKeys
<1>2. "schema_version" \in DOMAIN o /\ "settings" \in DOMAIN o /\ "current_offset" \in DOMAIN o
  BY <1>1 DEF Limits!V1Keys
<1>. HIDE DEF o
<1>3. Limits!SchemaVersion(o) = 1 /\ Limits!Is(o["schema_version"], "unsigned")
  <2>1. Limits!ValueOf(Limits!Number(1)) = 1 /\ Limits!Is(Limits!Number(1), "unsigned")
    BY JsonNumber, NumberIsUnsigned
  <2>. QED  BY <1>1, <1>2, <2>1 DEF Limits!SchemaVersion, Limits!Get
<1>4. d.offset # Limits!NoOffset =>
          Limits!Is(Limits!Number(d.offset), "unsigned")
  BY NumberIsUnsigned DEF IsSnapshot
<1>5. ASSUME Fair(d.settings.limits)
      PROVE  Limits!Takes(o)
  <2>1. Limits!ValidLimits(d.settings.limits)
    BY <1>5, FairIsValid DEF IsSnapshot, Limits!SettingsType, Tables
  <2>2. Limits!TakesV1(o)
    BY <1>1, <1>2, <1>4, <2>1, JsonSettings DEF Limits!TakesV1
  <2>. QED  BY <1>3, <2>2 DEF Limits!Takes
<1>6. Limits!Decode(o) = [settings |-> d.settings, offset |-> f, extra |-> e]
  BY <1>1, <1>3, JsonSettings DEF Limits!Decode, Limits!DecodeV1
<1>7. f = d.offset
  BY <1>1, <1>2, JsonNumber
<1>8. e = Limits!Unknown(d.extra)
  BY <1>1 DEF Limits!Without, Limits!Unknown
<1>9. [d EXCEPT !.extra = Limits!Unknown(@)] =
          [settings |-> d.settings, offset |-> d.offset, extra |-> Limits!Unknown(d.extra)]
  BY DEF IsSnapshot
<1>. HIDE DEF e, f
<1>. QED  BY <1>5, <1>6, <1>7, <1>8, <1>9 DEF o

\* A division that is rounded up does not lose the rest (throttle_after_batch).
LEMMA CeilingDivision ==
    ASSUME NEW a \in Nat, NEW u \in Nat \ {0}
    PROVE  (a + u - 1) \div u \in Nat /\ u * ((a + u - 1) \div u) >= a
OBVIOUS

\* A sleep is the share that is left, or half a second.
LEMMA ThrottleIsFair ==
    ASSUME NEW l \in Tables, Fair(l), NEW active \in Nat
    PROVE  LET sleep == Limits!ThrottleAfterBatch(l, active)
               u == l.cpu_utilization
           IN /\ sleep <= l.background_yield_ms + 500
              /\ sleep < 500 => active * 100 <= u * (active + sleep)
<1>. DEFINE u == l.cpu_utilization
            y == l.background_yield_ms
            idle == (active * (100 - u) + u - 1) \div u
            sleep == Limits!ThrottleAfterBatch(l, active)
<1>1. u \in Nat \ {0} /\ u <= 100 /\ y \in Nat
  BY DEF Tables, Limits!LimitFields, Fair
<1>2. sleep = y + (IF u < 100 THEN Limits!Least(idle, 500) ELSE 0)
  BY DEF Limits!ThrottleAfterBatch
<1>. HIDE DEF u, y
<1>3. active * (100 - u) \in Nat
  <2>1. \A a, b \in Nat : a * b \in Nat
    OBVIOUS
  <2>2. 100 - u \in Nat
    BY <1>1
  <2>. QED  BY <2>1, <2>2
<1>4. idle \in Nat /\ u * idle >= active * (100 - u)
  BY <1>1, <1>3, CeilingDivision
<1>. HIDE DEF idle, sleep
<1>5. sleep \in Nat /\ sleep <= y + 500
  BY <1>1, <1>2, <1>4 DEF Limits!Least
<1>6. ASSUME sleep < 500
      PROVE  active * 100 <= u * (active + sleep)
  <2>1. active * 100 = active * (100 - u) + u * active
    BY <1>1
  <2>2. u * (active + sleep) = u * active + u * sleep
    BY <1>1, <1>5
  <2>3. CASE u = 100
    BY <1>5, <2>3
  <2>4. CASE u < 100
    <3>1. idle <= sleep
      BY <1>1, <1>2, <1>4, <1>6, <2>4 DEF Limits!Least
    <3>2. u * idle <= u * sleep
      <4>1. \A a, b, c \in Nat : b <= c => a * b <= a * c
        OBVIOUS
      <4>. QED  BY <1>1, <1>4, <1>5, <3>1, <4>1
    <3>. QED
      <4>1. \A a, b, c, d, e \in Int : b >= a /\ b <= c /\ d = a + e => d <= e + c
        OBVIOUS
      <4>2. /\ active * (100 - u) \in Int /\ u * idle \in Int /\ u * sleep \in Int
            /\ active * 100 \in Int /\ u * active \in Int
        BY <1>1, <1>3, <1>4, <1>5
      <4>. QED  BY <1>4, <2>1, <2>2, <3>2, <4>1, <4>2
  <2>. QED  BY <1>1, <2>3, <2>4
<1>. QED  BY <1>5, <1>6 DEF u, y, sleep

\* The digits in flight fit in what is shown (estimated_memory_mb).
LEMMA EstimateIsEnough ==
    ASSUME NEW l \in Tables
    PROVE  l.chunk_size * l.queue_depth <= Limits!EstimatedMemoryMb(l, 64) * 1048576
<1>. DEFINE c == l.chunk_size
            q == l.queue_depth
            bytes == (c + 64) * Limits!Most(q, 1)
<1>1. c \in Nat /\ q \in Nat
  BY DEF Tables, Limits!LimitFields
<1>2. Limits!EstimatedMemoryMb(l, 64) = Limits!Most((bytes + 1048575) \div 1048576, 1)
  BY DEF Limits!EstimatedMemoryMb
<1>. HIDE DEF c, q
<1>3. bytes \in Nat /\ c * q <= bytes
  <2>1. \A a, b, d, e \in Nat : a <= b /\ d <= e => a * d <= b * e /\ b * e \in Nat
    <3>. SUFFICES ASSUME NEW a \in Nat, NEW b \in Nat, NEW d \in Nat, NEW e \in Nat,
                         a <= b, d <= e
                  PROVE  a * d <= b * e /\ b * e \in Nat
      OBVIOUS
    <3>1. a * d <= b * d
      OBVIOUS
    <3>2. b * d <= b * e
      OBVIOUS
    <3>3. a * d \in Nat /\ b * d \in Nat /\ b * e \in Nat
      OBVIOUS
    <3>. QED  BY <3>1, <3>2, <3>3
  <2>2. c <= c + 64 /\ q <= Limits!Most(q, 1) /\ Limits!Most(q, 1) \in Nat /\ c + 64 \in Nat
    BY <1>1 DEF Limits!Most
  <2>. QED  BY <1>1, <2>1, <2>2
<1>. HIDE DEF bytes
<1>4. \A b \in Nat : b <= Limits!Most((b + 1048575) \div 1048576, 1) * 1048576
  BY DEF Limits!Most
<1>. QED
  <2>1. c * q \in Nat
    <3>1. \A a, b \in Nat : a * b \in Nat
      OBVIOUS
    <3>. QED  BY <1>1, <3>1
  <2>2. Limits!EstimatedMemoryMb(l, 64) * 1048576 \in Nat
    BY <1>2, <1>3 DEF Limits!Most
  <2>3. bytes <= Limits!EstimatedMemoryMb(l, 64) * 1048576
    BY <1>2, <1>3, <1>4
  <2>. QED  BY <1>3, <2>1, <2>2, <2>3 DEF c, q

\* A table asks for no less than another, limit by limit.
AsksNoLess(a, b) ==
    /\ a["cpu_utilization"] <= b["cpu_utilization"] /\ a["gpu_utilization"] <= b["gpu_utilization"]
    /\ a["chunk_size"] <= b["chunk_size"] /\ a["queue_depth"] <= b["queue_depth"]
    /\ a["memory_limit_mb"] <= b["memory_limit_mb"] /\ a["max_fps"] <= b["max_fps"]
    /\ a["ui_refresh_ms"] >= b["ui_refresh_ms"]
    /\ a["checkpoint_every_secs"] >= b["checkpoint_every_secs"]
    /\ a["background_yield_ms"] >= b["background_yield_ms"]

LEMMA NoLessNamed ==
    ASSUME NEW a, NEW b, AsksNoLess(a, b)
    PROVE  Limits!NoLess(a, b)
BY DEF Limits!NoLess, AsksNoLess

\* One limit after the other of the table of a profile.
LEMMA TableNamed ==
    ASSUME NEW p \in Limits!Profiles, NEW c \in Nat \ {0}, NEW m
    PROVE  LET l == Limits!ProfileTable(p, c, m)
               base == IF m = "emergence" THEN 65536 ELSE 50000
           IN /\ p = "eco" =>
                    /\ l["cpu_workers"] = Limits!Least(c, 2)
                    /\ l["cpu_utilization"] = 25 /\ l["gpu_utilization"] = 0
                    /\ l["chunk_size"] = Limits!Most(base \div 4, 64) /\ l["queue_depth"] = 1
                    /\ l["memory_limit_mb"] = 128 /\ l["ui_refresh_ms"] = 750
                    /\ l["checkpoint_every_secs"] = 10 /\ l["background_yield_ms"] = 25
                    /\ l["max_fps"] = 2
              /\ p \in {"balanced", "custom"} =>
                    /\ l["cpu_workers"] = Limits!Most(c \div 2, 1)
                    /\ l["cpu_utilization"] = 60 /\ l["gpu_utilization"] = 50
                    /\ l["chunk_size"] = base /\ l["queue_depth"] = 2
                    /\ l["memory_limit_mb"] = 512 /\ l["ui_refresh_ms"] = 150
                    /\ l["checkpoint_every_secs"] = 5 /\ l["background_yield_ms"] = 0
                    /\ l["max_fps"] = 10
              /\ p = "performance" =>
                    /\ l["cpu_workers"] = Limits!Most(c - 1, 1)
                    /\ l["cpu_utilization"] = 90 /\ l["gpu_utilization"] = 80
                    /\ l["chunk_size"] = base * 4 /\ l["queue_depth"] = 3
                    /\ l["memory_limit_mb"] = 1024 /\ l["ui_refresh_ms"] = 80
                    /\ l["checkpoint_every_secs"] = 5 /\ l["background_yield_ms"] = 0
                    /\ l["max_fps"] = 20
              /\ p = "max" =>
                    /\ l["cpu_workers"] = c
                    /\ l["cpu_utilization"] = 100 /\ l["gpu_utilization"] = 100
                    /\ l["chunk_size"] = base * 8 /\ l["queue_depth"] = 4
                    /\ l["memory_limit_mb"] = 2048 /\ l["ui_refresh_ms"] = 50
                    /\ l["checkpoint_every_secs"] = 3 /\ l["background_yield_ms"] = 0
                    /\ l["max_fps"] = 30
<1>. DEFINE base == IF m = "emergence" THEN 65536 ELSE 50000
            l == Limits!ProfileTable(p, c, m)
<1>1. CASE p = "eco"
  BY <1>1 DEF Limits!ProfileTable
<1>2. CASE p \in {"balanced", "custom"}
  BY <1>2 DEF Limits!ProfileTable
<1>3. CASE p = "performance"
  BY <1>3 DEF Limits!ProfileTable
<1>4. CASE p = "max"
  BY <1>4 DEF Limits!ProfileTable
<1>. HIDE DEF l, base
<1>. QED  BY <1>1, <1>2, <1>3, <1>4 DEF Limits!Profiles

\* The ladder of profiles, with the one exception (for_profile).
LEMMA LadderIsOrdered ==
    ASSUME NEW c \in Nat \ {0}, NEW m, NEW i \in 1..3
    PROVE  LET less == Limits!ProfileTable(Limits!Ladder[i], c, m)
               more == Limits!ProfileTable(Limits!Ladder[i + 1], c, m)
           IN /\ AsksNoLess(less, more)
              /\ less["cpu_workers"] <= more["cpu_workers"] \/ (i = 1 /\ c \in {2, 3})
              /\ Limits!Ladder[i] \in Limits!Profiles /\ Limits!Ladder[i + 1] \in Limits!Profiles
<1>. DEFINE base == IF m = "emergence" THEN 65536 ELSE 50000
<1>1. base \in {65536, 50000}
  OBVIOUS
<1>2. CASE i = 1
  <2>1. Limits!Ladder[i] = "eco" /\ Limits!Ladder[i + 1] = "balanced"
    BY <1>2 DEF Limits!Ladder
  <2>. QED
    BY <1>1, <1>2, <2>1, TableNamed DEF AsksNoLess, Limits!Profiles, Limits!Least, Limits!Most
<1>3. CASE i = 2
  <2>1. Limits!Ladder[i] = "balanced" /\ Limits!Ladder[i + 1] = "performance"
    BY <1>3 DEF Limits!Ladder
  <2>. QED
    BY <1>1, <1>3, <2>1, TableNamed DEF AsksNoLess, Limits!Profiles, Limits!Most
<1>4. CASE i = 3
  <2>1. Limits!Ladder[i] = "performance" /\ Limits!Ladder[i + 1] = "max"
    BY <1>4 DEF Limits!Ladder
  <2>. QED
    BY <1>1, <1>4, <2>1, TableNamed DEF AsksNoLess, Limits!Profiles, Limits!Most
<1>. QED  BY <1>2, <1>3, <1>4

\* One limit after the other of a thermal mode.
LEMMA ThermalNamed ==
    ASSUME NEW p \in Limits!Profiles, NEW t \in Limits!Thermals, NEW c \in Nat \ {0}, NEW m
    PROVE  LET l == Limits!ProfileTable(p, c, m)
               f == Limits!ForProfile(p, t, c, m)
           IN /\ f["cpu_workers"] = l["cpu_workers"]
              /\ f["gpu_utilization"] = l["gpu_utilization"]
              /\ f["queue_depth"] = l["queue_depth"]
              /\ f["memory_limit_mb"] = l["memory_limit_mb"]
              /\ f["checkpoint_every_secs"] = l["checkpoint_every_secs"]
              /\ t = "quiet" =>
                    /\ f["cpu_utilization"] = Limits!Least(l["cpu_utilization"], 35)
                    /\ f["ui_refresh_ms"] = Limits!Most(l["ui_refresh_ms"], 750)
                    /\ f["background_yield_ms"] = Limits!Most(l["background_yield_ms"], 30)
                    /\ f["chunk_size"] = Limits!Most(l["chunk_size"] \div 2, 32)
                    /\ f["max_fps"] = Limits!Least(l["max_fps"], 3)
              /\ t = "normal" =>
                    /\ f["cpu_utilization"] = l["cpu_utilization"]
                    /\ f["ui_refresh_ms"] = l["ui_refresh_ms"]
                    /\ f["background_yield_ms"] = l["background_yield_ms"]
                    /\ f["chunk_size"] = l["chunk_size"] /\ f["max_fps"] = l["max_fps"]
              /\ t = "aggressive" =>
                    /\ f["cpu_utilization"] = Limits!Most(l["cpu_utilization"], 85)
                    /\ f["ui_refresh_ms"] = Limits!Least(l["ui_refresh_ms"], 80)
                    /\ f["background_yield_ms"] = 0 /\ f["chunk_size"] = l["chunk_size"] * 2
                    /\ f["max_fps"] = l["max_fps"]
<1>. DEFINE l == Limits!ProfileTable(p, c, m)
            f == Limits!ForProfile(p, t, c, m)
<1>1. l \in Tables
  BY TableIsFair
<1>2. CASE t = "quiet"
  <2>1. f = [l EXCEPT !.cpu_utilization = Limits!Least(@, 35),
                      !.ui_refresh_ms = Limits!Most(@, 750),
                      !.background_yield_ms = Limits!Most(@, 30),
                      !.chunk_size = Limits!Most(@ \div 2, 32), !.max_fps = Limits!Least(@, 3)]
    BY <1>2 DEF Limits!ForProfile
  <2>. HIDE DEF l, f
  <2>2. /\ f["cpu_workers"] = l["cpu_workers"]
        /\ f["gpu_utilization"] = l["gpu_utilization"]
        /\ f["queue_depth"] = l["queue_depth"] /\ f["memory_limit_mb"] = l["memory_limit_mb"]
        /\ f["checkpoint_every_secs"] = l["checkpoint_every_secs"]
    BY <1>1, <2>1 DEF Tables, Limits!LimitFields
  <2>3. /\ f["cpu_utilization"] = Limits!Least(l["cpu_utilization"], 35)
        /\ f["ui_refresh_ms"] = Limits!Most(l["ui_refresh_ms"], 750)
        /\ f["background_yield_ms"] = Limits!Most(l["background_yield_ms"], 30)
        /\ f["chunk_size"] = Limits!Most(l["chunk_size"] \div 2, 32)
        /\ f["max_fps"] = Limits!Least(l["max_fps"], 3)
    BY <1>1, <2>1 DEF Tables, Limits!LimitFields
  <2>. QED  BY <1>2, <2>2, <2>3 DEF l, f
<1>3. CASE t = "normal"
  BY <1>3 DEF Limits!ForProfile
<1>4. CASE t = "aggressive"
  <2>1. f = [l EXCEPT !.cpu_utilization = Limits!Most(@, 85), !.chunk_size = @ * 2,
                      !.ui_refresh_ms = Limits!Least(@, 80), !.background_yield_ms = 0]
    BY <1>4 DEF Limits!ForProfile
  <2>. HIDE DEF l, f
  <2>2. /\ f["cpu_workers"] = l["cpu_workers"]
        /\ f["gpu_utilization"] = l["gpu_utilization"]
        /\ f["queue_depth"] = l["queue_depth"] /\ f["memory_limit_mb"] = l["memory_limit_mb"]
        /\ f["checkpoint_every_secs"] = l["checkpoint_every_secs"]
    BY <1>1, <2>1 DEF Tables, Limits!LimitFields
  <2>3. /\ f["cpu_utilization"] = Limits!Most(l["cpu_utilization"], 85)
        /\ f["ui_refresh_ms"] = Limits!Least(l["ui_refresh_ms"], 80)
        /\ f["background_yield_ms"] = 0 /\ f["chunk_size"] = l["chunk_size"] * 2
        /\ f["max_fps"] = l["max_fps"]
    BY <1>1, <2>1 DEF Tables, Limits!LimitFields
  <2>. QED  BY <1>4, <2>2, <2>3 DEF l, f
<1>. HIDE DEF l, f
<1>. QED  BY <1>2, <1>3, <1>4 DEF Limits!Thermals

\* Limits are numbers, by their names.
LEMMA TablesNamed ==
    ASSUME NEW l \in Tables
    PROVE  /\ l["cpu_workers"] \in Nat /\ l["cpu_utilization"] \in Nat
           /\ l["gpu_utilization"] \in Nat /\ l["chunk_size"] \in Nat
           /\ l["queue_depth"] \in Nat /\ l["memory_limit_mb"] \in Nat
           /\ l["ui_refresh_ms"] \in Nat /\ l["checkpoint_every_secs"] \in Nat
           /\ l["background_yield_ms"] \in Nat /\ l["max_fps"] \in Nat
BY DEF Tables, Limits!LimitFields

\* A thermal mode keeps the order of two profiles.
LEMMA ThermalKeepsOrder ==
    ASSUME NEW p \in Limits!Profiles, NEW q \in Limits!Profiles, NEW t \in Limits!Thermals,
           NEW c \in Nat \ {0}, NEW m,
           AsksNoLess(Limits!ProfileTable(p, c, m), Limits!ProfileTable(q, c, m))
    PROVE  AsksNoLess(Limits!ForProfile(p, t, c, m), Limits!ForProfile(q, t, c, m))
<1>. DEFINE a == Limits!ProfileTable(p, c, m)
            b == Limits!ProfileTable(q, c, m)
<1>1. a \in Tables /\ b \in Tables
  BY TableIsFair
<1>2. AsksNoLess(a, b)
  OBVIOUS
<1>. HIDE DEF a, b
<1>3. CASE t = "quiet"
  BY <1>1, <1>2, <1>3, TablesNamed, ThermalNamed
     DEF a, b, AsksNoLess, Limits!Least, Limits!Most
<1>4. CASE t = "normal"
  BY <1>1, <1>2, <1>4, TablesNamed, ThermalNamed DEF a, b, AsksNoLess
<1>5. CASE t = "aggressive"
  BY <1>1, <1>2, <1>5, TablesNamed, ThermalNamed
     DEF a, b, AsksNoLess, Limits!Least, Limits!Most
<1>. QED  BY <1>3, <1>4, <1>5 DEF Limits!Thermals

\* A warmer mode asks for no less.
LEMMA WarmerAsksNoLess ==
    ASSUME NEW p \in Limits!Profiles, NEW t \in {"quiet", "normal"}, NEW c \in Nat \ {0}, NEW m
    PROVE  AsksNoLess(Limits!ForProfile(p, t, c, m),
                      Limits!ForProfile(p, Limits!Warmer[t], c, m))
<1>. DEFINE l == Limits!ProfileTable(p, c, m)
<1>1. l \in Tables /\ Fair(l) /\ l["chunk_size"] >= 32
  <2>1. l["chunk_size"] >= 32
    BY TableNamed DEF Limits!Profiles, Limits!Most
  <2>. QED  BY <2>1, TableIsFair
<1>. HIDE DEF l
<1>2. CASE t = "quiet"
  <2>1. Limits!Warmer[t] = "normal"
    BY <1>2 DEF Limits!Warmer
  <2>. QED
    BY <1>1, <1>2, <2>1, TablesNamed, ThermalNamed
       DEF l, AsksNoLess, Limits!Least, Limits!Most, Limits!Thermals
<1>3. CASE t = "normal"
  <2>1. Limits!Warmer[t] = "aggressive"
    BY <1>3 DEF Limits!Warmer
  <2>. QED
    BY <1>1, <1>3, <2>1, TablesNamed, ThermalNamed
       DEF l, AsksNoLess, Limits!Least, Limits!Most, Limits!Thermals
<1>. QED  BY <1>2, <1>3

LEMMA TableOrdered ==
    ASSUME limits.profile \in Limits!Profiles, limits.thermal \in Limits!Thermals
    PROVE  Limits!TableIsOrdered
<1>. SUFFICES ASSUME NEW c \in Limits!Machines
              PROVE  /\ \A i \in 1..3 : Limits!Ladder[i] = limits.profile =>
                           LET less == Limits!ForProfile(Limits!Ladder[i], limits.thermal, c, mode)
                               more == Limits!ForProfile(Limits!Ladder[i + 1],
                                                         limits.thermal, c, mode)
                           IN /\ Limits!NoLess(less, more)
                              /\ \/ less.cpu_workers <= more.cpu_workers
                                 \/ i = 1 /\ c \in {2, 3}
                     /\ limits.thermal # "aggressive" =>
                           Limits!NoLess(
                               Limits!ForProfile(limits.profile, limits.thermal, c, mode),
                               Limits!ForProfile(limits.profile, Limits!Warmer[limits.thermal],
                                                 c, mode))
  BY DEF Limits!TableIsOrdered
<1>1. c \in Nat \ {0}
  BY DEF Limits!Machines
<1>2. ASSUME NEW i \in 1..3
      PROVE  LET less == Limits!ForProfile(Limits!Ladder[i], limits.thermal, c, mode)
                 more == Limits!ForProfile(Limits!Ladder[i + 1], limits.thermal, c, mode)
             IN /\ Limits!NoLess(less, more)
                /\ less.cpu_workers <= more.cpu_workers \/ (i = 1 /\ c \in {2, 3})
  <2>. DEFINE p == Limits!Ladder[i]
              q == Limits!Ladder[i + 1]
              less == Limits!ForProfile(p, limits.thermal, c, mode)
              more == Limits!ForProfile(q, limits.thermal, c, mode)
  <2>1. /\ AsksNoLess(Limits!ProfileTable(p, c, mode), Limits!ProfileTable(q, c, mode))
        /\ \/ Limits!ProfileTable(p, c, mode)["cpu_workers"]
                  <= Limits!ProfileTable(q, c, mode)["cpu_workers"]
           \/ i = 1 /\ c \in {2, 3}
        /\ p \in Limits!Profiles /\ q \in Limits!Profiles
    BY <1>1, LadderIsOrdered
  <2>. HIDE DEF p, q
  <2>2. AsksNoLess(less, more)
    BY <1>1, <2>1, ThermalKeepsOrder
  <2>3. /\ less["cpu_workers"] = Limits!ProfileTable(p, c, mode)["cpu_workers"]
        /\ more["cpu_workers"] = Limits!ProfileTable(q, c, mode)["cpu_workers"]
    BY <1>1, <2>1, ThermalNamed
  <2>. QED  BY <2>1, <2>2, <2>3, NoLessNamed DEF p, q
<1>3. ASSUME limits.thermal # "aggressive"
      PROVE  Limits!NoLess(
                 Limits!ForProfile(limits.profile, limits.thermal, c, mode),
                 Limits!ForProfile(limits.profile, Limits!Warmer[limits.thermal], c, mode))
  BY <1>1, <1>3, WarmerAsksNoLess, NoLessNamed DEF Limits!Thermals
<1>. QED  BY <1>2, <1>3

\* What an earlier snapshot says is what the search gets.
LEMMA LegacyHonoured ==
    ASSUME Limits!LimitsConstants, Limits!LimitsInv
    PROVE  Limits!LegacyIsHonoured
<1>. SUFFICES ASSUME stored # Limits!NoObject, Limits!Takes(stored),
                     Limits!SchemaVersion(stored) = 0, NEW k \in Limits!LegacyKeys(stored)
              PROVE  Limits!Decode(stored).settings.limits[Limits!LegacyLimit(k)]
                        = Limits!ValueOf(stored[k])
  BY DEF Limits!LegacyIsHonoured
<1>1. ~Limits!IsWritten(stored)
  BY JsonNumber DEF Limits!IsWritten, Limits!V1Keys, Limits!SchemaVersion, Limits!Get
<1>2. \A m \in DOMAIN stored : stored[m] \in Limits!Json
  BY <1>1 DEF Limits!LimitsInv, Limits!LimitsConstants
<1>3. Limits!TakesLegacy(stored)
  BY DEF Limits!Takes
<1>. DEFINE g == Limits!LegacyOverrides(stored)
            f == Limits!LegacyLimit(k)
            v == Limits!ValueOf(stored[k])
<1>4. /\ f \in DOMAIN g /\ g[f] = v /\ v \in Nat /\ Limits!ValidValue(f, v)
      /\ f \in Limits!LimitFields
  BY <1>2, <1>3, LegacyOptions, LegacyKeyTyped
<1>5. Limits!Decode(stored) = Limits!DecodeLegacy(stored)
  BY DEF Limits!Decode
<1>6. Limits!DecodeLegacy(stored).settings.limits[f] = Limits!Bounded(f, g[f])
  BY <1>4 DEF Limits!DecodeLegacy, Limits!FromProfile, Limits!Apply
<1>. QED  BY <1>4, <1>5, <1>6, BoundsKeepValid

\* What has been read is written and read again as it was.
LEMMA ReadAgain ==
    ASSUME Limits!LimitsConstants, Limits!LimitsInv
    PROVE  Limits!RoundTrip /\ Limits!WrittenIsTaken
<1>1. ASSUME stored # Limits!NoObject, Limits!Takes(stored)
      PROVE  LET d == Limits!Decode(stored)
             IN /\ Limits!Takes(Limits!Encode(d))
                /\ Limits!Decode(Limits!Encode(d)) = [d EXCEPT !.extra = Limits!Unknown(@)]
  <2>1. ReadWell(Limits!Decode(stored))
    BY <1>1, TakenIsRead DEF Limits!LimitsInv, Limits!TypeOK
  <2>. QED  BY <2>1, WrittenIsRead DEF ReadWell
<1>2. ASSUME stored # Limits!NoObject, stored \notin StoredObjects, ~spoiled
      PROVE  Limits!Takes(stored)
  <2>1. Limits!IsWritten(stored)
    BY <1>2 DEF Limits!LimitsInv
  <2>2. PICK s \in Limits!SettingsType : stored["settings"] = Limits!SettingsJson(s)
    <3>1. stored["settings"] \in [settings : Limits!SettingsType]
      BY <2>1 DEF Limits!IsWritten
    <3>. QED  BY <3>1 DEF Limits!SettingsJson
  <2>3. /\ Limits!KindOf(stored["settings"]) = "settings"
        /\ Limits!ValueOf(stored["settings"]) = s
        /\ Limits!ValidLimits(s.limits)
    BY <1>2, <2>1, <2>2, JsonSettings DEF Limits!IsWritten, Limits!SettingsJson
  <2>4. \/ stored["current_offset"] = Limits!Null
        \/ Limits!Is(stored["current_offset"], "unsigned")
    <3>1. stored["current_offset"] \in [number : Nat] =>
              \E n \in Nat : stored["current_offset"] = Limits!Number(n)
      BY DEF Limits!Number
    <3>. QED  BY <2>1, <3>1, NumberIsUnsigned DEF Limits!IsWritten
  <2>5. Limits!TakesV1(stored)
    BY <2>1, <2>3, <2>4 DEF Limits!TakesV1, Limits!IsWritten, Limits!V1Keys
  <2>6. /\ Limits!SchemaVersion(stored) = 1
        /\ Limits!Is(stored["schema_version"], "unsigned")
    BY <2>1, JsonNumber, NumberIsUnsigned
       DEF Limits!IsWritten, Limits!V1Keys, Limits!SchemaVersion, Limits!Get
  <2>. QED  BY <2>5, <2>6 DEF Limits!Takes
<1>. QED  BY <1>1, <1>2 DEF Limits!RoundTrip, Limits!WrittenIsTaken

LEMMA LimitsImplied ==
    ASSUME Limits!LimitsConstants, Limits!LimitsInv
    PROVE  Limits!LimitsInvariant
<1>1. limits \in Limits!SettingsType /\ limits.limits \in Tables
  BY DEF Limits!LimitsInv, Limits!SettingsType, Tables
<1>2. Limits!TableIsOrdered
  BY <1>1, TableOrdered DEF Limits!SettingsType
<1>3. Limits!ThrottleKeepsTheShare
  <2>. SUFFICES ASSUME stage = "running", ~spoiled, NEW active \in {0, 1, 20, 1000}
                PROVE  LET sleep == Limits!ThrottleAfterBatch(limits.limits, active)
                           u == limits.limits.cpu_utilization
                       IN /\ sleep <= limits.limits.background_yield_ms + 500
                          /\ sleep < 500 => active * 100 <= u * (active + sleep)
    BY DEF Limits!ThrottleKeepsTheShare
  <2>1. Fair(limits.limits)
    BY <1>1, FairIsValid DEF Limits!LimitsInv, Limits!LimitsStayValid
  <2>. QED  BY <1>1, <2>1, ThrottleIsFair
<1>4. Limits!EstimateCovers
  BY <1>1, EstimateIsEnough DEF Limits!EstimateCovers
<1>. QED
  BY <1>2, <1>3, <1>4, ReadAgain, LegacyHonoured DEF Limits!LimitsInv, Limits!LimitsInvariant

LEMMA LimitsStart ==
    ASSUME Limits!LimitsConstants, Limits!Init
    PROVE  Limits!LimitsInv
<1>1. limits \in Limits!SettingsType
  BY NothingIsFair DEF Limits!Init
<1>2. /\ stage \in {"new", "idle"} /\ (stage = "new" => stored = Limits!NoObject)
      /\ stored \in {Limits!NoObject} \cup StoredObjects
      /\ cores \in Cores /\ mode \in Limits!Modes /\ permits = 1 /\ answer = "ok"
      /\ presses = 0 /\ spoiled = FALSE
  BY DEF Limits!Init
<1>3. presses \in 0..MaxPresses /\ permits \in Nat \ {0}
  BY <1>2 DEF Limits!LimitsConstants
<1>. QED
  BY <1>1, <1>2, <1>3
     DEF Limits!LimitsInv, Limits!TypeOK, Limits!LimitsStayValid, Limits!SettingsType

\* A search runs on the settings it was given, with one worker at least
\* (SearchSession::new).
LEMMA SearchRuns ==
    ASSUME NEW s \in Limits!SettingsType, Limits!SearchWith(s), Limits!LimitsInv
    PROVE  /\ limits' \in Limits!SettingsType /\ permits' \in Nat \ {0}
           /\ stage' \in {"idle", "running"} /\ answer' \in {"ok", "failed"}
           /\ stage' = "running" =>
                 /\ limits'.limits.cpu_workers \in 1..permits' /\ limits'.limits.chunk_size > 0
                 /\ Fair(s.limits) => Limits!ValidLimits(limits'.limits)
<1>1. CASE s.limits.chunk_size = 0
  BY <1>1 DEF Limits!SearchWith, Limits!LimitsInv, Limits!TypeOK
<1>2. CASE s.limits.chunk_size # 0
  <2>. DEFINE l == s.limits
              w == Limits!Most(l.cpu_workers, 1)
              k == [l EXCEPT !.cpu_workers = w]
  <2>1. l \in Tables
    BY DEF Limits!SettingsType, Tables
  <2>2. /\ stage' = "running" /\ answer' = "ok"
        /\ limits' = [s EXCEPT !.limits = k] /\ permits' = w
    BY <1>2 DEF Limits!SearchWith
  <2>3. w \in Nat \ {0} /\ l.cpu_workers \in Nat
    BY <2>1 DEF Tables, Limits!LimitFields, Limits!Most
  <2>. HIDE DEF l
  <2>4. k \in Tables /\ k.cpu_workers = w /\ k.chunk_size = l.chunk_size /\ l.chunk_size \in Nat
    BY <2>1, <2>3 DEF Tables, Limits!LimitFields
  <2>5. Fair(l) => Fair(k)
    BY <2>1, <2>3 DEF Tables, Limits!LimitFields, Fair
  <2>. HIDE DEF k, w
  <2>6. limits' \in Limits!SettingsType /\ limits'.limits = k
    BY <2>2, <2>4 DEF Limits!SettingsType, Tables
  <2>7. l.chunk_size # 0
    BY <1>2 DEF l
  <2>8. limits'.limits.cpu_workers \in 1..permits' /\ limits'.limits.chunk_size > 0
    BY <2>2, <2>3, <2>4, <2>6, <2>7
  <2>. QED  BY <2>2, <2>3, <2>4, <2>5, <2>6, <2>8, FairIsValid DEF l
<1>. QED  BY <1>1, <1>2

\* What this version stores is a snapshot it can read, unless a resume spoiled it.
LEMMA StoredIsWritten ==
    ASSUME NEW d, IsSnapshot(d), stored' = Limits!Encode(d),
           ~spoiled' => Fair(d.settings.limits)
    PROVE  Limits!IsWritten(stored)'
<1>. DEFINE o == Limits!Encode(d)
<1>1. /\ Limits!V1Keys \subseteq DOMAIN o
      /\ o["schema_version"] = Limits!Number(1)
      /\ o["settings"] = Limits!SettingsJson(d.settings)
      /\ o["current_offset"] = IF d.offset = Limits!NoOffset THEN Limits!Null
                               ELSE Limits!Number(d.offset)
  BY EncodedKeys
<1>. HIDE DEF o
<1>2. o["settings"] \in [settings : Limits!SettingsType] /\ o["settings"].settings = d.settings
  BY <1>1 DEF IsSnapshot, Limits!SettingsJson
<1>3. o["current_offset"] \in {Limits!Null} \cup [number : Nat]
  BY <1>1 DEF IsSnapshot, Limits!Number
<1>4. ~spoiled' => Limits!ValidLimits(o["settings"].settings.limits)
  BY <1>2, FairIsValid DEF IsSnapshot, Limits!SettingsType, Tables
<1>5. stored' = o
  BY DEF o
<1>. QED  BY <1>1, <1>2, <1>3, <1>4, <1>5 DEF Limits!IsWritten

LEMMA FreshIsSnapshot ==
    ASSUME NEW s \in Limits!SettingsType
    PROVE  IsSnapshot(Limits!Fresh(s)) /\ Limits!Fresh(s).settings = s
BY DEF IsSnapshot, Limits!Fresh, Limits!NoExtra

\* A snapshot with other settings and another position is one.
LEMMA ChangedIsSnapshot ==
    ASSUME NEW d, IsSnapshot(d), NEW s \in Limits!SettingsType, NEW n \in Nat
    PROVE  LET r == [settings |-> s, offset |-> n, extra |-> d.extra]
           IN /\ [d EXCEPT !.settings = s, !.offset = n] = r
              /\ IsSnapshot(r)
<1>1. d = [settings |-> d.settings, offset |-> d.offset, extra |-> d.extra]
  BY DEF IsSnapshot
<1>2. [d EXCEPT !.settings = s] = [settings |-> s, offset |-> d.offset, extra |-> d.extra]
  BY <1>1
<1>3. [[settings |-> s, offset |-> d.offset, extra |-> d.extra] EXCEPT !.offset = n]
          = [settings |-> s, offset |-> n, extra |-> d.extra]
  OBVIOUS
<1>4. [d EXCEPT !.settings = s, !.offset = n] = [[d EXCEPT !.settings = s] EXCEPT !.offset = n]
  OBVIOUS
<1>. QED  BY <1>2, <1>3, <1>4 DEF IsSnapshot

LEMMA NewSearchKeeps ==
    ASSUME Limits!LimitsConstants, Limits!LimitsInv, Limits!Start
    PROVE  Limits!LimitsInv'
<1>1. PICK p \in Given, t \in Limits!Thermals, options \in StartOptions, w \in BOOLEAN :
          LET s == Limits!FromProfile(p, t, mode, options)
          IN /\ Limits!SearchWith(s)
             /\ stored' = IF w THEN Limits!NoObject ELSE Limits!Encode(Limits!Fresh(s))
  BY DEF Limits!Start
<1>. DEFINE s == Limits!FromProfile(p, t, mode, options)
<1>2. s \in Limits!SettingsType /\ Fair(s.limits)
  BY SettingsAreFair DEF Limits!LimitsConstants, Limits!LimitsInv, Limits!TypeOK
<1>3. Limits!SearchWith(s) /\ UNCHANGED <<cores, mode, presses, spoiled>>
  BY <1>1 DEF Limits!Start
<1>4. stored' = Limits!NoObject \/ stored' = Limits!Encode(Limits!Fresh(s))
  BY <1>1
<1>. HIDE DEF s
<1>5. /\ limits' \in Limits!SettingsType /\ permits' \in Nat \ {0}
      /\ stage' \in {"idle", "running"} /\ answer' \in {"ok", "failed"}
      /\ stage' = "running" =>
            /\ limits'.limits.cpu_workers \in 1..permits' /\ limits'.limits.chunk_size > 0
            /\ Limits!ValidLimits(limits'.limits)
  BY <1>2, <1>3, SearchRuns
<1>6. stored' = Limits!NoObject \/ Limits!IsWritten(stored)'
  BY <1>2, <1>4, StoredIsWritten, FreshIsSnapshot
<1>. QED
  BY <1>3, <1>5, <1>6
     DEF Limits!LimitsInv, Limits!TypeOK, Limits!LimitsStayValid, Limits!SettingsType

\* What a resume starts from, and what was asked of it, are settings.
LEMMA ResumedSettings ==
    ASSUME Limits!LimitsConstants, Limits!LimitsInv, NEW options \in ResumeOptions,
           NEW p \in Given, stored # Limits!NoObject => Limits!Takes(stored)
    PROVE  LET d == IF stored = Limits!NoObject
                    THEN Limits!Fresh(Limits!FromProfile(p, "normal", mode, options))
                    ELSE Limits!Decode(stored)
               name == IF p = "custom" THEN d.settings.profile ELSE p
               r == Limits!Merged(d.settings, name, options)
           IN /\ ReadWell(d) /\ r \in Limits!SettingsType
              /\ Limits!ValidLimits(options) => Fair(r.limits)
<1>. DEFINE d == IF stored = Limits!NoObject
                 THEN Limits!Fresh(Limits!FromProfile(p, "normal", mode, options))
                 ELSE Limits!Decode(stored)
            name == IF p = "custom" THEN d.settings.profile ELSE p
<1>1. p \in Limits!Profiles /\ Limits!OptionsType(options)
  BY DEF Limits!LimitsConstants
<1>2. ReadWell(d)
  <2>1. CASE stored = Limits!NoObject
    <3>. DEFINE s == Limits!FromProfile(p, "normal", mode, options)
    <3>1. s \in Limits!SettingsType /\ Fair(s.limits)
      BY <1>1, SettingsAreFair DEF Limits!Thermals, Limits!LimitsInv, Limits!TypeOK
    <3>2. d = Limits!Fresh(s)
      BY <2>1
    <3>. HIDE DEF s, d
    <3>. QED  BY <3>1, <3>2, FreshIsSnapshot DEF ReadWell
  <2>2. CASE stored # Limits!NoObject
    BY <2>2, TakenIsRead DEF Limits!LimitsInv, Limits!TypeOK
  <2>. QED  BY <2>1, <2>2
<1>. HIDE DEF d
<1>3. d.settings \in Limits!SettingsType /\ Fair(d.settings.limits) /\ name \in Limits!Profiles
  BY <1>1, <1>2 DEF ReadWell, IsSnapshot, Limits!SettingsType
<1>. HIDE DEF name
<1>. QED  BY <1>1, <1>2, <1>3, MergedTyped DEF d, name

LEMMA ResumedSearchKeeps ==
    ASSUME Limits!LimitsConstants, Limits!LimitsInv, Limits!Resume
    PROVE  Limits!LimitsInv'
<1>1. PICK options \in ResumeOptions, p \in Given :
          IF stored # Limits!NoObject /\ ~Limits!Takes(stored)
          THEN /\ answer' = "refused"
               /\ UNCHANGED <<stored, limits, permits, stage, spoiled>>
          ELSE LET d == IF stored = Limits!NoObject
                        THEN Limits!Fresh(Limits!FromProfile(p, "normal", mode, options))
                        ELSE Limits!Decode(stored)
                   name == IF p = "custom" THEN d.settings.profile ELSE p
                   r == Limits!Merged(d.settings, name, options)
               IN /\ stored' = Limits!Encode([d EXCEPT !.settings = r, !.offset = 1])
                  /\ spoiled' = (spoiled \/ ~Limits!ValidLimits(options))
                  /\ Limits!SearchWith(r)
  BY DEF Limits!Resume
<1>2. stage = "idle" /\ UNCHANGED <<cores, mode, presses>>
  BY DEF Limits!Resume
<1>3. CASE stored # Limits!NoObject /\ ~Limits!Takes(stored)
  <2>1. answer' = "refused" /\ UNCHANGED <<stored, limits, permits, stage, spoiled>>
    BY <1>1, <1>3
  <2>. QED
    BY <1>2, <2>1 DEF Limits!LimitsInv, Limits!TypeOK, Limits!LimitsStayValid, Limits!IsWritten
<1>4. CASE ~(stored # Limits!NoObject /\ ~Limits!Takes(stored))
  <2>. DEFINE d == IF stored = Limits!NoObject
                   THEN Limits!Fresh(Limits!FromProfile(p, "normal", mode, options))
                   ELSE Limits!Decode(stored)
              name == IF p = "custom" THEN d.settings.profile ELSE p
              r == Limits!Merged(d.settings, name, options)
              n == [d EXCEPT !.settings = r, !.offset = 1]
  <2>1. /\ stored' = Limits!Encode(n) /\ spoiled' = (spoiled \/ ~Limits!ValidLimits(options))
        /\ Limits!SearchWith(r)
    BY <1>1, <1>4
  <2>2. /\ ReadWell(d) /\ r \in Limits!SettingsType
        /\ Limits!ValidLimits(options) => Fair(r.limits)
    BY <1>4, ResumedSettings
  <2>. HIDE DEF d, r
  <2>3. /\ n = [settings |-> r, offset |-> 1, extra |-> d.extra]
        /\ IsSnapshot([settings |-> r, offset |-> 1, extra |-> d.extra])
    BY <2>2, ChangedIsSnapshot DEF ReadWell
  <2>. HIDE DEF n
  <2>4. spoiled' \in BOOLEAN /\ (~spoiled' => Limits!ValidLimits(options))
    BY <2>1 DEF Limits!LimitsInv
  <2>5. Limits!IsWritten(stored)'
    BY <2>1, <2>2, <2>3, <2>4, StoredIsWritten
  <2>6. /\ limits' \in Limits!SettingsType /\ permits' \in Nat \ {0}
        /\ stage' \in {"idle", "running"} /\ answer' \in {"ok", "failed"}
        /\ stage' = "running" =>
              /\ limits'.limits.cpu_workers \in 1..permits' /\ limits'.limits.chunk_size > 0
              /\ ~spoiled' => Limits!ValidLimits(limits'.limits)
    BY <2>1, <2>2, <2>4, SearchRuns
  <2>. QED
    BY <1>2, <2>4, <2>5, <2>6
       DEF Limits!LimitsInv, Limits!TypeOK, Limits!LimitsStayValid, Limits!SettingsType
<1>. QED  BY <1>3, <1>4

LEMMA CheckpointKeeps ==
    ASSUME Limits!LimitsConstants, Limits!LimitsInv, Limits!Checkpoint
    PROVE  Limits!LimitsInv'
<1>. DEFINE d == IF stored = Limits!NoObject THEN Limits!Fresh(limits) ELSE Limits!Decode(stored)
            n == [d EXCEPT !.settings = limits, !.offset = 2]
<1>1. /\ stage = "running" /\ (stored # Limits!NoObject => Limits!Takes(stored))
      /\ stored' = Limits!Encode(n)
      /\ UNCHANGED <<cores, mode, limits, permits, stage, answer, presses, spoiled>>
  BY DEF Limits!Checkpoint
<1>2. limits \in Limits!SettingsType /\ (~spoiled => Fair(limits.limits))
  BY <1>1, FairIsValid
     DEF Limits!LimitsInv, Limits!LimitsStayValid, Limits!SettingsType, Tables
<1>3. IsSnapshot(d)
  BY <1>1, <1>2, FreshIsSnapshot, TakenIsRead DEF ReadWell, Limits!LimitsInv, Limits!TypeOK
<1>. HIDE DEF d
<1>4. /\ n = [settings |-> limits, offset |-> 2, extra |-> d.extra]
      /\ IsSnapshot([settings |-> limits, offset |-> 2, extra |-> d.extra])
  BY <1>2, <1>3, ChangedIsSnapshot
<1>. HIDE DEF n
<1>5. Limits!IsWritten(stored)'
  BY <1>1, <1>2, <1>4, StoredIsWritten
<1>. QED
  BY <1>1, <1>5 DEF Limits!LimitsInv, Limits!TypeOK, Limits!LimitsStayValid

\* A key leaves settings that can be stored, with no more workers than permits.
LEMMA PressKeeps ==
    ASSUME Limits!LimitsConstants, Limits!LimitsInv, NEW s \in Limits!SettingsType,
           Limits!Pressed(s), s.limits["chunk_size"] > 0,
           s.limits["cpu_workers"] \in 1..permits,
           Fair(limits.limits) => Fair(s.limits)
    PROVE  Limits!LimitsInv'
<1>1. /\ stage = "running" /\ presses < MaxPresses /\ presses' = presses + 1 /\ limits' = s
      /\ UNCHANGED <<cores, mode, stored, permits, stage, answer, spoiled>>
  BY DEF Limits!Pressed
<1>2. presses' \in 0..MaxPresses
  BY <1>1 DEF Limits!LimitsInv, Limits!TypeOK, Limits!LimitsConstants
<1>3. ~spoiled => Limits!ValidLimits(s.limits)
  BY <1>1, FairIsValid
     DEF Limits!LimitsInv, Limits!LimitsStayValid, Limits!SettingsType, Tables
<1>4. stored' \in {Limits!NoObject} \cup StoredObjects \/ Limits!IsWritten(stored)'
  BY <1>1 DEF Limits!LimitsInv, Limits!IsWritten
<1>. QED
  BY <1>1, <1>2, <1>3, <1>4
     DEF Limits!LimitsInv, Limits!TypeOK, Limits!LimitsStayValid, Limits!SettingsType

\* Settings with another number in one limit.
LEMMA OneLimit ==
    ASSUME NEW s \in Limits!SettingsType, NEW f \in Limits!LimitFields, NEW n \in Nat, NEW r,
           r = [s EXCEPT !.limits = [s.limits EXCEPT ![f] = n]]
    PROVE  /\ r \in Limits!SettingsType /\ r.limits[f] = n
           /\ \A g \in Limits!LimitFields : g # f => r.limits[g] = s.limits[g]
BY DEF Limits!SettingsType

\* A profile is set as its table says, with the workers there are permits for
\* (apply_profile).
LEMMA ProfileSet ==
    ASSUME Limits!LimitsConstants, Limits!LimitsInv, NEW p \in Limits!Profiles \ {"custom"},
           Limits!SetProfile(p)
    PROVE  \E r \in Limits!SettingsType :
              /\ Limits!Pressed(r) /\ Fair(r.limits)
              /\ r.profile = p /\ r.thermal = limits.thermal
              /\ r.limits["cpu_workers"] \in 1..permits
              /\ \A g \in Limits!LimitFields :
                    g # "cpu_workers" =>
                        r.limits[g] = Limits!ForProfile(p, limits.thermal, cores, mode)[g]
<1>. DEFINE s == Limits!FromProfile(p, limits.thermal, mode, <<>>)
            w == Limits!Least(s.limits.cpu_workers, permits)
            r == [s EXCEPT !.limits = [s.limits EXCEPT !["cpu_workers"] = w]]
<1>1. limits.thermal \in Limits!Thermals /\ permits \in Nat \ {0} /\ cores \in Cores
  BY DEF Limits!LimitsInv, Limits!TypeOK
<1>2. s \in Limits!SettingsType /\ Fair(s.limits)
  BY <1>1, SettingsAreFair, NoOptions
<1>3. /\ s.profile = p /\ s.thermal = limits.thermal
      /\ \A g \in Limits!LimitFields :
            s.limits[g] = Limits!ForProfile(p, limits.thermal, cores, mode)[g]
  BY DEF Limits!FromProfile, Limits!Apply
<1>4. Limits!Pressed(r)
  BY DEF Limits!SetProfile
<1>. HIDE DEF s
<1>5. w \in 1..permits
  BY <1>1, <1>2 DEF Fair, Limits!SettingsType, Limits!LimitFields, Limits!Least
<1>6. r = [s EXCEPT !.limits = [s.limits EXCEPT !["cpu_workers"] = w]]
  OBVIOUS
<1>7. r.profile = s.profile /\ r.thermal = s.thermal
  BY <1>2 DEF Limits!SettingsType
<1>. HIDE DEF w, r
<1>8. /\ r \in Limits!SettingsType /\ r.limits["cpu_workers"] = w
      /\ \A g \in Limits!LimitFields : g # "cpu_workers" => r.limits[g] = s.limits[g]
  <2>1. "cpu_workers" \in Limits!LimitFields
    BY DEF Limits!LimitFields
  <2>2. w \in Nat
    BY <1>1, <1>5
  <2>. QED  BY <1>2, <1>6, <2>1, <2>2, OneLimit
<1>9. Fair(r.limits)
  BY <1>1, <1>2, <1>5, <1>8 DEF Fair, Limits!LimitFields
<1>. QED  BY <1>3, <1>4, <1>5, <1>7, <1>8, <1>9

LEMMA SetProfileKeeps ==
    ASSUME Limits!LimitsConstants, Limits!LimitsInv, NEW p \in Limits!Profiles \ {"custom"},
           Limits!SetProfile(p)
    PROVE  Limits!LimitsInv'
<1>1. PICK r \in Limits!SettingsType :
          /\ Limits!Pressed(r) /\ Fair(r.limits) /\ r.limits["cpu_workers"] \in 1..permits
  BY ProfileSet
<1>2. r.limits["chunk_size"] > 0
  BY <1>1 DEF Fair
<1>. QED  BY <1>1, <1>2, PressKeeps

\* One worker more or less, within the permits (handle_control_commands).
LEMMA WorkersAdjusted ==
    ASSUME Limits!LimitsInv, NEW delta \in {-1, 1}, Limits!AdjustWorkers(delta)
    PROVE  \E w \in 1..permits :
              /\ delta = 1 => w = IF limits.limits["cpu_workers"] < permits
                                  THEN limits.limits["cpu_workers"] + 1
                                  ELSE limits.limits["cpu_workers"]
              /\ delta = -1 => w = IF limits.limits["cpu_workers"] > 1
                                   THEN limits.limits["cpu_workers"] - 1
                                   ELSE IF limits.limits["cpu_workers"] = 0 THEN 1
                                   ELSE limits.limits["cpu_workers"]
              /\ Limits!Pressed([limits EXCEPT !.limits =
                                    [limits.limits EXCEPT !["cpu_workers"] = w]])
<1>. DEFINE c == limits.limits["cpu_workers"]
            w == Limits!Least(Limits!Most(c + delta, 1), permits)
<1>1. c \in Nat /\ permits \in Nat \ {0}
  BY DEF Limits!LimitsInv, Limits!TypeOK, Limits!SettingsType, Limits!LimitFields
<1>2. Limits!Pressed([limits EXCEPT !.limits = [limits.limits EXCEPT !["cpu_workers"] = w]])
  BY DEF Limits!AdjustWorkers
<1>3. c <= permits
  BY <1>2 DEF Limits!Pressed, Limits!LimitsInv, Limits!LimitsStayValid
<1>. HIDE DEF c
<1>4. /\ w \in 1..permits
      /\ delta = 1 => w = IF c < permits THEN c + 1 ELSE c
      /\ delta = -1 => w = IF c > 1 THEN c - 1 ELSE IF c = 0 THEN 1 ELSE c
  <2>1. CASE delta = 1
    BY <1>1, <1>3, <2>1 DEF Limits!Least, Limits!Most
  <2>2. CASE delta = -1
    BY <1>1, <1>3, <2>2 DEF Limits!Least, Limits!Most
  <2>. QED  BY <2>1, <2>2
<1>. HIDE DEF w
<1>. QED  BY <1>2, <1>4 DEF c

LEMMA AdjustWorkersKeeps ==
    ASSUME Limits!LimitsConstants, Limits!LimitsInv, NEW delta \in {-1, 1},
           Limits!AdjustWorkers(delta)
    PROVE  Limits!LimitsInv'
<1>1. limits \in Limits!SettingsType /\ permits \in Nat \ {0}
  BY DEF Limits!LimitsInv, Limits!TypeOK
<1>2. PICK w \in 1..permits :
          Limits!Pressed([limits EXCEPT !.limits = [limits.limits EXCEPT !["cpu_workers"] = w]])
  BY WorkersAdjusted
<1>. DEFINE r == [limits EXCEPT !.limits = [limits.limits EXCEPT !["cpu_workers"] = w]]
<1>3. Limits!Pressed(r)
  BY <1>2
<1>4. r = [limits EXCEPT !.limits = [limits.limits EXCEPT !["cpu_workers"] = w]]
  OBVIOUS
<1>. HIDE DEF r
<1>5. /\ r \in Limits!SettingsType /\ r.limits["cpu_workers"] = w
      /\ \A g \in Limits!LimitFields : g # "cpu_workers" => r.limits[g] = limits.limits[g]
  <2>1. "cpu_workers" \in Limits!LimitFields /\ w \in Nat
    BY <1>1 DEF Limits!LimitFields
  <2>. QED  BY <1>1, <1>4, <2>1, OneLimit
<1>6. Fair(limits.limits) => Fair(r.limits)
  BY <1>1, <1>2, <1>5 DEF Fair, Limits!LimitFields
<1>7. r.limits["cpu_workers"] \in 1..permits
  BY <1>2, <1>5
<1>8. r.limits["chunk_size"] > 0
  BY <1>3, <1>5 DEF Limits!Pressed, Limits!LimitsInv, Limits!LimitsStayValid, Limits!LimitFields
<1>. QED  BY <1>3, <1>5, <1>6, <1>7, <1>8, PressKeeps

\* A chunk grows or shrinks by a quarter of it, or by one (adjust_chunk_size).
LEMMA ChunkAdjusted ==
    ASSUME Limits!LimitsInv, NEW delta \in {-1, 1}, Limits!AdjustChunkSize(delta)
    PROVE  \E n \in Nat :
              /\ n > 0
              /\ delta = 1 => n > limits.limits["chunk_size"]
              /\ delta = -1 => n < limits.limits["chunk_size"] \/ n = 1
              /\ delta = -1 /\ limits.limits["chunk_size"] > 1 => n < limits.limits["chunk_size"]
              /\ Limits!Pressed([limits EXCEPT !.limits =
                                    [limits.limits EXCEPT !["chunk_size"] = n]])
<1>. DEFINE c == limits.limits.chunk_size
            n == Limits!Most(c + delta * Limits!Most(c \div 4, 1), 1)
<1>1. c \in Nat
  BY DEF Limits!LimitsInv, Limits!SettingsType, Limits!LimitFields
<1>2. Limits!Pressed([limits EXCEPT !.limits = [limits.limits EXCEPT !["chunk_size"] = n]])
  BY DEF Limits!AdjustChunkSize
<1>3. /\ n \in Nat /\ n > 0 /\ (delta = 1 => n > c) /\ (delta = -1 => n < c \/ n = 1)
      /\ delta = -1 /\ c > 1 => n < c
  <2>. HIDE DEF c
  <2>1. CASE delta = 1
    BY <1>1, <2>1 DEF Limits!Most
  <2>2. CASE delta = -1
    BY <1>1, <2>2 DEF Limits!Most
  <2>. QED  BY <2>1, <2>2
<1>. HIDE DEF n
<1>. QED  BY <1>2, <1>3

LEMMA AdjustChunkKeeps ==
    ASSUME Limits!LimitsConstants, Limits!LimitsInv, NEW delta \in {-1, 1},
           Limits!AdjustChunkSize(delta)
    PROVE  Limits!LimitsInv'
<1>1. PICK n \in Nat :
          /\ n > 0
          /\ Limits!Pressed([limits EXCEPT !.limits =
                                [limits.limits EXCEPT !["chunk_size"] = n]])
  BY ChunkAdjusted
<1>. DEFINE r == [limits EXCEPT !.limits = [limits.limits EXCEPT !["chunk_size"] = n]]
<1>2. limits \in Limits!SettingsType
  BY DEF Limits!LimitsInv
<1>3. Limits!Pressed(r)
  BY <1>1
<1>4. r = [limits EXCEPT !.limits = [limits.limits EXCEPT !["chunk_size"] = n]]
  OBVIOUS
<1>. HIDE DEF r
<1>5. /\ r \in Limits!SettingsType /\ r.limits["chunk_size"] = n
      /\ \A g \in Limits!LimitFields : g # "chunk_size" => r.limits[g] = limits.limits[g]
  <2>1. "chunk_size" \in Limits!LimitFields
    BY DEF Limits!LimitFields
  <2>. QED  BY <1>2, <1>4, <2>1, OneLimit
<1>6. Fair(limits.limits) => Fair(r.limits)
  BY <1>1, <1>5 DEF Fair, Limits!LimitFields
<1>7. r.limits["cpu_workers"] \in 1..permits
  <2>1. limits.limits["cpu_workers"] \in 1..permits
    BY <1>3 DEF Limits!Pressed, Limits!LimitsInv, Limits!LimitsStayValid
  <2>. QED  BY <1>5, <2>1 DEF Limits!LimitFields
<1>8. r.limits["chunk_size"] > 0
  BY <1>1, <1>5
<1>. QED  BY <1>3, <1>5, <1>6, <1>7, <1>8, PressKeeps

LEMMA ThermalKeeps ==
    ASSUME Limits!LimitsConstants, Limits!LimitsInv, Limits!CycleThermalMode
    PROVE  Limits!LimitsInv'
<1>. DEFINE r == [limits EXCEPT !.thermal = Limits!Warmer[@]]
<1>1. Limits!Pressed(r)
  BY DEF Limits!CycleThermalMode
<1>2. limits \in Limits!SettingsType
  BY DEF Limits!LimitsInv
<1>3. Limits!Warmer[limits.thermal] \in Limits!Thermals
  BY <1>2 DEF Limits!SettingsType, Limits!Thermals, Limits!Warmer
<1>4. r \in Limits!SettingsType /\ r.limits = limits.limits
  BY <1>2, <1>3 DEF Limits!SettingsType
<1>. HIDE DEF r
<1>5. limits.limits.cpu_workers \in 1..permits /\ limits.limits.chunk_size > 0
  BY <1>1 DEF Limits!Pressed, Limits!LimitsInv, Limits!LimitsStayValid
<1>. QED  BY <1>1, <1>4, <1>5, PressKeeps

LEMMA EndedSearchKeeps ==
    ASSUME Limits!LimitsConstants, Limits!LimitsInv, Limits!End
    PROVE  Limits!LimitsInv'
<1>1. /\ stage' = "idle" /\ limits' = Limits!Nothing /\ permits' = 1
      /\ UNCHANGED <<cores, mode, stored, answer, presses, spoiled>>
  BY DEF Limits!End
<1>2. Limits!Nothing \in Limits!SettingsType
  BY NothingIsFair DEF Limits!LimitsInv, Limits!TypeOK
<1>. QED
  BY <1>1, <1>2 DEF Limits!LimitsInv, Limits!TypeOK, Limits!LimitsStayValid, Limits!IsWritten,
                    Limits!SettingsType

LEMMA LimitsStep ==
    ASSUME Limits!LimitsConstants, Limits!LimitsInv, [Limits!Next]_Limits!vars
    PROVE  Limits!LimitsInv'
<1>1. CASE Limits!Next
  BY <1>1, NewSearchKeeps, ResumedSearchKeeps, EndedSearchKeeps, CheckpointKeeps, SetProfileKeeps,
     AdjustWorkersKeeps, AdjustChunkKeeps, ThermalKeeps DEF Limits!Next
<1>2. CASE UNCHANGED Limits!vars
  <2>1. UNCHANGED <<cores, mode, stored, limits, permits, stage, answer, presses, spoiled>>
    BY <1>2 DEF Limits!vars
  <2>. QED
    BY <2>1 DEF Limits!LimitsInv, Limits!TypeOK, Limits!LimitsStayValid, Limits!IsWritten
<1>. QED  BY <1>1, <1>2

\* A run without a snapshot is new to it, one with a snapshot is read; what nobody
\* knows is written as it was.
LEMMA UnknownIsKept ==
    ASSUME NEW d, IsSnapshot(d), NEW n, IsSnapshot(n), n.extra = d.extra,
           stored' = Limits!Encode(n)
    PROVE  (Limits!Decode(stored').extra) = Limits!Unknown(d.extra)
<1>1. Limits!Decode(Limits!Encode(n)) = [n EXCEPT !.extra = Limits!Unknown(@)]
  BY WrittenIsRead
<1>2. [n EXCEPT !.extra = Limits!Unknown(@)].extra = Limits!Unknown(n.extra)
  BY DEF IsSnapshot
<1>. QED  BY <1>1, <1>2

\* What other versions stored is kept.
LEMMA ExtrasKept ==
    ASSUME Limits!LimitsConstants, Limits!LimitsInv, [Limits!Next]_Limits!vars
    PROVE  Limits!ExtrasAreKept
<1>1. ASSUME stored # Limits!NoObject, Limits!Takes(stored), stored' # stored
      PROVE  Limits!Decode(stored').extra = Limits!Unknown(Limits!Decode(stored).extra)
  <2>. DEFINE d == Limits!Decode(stored)
  <2>1. IsSnapshot(d)
    BY <1>1, TakenIsRead DEF ReadWell, Limits!LimitsInv, Limits!TypeOK
  <2>2. Limits!Resume \/ Limits!Checkpoint
    BY <1>1 DEF Limits!Next, Limits!vars, Limits!Start, Limits!End, Limits!SetProfile,
                Limits!AdjustWorkers, Limits!AdjustChunkSize, Limits!CycleThermalMode,
                Limits!Pressed, Limits!LimitsInv
  <2>3. \E s \in Limits!SettingsType, k \in Nat :
            stored' = Limits!Encode([settings |-> s, offset |-> k, extra |-> d.extra])
    <3>1. CASE Limits!Resume
      <4>1. PICK options \in ResumeOptions, p \in Given :
              LET name == IF p = "custom" THEN d.settings.profile ELSE p
                  r == Limits!Merged(d.settings, name, options)
              IN stored' = Limits!Encode([d EXCEPT !.settings = r, !.offset = 1])
        BY <1>1, <3>1 DEF Limits!Resume
      <4>. DEFINE name == IF p = "custom" THEN d.settings.profile ELSE p
                  r == Limits!Merged(d.settings, name, options)
      <4>2. r \in Limits!SettingsType
        BY <1>1, ResumedSettings
      <4>3. stored' = Limits!Encode([d EXCEPT !.settings = r, !.offset = 1])
        BY <4>1
      <4>. HIDE DEF d, r
      <4>4. [d EXCEPT !.settings = r, !.offset = 1]
                = [settings |-> r, offset |-> 1, extra |-> d.extra]
        BY <2>1, <4>2, ChangedIsSnapshot
      <4>. QED  BY <4>2, <4>3, <4>4
    <3>2. CASE Limits!Checkpoint
      <4>1. stored' = Limits!Encode([d EXCEPT !.settings = limits, !.offset = 2])
        BY <1>1, <3>2 DEF Limits!Checkpoint
      <4>2. limits \in Limits!SettingsType
        BY DEF Limits!LimitsInv
      <4>. HIDE DEF d
      <4>3. [d EXCEPT !.settings = limits, !.offset = 2]
                = [settings |-> limits, offset |-> 2, extra |-> d.extra]
        BY <2>1, <4>2, ChangedIsSnapshot
      <4>. QED  BY <4>1, <4>2, <4>3
    <3>. QED  BY <2>2, <3>1, <3>2
  <2>. HIDE DEF d
  <2>4. PICK s \in Limits!SettingsType, k \in Nat :
            stored' = Limits!Encode([settings |-> s, offset |-> k, extra |-> d.extra])
    BY <2>3
  <2>. DEFINE n == [settings |-> s, offset |-> k, extra |-> d.extra]
  <2>5. IsSnapshot(n) /\ n.extra = d.extra /\ stored' = Limits!Encode(n)
    BY <2>1, <2>4 DEF IsSnapshot
  <2>. HIDE DEF n
  <2>6. Limits!Decode(stored').extra = Limits!Unknown(d.extra)
    BY <2>1, <2>5, UnknownIsKept
  <2>. QED  BY <2>6 DEF d
<1>. QED  BY <1>1 DEF Limits!ExtrasAreKept

\* The keys of the chunk move it, and nothing else.
LEMMA ChunkMoves ==
    ASSUME Limits!LimitsInv
    PROVE  Limits!ChunkKeysMove
<1>. DEFINE old == limits.limits["chunk_size"]
<1>1. ASSUME NEW delta \in {-1, 1}, Limits!AdjustChunkSize(delta)
      PROVE  /\ limits'.limits["chunk_size"] \in Nat \ {0}
             /\ delta = 1 => limits'.limits["chunk_size"] > old
             /\ delta = -1 => \/ limits'.limits["chunk_size"] < old
                              \/ old = 1 /\ limits'.limits["chunk_size"] = 1
             /\ Limits!ChangesOnly("chunk_size")
  <2>1. PICK n \in Nat :
            /\ n > 0
            /\ delta = 1 => n > old
            /\ delta = -1 => n < old \/ n = 1
            /\ delta = -1 /\ old > 1 => n < old
            /\ Limits!Pressed([limits EXCEPT !.limits =
                                  [limits.limits EXCEPT !["chunk_size"] = n]])
    BY <1>1, ChunkAdjusted
  <2>2. limits' = [limits EXCEPT !.limits = [limits.limits EXCEPT !["chunk_size"] = n]]
    BY <2>1 DEF Limits!Pressed
  <2>3. limits \in Limits!SettingsType /\ "chunk_size" \in Limits!LimitFields
    BY DEF Limits!LimitsInv, Limits!LimitFields
  <2>4. /\ limits'.limits["chunk_size"] = n
        /\ \A g \in Limits!LimitFields : g # "chunk_size" => limits'.limits[g] = limits.limits[g]
    BY <2>2, <2>3, OneLimit
  <2>5. old \in Nat /\ old > 0
    BY <2>1, <2>3 DEF Limits!Pressed, Limits!LimitsInv, Limits!LimitsStayValid, Limits!SettingsType
  <2>6. Limits!ChangesOnly("chunk_size")
    BY <2>4 DEF Limits!ChangesOnly
  <2>. HIDE DEF old
  <2>. QED  BY <2>1, <2>4, <2>5, <2>6
<1>2. ASSUME Limits!AdjustChunkSize(1)
      PROVE  /\ limits'.limits.chunk_size > limits.limits.chunk_size
             /\ Limits!ChangesOnly("chunk_size")
  BY <1>1, <1>2
<1>3. ASSUME Limits!AdjustChunkSize(-1)
      PROVE  /\ \/ limits'.limits.chunk_size < limits.limits.chunk_size
                \/ limits.limits.chunk_size = 1 /\ limits'.limits.chunk_size = 1
             /\ limits'.limits.chunk_size > 0
             /\ Limits!ChangesOnly("chunk_size")
  BY <1>1, <1>3
<1>. QED  BY <1>2, <1>3 DEF Limits!ChunkKeysMove

\* The keys of the workers take one more or one less, and change nothing else.
LEMMA WorkersMove ==
    ASSUME Limits!LimitsInv
    PROVE  Limits!WorkerKeysMove
<1>. DEFINE old == limits.limits["cpu_workers"]
<1>1. ASSUME NEW delta \in {-1, 1}, Limits!AdjustWorkers(delta)
      PROVE  /\ delta = 1 => limits'.limits["cpu_workers"] = IF old < permits THEN old + 1 ELSE old
             /\ delta = -1 => limits'.limits["cpu_workers"] = IF old > 1 THEN old - 1 ELSE old
             /\ Limits!ChangesOnly("cpu_workers")
  <2>1. PICK w \in 1..permits :
            /\ delta = 1 => w = IF old < permits THEN old + 1 ELSE old
            /\ delta = -1 => w = IF old > 1 THEN old - 1 ELSE IF old = 0 THEN 1 ELSE old
            /\ Limits!Pressed([limits EXCEPT !.limits =
                                  [limits.limits EXCEPT !["cpu_workers"] = w]])
    BY <1>1, WorkersAdjusted
  <2>2. limits' = [limits EXCEPT !.limits = [limits.limits EXCEPT !["cpu_workers"] = w]]
    BY <2>1 DEF Limits!Pressed
  <2>3. /\ limits \in Limits!SettingsType /\ "cpu_workers" \in Limits!LimitFields /\ w \in Nat
        /\ permits \in Nat
    BY DEF Limits!LimitsInv, Limits!TypeOK, Limits!LimitFields
  <2>4. /\ limits'.limits["cpu_workers"] = w
        /\ \A g \in Limits!LimitFields : g # "cpu_workers" => limits'.limits[g] = limits.limits[g]
    BY <2>2, <2>3, OneLimit
  <2>5. old \in 1..permits
    BY <2>1 DEF Limits!Pressed, Limits!LimitsInv, Limits!LimitsStayValid
  <2>6. Limits!ChangesOnly("cpu_workers")
    BY <2>4 DEF Limits!ChangesOnly
  <2>. HIDE DEF old
  <2>. QED  BY <2>1, <2>3, <2>4, <2>5, <2>6
<1>2. ASSUME Limits!AdjustWorkers(1)
      PROVE  /\ IF limits.limits.cpu_workers < permits
                THEN limits'.limits.cpu_workers = limits.limits.cpu_workers + 1
                ELSE limits'.limits.cpu_workers = limits.limits.cpu_workers
             /\ Limits!ChangesOnly("cpu_workers")
  BY <1>1, <1>2
<1>3. ASSUME Limits!AdjustWorkers(-1)
      PROVE  /\ IF limits.limits.cpu_workers > 1
                THEN limits'.limits.cpu_workers = limits.limits.cpu_workers - 1
                ELSE limits'.limits.cpu_workers = limits.limits.cpu_workers
             /\ Limits!ChangesOnly("cpu_workers")
  BY <1>1, <1>3
<1>. QED  BY <1>2, <1>3 DEF Limits!WorkerKeysMove

\* A profile asks for no less than the one below it, with the workers there are.
LEMMA ProfilesClimb ==
    ASSUME Limits!LimitsConstants, Limits!LimitsInv
    PROVE  Limits!ProfileKeysClimb
<1>. SUFFICES ASSUME NEW i \in 1..4, Limits!SetProfile(Limits!Ladder[i])
              PROVE  /\ limits'.profile = Limits!Ladder[i] /\ limits'.thermal = limits.thermal
                     /\ limits'.limits.cpu_workers \in 1..permits
                     /\ i > 1 => Limits!NoLess(
                                     Limits!ForProfile(Limits!Ladder[i - 1], limits.thermal,
                                                       cores, mode),
                                     limits'.limits)
  BY DEF Limits!ProfileKeysClimb
<1>. DEFINE p == Limits!Ladder[i]
            asked(q) == Limits!ForProfile(q, limits.thermal, cores, mode)
<1>1. p \in Limits!Profiles \ {"custom"}
  BY DEF Limits!Ladder, Limits!Profiles
<1>2. Limits!SetProfile(p)
  OBVIOUS
<1>3. /\ limits.thermal \in Limits!Thermals /\ cores \in Nat \ {0}
  BY DEF Limits!LimitsInv, Limits!TypeOK, Limits!LimitsConstants
<1>. HIDE DEF p
<1>4. PICK r \in Limits!SettingsType :
          /\ Limits!Pressed(r)
          /\ r.profile = p /\ r.thermal = limits.thermal
          /\ r.limits["cpu_workers"] \in 1..permits
          /\ \A g \in Limits!LimitFields : g # "cpu_workers" => r.limits[g] = asked(p)[g]
  BY <1>1, <1>2, ProfileSet
<1>5. limits' = r
  BY <1>4 DEF Limits!Pressed
<1>6. ASSUME i > 1
      PROVE  Limits!NoLess(asked(Limits!Ladder[i - 1]), r.limits)
  <2>. DEFINE j == i - 1
  <2>1. j \in 1..3 /\ j + 1 = i
    BY <1>6
  <2>. HIDE DEF j
  <2>2. /\ AsksNoLess(Limits!ProfileTable(Limits!Ladder[j], cores, mode),
                      Limits!ProfileTable(Limits!Ladder[j + 1], cores, mode))
        /\ Limits!Ladder[j] \in Limits!Profiles /\ Limits!Ladder[j + 1] \in Limits!Profiles
    BY <1>3, <2>1, LadderIsOrdered
  <2>3. AsksNoLess(asked(Limits!Ladder[j]), asked(p))
    BY <1>3, <2>1, <2>2, ThermalKeepsOrder DEF p
  <2>. HIDE DEF asked
  <2>4. AsksNoLess(asked(Limits!Ladder[j]), r.limits)
    BY <1>4, <2>3 DEF AsksNoLess, Limits!LimitFields
  <2>. QED  BY <2>4, NoLessNamed DEF j
<1>. QED  BY <1>4, <1>5, <1>6 DEF p

\* The thermal key changes the mode alone, and comes round.
LEMMA ThermalTurns ==
    ASSUME Limits!LimitsInv
    PROVE  Limits!ThermalKeyTurns
<1>. SUFFICES ASSUME Limits!CycleThermalMode
              PROVE  /\ limits'.limits = limits.limits /\ limits'.thermal # limits.thermal
                     /\ Limits!Warmer[Limits!Warmer[limits'.thermal]] = limits.thermal
  BY DEF Limits!ThermalKeyTurns
<1>1. limits' = [limits EXCEPT !.thermal = Limits!Warmer[@]]
  BY DEF Limits!CycleThermalMode, Limits!Pressed
<1>2. limits \in Limits!SettingsType
  BY DEF Limits!LimitsInv
<1>3. limits'.limits = limits.limits /\ limits'.thermal = Limits!Warmer[limits.thermal]
  BY <1>1, <1>2 DEF Limits!SettingsType
<1>4. limits.thermal \in Limits!Thermals
  BY <1>2 DEF Limits!SettingsType
<1>. QED  BY <1>3, <1>4 DEF Limits!Thermals, Limits!Warmer

\* Every key does what it names, and what other versions stored is kept.
LEMMA StepKept ==
    ASSUME Limits!LimitsConstants, Limits!LimitsInv, [Limits!Next]_Limits!vars
    PROVE  Limits!StepIsKept
BY ExtrasKept, ChunkMoves, WorkersMove, ProfilesClimb, ThermalTurns DEF Limits!StepIsKept

\* A search has limits that can be stored and read back, whatever the machine,
\* the options, the keys and the snapshots that were there.
THEOREM LimitsSound == Limits!Spec => []LimitsInvariant
<1>1. Limits!Init => Limits!LimitsInv
  BY LimitsAssumption, LimitsStart
<1>2. Limits!LimitsInv /\ [Limits!Next]_Limits!vars => Limits!LimitsInv'
  BY LimitsAssumption, LimitsStep
<1>3. Limits!LimitsInv => LimitsInvariant
  BY LimitsAssumption, LimitsImplied DEF LimitsInvariant
<1>. QED  BY <1>1, <1>2, <1>3, PTL DEF Limits!Spec

\* A key does what it names within its bounds, and what other versions stored
\* is kept, for the same.
THEOREM KeysActAlways == Limits!Spec => KeysAct
<1>1. Limits!Init => Limits!LimitsInv
  BY LimitsAssumption, LimitsStart
<1>2. Limits!LimitsInv /\ [Limits!Next]_Limits!vars => Limits!LimitsInv'
  BY LimitsAssumption, LimitsStep
<1>3. Limits!LimitsInv /\ [Limits!Next]_Limits!vars
          => [side = "limits" => Limits!StepIsKept]_limitsVars
  BY LimitsAssumption, StepKept
<1>. QED  BY <1>1, <1>2, <1>3, PTL DEF Limits!Spec, KeysAct

-----------------------------------------------------------------------------
(* Where input goes.                                                       *)

\* What holds of the interface between two inputs.
Fits(u) ==
    /\ u \in [tab : Keys!Tabs, search : {"none", "running", "finished"}, handed : BOOLEAN,
              help : BOOLEAN, palette : Keys!Contexts \cup {Keys!NoPalette},
              confirm : BOOLEAN, row : 0..MaxRows, count : {"none", "current", "stale"}]
    /\ u.palette # Keys!NoPalette => ~u.help /\ ~u.confirm
    /\ ~(u.help /\ u.confirm)
    /\ u.palette \in {Keys!NoPalette, Keys!ContextOf(u)}
    /\ u.count # "stale"

InputInv == Fits(ui) /\ dirty \in BOOLEAN /\ Keys!ScreenOrDirty

\* The five tabs, and who is next to whom is one of them.
LEMMA TabsAre == Keys!Tabs = {"Hunt", "Runs", "Gallery", "Data", "Settings"}
BY DEF Keys!Tabs, Keys!TabOrder

LEMMA StepIsATab ==
  ASSUME NEW t \in Keys!Tabs, NEW delta \in {-1, 1}
  PROVE Keys!Step(t, delta) \in Keys!Tabs
<1> DEFINE i == CHOOSE j \in DOMAIN Keys!TabOrder : Keys!TabOrder[j] = t
<1>1. DOMAIN Keys!TabOrder = 1..5 /\ Len(Keys!TabOrder) = 5
  BY DEF Keys!TabOrder
<1>2. i \in 1..5
  BY <1>1 DEF Keys!Tabs
<1>3. ((i - 1 + delta) % 5) + 1 \in 1..5
  <2> HIDE DEF i
  <2> QED BY <1>2
<1>4. Keys!Step(t, delta) = Keys!TabOrder[((i - 1 + delta) % 5) + 1]
  BY <1>1 DEF Keys!Step
<1> QED BY <1>1, <1>3, <1>4 DEF Keys!Tabs

\* A context is a tab and whether a search is there, and never no palette.
LEMMA ContextFacts ==
  ASSUME NEW u, Fits(u)
  PROVE /\ Keys!ContextOf(u) \in Keys!Contexts
        /\ Keys!ContextOf(u) # Keys!NoPalette
        /\ u.palette # Keys!NoPalette => u.palette = Keys!ContextOf(u)
BY TabsAre DEF Fits, Keys!ContextOf, Keys!Contexts, Keys!NoPalette, Keys!Active

\* What a command makes of an interface with nothing in front of it, command by command.
LEMMA PerformIs ==
  ASSUME NEW u, NEW action, NEW v \in Keys!Perform(u, action), u.tab \in Keys!Tabs
  PROVE \/ \E t \in Keys!Tabs : v \in Keys!Goto(u, t)
        \/ v = [u EXCEPT !.palette = Keys!ContextOf(u)]
        \/ v = [u EXCEPT !.help = ~@]
        \/ v \in Keys!StartSearch(u)
        \/ v \in Keys!DismissFinished(u)
        \/ v \in Keys!ResumeSelected(u)
        \/ v \in Keys!DeleteSelected(u)
        \/ v \in Keys!Reloaded(u)
        \/ v = [u EXCEPT !.tab = "Hunt"]
        \/ v \in Keys!Validated(u)
        \/ v = u
<1>1. Keys!Step(u.tab, 1) \in Keys!Tabs /\ Keys!Step(u.tab, -1) \in Keys!Tabs
  BY StepIsATab
<1> QED BY <1>1 DEF Keys!Perform

LEMMA PerformFits ==
  ASSUME NEW u, Fits(u), Keys!Modal(u) = "none",
         NEW action, NEW v \in Keys!Perform(u, action)
  PROVE /\ Fits(v)
        /\ Keys!Modal(v) = "palette" => Keys!Behind(v) = Keys!Behind(u)
<1>1. /\ u.palette = Keys!NoPalette /\ ~u.help /\ ~u.confirm
      /\ u.tab \in Keys!Tabs /\ "Hunt" \in Keys!Tabs /\ "Runs" \in Keys!Tabs
      /\ MaxRows \in Nat
  BY TabsAre, InputAssumption DEF Keys!Modal, Fits, Keys!InputConstants
<1>2. Keys!ContextOf(u) \in Keys!Contexts /\ Keys!ContextOf(u) # Keys!NoPalette
  BY ContextFacts
<1> DEFINE Quiet(w) ==
      /\ Fits(w) /\ w.palette = Keys!NoPalette
<1>3. ASSUME NEW w, Quiet(w) PROVE Keys!Modal(w) # "palette"
  BY <1>3 DEF Keys!Modal
<1>15. ASSUME NEW w, Quiet(w), NEW x \in Keys!Reloaded(w) PROVE Quiet(x)
  <2>1. PICK row \in 0..MaxRows : x = [w EXCEPT !.row = row]
    BY <1>15 DEF Keys!Reloaded
  <2> QED BY <1>1, <1>15, <2>1 DEF Fits, Keys!ContextOf, Keys!Active
<1>16. Quiet(u) BY <1>1
<1>4. CASE \E t \in Keys!Tabs : v \in Keys!Goto(u, t)
  <2>1. PICK t \in Keys!Tabs : v \in Keys!Goto(u, t) BY <1>4
  <2>2. Quiet([u EXCEPT !.tab = t]) BY <1>1 DEF Fits
  <2>3. Quiet(v)
    <3>1. CASE u.tab = t BY <1>16, <2>1, <3>1 DEF Keys!Goto
    <3>2. CASE u.tab # t /\ t = "Runs"
      <4>1. v \in Keys!Reloaded([u EXCEPT !.tab = t]) BY <2>1, <3>2 DEF Keys!Goto
      <4> QED BY <1>15, <2>2, <4>1
    <3>3. CASE u.tab # t /\ t # "Runs"
      <4>1. v = [u EXCEPT !.tab = t] BY <2>1, <3>3 DEF Keys!Goto
      <4> QED BY <2>2, <4>1
    <3> QED BY <3>1, <3>2, <3>3
  <2> QED BY <1>3, <2>3
<1>5. CASE v = [u EXCEPT !.palette = Keys!ContextOf(u)]
  <2>1. Keys!ContextOf(v) = Keys!ContextOf(u) /\ Keys!Behind(v) = Keys!Behind(u)
    BY <1>1, <1>5 DEF Fits, Keys!ContextOf, Keys!Active, Keys!Behind
  <2> QED BY <1>1, <1>2, <1>5, <2>1 DEF Fits
<1>6. CASE v = [u EXCEPT !.help = ~@]
  <2>1. Quiet(v) BY <1>1, <1>6 DEF Fits
  <2> QED BY <1>3, <2>1
<1>7. CASE v \in Keys!StartSearch(u)
  <2>1. Quiet(v) BY <1>1, <1>7 DEF Fits, Keys!StartSearch
  <2> QED BY <1>3, <2>1
<1>8. CASE v \in Keys!DismissFinished(u)
  <2>1. Quiet(v)
    <3>1. Quiet([u EXCEPT !.search = "none"]) BY <1>1 DEF Fits
    <3>2. CASE u.search # "finished" BY <1>8, <1>16, <3>2 DEF Keys!DismissFinished
    <3>3. CASE u.search = "finished"
      <4>1. v \in Keys!Reloaded([u EXCEPT !.search = "none"])
        BY <1>8, <3>3 DEF Keys!DismissFinished
      <4> QED BY <1>15, <3>1, <4>1
    <3> QED BY <3>2, <3>3
  <2> QED BY <1>3, <2>1
<1>9. CASE v \in Keys!ResumeSelected(u)
  <2>1. Quiet(v) BY <1>1, <1>9 DEF Fits, Keys!ResumeSelected
  <2> QED BY <1>3, <2>1
<1>10. CASE v \in Keys!DeleteSelected(u)
  <2>1. Quiet(v) BY <1>1, <1>10 DEF Fits, Keys!DeleteSelected
  <2> QED BY <1>3, <2>1
<1>11. CASE v \in Keys!Reloaded(u)
  <2>1. Quiet(v) BY <1>15, <1>16, <1>11
  <2> QED BY <1>3, <2>1
<1>12. CASE v = [u EXCEPT !.tab = "Hunt"]
  <2>1. Quiet(v) BY <1>1, <1>12 DEF Fits
  <2> QED BY <1>3, <2>1
<1>13. CASE v \in Keys!Validated(u)
  <2>1. Quiet(v) BY <1>1, <1>13 DEF Fits, Keys!Validated
  <2> QED BY <1>3, <2>1
<1>14. CASE v = u
  BY <1>1, <1>3, <1>14
<1> QED BY <1>1, PerformIs, <1>4, <1>5, <1>6, <1>7, <1>8, <1>9, <1>10, <1>11, <1>12,
           <1>13, <1>14

\* What the palette makes of an interface: it stays, closes, or runs a command.
LEMMA PaletteFits ==
  ASSUME NEW u, Fits(u), Keys!Modal(u) = "palette", NEW v \in Keys!PaletteOutcomes(u)
  PROVE /\ Fits(v)
        /\ Keys!Modal(v) = "palette" => Keys!Behind(v) = Keys!Behind(u)
<1> DEFINE closed == [u EXCEPT !.palette = Keys!NoPalette]
<1>1. u.palette # Keys!NoPalette /\ ~u.help /\ ~u.confirm
  BY DEF Keys!Modal, Fits
<1>2. Fits(closed) /\ Keys!Modal(closed) = "none" /\ Keys!Behind(closed) = Keys!Behind(u)
  BY <1>1 DEF Fits, Keys!Modal, Keys!Behind, Keys!Active
<1>3. Keys!ContextOf(u) = u.palette
  BY <1>1, ContextFacts
<1> HIDE DEF closed
<1>4. CASE v = [u EXCEPT !.palette = Keys!ContextOf(u)]
  <2>1. v = u BY <1>3, <1>4 DEF Fits
  <2> QED BY <2>1
<1>5. CASE v = closed
  BY <1>2, <1>5
<1>6. CASE v \in Keys!FromPalette(u)
  <2>1. PICK action : v \in Keys!Perform(closed, action)
    BY <1>6 DEF Keys!FromPalette, closed
  <2> QED BY <1>2, <2>1, PerformFits
<1> QED BY <1>4, <1>5, <1>6 DEF Keys!PaletteOutcomes, closed

\* The confirmation closes with its own effect alone.
LEMMA ResolvedFits ==
  ASSUME NEW u, Fits(u), Keys!Modal(u) = "confirm", NEW confirmed \in BOOLEAN,
         NEW v \in Keys!Resolved(u, confirmed)
  PROVE Fits(v) /\ Keys!Modal(v) = "none" /\ Keys!Behind(v) = Keys!Behind(u)
<1> DEFINE closed == [u EXCEPT !.confirm = FALSE]
<1>1. u.palette = Keys!NoPalette /\ ~u.help /\ u.confirm /\ MaxRows \in Nat
  BY InputAssumption DEF Keys!Modal, Fits, Keys!InputConstants
<1>2. Fits(closed) /\ Keys!Modal(closed) = "none" /\ Keys!Behind(closed) = Keys!Behind(u)
  BY <1>1 DEF Fits, Keys!Modal, Keys!Behind, Keys!Active
<1>3. v = closed \/ \E row \in 0..MaxRows : v = [closed EXCEPT !.row = row]
  BY DEF Keys!Resolved, Keys!Reloaded
<1>4. ASSUME NEW row \in 0..MaxRows, v = [closed EXCEPT !.row = row]
      PROVE Fits(v) /\ Keys!Modal(v) = "none" /\ Keys!Behind(v) = Keys!Behind(u)
  <2> HIDE DEF closed
  <2> QED BY <1>2, <1>4
       DEF Fits, Keys!Modal, Keys!Behind, Keys!Active, Keys!ContextOf
<1> QED BY <1>2, <1>3, <1>4

\* An edit and a move of the selection leave everything else as it was.
LEMMA EditFits ==
  ASSUME NEW u, Fits(u), NEW v \in Keys!Edited(u) \cup Keys!Moved(u) \cup {u}
  PROVE Fits(v) /\ Keys!Modal(v) = Keys!Modal(u) /\ Keys!Behind(v) = Keys!Behind(u)
<1>1. MaxRows \in Nat
  BY InputAssumption DEF Keys!InputConstants
<1>2. CASE v \in Keys!Edited(u)
  BY <1>2 DEF Fits, Keys!Edited, Keys!Modal, Keys!Behind, Keys!Active, Keys!ContextOf
<1>3. CASE v \in Keys!Moved(u) \ {u}
  <2>1. PICK row \in 1..MaxRows : v = [u EXCEPT !.row = row]
    BY <1>3 DEF Keys!Moved
  <2> QED BY <1>1, <2>1 DEF Fits, Keys!Modal, Keys!Behind, Keys!Active, Keys!ContextOf
<1> QED BY <1>2, <1>3

-----------------------------------------------------------------------------
(* Keys.                                                                   *)

\* Whatever a match holds, its answer is one of its actions, or none.
LEMMA MatchFacts ==
  ASSUME NEW key, NEW arms
  PROVE \/ Keys!Match(key, arms) = "none" /\ \A arm \in arms : arm[1] # key
        \/ \E arm \in arms : arm[1] = key /\ Keys!Match(key, arms) = arm[2]
BY DEF Keys!Match

\* No key is bound to the answer to a modal.
LEMMA ResolveFacts ==
  ASSUME NEW key, NEW context, context.tab \in Keys!Tabs
  PROVE Keys!Resolve(key, context) \notin {"yes", "no", "palette"}
<1> DEFINE early == Keys!ControlKeys(context) \cup Keys!EverywhereKeys
                      \cup Keys!StartKey(context) \cup Keys!ProfileKeys(context)
           late == Keys!TabKeys(context)
<1>1. \A arm \in early : arm[2] \notin {"yes", "no", "palette"}
  BY DEF Keys!ControlKeys, Keys!EverywhereKeys, Keys!StartKey, Keys!ProfileKeys
<1>2. \A arm \in late : arm[2] \notin {"yes", "no", "palette"}
  <2>1. CASE context.tab = "Hunt" BY <2>1 DEF Keys!TabKeys, Keys!LiveKeys
  <2>2. CASE context.tab = "Runs" BY <2>2 DEF Keys!TabKeys
  <2>3. CASE context.tab = "Gallery" BY <2>3 DEF Keys!TabKeys
  <2>4. CASE context.tab = "Data" BY <2>4 DEF Keys!TabKeys
  <2>5. CASE context.tab = "Settings" BY <2>5 DEF Keys!TabKeys
  <2> QED BY <2>1, <2>2, <2>3, <2>4, <2>5, TabsAre
<1>3. Keys!Resolve(key, context) = Keys!OrElse(Keys!Match(key, early), Keys!Match(key, late))
  BY DEF Keys!Resolve
<1> HIDE DEF early, late
<1>4. \A arms : \/ Keys!Match(key, arms) = "none"
                 \/ \E arm \in arms : Keys!Match(key, arms) = arm[2]
  BY MatchFacts
<1> QED BY <1>1, <1>2, <1>3, <1>4 DEF Keys!OrElse

\* What a key does before it reaches what lies behind the modals.
LEMMA OutcomesFit ==
  ASSUME NEW u, Fits(u), NEW focus, NEW key,
         NEW v \in Keys!Outcomes(u, Keys!Route(u, focus, key))
  PROVE /\ Fits(v)
        /\ Keys!Modal(u) \in {"help", "confirm"} =>
              Keys!Modal(v) \in {"none", Keys!Modal(u)} /\ Keys!Behind(v) = Keys!Behind(u)
        /\ Keys!Modal(u) = "palette" /\ Keys!Modal(v) = "palette" =>
              Keys!Behind(v) = Keys!Behind(u)
<1> DEFINE route == Keys!Route(u, focus, key)
<1>1. u.tab \in Keys!Tabs /\ Keys!Modal(u) \in {"none", "help", "confirm", "palette"}
  BY DEF Fits, Keys!Modal
<1>2. ASSUME route \in {"Quit", "none"}
      PROVE v = u
  <2>1. v \in Keys!Perform(u, route)
    BY <1>2 DEF Keys!Outcomes
  <2> QED BY <1>2, <2>1, TabsAre DEF Keys!Perform
<1>3. CASE key \in Keys!QuitKeys(u)
  <2>1. route = "Quit" BY <1>3 DEF Keys!Route
  <2> QED BY <1>2, <2>1
<1>4. CASE key \notin Keys!QuitKeys(u) /\ Keys!Modal(u) # "none"
  <2>1. route = Keys!ModalRoute(u, key) BY <1>4 DEF Keys!Route
  <2>2. CASE Keys!Modal(u) = "palette"
    <3>1. route = "palette"
      BY <2>1, <2>2 DEF Keys!ModalRoute, Keys!Modal, Fits
    <3>2. v \in Keys!PaletteOutcomes(u) BY <3>1 DEF Keys!Outcomes
    <3> QED BY <2>2, <3>2, PaletteFits
  <2>3. CASE Keys!Modal(u) = "help"
    <3>1. u.help /\ u.palette = Keys!NoPalette /\ ~u.confirm
      BY <2>3 DEF Keys!Modal, Fits
    <3>2. route \in {"close", "none"} BY <2>1, <3>1 DEF Keys!ModalRoute
    <3>3. CASE route = "close"
      <4>1. v = [u EXCEPT !.help = FALSE] BY <3>3 DEF Keys!Outcomes
      <4> HIDE DEF route
      <4> QED BY <2>3, <3>1, <4>1
           DEF Fits, Keys!Modal, Keys!Behind, Keys!Active, Keys!ContextOf
    <3> QED BY <1>2, <2>3, <3>2, <3>3
  <2>4. CASE Keys!Modal(u) = "confirm"
    <3>1. u.confirm /\ ~u.help /\ u.palette = Keys!NoPalette
      BY <2>4 DEF Keys!Modal, Fits
    <3>2. route \in {"yes", "no", "none"} BY <2>1, <3>1 DEF Keys!ModalRoute
    <3>3. CASE route \in {"yes", "no"}
      <4>1. v \in Keys!Resolved(u, route = "yes") BY <3>3 DEF Keys!Outcomes
      <4> HIDE DEF route
      <4> QED BY <2>4, <4>1, ResolvedFits
    <3> QED BY <1>2, <2>4, <3>2, <3>3
  <2> QED BY <1>1, <1>4, <2>2, <2>3, <2>4
<1>5. CASE Keys!Modal(u) = "none"
  <2>1. CASE route = "close"
    <3>1. v = [u EXCEPT !.help = FALSE] BY <2>1 DEF Keys!Outcomes
    <3>2. v = u
      <4> HIDE DEF route
      <4> QED BY <1>5, <3>1 DEF Fits, Keys!Modal
    <3> QED BY <1>5, <3>2
  <2>2. route \notin {"yes", "no", "palette"}
    <3>1. Keys!Resolve(key, Keys!ContextOf(u)) \notin {"yes", "no", "palette"}
      <4>1. Keys!ContextOf(u).tab \in Keys!Tabs BY <1>1 DEF Keys!ContextOf
      <4> QED BY <4>1, ResolveFacts
    <3>2. /\ Keys!FormRoute(u, focus, key) \in {"edit", "StartSearch", "none"}
          /\ Keys!ListRoute(key) \in {"navigate", "none"}
      BY DEF Keys!FormRoute, Keys!ListRoute
    <3>3. CASE key \in Keys!QuitKeys(u) BY <3>3 DEF Keys!Route
    <3>4. CASE key \notin Keys!QuitKeys(u)
      BY <1>5, <3>1, <3>2, <3>4 DEF Keys!Route, Keys!OrElse
    <3> QED BY <3>3, <3>4
  <2>3. CASE route \in {"edit", "navigate"}
    <3>1. v \in Keys!Edited(u) \cup Keys!Moved(u) BY <2>3 DEF Keys!Outcomes
    <3> QED BY <1>5, <3>1, EditFits
  <2>4. CASE route \notin {"close", "palette", "yes", "no", "edit", "navigate"}
    <3>1. v \in Keys!Perform(u, route) BY <2>4 DEF Keys!Outcomes
    <3> QED BY <1>5, <3>1, PerformFits
  <2> QED BY <2>1, <2>2, <2>3, <2>4
<1> QED BY <1>1, <1>3, <1>4, <1>5

-----------------------------------------------------------------------------
(* The help, and what is typed.                                            *)

\* A key that one action alone is bound to in a match takes that action.
LEMMA MatchOne ==
  ASSUME NEW key, NEW action, NEW arms, <<key, action>> \in arms,
         \A arm \in arms : arm[1] = key => arm[2] = action
  PROVE Keys!Match(key, arms) = action
<1>1. \E arm \in arms : arm[1] = key
  <2>1. <<key, action>>[1] = key OBVIOUS
  <2> QED BY <2>1
<1>2. (CHOOSE arm \in arms : arm[1] = key)[2] = action
  <2>1. (CHOOSE arm \in arms : arm[1] = key) \in arms
        /\ (CHOOSE arm \in arms : arm[1] = key)[1] = key
    BY <1>1
  <2> QED BY <2>1
<1> QED BY <1>1, <1>2 DEF Keys!Match

\* The keys that every tab has.
EarlyArms(context) ==
    Keys!ControlKeys(context) \cup Keys!EverywhereKeys \cup Keys!StartKey(context)
    \cup Keys!ProfileKeys(context)

\* What is bound on every tab comes first, and what is not is left to the tab.
LEMMA ResolveEarly ==
  ASSUME NEW key, NEW action, NEW context, action # "none",
         <<key, action>> \in EarlyArms(context),
         \A arm \in EarlyArms(context) : arm[1] = key => arm[2] = action
  PROVE Keys!Resolve(key, context) = action
<1>1. Keys!Match(key, EarlyArms(context)) = action
  BY MatchOne
<1> QED BY <1>1 DEF Keys!Resolve, Keys!OrElse, EarlyArms

LEMMA ResolveLate ==
  ASSUME NEW key, NEW action, NEW context,
         \A arm \in EarlyArms(context) : arm[1] # key,
         <<key, action>> \in Keys!TabKeys(context),
         \A arm \in Keys!TabKeys(context) : arm[1] = key => arm[2] = action
  PROVE Keys!Resolve(key, context) = action
<1>1. Keys!Match(key, Keys!TabKeys(context)) = action
  BY MatchOne
<1>2. Keys!Match(key, EarlyArms(context)) = "none"
  BY DEF Keys!Match
<1> QED BY <1>1, <1>2 DEF Keys!Resolve, Keys!OrElse, EarlyArms

\* A key that is listed for a view is bound there to what the list says, but for
\* Enter on the form of the wizard.
LEMMA HelpHolds ==
  ASSUME NEW context \in Keys!Contexts, NEW command \in Keys!Available(context)
  PROVE \/ command.key = Keys!Palettes
        \/ Keys!Resolve(command.key, context) = command.action
        \/ command.action = "RefreshRuns" /\ context.active
        \/ /\ context.tab = "Hunt" /\ ~context.active
           /\ command.key = "enter" /\ command.action = "StartSearch"
<1>1. /\ context.tab \in {"Hunt", "Runs", "Gallery", "Data", "Settings"}
      /\ context.active \in BOOLEAN
  BY TabsAre DEF Keys!Contexts
<1>2. command \in Keys!Commands /\ Keys!InScope(command, context)
  BY DEF Keys!Available
<1>3. CASE command \in Keys!GlobalCommands
  <2>1. /\ <<command.key, command.action>> \in EarlyArms(context)
        /\ command.action # "none"
    BY <1>3 DEF Keys!GlobalCommands, Keys!Bind, EarlyArms, Keys!ControlKeys, Keys!EverywhereKeys
  <2>2. \A arm \in EarlyArms(context) : arm[1] = command.key => arm[2] = command.action
    <3>1. \A arm \in Keys!ControlKeys(context) :
             arm[1] = command.key => arm[2] = command.action
      BY <1>3 DEF Keys!GlobalCommands, Keys!Bind, Keys!ControlKeys
    <3>2. \A arm \in Keys!EverywhereKeys : arm[1] = command.key => arm[2] = command.action
      BY <1>3 DEF Keys!GlobalCommands, Keys!Bind, Keys!EverywhereKeys
    <3>3. \A arm \in Keys!StartKey(context) \cup Keys!ProfileKeys(context) :
             arm[1] # command.key
      BY <1>3 DEF Keys!GlobalCommands, Keys!Bind, Keys!StartKey, Keys!ProfileKeys
    <3> QED BY <3>1, <3>2, <3>3 DEF EarlyArms
  <2> QED BY <2>1, <2>2, ResolveEarly
<1>4. CASE command \in Keys!WizardCommands
  <2>1. context.tab = "Hunt" /\ ~context.active
    BY <1>1, <1>2, <1>4 DEF Keys!WizardCommands, Keys!Bind, Keys!InScope
  <2>2. \/ command.key = Keys!Palettes
        \/ command.key \in {"F9", "enter"} /\ command.action = "StartSearch"
    BY <1>4 DEF Keys!WizardCommands, Keys!Bind
  <2>3. <<"F9", "StartSearch">> \in EarlyArms(context)
    BY <2>1 DEF EarlyArms, Keys!StartKey
  <2>4. \A arm \in EarlyArms(context) : arm[1] = "F9" => arm[2] = "StartSearch"
    BY DEF EarlyArms, Keys!ControlKeys, Keys!EverywhereKeys, Keys!StartKey, Keys!ProfileKeys
  <2> QED BY <2>1, <2>2, <2>3, <2>4, ResolveEarly
<1>5. CASE command \in Keys!LiveCommands
  <2>1. context.tab = "Hunt" /\ context.active
    BY <1>1, <1>2, <1>5 DEF Keys!LiveCommands, Keys!Bind, Keys!InScope
  <2>2. Keys!TabKeys(context) = Keys!LiveKeys
    BY <2>1 DEF Keys!TabKeys
  <2>3. CASE <<command.key, command.action>> \in Keys!ProfileKeys(context)
    <3>1. <<command.key, command.action>> \in EarlyArms(context) /\ command.action # "none"
      BY <2>3 DEF EarlyArms, Keys!ProfileKeys
    <3>2. \A arm \in EarlyArms(context) : arm[1] = command.key => arm[2] = command.action
      BY <2>1, <2>3 DEF EarlyArms, Keys!ControlKeys, Keys!EverywhereKeys, Keys!StartKey,
                        Keys!ProfileKeys
    <3> QED BY <3>1, <3>2, ResolveEarly
  <2>4. CASE <<command.key, command.action>> \in Keys!LiveKeys
    <3>1. \A arm \in EarlyArms(context) : arm[1] # command.key
      BY <2>1, <2>4 DEF EarlyArms, Keys!ControlKeys, Keys!EverywhereKeys, Keys!StartKey,
                        Keys!ProfileKeys, Keys!LiveKeys
    <3>2. \A arm \in Keys!LiveKeys : arm[1] = command.key => arm[2] = command.action
      BY <2>4 DEF Keys!LiveKeys
    <3> QED BY <2>2, <2>4, <3>1, <3>2, ResolveLate
  <2> QED BY <1>5, <2>1, <2>3, <2>4
       DEF Keys!LiveCommands, Keys!Bind, Keys!LiveKeys, Keys!ProfileKeys
<1>6. CASE command \in Keys!TabCommands
  <2>1. command.scope = context.tab
    BY <1>1, <1>2, <1>6 DEF Keys!TabCommands, Keys!Bind, Keys!InScope
  <2>2. CASE command.action = "SaveSettings"
    <3>1. command.key = "ctrl+s" /\ context.tab = "Settings"
      BY <1>6, <2>1, <2>2 DEF Keys!TabCommands, Keys!Bind
    <3>2. <<"ctrl+s", "SaveSettings">> \in EarlyArms(context)
      BY <3>1 DEF EarlyArms, Keys!ControlKeys
    <3>3. \A arm \in EarlyArms(context) : arm[1] = "ctrl+s" => arm[2] = "SaveSettings"
      BY DEF EarlyArms, Keys!ControlKeys, Keys!EverywhereKeys, Keys!StartKey, Keys!ProfileKeys
    <3> QED BY <2>2, <3>1, <3>2, <3>3, ResolveEarly
  <2>3. CASE command.action # "SaveSettings" /\ ~(command.action = "RefreshRuns" /\ context.active)
    <3>1. <<command.key, command.action>> \in Keys!TabKeys(context)
      <4>1. CASE context.tab = "Runs"
        BY <1>6, <2>1, <2>3, <4>1 DEF Keys!TabCommands, Keys!Bind, Keys!TabKeys
      <4>2. CASE context.tab = "Gallery"
        BY <1>6, <2>1, <2>3, <4>2 DEF Keys!TabCommands, Keys!Bind, Keys!TabKeys
      <4>3. CASE context.tab = "Data"
        BY <1>6, <2>1, <2>3, <4>3 DEF Keys!TabCommands, Keys!Bind, Keys!TabKeys
      <4>4. CASE context.tab = "Settings"
        BY <1>6, <2>1, <2>3, <4>4 DEF Keys!TabCommands, Keys!Bind, Keys!TabKeys
      <4> QED BY <1>6, <2>1, <4>1, <4>2, <4>3, <4>4 DEF Keys!TabCommands, Keys!Bind
    <3>2. \A arm \in Keys!TabKeys(context) : arm[1] = command.key => arm[2] = command.action
      <4>1. CASE context.tab = "Runs" BY <3>1, <4>1 DEF Keys!TabKeys
      <4>2. CASE context.tab = "Gallery" BY <3>1, <4>2 DEF Keys!TabKeys
      <4>3. CASE context.tab = "Data" BY <3>1, <4>3 DEF Keys!TabKeys
      <4>4. CASE context.tab = "Settings" BY <3>1, <4>4 DEF Keys!TabKeys
      <4> QED BY <1>6, <2>1, <4>1, <4>2, <4>3, <4>4 DEF Keys!TabCommands, Keys!Bind
    <3>3. command.key \notin {"ctrl+p", "ctrl+q", "ctrl+s", "shift+tab", "tab", "F1", "?", "1",
                              "2", "3", "4", "5", "F9", "F2", "F3", "F4"}
      BY <1>6, <2>3 DEF Keys!TabCommands, Keys!Bind
    <3>4. command.key = "F5" => ~context.active
      BY <1>6, <2>3 DEF Keys!TabCommands, Keys!Bind
    <3>5. \A arm \in EarlyArms(context) : arm[1] # command.key
      BY <3>3, <3>4 DEF EarlyArms, Keys!ControlKeys, Keys!EverywhereKeys, Keys!StartKey,
                        Keys!ProfileKeys
    <3> QED BY <3>1, <3>2, <3>5, ResolveLate
  <2> QED BY <2>2, <2>3
<1> QED BY <1>2, <1>3, <1>4, <1>5, <1>6 DEF Keys!Commands

\* What is listed for a view names an action, and no key that quits at once; only
\* the form of the wizard has a row that Enter starts from.
LEMMA ListedKeys ==
  ASSUME NEW context \in Keys!Contexts, NEW command \in Keys!Available(context)
  PROVE /\ command.action # "none" /\ command.key \notin {"ctrl+c", "q"}
        /\ context.tab = "Hunt" /\ ~context.active /\ command.key = "enter" =>
              command.action = "StartSearch"
        /\ context.tab = "Hunt" /\ ~context.active =>
              command.key \notin {"up", "down", "left", "right", "space"}
        /\ context.tab \in {"Data", "Settings"} =>
              command.key \notin {"enter", "up", "down", "left", "right", "space"}
<1>1. command \in Keys!Commands /\ Keys!InScope(command, context)
  BY DEF Keys!Available
<1>2. CASE command \in Keys!GlobalCommands
  BY <1>2 DEF Keys!GlobalCommands, Keys!Bind
<1>3. CASE command \in Keys!WizardCommands
  <2>1. command.scope = "wizard"
        /\ \/ command.action = "StartSearch" /\ command.key \in {"F9", "enter"}
           \/ command.action = "ResetWizard" /\ command.key = Keys!Palettes
    BY <1>3 DEF Keys!WizardCommands, Keys!Bind
  <2>2. context.tab = "Hunt" /\ ~context.active
    BY <1>1, <2>1, TabsAre DEF Keys!InScope, Keys!Contexts
  <2> QED BY <2>1, <2>2 DEF Keys!Palettes
<1>4. CASE command \in Keys!LiveCommands
  BY <1>1, <1>4 DEF Keys!LiveCommands, Keys!Bind, Keys!InScope
<1>5. CASE command \in Keys!TabCommands
  BY <1>1, <1>5 DEF Keys!TabCommands, Keys!Bind, Keys!InScope
<1> QED BY <1>1, <1>2, <1>3, <1>4, <1>5 DEF Keys!Commands

\* With no modal up, a listed key is taken by the field with the focus or does what
\* is listed, and some focus leaves it.
LEMMA ListedRoutes ==
  ASSUME NEW u, u.tab \in Keys!Tabs, ~u.help, ~u.confirm, u.palette = Keys!NoPalette,
         NEW command \in Keys!Available(Keys!ContextOf(u)),
         command.key # Keys!Palettes,
         ~(command.action = "RefreshRuns" /\ Keys!Active(u))
  PROVE /\ \A focus \in Keys!FocusKinds[u.tab] :
             Keys!Route(u, focus, command.key) \in {command.action, "edit"}
        /\ \E focus \in Keys!FocusKinds[u.tab] :
             Keys!Route(u, focus, command.key) = command.action
<1> DEFINE context == Keys!ContextOf(u)
<1>1. /\ context.tab = u.tab /\ context.active = Keys!Active(u)
      /\ context \in Keys!Contexts
  BY DEF Keys!ContextOf, Keys!Contexts, Keys!Active
<1>2. u.tab \in {"Hunt", "Runs", "Gallery", "Data", "Settings"}
  BY TabsAre
<1>3. command.action # "none" /\ command.key \notin {"ctrl+c", "q"}
  BY <1>1, ListedKeys
<1>4. \A focus : Keys!Route(u, focus, command.key) =
                   Keys!OrElse(Keys!FormRoute(u, focus, command.key),
                               Keys!OrElse(Keys!Resolve(command.key, context),
                                           Keys!ListRoute(command.key)))
  <2>1. Keys!Modal(u) = "none"
    BY DEF Keys!Modal
  <2>2. command.key \notin Keys!QuitKeys(u)
    BY <1>3 DEF Keys!QuitKeys
  <2> QED BY <2>1, <2>2 DEF Keys!Route
<1>5. CASE Keys!Resolve(command.key, context) = command.action
  <2>1. ASSUME NEW focus, Keys!FormRoute(u, focus, command.key) = "none"
        PROVE Keys!Route(u, focus, command.key) = command.action
    BY <1>3, <1>4, <1>5, <2>1 DEF Keys!OrElse
  <2>2. ASSUME NEW focus \in Keys!FocusKinds[u.tab],
               Keys!FormRoute(u, focus, command.key) # "none"
        PROVE Keys!Route(u, focus, command.key) \in {command.action, "edit"}
    <3>1. Keys!Route(u, focus, command.key) = Keys!FormRoute(u, focus, command.key)
      BY <1>4, <2>2 DEF Keys!OrElse
    <3>2. CASE Keys!FormRoute(u, focus, command.key) = "edit"
      BY <3>1, <3>2
    <3>3. CASE Keys!FormRoute(u, focus, command.key) = "StartSearch"
      <4>1. Keys!FormOpen(u) /\ focus = "submit" /\ command.key = "enter"
        BY <3>3 DEF Keys!FormRoute
      <4>2. u.tab = "Hunt" /\ ~Keys!Active(u)
        BY <1>2, <2>2, <4>1 DEF Keys!FormOpen, Keys!FocusKinds
      <4>3. command.action = "StartSearch"
        BY <1>1, <4>1, <4>2, ListedKeys
      <4> QED BY <3>1, <3>3, <4>3
    <3> QED BY <2>2, <3>2, <3>3 DEF Keys!FormRoute
  <2>3. \E focus \in Keys!FocusKinds[u.tab] :
           Keys!Route(u, focus, command.key) = command.action
    <3>1. CASE ~Keys!FormOpen(u)
      <4>1. PICK focus : focus \in Keys!FocusKinds[u.tab]
        BY <1>2 DEF Keys!FocusKinds
      <4>2. Keys!FormRoute(u, focus, command.key) = "none"
        BY <3>1 DEF Keys!FormRoute
      <4> QED BY <2>1, <4>1, <4>2
    <3>2. CASE Keys!FormOpen(u) /\ u.tab \in {"Data", "Settings"}
      <4>1. "choice" \in Keys!FocusKinds[u.tab]
        BY <3>2 DEF Keys!FocusKinds
      <4>2. command.key \notin {"enter", "up", "down", "left", "right", "space"}
        BY <1>1, <3>2, ListedKeys
      <4>3. Keys!FormRoute(u, "choice", command.key) = "none"
        BY <4>2 DEF Keys!FormRoute, Keys!FieldTakes
      <4> QED BY <2>1, <4>1, <4>3
    <3>3. CASE Keys!FormOpen(u) /\ u.tab = "Hunt"
      <4>1. "submit" \in Keys!FocusKinds[u.tab]
        BY <3>3 DEF Keys!FocusKinds
      <4>2. ~Keys!Active(u)
        BY <3>3 DEF Keys!FormOpen
      <4>3. command.key \notin {"up", "down", "left", "right", "space"}
            /\ (command.key = "enter" => command.action = "StartSearch")
        BY <1>1, <3>3, <4>2, ListedKeys
      <4>4. Keys!FormRoute(u, "submit", command.key) =
              IF command.key = "enter" THEN "StartSearch" ELSE "none"
        BY <3>3, <4>3 DEF Keys!FormRoute, Keys!FieldTakes
      <4>5. CASE command.key = "enter"
        <5>1. Keys!Route(u, "submit", command.key) = "StartSearch"
          BY <1>4, <4>4, <4>5 DEF Keys!OrElse
        <5> QED BY <4>1, <4>3, <4>5, <5>1
      <4> QED BY <2>1, <4>1, <4>4, <4>5
    <3> QED BY <3>1, <3>2, <3>3 DEF Keys!FormOpen
  <2> QED BY <2>1, <2>2, <2>3
<1>6. CASE /\ u.tab = "Hunt" /\ ~Keys!Active(u)
           /\ command.key = "enter" /\ command.action = "StartSearch"
  <2>1. Keys!FocusKinds[u.tab] = {"text", "number", "choice", "submit"}
    BY <1>6 DEF Keys!FocusKinds
  <2>2. ASSUME NEW focus \in {"text", "number", "choice", "submit"}
        PROVE Keys!FormRoute(u, focus, command.key) =
                IF focus = "submit" THEN "StartSearch" ELSE "edit"
    BY <1>6, <2>2 DEF Keys!FormRoute, Keys!FormOpen, Keys!FieldTakes
  <2>3. ASSUME NEW focus \in {"text", "number", "choice", "submit"}
        PROVE Keys!Route(u, focus, command.key) =
                IF focus = "submit" THEN "StartSearch" ELSE "edit"
    BY <1>4, <2>2, <2>3 DEF Keys!OrElse
  <2> QED BY <1>6, <2>1, <2>3
<1> QED BY <1>1, <1>5, <1>6, HelpHolds

\* The invariant says what it promises.
LEMMA InputInvariantHolds ==
  ASSUME InputInv
  PROVE Keys!InputInvariant
<1>1. Fits(ui) /\ ui.tab \in Keys!Tabs
  BY DEF InputInv, Fits
<1>2. Keys!TypeOK /\ Keys!OneModal /\ Keys!PaletteIsCurrent /\ Keys!ScreenOrDirty
      /\ Keys!CountIsCurrent
  BY DEF InputInv, Fits, Keys!TypeOK, Keys!OneModal, Keys!PaletteIsCurrent, Keys!CountIsCurrent
<1>3. Keys!TypingIsNotACommand
  <2>1. SUFFICES ASSUME ~ui.handed, ~ui.help, ~ui.confirm, NEW key \in Keys!Printable
                 PROVE /\ ui.palette # Keys!NoPalette => Keys!Route(ui, "text", key) = "palette"
                       /\ Keys!FormOpen(ui) /\ ui.palette = Keys!NoPalette =>
                             Keys!Route(ui, "text", key) = "edit"
    BY DEF Keys!TypingIsNotACommand
  <2>2. key \notin Keys!QuitKeys(ui)
    BY <2>1 DEF Keys!QuitKeys, Keys!Printable, Keys!DigitKeys
  <2>3. CASE ui.palette # Keys!NoPalette
    <3>1. Keys!Modal(ui) = "palette" BY <2>1, <2>3 DEF Keys!Modal
    <3>2. Keys!ModalRoute(ui, key) = "palette" BY <2>1, <2>3 DEF Keys!ModalRoute
    <3> QED BY <2>2, <2>3, <3>1, <3>2 DEF Keys!Route
  <2>4. CASE ui.palette = Keys!NoPalette /\ Keys!FormOpen(ui)
    <3>1. Keys!Modal(ui) = "none" BY <2>1, <2>4 DEF Keys!Modal
    <3>2. Keys!FormRoute(ui, "text", key) = "edit"
      BY <2>4 DEF Keys!FormRoute, Keys!FieldTakes
    <3> QED BY <2>2, <2>4, <3>1, <3>2 DEF Keys!Route, Keys!OrElse
  <2> QED BY <2>3, <2>4
<1>4. Keys!HelpIsTrue
  <2> DEFINE bare == [ui EXCEPT !.help = FALSE, !.palette = Keys!NoPalette,
                                !.confirm = FALSE]
  <2>1. /\ bare.tab = ui.tab /\ bare.search = ui.search /\ ~bare.help /\ ~bare.confirm
        /\ bare.palette = Keys!NoPalette
    BY <1>1 DEF Fits
  <2>2. Keys!ContextOf(bare) = Keys!ContextOf(ui) /\ Keys!Active(bare) = Keys!Active(ui)
    BY <2>1 DEF Keys!ContextOf, Keys!Active
  <2> HIDE DEF bare
  <2>3. ASSUME NEW command \in Keys!Available(Keys!ContextOf(ui)),
               command.key # Keys!Palettes,
               ~(command.action = "RefreshRuns" /\ Keys!Active(ui))
        PROVE /\ \A focus \in Keys!FocusKinds[ui.tab] :
                   Keys!Route(bare, focus, command.key) \in {command.action, "edit"}
              /\ \E focus \in Keys!FocusKinds[ui.tab] :
                   Keys!Route(bare, focus, command.key) = command.action
    BY <1>1, <2>1, <2>2, <2>3, ListedRoutes
  <2> QED BY <2>3 DEF Keys!HelpIsTrue, bare
<1>5. Keys!CtrlCQuits
  BY DEF Keys!CtrlCQuits, Keys!Route, Keys!QuitKeys
<1> QED BY <1>2, <1>3, <1>4, <1>5 DEF Keys!InputInvariant

-----------------------------------------------------------------------------
(* Clicks, the wheel, the end of a search and the drawing.                 *)

LEMMA ClicksFit ==
  ASSUME NEW u, Fits(u), NEW v \in Keys!ClickOutcomes(u)
  PROVE /\ Fits(v)
        /\ Keys!Modal(u) \in {"help", "confirm"} =>
              Keys!Modal(v) \in {"none", Keys!Modal(u)} /\ Keys!Behind(v) = Keys!Behind(u)
        /\ Keys!Modal(u) = "palette" /\ Keys!Modal(v) = "palette" =>
              Keys!Behind(v) = Keys!Behind(u)
<1>1. /\ Keys!Modal(u) \in {"none", "help", "confirm", "palette"}
      /\ Keys!Modal(u) = "palette" <=> u.palette # Keys!NoPalette
      /\ Keys!Modal(u) = "help" <=> u.help
      /\ Keys!Modal(u) = "confirm" <=> u.confirm
  BY DEF Fits, Keys!Modal
<1>2. CASE v = u
  BY <1>1, <1>2
<1>3. CASE Keys!Modal(u) = "palette" /\ v # u
  <2>1. v \in Keys!PaletteOutcomes(u)
    BY <1>1, <1>3 DEF Keys!ClickOutcomes, Keys!PaletteOutcomes
  <2> QED BY <1>3, <2>1, PaletteFits
<1>4. CASE Keys!Modal(u) = "help"
  <2>1. v = [u EXCEPT !.help = FALSE]
    BY <1>1, <1>4 DEF Keys!ClickOutcomes
  <2> QED BY <1>1, <1>4, <2>1 DEF Fits, Keys!Modal, Keys!Behind, Keys!Active, Keys!ContextOf
<1>5. CASE Keys!Modal(u) = "confirm" /\ v # u
  <2>1. PICK confirmed \in BOOLEAN : v \in Keys!Resolved(u, confirmed)
    BY <1>1, <1>5 DEF Keys!ClickOutcomes
  <2> QED BY <1>5, <2>1, ResolvedFits
<1>6. CASE Keys!Modal(u) = "none" /\ v # u
  <2>1. v \in Keys!ClickScreen(u)
    BY <1>1, <1>6 DEF Keys!ClickOutcomes
  <2>2. \/ v \in UNION {Keys!Perform(u, a) : a \in Keys!Buttons(drawn)}
        \/ v \in UNION {Keys!Goto(u, t) : t \in Keys!Tabs}
        \/ v \in Keys!Moved(u) \/ v \in Keys!Edited(u) \/ v \in Keys!StartSearch(u)
    <3>1. \/ v \in UNION {Keys!Perform(u, a) : a \in Keys!Buttons(drawn)}
          \/ v \in UNION {Keys!Goto(u, t) : t \in Keys!Tabs}
          \/ v \in Keys!Moved(u) \/ v \in Keys!ClickForm(u)
      <4> DEFINE pressed == UNION {Keys!Perform(u, a) : a \in Keys!Buttons(drawn)}
                 gone == UNION {Keys!Goto(u, t) : t \in Keys!Tabs}
                 moved == IF Keys!ListDrawn THEN Keys!Moved(u) ELSE {}
                 edited == IF Keys!FormDrawn THEN Keys!ClickForm(u) ELSE {}
      <4>1. Keys!ClickScreen(u) =
              {u} \cup (IF drawn = Keys!NothingDrawn THEN {} ELSE pressed \cup gone)
                \cup moved \cup edited
        BY DEF Keys!ClickScreen
      <4>2. moved \subseteq Keys!Moved(u) /\ edited \subseteq Keys!ClickForm(u)
        OBVIOUS
      <4> HIDE DEF pressed, gone, moved, edited
      <4>3. v \in pressed \/ v \in gone \/ v \in moved \/ v \in edited
        BY <1>6, <2>1, <4>1
      <4> QED BY <4>2, <4>3 DEF pressed, gone
    <3>2. v \in Keys!ClickForm(u) => v \in Keys!Edited(u) \/ v \in Keys!StartSearch(u)
      BY <1>6 DEF Keys!ClickForm
    <3> QED BY <3>1, <3>2
  <2>3. CASE v \in UNION {Keys!Goto(u, t) : t \in Keys!Tabs}
    <3>1. PICK t \in Keys!Tabs : v \in Keys!Goto(u, t) BY <2>3
    <3>2. v \in Keys!Perform(u, t) BY <3>1, TabsAre DEF Keys!Perform
    <3> QED BY <1>6, <3>2, PerformFits
  <2>4. CASE v \in Keys!StartSearch(u)
    <3>1. v \in Keys!Perform(u, "StartSearch")
      BY <2>4, TabsAre DEF Keys!Perform
    <3> QED BY <1>6, <3>1, PerformFits
  <2>5. CASE v \in UNION {Keys!Perform(u, a) : a \in Keys!Buttons(drawn)}
    <3>1. PICK a : v \in Keys!Perform(u, a) BY <2>5
    <3> QED BY <1>6, <3>1, PerformFits
  <2> QED BY <1>6, <2>2, <2>3, <2>4, <2>5, EditFits
<1> QED BY <1>1, <1>2, <1>3, <1>4, <1>5, <1>6

LEMMA ScrollsFit ==
  ASSUME NEW u, Fits(u), NEW v \in Keys!ScrollOutcomes(u)
  PROVE Fits(v) /\ Keys!Modal(v) = Keys!Modal(u) /\ Keys!Behind(v) = Keys!Behind(u)
<1>1. v \in Keys!Edited(u) \cup Keys!Moved(u) \cup {u}
  BY DEF Keys!ScrollOutcomes
<1> QED BY <1>1, EditFits

LEMMA InputInit == Keys!Init => InputInv
<1> SUFFICES ASSUME Keys!Init PROVE InputInv
  OBVIOUS
<1>1. MaxRows \in Nat BY InputAssumption DEF Keys!InputConstants
<1>2. Fits(ui)
  BY <1>1, TabsAre DEF Keys!Init, Fits, Keys!NoPalette, Keys!Contexts, Keys!ContextOf
<1> QED BY <1>2 DEF Keys!Init, InputInv, Keys!ScreenOrDirty

\* A step keeps what holds, and what is in front.
LEMMA InputStep ==
  ASSUME InputInv, [Keys!Next]_inputVars
  PROVE InputInv' /\ Keys!ModalHolds
<1> DEFINE Holds(v) ==
      /\ Keys!Modal(ui) \in {"help", "confirm"} =>
            Keys!Modal(v) \in {"none", Keys!Modal(ui)} /\ Keys!Behind(v) = Keys!Behind(ui)
      /\ Keys!Modal(ui) = "palette" /\ Keys!Modal(v) = "palette" =>
            Keys!Behind(v) = Keys!Behind(ui)
<1>1. Fits(ui) BY DEF InputInv
<1>2. ASSUME Fits(ui'), Holds(ui'), dirty' = TRUE
      PROVE InputInv' /\ Keys!ModalHolds
  BY <1>2 DEF InputInv, Keys!ScreenOrDirty, Keys!ModalHolds
<1>3. CASE Keys!Key
  <2>1. PICK focus, key : ui' \in Keys!Outcomes(ui, Keys!Route(ui, focus, key))
    BY <1>3 DEF Keys!Key
  <2>2. Fits(ui') /\ Holds(ui') BY <1>1, <2>1, OutcomesFit
  <2> QED BY <1>2, <1>3, <2>2 DEF Keys!Key
<1>4. CASE Keys!Click
  <2>1. Fits(ui') /\ Holds(ui') BY <1>1, <1>4, ClicksFit DEF Keys!Click
  <2> QED BY <1>2, <1>4, <2>1 DEF Keys!Click
<1>5. CASE Keys!Scroll
  <2>1. Fits(ui') /\ Holds(ui') BY <1>1, <1>5, ScrollsFit DEF Keys!Scroll
  <2> QED BY <1>2, <1>5, <2>1 DEF Keys!Scroll
<1>6. CASE Keys!SearchEnds
  <2> DEFINE ended == [ui EXCEPT !.search = "finished"]
  <2>1. /\ ui.search = "running"
        /\ \/ ui' = ended
           \/ \E row \in 0..MaxRows : ui' = [ended EXCEPT !.row = row]
    BY <1>6 DEF Keys!SearchEnds, Keys!Reloaded
  <2>2. Fits(ended) /\ Keys!Modal(ended) = Keys!Modal(ui) /\ Keys!Behind(ended) = Keys!Behind(ui)
    BY <1>1, <2>1 DEF Fits, Keys!Modal, Keys!Behind, Keys!Active, Keys!ContextOf
  <2> HIDE DEF ended
  <2>3. Fits(ui') /\ Keys!Modal(ui') = Keys!Modal(ui) /\ Keys!Behind(ui') = Keys!Behind(ui)
    <3>1. MaxRows \in Nat BY InputAssumption DEF Keys!InputConstants
    <3>2. CASE ui' = ended BY <2>2, <3>2
    <3>3. ASSUME NEW row \in 0..MaxRows, ui' = [ended EXCEPT !.row = row]
          PROVE Fits(ui') /\ Keys!Modal(ui') = Keys!Modal(ui) /\ Keys!Behind(ui') = Keys!Behind(ui)
      BY <2>2, <3>1, <3>3 DEF Fits, Keys!Modal, Keys!Behind, Keys!Active, Keys!ContextOf
    <3> QED BY <2>1, <3>2, <3>3
  <2>4. Holds(ui') BY <2>3
  <2> QED BY <1>2, <1>6, <2>3, <2>4 DEF Keys!SearchEnds
<1>7. CASE Keys!Draw
  <2>1. ui' = ui /\ dirty' = FALSE /\ drawn' \in {Keys!View(ui), Keys!NothingDrawn}
    BY <1>7 DEF Keys!Draw
  <2>2. Keys!View(ui)' = Keys!View(ui)
    BY <2>1 DEF Keys!View, Keys!Modal
  <2> QED BY <1>1, <2>1, <2>2 DEF InputInv, Keys!ScreenOrDirty, Keys!ModalHolds
<1>8. CASE UNCHANGED inputVars
  <2>1. ui' = ui /\ drawn' = drawn /\ dirty' = dirty BY <1>8 DEF inputVars
  <2>2. Keys!View(ui)' = Keys!View(ui)
    BY <2>1 DEF Keys!View, Keys!Modal
  <2> QED BY <1>1, <2>1, <2>2 DEF InputInv, Keys!ScreenOrDirty, Keys!ModalHolds
<1> QED BY <1>3, <1>4, <1>5, <1>6, <1>7, <1>8 DEF Keys!Next

-----------------------------------------------------------------------------
(* The wizard.                                                             *)

\* A form whose values are those of its fields.
Filled(f) ==
    /\ f \in [val : [Wizard!Values -> Nat \cup {Wizard!Blank, Wizard!TooLong}],
              text : [Wizard!Texts -> [value : Seq(Wizard!Letters), cursor : Nat]],
              enabled : SUBSET Wizard!Fields, focus : Wizard!Fields]
    /\ \A field \in Wizard!Selects : f.val[field] \in 0..Wizard!Options[field]-1
    /\ \A field \in Wizard!Texts : f.text[field].cursor <= Len(f.text[field].value)

\* And that shows what it means.
Shows(f) ==
    /\ Filled(f)
    /\ f.enabled = Wizard!EnabledBy(f.val)
    /\ f.focus \in f.enabled
    /\ f.val["SizeMode"] # Wizard!CustomSize =>
          <<f.val["Width"], f.val["Height"]>> = Wizard!Presets[f.val["SizeMode"] + 1]

WizardInv ==
    /\ wizard \in WizardSetups
    /\ Shows(form)
    /\ Wizard!FocusIsVisible
    /\ scroll \in Nat /\ visible \in Nat /\ shown \in BOOLEAN

LEMMA FieldsAre ==
  /\ Wizard!Fields = {"ArtSource", "Template", "ArtFile", "Name", "PiSource", "PiFile",
        "AllowDecimalPrefix", "SizeMode", "Start", "AdvancedHeading", "MatchMode", "Width",
        "Height", "CanvasWidth", "CanvasHeight", "Threshold", "Invert", "KeepGoing",
        "Profile", "Gpu", "Thermal", "Workers", "Limit"}
  /\ DOMAIN Wizard!Order = 1..23 /\ Len(Wizard!Order) = 23
  /\ Wizard!Order[1] = "ArtSource"
<1>1. DOMAIN Wizard!Order = 1..23 /\ Len(Wizard!Order) = 23
  BY DEF Wizard!Order
<1>2. Wizard!Order[1] = "ArtSource"
  BY DEF Wizard!Order
<1>3. Wizard!Fields = {Wizard!Order[i] : i \in 1..23}
  BY <1>1 DEF Wizard!Fields, Wizard!ToSet
<1> QED BY <1>1, <1>2, <1>3 DEF Wizard!Order

LEMMA ValuesAre ==
  /\ Wizard!Selects = {"ArtSource", "Template", "PiSource", "AllowDecimalPrefix", "SizeMode",
        "MatchMode", "Invert", "KeepGoing", "Profile", "Gpu", "Thermal"}
  /\ Wizard!Numbers = {"Width", "Height", "CanvasWidth", "CanvasHeight", "Threshold",
        "Workers", "Limit"}
  /\ Wizard!Texts = {"ArtFile", "Name", "PiFile"}
  /\ Wizard!Values = Wizard!Selects \cup Wizard!Numbers
BY DEF Wizard!Selects, Wizard!Numbers, Wizard!Texts, Wizard!Values, Wizard!Options, Wizard!Bounds

LEMMA OptionsAre ==
  /\ \A field \in Wizard!Selects : Wizard!Options[field] \in {2, 3, 4}
  /\ Wizard!Options["SizeMode"] = 4 /\ Wizard!Options["ArtSource"] = 2
  /\ Wizard!Options["MatchMode"] = 3 /\ Wizard!Options["Template"] = 2
  /\ Wizard!Options["PiSource"] = 3
<1> QED BY ValuesAre DEF Wizard!Options

\* The bounds of a number are in order.
LEMMA BoundsAre ==
  \A field \in Wizard!Numbers :
      /\ Wizard!Bounds[field][1] \in Nat /\ Wizard!Bounds[field][2] \in Nat
      /\ Wizard!Bounds[field][1] <= Wizard!Bounds[field][2]
BY ValuesAre, WizardAssumption DEF Wizard!Bounds, Wizard!WizardConstants

\* What selects and numbers enable does not depend on anything else.
LEMMA EnabledFacts ==
  ASSUME NEW val
  PROVE /\ Wizard!EnabledBy(val) \subseteq Wizard!Fields
        /\ {"ArtSource", "Name", "PiSource", "SizeMode", "MatchMode"}
              \subseteq Wizard!EnabledBy(val)
        /\ \A field \in Wizard!Fields :
              field \in Wizard!EnabledBy(val) <=>
                  /\ field # "AdvancedHeading"
                  /\ field = "ArtFile" => val["ArtSource"] # 0
                  /\ field = "Template" => val["ArtSource"] = 0
                  /\ field \in {"PiFile", "AllowDecimalPrefix"} => val["PiSource"] = 1
                  /\ field \in {"Width", "Height"} => val["SizeMode"] = Wizard!CustomSize
                  /\ field \in {"Threshold", "Invert"} => val["MatchMode"] # Wizard!Emergence
                  /\ field \in {"CanvasWidth", "CanvasHeight"} =>
                        val["MatchMode"] = Wizard!Emergence
<1> DEFINE template == val["ArtSource"] = 0
           digits == val["PiSource"] = 1
           custom == val["SizeMode"] = Wizard!CustomSize
           emergence == val["MatchMode"] = Wizard!Emergence
           A == IF template THEN {"ArtFile"} ELSE {"Template"}
           P == IF digits THEN {} ELSE {"PiFile", "AllowDecimalPrefix"}
           C == IF custom THEN {} ELSE {"Width", "Height"}
           E == IF emergence THEN {"Threshold", "Invert"} ELSE {"CanvasWidth", "CanvasHeight"}
<1>1. Wizard!EnabledBy(val) = Wizard!Fields \ UNION {{"AdvancedHeading"}, A, P, C, E}
  BY DEF Wizard!EnabledBy
<1>2. \A field : field \in UNION {{"AdvancedHeading"}, A, P, C, E} <=>
                   field \in {"AdvancedHeading"} \cup A \cup P \cup C \cup E
  <2> HIDE DEF A, P, C, E
  <2> QED OBVIOUS
<1>3. \A field \in Wizard!Fields :
         field \in Wizard!EnabledBy(val) <=>
             field \notin {"AdvancedHeading"} \cup A \cup P \cup C \cup E
  <2> HIDE DEF A, P, C, E
  <2> QED BY <1>1, <1>2
<1>4. Wizard!EnabledBy(val) \subseteq Wizard!Fields
  BY <1>1
<1>5. {"ArtSource", "Name", "PiSource", "SizeMode", "MatchMode"} \subseteq Wizard!Fields
  BY FieldsAre
<1> QED BY <1>3, <1>4, <1>5

\* The fields are numbered.
LEMMA IndexIs ==
  ASSUME NEW field \in Wizard!Fields
  PROVE Wizard!Index(field) \in 1..23 /\ Wizard!Order[Wizard!Index(field)] = field
<1>1. \E i \in DOMAIN Wizard!Order : Wizard!Order[i] = field
  BY DEF Wizard!Fields, Wizard!ToSet
<1> QED BY <1>1, FieldsAre DEF Wizard!Index

\* The focus moves to a field that is enabled: going round, it comes past the first one.
LEMMA FocusMoves ==
  ASSUME NEW f, f.focus \in Wizard!Fields, "ArtSource" \in f.enabled, NEW delta \in {-1, 1}
  PROVE \E field \in f.enabled : Wizard!MoveFocus(f, delta) = [f EXCEPT !.focus = field]
<1> DEFINE i == Wizard!Index(f.focus)
           at(k) == Wizard!Order[((i - 1 + k * delta) % 23) + 1]
           enabled == {k \in 1..23 : at(k) \in f.enabled}
           least == CHOOSE k \in enabled : \A m \in enabled : k <= m
           round == IF delta = 1 THEN 24 - i ELSE IF i = 1 THEN 23 ELSE i - 1
<1>1. i \in 1..23
  BY IndexIs
<1>2. Wizard!MoveFocus(f, delta) = IF enabled = {} THEN f ELSE [f EXCEPT !.focus = at(least)]
  BY FieldsAre DEF Wizard!MoveFocus
<1>3. round \in 1..23 /\ ((i - 1 + round * delta) % 23) + 1 = 1
  <2> HIDE DEF i
  <2>1. CASE delta = 1
    <3>1. i - 1 + round * delta = 23 BY <1>1, <2>1
    <3> QED BY <1>1, <2>1, <3>1
  <2>2. CASE delta = -1 /\ i = 1
    <3>1. i - 1 + round * delta = -23 BY <2>2
    <3>2. (-23) % 23 = 0 OBVIOUS
    <3> QED BY <1>1, <2>2, <3>1, <3>2
  <2>3. CASE delta = -1 /\ i # 1
    <3>1. i - 1 + round * delta = 0 BY <1>1, <2>3
    <3> QED BY <1>1, <2>3, <3>1
  <2> QED BY <2>1, <2>2, <2>3
<1>4. round \in enabled
  BY <1>3, FieldsAre
<1>5. \E m \in enabled : \A n \in enabled : m <= n
  <2>1. enabled \in SUBSET Nat /\ enabled # {}
    BY <1>4
  <2> HIDE DEF enabled
  <2> QED BY <2>1, LeastNatural
<1>6. least \in enabled
  <2> HIDE DEF enabled
  <2> QED BY <1>5
<1>7. at(least) \in f.enabled
  BY <1>6
<1>8. Wizard!MoveFocus(f, delta) = [f EXCEPT !.focus = at(least)]
  BY <1>2, <1>4
<1> QED BY <1>7, <1>8

LEMMA PresetsAre ==
  ASSUME NEW choice \in 0..3, choice # Wizard!CustomSize
  PROVE /\ Wizard!Presets[choice + 1] \in (Nat \ {0}) \X (Nat \ {0})
        /\ Wizard!Presets[choice + 1] =
              <<Wizard!Presets[choice + 1][1], Wizard!Presets[choice + 1][2]>>
<1>1. choice \in {0, 1, 2} BY DEF Wizard!CustomSize
<1> QED BY <1>1 DEF Wizard!Presets

\* A form that is brought up to date shows what it means: its preset overwrites the size,
\* and the focus stays unless its field went grey.
LEMMA SyncShows ==
  ASSUME NEW f, Filled(f)
  PROVE LET g == Wizard!SyncEnabled(f)
        IN /\ Shows(g)
           /\ g.enabled = Wizard!EnabledBy(f.val)
           /\ g.text = f.text
           /\ \A field \in Wizard!Values :
                 field \notin {"Width", "Height"} => g.val[field] = f.val[field]
           /\ f.val["SizeMode"] = Wizard!CustomSize => g.val = f.val
           /\ (f.val["SizeMode"] # Wizard!CustomSize
               /\ <<f.val["Width"], f.val["Height"]>> = Wizard!Presets[f.val["SizeMode"] + 1])
              => g.val = f.val
           /\ f.focus \in Wizard!EnabledBy(f.val) => g.focus = f.focus
<1> DEFINE size == IF f.val["SizeMode"] = Wizard!CustomSize
                   THEN <<f.val["Width"], f.val["Height"]>>
                   ELSE Wizard!Presets[f.val["SizeMode"] + 1]
           val == [[f.val EXCEPT !["Width"] = size[1]] EXCEPT !["Height"] = size[2]]
           h == [[f EXCEPT !.enabled = Wizard!EnabledBy(f.val)] EXCEPT !.val = val]
           g == Wizard!SyncEnabled(f)
<1>18. "SizeMode" \in Wizard!Selects /\ Wizard!Options["SizeMode"] - 1 = 3
  BY ValuesAre, OptionsAre
<1>19. f.val["SizeMode"] \in 0..Wizard!Options["SizeMode"] - 1
  BY <1>18 DEF Filled
<1>1. f.val["SizeMode"] \in 0..3 /\ "Width" \in Wizard!Values /\ "Height" \in Wizard!Values
      /\ "SizeMode" \in Wizard!Values
  BY <1>18, <1>19, ValuesAre
<1>2. size[1] \in Nat \cup {Wizard!Blank, Wizard!TooLong}
      /\ size[2] \in Nat \cup {Wizard!Blank, Wizard!TooLong}
  BY <1>1, PresetsAre DEF Filled
<1>3. /\ val \in [Wizard!Values -> Nat \cup {Wizard!Blank, Wizard!TooLong}]
      /\ val["Width"] = size[1] /\ val["Height"] = size[2]
      /\ \A field \in Wizard!Values : field \notin {"Width", "Height"} => val[field] = f.val[field]
  <2> HIDE DEF size
  <2> QED BY <1>1, <1>2 DEF Filled
<1>4. Wizard!EnabledBy(val) = Wizard!EnabledBy(f.val)
  <2>1. /\ val["ArtSource"] = f.val["ArtSource"] /\ val["PiSource"] = f.val["PiSource"]
        /\ val["SizeMode"] = f.val["SizeMode"] /\ val["MatchMode"] = f.val["MatchMode"]
    BY <1>3, ValuesAre
  <2> HIDE DEF val
  <2>2. \A field : field \in Wizard!EnabledBy(val) <=> field \in Wizard!EnabledBy(f.val)
    BY <2>1, EnabledFacts
  <2> QED BY <2>2
<1>5. g = Wizard!EnsureEnabled(h)
  BY DEF Wizard!SyncEnabled
<1>6. /\ h.val = val /\ h.text = f.text /\ h.focus = f.focus /\ h.focus \in Wizard!Fields
      /\ h.enabled = Wizard!EnabledBy(f.val)
      /\ h \in [val : [Wizard!Values -> Nat \cup {Wizard!Blank, Wizard!TooLong}],
                text : [Wizard!Texts -> [value : Seq(Wizard!Letters), cursor : Nat]],
                enabled : SUBSET Wizard!Fields, focus : Wizard!Fields]
  <2> HIDE DEF val
  <2>1. Wizard!EnabledBy(f.val) \subseteq Wizard!Fields BY EnabledFacts
  <2> QED BY <1>3, <2>1 DEF Filled
<1> HIDE DEF h
<1>7. \E field \in h.enabled :
         /\ g = [h EXCEPT !.focus = field]
         /\ h.focus \in h.enabled => field = h.focus
  <2>1. CASE h.focus \in h.enabled
    <3>1. g = h BY <1>5, <2>1 DEF Wizard!EnsureEnabled
    <3>2. h = [h EXCEPT !.focus = h.focus] BY <1>6
    <3> QED BY <2>1, <3>1, <3>2
  <2>2. CASE h.focus \notin h.enabled
    <3>1. g = Wizard!MoveFocus(h, 1) BY <1>5, <2>2 DEF Wizard!EnsureEnabled
    <3>2. "ArtSource" \in h.enabled BY <1>6, EnabledFacts
    <3> QED BY <1>6, <2>2, <3>1, <3>2, FocusMoves
  <2> QED BY <2>1, <2>2
<1>8. PICK field \in h.enabled :
         g = [h EXCEPT !.focus = field] /\ (h.focus \in h.enabled => field = h.focus)
  BY <1>7
<1>9. /\ g.val = val /\ g.text = f.text /\ g.focus = field
      /\ g.enabled = Wizard!EnabledBy(f.val)
      /\ g \in [val : [Wizard!Values -> Nat \cup {Wizard!Blank, Wizard!TooLong}],
                text : [Wizard!Texts -> [value : Seq(Wizard!Letters), cursor : Nat]],
                enabled : SUBSET Wizard!Fields, focus : Wizard!Fields]
  <2> HIDE DEF val, g
  <2> QED BY <1>6, <1>8
<1>10. \A choice \in Wizard!Selects : val[choice] = f.val[choice]
  <2> HIDE DEF val
  <2> QED BY <1>3, ValuesAre
<1>11. Filled(g)
  <2> HIDE DEF val, g
  <2> QED BY <1>9, <1>10 DEF Filled
<1>12. val["SizeMode"] # Wizard!CustomSize =>
          <<val["Width"], val["Height"]>> = Wizard!Presets[val["SizeMode"] + 1]
  <2>1. val["SizeMode"] = f.val["SizeMode"]
    <3> HIDE DEF val
    <3> QED BY <1>3, <1>1
  <2>2. CASE f.val["SizeMode"] # Wizard!CustomSize
    <3>1. size = Wizard!Presets[f.val["SizeMode"] + 1] BY <2>2
    <3>2. size = <<size[1], size[2]>> BY <1>1, <2>2, <3>1, PresetsAre
    <3> HIDE DEF val, size
    <3> QED BY <1>3, <2>1, <3>1, <3>2
  <2> QED BY <2>1, <2>2
<1>13. Shows(g)
  <2> HIDE DEF val, g
  <2> QED BY <1>4, <1>8, <1>9, <1>6, <1>11, <1>12 DEF Shows
<1>14. <<f.val["Width"], f.val["Height"]>> = size => val = f.val
  <2> HIDE DEF size
  <2> SUFFICES ASSUME <<f.val["Width"], f.val["Height"]>> = size PROVE val = f.val
    OBVIOUS
  <2>1. size[1] = f.val["Width"] /\ size[2] = f.val["Height"] OBVIOUS
  <2> QED BY <2>1, <1>1 DEF Filled
<1>15. f.focus \in Wizard!EnabledBy(f.val) => g.focus = f.focus
  <2> HIDE DEF g
  <2> QED BY <1>6, <1>8, <1>9
<1>16. f.val["SizeMode"] = Wizard!CustomSize => g.val = f.val
  BY <1>9, <1>14
<1>17. (f.val["SizeMode"] # Wizard!CustomSize
         /\ <<f.val["Width"], f.val["Height"]>> = Wizard!Presets[f.val["SizeMode"] + 1])
        => g.val = f.val
  BY <1>9, <1>14
<1> HIDE DEF g, val
<1> QED BY <1>9, <1>3, <1>13, <1>15, <1>16, <1>17 DEF g

\* A number that is nudged stays within its bounds, whatever was typed before.
LEMMA NudgeStays ==
  ASSUME NEW number \in Nat \cup {Wizard!Blank, Wizard!TooLong}, NEW delta \in {-1, 1},
         NEW bounds, bounds[1] \in Nat, bounds[2] \in Nat, bounds[1] <= bounds[2]
  PROVE Wizard!Nudge(number, delta, bounds) \in Nat
<1> DEFINE current == IF number \in 0..MaxInt THEN number ELSE bounds[1]
           size == MaxInt + 1
           sum == ((current + delta + size) % (2 * size)) - size
<1>1. MaxInt \in Nat BY WizardAssumption DEF Wizard!WizardConstants
<1>2. current \in Nat OBVIOUS
<1>3. \A a \in Int, b \in Nat \ {0} : a % b \in Int
  OBVIOUS
<1>4. current + delta + size \in Int /\ 2 * size \in Nat \ {0} /\ size \in Int
  <2> HIDE DEF current
  <2> QED BY <1>1, <1>2
<1>5. sum \in Int
  <2> HIDE DEF current, size
  <2> QED BY <1>3, <1>4
<1>6. Wizard!Nudge(number, delta, bounds) =
        IF sum < bounds[1] THEN bounds[1] ELSE IF sum > bounds[2] THEN bounds[2] ELSE sum
  BY DEF Wizard!Nudge
<1> HIDE DEF sum
<1> QED BY <1>5, <1>6

\* One value is replaced by another of its kind.
LEMMA ValueReplaced ==
  ASSUME NEW f, Filled(f), NEW field \in Wizard!Values,
         NEW x \in Nat \cup {Wizard!Blank, Wizard!TooLong},
         field \in Wizard!Selects => x \in 0..Wizard!Options[field]-1
  PROVE LET g == [f EXCEPT !.val[field] = x]
        IN /\ Filled(g) /\ g.focus = f.focus /\ g.text = f.text /\ g.enabled = f.enabled
           /\ g.val[field] = x
           /\ \A other \in Wizard!Values : other # field => g.val[other] = f.val[other]
<1> DEFINE val == [f.val EXCEPT ![field] = x]
           g == [f EXCEPT !.val = val]
<1>1. /\ val \in [Wizard!Values -> Nat \cup {Wizard!Blank, Wizard!TooLong}]
      /\ val[field] = x
      /\ \A other \in Wizard!Values : other # field => val[other] = f.val[other]
  BY DEF Filled
<1>2. [f EXCEPT !.val[field] = x] = g
  BY DEF Filled
<1> HIDE DEF val
<1>3. g.val = val /\ g.focus = f.focus /\ g.text = f.text /\ g.enabled = f.enabled
  BY DEF Filled
<1>4. \A choice \in Wizard!Selects : val[choice] \in 0..Wizard!Options[choice]-1
  BY <1>1, ValuesAre DEF Filled
<1>5. Filled(g)
  BY <1>1, <1>3, <1>4 DEF Filled
<1> HIDE DEF g
<1> QED BY <1>1, <1>2, <1>3, <1>5

\* An arrow on a field changes its value, within its options, and nothing else.
LEMMA SteppedIs ==
  ASSUME NEW f, Filled(f), NEW field \in Wizard!Fields, NEW delta \in {-1, 1}
  PROVE LET g == Wizard!Stepped(f, field, delta)
        IN /\ Filled(g) /\ g.focus = f.focus /\ g.text = f.text
           /\ \A other \in Wizard!Values : other # field => g.val[other] = f.val[other]
<1>1. CASE field \in Wizard!Selects
  <2> DEFINE n == Wizard!Options[field]
             x == (f.val[field] + delta) % n
  <2>1. n \in {2, 3, 4} /\ f.val[field] \in 0..n-1 /\ field \in Wizard!Values
    BY <1>1, OptionsAre, ValuesAre DEF Filled
  <2>2. x \in 0..n-1
    <3> HIDE DEF n
    <3> QED BY <2>1
  <2>3. Wizard!Stepped(f, field, delta) = [f EXCEPT !.val[field] = x]
    BY <1>1 DEF Wizard!Stepped
  <2>4. x \in Nat BY <2>1, <2>2
  <2> HIDE DEF x
  <2> QED BY <2>1, <2>2, <2>3, <2>4, ValueReplaced
<1>2. CASE field \in Wizard!Numbers
  <2> DEFINE x == Wizard!Nudge(f.val[field], delta, Wizard!Bounds[field])
  <2>1. field \in Wizard!Values /\ field \notin Wizard!Selects
    BY <1>2, ValuesAre
  <2>2. x \in Nat
    BY <1>2, <2>1, BoundsAre, NudgeStays DEF Filled
  <2>3. Wizard!Stepped(f, field, delta) = [f EXCEPT !.val[field] = x]
    BY <1>2, <2>1 DEF Wizard!Stepped
  <2> HIDE DEF x
  <2> QED BY <2>1, <2>2, <2>3, ValueReplaced
<1>3. CASE field \notin Wizard!Selects /\ field \notin Wizard!Numbers
  BY <1>3 DEF Wizard!Stepped
<1> QED BY <1>1, <1>2, <1>3

-----------------------------------------------------------------------------
(* Texts.                                                                  *)

IsText(t) == t \in [value : Seq(Wizard!Letters), cursor : Nat] /\ t.cursor <= Len(t.value)

LEMMA HalvesAre ==
  ASSUME NEW t, IsText(t)
  PROVE /\ Wizard!Before(t) \in Seq(Wizard!Letters) /\ Len(Wizard!Before(t)) = t.cursor
        /\ Wizard!After(t) \in Seq(Wizard!Letters)
        /\ Len(Wizard!After(t)) = Len(t.value) - t.cursor
        /\ \A i \in 1..t.cursor : Wizard!Before(t)[i] = t.value[i]
<1>1. t.value \in Seq(Wizard!Letters) /\ t.cursor \in 0..Len(t.value) /\ Len(t.value) \in Nat
  BY LenProperties DEF IsText
<1>2. \A i \in 1..Len(t.value) : t.value[i] \in Wizard!Letters
  BY <1>1, ElementOfSeq
<1>3. /\ Wizard!Before(t) \in Seq(Wizard!Letters) /\ Len(Wizard!Before(t)) = t.cursor
      /\ \A i \in 1..t.cursor : Wizard!Before(t)[i] = t.value[i]
  BY <1>1, <1>2, SubSeqProperties DEF Wizard!Before
<1>4. /\ Wizard!After(t) \in Seq(Wizard!Letters)
      /\ Len(Wizard!After(t)) = Len(t.value) - t.cursor
  BY <1>1, <1>2, SubSeqProperties DEF Wizard!After
<1> QED BY <1>3, <1>4

\* A text put together from two has them on the two sides of its cursor.
LEMMA Spliced ==
  ASSUME NEW before \in Seq(Wizard!Letters), NEW after \in Seq(Wizard!Letters)
  PROVE LET t == Wizard!Text(before \o after, Len(before))
        IN /\ IsText(t) /\ Len(t.value) = Len(before) + Len(after)
           /\ Wizard!Before(t) = before /\ Wizard!After(t) = after
<1> DEFINE t == Wizard!Text(before \o after, Len(before))
<1>1. /\ before \o after \in Seq(Wizard!Letters) /\ Len(before \o after) = Len(before) + Len(after)
      /\ \A i \in 1..Len(before) + Len(after) : (before \o after)[i] =
            IF i <= Len(before) THEN before[i] ELSE after[i - Len(before)]
      /\ Len(before) \in Nat /\ Len(after) \in Nat
  BY ConcatProperties, LenProperties
<1>2. t.value = before \o after /\ t.cursor = Len(before)
  BY DEF Wizard!Text
<1>3. IsText(t) /\ Len(t.value) = Len(before) + Len(after)
  BY <1>1, <1>2 DEF IsText, Wizard!Text
<1>4. Wizard!Before(t) = before
  <2>1. /\ Wizard!Before(t) \in Seq(Wizard!Letters) /\ Len(Wizard!Before(t)) = Len(before)
        /\ \A i \in 1..Len(before) : Wizard!Before(t)[i] = t.value[i]
    BY <1>2, <1>3, HalvesAre
  <2>2. \A i \in 1..Len(before) : Wizard!Before(t)[i] = before[i]
    BY <1>1, <1>2, <2>1
  <2> QED BY <2>1, <2>2, SeqEqual
<1>5. Wizard!After(t) = after
  <2>1. Wizard!After(t) = SubSeq(before \o after, Len(before) + 1, Len(before) + Len(after))
    BY <1>1, <1>2 DEF Wizard!After
  <2>2. \A i \in 1..Len(before) + Len(after) : (before \o after)[i] \in Wizard!Letters
    BY <1>1, ElementOfSeq
  <2>3. Len(before) + 1 \in Int /\ Len(before) + Len(after) \in Int
        /\ \A i \in Len(before) + 1..Len(before) + Len(after) :
              (before \o after)[i] \in Wizard!Letters
    BY <1>1, <2>2
  <2>4. /\ Len(Wizard!After(t)) = Len(after)
        /\ Wizard!After(t) \in Seq(Wizard!Letters)
        /\ \A i \in 1..Len(after) : Wizard!After(t)[i] = (before \o after)[Len(before) + i]
    BY <1>1, <2>1, <2>3, SubSeqProperties
  <2>5. \A i \in 1..Len(after) : Wizard!After(t)[i] = after[i]
    BY <1>1, <2>4
  <2> QED BY <2>4, <2>5, SeqEqual
<1> QED BY <1>3, <1>4, <1>5

\* What an edit leaves alone in a text.
LocalText(old, new) ==
    IF Len(new.value) > Len(old.value)
    THEN /\ Wizard!After(new) = Wizard!After(old)
         /\ Wizard!IsPrefix(Wizard!Before(old), Wizard!Before(new))
    ELSE \/ Wizard!Before(new) = Wizard!Before(old) \/ Wizard!After(new) = Wizard!After(old)
         \/ new.value = <<>>

\* A text that is inserted goes before the cursor, and what is behind it stays.
LEMMA Inserted ==
  ASSUME NEW t, IsText(t), NEW s \in Seq(Wizard!Letters)
  PROVE LET new == Wizard!Text((Wizard!Before(t) \o s) \o Wizard!After(t),
                               t.cursor + Len(s))
        IN IsText(new) /\ LocalText(t, new)
<1> DEFINE before == Wizard!Before(t) \o s
           new == Wizard!Text(before \o Wizard!After(t), t.cursor + Len(s))
<1>1. /\ Wizard!Before(t) \in Seq(Wizard!Letters) /\ Len(Wizard!Before(t)) = t.cursor
      /\ Wizard!After(t) \in Seq(Wizard!Letters)
      /\ Len(Wizard!After(t)) = Len(t.value) - t.cursor
      /\ Len(t.value) \in Nat /\ t.cursor \in Nat /\ Len(s) \in Nat
  BY HalvesAre, LenProperties DEF IsText
<1>2. /\ before \in Seq(Wizard!Letters) /\ Len(before) = t.cursor + Len(s)
      /\ \A i \in 1..t.cursor : before[i] = Wizard!Before(t)[i]
  <2>1. /\ before \in Seq(Wizard!Letters) /\ Len(before) = t.cursor + Len(s)
        /\ \A i \in 1..t.cursor + Len(s) : before[i] =
              IF i <= t.cursor THEN Wizard!Before(t)[i] ELSE s[i - t.cursor]
    <3> DEFINE half == Wizard!Before(t)
    <3>1. half \in Seq(Wizard!Letters) /\ Len(half) = t.cursor BY <1>1
    <3> HIDE DEF half
    <3>2. /\ half \o s \in Seq(Wizard!Letters) /\ Len(half \o s) = Len(half) + Len(s)
          /\ \A i \in 1..Len(half) + Len(s) : (half \o s)[i] =
                IF i <= Len(half) THEN half[i] ELSE s[i - Len(half)]
      BY <3>1, ConcatProperties
    <3> QED BY <3>1, <3>2 DEF half
  <2> HIDE DEF before
  <2> QED BY <1>1, <2>1
<1>3. /\ IsText(new) /\ Wizard!Before(new) = before /\ Wizard!After(new) = Wizard!After(t)
  <2> HIDE DEF before
  <2> QED BY <1>1, <1>2, Spliced
<1>4. Wizard!IsPrefix(Wizard!Before(t), before)
  <2>1. SubSeq(Wizard!Before(t), 1, t.cursor) = Wizard!Before(t)
    BY <1>1, SubSeqFull
  <2>2. \A i \in 1..t.cursor : before[i] \in Wizard!Letters
    BY <1>1, <1>2, ElementOfSeq
  <2>3. /\ SubSeq(before, 1, t.cursor) \in Seq(Wizard!Letters)
        /\ Len(SubSeq(before, 1, t.cursor)) = t.cursor
        /\ \A i \in 1..t.cursor : SubSeq(before, 1, t.cursor)[i] = before[i]
    <3> HIDE DEF before
    <3>1. /\ SubSeq(before, 1, t.cursor) \in Seq(Wizard!Letters)
          /\ Len(SubSeq(before, 1, t.cursor)) =
                IF 1 <= t.cursor THEN t.cursor - 1 + 1 ELSE 0
          /\ \A i \in 1..t.cursor - 1 + 1 : SubSeq(before, 1, t.cursor)[i] = before[1 + i - 1]
      BY <1>1, <2>2, SubSeqProperties
    <3> QED BY <1>1, <3>1
  <2>4. SubSeq(before, 1, t.cursor) = Wizard!Before(t)
    <3> HIDE DEF before
    <3> QED BY <1>1, <1>2, <2>3, SeqEqual
  <2> QED BY <1>1, <1>2, <2>1, <2>4 DEF Wizard!IsPrefix
<1> HIDE DEF before, new
<1>5. LocalText(t, new)
  BY <1>3, <1>4 DEF LocalText
<1> QED BY <1>3, <1>5 DEF new, before

\* What is deleted on one side of the cursor leaves the other.
LEMMA Deleted ==
  ASSUME NEW t, IsText(t), NEW before \in Seq(Wizard!Letters), NEW after \in Seq(Wizard!Letters),
         \/ before = Wizard!Before(t) /\ Len(after) <= Len(Wizard!After(t))
         \/ after = Wizard!After(t) /\ Len(before) <= Len(Wizard!Before(t))
  PROVE LET new == Wizard!Text(before \o after, Len(before))
        IN IsText(new) /\ LocalText(t, new)
<1> DEFINE new == Wizard!Text(before \o after, Len(before))
<1>1. /\ Len(Wizard!Before(t)) = t.cursor
      /\ Len(Wizard!After(t)) = Len(t.value) - t.cursor
      /\ Len(t.value) \in Nat /\ t.cursor \in Nat
      /\ Len(before) \in Nat /\ Len(after) \in Nat
  BY HalvesAre, LenProperties DEF IsText
<1>2. /\ IsText(new) /\ Wizard!Before(new) = before /\ Wizard!After(new) = after
      /\ Len(new.value) = Len(before) + Len(after)
  BY Spliced
<1> HIDE DEF new
<1>3. ~(Len(new.value) > Len(t.value))
  BY <1>1, <1>2
<1>4. LocalText(t, new)
  BY <1>2, <1>3 DEF LocalText
<1> QED BY <1>2, <1>4 DEF new

\* Every edit of a text keeps what is on one side of its cursor.
LEMMA TextEdited ==
  ASSUME NEW t, IsText(t), wizard \in WizardSetups, NEW new \in Wizard!TextEdits(t)
  PROVE IsText(new) /\ (new.value # t.value => LocalText(t, new))
<1>1. /\ Wizard!Before(t) \in Seq(Wizard!Letters) /\ Len(Wizard!Before(t)) = t.cursor
      /\ Wizard!After(t) \in Seq(Wizard!Letters)
      /\ Len(Wizard!After(t)) = Len(t.value) - t.cursor
      /\ Len(t.value) \in Nat /\ t.cursor \in Nat /\ t.value \in Seq(Wizard!Letters)
      /\ t.cursor <= Len(t.value)
      /\ \A i \in 1..Len(t.value) : t.value[i] \in Wizard!Letters
  BY HalvesAre, LenProperties, ElementOfSeq DEF IsText
<1>2. wizard.letters \subseteq Wizard!Letters
  BY DEF Wizard!Letters
<1>3. ASSUME NEW ch \in wizard.letters, new = Wizard!Insert(t, ch)
      PROVE IsText(new) /\ LocalText(t, new)
  <2>1. <<ch>> \in Seq(Wizard!Letters) /\ Len(<<ch>>) = 1 BY <1>2
  <2>2. new = Wizard!Text((Wizard!Before(t) \o <<ch>>) \o Wizard!After(t), t.cursor + 1)
    <3>1. Wizard!Before(t) \o (<<ch>> \o Wizard!After(t))
            = (Wizard!Before(t) \o <<ch>>) \o Wizard!After(t)
      <4> DEFINE before == Wizard!Before(t)
                 after == Wizard!After(t)
      <4>1. before \in Seq(Wizard!Letters) /\ after \in Seq(Wizard!Letters) BY <1>1
      <4> HIDE DEF before, after
      <4>2. (before \o <<ch>>) \o after = before \o (<<ch>> \o after)
        BY <2>1, <4>1, ConcatAssociative
      <4> QED BY <4>2 DEF before, after
    <3> QED BY <1>3, <3>1 DEF Wizard!Insert
  <2> QED BY <2>1, <2>2, Inserted
<1>4. CASE new = Wizard!DeleteBefore(t)
  <2>1. CASE t.cursor = 0 BY <1>4, <2>1 DEF Wizard!DeleteBefore
  <2>2. CASE t.cursor # 0
    <3> DEFINE before == SubSeq(Wizard!Before(t), 1, t.cursor - 1)
    <3>1. \A i \in 1..t.cursor - 1 : Wizard!Before(t)[i] \in Wizard!Letters
      BY <1>1, ElementOfSeq
    <3>2. before \in Seq(Wizard!Letters) /\ Len(before) = t.cursor - 1
      <4>1. /\ before \in Seq(Wizard!Letters)
            /\ Len(before) = IF 1 <= t.cursor - 1 THEN t.cursor - 1 - 1 + 1 ELSE 0
        BY <1>1, <3>1, SubSeqProperties
      <4> QED BY <1>1, <2>2, <4>1
    <3>3. new = Wizard!Text(before \o Wizard!After(t), t.cursor - 1)
      BY <1>1, <1>4, <2>2 DEF Wizard!DeleteBefore, Wizard!Front
    <3> HIDE DEF before
    <3> QED BY <1>1, <3>2, <3>3, Deleted
  <2> QED BY <2>1, <2>2
<1>5. CASE new = Wizard!DeleteAt(t)
  <2>1. CASE t.cursor >= Len(t.value) BY <1>5, <2>1 DEF Wizard!DeleteAt
  <2>2. CASE ~(t.cursor >= Len(t.value))
    <3>1. Wizard!After(t) # <<>> BY <1>1, <2>2, EmptySeq
    <3>2. /\ Tail(Wizard!After(t)) \in Seq(Wizard!Letters)
          /\ Len(Tail(Wizard!After(t))) = Len(Wizard!After(t)) - 1
      BY <1>1, <3>1, HeadTailProperties
    <3>3. new = Wizard!Text(Wizard!Before(t) \o Tail(Wizard!After(t)), Len(Wizard!Before(t)))
      BY <1>1, <1>5, <2>2 DEF Wizard!DeleteAt
    <3>4. Len(Tail(Wizard!After(t))) <= Len(Wizard!After(t)) BY <1>1, <3>2
    <3> HIDE DEF Wizard!After
    <3> QED BY <1>1, <3>2, <3>3, <3>4, Deleted
  <2> QED BY <2>1, <2>2
<1>6. CASE new = Wizard!DeleteWordBefore(t)
  <2> DEFINE word == {k \in 0..t.cursor :
                         \E m \in k..t.cursor :
                             /\ \A i \in k+1..m : t.value[i] # " "
                             /\ \A i \in m+1..t.cursor : t.value[i] = " "}
             target == CHOOSE k \in word : \A m \in word : k <= m
             before == SubSeq(t.value, 1, target)
  <2>1. new = Wizard!Text(before \o Wizard!After(t), target)
    BY <1>6 DEF Wizard!DeleteWordBefore
  <2>2. t.cursor \in word
    <3>1. /\ \A i \in t.cursor+1..t.cursor : t.value[i] # " "
          /\ \A i \in t.cursor+1..t.cursor : t.value[i] = " "
      <4>1. t.cursor+1..t.cursor = {} BY <1>1
      <4> QED BY <4>1
    <3>2. t.cursor \in t.cursor..t.cursor /\ t.cursor \in 0..t.cursor BY <1>1
    <3> QED BY <3>1, <3>2
  <2>3. word \in SUBSET Nat /\ word # {}
    <3>1. word \subseteq 0..t.cursor OBVIOUS
    <3> HIDE DEF word
    <3> QED BY <1>1, <2>2, <3>1
  <2>4. target \in word
    <3> HIDE DEF word
    <3> QED BY <2>3, LeastNatural
  <2>5. target \in 0..t.cursor
    BY <2>4
  <2> HIDE DEF target
  <2>6. before \in Seq(Wizard!Letters) /\ Len(before) = target
    <3>1. \A i \in 1..target : t.value[i] \in Wizard!Letters BY <1>1, <2>5
    <3>2. /\ before \in Seq(Wizard!Letters)
          /\ Len(before) = IF 1 <= target THEN target - 1 + 1 ELSE 0
      BY <2>5, <3>1, SubSeqProperties
    <3> QED BY <2>5, <3>2
  <2> HIDE DEF before
  <2> QED BY <1>1, <2>1, <2>5, <2>6, Deleted
<1>7. CASE new = Wizard!Typed(<<>>)
  <2>1. new.value = <<>> /\ new.cursor = 0 /\ IsText(new)
    BY <1>7, EmptySeq DEF Wizard!Typed, Wizard!Text, IsText
  <2>2. Len(new.value) = 0 BY <2>1
  <2> QED BY <1>1, <2>1, <2>2 DEF LocalText
<1>8. CASE new = Wizard!Text(t.value, 0) \/ new = Wizard!Typed(t.value)
  BY <1>1, <1>8 DEF Wizard!Typed, Wizard!Text, IsText
<1> QED BY <1>3, <1>4, <1>5, <1>6, <1>7, <1>8 DEF Wizard!TextEdits

\* A cursor that moves stays in its text.
LEMMA CursorMoves ==
  ASSUME NEW t, IsText(t), NEW delta \in {-1, 1}
  PROVE IsText(Wizard!MoveCursor(t, delta)) /\ Wizard!MoveCursor(t, delta).value = t.value
BY DEF IsText, Wizard!MoveCursor

\* One text is replaced by another.
LEMMA TextReplaced ==
  ASSUME NEW f, Filled(f), NEW field \in Wizard!Texts, NEW t, IsText(t)
  PROVE LET g == [f EXCEPT !.text[field] = t]
        IN /\ Filled(g) /\ g.focus = f.focus /\ g.val = f.val /\ g.enabled = f.enabled
           /\ g.text[field] = t
           /\ \A other \in Wizard!Texts : other # field => g.text[other] = f.text[other]
<1> DEFINE content == [f.text EXCEPT ![field] = t]
           g == [f EXCEPT !.text = content]
<1>1. /\ content \in [Wizard!Texts -> [value : Seq(Wizard!Letters), cursor : Nat]]
      /\ content[field] = t
      /\ \A other \in Wizard!Texts : other # field => content[other] = f.text[other]
  BY DEF Filled, IsText
<1>2. [f EXCEPT !.text[field] = t] = g
  BY DEF Filled
<1> HIDE DEF content
<1>3. g.text = content /\ g.focus = f.focus /\ g.val = f.val /\ g.enabled = f.enabled
  BY DEF Filled
<1>4. \A other \in Wizard!Texts : content[other].cursor <= Len(content[other].value)
  BY <1>1 DEF Filled, IsText
<1>5. Filled(g)
  BY <1>1, <1>3, <1>4 DEF Filled
<1> HIDE DEF g
<1> QED BY <1>1, <1>2, <1>3, <1>5

-----------------------------------------------------------------------------
(* Forms.                                                                  *)

\* A form that is opened shows what it means, whatever size is configured.
LEMMA NewShows ==
  ASSUME wizard \in WizardSetups, NEW f \in Wizard!News
  PROVE Shows(f)
<1>1. wizard.sizes \subseteq Nat \X Nat
  BY WizardAssumption DEF Wizard!WizardConstants, Wizard!SetupType
<1>2. PICK size \in Nat \X Nat, choice \in 0..2 : f = Wizard!New(size, choice)
  <2>1. Wizard!News = {Wizard!New(size, choice) : size \in wizard.sizes,
           choice \in IF "MatchMode" \in wizard.edits THEN 0..2 ELSE {Wizard!Emergence}}
    BY DEF Wizard!News, Wizard!NewForms
  <2>2. Wizard!Emergence \in 0..2 BY DEF Wizard!Emergence
  <2> QED BY <1>1, <2>1, <2>2
<1> DEFINE preset == Wizard!SelectInSeq(Wizard!Presets, LAMBDA s : s = size)
           val == [field \in Wizard!Values |->
                     CASE field \in {"Width", "CanvasWidth"} -> size[1]
                       [] field \in {"Height", "CanvasHeight"} -> size[2]
                       [] field = "SizeMode" ->
                             IF preset = 0 THEN Wizard!CustomSize ELSE preset - 1
                       [] field = "MatchMode" -> choice
                       [] field = "Threshold" -> 5
                       [] field \in {"Profile", "Gpu", "Thermal"} -> 1
                       [] OTHER -> 0]
           content == [field \in Wizard!Texts |-> Wizard!Typed(<<>>)]
           g == [val |-> val, text |-> content, enabled |-> {}, focus |-> "ArtSource"]
<1>3. preset \in 0..3
  <2> DEFINE I == {i \in 1..Len(Wizard!Presets) : Wizard!Presets[i] = size}
  <2>1. preset = IF I # {} THEN Wizard!Min(I) ELSE 0
    BY DEF Wizard!SelectInSeq
  <2>2. I \subseteq 1..3
    BY DEF Wizard!Presets
  <2>3. I # {} => Wizard!Min(I) \in I
    <3>1. I \in SUBSET Nat BY <2>2
    <3> HIDE DEF I
    <3>2. I # {} => \E m \in I : \A n \in I : m <= n BY <3>1, LeastNatural
    <3> QED BY <3>2 DEF Wizard!Min
  <2> HIDE DEF I
  <2> QED BY <2>1, <2>2, <2>3
<1>4. f = Wizard!SyncEnabled(g)
  BY <1>2 DEF Wizard!New
<1>5. /\ \A field \in Wizard!Values : val[field] \in Nat
      /\ \A field \in Wizard!Selects : val[field] \in 0..Wizard!Options[field]-1
  <2> HIDE DEF preset
  <2>1. size[1] \in Nat /\ size[2] \in Nat BY <1>2
  <2>2. \A field \in Wizard!Values :
           /\ field \in {"Width", "CanvasWidth"} => val[field] = size[1]
           /\ field \in {"Height", "CanvasHeight"} => val[field] = size[2]
           /\ field = "SizeMode" => val[field] = IF preset = 0 THEN 3 ELSE preset - 1
           /\ field = "MatchMode" => val[field] = choice
           /\ field = "Threshold" => val[field] = 5
           /\ field \in {"Profile", "Gpu", "Thermal"} => val[field] = 1
           /\ field \notin {"Width", "CanvasWidth", "Height", "CanvasHeight", "SizeMode",
                            "MatchMode", "Threshold", "Profile", "Gpu", "Thermal"} =>
                 val[field] = 0
    BY DEF Wizard!CustomSize
  <2> HIDE DEF val
  <2>3. \A field \in Wizard!Values : val[field] \in Nat
    BY <1>2, <1>3, <2>1, <2>2
  <2>4. \A field \in Wizard!Selects : val[field] \in 0..Wizard!Options[field]-1
    <3>1. \A field \in Wizard!Selects :
             /\ field \in Wizard!Values
             /\ field \notin {"Width", "CanvasWidth", "Height", "CanvasHeight", "Threshold"}
      BY ValuesAre
    <3>2. \A field \in Wizard!Selects : field = "SizeMode" => val[field] \in 0..3
      BY <1>3, <2>2, <3>1
    <3>3. \A field \in Wizard!Selects : field = "MatchMode" => val[field] \in 0..2
      BY <1>2, <2>2, <3>1
    <3>4. \A field \in Wizard!Selects : field \notin {"SizeMode", "MatchMode"} =>
             val[field] \in {0, 1}
      BY <2>2, <3>1
    <3> HIDE DEF Wizard!Options
    <3>5. ASSUME NEW field \in Wizard!Selects
          PROVE val[field] \in 0..Wizard!Options[field]-1
      <4>1. CASE field = "SizeMode" BY <3>2, <4>1, OptionsAre
      <4>2. CASE field = "MatchMode" BY <3>3, <4>2, OptionsAre
      <4>3. CASE field \notin {"SizeMode", "MatchMode"} BY <3>4, <4>3, OptionsAre
      <4> QED BY <4>1, <4>2, <4>3
    <3> QED BY <3>5
  <2> QED BY <2>3, <2>4
<1>6. Filled(g)
  <2>1. val \in [Wizard!Values -> Nat \cup {Wizard!Blank, Wizard!TooLong}]
    <3>1. val = [field \in Wizard!Values |-> val[field]] OBVIOUS
    <3> HIDE DEF val
    <3> QED BY <1>5, <3>1
  <2>2. Wizard!Typed(<<>>) = [value |-> <<>>, cursor |-> 0]
    BY DEF Wizard!Typed, Wizard!Text
  <2>3. /\ content \in [Wizard!Texts -> [value : Seq(Wizard!Letters), cursor : Nat]]
        /\ \A field \in Wizard!Texts : content[field].cursor <= Len(content[field].value)
    <3> DEFINE t == [value |-> <<>>, cursor |-> 0]
    <3>1. <<>> \in Seq(Wizard!Letters) /\ Len(<<>>) = 0 BY EmptySeq
    <3>2. t \in [value : Seq(Wizard!Letters), cursor : Nat] /\ t.cursor <= Len(t.value) BY <3>1
    <3>3. \A field \in Wizard!Texts : content[field] = t BY <2>2
    <3>4. content = [field \in Wizard!Texts |-> t] BY <2>2
    <3> HIDE DEF t, content
    <3> QED BY <3>2, <3>3, <3>4
  <2>4. {} \subseteq Wizard!Fields /\ "ArtSource" \in Wizard!Fields BY FieldsAre
  <2> HIDE DEF val, content
  <2> QED BY <1>5, <2>1, <2>3, <2>4 DEF Filled
<1> HIDE DEF g
<1> QED BY <1>4, <1>6, SyncShows

\* One field of a form is edited, the one that gets the focus: with the size preset alone
\* go the numbers it stands for, and what has the focus keeps it.
LEMMA EditedOne ==
  ASSUME NEW f, Shows(f), NEW g, Filled(g), g.focus \in f.enabled,
         \A other \in Wizard!Values : other # g.focus => g.val[other] = f.val[other]
  PROVE LET h == Wizard!SyncEnabled(g)
        IN /\ Shows(h) /\ h.text = g.text /\ h.focus = g.focus
           /\ \A other \in Wizard!Values :
                 h.val[other] # f.val[other] =>
                     other = g.focus \/ (other \in {"Width", "Height"} /\ g.focus = "SizeMode")
<1> DEFINE h == Wizard!SyncEnabled(g)
<1>1. /\ Shows(h) /\ h.text = g.text
      /\ \A field \in Wizard!Values :
            field \notin {"Width", "Height"} => h.val[field] = g.val[field]
      /\ g.val["SizeMode"] = Wizard!CustomSize => h.val = g.val
      /\ (g.val["SizeMode"] # Wizard!CustomSize
          /\ <<g.val["Width"], g.val["Height"]>> = Wizard!Presets[g.val["SizeMode"] + 1])
         => h.val = g.val
      /\ g.focus \in Wizard!EnabledBy(g.val) => h.focus = g.focus
  BY SyncShows
<1> HIDE DEF h
<1>2. {"ArtSource", "PiSource", "SizeMode", "MatchMode", "Width", "Height"} \subseteq Wizard!Values
  BY ValuesAre
<1>3. g.focus \in Wizard!EnabledBy(f.val) /\ g.focus \in Wizard!Fields
  BY EnabledFacts DEF Shows, Filled
<1>4. g.focus \in Wizard!EnabledBy(g.val)
  <2>1. \A control \in {"ArtSource", "PiSource", "SizeMode", "MatchMode"} :
           control # g.focus => g.val[control] = f.val[control]
    BY <1>2
  <2> QED BY <1>3, <2>1, EnabledFacts
<1>5. g.focus # "SizeMode" => h.val = g.val
  <2> SUFFICES ASSUME g.focus # "SizeMode" PROVE h.val = g.val
    OBVIOUS
  <2>1. g.val["SizeMode"] = f.val["SizeMode"] BY <1>2
  <2>2. CASE f.val["SizeMode"] = Wizard!CustomSize BY <1>1, <2>1, <2>2
  <2>3. CASE f.val["SizeMode"] # Wizard!CustomSize
    <3>1. g.focus \notin {"Width", "Height"} BY <1>3, <2>3, EnabledFacts
    <3>2. g.val["Width"] = f.val["Width"] /\ g.val["Height"] = f.val["Height"]
      BY <1>2, <3>1
    <3> QED BY <1>1, <2>1, <2>3, <3>2 DEF Shows
  <2> QED BY <2>2, <2>3
<1>6. \A other \in Wizard!Values :
         h.val[other] # f.val[other] =>
             other = g.focus \/ (other \in {"Width", "Height"} /\ g.focus = "SizeMode")
  BY <1>1, <1>5
<1> QED BY <1>1, <1>4, <1>6 DEF h

\* The focus is moved to another field.
LEMMA Refocused ==
  ASSUME NEW f, Filled(f), NEW field \in Wizard!Fields
  PROVE LET g == [f EXCEPT !.focus = field]
        IN Filled(g) /\ g.focus = field /\ g.val = f.val /\ g.text = f.text
           /\ g.enabled = f.enabled
BY DEF Filled

-----------------------------------------------------------------------------
(* Steps.                                                                  *)

\* What a step that edits one field leaves alone.
LocalEdit(h) ==
    /\ \A field \in Wizard!Values : h.val[field] # form.val[field] =>
          \/ field = h.focus /\ field \in form.enabled
          \/ field \in {"Width", "Height"} /\ h.focus = "SizeMode"
          \/ field \in {"Template", "ArtSource"} /\ h.focus = "Name"
    /\ \A field \in Wizard!Texts : h.text[field].value # form.text[field].value =>
          /\ field = h.focus /\ field \in form.enabled
          /\ LocalText(form.text[field], h.text[field])

LEMMA LocalStep == ASSUME LocalEdit(form') PROVE Wizard!EditIsLocal
<1>1. \A field \in Wizard!Texts : field \notin Wizard!Values
  BY ValuesAre
<1>2. \A field \in Wizard!Fields : Wizard!Changed(field) =>
         \/ field \in Wizard!Values /\ form'.val[field] # form.val[field]
         \/ field \in Wizard!Texts /\ form'.text[field].value # form.text[field].value
  BY DEF Wizard!Changed
<1>3. \A field \in Wizard!Fields : Wizard!Changed(field) =>
         \/ field = form'.focus /\ field \in form.enabled
         \/ field \in {"Width", "Height"} /\ form'.focus = "SizeMode"
         \/ field \in {"Template", "ArtSource"} /\ form'.focus = "Name"
  BY <1>2 DEF LocalEdit
<1>4. \A field \in Wizard!Texts : Wizard!Changed(field) =>
         LocalText(form.text[field], form'.text[field])
  BY <1>1 DEF LocalEdit, Wizard!Changed
<1> QED BY <1>3, <1>4 DEF Wizard!EditIsLocal, LocalText

LEMMA ChangeShows ==
  ASSUME WizardInv, NEW h, Shows(h), Wizard!Change(h)
  PROVE WizardInv'
<1>1. /\ form' = h /\ shown' = (shown /\ h = form)
      /\ wizard' = wizard /\ scroll' = scroll /\ visible' = visible
  BY DEF Wizard!Change
<1>3. Wizard!FocusIsVisible'
  <2>1. SUFFICES ASSUME shown' PROVE Wizard!FocusIsVisible'
    BY DEF Wizard!FocusIsVisible
  <2>2. shown /\ form' = form BY <1>1, <2>1
  <2>3. Wizard!FocusIsVisible BY DEF WizardInv
  <2> QED BY <1>1, <2>2, <2>3 DEF Wizard!FocusIsVisible
<1>4. shown' \in BOOLEAN BY <1>1
<1> QED BY <1>1, <1>3, <1>4 DEF WizardInv

LEMMA ChangeKeeps ==
  ASSUME WizardInv, NEW h, Shows(h), LocalEdit(h), Wizard!Change(h)
  PROVE WizardInv' /\ Wizard!EditIsLocal
<1>1. form' = h BY DEF Wizard!Change
<1>2. Wizard!EditIsLocal
  BY <1>1, LocalStep
<1> QED BY <1>2, ChangeShows

\* What follows for a form that is brought up to date after one edit.
LEMMA EditKeepsForm ==
  ASSUME WizardInv, NEW g, Filled(g), g.focus \in form.enabled,
         \A other \in Wizard!Values : other # g.focus => g.val[other] = form.val[other],
         \A field \in Wizard!Texts : g.text[field].value # form.text[field].value =>
             field = g.focus /\ LocalText(form.text[field], g.text[field]),
         Wizard!Change(Wizard!SyncEnabled(g))
  PROVE WizardInv' /\ Wizard!EditIsLocal
<1> DEFINE h == Wizard!SyncEnabled(g)
<1>1. Shows(form) BY DEF WizardInv
<1>2. /\ Shows(h) /\ h.text = g.text /\ h.focus = g.focus
      /\ \A other \in Wizard!Values :
            h.val[other] # form.val[other] =>
                other = g.focus \/ (other \in {"Width", "Height"} /\ g.focus = "SizeMode")
  BY <1>1, EditedOne
<1> HIDE DEF h
<1>3. LocalEdit(h)
  BY <1>2 DEF LocalEdit
<1> QED BY <1>2, <1>3, ChangeKeeps DEF h

LEMMA MoveKeeps == ASSUME WizardInv, Wizard!Move PROVE WizardInv' /\ Wizard!EditIsLocal
<1>1. Shows(form) /\ Filled(form) BY DEF WizardInv, Shows
<1>2. PICK delta \in {-1, 1} : Wizard!Change(Wizard!SyncEnabled(Wizard!MoveFocus(form, delta)))
  BY DEF Wizard!Move
<1>3. form.focus \in Wizard!Fields /\ "ArtSource" \in form.enabled
      /\ form.enabled \subseteq Wizard!Fields
  BY <1>1, EnabledFacts DEF Shows, Filled
<1>4. PICK field \in form.enabled : Wizard!MoveFocus(form, delta) = [form EXCEPT !.focus = field]
  BY <1>3, FocusMoves
<1> DEFINE g == [form EXCEPT !.focus = field]
<1>5. Filled(g) /\ g.focus = field /\ g.val = form.val /\ g.text = form.text
  BY <1>1, <1>3, Refocused
<1>6. Wizard!Change(Wizard!SyncEnabled(g)) BY <1>2, <1>4
<1> HIDE DEF g
<1> QED BY <1>5, <1>6, EditKeepsForm

LEMMA ArrowKeeps == ASSUME WizardInv, Wizard!Arrow PROVE WizardInv' /\ Wizard!EditIsLocal
<1>1. Shows(form) /\ Filled(form) /\ form.focus \in form.enabled /\ form.focus \in Wizard!Fields
  BY DEF WizardInv, Shows, Filled
<1>2. PICK delta \in {-1, 1} :
         Wizard!Change(Wizard!SyncEnabled(
             IF form.focus \in Wizard!Texts
             THEN [form EXCEPT !.text[form.focus] = Wizard!MoveCursor(@, delta)]
             ELSE Wizard!Stepped(form, form.focus, delta)))
  BY DEF Wizard!Arrow
<1>3. CASE form.focus \in Wizard!Texts
  <2> DEFINE t == Wizard!MoveCursor(form.text[form.focus], delta)
             g == [form EXCEPT !.text[form.focus] = t]
  <2>1. IsText(form.text[form.focus]) BY <1>1, <1>3 DEF Filled, IsText
  <2>2. IsText(t) /\ t.value = form.text[form.focus].value
    BY <2>1, CursorMoves
  <2>3. Wizard!Change(Wizard!SyncEnabled(g)) BY <1>2, <1>3
  <2> HIDE DEF t
  <2>4. /\ Filled(g) /\ g.focus = form.focus /\ g.val = form.val
        /\ g.text[form.focus] = t
        /\ \A other \in Wizard!Texts : other # form.focus => g.text[other] = form.text[other]
    BY <1>1, <1>3, <2>2, TextReplaced
  <2> HIDE DEF g
  <2> QED BY <1>1, <2>2, <2>3, <2>4, EditKeepsForm
<1>4. CASE form.focus \notin Wizard!Texts
  <2> DEFINE g == Wizard!Stepped(form, form.focus, delta)
  <2>1. /\ Filled(g) /\ g.focus = form.focus /\ g.text = form.text
        /\ \A other \in Wizard!Values : other # form.focus => g.val[other] = form.val[other]
    BY <1>1, SteppedIs
  <2>2. Wizard!Change(Wizard!SyncEnabled(g)) BY <1>2, <1>4
  <2> HIDE DEF g
  <2> QED BY <1>1, <2>1, <2>2, EditKeepsForm
<1> QED BY <1>3, <1>4

LEMMA TypeKeeps == ASSUME WizardInv, Wizard!Type PROVE WizardInv' /\ Wizard!EditIsLocal
<1>1. /\ Shows(form) /\ Filled(form) /\ form.focus \in form.enabled
      /\ form.focus \in Wizard!Fields /\ wizard \in WizardSetups
  BY DEF WizardInv, Shows, Filled
<1>2. CASE form.focus \in Wizard!Texts
           /\ \E t \in Wizard!TextEdits(form.text[form.focus]) :
                 Wizard!Change(Wizard!SyncEnabled([form EXCEPT !.text[form.focus] = t]))
  <2>1. PICK t \in Wizard!TextEdits(form.text[form.focus]) :
           Wizard!Change(Wizard!SyncEnabled([form EXCEPT !.text[form.focus] = t]))
    BY <1>2
  <2> DEFINE g == [form EXCEPT !.text[form.focus] = t]
  <2>2. IsText(form.text[form.focus]) BY <1>1, <1>2 DEF Filled, IsText
  <2>3. IsText(t) /\ (t.value # form.text[form.focus].value
                      => LocalText(form.text[form.focus], t))
    BY <1>1, <2>2, TextEdited
  <2>4. /\ Filled(g) /\ g.focus = form.focus /\ g.val = form.val
        /\ g.text[form.focus] = t
        /\ \A other \in Wizard!Texts : other # form.focus => g.text[other] = form.text[other]
    BY <1>1, <1>2, <2>3, TextReplaced
  <2>5. Wizard!Change(Wizard!SyncEnabled(g)) BY <2>1
  <2> HIDE DEF g
  <2> QED BY <1>1, <2>3, <2>4, <2>5, EditKeepsForm
<1>3. CASE form.focus \in Wizard!Numbers
           /\ \E number \in wizard.numbers :
                 Wizard!Change(Wizard!SyncEnabled([form EXCEPT !.val[form.focus] = number]))
  <2>1. PICK number \in wizard.numbers :
           Wizard!Change(Wizard!SyncEnabled([form EXCEPT !.val[form.focus] = number]))
    BY <1>3
  <2> DEFINE g == [form EXCEPT !.val[form.focus] = number]
  <2>2. number \in Nat \cup {Wizard!Blank, Wizard!TooLong}
    BY <1>1, WizardAssumption DEF Wizard!WizardConstants, Wizard!SetupType
  <2>3. form.focus \in Wizard!Values /\ form.focus \notin Wizard!Selects
    BY <1>3, ValuesAre
  <2>4. /\ Filled(g) /\ g.focus = form.focus /\ g.text = form.text
        /\ \A other \in Wizard!Values : other # form.focus => g.val[other] = form.val[other]
    BY <1>1, <2>2, <2>3, ValueReplaced
  <2>5. Wizard!Change(Wizard!SyncEnabled(g)) BY <2>1
  <2> HIDE DEF g
  <2> QED BY <1>1, <2>4, <2>5, EditKeepsForm
<1> QED BY <1>2, <1>3 DEF Wizard!Type

LEMMA ClickKeeps == ASSUME WizardInv, Wizard!Click PROVE WizardInv' /\ Wizard!EditIsLocal
<1>1. Shows(form) /\ Filled(form) /\ form.enabled \subseteq Wizard!Fields
  BY DEF WizardInv, Shows, Filled
<1>2. PICK field \in form.enabled :
         Wizard!Change(Wizard!SyncEnabled(
             IF field \in Wizard!Selects
             THEN Wizard!Stepped([form EXCEPT !.focus = field], field, 1)
             ELSE [form EXCEPT !.focus = field]))
  BY DEF Wizard!Click
<1> DEFINE focused == [form EXCEPT !.focus = field]
<1>3. Filled(focused) /\ focused.focus = field /\ focused.val = form.val
      /\ focused.text = form.text
  BY <1>1, <1>2, Refocused
<1> DEFINE g == IF field \in Wizard!Selects THEN Wizard!Stepped(focused, field, 1) ELSE focused
<1>4. Wizard!Change(Wizard!SyncEnabled(g)) BY <1>2
<1> HIDE DEF focused
<1>5. /\ Filled(g) /\ g.focus = field /\ g.text = form.text
      /\ \A other \in Wizard!Values : other # field => g.val[other] = form.val[other]
  <2>1. field \in Wizard!Fields BY <1>1
  <2>2. LET s == Wizard!Stepped(focused, field, 1)
        IN /\ Filled(s) /\ s.focus = focused.focus /\ s.text = focused.text
           /\ \A other \in Wizard!Values : other # field => s.val[other] = focused.val[other]
    BY <1>3, <2>1, SteppedIs
  <2> QED BY <1>3, <2>2
<1> HIDE DEF g
<1> QED BY <1>4, <1>5, EditKeepsForm

LEMMA PreloadKeeps ==
  ASSUME WizardInv, Wizard!PreloadTemplate PROVE WizardInv' /\ Wizard!EditIsLocal
<1>1. Shows(form) /\ Filled(form) /\ form.enabled = Wizard!EnabledBy(form.val)
  BY DEF WizardInv, Shows
<1> DEFINE name == form.text["Name"]
           named == IF name.value = <<>> THEN Wizard!Typed(<<"h">>) ELSE name
           filled(t) == [[[form EXCEPT !.val["Template"] = t] EXCEPT !.val["ArtSource"] = 0]
                            EXCEPT !.text["Name"] = named]
<1>2. PICK t \in 0..1 :
         Wizard!Change([Wizard!SyncEnabled(filled(t)) EXCEPT !.focus = "Name"])
  BY DEF Wizard!PreloadTemplate
<1> DEFINE a == [form EXCEPT !.val["Template"] = t]
           b == [a EXCEPT !.val["ArtSource"] = 0]
           g == [b EXCEPT !.text["Name"] = named]
           s == Wizard!SyncEnabled(g)
           h == [s EXCEPT !.focus = "Name"]
<1>3. /\ "Template" \in Wizard!Values /\ "ArtSource" \in Wizard!Values
      /\ Wizard!Options["Template"] - 1 = 1 /\ Wizard!Options["ArtSource"] - 1 = 1
      /\ "Name" \in Wizard!Texts
      /\ "SizeMode" \in Wizard!Values /\ "Width" \in Wizard!Values /\ "Height" \in Wizard!Values
  BY ValuesAre, OptionsAre
<1>4. /\ Filled(a) /\ a.text = form.text
      /\ \A other \in Wizard!Values : other # "Template" => a.val[other] = form.val[other]
  <2>1. /\ t \in Nat \cup {Wizard!Blank, Wizard!TooLong}
        /\ "Template" \in Wizard!Selects => t \in 0..Wizard!Options["Template"]-1
    BY <1>2, <1>3
  <2> QED BY <1>1, <1>3, <2>1, ValueReplaced
<1> HIDE DEF a
<1>5. /\ Filled(b) /\ b.text = form.text
      /\ \A other \in Wizard!Values : other \notin {"Template", "ArtSource"} =>
            b.val[other] = form.val[other]
  <2>1. /\ Filled(b) /\ b.text = a.text
        /\ \A other \in Wizard!Values : other # "ArtSource" => b.val[other] = a.val[other]
    <3>1. ASSUME NEW z \in 0..Wizard!Options["ArtSource"]-1, z \in Nat
          PROVE LET c == [a EXCEPT !.val["ArtSource"] = z]
                IN /\ Filled(c) /\ c.text = a.text
                   /\ \A other \in Wizard!Values :
                         other # "ArtSource" => c.val[other] = a.val[other]
      BY <1>3, <1>4, <3>1, ValueReplaced
    <3> HIDE DEF a
    <3>2. 0 \in 0..Wizard!Options["ArtSource"]-1 BY <1>3
    <3> QED BY <3>1, <3>2
  <2> HIDE DEF b
  <2> QED BY <1>4, <2>1
<1> HIDE DEF b
<1>6. /\ IsText(named) /\ IsText(name)
      /\ named.value # name.value => LocalText(name, named)
  <2>1. IsText(name) BY <1>1, <1>3 DEF Filled, IsText
  <2>2. CASE name.value # <<>> BY <2>1, <2>2
  <2>3. CASE name.value = <<>>
    <3>1. named.value = <<"h">> /\ named.cursor = 1 /\ IsText(named)
      <4>1. "h" \in Wizard!Letters BY DEF Wizard!Letters
      <4>2. ASSUME NEW ch \in Wizard!Letters
            PROVE <<ch>> \in Seq(Wizard!Letters) /\ Len(<<ch>>) = 1
        OBVIOUS
      <4>3. <<"h">> \in Seq(Wizard!Letters) /\ Len(<<"h">>) = 1 BY <4>1, <4>2
      <4> QED BY <2>3, <4>3 DEF Wizard!Typed, Wizard!Text, IsText
    <3>2. name.cursor = 0 BY <2>1, <2>3 DEF IsText
    <3>3. Wizard!Before(name) = <<>> /\ Wizard!After(name) = <<>>
      <4>1. /\ Len(Wizard!Before(name)) = 0 /\ Len(Wizard!After(name)) = 0
            /\ Wizard!Before(name) \in Seq(Wizard!Letters)
            /\ Wizard!After(name) \in Seq(Wizard!Letters)
        <5> HIDE DEF name
        <5> QED BY <2>1, <2>3, <3>2, HalvesAre, EmptySeq
      <4> QED BY <4>1, EmptySeq
    <3>4. Wizard!After(named) = <<>>
      <4>1. Len(Wizard!After(named)) = 0 /\ Wizard!After(named) \in Seq(Wizard!Letters)
        <5> HIDE DEF named
        <5> QED BY <3>1, HalvesAre
      <4> QED BY <4>1, EmptySeq
    <3>5. Wizard!IsPrefix(<<>>, Wizard!Before(named))
      <4>1. /\ Wizard!Before(named) \in Seq(Wizard!Letters) /\ Len(Wizard!Before(named)) = 1
        <5> HIDE DEF named
        <5> QED BY <3>1, HalvesAre
      <4>2. SubSeq(<<>>, 1, 0) = <<>> /\ SubSeq(Wizard!Before(named), 1, 0) = <<>>
        BY SubSeqEmpty
      <4>3. Len(<<>>) = 0 OBVIOUS
      <4> HIDE DEF named
      <4> QED BY <4>1, <4>2, <4>3 DEF Wizard!IsPrefix
    <3>6. Len(named.value) > Len(name.value)
      <4>1. Len(<<>>) = 0 /\ Len(<<"h">>) = 1 OBVIOUS
      <4>2. Len(named.value) = 1 BY <3>1, <4>1
      <4>3. Len(name.value) = 0 BY <2>3, <4>1
      <4> HIDE DEF name, named
      <4> QED BY <4>2, <4>3
    <3> HIDE DEF name, named
    <3> QED BY <2>1, <3>1, <3>3, <3>4, <3>5, <3>6 DEF LocalText
  <2> QED BY <2>2, <2>3
<1>7. /\ Filled(g) /\ g.val = b.val /\ g.text["Name"] = named
      /\ \A other \in Wizard!Texts : other # "Name" => g.text[other] = form.text[other]
  <2> HIDE DEF named
  <2> QED BY <1>3, <1>5, <1>6, TextReplaced
<1> HIDE DEF g, named
<1>8. /\ Shows(s) /\ s.text = g.text /\ s.val = g.val
  <2>1. /\ g.val["SizeMode"] = form.val["SizeMode"] /\ g.val["Width"] = form.val["Width"]
        /\ g.val["Height"] = form.val["Height"]
    BY <1>3, <1>5, <1>7
  <2> QED BY <1>1, <1>7, <2>1, SyncShows DEF Shows
<1> HIDE DEF s
<1>9. /\ Filled(h) /\ h.val = s.val /\ h.text = s.text /\ h.enabled = s.enabled
      /\ h.focus = "Name"
  <2>1. Filled(s) BY <1>8 DEF Shows
  <2>2. "Name" \in Wizard!Fields BY FieldsAre
  <2> QED BY <2>1, <2>2, Refocused
<1> HIDE DEF h
<1>10. Shows(h)
  <2>1. "Name" \in Wizard!EnabledBy(h.val) BY EnabledFacts
  <2> QED BY <1>8, <1>9, <2>1 DEF Shows
<1>11. LocalEdit(h)
  <2>1. "Name" \in form.enabled BY <1>1, EnabledFacts
  <2>2. \A field \in Wizard!Values : h.val[field] # form.val[field] =>
           field \in {"Template", "ArtSource"} /\ h.focus = "Name"
    BY <1>5, <1>7, <1>8, <1>9
  <2>3. \A field \in Wizard!Texts : h.text[field].value # form.text[field].value =>
           field = "Name" /\ LocalText(form.text[field], h.text[field])
    BY <1>6, <1>7, <1>8, <1>9
  <2> QED BY <1>9, <2>1, <2>2, <2>3 DEF LocalEdit
<1>12. Wizard!Change(h)
  BY <1>2 DEF h, s, g, b, a
<1> QED BY <1>10, <1>11, <1>12, ChangeKeeps

LEMMA ResetKeeps ==
  ASSUME WizardInv, Wizard!ResetWizard PROVE WizardInv' /\ Wizard!EditIsLocal
<1>1. PICK f \in Wizard!News : Wizard!Change(f)
  BY DEF Wizard!ResetWizard
<1>2. Shows(f)
  BY <1>1, NewShows DEF WizardInv
<1>3. WizardInv'
  BY <1>1, <1>2, ChangeShows
<1>4. Wizard!EditIsLocal
  BY <1>1 DEF Wizard!Change, Wizard!EditIsLocal
<1> QED BY <1>3, <1>4

\* Nothing is edited.
LEMMA NothingEdited == ASSUME form' = form PROVE Wizard!EditIsLocal
<1>1. LocalEdit(form') BY DEF LocalEdit
<1> QED BY <1>1, LocalStep

\* A frame scrolls to the row that has the focus.
LEMMA DrawKeeps ==
  ASSUME WizardInv, Wizard!DrawWizard PROVE WizardInv' /\ Wizard!EditIsLocal
<1>1. Shows(form) /\ wizard \in WizardSetups /\ scroll \in Nat BY DEF WizardInv
<1>2. PICK rows \in wizard.heights :
         visible' = rows /\ scroll' = Wizard!ScrollFor(Wizard!Index(form.focus) - 1, rows, scroll)
  BY DEF Wizard!DrawWizard
<1>3. rows \in Nat
  BY <1>1, WizardAssumption DEF Wizard!WizardConstants, Wizard!SetupType
<1>4. shown' = TRUE /\ wizard' = wizard /\ form' = form BY DEF Wizard!DrawWizard
<1> DEFINE i == Wizard!Index(form.focus)
<1>5. i \in 1..23
  <2>1. form.focus \in Wizard!Fields BY <1>1 DEF Shows, Filled
  <2> QED BY <2>1, IndexIs
<1>6. Wizard!Index(form'.focus) = i BY <1>4
<1> HIDE DEF i
<1>7. scroll' \in Nat /\ (rows > 0 => i - 1 \in scroll'..scroll' + rows - 1)
  <2>1. scroll' = Wizard!ScrollFor(i - 1, rows, scroll) BY <1>2 DEF i
  <2> QED BY <1>1, <1>3, <1>5, <2>1 DEF Wizard!ScrollFor
<1>8. Wizard!FocusIsVisible'
  BY <1>2, <1>6, <1>7 DEF Wizard!FocusIsVisible
<1>9. WizardInv'
  <2>1. Shows(form)' BY <1>1, <1>4
  <2> QED BY <1>1, <1>2, <1>3, <1>4, <1>7, <1>8, <2>1 DEF WizardInv
<1> QED BY <1>4, <1>9, NothingEdited

LEMMA WizardInit == ASSUME Wizard!Init PROVE WizardInv
<1>1. /\ wizard \in WizardSetups /\ form \in Wizard!News
      /\ scroll = 0 /\ visible = 0 /\ shown = FALSE
  BY DEF Wizard!Init
<1>2. Shows(form) BY <1>1, NewShows
<1> QED BY <1>1, <1>2 DEF WizardInv, Wizard!FocusIsVisible

LEMMA WizardStep ==
  ASSUME WizardInv, [Wizard!Next]_wizardVars PROVE WizardInv' /\ Wizard!EditIsLocal
<1>1. CASE Wizard!Move BY <1>1, MoveKeeps
<1>2. CASE Wizard!Arrow BY <1>2, ArrowKeeps
<1>3. CASE Wizard!Type BY <1>3, TypeKeeps
<1>4. CASE Wizard!Click BY <1>4, ClickKeeps
<1>5. CASE Wizard!PreloadTemplate BY <1>5, PreloadKeeps
<1>6. CASE Wizard!ResetWizard BY <1>6, ResetKeeps
<1>7. CASE Wizard!DrawWizard BY <1>7, DrawKeeps
<1>8. CASE UNCHANGED wizardVars
  <2>1. /\ wizard' = wizard /\ form' = form /\ scroll' = scroll /\ visible' = visible
        /\ shown' = shown
    BY <1>8 DEF wizardVars
  <2>2. Wizard!FocusIsVisible' = Wizard!FocusIsVisible BY <2>1 DEF Wizard!FocusIsVisible
  <2>3. WizardInv' BY <2>1, <2>2 DEF WizardInv
  <2> QED BY <2>1, <2>3, NothingEdited
<1> QED BY <1>1, <1>2, <1>3, <1>4, <1>5, <1>6, <1>7, <1>8 DEF Wizard!Next

-----------------------------------------------------------------------------
(* What is started.                                                        *)

\* A form is refused for a check it fails.
LEMMA RefusedIs ==
  ASSUME NEW f
  PROVE /\ Wizard!Refused(f) = "none" => \A i \in 1..10 : Wizard!Checks(f)[i][1]
        /\ Wizard!Refused(f) # "none" =>
              \E i \in 1..10 : /\ ~Wizard!Checks(f)[i][1]
                              /\ Wizard!Refused(f) = Wizard!Checks(f)[i][2]
<1> DEFINE checks == Wizard!Checks(f)
           I == {i \in 1..Len(checks) : ~checks[i][1]}
           i0 == IF I # {} THEN Wizard!Min(I) ELSE 0
<1>1. Len(checks) = 10 BY DEF Wizard!Checks
<1>2. Wizard!Refused(f) = IF i0 = 0 THEN "none" ELSE checks[i0][2]
  BY DEF Wizard!Refused, Wizard!SelectInSeq
<1>3. \A i \in 1..10 : checks[i][2] # "none"
  BY DEF Wizard!Checks
<1> HIDE DEF checks
<1>4. I # {} => i0 \in I
  <2>1. I \in SUBSET Nat BY <1>1
  <2> HIDE DEF I
  <2>2. I # {} => \E m \in I : \A n \in I : m <= n BY <2>1, LeastNatural
  <2> QED BY <2>2 DEF Wizard!Min
<1>5. CASE I = {}
  <2>1. Wizard!Refused(f) = "none" BY <1>2, <1>5
  <2>2. \A i \in 1..10 : checks[i][1] BY <1>1, <1>5
  <2> QED BY <2>1, <2>2 DEF checks
<1>6. CASE I # {}
  <2>1. i0 \in 1..10 /\ ~checks[i0][1] BY <1>1, <1>4, <1>6
  <2> HIDE DEF i0
  <2>2. Wizard!Refused(f) = checks[i0][2] BY <1>2, <2>1
  <2> QED BY <1>3, <2>1, <2>2 DEF checks
<1> QED BY <1>5, <1>6

\* What each check is about.
LEMMA ChecksAre ==
  ASSUME NEW f
  PROVE LET v == f.val
            checks == Wizard!Checks(f)
            emergence == v["MatchMode"] = Wizard!Emergence
        IN /\ checks[1][1] <=> v["Width"] > 0
           /\ checks[2][1] <=> v["Height"] > 0
           /\ checks[3][1] <=> Wizard!Digit(v["Threshold"])
           /\ checks[4][1] <=> (emergence => v["CanvasWidth"] > 0)
           /\ checks[5][1] <=> (emergence => v["CanvasHeight"] > 0)
           /\ checks[6][1] <=>
                 (emergence => /\ v["CanvasWidth"] >= v["Width"]
                               /\ v["CanvasHeight"] >= v["Height"])
           /\ checks[7][1] <=> v["Workers"] # Wizard!TooLong
           /\ checks[8][1] <=> v["Limit"] # Wizard!TooLong
           /\ checks[9][1] <=>
                 (v["ArtSource"] = 1 => Wizard!Trimmed(f.text["ArtFile"].value) # <<>>)
           /\ checks[10][1] <=>
                 (v["PiSource"] = 1 => Wizard!Trimmed(f.text["PiFile"].value) # <<>>)
           /\ checks[1][2] = "Width" /\ checks[2][2] = "Height" /\ checks[3][2] = "Threshold"
           /\ checks[4][2] = "CanvasWidth" /\ checks[5][2] = "CanvasHeight"
           /\ checks[6][2] = "CanvasWidth"
           /\ checks[7][2] = "Workers" /\ checks[8][2] = "Limit"
           /\ checks[9][2] = "ArtFile" /\ checks[10][2] = "PiFile"
BY DEF Wizard!Checks, Wizard!Positive, Wizard!Optional

LEMMA AcceptedSound == ASSUME Shows(form) PROVE Wizard!AcceptedIsSound
<1> SUFFICES ASSUME Wizard!Refused(form) = "none" PROVE Wizard!AcceptedIsSound
  BY DEF Wizard!AcceptedIsSound
<1> DEFINE v == form.val
           N == Nat \cup {Wizard!Blank, Wizard!TooLong}
           spec == Wizard!StartSpec(form)
           emergence == v["MatchMode"] = Wizard!Emergence
<1>1. \A i \in 1..10 : Wizard!Checks(form)[i][1] BY RefusedIs
<1>2. /\ v["Width"] \in N /\ v["Height"] \in N /\ v["Threshold"] \in N
      /\ v["CanvasWidth"] \in N /\ v["CanvasHeight"] \in N
      /\ v["Workers"] \in N /\ v["Limit"] \in N
  BY ValuesAre DEF Shows, Filled
<1>3. /\ v["Width"] > 0 /\ v["Height"] > 0 /\ Wizard!Digit(v["Threshold"])
      /\ emergence => v["CanvasWidth"] > 0 /\ v["CanvasWidth"] >= v["Width"]
      /\ emergence => v["CanvasHeight"] > 0 /\ v["CanvasHeight"] >= v["Height"]
      /\ v["Workers"] # Wizard!TooLong /\ v["Limit"] # Wizard!TooLong
  BY <1>1, ChecksAre
<1>4. /\ spec.size = <<v["Width"], v["Height"]>>
      /\ emergence => spec.canvas = <<v["CanvasWidth"], v["CanvasHeight"]>>
      /\ ~emergence => spec.canvas = <<v["Width"], v["Height"]>>
      /\ spec.threshold = Wizard!AsByte(v["Threshold"])
      /\ spec.limit = Wizard!Entered(v["Limit"]) /\ spec.workers = Wizard!Entered(v["Workers"])
  BY DEF Wizard!StartSpec
<1> HIDE DEF v, spec
<1>5. \A i \in 1..2 : 0 < spec.size[i] /\ spec.size[i] <= spec.canvas[i]
  <2>1. spec.size[1] = v["Width"] /\ spec.size[2] = v["Height"] BY <1>4
  <2>2. /\ emergence => spec.canvas[1] = v["CanvasWidth"] /\ spec.canvas[2] = v["CanvasHeight"]
        /\ ~emergence => spec.canvas[1] = v["Width"] /\ spec.canvas[2] = v["Height"]
    BY <1>4
  <2>3. /\ 0 < spec.size[1] /\ spec.size[1] <= spec.canvas[1]
        /\ 0 < spec.size[2] /\ spec.size[2] <= spec.canvas[2]
    <3> HIDE DEF emergence
    <3> QED BY <1>2, <1>3, <2>1, <2>2 DEF Wizard!Blank, Wizard!TooLong
  <2> QED BY <2>3
<1>6. spec.threshold \in 0..9
  BY <1>2, <1>3, <1>4 DEF Wizard!Digit, Wizard!Optional, Wizard!AsByte, Wizard!Blank, Wizard!TooLong
<1>7. spec.limit >= 0 /\ spec.workers >= 0
  BY <1>2, <1>3, <1>4 DEF Wizard!Entered, Wizard!Blank, Wizard!TooLong
<1> QED BY <1>5, <1>6, <1>7 DEF Wizard!AcceptedIsSound, spec

LEMMA RefusalsMended == ASSUME Shows(form) PROVE Wizard!RefusalsCanBeMended
<1> SUFFICES ASSUME Wizard!Refused(form) # "none" PROVE Wizard!RefusalsCanBeMended
  BY DEF Wizard!RefusalsCanBeMended
<1> DEFINE v == form.val
           refused == Wizard!Refused(form)
<1>1. PICK i \in 1..10 : ~Wizard!Checks(form)[i][1] /\ refused = Wizard!Checks(form)[i][2]
  BY RefusedIs
<1>2. v["SizeMode"] \in 0..3
  <2>1. "SizeMode" \in Wizard!Selects /\ Wizard!Options["SizeMode"] - 1 = 3
    BY ValuesAre, OptionsAre
  <2>2. v["SizeMode"] \in 0..Wizard!Options["SizeMode"] - 1 BY <2>1 DEF Shows, Filled
  <2> QED BY <2>1, <2>2
<1>3. v["SizeMode"] # Wizard!CustomSize => v["Width"] > 0 /\ v["Height"] > 0
  <2> SUFFICES ASSUME v["SizeMode"] # Wizard!CustomSize PROVE v["Width"] > 0 /\ v["Height"] > 0
    OBVIOUS
  <2>1. <<v["Width"], v["Height"]>> = Wizard!Presets[v["SizeMode"] + 1] BY DEF Shows
  <2>2. Wizard!Presets[v["SizeMode"] + 1] \in (Nat \ {0}) \X (Nat \ {0}) BY <1>2, PresetsAre
  <2> QED BY <2>1, <2>2
<1>4. /\ refused \in {"Width", "Height"} => v["SizeMode"] = Wizard!CustomSize
      /\ refused \in {"CanvasWidth", "CanvasHeight"} => v["MatchMode"] = Wizard!Emergence
      /\ refused = "ArtFile" => v["ArtSource"] = 1
      /\ refused = "PiFile" => v["PiSource"] = 1
      /\ refused \in {"Width", "Height", "Threshold", "CanvasWidth", "CanvasHeight", "Workers",
                      "Limit", "ArtFile", "PiFile"}
  <2>1. i \in {1, 2, 3, 4, 5, 6, 7, 8, 9, 10} BY <1>1
  <2> QED BY <1>1, <1>3, <2>1, ChecksAre
<1> HIDE DEF refused
<1>5. refused \in Wizard!Fields BY <1>4, FieldsAre
<1>6. refused # "Threshold" => refused \in Wizard!EnabledBy(form.val)
  BY <1>4, <1>5, EnabledFacts
<1> QED BY <1>6 DEF refused, Wizard!RefusalsCanBeMended, Shows

\* Two forms that agree on what is started start the same search.
Alike(f, g) ==
    /\ \A field \in {"Width", "Height", "Threshold", "Workers", "Limit", "ArtSource", "PiSource",
                     "MatchMode", "KeepGoing", "Profile", "Gpu", "Thermal",
                     "AllowDecimalPrefix"} :
          g.val[field] = f.val[field]
    /\ f.val["MatchMode"] = Wizard!Emergence =>
          /\ g.val["CanvasWidth"] = f.val["CanvasWidth"]
          /\ g.val["CanvasHeight"] = f.val["CanvasHeight"]
    /\ f.val["MatchMode"] # Wizard!Emergence => g.val["Invert"] = f.val["Invert"]
    /\ f.val["ArtSource"] = 0 => g.val["Template"] = f.val["Template"]
    /\ f.val["ArtSource"] # 0 => g.text["ArtFile"] = f.text["ArtFile"]
    /\ f.val["PiSource"] = 1 => g.text["PiFile"] = f.text["PiFile"]
    /\ g.text["Name"] = f.text["Name"]

LEMMA AlikeIs ==
  ASSUME NEW f, NEW g, Alike(f, g)
  PROVE Wizard!Refused(g) = Wizard!Refused(f) /\ Wizard!StartSpec(g) = Wizard!StartSpec(f)
<1>1. Wizard!Checks(g) = Wizard!Checks(f)
  BY DEF Alike, Wizard!Checks, Wizard!Positive, Wizard!Optional
<1>2. Wizard!Refused(g) = Wizard!Refused(f)
  BY <1>1 DEF Wizard!Refused
<1>3. Wizard!StartSpec(g) = Wizard!StartSpec(f)
  BY DEF Alike, Wizard!StartSpec
<1> QED BY <1>2, <1>3

LEMMA GreyedInert == ASSUME Shows(form) PROVE Wizard!GreyedIsInert
<1>1. Filled(form) /\ form.enabled = Wizard!EnabledBy(form.val) BY DEF Shows
<1>2. ASSUME NEW field \in Wizard!Inert
      PROVE \/ field = "AdvancedHeading"
            \/ field = "ArtFile" /\ form.val["ArtSource"] = 0
            \/ field = "Template" /\ form.val["ArtSource"] # 0
            \/ field = "PiFile" /\ form.val["PiSource"] # 1
            \/ field = "Invert" /\ form.val["MatchMode"] = Wizard!Emergence
            \/ /\ field \in {"CanvasWidth", "CanvasHeight"}
               /\ form.val["MatchMode"] # Wizard!Emergence
  <2>1. /\ field \in Wizard!Fields /\ field \notin Wizard!EnabledBy(form.val)
        /\ field \notin {"Width", "Height", "Threshold", "AllowDecimalPrefix"}
    BY <1>1 DEF Wizard!Inert
  <2> QED BY <2>1, EnabledFacts
<1>3. ASSUME NEW field \in Wizard!Inert \cap Wizard!Values, NEW x
      PROVE Alike(form, [form EXCEPT !.val[field] = x])
  <2> DEFINE val == [form.val EXCEPT ![field] = x]
             g == [form EXCEPT !.val = val]
  <2>1. [form EXCEPT !.val[field] = x] = g BY <1>1 DEF Filled
  <2>2. \A other \in Wizard!Values : other # field => val[other] = form.val[other]
    BY <1>1 DEF Filled
  <2> HIDE DEF val
  <2>3. g.val = val /\ g.text = form.text BY <1>1 DEF Filled
  <2> HIDE DEF g
  <2>4. Alike(form, g)
    BY <1>2, <2>2, <2>3, ValuesAre DEF Alike
  <2> QED BY <2>1, <2>4
<1>4. ASSUME NEW field \in Wizard!Inert \cap Wizard!Texts, NEW t
      PROVE Alike(form, [form EXCEPT !.text[field] = t])
  <2> DEFINE content == [form.text EXCEPT ![field] = t]
             g == [form EXCEPT !.text = content]
  <2>1. [form EXCEPT !.text[field] = t] = g BY <1>1 DEF Filled
  <2>2. \A other \in Wizard!Texts : other # field => content[other] = form.text[other]
    BY <1>1 DEF Filled
  <2> HIDE DEF content
  <2>3. g.text = content /\ g.val = form.val BY <1>1 DEF Filled
  <2> HIDE DEF g
  <2>4. Alike(form, g)
    BY <1>2, <2>2, <2>3, ValuesAre DEF Alike
  <2> QED BY <2>1, <2>4
<1> QED BY <1>3, <1>4, AlikeIs DEF Wizard!GreyedIsInert

LEMMA WizardInvariantHolds == ASSUME WizardInv PROVE Wizard!WizardInvariant
<1>1. Shows(form) BY DEF WizardInv
<1>2. Wizard!TypeOK BY <1>1 DEF WizardInv, Shows, Filled, Wizard!TypeOK
<1>3. Wizard!FocusIsUsable /\ Wizard!GreyedIsCurrent /\ Wizard!FocusIsVisible
  BY <1>1 DEF WizardInv, Shows, Wizard!FocusIsUsable, Wizard!GreyedIsCurrent
<1>4. Wizard!PresetIsTheSize
  <2>1. Wizard!StartSpec(form).size = <<form.val["Width"], form.val["Height"]>>
    BY DEF Wizard!StartSpec
  <2> QED BY <1>1, <2>1 DEF Shows, Wizard!PresetIsTheSize
<1> QED BY <1>1, <1>2, <1>3, <1>4, AcceptedSound, RefusalsMended, GreyedInert
        DEF Wizard!WizardInvariant

-----------------------------------------------------------------------------
\* Keys, help, palette and hit areas are those of the screen, for any rows; what the
\* wizard shows is what it means, what it accepts is sound and what it refuses can be
\* mended, for any fields, numbers, letters, sizes and heights
\* (tui/actions.rs, tui/app.rs, tui/tabs/hunt.rs).
THEOREM InputSound == Keys!Spec /\ Wizard!Spec => []InputInvariant
<1>1. InputInv /\ [Keys!Next]_(Keys!vars) => InputInv'
  BY InputStep DEF Keys!vars, inputVars
<1>2. WizardInv /\ [Wizard!Next]_(Wizard!vars) => WizardInv'
  BY WizardStep DEF Wizard!vars, wizardVars
<1>3. InputInv /\ WizardInv => InputInvariant
  BY InputInvariantHolds, WizardInvariantHolds DEF InputInvariant
<1>. QED  BY <1>1, <1>2, <1>3, InputInit, WizardInit, PTL DEF Keys!Spec, Wizard!Spec

\* A modal owns the input until it is closed, and an edit changes the field that has the
\* focus and nothing beside it, for the same.
THEOREM InputStays == Keys!Spec /\ Wizard!Spec => InputStaysWhereItGoes
<1>1. InputInv /\ [Keys!Next]_(Keys!vars) => InputInv' /\ Keys!ModalHolds
  BY InputStep DEF Keys!vars, inputVars
<1>2. WizardInv /\ [Wizard!Next]_(Wizard!vars) => WizardInv' /\ Wizard!EditIsLocal
  BY WizardStep DEF Wizard!vars, wizardVars
<1>3. (InputInv /\ [Keys!Next]_(Keys!vars)) /\ (WizardInv /\ [Wizard!Next]_(Wizard!vars))
        => [/\ side = "input" => Keys!ModalHolds
            /\ side = "wizard" => Wizard!EditIsLocal]_<<inputVars, wizardVars>>
  BY <1>1, <1>2
<1>. QED  BY <1>1, <1>2, <1>3, InputInit, WizardInit, PTL
          DEF Keys!Spec, Wizard!Spec, InputStaysWhereItGoes
=============================================================================
