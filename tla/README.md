# A TLA+ model of pi-casso

pi-casso searches the digits of π (or any digit source) for windows that look like a picture. The interesting part of the
program is not the scoring: it is a pipeline of threads that share one memory and CPU budget, a generator of digits that runs
ahead of the search, a digit cache on disk that several processes may extend, and a database row from which a search can be
resumed after any interruption. This directory holds TLA+ modules that model those parts, TLC configurations that check small
instances, and TLAPS proofs for the parts where the argument does not depend on the instance.

Paths below are relative to the repository (`src/search/engine.rs`). `PROJECT.json` maps every definition to the lines it
translates.

## 1. Inventory

| Component | State it keeps | Operations | Correct when |
|---|---|---|---|
| Resource budget (`src/search/session/resource_budget.rs`, `cpu.rs`, `leases.rs`) | six counters under one mutex, one condition variable | acquire chunk / CPU / GPU / generator, plan a generation batch, reserve reader memory, drop a lease | limits are never exceeded, counters equal the leases, no wakeup is lost, no caller waits for what can never be released |
| Search pipeline (`src/search/session/pipeline.rs`, `pipeline/reducer.rs`, `pipeline/worker/*.rs`) | producer, backend and reducer threads, two bounded channels, a reorder map, a stop flag | cut chunks, reserve, read, score, reorder, apply, conclude, join | every window applied once and in order; bounds exact; ends only for the reason it reports |
| Search engine and session (`src/search/engine.rs`, `session.rs`) | the run record in memory, best, top matches | start, commands, record a best, checkpoint, finish | a crash, stop or error leaves a row from which nothing is missed |
| Run storage (`src/storage.rs`) | SQLite: one row per run, best events | open and migrate, create, resolve, checkpoint, insert event, full write, delete | an event precedes the row that relies on it; a database of any age opens; no process loses another's run |
| Pi producer (`src/pi/producer.rs`) | demand slot, epoch, cancellation epoch, sticky error, waiters | request, prefetch, run an epoch, cancel, shut down, resume | no demand forgotten, no false answer, every caller answered, shutdown joins |
| Digit cache (`src/pi/cache_publication.rs`, `cache_publication/snapshot.rs`) | digit file, sidecar, previous pair, staged files | append, replace, repair, read a range, inspect | a reader never returns digits that were not published; a crash at any step is recoverable |
| Writer lock (`src/pi/cache_publication/lock.rs`) | lock file with the owner's record, `flock`, a process-wide mutex | acquire, observe, recover a dead owner's lock, release | one writer at a time; a dead owner never blocks for ever |
| Cache growth (`src/pi/producer.rs:600`, `src/pi.rs`) | the cache as several processes extend it, a resident spigot | read the count, compute a batch, append | position n of the cache holds digit n of π |
| Reader pool (`src/search/session/source_reader*`) | worker threads, per-request buffers | read a chunk in parts, assemble | order preserved, every failure reported once |
| File sources (`src/digits.rs`) | a shared cursor and a cached length, each under a mutex of its own | read a range, count, validate, import into the cache | a read returns the digits at its offset whoever read before; an import is whole or changes nothing |
| Scoring and top matches (`src/search/scoring.rs`, `src/search/backend.rs`) | none | score, compare, merge, compute an accelerator's answer again | merging in parts equals ranking the whole; every backend chooses the same candidate and reports the same score |
| GPU ring (`src/gpu.rs`) | a ring of buffer slots, a channel of callbacks | upload, score, read back, reduce | every window's score in its place; no callback blocks; slots reused only when free |
| GPU duty policy (`src/performance.rs`) | a token bucket | wait, charge | the accelerator is busy for no more than the percentage asked for |
| Run settings (`src/commands/hunt.rs`, `src/search/backend.rs`) | the snapshot stored with the run | choose a backend, merge options, checkpoint, resume | what was asked for runs, and every run can be resumed |
| Resource limits (`src/performance.rs`) | the limits of a search, the snapshot of any version | profile, thermal mode, options, keys, encode, decode | limits can be stored, read back and run with; nothing another version stored is lost |
| pi generate (`src/commands/pi.rs`, `src/pi/y_cruncher.rs`) | the program, its output directory, the cache | resolve, validate, launch, import, fall back | the cache grows by digits of π only, and every digit is accounted for |
| Configuration (`src/config.rs`, `src/tui/tabs/settings.rs`) | one TOML file, the form that edits it | load, preview, save | a save that is interrupted leaves a file that can be read; what was typed is not forgotten |
| CUDA (`src/cuda*.rs`, `src/search/cuda_backend.rs`) | device buffers | choose a kernel, launch, answer | an answer the host cannot confirm is not used |
| TUI session (`src/tui/app.rs`, `src/tui/mod.rs`, `src/tui/worker.rs`, `src/tui/tabs/runs.rs`) | screen state, the search it started, the list of runs | keys, commands, snapshots, quit | a running search is never abandoned; what is shown is stored |
| TUI input, forms and frames (`src/tui/app.rs`, `input.rs`, `form.rs`, `tabs/*.rs`, `toast.rs`, `mod.rs`) | modals, focus, the wizard's form, hit areas of the last frame, toasts, the dirty flag | keys, clicks, wheel, draw, wait | input goes to what is in front; what the wizard accepts is what it shows; a change reaches the screen |
| Argument parsing, rendering, art, benchmarks, telemetry | none that outlives a call | parse, print, measure | pure I/O |

How they interact. The producer reads digits from a source, asks the pi producer for more when they run out, takes a chunk
lease from the budget, and sends chunks over a bounded channel; the backend thread scores them with CPU and GPU permits of
the same budget; the reducer applies them in offset order, writes the database and drops the lease. A stop flag, shared by
all, is set by Ctrl+C, by a stop command and by the reducer. The pi producer takes memory and CPU of the same budget for
each batch and appends through the cache's writer lock; every reader of the cache works without the lock, from snapshots.

Hard behaviour: a stop while somebody waits; bounded channels that close in the wrong order; leases that must be back before
somebody looks; writes that a crash separates; demands coalesced into one slot; two processes that extend one file; two
renames that ought to be one. `PROJECT.json` lists them under `hazards`, each at its line.

## 2. Modules

| Module | Models | State ↔ code | Actions ↔ code |
|---|---|---|---|
| `ResourceBudget` | `resource_budget.rs`, `cpu.rs`, `leases.rs` | the six counters of `BudgetState`; `phase` says where each caller is around the condition variable | `Call`, `PlanAndCall`, `ReserveReaderCapacity` (a caller asks, or is refused), `Grant`, `Sleep`, `SpuriousWakeup` (one turn of an acquire loop under the mutex), `Release` (a lease's `drop` with its `notify_all`) |
| `GenerationPlan` | `plan_generation`'s arithmetic | none | used by `ResourceBudget` and `PiProducer` |
| `SearchPipeline` | `engine.rs`, `session.rs`, `pipeline.rs`, `reducer.rs`, `worker/*.rs`, the three writes of `storage.rs` | the three threads' program counters, both channels, the reorder map, the stop flag, the run in memory (`run`) and on disk (`row`, `history`) | one action per step between two points where another thread can see the difference; `Crash` keeps `row` and `history` only |
| `SequentialScan` | nothing in the code: the promise of the database row | offset, best, status | `Record`, `Improve` |
| `PiProducer` | `pi/producer.rs`: `request`, `prefetch`, the worker, cancellation, shutdown | `ProducerState` field by field | an action is what a thread does between two points where it does not hold the mutex |
| `CacheGrowth` | `run_epoch`, `generate_to_target`, `publish_builtin`, `pi generate` as several processes use them | the cache as positions of π, sessions, commands | a batch is computed, published, imported |
| `CachePublication` | `cache_publication.rs`, `snapshot.rs` | raw file, sidecar, backup pair (text, inode, version), the writer's place, the reader's snapshot | one action per file operation that a crash or a reader can separate |
| `WriterLock` | `cache_publication/lock.rs` | the lock path, inode texts, `flock` owners, the process mutexes | one action per system call |
| `DigitReader` | `source_reader.rs`, `source_reader/path.rs` | the pool's free slots, each slot's buffer, position and cached digits; the history field `skipped` says that a slot moved past a byte it did not accept | checkout, skipping, refill, the lease's drop |
| `FileSource` | `FileDigitSource` in `digits.rs` | the shared cursor and length, the staged copy, the cache, one call per thread | a read takes the cursor, scans, gives a cursor back; validate, copy, publish, clean up |
| `DigitText` | `parse_source_byte` | none | the bytes of a text by kind, and what the text says: the digits up to the first byte that does not fit, and slices of them; used by both readers |
| `SharedPools` | puts `ResourceBudget`, `DigitReader` and `FileSource` next to each other | theirs | theirs |
| `DutyPolicy` | `GpuDutyPolicy` in `performance.rs` | the bucket (hundredths of ms), the clock | wait for admission, record a submission |
| `GpuRing` | `GpuSearchEngine::run_batch` in `gpu.rs` | slots, pending batches, the callback channel, the device's queue | fill, submit, poll, map, reduce, close; the device works by itself |
| `ChunkScorer` | nothing in the code: what `GpuRing` promises the backend thread | a chunk and its answer | |
| `EmergenceScan`, `EmergenceScore` | the CPU's comparison and the shader's rank table; the score in exact arithmetic | the window, both best candidates | one candidate per step |
| `WindowScores` | `scoring.rs`, `backend.rs`, the candidates of `gpu.rs` and the CUDA kernel: the scores of one chunk | the search's target, mode and digits, the active backend, its answer | the pool scores a window, an accelerator answers or fails, the host computes again, the CPU takes over |
| `RunSettings` | `commands/hunt.rs`, `backend.rs`, the settings side of `engine.rs` and `session.rs` | stored snapshot, live settings, resolved backend, host | start, wizard, resume, launch, keys, checkpoint |
| `ResourceLimits` | `performance.rs`, the keys of `engine.rs`, the options of `commands/hunt.rs` | limits, thermal mode, worker permits, the stored object with what others put into it | start, resume, checkpoint, one action per key |
| `GenerateCommand` | `commands/pi.rs`, `pi/y_cruncher.rs`, `pi/generator_*.rs` | the request, the executables on disk, the program's text, the cache, the command | resolve, count, launch, end or failure of the program, import, fallback, which may fail too; another process replaces a file or appends |
| `RunStore` | `storage.rs` with its callers in `engine.rs`, `session.rs`, `commands/` | committed rows, events and columns; the open transaction; where each process is | one action per statement or transaction; `Crash` anywhere |
| `ConfigFile` | `config.rs`, `tui/tabs/settings.rs` | inodes at the path and at the temporary path; each session's configuration and form | load, edit, open, write and rename the temporary file, each of which may fail, die |
| `TuiInput` | `tui/app.rs`, `tui/input.rs`, `tui/palette.rs`, the keys of the tabs | tab, modals, focus, selection (`ui`), and what the last frame drew (`drawn`) | a key, a click, a turn of the wheel, a frame |
| `HuntWizard` | `tui/tabs/hunt.rs`, `tui/form.rs` | the form's fields, focus and text, the panel's scroll | a key or a click on the form, preload, reset, draw |
| `FrameLoop` | `tui/mod.rs`, `tui/toast.rs`, the frame policy of `performance.rs` | toasts with their age, the dirty flag, the time since the last frame | one iteration, the wait, an event |
| `TuiSession` | `tui/app.rs`, `tui/mod.rs`, `tui/tabs/runs.rs`, `tui/worker.rs` | event loop turn, list, selection, dialog, worker handle, search threads, rows | one action per key or poll, one per step of the search thread |
| `InterfaceState` | puts `TuiSession`, `RunStore`, `ConfigFile`, `FrameLoop`, `ResourceLimits`, `TuiInput` and `HuntWizard` next to each other | theirs | theirs |

`*Proofs` modules hold the theorems, `MC*` modules the instances for TLC.

Conventions.
- A `setup` variable is chosen once, in `Init`, from a constant set of records and never changes: one TLC run covers several
  small scenarios (which calls are made, which failures may happen, how often).
- `MCSharedPools`, `MCGeneration`, `MCSearchLive`, `MCBackends` and `MCInterface` put components that share no state in one
  model: a variable `side` says whose behaviour it is, the other components rest in an initial state. Nothing is interleaved
  that the code does not interleave, and each component's properties are checked on its own behaviours. `InterfaceState` holds
  the sides of `MCInterface` and `SharedPools` those of `MCSharedPools`, so that they can be proved about;
  `MCBackends` is proved about itself, for any constants. `MCWriterLock` has the cache's growth beside the lock, at rest.
- Assumptions on constants are an operator of the module that declares them (`LockConstants`, `StoreConstants`,
  `ConfigConstants`, `ReaderConstants`, `FileConstants`) where the module is used through `INSTANCE`; the module that instantiates it assumes it, and TLC evaluates
  it there.
- A definition `X_Fault` next to `X`, commented as a seeded fault, is the definition as a plausible mistake would have it. No
  specification uses it; putting it in place of `X` makes TLC find the violation of one property, which shows that the
  property depends on that piece of code. `PROJECT.json` lists the pairs under `mutants`.
- Names of states, fields and operations are the source's where TLA+ allows it.

## 3. Runs

| Run | Module | Question |
|---|---|---|
| `shared_pools` | `MCSharedPools` | Do limits, accounting and wakeups of the budget, the digits, slots and wakeups of the reader pool, and the cursor and imports of a shared file, survive every interleaving and every failing file? |
| `pipeline` | `MCSearchPipeline` | Is what the threads leave in the database always that of a sequential scan, and does the search end for the reason it reports? |
| `generation` | `MCGeneration` | Is no demand forgotten and every caller answered? Does a `pi generate` command import digits of π only, whatever programs do? |
| `cache_growth` | `MCCacheGrowth` | Is the cache that several processes extend always a prefix of π (under the conditions below), and does every epoch that counts its own digits end? |
| `cache` | `MCCachePublication` | Does what was published survive a death between any two file operations, and does a reader without the lock ever see anything else? |
| `writer_lock` | `MCWriterLock` | Is there one writer, however many processes race for the file of a dead one? |
| `search_live` | `MCSearchLive` | Does a bounded search end, and a stop end an endless one? Does the bucket bound the busy time and every wait, and is the answer of the ring, whatever the device does, in its place? |
| `backends` | `MCBackends` | Do CPU and shader choose the same candidate, is the answer for a chunk the same from every backend, and are the settings of a run honoured from start to resume? |
| `interface` | `MCInterface` | In a session of the TUI, is no search abandoned, what is shown stored, and who asks to quit out in the end? Do database, configuration file and stored limits survive other processes, other versions and deaths? Do keys, clicks and forms do what the screen shows, and is the screen up to date? |
| `pipeline_stop_waiting`, `growth_two_writers`, `settings_toggle` | | Three statements of the repository that the code does not keep (section 6) |

Bounds, and why they are enough to see the interesting cases:

- *Resource budget*: three callers, one queue slot, two CPU permits, ten bytes; chunks of 3 and 6, a reader of 5, beside which the second does not fit. Two
  requests always compete for the same resource while a third sleeps, and the reader's permanent share makes a request wait
  for as long as the session lives. Leads of 1 and 4 give a one-window and a larger generation batch.
- *Reader pool*: two threads on one slot (they wait for each other, files fail to open, seek and read), two threads on two
  slots (each slot remembers the other thread's reads), one thread over eight texts with every kind of damage. Reads of up to
  three digits through a buffer of two bytes: reads cross buffer boundaries.
- *File source*: two threads and one file of up to five bytes that grows by one digit or turns invalid; reads that overlap, go
  back, skip and pass the end; imports with a failure at every step, and without any.
- *Pipeline*: five windows of two digits in chunks of two, so chunks are full, cut and last; two channels of two; two
  invocations, so that every end is followed by a resume; up to two commands. Score tables with ties, an improvement inside a
  chunk, across chunks, at the start, in the last chunk, none. `Failing` adds crashes at any step and failing storage, search
  and source; `Growing` adds the generator, a limit and a maximum offset that cut different chunks.
- *Search, live*: a limit of two windows over a source that grows, one command, a backend that may be lost when it is rebuilt;
  and a single window for which digits must be generated, with two commands.
- *Generation*: two callers with targets 3 and 5, two requests each (in all), one cancellation, a start that is paused, leads
  0, 2 and 9 (nothing fits, part fits, all fits). Command: every choice of backend, with a path and without, executables in
  two places of which one may be replaced, a cache of no or one digit, one append by another process.
- *Cache growth*: two importers and a command; one resident spigot that may be cut short; one built-in generator with a
  command; targets of up to 3 and 5 digits, two or three epochs, one append that fails.
- *Cache*: up to four writing calls on a cache of two digits with one death, or three deaths if nothing is imported, or a
  reader of two ranges with two attempts, or one damaged digit with forced repairs. Eight inode versions never run out.
- *Writer lock*: three processes, one of them with two threads, two deaths, one failing call, four inodes (symmetric;
  a fifth adds no state): two takeovers of the same dead file overlap with a release.
- *GPU*: three slots; batches of two or three windows, chunks of up to nine: the ring wraps around; every read-back order;
  refusals, failed mappings and the loss of the device at any step. Duty: 50 %, 3 s of simulated time, chunks of 150, 700 and
  1000 ms, gaps of 0 and 333 ms.
- *Backends*: three candidates with shapes of three pixels on a background of two, every count. Settings: every selection of
  backend, GPU mode and adapter at start and resume on every host; every option; every key. Chunks: five targets (with and without background, as wide as the canvas, without a shape) on
  canvases of up to six digits, texts of two or three digits over two windows, which makes ties between digits and between
  placements, both inversions, every failure and every wrong answer that the host can number.
- *Interface*. Store: two processes with one death on a database of an earlier version, on none, with two hunters of one run,
  with a run that is deleted while it is hunted and its name given away. Configuration: two sessions, two saves, one death.
  Input: every tab, modal, focus and key, lists of one row, a frame that is older than the state. Wizard: six
  setups that each free the fields that depend on one another; numbers at, below and beyond their bounds (the largest
  integer is 511, so that `as u8` and overflow both occur); panels of 0, 2, 5 and 30 rows. Frames: two pairs of intervals,
  three toasts of which two fit. Limits: three cores, options at and below their bounds, fourteen stored objects of
  other versions or with wrong types, two keys.
- *TUI*: one stored run and a new one, two searches, deletions and a failing database; or a search handed over at the start,
  a failing terminal and another process that may finish the run. No bound on the number of keys except that each action has
  a guard of its own.

Deadlock is not checked (`CHECK_DEADLOCK FALSE`) because every model may end: a search is over, a session is left, callers
have made their last request. What must not stop is stated as a liveness property or as an invariant about sleepers.

## 4. What the properties say

Properties are conjunctions of named parts where several parts describe one thing; the parts are stated one by one, with
their comments, in the component's module.

- *Budget.* `WithinLimits`; `BudgetInvariant == AccountingExact /\ DrainedBudgetAdmitsEveryone` (every counter is the sum over
  outstanding leases, so no saturating subtraction ever hides a mismatch; once only readers hold leases nobody waits, except
  for a chunk that does not fit beside them, `Crowded`); `NoLostWakeup` (nobody sleeps while its condition is true).
- *Readers and files.* `PoolInvariant`: slots are conserved on error paths, nobody sleeps beside a free one, `LeasesAreExact`
  relates the digits a lease shows to the text as a whole (`DigitBytes`, `IsSlice`), written independently of how the reader goes
  about it. It excepts one case: a slot that moved past an invalid byte and was not rewound since, which takes a file that is not
  valid and an error that a caller was told (section 6);
  `FileInvariant` the same for a shared file with its cursor, and that an import is whole or leaves the cache alone.
  `WaitersMoveOn` is the liveness of both pools.
- *Pipeline.* `ScansSequentially`: every behaviour of threads, channels, crashes and resumes implements `SequentialScan`.
  `ResultsAreSound == RowIsSound /\ TopMatchesExact`: what a resume relies on, and that merging per chunk equals ranking
  everything. `EndsForItsReason`: limit, exhaustion and a perfect match are reported exactly when they happened, and
  (`EndsWithoutError`) channel ends and leases are dropped in an order that never turns a good search into an error.
  `SearchComesToItsEnd == SearchEnds /\ StopCommandEndsSearch`.
- *Producer and growth.* `ProducerInvariant`: a sleeping caller is covered by a queued or running demand of at least its size,
  an answered one has its digits, a worker does not sleep beside work. `ProducerServes == EveryCallerAnswered /\
  ShutdownJoins`. `GrowthInvariant`: position n holds digit n when every text is validated against the cache, or when there is
  a single writer that loses no batch (`GuardedCacheHoldsPi`). `CommandInvariant`: what one `pi generate` command launches,
  imports, counts and leaves behind.
- *Cache.* `PublicationIsKept`: a read is a slice of one publication (`ReadsArePublished`), a repair leaves the publication
  last committed (`RepairRestoresCommitted`), nothing else is ever published (`OnlyCommittedIsPublished`). `WriterInvariant`:
  what a call published can be read when it returns, and after every death a repair goes through, without force
  (`Recoverable`) or with it although digits are missing (`ForceRecovers`). The condition `Undisturbed` of some of them names
  the case of section 6: nobody cut digits off the file, and no writer wrote over what a dead import had left (`overlaid`, a
  history variable of the model).
- *Lock.* `MutualExclusion`, `OwnerKeepsLock`, `LiveLockRespected`.
- *GPU.* `SteadyRatioIsBounded` is what the unit test of the policy asserts of one schedule, here for all; `WaitIsBounded`
  bounds how long the backend mutex is held; `ScoresEveryWindowInOrder` is the refinement of `ChunkScorer`; `RingInvariant`
  that no callback can block on the channel its own thread empties, that what was reported can be read, and that the next slot is free.
- *Backends.* `BackendsAgree`; `ScoreIsSound`: a score of one is a perfect digit and leakage is a loss, and (`ChunkInvariant`)
  every window of a chunk has the score a reference definition gives it, whoever computed it and whatever failed on the way;
  no placement beats it, its bitmap shows it, and a million millionths is a perfect match unless the target is huge (section 6);
  `RunsResume`; `ChoicesAreHonoured`: the host may change between the preflight and the construction of the backend, and what
  runs then is said for each case (`EngineIsTheResolved`); the preflight itself never puts the CPU in the place of a named
  accelerator (`StrictIsStrict`).
- *TUI.* `SessionInvariant`, `RowsShownAreTrue`, and `SessionServes`, that is `RequestsTakeEffect == QuitEnds /\ PauseFlagSettles`.
- *Interface.* `StoreInvariant` (what every row, event and column says after any statements of any processes) and
  `StatementsAreSafe` (what no statement may do to the rows others work on); `ConfigInvariant` (the preview is the form,
  a clean form is a saved one) and `InterruptedSavesLeaveAFile`; `InputInvariant` (help, palette and hit areas are those of
  the screen, Ctrl+C works in every modal; of the wizard, `WizardInvariant`: the form means what it shows, and only what is
  shown can refuse it) and `InputStaysWhereItGoes` (a modal owns the input, an edit changes one field); `FrameInvariant` (what changed is
  on the screen in time, toasts are few and distinct); `LimitsInvariant` (limits are what was asked for, within what can be
  stored and read back) and `KeysAct` (each key moves what it names in the direction it names and nothing else: a larger chunk is
  always larger, a smaller one stops at one window, workers go one at a time between one and the permits of the start, a profile
  asks for no less than the one below it, three presses of the thermal key are none; and a checkpoint keeps what another version
  had stored).

Fairness, and why the code justifies it:

- *Pipeline, producer, TUI threads*: weak fairness of each thread's step: they are operating-system threads that block only
  where the model blocks them. The generator is fair as long as it is asked; commands, interrupts, crashes, failures and keys
  never are.
- *Budget*: weak fairness of a caller's turn and of the release of a lease: leases are values that their threads drop. Nobody
  is obliged to ask.
- *Readers*: a read that has a slot goes on; endless failing is not assumed away but cannot happen, because every failure ends
  the read.
- *GPU*: the host thread and the device step; the device finishes its jobs or is lost.
- *Growth*: an epoch that began is carried on by its worker; a command that holds the lock goes on.
- *Interface*: no fairness; its properties are invariants and action properties.
- *TUI*: the user is never obliged to do anything. `PauseFlagSettles` says: either the user toggles for ever, or the pause
  shown is right again and again.

## 5. Proofs

Proved by TLAPS for all values of the constants (under the named assumptions of the modules):

- `SharedPoolsProofs`, about the three parts of `SharedPools`. The budget: `TypeCorrect`, `LimitsHold`, `WakeupsNotLost`, `LeaseAccountingExact`,
  `BudgetAccounted`, and about the plan `PlannedReservationFits` (a planned batch never asks for more than there is) and `PlannedBatchAdvances`.
  Assumptions: positive limits, finitely many callers, sizes are natural numbers. The first four are inductive once types are
  known; `NoLostWakeup` is because every release notifies everybody and a grant can only make conditions false
  (`GrantKeepsOthersOut`). `BudgetAccounted`, that is `BudgetInvariant`, needs to know what those who wait have asked for
  (`Asking`: a request that was not refused; a planned batch fits beside the readers, because they are part of what was
  reserved when it was planned), and what a sum over a finite set is: the fold of the community modules is a `CHOOSE` of a
  recursive function, of which the lemmas from `SumsAgree` to `SumTakesOff` show that it exists, is unique and that any element
  may be taken off. Induction over a set is done without an operator as parameter, by a smallest counterexample (`LeastSet`,
  from the well-foundedness of strict inclusion between finite sets).
  The readers and the file: `PoolsSound` (`PoolInvariant`), for any threads, slots, texts, read lengths, buffer sizes and
  failures. Of the reader pool the invariant says (`ReadersIInv`) that each slot is free once or in one hand
  (`SlotsInvariant`); that while anybody sleeps there are as many callers on their way as there are free slots
  (`WakeupInvariant`, which is why one `notify_one` per returned slot is enough); that position, buffer, parser and cached
  digits of a slot agree on one place in the text (`StandsAt`), unless it has `skipped`; how far the read in each hand is
  (`UseInvariant`); and that a slot has skipped only on a damaged file and after a failure (`SkipsInvariant`). Of the shared
  file (`FilesIInv`) it says that every cursor, shared or in a thread's hand, stands before the digit it counts (`AtDigit`), that
  what is staged or cached is all digits of some version of the file (`WholeDigits`) and that the length is one that the file
  had. A file that grows keeps its cursors right (`TextGrows`). The loops over a file are `CHOOSE`s of recursive functions;
  that they exist, go on byte by byte and end at the first digit or error is proved by a smallest counterexample
  (`LoopExists`, `LoopGoesOn`, `LoopEnds`, from `LeastNatural`). The proof found that `LeasesAreExact` needs the exception above.
  Assumption: `PoolsAssumption` (finitely many threads and slots, setups of their types, a buffer of at least one byte, files
  only grow, what the cache held before is none of the file's).
- `SearchPipelineProofs`: `Invariance`, `ThreadsAgree` (`PipelineInvariant`), `ResultsSound` (`ResultsAreSound`), `EndsTold`
  (`EndsForItsReason`) and `Sequential` (`ScansSequentially`), for every text length, chunk size, depth of the channels,
  number of matches kept, score function, and any setup and faults. The inductive invariant says where each chunk is: those on
  their way are adjacent stretches of windows between the reducer's offset and the producer's, cut at three points (reducer,
  reorder map and results, backend and chunk channel); the database row trails the run record by at most the one improvement
  that the reducer has under way; the matches kept are the first of the ranking of all windows applied (`Best`, a set of
  offsets with fewer than `TopN` before each). Refinement: `Effect` lemmas say what each action does to the row, and each is a
  `Record`, an `Improve` or nothing.
- `CachePublicationProofs`: `Invariance`, `WriterSound` (`WriterInvariant`) and `PublicationKept` (`PublicationIsKept`), for
  every text, batch, import, number of deaths, failing calls and readers. What is read without a lock is right because a
  version of a file tells its text: a reader that sees the same inode and version twice saw one text. Of the writer the
  inductive invariant says, for each point of a call, which of the two files and of their backups are which publication, and
  that from each of these points a death leaves a way back (`WayBack`). Conditions are those of the properties (`overlaid`,
  `damage`).
- `CacheWriterProofs`, about those who write the cache. The lock: `LockTypeCorrect`, `OwnerKeeps`, `OneOperationAtATime`,
  `LiveLocksAreRespected`. Mutual exclusion is not inductive: a thread that found a dead owner may hold an open file that has been removed since. The inductive invariant adds
  `FoundDead` (a dead owner stays dead), `Takeover` (an open file that is no longer the lock file does not name the dead owner
  any more), `Locked` and `Mine`. Assumptions: `LockAssumption`; process identifiers are not reused, all processes share a pid
  namespace. The growth: `GrowthCorrect`, that is `GrowthInvariant` of `CacheGrowth` for any number of sessions and commands.
  `GuardedCacheHoldsPi` is not inductive: of a lone writer one must know that what it remembers (its count, its batch, its
  resident generator) goes on where the cache ends (`GoesOn`, `LonerGoesOn`), of validated writers that nothing else is ever
  published (`Backing`), of commands that the one with the lock counts what is there (`LockHolders`); `EpochKeepsPromise`
  rests on counts that never run ahead of the cache (`CountsFollow`). `PiGoesOn` and `ContinuationIsPi` say what appending
  does to the digits, one lemma per action (`BeginEffect` to `ImportEffect`) what it does to a session. Assumptions
  (`UseAssumption`): finitely many processes, a natural number as initial length, setups of `SetupType`.
- `SearchLiveProofs`, about the two accelerator sides of `MCSearchLive`. Duty: `TypeCorrect`, `WaitsAreBounded`, `DutyBounded`,
  `SteadyRatioBounded`, the last two for chunks no longer than the window. The inductive invariant is a ledger: what was
  charged, what was earned and what the bucket holds add up. Ring: `RingSound` (`RingInvariant`) for every depth, hardware and
  buffer limit and every failure, and `AnswersExactly`, the safety part of the refinement of `ChunkScorer`. Here too a ledger
  is needed, of the batches: those in flight are the last ones cut off the chunk (`Batches`), the device's jobs are the
  youngest of them (`Jobs`), a slot is done only when its batch is no longer a job and then holds its windows (`Held`), every
  report is of one batch in flight (`Reported`), and what was collected is what lies before the oldest (`Collected`). That two
  batches less than a ring apart never share a slot is `SlotsDiffer`; that callbacks find room is an injection of the reports
  into the slots that do not wait to be mapped. Assumptions: `RingAssumption`, `PolicyAssumption`.
- `EmergenceScanProofs`: `ScanInvariant`, `TypeCorrect`, `ShaderFindsFirstBest`, `BackendsAgreeAlways`, for every score
  function into the natural numbers that is positive where something is covered: the weights, the rounding and the ties do
  not matter. The rank table is shown to be strictly monotone in the comparison the CPU makes (`RankOrder`, by
  cardinalities), the rest is an induction over the candidates. This is about the wgpu shader; the CUDA kernel ranks scores
  cut to millionths, and what is proved of it is that the host lets nothing wrong pass (`ScoreSound`). And about the settings of `MCBackends`: `SettingsAlways`, `RunsResumeAlways`
  (`RunsResume`) and `ChoicesAreHonouredAlways` (`ChoicesAreHonoured`), for any hosts, options and keys. Inductive is
  (`SettingsInv`) that the stored settings, and those the search would store next, are a legal pair of backend and GPU mode
  for which the host of the last preflight has a backend, unless the g key was pressed. The conditions `toggled`, `emptied` (a
  resume was given chunks of nothing) and `defaulted` (a run without a snapshot was resumed) are history variables, and name
  the cases of section 6. Assumption: `SettingsAssumption`.
  And about what a score means: `ScoreSound` (`ScoreIsSound`), for any targets, canvases, modes, thresholds, texts and number of
  digits, and for windows of any number of candidates under the exact score (`Score = MCScore`). Inductive is (`ChunkIInv`)
  that every score kept or passed on is that of `CandidateWindow`, whatever CUDA transports; the rest is what such a score is.
  Plan and reference count alike because both are renamings of the pixels hit (`Hits`; `OffsetsDiffer`, `PlaceInRows` and
  `RowsOfPlace` are the arithmetic of rows, `SameCount` the bijection). The weighted terms are integers because every count of
  clean pixels divides the common denominator (`CleanMultipleDivides`); from that `ScoreBounds`: at most one, one only for a
  perfect digit, otherwise the tenth part of a pixel less at least, positive where something is covered, falling with leakage.
  The scan keeps a score that none beats (`BestOfAll`), and it is not the empty one, because the digit under the first pixel of
  the shape covers something (`SomethingIsCovered`). The factorial and the scan are recursive functions, which are shown to
  exist step by step (`StepsExist`) and induced over by their smallest counterexample (`LeastNatural`). Assumptions:
  `ScanAssumption`, `SearchesAssumption` (what `Bitmap::new` and the check of the canvas in `session.rs` let through).
- `GenerationProofs`, about the two sides of `MCGeneration`. The producer: `TypeCorrect` and `ProducerCorrect`, that is
  `ProducerInvariant` for any number of callers, demands,
  leads, batches, failures and cancellations. That a sleeper is covered is not inductive: a caller that was woken and has not
  tested yet must be covered too (`WaitersCovered`, whose third case is an epoch nobody has cancelled), which rests on what a
  sleeper last saw (`SleepersUpToDate`), on cancellations counting up (`EpochsPassed`) and on what an epoch has planned and
  published (`EpochState`). `CallerFrame`, `OthersAtMostWoken` and `WaitsForAReason` say once what a caller's step does to the
  shared state, to the other callers and to itself; each part of the invariant is then a lemma of its own. The count of
  waiters is by cardinality of a finite set. Assumptions: finitely many callers, targets are positive natural numbers.
  The `pi generate` command: `CommandCorrect`, that is `CommandInvariant` of `GenerateCommand`, for any requests, files at the
  two places, digits that were there, replacements and foreign appends. It is not inductive: that a name given explicitly is
  obeyed needs that the fallback is entered by `auto` only and never left for a program again (`Selection`); that the digits
  asked for are there needs the count the target was made of (`Counting`); that an import adds only digits of π needs what the
  program may have left in the directory (`Directory`) and that the file chosen is the first with more digits than there were
  (`ChosenIs`). `FailedIs` and `FailureAccounts` say once what each of the failures does. Assumption: `CommandAssumption`, the
  types of the constants.
- `InterfaceProofs`, about the parts of `InterfaceState`. The session: `SessionSound` (`SessionInvariant`) and `RowsTrue`
  (`RowsShownAreTrue`), for any runs, inputs, failures, handed-over searches and number of searches. What makes them inductive
  is `Workers` (only the thread of the handle still runs, and the interface has heard of an end only from it) and
  `EndIsStored` (the row says how the search ended from before the thread announces it until the interface has heard). That is what the order of the code is for: write before send, join before forget.
  The database: `StoreSound` (`StoreInvariant`) and `StatementsSafe` (`StatementsAreSafe`), for any processes, runs, names,
  scores and databases to begin with. Rows alone are not enough: of each process at work the invariant says what it has in
  memory of its run (`MemoryIsAPrefix`: a scan from the start whose records are stored; `MemoryIsTheRow`: the row, if no other
  process hunted the run; `PriorIsCurrent`: the parameters it is about to merge into), that the open transaction has its row
  (`TransactionHasRow`), that a run that was not shared has one hunter (`HuntersAreAlone`), and how far it is with the
  migration (`TablesAreThere`, `RowsAreMigrated`: a row of an earlier version has the defaults of just those columns that were
  added). `ScanGoesOn` and `ScanImproves` say what a window does to a best and to the records before it.
  The configuration: `ConfigSound` (`ConfigInvariant`) and `SavesLeaveAFile` (`InterruptedSavesLeaveAFile`), for any sessions,
  themes and numbers typed. A save that is alone has the temporary file for itself, empty until it is written and whole from
  then on (`LoneSaveIsWhole`), and that file is never the one at the path (`TempIsApart`).
  The frames: `FrameSound` (`FrameInvariant`), for any intervals, lifetimes and number of toasts. `FrameInv` adds that what is
  not on the screen asks for a redraw, that a loop that waits ends its wait before the frame is due, and that nothing has been
  stale for longer than the last frame is old. How toasts are pruned is a recursive function, of which the proof needs only
  where it stops: the first toast that lives (`ScanExists`, by a smallest counterexample).
  The limits: `LimitsSound` (`LimitsInvariant`) and `KeysActAlways` (`KeysAct`), for any machines, options, keys and stored
  objects. `LimitsInv` adds that what is stored is what was there or what this version wrote, and that the limits of a running
  search can be stored unless options of a resume have spoiled them. The proof found two things that had been stated too
  strongly: a key `settings` of another version is not kept, and `checkpoint_every_secs` is one that this version does not know.
  Where input goes, and the wizard: `InputSound` (`InputInvariant`) and `InputStays` (`InputStaysWhereItGoes`), for any rows,
  letters, numbers, sizes and heights of the panel. Of the screen the invariant says (`InputInv`) that help, palette and dialog
  exclude one another, that the palette has the context of what is behind it, and that what a frame drew is what there is
  unless a redraw is due. Of the form (`WizardInv`) it says that it is up to date (`Shows`): values are of their fields' kinds,
  cursors within their texts, what is enabled follows from the choices, the focus is enabled, a preset has its size. Every
  action edits one field and brings the form up to date again (`SyncShows`, `EditedOne`), or opens a new one (`NewShows`); a
  text that is edited keeps what is on one side of its cursor (`Inserted`, `Deleted`). That what is accepted is sound and
  what is greyed is inert then follows from the form alone (`RefusedIs`, `AlikeIs`).
  Assumptions: `StoreAssumption` (scores are natural numbers; stored names are unique to begin with), `ConfigAssumption`,
  `FrameAssumption`, `LimitsAssumption` (a machine has a processor, the command line holds four of the limits to their ranges,
  `cli.rs`, stored objects are JSON), `InputAssumption`, `WizardAssumption` (the numbers that are typed are natural, blank or too
  long), those of `TuiSession`.

Every invariant and every action property that a passing run checks is stated by a theorem. Only model-checked is all
liveness (fairness, `ENABLED`). What a `RECURSIVE` operator computes for all inputs cannot be proved here: the induction
theorems take operators as parameters. Where the model has a recursive function (sums, toasts, loops over a file, the scan of
the scores) the lemmas named above prove by hand what is needed of it, by a smallest counterexample; the arithmetic of the
generators stays outside.

## 6. Where the code and its documentation disagree

Three are reproduced by a run that must find the violation:

- `pipeline_stop_waiting` (`pipeline.rs:121`, `producer.rs:333`): a stop that arrives while the producer waits for digits
  becomes the run's error; `finish` is skipped and the row stays `Running`, although `engine.rs:68` promises a resumable
  checkpoint.
- `growth_two_writers` (`producer.rs:609`): an epoch counts from a length it read without the writer lock; two writers append
  the same digits twice.
- `settings_toggle` (`engine.rs:230`, `hunt.rs:396`): the g key changes half of the backend/GPU pair; the next checkpoint
  stores a pair that every resume refuses.

Others met while modelling. Each was reproduced with the same modules, by widening a setup or by stating the stronger
property; the passing runs exclude exactly the condition named:

- `scoring.rs:53`: from 200 000 pixels of background on, a match that leaks one pixel is rounded to the full million
  millionths, as only a perfect one should be (found by the proof; `FullMarksArePerfect` speaks of targets of fewer pixels). What
  ends a search is the unrounded score.
- `pipeline.rs:140`: the backend thread's error is dropped; if a CPU replacement cannot be built the run ends as
  `SourceExhausted` with windows unscanned and is never resumed (`ExhaustedMeansScanned` excludes the fault "rebuild").
- `engine.rs:161`: a perfect match is stored with status `Running`; a crash before `finish` lets a resume search on
  (`PerfectMatchEndsRun` speaks of searches that start where
  none had been seen).
- `resource_budget.rs:323`: a chunk larger than what the permanent reader reservation leaves waits for ever instead of being
  refused (`Crowded`; the sizes of `shared_pools` include it).
- `cache_publication.rs:487`: the backup pair of an import that died after its sidecar was renamed survives appends; a later
  repair brings the old cache back (`RepairRestoresCommitted` excepts what was `overlaid`).
- `cache_publication.rs:488`: a restored backup has another fingerprint than its sidecar, so it reads as inconsistent until a
  second repair. If digits are appended instead, readers see an inconsistent cache while the append runs, and if it dies no
  repair, forced or not, recognises the file by its sidecar (`Recoverable` and `ForceRecovers` except this, as `overlaid`).
- `cache_publication.rs:691`: a published sidecar of zero digits without a raw file is backed up alone, and no repair, forced
  or not, gets past it (`BackupIsThere` excepts it).
- `lock.rs:361`: the takeover truncates the record before writing the new one; a death in between leaves an empty lock file
  that nobody may take over.
- `producer.rs:192`: a resident spigot that failed to publish has moved on; the next epoch appends from where it is and a
  batch is missing (`GuardedCacheHoldsPi` excludes faults for a lone spigot).
- `lock.rs:365`: a writer that fails between the truncation of the record and the end of its synchronisation leaves a lock
  file that nobody holds. With its record in it, every caller waits its time and fails until that process ends (`MutualExclusion` and
  the others hold; that a caller ever gets the lock is not claimed).
- `backend.rs:247`: an adapter asked for by name that disappears after the preflight is replaced by the CPU with a line on the
  standard error, although `README.md:642` tells of an error (`EngineIsTheResolved` says which engine runs).
- `producer.rs:653`: an import that added nothing is counted as nothing, and the epoch repeats for ever if the cache is long
  enough already (`CountingEpochEnds` leaves y-cruncher out).
- `performance.rs:268`: a chunk longer than the window is charged one window only, so at 50 % the accelerator can be busy for
  5/7 of the time (the theorems assume `ShortDispatches`).
- `path.rs:181`: a retry on the same slot after an invalid byte goes on behind it (`LeasesAreExact` excepts it,
  as `skipped`; the search stops at the first error, and setup `Damaged` does not retry).
- `hunt.rs:665`: a resume with a chunk size of 0 stores settings that no later resume can decode (`RunsResume` excludes it,
  as `emptied`). `session.rs:260`: a
  checkpoint stores the effective limit over the configured one. `tui/tabs/hunt.rs:433`: the wizard stores no snapshot, so a
  run that ends early is resumed with defaults (`ChoicesAreHonoured` excludes it, as `defaulted`). `hunt.rs:75`: endless hunts count as no work, so `auto` takes the CPU for them.
- `tui/app.rs:855`: if the search ends with an error after the user asked to quit, the interface stays (`QuitEnds` allows it).
- `tui/tabs/runs.rs:63`: the dialog names a run, the deletion takes the selected row. There are two ways to delete another
  run: the mouse wheel moves the selection under the dialog, and a search that finishes reloads and reorders the list.
- `tui/app.rs:723`: a run that another process has finished is resumed on the strength of the listed status
  (`ListCurrentWhenIdle` excludes other processes).
- `storage.rs:580`: a deletion is two statements; a death between them leaves a run without its history, and nothing looks for
  that. With two hunters of one run, best and details may come from different windows (`StoreInvariant` excepts both).
- `storage.rs:211`: two processes that open a database of an earlier version race for the same `ALTER TABLE`; the second fails
  once and succeeds when it is started again. Runs of such a database read as `threshold` runs.
- `config.rs:132`: "an interrupted save cannot leave a half-written config behind" fails for two sessions, which share
  `config.toml.tmp` (`InterruptedSavesLeaveAFile` excepts saves that overlapped).
- `tui/app.rs:310`: the wheel passes the help and the deletion dialog; clicks act on the buttons and rows of the last frame;
  F5 on the runs tab, documented as a reload, sets the profile while a search runs; `q` quits while the palette is typed
  into when the search was handed over.
- `tui/tabs/hunt.rs:395`: a threshold is cut to eight bits before it is compared with 9 (261 is accepted as 5), and it is parsed,
  stored and refused in the emergence mode, where it is greyed out; stored too is a decimal prefix that the form disables;
  a number that is nudged at the largest integer wraps to the smallest allowed one.
- `tui/mod.rs:128`: when a frame is due and nothing has changed, the wait is zero: the loop spins until the metrics interval.
- `performance.rs:719`, `commands/hunt.rs:621`: a resume with a profile changes its name and none of the limits; options of a
  resume are not bounded (a queue depth of 0 is stored, and every later resume refuses it); `+` never goes beyond the workers
  a search began with; a thermal mode has no effect until a profile is set; eco uses two workers on two or three cores, where
  balanced uses one; snapshots of earlier versions are completed from the table of emergence searches.
- `pi/y_cruncher.rs:136`: a program that cannot be started leaves its temporary directory; the executable can still be
  replaced after it was validated; on an empty cache the digits of any program are taken. `commands/pi.rs`: if an import fails
  after its publication, the fallback adds the digits a second time and reports only those; a built-in generator that failed
  under `auto` is tried once more, and if it failed with digits published, they are added once more too (`DoneMeansThere`
  compares the report with the cache where no append failed).
- `kernels/cuda/emergence.cu`: scores are compared after they were cut to millionths in single precision, so near ties may
  choose another candidate; the host finds that out and leaves CUDA for the rest of the run.
- `digits.rs:236`: an import that was published is an error if its staged copy cannot be removed, and a publication that fails
  after its rename reports an error although the cache was replaced; the cached length of a file that grows stays behind.
- `tui/mod.rs:94`: if the terminal cannot be entered, `resume --tui` leaves without joining the search it started
  (`ExitJoinsSearch` speaks of sessions that had the terminal).

## 7. What is left out

- *Pipeline*: commands that only retune (profile, workers, thermal, GPU mode) are `Save`, what they do is in `ResourceLimits` and
  `RunSettings`; a source whose length cannot be read
  is a failing read. The score is a table chosen once: that CPU and GPU agree on it is `BackendsAgree`. Offsets are relative to
  `--start-offset`: a run that begins at 1000 has `current_offset` 1000 and no window scanned (`storage.rs:319`), and the
  pipeline only compares positions with each other; the same in the database. A range that turns out shorter than its
  reservation (`worker/producer.rs:167`): sources never shrink. Reporters that fail (`reducer.rs:39`): the reducer ends as it
  does when storage fails. A backend that cannot be rebuilt after the threads were joined (`pipeline.rs:145`): the run ends
  with an error before it is finished, as when `finish` fails. An interrupt of a paused search, which a paused reducer does not
  look at, is outside of the claim `SearchComesToItsEnd`.
- *Producer*: the lock of generation (`pi.rs:314`) is a place where the worker waits (`TakeGuard`); that the epoch that holds it
  ends is assumed.
- *Lock*: reuse of process identifiers, foreign pid namespaces, the simulated crashes of the tests; calls that a thread makes
  inside of another, which run under the lock it has (`HELD_PATHS`).
- *Ring*: numeric kernels; early errors of `emergence_scores`. There is no stop flag inside a batch.
- *Settings*: the command line's refusal of finished runs; CUDA without `cuda-native`.
- *Scores*: floating-point rounding (a score is a whole number over a common denominator), the packing of buffers.
- *Command*: how a program's version is read and its output file found by name; how an append is published (`CachePublication`).
- *Store*: queries without effect; SQLite's own recovery (a statement or transaction is committed whole or not at all).
- *Interface*: how a text is edited outside of the wizard, layout, colours; lists longer than the one that is modelled.
- *TUI*: both channels are drained completely by their readers, so they are
  modelled as what is in them; the search thread stands for one invocation of `SearchPipeline` that handles commands
  eventually; failing reads of the database and panics in the interface.
- *Not modelled*: drawing, art parsing, command-line parsing, benchmarks' measuring and reporting, telemetry and the rate
  estimate, CUDA driver calls, the device mock of the tests, the contents of the gallery and the data tab, exports. They are
  pure I/O or heuristics whose results nothing relies on.

## 8. Plan

1. Wider models: the window of the rate estimate; the spigot and Chudnovsky's binary splitting against a reference definition,
   in modules that only TLC uses; the order of repetitions in the benchmark runner; background actions of the TUI.
2. The liveness of acquiring the writer lock.
