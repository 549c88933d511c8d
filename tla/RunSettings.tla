---------------------------- MODULE RunSettings -----------------------------
(***************************************************************************)
(* The settings of a run from the start through checkpoints and resumes:   *)
(* what the user asked for, what the host can do, what is stored with the  *)
(* run and what the search is started with.  A run is started on the       *)
(* command line, which stores a snapshot of the settings, or by the wizard *)
(* of the TUI, which does not; every timed checkpoint writes the settings  *)
(* of the running search over the snapshot; a resume reads them back,      *)
(* merges the options given, probes the host, stores the result and starts *)
(* the search.                                                             *)
(***************************************************************************)
EXTENDS Naturals

CONSTANTS
    None,          \* an option that is not given
    AutoMin,       \* AUTO_MIN_WORK_WINDOWS
    SettingsSetups \* by name, what users and hosts may do: records of
    \* hosts             records [cuda, wgpu]: what hosts can do
    \* startSelections   records [backend, gpu, device] of `start`
    \* resumeSelections  the same of `resume`, fields may be None
    \* startOptions      records [profile, work, limit, keep] of `start`
    \* resumeOptions     records [profile, chunk, work, limit, keep], fields may be None
    \* wizardModes       GPU modes the wizard is left at
    \* keys              keys pressed in the dashboard: "g", "p"

Backends == {"cpu", "gpu", "cuda", "auto"}
GpuModes == {"off", "on", "auto"}
Devices == {"auto", "card"}
Profiles == {"eco", "balanced"}
Modes == {"emergence", "exact"}
Counts == Nat \cup {None}
NoOptions == [profile |-> None, chunk |-> None, work |-> None, limit |-> None, keep |-> None]
NoSelection == [backend |-> None, gpu |-> None, device |-> None]

SetupType ==
    [hosts : SUBSET [cuda : BOOLEAN, wgpu : {"none", "other", "card"}],
     startSelections : SUBSET [backend : Backends, gpu : GpuModes, device : Devices],
     resumeSelections : SUBSET [backend : Backends \cup {None}, gpu : GpuModes \cup {None},
                                device : Devices \cup {None}],
     startOptions : SUBSET [profile : Profiles, work : Counts, limit : Counts, keep : BOOLEAN],
     resumeOptions : SUBSET [profile : Profiles \cup {None}, chunk : Counts, work : Counts,
                             limit : Counts, keep : BOOLEAN \cup {None}],
     wizardModes : SUBSET GpuModes,
     keys : SUBSET {"g", "p"}]
SettingsType ==
    [backend : Backends, gpu : GpuModes, device : Devices, profile : Profiles, chunk : Nat,
     work : Counts, limit : Counts, keep : BOOLEAN]
\* None is nothing else, and the setups are what they should be.
SettingsConstants ==
    /\ AutoMin \in Nat
    /\ None \notin Backends \cup GpuModes \cup Devices \cup Profiles \cup {"wgpu"}
    /\ None \notin Nat /\ None \notin BOOLEAN /\ None \notin SettingsType
    /\ None \notin [mode : Modes, snapshot : SettingsType \cup {None}]
    /\ None \notin (Backends \X GpuModes)
    /\ \A name \in DOMAIN SettingsSetups : SettingsSetups[name] \in SetupType

VARIABLES
    setup,     \* the name of a setup, chosen once
    host,      \* what this host can do now
    probed,    \* what it could do at the last preflight
    run,       \* the stored run: mode and snapshot (None: no snapshot), or None
    phase,     \* "idle", "prepared" or "running"
    live,      \* SearchOptions of the prepared or running search
    resolved,  \* the backend the last preflight chose
    engine,    \* the backend the running search was given
    keys,      \* the search has a dashboard
    answer,    \* the last request was "refused" or not: "ok"
    chosen,    \* what the user asked for since the start
    toggled,   \* the g key was pressed since the last start or resume
    defaulted, \* history: a run without a snapshot was resumed
    emptied    \* history: a resume was given a chunk of nothing

vars == <<setup, host, probed, run, phase, live, resolved, engine, keys, answer,
          chosen, toggled, defaulted, emptied>>
history == <<defaulted, emptied>>

May == SettingsSetups[setup]

Given(value, otherwise) == IF value = None THEN otherwise ELSE value

\* intersect_count_bounds
CountBound(work, limit) ==
    IF work = None THEN limit
    ELSE IF limit = None THEN work
    ELSE IF work < limit THEN work ELSE limit

\* WgpuPreflight: is there an adapter of this name?
WgpuEligible(device) == host.wgpu = "card" \/ (host.wgpu = "other" /\ device = "auto")

Pairs == {<<"cpu", "off">>, <<"gpu", "on">>, <<"cuda", "on">>, <<"auto", "auto">>}

\* normalize_start_backend_pair; None is an error.
StartPair(backend, gpu) ==
    CASE <<backend, gpu>> \in {<<"cpu", "off">>, <<"cpu", "auto">>, <<"auto", "off">>} -> <<"cpu", "off">>
      [] <<backend, gpu>> \in {<<"gpu", "on">>, <<"gpu", "auto">>, <<"auto", "on">>} -> <<"gpu", "on">>
      [] backend = "cuda" /\ gpu # "off" -> <<"cuda", "on">>
      [] backend = "auto" /\ gpu = "auto" -> <<"auto", "auto">>
      [] OTHER -> None

\* Seeded fault: the half of the pair that is not given keeps its stored value.
MergedPair_Separate(stored, selection) ==
    LET pair == <<Given(selection.backend, stored.backend), Given(selection.gpu, stored.gpu)>>
    IN  IF pair \in Pairs THEN pair ELSE None
\* merge_backend_pair: half a pair stands for a whole one; None is an error.
MergedPair(stored, selection) ==
    LET b == selection.backend
        g == selection.gpu
        pair == IF b # None /\ g # None THEN <<b, g>>
                ELSE IF b # None THEN CHOOSE p \in Pairs : p[1] = b
                ELSE IF g = "on" THEN <<"gpu", "on">>
                ELSE IF g # None THEN CHOOSE p \in Pairs : p[2] = g
                ELSE <<stored.backend, stored.gpu>>
    IN  IF pair \in Pairs THEN pair ELSE None

\* An adapter cannot be named for the CPU.
DeviceFits(pair, device) == pair = <<"cpu", "off">> => device \in {None, "auto"}

\* resolve_backend_preflight on what current_host_preflight probes; None is an
\* error.  A missing bound counts as no work.
Preflight(settings, count) ==
    CASE settings.backend = "cpu" -> "cpu"
      [] settings.backend = "gpu" -> IF WgpuEligible(settings.device) THEN "wgpu" ELSE None
      [] settings.backend = "cuda" -> IF host.cuda THEN "cuda" ELSE None
      [] settings.backend = "auto" ->
            IF Given(count, 0) < AutoMin THEN "cpu"
            ELSE IF host.cuda THEN "cuda"
            ELSE IF WgpuEligible(settings.device) THEN "wgpu" ELSE "cpu"

\* apply_resolved_backend
Execution(settings, backend) ==
    CASE backend = "cpu" -> [settings EXCEPT !.backend = "cpu", !.gpu = "off", !.device = "auto"]
      [] backend = "wgpu" -> [settings EXCEPT !.backend = "gpu", !.gpu = "on"]
      [] backend = "cuda" -> [settings EXCEPT !.backend = "cuda", !.gpu = "on"]

Init ==
    /\ setup \in DOMAIN SettingsSetups
    /\ host \in May.hosts
    /\ probed = host
    /\ run = None
    /\ phase = "idle"
    /\ live = None
    /\ resolved = None
    /\ engine = None
    /\ keys = FALSE
    /\ answer = "ok"
    /\ chosen = None
    /\ toggled = FALSE /\ defaulted = FALSE /\ emptied = FALSE

-----------------------------------------------------------------------------
(* Starting a run.                                                         *)

Refuse ==
    /\ answer' = "refused"
    /\ UNCHANGED <<setup, host, probed, run, phase, live, resolved, engine, keys, chosen, toggled,
                   history>>

\* The search is set up: what is stored, and what it will run with.
Prepare(mode, snapshot, settings, backend) ==
    /\ run' = [mode |-> mode, snapshot |-> snapshot]
    /\ live' = Execution([settings EXCEPT !.limit = CountBound(settings.work, settings.limit)], backend)
    /\ resolved' = backend
    /\ phase' = "prepared"
    /\ probed' = host
    /\ answer' = "ok"
    /\ toggled' = FALSE
    /\ UNCHANGED <<setup, host, engine>>

\* start_or_hunt: an infinite hunt has no limit, whatever was asked for; the
\* snapshot has it all the same.
StartCli(selection, options, infinite, mode) ==
    LET pair == StartPair(selection.backend, selection.gpu)
        settings == [backend |-> pair[1], gpu |-> pair[2], device |-> selection.device,
                     profile |-> options.profile, chunk |-> 1, work |-> options.work,
                     limit |-> options.limit, keep |-> options.keep]
        asked == [settings EXCEPT !.limit = IF infinite THEN None ELSE @]
        backend == Preflight(asked, CountBound(asked.work, asked.limit))
    IN  /\ run = None
        /\ IF pair # None /\ DeviceFits(pair, selection.device) /\ backend # None
           THEN /\ Prepare(mode, settings, asked, backend)
                /\ chosen' = asked
                /\ keys' = FALSE
                /\ UNCHANGED history
           ELSE Refuse

\* HuntTab::start_spec, resolve_preflight and build: no snapshot is stored.
StartTui(gpu, options, mode) ==
    LET settings == [backend |-> IF gpu = "off" THEN "cpu" ELSE IF gpu = "on" THEN "gpu" ELSE "auto",
                     gpu |-> gpu, device |-> "auto", profile |-> options.profile, chunk |-> 1,
                     work |-> None, limit |-> options.limit, keep |-> options.keep]
        backend == Preflight(settings, options.limit)
    IN  /\ run = None
        /\ IF backend # None
           THEN /\ Prepare(mode, None, settings, backend)
                /\ chosen' = settings
                /\ keys' = TRUE
                /\ UNCHANGED history
           ELSE Refuse

\* Seeded fault: the adapter that was named is forgotten.
EngineFor_AnyAdapter(settings, mode) ==
    IF settings.backend = "cuda" THEN IF host.cuda THEN "cuda" ELSE None
    ELSE IF /\ settings.backend = "gpu" \/ settings.gpu = "on"
            /\ mode = "emergence"
            /\ host.wgpu # "none"
         THEN "wgpu" ELSE "cpu"
\* create_search_backend; None is an error.
EngineFor(settings, mode) ==
    IF settings.backend = "cuda" THEN IF host.cuda THEN "cuda" ELSE None
    ELSE IF /\ settings.backend = "gpu" \/ settings.gpu = "on"
            /\ mode = "emergence"
            /\ WgpuEligible(settings.device)
         THEN "wgpu" ELSE "cpu"

\* SearchSession::new_with_budget, which refuses an empty chunk.
Launch ==
    /\ phase = "prepared"
    /\ live.chunk > 0 /\ EngineFor(live, run.mode) # None
    /\ phase' = "running"
    /\ engine' = EngineFor(live, run.mode)
    /\ UNCHANGED <<setup, host, probed, run, live, resolved, keys, answer, chosen, toggled,
                   history>>

LaunchFails ==
    /\ phase = "prepared"
    /\ live.chunk = 0 \/ EngineFor(live, run.mode) = None
    /\ phase' = "idle"
    /\ live' = None
    /\ UNCHANGED <<setup, host, probed, run, resolved, engine, keys, answer, chosen, toggled,
                   history>>

-----------------------------------------------------------------------------
(* A running search.                                                       *)

\* SearchSession::checkpoint, once checkpoint_every has passed.
Checkpoint ==
    /\ phase = "running"
    /\ run' = [run EXCEPT !.snapshot = live]
    /\ UNCHANGED <<setup, host, probed, phase, live, resolved, engine, keys, answer, chosen,
                   toggled, history>>

\* SearchCommand::ToggleGpuMode changes one half of the pair.
ToggleGpu ==
    /\ phase = "running" /\ keys /\ "g" \in May.keys
    /\ live' = [live EXCEPT !.gpu = CASE @ = "off" -> "auto" [] @ = "auto" -> "on" [] @ = "on" -> "off"]
    /\ toggled' = TRUE
    /\ UNCHANGED <<setup, host, probed, run, phase, resolved, engine, keys, answer, chosen,
                   history>>

\* SearchCommand::SetProfile
SetProfile(profile) ==
    /\ phase = "running" /\ keys /\ "p" \in May.keys
    /\ live' = [live EXCEPT !.profile = profile]
    /\ chosen' = [chosen EXCEPT !.profile = profile]
    /\ UNCHANGED <<setup, host, probed, run, phase, resolved, engine, keys, answer, toggled,
                   history>>

\* The search stops, is stopped or crashes: none of these writes a snapshot.
End ==
    /\ phase = "running"
    /\ phase' = "idle"
    /\ live' = None
    /\ engine' = None
    /\ UNCHANGED <<setup, host, probed, run, resolved, keys, answer, chosen, toggled, history>>

\* A device comes or goes, or the data directory moves to another machine.
HostChanges ==
    /\ phase # "running"
    /\ host' \in May.hosts \ {host}
    /\ UNCHANGED <<setup, probed, run, phase, live, resolved, engine, keys, answer, chosen,
                   toggled, history>>

-----------------------------------------------------------------------------
(* Resuming a run.                                                         *)

\* PerformanceSnapshot::decode_value, validate_settings
Decodes(snapshot) == snapshot.chunk > 0

\* What a resume starts from: the snapshot, or the defaults of the command.
ResumeBase(selection, options) ==
    IF run.snapshot # None THEN run.snapshot
    ELSE [backend |-> Given(selection.backend, "auto"), gpu |-> Given(selection.gpu, "auto"),
          device |-> Given(selection.device, "auto"), profile |-> Given(options.profile, "balanced"),
          chunk |-> 1, work |-> None, limit |-> None, keep |-> FALSE]

\* Seeded fault: a chunk size given is ignored, and so are the bounds.
Merged_WithoutBounds(base, selection, options) ==
    LET pair == MergedPair(base, selection)
    IN  [base EXCEPT !.backend = pair[1], !.gpu = pair[2],
                     !.device = IF pair[1] = "cpu" THEN "auto" ELSE Given(selection.device, @),
                     !.profile = Given(options.profile, @)]
\* merge_resume_snapshot, for a pair that is legal.
Merged(base, selection, options) ==
    LET pair == MergedPair(base, selection)
    IN  [base EXCEPT !.backend = pair[1], !.gpu = pair[2],
                     !.device = IF pair[1] = "cpu" THEN "auto" ELSE Given(selection.device, @),
                     !.profile = Given(options.profile, @),
                     !.chunk = Given(options.chunk, @),
                     !.work = Given(options.work, @),
                     !.limit = Given(options.limit, @),
                     !.keep = Given(options.keep, @)]

\* A resume with these options gets as far as storing the merged snapshot.
Accepted(selection, options) ==
    LET base == ResumeBase(selection, options)
        merged == Merged(base, selection, options)
    IN  /\ Decodes(base)
        /\ MergedPair(base, selection) # None
        /\ DeviceFits(MergedPair(base, selection), selection.device)
        /\ Preflight(merged, CountBound(merged.work, merged.limit)) # None

\* prepare_resume: stores what was asked for, not what the host made of it.
Resume(selection, options, tui) ==
    LET merged == Merged(ResumeBase(selection, options), selection, options)
    IN  /\ run # None
        /\ phase = "idle"
        /\ IF Accepted(selection, options)
           THEN /\ Prepare(run.mode, merged, merged, Preflight(merged, CountBound(merged.work, merged.limit)))
                /\ chosen' = [chosen EXCEPT !.profile = Given(options.profile, @),
                                            !.work = Given(options.work, @),
                                            !.limit = Given(options.limit, @),
                                            !.keep = Given(options.keep, @)]
                /\ keys' = tui
                /\ defaulted' = (defaulted \/ run.snapshot = None)
                /\ emptied' = (emptied \/ options.chunk = 0)
           ELSE Refuse

\* The command line gives options, the TUI's list of runs none.
ResumeCli(selection, options) == Resume(selection, options, FALSE)
ResumeTui == Resume(NoSelection, NoOptions, TRUE)

Next ==
    \/ \E selection \in May.startSelections, options \in May.startOptions, mode \in Modes,
          infinite \in BOOLEAN : StartCli(selection, options, infinite, mode)
    \/ \E gpu \in May.wizardModes, options \in May.startOptions, mode \in Modes :
          StartTui(gpu, options, mode)
    \/ Launch
    \/ LaunchFails
    \/ Checkpoint
    \/ ToggleGpu
    \/ \E profile \in Profiles : SetProfile(profile)
    \/ End
    \/ HostChanges
    \/ \E selection \in May.resumeSelections, options \in May.resumeOptions :
          ResumeCli(selection, options)
    \/ ResumeTui

Spec == Init /\ [][Next]_vars

-----------------------------------------------------------------------------
(* Properties.                                                             *)

\* A prepared or running search has settings, a resolved backend and, once it
\* runs, an engine; the stored snapshot holds no unresolved error.
TypeOK ==
    /\ host \in May.hosts /\ probed \in May.hosts
    /\ phase \in {"idle", "prepared", "running"}
    /\ live # None <=> phase # "idle"
    /\ engine # None <=> phase = "running"
    /\ engine \in {None, "cpu", "wgpu", "cuda"}
    /\ resolved \in {None, "cpu", "wgpu", "cuda"}
    /\ answer \in {"ok", "refused"}
    /\ run # None =>
        /\ run.mode \in Modes
        /\ run.snapshot # None =>
            /\ run.snapshot.backend \in Backends /\ run.snapshot.gpu \in GpuModes
            /\ run.snapshot.device \in Devices /\ run.snapshot.profile \in Profiles

\* The preflight and the construction of the backend are two routines, and the host
\* may change between them.  CUDA is never replaced; an adapter is used if the
\* preflight resolved to it, the mode is the one it has and it is still there; all
\* else runs on the CPU, which an adapter asked for by name is then replaced by.
EngineIsTheResolved ==
    phase = "running" =>
        engine = IF resolved = "cuda" THEN "cuda"
                 ELSE IF /\ resolved = "wgpu" /\ run.mode = "emergence"
                         /\ WgpuEligible(live.device)
                      THEN "wgpu" ELSE "cpu"

\* pi-casso resume: where a run was accepted, it is accepted again without
\* options, whatever happened in between.
EveryRunResumes ==
    run # None /\ phase = "idle" /\ host = probed => Accepted(NoSelection, NoOptions)

\* The same for runs whose GPU mode was not changed by a key, and that no resume
\* gave an empty chunk: what a start or a resume runs with can be stored by any
\* checkpoint and read back.
ResumesWhereItRan == ~toggled /\ ~emptied => EveryRunResumes

\* An accelerator asked for by name is used, or the request is refused: it is
\* never resolved to the CPU (README, GPU backend).
StrictIsStrict ==
    phase = "prepared" /\ run.snapshot # None =>
        /\ run.snapshot.backend = "gpu" => resolved = "wgpu"
        /\ run.snapshot.backend = "cuda" => resolved = "cuda"

\* README, troubleshooting: a run whose accelerator is gone can be resumed with
\* --backend auto, or with --backend cpu --gpu off, on every host, whatever its
\* GPU mode has become.
PortableResume ==
    run # None /\ phase = "idle" /\ ~emptied =>
        /\ Accepted([NoSelection EXCEPT !.backend = "auto"], NoOptions)
        /\ Accepted([NoSelection EXCEPT !.backend = "cpu", !.gpu = "off"], NoOptions)

\* What the user asked for last, at the start or at any resume, is what the next
\* resume continues with, if it was stored before the first of them.
ChoicesSurvive ==
    run # None /\ run.snapshot # None /\ ~defaulted =>
        /\ run.snapshot.keep = chosen.keep
        /\ run.snapshot.work = chosen.work
        /\ "p" \notin May.keys => run.snapshot.profile = chosen.profile

\* Every run can be resumed: as it was, and with the documented options when
\* its accelerator is gone.
RunsResume == ResumesWhereItRan /\ PortableResume

\* What was asked for is what runs, now and after the next resume.
ChoicesAreHonoured == TypeOK /\ EngineIsTheResolved /\ StrictIsStrict /\ ChoicesSurvive
-----------------------------------------------------------------------------
(* The inductive invariant: what is stored, and what would be stored next, *)
(* is a pair that the host of the last preflight has a backend for.        *)

\* A legal pair, and a backend for it on this machine.
LegalOn(settings, machine) ==
    /\ <<settings.backend, settings.gpu>> \in Pairs
    /\ settings.backend = "gpu" =>
        machine.wgpu = "card" \/ (machine.wgpu = "other" /\ settings.device = "auto")
    /\ settings.backend = "cuda" => machine.cuda

\* What the search is started with names the resolved backend.
Resolves(settings, backend, machine) ==
    /\ backend \in {"cpu", "wgpu", "cuda"}
    /\ backend = "cpu" => settings.backend = "cpu" /\ settings.gpu = "off"
    /\ backend = "wgpu" => settings.backend = "gpu" /\ settings.gpu = "on"
    /\ backend = "cuda" => settings.backend = "cuda" /\ settings.gpu = "on"
    /\ LegalOn(settings, machine)

\* Nothing the user chose is lost in these settings.
KeepsChoices(settings) ==
    ~defaulted =>
        /\ settings.keep = chosen.keep /\ settings.work = chosen.work
        /\ "p" \notin May.keys => settings.profile = chosen.profile

TypesInv ==
    /\ setup \in DOMAIN SettingsSetups
    /\ host \in May.hosts /\ probed \in May.hosts
    /\ run \in [mode : Modes, snapshot : SettingsType \cup {None}] \cup {None}
    /\ live \in SettingsType \cup {None}
    /\ run # None => chosen \in SettingsType
    /\ phase \in {"idle", "prepared", "running"}
    /\ resolved \in {None, "cpu", "wgpu", "cuda"} /\ engine \in {None, "cpu", "wgpu", "cuda"}
    /\ answer \in {"ok", "refused"}
    /\ keys \in BOOLEAN /\ toggled \in BOOLEAN /\ defaulted \in BOOLEAN /\ emptied \in BOOLEAN

PhaseInv ==
    /\ live # None <=> phase # "idle"
    /\ engine # None <=> phase = "running"
    /\ phase # "idle" => run # None

StoredInv ==
    run # None /\ run.snapshot # None =>
        /\ ~toggled => LegalOn(run.snapshot, probed)
        /\ ~emptied => run.snapshot.chunk > 0
        /\ KeepsChoices(run.snapshot)

LiveInv ==
    live # None =>
        /\ ~toggled => LegalOn(live, probed)
        /\ ~emptied => live.chunk > 0
        /\ KeepsChoices(live)
        /\ phase = "prepared" => Resolves(live, resolved, probed)

SettingsInv ==
    /\ TypesInv /\ PhaseInv /\ StoredInv /\ LiveInv
    /\ StrictIsStrict /\ EngineIsTheResolved
=============================================================================
