--------------------------- MODULE MCRunSettings ----------------------------
(* Small sets of hosts, selections and options for TLC; AutoMin is 4.      *)
EXTENDS RunSettings

NoHost == [cuda |-> FALSE, wgpu |-> "none"]
GpuHost == [cuda |-> FALSE, wgpu |-> "card"]

AutoOrCpu == {[backend |-> b, gpu |-> "auto", device |-> "auto"] : b \in {"auto", "cpu"}}
PlainOptions == [profile : {"balanced"}, work : {2, 6, None}, limit : {None}, keep : {FALSE}]

\* Every selection of an accelerator, at the start and at a resume, on every
\* host, which may change in between.
Selection ==
    [hosts |-> [cuda : BOOLEAN, wgpu : {"none", "other", "card"}],
     startSelections |-> [backend : Backends, gpu : GpuModes, device : Devices],
     resumeSelections |-> [backend : Backends \cup {None}, gpu : GpuModes \cup {None},
                           device : Devices \cup {None}],
     startOptions |-> PlainOptions,
     resumeOptions |-> {NoOptions},
     wizardModes |-> GpuModes,
     keys |-> {}]

\* Every option, at the start and at a resume.
Options ==
    [Selection EXCEPT
        !.hosts = {NoHost, GpuHost},
        !.startSelections = AutoOrCpu,
        !.resumeSelections = {NoSelection},
        !.startOptions = [profile : Profiles, work : {2, 6, None}, limit : {3, None},
                          keep : BOOLEAN],
        !.resumeOptions = [profile : {None, "eco"}, chunk : {None, 0}, work : {None, 6},
                           limit : {None, 3}, keep : BOOLEAN \cup {None}],
        !.wizardModes = {"auto"}]

\* The keys of the dashboard.
Pressed ==
    [Options EXCEPT
        !.startOptions = PlainOptions,
        !.resumeOptions = {NoOptions},
        !.wizardModes = GpuModes,
        !.keys = {"g", "p"}]

AllSettings == [selection |-> Selection, options |-> Options, keys |-> Pressed]
OnlyKeys == [keys |-> Pressed]
=============================================================================
