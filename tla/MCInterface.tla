---------------------------- MODULE MCInterface -----------------------------
(***************************************************************************)
(* What a user meets and what is kept for them, in one model: a session of *)
(* the terminal interface, the database of runs, the configuration file    *)
(* when the interface is drawn, the limits of a search with their          *)
(* snapshot, where input goes and the wizard (InterfaceState).  They share *)
(* no state: a behaviour is one of one side, the others rest.              *)
(***************************************************************************)
EXTENDS InterfaceState, TLC

CONSTANTS r1, r2, p1, p2, i1, i2, n1, s1, s2, dark

-----------------------------------------------------------------------------
(* Databases.  The second window is no better than the first, the third is.*)

MCScore == [o \in 0..2 |-> <<1, 0, 2>>[o + 1]]

\* A database of an earlier version is opened by two processes at once.
Opening ==
    [age |-> "earlier", saved |-> {<<i1, n1>>},
     roles |-> p1 :> {"create"} @@ p2 :> {"hunt"}, crashes |-> 1]
\* There is none yet.
FirstUse ==
    [age |-> "none", saved |-> {},
     roles |-> p1 :> {"create", "hunt"} @@ p2 :> {"delete"}, crashes |-> 1]
\* Two processes hunt one run.
Rivals ==
    [age |-> "current", saved |-> {<<i1, n1>>},
     roles |-> p1 :> {"hunt"} @@ p2 :> {"hunt"}, crashes |-> 1]
\* A run is deleted while it is hunted, and its name given to another.
Deleting ==
    [age |-> "current", saved |-> {<<i1, n1>>},
     roles |-> p1 :> {"hunt", "delete"} @@ p2 :> {"delete", "create"}, crashes |-> 1]
MCStoreSetups == {Opening, FirstUse, Rivals, Deleting}

-----------------------------------------------------------------------------
(* Sessions of the terminal interface.                                     *)

\* Two searches in one session, which may fail.
Busy ==
    [saved |-> <<r1>>, launch |-> FALSE, inputs |-> {"start", "resume", "dismiss"},
     faults |-> {"storage"}, outside |-> FALSE, searches |-> 2]
\* One search, with deletions before, beside and after it.
Tidying == [Busy EXCEPT !.inputs = @ \cup {"delete"}, !.searches = 1]
\* A run deleted between two searches, both of runs that were there.
Returning == [Busy EXCEPT !.inputs = {"resume", "delete", "dismiss"}]
\* A search that was handed over, and another process.
Handed ==
    [saved |-> <<r1>>, launch |-> TRUE,
     inputs |-> {"pause", "save", "stop", "dismiss"},
     faults |-> {"terminal", "terminalEntry"}, outside |-> TRUE, searches |-> 1]
MCRuns == {r1, r2}
MCSessionSetups == {Busy, Tidying, Returning, Handed}

-----------------------------------------------------------------------------
(* The other sides, with their bounds.                                     *)

Setup(edits, numbers, letters, heights, sizes) ==
    [edits |-> edits, numbers |-> numbers, letters |-> letters, heights |-> heights,
     sizes |-> sizes]
MCWizardSetups ==
    {Setup({"SizeMode", "MatchMode", "Width", "CanvasWidth"}, {-1, 9}, {}, {},
           {<<8, 8>>, <<5, 7>>}),
     Setup({"MatchMode", "Threshold", "Limit"}, {-2, -1, 0, 261, 511}, {}, {}, {<<8, 8>>}),
     Setup({"ArtSource", "ArtFile", "PiSource", "AllowDecimalPrefix"}, {}, {"a"}, {},
           {<<8, 8>>}),
     Setup({"Name", "Template"}, {}, {"a", " "}, {}, {<<8, 8>>}),
     Setup({"MatchMode", "Template", "ArtSource", "PiSource", "SizeMode"}, {}, {}, {30},
           {<<8, 8>>}),
     Setup({"MatchMode"}, {}, {}, {0, 2, 5}, {<<8, 8>>})}
MCPolicies == {<<2, 6>>, <<2, 1>>}
MCLifetime == [info |-> 1, warn |-> 2, error |-> 4]

\* Options below and at their bounds; a resume is not held to them.
MCStartOptions ==
    {<<>>, "cpu_workers" :> 0 @@ "chunk_size" :> 0,
     "cpu_utilization" :> 100 @@ "gpu_utilization" :> 0 @@ "queue_depth" :> 0
     @@ "memory_limit_mb" :> 0 @@ "background_yield_ms" :> 0 @@ "ui_refresh_ms" :> 16
     @@ "max_fps" :> 1 @@ "checkpoint_every_secs" :> 0}
MCResumeOptions ==
    {<<>>, "cpu_workers" :> 1 @@ "chunk_size" :> 2, "chunk_size" :> 0, "queue_depth" :> 0}

Number(n) == [number |-> n]
Text(s) == [text |-> s]
Bool(b) == [bool |-> b]
Null == [null |-> 0]
\* Of earlier versions, of a later one, and of none: wrong types, two names of
\* one limit, limits out of bounds, keys that nobody knows.
MCStoredObjects ==
    {"schema_version" :> Number(2), "schema_version" :> Bool(TRUE),
     "schema_version" :> Number(1),
     "schema_version" :> Number(0) @@ "profile" :> Text("eco") @@ "extra" :> Bool(TRUE),
     "workers" :> Number(2) @@ "cpu_workers" :> Number(3),
     "offset" :> Number(2) @@ "current_offset" :> Number(3),
     "gpu_device" :> Text("card") @@ "device" :> Text("card"),
     "workers" :> Number(3) @@ "offset" :> Number(2) @@ "gpu" :> Bool(FALSE) @@ "old" :> Null,
     "cpu_utilization" :> Number(256), "cpu_utilization" :> Number(101),
     "gpu_utilization" :> Number(100) @@ "cpu_utilization" :> Number(1),
     "checkpoint_every_secs" :> Number(0), "settings" :> Text("none"),
     "chunk_size" :> Number(0), "profile" :> Text("turbo"), "max_fps" :> Null,
     "profile" :> Text("max") @@ "thermal_mode" :> Text("quiet")
     @@ "checkpoint_every" :> Number(9) @@ "max_fps" :> Number(120)}

-----------------------------------------------------------------------------
Sides == {"tui", "store", "config", "input", "wizard", "frame", "limits"}

\* A side that rests is in one of its initial states.
MCInit ==
    /\ side \in Sides
    /\ Init
    /\ side # "tui" => setup = Busy /\ \A r \in Runs : status[r] = "paused"
    /\ Store!Init /\ (side # "store" => roles = CHOOSE s \in StoreSetups : s.age = "none")
    /\ Config!Init /\ (side # "config" => path = None)
    /\ Keys!Init /\ (side # "input" => ui.row = 0 /\ ~ui.handed)
    /\ Wizard!Init
    /\ side # "wizard" =>
           wizard.heights = {30} /\ form = CHOOSE f \in Wizard!News : TRUE
    /\ Frame!Init /\ (side # "frame" => policy = <<2, 1>>)
    /\ Limits!Init
    /\ side # "limits" => mode = "emergence" /\ stage = "new"

MCNext ==
    \/ /\ side = "tui" /\ Next
       /\ UNCHANGED <<side, databaseVars, configVars, inputVars, wizardVars, frameVars, limitsVars>>
    \/ /\ side = "store" /\ Store!Next
       /\ UNCHANGED <<side, vars, configVars, inputVars, wizardVars, frameVars, limitsVars>>
    \/ /\ side = "config" /\ Config!Next
       /\ UNCHANGED <<side, vars, databaseVars, inputVars, wizardVars, frameVars, limitsVars>>
    \/ /\ side = "input" /\ Keys!Next
       /\ UNCHANGED <<side, vars, databaseVars, configVars, wizardVars, frameVars, limitsVars>>
    \/ /\ side = "wizard" /\ Wizard!Next
       /\ UNCHANGED <<side, vars, databaseVars, configVars, inputVars, frameVars, limitsVars>>
    \/ /\ side = "frame" /\ Frame!Next
       /\ UNCHANGED <<side, vars, databaseVars, configVars, inputVars, wizardVars, limitsVars>>
    \/ /\ side = "limits" /\ Limits!Next
       /\ UNCHANGED <<side, vars, databaseVars, configVars, inputVars, wizardVars, frameVars>>

\* The fairness of TuiSession, on its side.
MCFairness ==
    /\ WF_vars(side = "tui" /\ EventLoop)
    /\ \A t \in 1..MaxSearches :
          /\ WF_vars(side = "tui" /\ t \in DOMAIN threads /\ ThreadStep(t))
          /\ WF_vars(side = "tui" /\ t \in DOMAIN threads /\ Tick(t))
          /\ SF_vars(side = "tui" /\ t \in DOMAIN threads /\ Alive(t) /\ Chunk(t) /\ UiKeeps)

MCSpec ==
    /\ MCInit
    /\ [][MCNext]_<<side, vars, databaseVars, configVars, inputVars, wizardVars, frameVars, limitsVars>>
    /\ MCFairness

-----------------------------------------------------------------------------
(* Properties, stated in the modules of the sides.                         *)

\* Whoever quits gets out, and a pause shows (TuiSession).
SessionServes == side = "tui" => RequestsTakeEffect
=============================================================================
