--------------------------- MODULE ResourceLimits ---------------------------
(***************************************************************************)
(* The resource limits of a search: the table of profiles and thermal      *)
(* modes, the options that override it, the keys that change it, and the   *)
(* performance snapshot it is stored in, of this version and of earlier    *)
(* ones.  Which backend is chosen, the count bounds and the flags are in   *)
(* RunSettings; adapters, flags and bounds of a snapshot are decoded like  *)
(* the position and the profile, and are left out.                         *)
(*                                                                         *)
(* A stored object is a function from keys to values that carry the kind   *)
(* of JSON they are.                                                       *)
(***************************************************************************)
EXTENDS Integers

CONSTANTS
    Cores,          \* the logical processors a machine may have
    Given,          \* the profiles that may be given to `start` and `resume`
    StartOptions,   \* what may be given to `start`: functions on some limits
    ResumeOptions,  \* the same of `resume`
    StoredObjects,  \* snapshots that earlier versions, and others, have left
    MaxPresses      \* bound: keys pressed, in all searches of a run

VARIABLES
    cores,
    mode,       \* the run's match mode
    stored,     \* its performance_snapshot, or NoObject
    live,       \* the settings of the running search
    permits,    \* ResourceBudget::cpu_permits_max of the search
    phase,      \* "new", "idle", "running"
    answer,     \* what the last start or resume ended with
    presses,
    spoiled     \* history: a resume was given a limit no snapshot may have

vars == <<cores, mode, stored, live, permits, phase, answer, presses, spoiled>>

Profiles == {"eco", "balanced", "performance", "max", "custom"}
Thermals == {"quiet", "normal", "aggressive"}
\* ThermalMode::next.
Warmer == [quiet |-> "normal", normal |-> "aggressive", aggressive |-> "quiet"]
Modes == {"emergence", "threshold"}
Least(a, b) == IF a < b THEN a ELSE b
Most(a, b) == IF a > b THEN a ELSE b

-----------------------------------------------------------------------------
(* ResourceLimits.                                                         *)

\* for_profile before the thermal mode.
ProfileTable(profile, logical, matchMode) ==
    LET base == IF matchMode = "emergence" THEN 65536 ELSE 50000
        limits(w, cpu, gpu, chunk, queue, memory, ui, checkpoint, yield, fps) ==
            [cpu_workers |-> w, cpu_utilization |-> cpu, gpu_utilization |-> gpu,
             chunk_size |-> chunk, queue_depth |-> queue, memory_limit_mb |-> memory,
             ui_refresh_ms |-> ui, checkpoint_every_secs |-> checkpoint,
             background_yield_ms |-> yield, max_fps |-> fps]
    IN CASE profile = "eco" ->
              limits(Least(logical, 2), 25, 0, Most(base \div 4, 64), 1, 128, 750, 10, 25, 2)
         [] profile \in {"balanced", "custom"} ->
              limits(Most(logical \div 2, 1), 60, 50, base, 2, 512, 150, 5, 0, 10)
         [] profile = "performance" ->
              limits(Most(logical - 1, 1), 90, 80, base * 4, 3, 1024, 80, 5, 0, 20)
         [] profile = "max" -> limits(logical, 100, 100, base * 8, 4, 2048, 50, 3, 0, 30)

ForProfile(profile, thermal, logical, matchMode) ==
    LET limits == ProfileTable(profile, logical, matchMode)
    IN CASE thermal = "quiet" ->
              [limits EXCEPT !.cpu_utilization = Least(@, 35), !.ui_refresh_ms = Most(@, 750),
                             !.background_yield_ms = Most(@, 30),
                             !.chunk_size = Most(@ \div 2, 32), !.max_fps = Least(@, 3)]
         [] thermal = "normal" -> limits
         [] thermal = "aggressive" ->
              [limits EXCEPT !.cpu_utilization = Most(@, 85), !.chunk_size = @ * 2,
                             !.ui_refresh_ms = Least(@, 80), !.background_yield_ms = 0]

LimitFields ==
    {"cpu_workers", "cpu_utilization", "gpu_utilization", "chunk_size", "queue_depth",
     "memory_limit_mb", "ui_refresh_ms", "checkpoint_every_secs", "background_yield_ms",
     "max_fps"}

\* apply: every option is put within its bounds.
Bounded(field, value) ==
    CASE field = "cpu_utilization" -> Most(1, Least(value, 100))
      [] field = "gpu_utilization" -> Least(value, 100)
      [] field = "ui_refresh_ms" -> Most(value, 16)
      [] field = "background_yield_ms" -> value
      [] OTHER -> Most(value, 1)
Apply(limits, options) ==
    [field \in LimitFields |->
        IF field \in DOMAIN options THEN Bounded(field, options[field]) ELSE limits[field]]

\* validate_settings and, of options given, validate_overrides.
ValidValue(field, value) ==
    /\ field \notin {"gpu_utilization", "background_yield_ms"} => value > 0
    /\ field \in {"cpu_utilization", "gpu_utilization"} => value <= 100
    /\ field = "ui_refresh_ms" => 16 <= value /\ value <= 60000
    /\ field = "max_fps" => value <= 120
ValidLimits(limits) == \A field \in DOMAIN limits : ValidValue(field, limits[field])

\* The command line holds four of the limits to their ranges; the snapshot types
\* the limits it reads.
Ranged == {"cpu_utilization", "gpu_utilization", "ui_refresh_ms", "max_fps"}
OptionsType(options) ==
    /\ DOMAIN options \subseteq LimitFields
    /\ \A field \in DOMAIN options :
          options[field] \in Nat /\ (field \in Ranged => ValidValue(field, options[field]))
SettingsType == [profile : Profiles, thermal : Thermals, limits : [LimitFields -> Nat]]

FromProfile(profile, thermal, matchMode, options) ==
    [profile |-> profile, thermal |-> thermal,
     limits |-> Apply(ForProfile(profile, thermal, cores, matchMode), options)]

\* throttle_after_batch: the milliseconds to sleep after a batch, rounded up.
ThrottleAfterBatch(limits, active) ==
    LET u == limits.cpu_utilization
        idle == (active * (100 - u) + u - 1) \div u
    IN limits.background_yield_ms + (IF u < 100 THEN Least(idle, 500) ELSE 0)

\* estimated_memory_mb.
EstimatedMemoryMb(limits, windowLen) ==
    LET bytes == (limits.chunk_size + windowLen) * Most(limits.queue_depth, 1)
    IN Most((bytes + 1048575) \div 1048576, 1)

-----------------------------------------------------------------------------
(* PerformanceSnapshot: encode_value and decode_value.                     *)

Number(n) == [number |-> n]
Text(s) == [text |-> s]
Bool(b) == [bool |-> b]
Null == [null |-> 0]
SettingsJson(settings) == [settings |-> settings]
KindOf(json) == CHOOSE kind \in DOMAIN json : TRUE
ValueOf(json) == json[KindOf(json)]
NoObject == <<>>    \* the parameters have no snapshot
Json ==
    [number : Int] \cup [text : STRING] \cup [bool : BOOLEAN] \cup [null : {0}]
    \cup [settings : SettingsType]

LimitsConstants ==
    /\ Cores \subseteq Nat \ {0} /\ Given \subseteq Profiles /\ MaxPresses \in Nat
    /\ \A options \in StartOptions \cup ResumeOptions : OptionsType(options)
    /\ \A object \in StoredObjects : \A key \in DOMAIN object : object[key] \in Json

Is(json, type) ==
    CASE type = "u8" -> KindOf(json) = "number" /\ ValueOf(json) >= 0 /\ ValueOf(json) <= 255
      [] type = "unsigned" -> KindOf(json) = "number" /\ ValueOf(json) >= 0
      [] type = "text" -> KindOf(json) = "text"
      [] type = "profile" -> KindOf(json) = "text" /\ ValueOf(json) \in Profiles
      [] type = "thermal" -> KindOf(json) = "text" /\ ValueOf(json) \in Thermals
      [] type = "gpu" ->
            \/ KindOf(json) = "bool"
            \/ KindOf(json) = "text" /\ ValueOf(json) \in {"auto", "on", "off"}

Without(object, keys) == [k \in DOMAIN object \ keys |-> object[k]]
Get(object, key, otherwise) == IF key \in DOMAIN object THEN ValueOf(object[key]) ELSE otherwise
NoOffset == -1

V1Keys == {"schema_version", "settings", "current_offset"}
\* What is not known is kept, and never takes the place of what is.
Encode(snapshot) ==
    [key \in V1Keys \cup DOMAIN snapshot.extra |->
        CASE key = "schema_version" -> Number(1)
          [] key = "settings" -> SettingsJson(snapshot.settings)
          [] key = "current_offset" ->
                IF snapshot.offset = NoOffset THEN Null ELSE Number(snapshot.offset)
          [] OTHER -> snapshot.extra[key]]

\* decode_v1, if it takes the object.
TakesV1(object) ==
    /\ "settings" \in DOMAIN object /\ KindOf(object["settings"]) = "settings"
    /\ ValidLimits(ValueOf(object["settings"]).limits)
    /\ "current_offset" \in DOMAIN object =>
          object["current_offset"] = Null \/ Is(object["current_offset"], "unsigned")
DecodeV1(object) ==
    [settings |-> ValueOf(object["settings"]),
     offset |-> IF "current_offset" \in DOMAIN object /\ object["current_offset"] # Null
                THEN ValueOf(object["current_offset"]) ELSE NoOffset,
     extra |-> Without(object, V1Keys)]

\* The keys of a legacy object, with what they hold and the limits they name.
LegacyTypes ==
    [profile |-> "profile", thermal_mode |-> "thermal", gpu |-> "gpu",
     gpu_device |-> "text", device |-> "text",
     workers |-> "unsigned", cpu_workers |-> "unsigned", cpu_utilization |-> "u8",
     gpu_utilization |-> "u8", chunk_size |-> "unsigned", queue_depth |-> "unsigned",
     memory_limit_mb |-> "unsigned", ui_refresh_ms |-> "unsigned",
     checkpoint_every |-> "unsigned", background_yield_ms |-> "unsigned",
     max_fps |-> "unsigned", current_offset |-> "unsigned", offset |-> "unsigned"]
LegacyLimit(key) ==
    CASE key = "workers" -> "cpu_workers"
      [] key = "checkpoint_every" -> "checkpoint_every_secs"
      [] OTHER -> key
LegacyKeys(object) ==
    {k \in DOMAIN object \cap DOMAIN LegacyTypes : LegacyLimit(k) \in LimitFields}
Aliases == {{"gpu_device", "device"}, {"workers", "cpu_workers"}, {"current_offset", "offset"}}
LegacyOverrides(object) ==
    [field \in {LegacyLimit(k) : k \in LegacyKeys(object)} |->
        ValueOf(object[CHOOSE k \in LegacyKeys(object) : LegacyLimit(k) = field])]

\* Seeded fault: two names of one limit are taken, the one or the other.
TakesLegacy_BothNames(object) ==
    /\ \A k \in DOMAIN object \cap DOMAIN LegacyTypes : Is(object[k], LegacyTypes[k])
    /\ \A k \in LegacyKeys(object) : ValidValue(LegacyLimit(k), ValueOf(object[k]))

\* decode_legacy, if it takes the object: two names of one limit conflict.
TakesLegacy(object) ==
    /\ \A k \in DOMAIN object \cap DOMAIN LegacyTypes : Is(object[k], LegacyTypes[k])
    /\ \A alias \in Aliases : ~(alias \subseteq DOMAIN object)
    /\ \A k \in LegacyKeys(object) : ValidValue(LegacyLimit(k), ValueOf(object[k]))
\* Whatever the run's mode is, the table is that of emergence.
DecodeLegacy(object) ==
    [settings |-> FromProfile(Get(object, "profile", "balanced"),
                              Get(object, "thermal_mode", "normal"), "emergence",
                              LegacyOverrides(object)),
     offset |-> Get(object, "current_offset", Get(object, "offset", NoOffset)),
     extra |-> Without(object, DOMAIN LegacyTypes \cup {"schema_version"})]

SchemaVersion(object) == Get(object, "schema_version", 0)
Takes(object) ==
    /\ "schema_version" \in DOMAIN object => Is(object["schema_version"], "unsigned")
    /\ SchemaVersion(object) \in {0, 1}
    /\ IF SchemaVersion(object) = 1 THEN TakesV1(object) ELSE TakesLegacy(object)
Decode(object) ==
    IF SchemaVersion(object) = 1 THEN DecodeV1(object) ELSE DecodeLegacy(object)

-----------------------------------------------------------------------------
(* A search: start, keys, checkpoints, resume.                             *)

NoExtra == [key \in {} |-> Null]
Fresh(settings) == [settings |-> settings, offset |-> 0, extra |-> NoExtra]
Nothing == FromProfile("balanced", "normal", "emergence", <<>>)

Init ==
    /\ cores \in Cores
    /\ mode \in Modes
    /\ stored \in {NoObject} \cup StoredObjects
    /\ phase \in IF stored = NoObject THEN {"new", "idle"} ELSE {"idle"}
    /\ live = Nothing
    /\ permits = 1 /\ answer = "ok" /\ presses = 0 /\ spoiled = FALSE

\* SearchSession::new: the budget has the permits of the workers it starts with.
SearchWith(settings) ==
    IF settings.limits.chunk_size = 0
    THEN phase' = "idle" /\ answer' = "failed" /\ UNCHANGED <<live, permits>>
    ELSE /\ phase' = "running" /\ answer' = "ok"
         /\ live' = [settings EXCEPT !.limits.cpu_workers = Most(@, 1)]
         /\ permits' = Most(settings.limits.cpu_workers, 1)

\* On the command line, which stores a snapshot, or in the wizard, which does not.
Start ==
    /\ phase = "new"
    /\ \E profile \in Given, thermal \in Thermals, options \in StartOptions,
          wizard \in BOOLEAN :
          LET settings == FromProfile(profile, thermal, mode, options)
          IN /\ SearchWith(settings)
             /\ stored' = IF wizard THEN NoObject ELSE Encode(Fresh(settings))
    /\ UNCHANGED <<cores, mode, presses, spoiled>>

\* merge_resume_snapshot: a profile is a name here, and no option is bounded.
Merged(settings, profile, options) ==
    [settings EXCEPT !.profile = profile,
        !.limits = [field \in LimitFields |-> IF field \in DOMAIN options THEN options[field]
                                              ELSE settings.limits[field]]]

\* prepare_resume and the checkpoint it makes; without a snapshot the options
\* give one.
Resume ==
    /\ phase = "idle"
    /\ \E options \in ResumeOptions, profile \in Given :
          IF stored # NoObject /\ ~Takes(stored)
          THEN /\ answer' = "refused"
               /\ UNCHANGED <<stored, live, permits, phase, spoiled>>
          ELSE LET snapshot == IF stored = NoObject
                               THEN Fresh(FromProfile(profile, "normal", mode, options))
                               ELSE Decode(stored)
                   name == IF profile = "custom" THEN snapshot.settings.profile ELSE profile
                   merged == Merged(snapshot.settings, name, options)
               IN /\ stored' = Encode([snapshot EXCEPT !.settings = merged, !.offset = 1])
                  /\ spoiled' = (spoiled \/ ~ValidLimits(options))
                  /\ SearchWith(merged)
    /\ UNCHANGED <<cores, mode, presses>>

Pressed(settings) ==
    /\ phase = "running" /\ presses < MaxPresses
    /\ presses' = presses + 1
    /\ live' = settings
    /\ UNCHANGED <<cores, mode, stored, permits, phase, answer, spoiled>>

\* apply_profile takes the table anew, with the thermal mode of the moment and
\* none of the options.
SetProfile(profile) ==
    LET settings == FromProfile(profile, live.thermal, mode, <<>>)
    IN Pressed([settings EXCEPT !.limits.cpu_workers = Least(@, permits)])

\* Seeded fault: the last worker can be taken away.
AdjustWorkers_ToNone(delta) ==
    Pressed([live EXCEPT !.limits.cpu_workers = Least(Most(@ + delta, 0), permits)])

AdjustWorkers(delta) ==
    Pressed([live EXCEPT !.limits.cpu_workers = Least(Most(@ + delta, 1), permits)])

\* Seeded fault: a quarter of a small chunk is nothing.
AdjustChunkSize_Quarter(delta) ==
    Pressed([live EXCEPT !.limits.chunk_size = Most(@ + delta * (@ \div 4), 1)])

\* Seeded fault: the larger key makes the chunk smaller.
AdjustChunkSize_Swapped(delta) ==
    Pressed([live EXCEPT !.limits.chunk_size = Most(@ - delta * Most(@ \div 4, 1), 1)])

AdjustChunkSize(delta) ==
    Pressed([live EXCEPT !.limits.chunk_size = Most(@ + delta * Most(@ \div 4, 1), 1)])

\* The limits stay what they were until the profile is set.
CycleThermalMode == Pressed([live EXCEPT !.thermal = Warmer[@]])

\* SearchSession::checkpoint: settings and position over what the snapshot keeps.
Checkpoint ==
    /\ phase = "running"
    /\ stored # NoObject => Takes(stored)
    /\ LET snapshot == IF stored = NoObject THEN Fresh(live) ELSE Decode(stored)
       IN stored' = Encode([snapshot EXCEPT !.settings = live, !.offset = 2])
    /\ UNCHANGED <<cores, mode, live, permits, phase, answer, presses, spoiled>>

\* The search is over, in good order or not, or its checkpoint cannot read the
\* snapshot.
End ==
    /\ phase = "running"
    /\ phase' = "idle" /\ live' = Nothing /\ permits' = 1
    /\ UNCHANGED <<cores, mode, stored, answer, presses, spoiled>>

Next ==
    \/ Start \/ Resume \/ End \/ Checkpoint
    \/ \E profile \in Profiles \ {"custom"} : SetProfile(profile)
    \/ \E delta \in {-1, 1} : AdjustWorkers(delta)
    \/ \E delta \in {-1, 1} : AdjustChunkSize(delta)
    \/ CycleThermalMode

Spec == Init /\ [][Next]_vars

-----------------------------------------------------------------------------
(* Properties.                                                             *)

TypeOK ==
    /\ cores \in Cores /\ mode \in Modes
    /\ live.profile \in Profiles /\ live.thermal \in Thermals
    /\ DOMAIN live.limits = LimitFields
    /\ permits \in Nat \ {0} /\ presses \in 0..MaxPresses
    /\ phase \in {"new", "idle", "running"} /\ answer \in {"ok", "failed", "refused"}

\* Options, profiles, thermal modes and keys together never make a limit that
\* the snapshot of the next checkpoint would be refused for, unless a resume was
\* given it; and no search runs without a worker, with more than it has permits
\* for, or with empty chunks (adjust_chunk_size, AdjustWorkers, validate_settings).
LimitsStayValid ==
    phase = "running" =>
        /\ live.limits.cpu_workers \in 1..permits /\ live.limits.chunk_size > 0
        /\ ~spoiled => ValidLimits(live.limits)

\* A snapshot is read back as it was written, with what only other versions know,
\* but for a key of an earlier version that means something else now; and a run
\* whose snapshot this version wrote is not refused (encode_value, decode_value).
Unknown(extra) == Without(extra, V1Keys)
RoundTrip ==
    stored # NoObject /\ Takes(stored) =>
        LET snapshot == Decode(stored)
        IN /\ Takes(Encode(snapshot))
           /\ Decode(Encode(snapshot)) = [snapshot EXCEPT !.extra = Unknown(@)]
WrittenIsTaken ==
    stored # NoObject /\ stored \notin StoredObjects /\ ~spoiled => Takes(stored)

\* What an earlier snapshot says is what the search gets, or it is refused: no
\* limit is bent into its bounds, no two names of one are in conflict.
LegacyIsHonoured ==
    stored # NoObject /\ Takes(stored) /\ SchemaVersion(stored) = 0 =>
        \A k \in LegacyKeys(stored) :
            Decode(stored).settings.limits[LegacyLimit(k)] = ValueOf(stored[k])

\* A profile asks for no less of the machine than the one below it, but that two
\* workers of eco are more than the one balanced has on two or three processors;
\* so does a thermal mode, whatever machine it is (for_profile).
Ladder == <<"eco", "balanced", "performance", "max">>
Machines == {1, 2, 3, 8}
NoLess(less, more) ==
    /\ \A field \in {"cpu_utilization", "gpu_utilization", "chunk_size", "queue_depth",
                     "memory_limit_mb", "max_fps"} : less[field] <= more[field]
    /\ \A field \in {"ui_refresh_ms", "checkpoint_every_secs", "background_yield_ms"} :
          less[field] >= more[field]
TableIsOrdered ==
    \A c \in Machines :
        LET table(profile, thermal) == ForProfile(profile, thermal, c, mode)
        IN /\ \A i \in 1..3 : Ladder[i] = live.profile =>
                 LET less == table(Ladder[i], live.thermal)
                     more == table(Ladder[i + 1], live.thermal)
                 IN /\ NoLess(less, more)
                    /\ less.cpu_workers <= more.cpu_workers \/ (i = 1 /\ c \in {2, 3})
           /\ live.thermal # "aggressive" =>
                 NoLess(table(live.profile, live.thermal),
                        table(live.profile, Warmer[live.thermal]))

\* Only a whole share and no yield keep the processor busy; a short batch has
\* its share and no more; no sleep is longer than half a second and the yield.
ThrottleKeepsTheShare ==
    phase = "running" /\ ~spoiled =>
        \A active \in {0, 1, 20, 1000} :
            LET sleep == ThrottleAfterBatch(live.limits, active)
                u == live.limits.cpu_utilization
            IN /\ sleep <= live.limits.background_yield_ms + 500
               /\ sleep < 500 => active * 100 <= u * (active + sleep)

\* The memory that is shown is at least that of the digits in flight.
EstimateCovers ==
    live.limits.chunk_size * live.limits.queue_depth
        <= EstimatedMemoryMb(live.limits, 64) * 1048576

\* The inductive invariant: a snapshot is one of those that were there or one that
\* this version wrote, in which only a limit given to a resume is out of bounds.
IsWritten(object) ==
    /\ V1Keys \subseteq DOMAIN object
    /\ object["schema_version"] = Number(1)
    /\ object["settings"] \in [settings : SettingsType]
    /\ object["current_offset"] \in {Null} \cup [number : Nat]
    /\ ~spoiled => ValidLimits(object["settings"].settings.limits)
LimitsInv ==
    /\ TypeOK /\ live \in SettingsType /\ spoiled \in BOOLEAN
    /\ LimitsStayValid
    /\ phase = "new" => stored = NoObject
    /\ stored \in {NoObject} \cup StoredObjects \/ IsWritten(stored)

\* Limits are what was asked for, within what can be stored and read back.
LimitsInvariant ==
    /\ TypeOK
    /\ LimitsStayValid
    /\ RoundTrip
    /\ WrittenIsTaken
    /\ LegacyIsHonoured
    /\ TableIsOrdered
    /\ ThrottleKeepsTheShare
    /\ EstimateCovers

\* "Larger chunk" always makes it larger, however small a quarter of it is, and
\* "smaller" makes it smaller down to one window; "more workers" and "fewer
\* workers" do one at a time, stopped only by the permits the search began with
\* and by the last worker.  They change no other limit (adjust_chunk_size,
\* handle_control_commands).
ChangesOnly(field) == \A other \in LimitFields \ {field} : live'.limits[other] = live.limits[other]
ChunkKeysMove ==
    LET old == live.limits.chunk_size
        new == live'.limits.chunk_size
    IN /\ AdjustChunkSize(1) => new > old /\ ChangesOnly("chunk_size")
       /\ AdjustChunkSize(-1) =>
             (new < old \/ (old = 1 /\ new = 1)) /\ new > 0 /\ ChangesOnly("chunk_size")
WorkerKeysMove ==
    LET old == live.limits.cpu_workers
        new == live'.limits.cpu_workers
    IN /\ AdjustWorkers(1) =>
             /\ IF old < permits THEN new = old + 1 ELSE new = old
             /\ ChangesOnly("cpu_workers")
       /\ AdjustWorkers(-1) =>
             /\ IF old > 1 THEN new = old - 1 ELSE new = old
             /\ ChangesOnly("cpu_workers")

\* The key of a profile asks for no less than the profile below it would on this
\* machine, with no more workers than the search began with, whatever the limits
\* were before; the thermal key leaves the limits alone, and three presses of it
\* are none (apply_profile, CycleThermalMode).
ProfileKeysClimb ==
    \A i \in 1..4 : SetProfile(Ladder[i]) =>
        /\ live'.profile = Ladder[i] /\ live'.thermal = live.thermal
        /\ live'.limits.cpu_workers \in 1..permits
        /\ i > 1 => NoLess(ForProfile(Ladder[i - 1], live.thermal, cores, mode), live'.limits)
ThermalKeyTurns ==
    CycleThermalMode =>
        /\ live'.limits = live.limits /\ live'.thermal # live.thermal
        /\ Warmer[Warmer[live'.thermal]] = live.thermal

\* Nothing is forgotten of what another version had stored (encode_value).
ExtrasAreKept ==
    stored # NoObject /\ Takes(stored) /\ stored' # stored =>
        Decode(stored').extra = Unknown(Decode(stored).extra)

\* Every key of a running search does what it names, within its bounds, and a
\* checkpoint or a resume keeps what another version had stored.
StepIsKept ==
    ChunkKeysMove /\ WorkerKeysMove /\ ProfileKeysClimb /\ ThermalKeyTurns /\ ExtrasAreKept
KeysAct == [][StepIsKept]_vars
=============================================================================
