----------------------------- MODULE ConfigFile -----------------------------
(***************************************************************************)
(* The configuration file and the sessions that edit it: Config::load when *)
(* a session starts, the Settings tab whose form is previewed at once, and *)
(* Config::save through a temporary file and a rename.                     *)
(*                                                                         *)
(* A configuration is two fields that are treated differently: a choice,   *)
(* which the form always has, and a number, which is typed, may be         *)
(* unreadable, and is cut to its bound when it is taken over.  The path    *)
(* and the temporary path lead to an inode or to nothing; every process    *)
(* uses the same temporary path.  Directories exist.                       *)
(***************************************************************************)
EXTENDS Integers, FiniteSets

CONSTANTS
    Sessions,
    Themes, DefaultTheme,
    MaxThreshold,   \* the bound the form's number is cut to
    Typeable,       \* numbers that may be typed
    Inodes,
    None,           \* no inode, no text, and none of the above
    MaxSaves,       \* bound: saves that are begun
    MaxCrashes      \* bound: sessions that die

Unreadable == -1
Configs == [theme : Themes, threshold : 0..MaxThreshold]
Forms == [theme : Themes, threshold : Typeable \cup (0..MaxThreshold) \cup {Unreadable}]
Default == [theme |-> DefaultTheme, threshold |-> MaxThreshold]
Torn == [theme |-> None, threshold |-> Unreadable]  \* a text no parser takes

ConfigConstants ==
    /\ DefaultTheme \in Themes /\ None \notin Themes \cup Inodes
    /\ MaxThreshold \in Nat /\ Typeable \subseteq Nat
    /\ Inodes # {}
    /\ MaxSaves \in Nat /\ MaxCrashes \in Nat

VARIABLES
    path, temp,     \* the inodes of config.toml and config.toml.tmp
    text,           \* what each inode holds
    session,        \* what each session knows
    saves, crashes,
    overlapped      \* history: two saves were under way at a time

vars == <<path, temp, text, session, saves, crashes, overlapped>>

Off == [pc |-> "off", config |-> Default, form |-> Default, theme |-> DefaultTheme,
        dirty |-> FALSE, warned |-> FALSE, fd |-> None]
Saving == {s \in Sessions : session[s].pc \in {"write", "rename"}}
Becomes(s, record) == session' = [session EXCEPT ![s] = record]
FilesKeep == UNCHANGED <<path, temp, text>>
BoundsKeep == UNCHANGED <<saves, crashes, overlapped>>

Init ==
    /\ path \in {None} \cup {CHOOSE i \in Inodes : TRUE}
    /\ temp = None
    /\ text \in [Inodes -> {Torn} \cup Configs]
    /\ \A i \in Inodes : i # path => text[i] = Torn
    /\ session = [s \in Sessions |-> Off]
    /\ saves = 0 /\ crashes = 0 /\ overlapped = FALSE

\* Config::load, App::new and SettingsTab::new: no file is no warning, a
\* broken one is.
Load(s) ==
    /\ session[s].pc = "off"
    /\ LET broken == path # None /\ text[path] = Torn
           config == IF path = None \/ broken THEN Default ELSE text[path]
       IN Becomes(s, [Off EXCEPT !.pc = "edit", !.config = config, !.form = config,
                                 !.theme = config.theme, !.warned = broken])
    /\ FilesKeep /\ BoundsKeep

\* SettingsTab::apply: an unreadable number leaves what the configuration had.
Apply(form, base) ==
    [theme |-> form.theme,
     threshold |-> IF form.threshold = Unreadable THEN base.threshold
                   ELSE IF form.threshold > MaxThreshold THEN MaxThreshold
                   ELSE form.threshold]

\* A key or a click the form takes, or a command of the palette: the preview
\* follows.
Edit(s) ==
    /\ session[s].pc = "edit"
    /\ \E form \in Forms :
          /\ \/ form.theme = session[s].form.theme
             \/ form.threshold = session[s].form.threshold
          /\ Becomes(s, [session[s] EXCEPT
                !.form = form, !.dirty = TRUE,
                !.theme = Apply(form, session[s].config).theme])
    /\ FilesKeep /\ BoundsKeep

\* Seeded fault: the file is written in place.
OpenTemp_InPlace(s) ==
    /\ session[s].pc = "edit" /\ saves < MaxSaves
    /\ \E i \in Inodes :
          /\ IF path # None THEN i = path
             ELSE i # temp /\ \A t \in Sessions : session[t].fd # i
          /\ path' = i
          /\ temp' = i
          /\ text' = [text EXCEPT ![i] = Torn]
          /\ Becomes(s, [session[s] EXCEPT !.pc = "write", !.fd = i])
    /\ saves' = saves + 1
    /\ overlapped' = (overlapped \/ Saving # {})
    /\ UNCHANGED crashes

\* Config::save: fs::write opens the temporary file, empty,
OpenTemp(s) ==
    /\ session[s].pc = "edit" /\ saves < MaxSaves
    /\ \E i \in Inodes :
          /\ IF temp # None THEN i = temp
             ELSE i # path /\ \A t \in Sessions : session[t].fd # i
          /\ temp' = i
          /\ text' = [text EXCEPT ![i] = Torn]
          /\ Becomes(s, [session[s] EXCEPT !.pc = "write", !.fd = i])
    /\ saves' = saves + 1
    /\ overlapped' = (overlapped \/ Saving # {})
    /\ UNCHANGED <<path, crashes>>

\* and writes what SettingsTab::save folded; over another's text it may leave
\* the tail of that.
WriteTemp(s) ==
    /\ session[s].pc = "write"
    /\ LET saved == Apply(session[s].form, session[s].config)
       IN \E left \in {saved} \cup (IF text[session[s].fd] = Torn THEN {} ELSE {Torn}) :
             text' = [text EXCEPT ![session[s].fd] = left]
    /\ Becomes(s, [session[s] EXCEPT !.pc = "rename", !.fd = None])
    /\ UNCHANGED <<path, temp>> /\ BoundsKeep

\* A write that fails may have written a part; the session keeps what it had, and
\* says so.
WriteFails(s) ==
    /\ session[s].pc = "write"
    /\ \E left \in {text[session[s].fd], Torn} :
          text' = [text EXCEPT ![session[s].fd] = left]
    /\ Becomes(s, [session[s] EXCEPT !.pc = "edit", !.fd = None])
    /\ UNCHANGED <<path, temp>> /\ BoundsKeep

\* Seeded fault: a save that failed leaves the form as if it had been saved.
Rename_FailsClean(s) ==
    /\ session[s].pc = "rename"
    /\ \/ /\ Becomes(s, [session[s] EXCEPT !.pc = "edit", !.dirty = FALSE])
          /\ UNCHANGED <<path, temp>>
       \/ /\ temp # None
          /\ path' = temp
          /\ temp' = None
          /\ LET saved == Apply(session[s].form, session[s].config)
             IN Becomes(s, [session[s] EXCEPT !.pc = "edit", !.config = saved,
                                              !.theme = saved.theme, !.dirty = FALSE])
    /\ UNCHANGED text /\ BoundsKeep

\* The rename, which may fail as the write may, and does if another save took the
\* temporary file away.
Rename(s) ==
    /\ session[s].pc = "rename"
    /\ \/ /\ Becomes(s, [session[s] EXCEPT !.pc = "edit"])
          /\ UNCHANGED <<path, temp>>
       \/ /\ temp # None
          /\ path' = temp
          /\ temp' = None
          /\ LET saved == Apply(session[s].form, session[s].config)
             IN Becomes(s, [session[s] EXCEPT !.pc = "edit", !.config = saved,
                                              !.theme = saved.theme, !.dirty = FALSE])
    /\ UNCHANGED text /\ BoundsKeep

\* A session ends, between or during its saves.
End(s) ==
    /\ session[s].pc # "off" /\ crashes < MaxCrashes
    /\ crashes' = crashes + 1
    /\ Becomes(s, Off)
    /\ FilesKeep /\ UNCHANGED <<saves, overlapped>>

Next ==
    \E s \in Sessions :
        \/ Load(s) \/ Edit(s) \/ End(s)
        \/ OpenTemp(s) \/ WriteTemp(s) \/ WriteFails(s) \/ Rename(s)

Spec == Init /\ [][Next]_vars

-----------------------------------------------------------------------------
(* Properties.                                                             *)

TypeOK ==
    /\ path \in Inodes \cup {None} /\ temp \in Inodes \cup {None}
    /\ text \in [Inodes -> Configs \cup {Torn}]
    /\ \A s \in Sessions :
          /\ session[s].config \in Configs
          /\ session[s].form \in Forms
          /\ session[s].fd \in Inodes \cup {None}

\* What is shown is what the form says, saved or not (apply_settings_preview).
PreviewFollowsForm == \A s \in Sessions : session[s].theme = session[s].form.theme

\* A form that is not marked as changed would save what was loaded or saved:
\* nothing typed is forgotten in silence, be it that the save failed.
CleanMeansSaved ==
    \A s \in Sessions :
        ~session[s].dirty => Apply(session[s].form, session[s].config) = session[s].config

ConfigInvariant == TypeOK /\ PreviewFollowsForm /\ CleanMeansSaved

\* A file that can be read stays one, wherever a save is interrupted or fails, as long as
\* no two saves were under way at a time: two sessions have one temporary file
\* (Config::save).
AFileIsLeft ==
    ~overlapped' /\ path # None /\ text[path] # Torn =>
        path' # None /\ text'[path'] # Torn
InterruptedSavesLeaveAFile == [][AFileIsLeft]_vars
=============================================================================
