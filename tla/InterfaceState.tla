---------------------------- MODULE InterfaceState ----------------------------
(***************************************************************************)
(* What a session of the terminal interface has and keeps: its own state   *)
(* (TuiSession), the database of runs (RunStore), the configuration file   *)
(* with the Settings tab (ConfigFile), when it is drawn (FrameLoop), the   *)
(* limits of a search with their snapshot (ResourceLimits), where input    *)
(* goes (TuiInput) and the wizard (HuntWizard).  They share no state.      *)
(* MCInterface checks them, InterfaceProofs proves what is stated here and *)
(* in TuiSession.                                                          *)
(***************************************************************************)
EXTENDS TuiSession

CONSTANTS
    None,
    Processes, Ids, Names, MaxOffset, Score, StoreSetups,   \* of RunStore
    Sessions, Themes, DefaultTheme, MaxThreshold, Typeable, Inodes,
    MaxSaves, MaxCrashes,                                   \* of ConfigFile
    Policies, Lifetime, MaxVisible, IdleRedraw,             \* of FrameLoop
    Cores, Given, StartOptions, ResumeOptions, StoredObjects,
    MaxPresses,                                             \* of ResourceLimits
    MaxRows,                                                \* of TuiInput
    MaxInt, MaxLen, WizardSetups                            \* of HuntWizard

VARIABLES
    side,           \* whose behaviour this is: the others rest
    roles, tables, columns, runs, events, writer, proc, crashes, born, ancient, shared, trimmed,
    path, temp, text, session, saves, deaths, overlapped,
    policy, toasts, marked, full, elapsed, waiting, wait, screen, changed, stale,
    cores, mode, stored, limits, permits, stage, answer, presses, spoiled,
    ui, drawn, dirty,
    wizard, form, scroll, visible, shown

databaseVars ==
    <<roles, tables, columns, runs, events, writer, proc, crashes, born, ancient, shared, trimmed>>
configVars == <<path, temp, text, session, saves, deaths, overlapped>>
frameVars == <<policy, toasts, marked, full, elapsed, waiting, wait, screen, changed, stale>>
limitsVars == <<cores, mode, stored, limits, permits, stage, answer, presses, spoiled>>
inputVars == <<ui, drawn, dirty>>
wizardVars == <<wizard, form, scroll, visible, shown>>

Store == INSTANCE RunStore WITH setup <- roles
ASSUME StoreAssumption == Store!StoreConstants

Config == INSTANCE ConfigFile WITH crashes <- deaths
ASSUME ConfigAssumption == Config!ConfigConstants

Frame == INSTANCE FrameLoop WITH dirty <- marked
ASSUME FrameAssumption == Frame!FrameConstants

Limits == INSTANCE ResourceLimits WITH live <- limits, phase <- stage
ASSUME LimitsAssumption == Limits!LimitsConstants

Keys == INSTANCE TuiInput
ASSUME InputAssumption == Keys!InputConstants

Wizard == INSTANCE HuntWizard
ASSUME WizardAssumption == Wizard!WizardConstants

-----------------------------------------------------------------------------
(* Properties, stated in the modules of the parts.                         *)

\* The database says what was done, to rows that belong together (RunStore).
StoreInvariant == side = "store" => Store!StoreInvariant
\* No statement harms rows that others work on (RunStore).
StatementsAreSafe == [][side = "store" => Store!StatementIsSafe]_databaseVars

\* A form shows and saves what was typed (ConfigFile).
ConfigInvariant == side = "config" => Config!ConfigInvariant
\* An interrupted save leaves a configuration that can be read (ConfigFile).
InterruptedSavesLeaveAFile == [][side = "config" => Config!AFileIsLeft]_configVars

\* The screen is put right in time (FrameLoop).
FrameInvariant == side = "frame" => Frame!FrameInvariant

\* A search has limits that can be stored and read back (ResourceLimits).
LimitsInvariant == side = "limits" => Limits!LimitsInvariant
\* A key does what it names within its bounds, and what other versions stored
\* is kept (ResourceLimits).
KeysAct == [][side = "limits" => Limits!StepIsKept]_limitsVars

\* Keys, help, palette and hit areas are those of the screen, and what the
\* wizard accepts is what it shows (TuiInput, HuntWizard).
InputInvariant ==
    /\ side = "input" => Keys!InputInvariant
    /\ side = "wizard" => Wizard!WizardInvariant
\* A modal owns the input, and an edit changes one field (TuiInput, HuntWizard).
InputStaysWhereItGoes ==
    [][/\ side = "input" => Keys!ModalHolds
       /\ side = "wizard" => Wizard!EditIsLocal]_<<inputVars, wizardVars>>
=============================================================================
