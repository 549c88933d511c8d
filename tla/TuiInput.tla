------------------------------ MODULE TuiInput ------------------------------
(***************************************************************************)
(* Where a key, a click or a turn of the wheel goes in the terminal        *)
(* interface: the modals, the forms, the registry of commands with its key *)
(* bindings, and the hit areas that the last frame left behind, which may  *)
(* be older than the state they are used on.                               *)
(*                                                                         *)
(* What a form holds, the search and the list of runs are modules of their *)
(* own (HuntWizard, ConfigFile, TuiSession): here a form is the kind of    *)
(* the field that has the focus, and a list is its selected row, which a   *)
(* reload puts anywhere.  The palette offers what its query leaves of the  *)
(* commands of a context.  Who quits ends the session or stops its search, *)
(* which TuiSession follows: until it has, input goes where it goes here.  *)
(***************************************************************************)
EXTENDS Integers, Sequences

CONSTANT MaxRows    \* bound: the runs listed

InputConstants == MaxRows \in Nat

VARIABLES
    ui,         \* App
    drawn,      \* the view Regions was recorded for
    dirty       \* App::dirty

vars == <<ui, drawn, dirty>>

TabOrder == <<"Hunt", "Runs", "Gallery", "Data", "Settings">>
Tabs == {TabOrder[i] : i \in DOMAIN TabOrder}
\* Tab::step, around both ends.
Step(tab, delta) ==
    LET i == CHOOSE j \in DOMAIN TabOrder : TabOrder[j] = tab
    IN TabOrder[((i - 1 + delta) % Len(TabOrder)) + 1]

Active(u) == u.search # "none"
ContextOf(u) == [tab |-> u.tab, active |-> Active(u)]
Contexts == [tab : Tabs, active : BOOLEAN]
NoPalette == [tab |-> "none", active |-> FALSE]
Modal(u) ==
    CASE u.palette # NoPalette -> "palette"
      [] u.help -> "help"
      [] u.confirm -> "confirm"
      [] OTHER -> "none"

-----------------------------------------------------------------------------
(* The registry.  The name of a tab is the command that goes there.        *)

\* A command that lists two keys is bound twice.
Bind(action, key, scope) == [action |-> action, key |-> key, scope |-> scope]
Palettes == "palette only"  \* no key

GlobalCommands ==
    {Bind("Hunt", "1", "global"), Bind("Runs", "2", "global"),
     Bind("Gallery", "3", "global"), Bind("Data", "4", "global"),
     Bind("Settings", "5", "global"), Bind("NextTab", "tab", "global"),
     Bind("PrevTab", "shift+tab", "global"), Bind("OpenPalette", "ctrl+p", "global"),
     Bind("ToggleHelp", "?", "global"), Bind("ToggleHelp", "F1", "global"),
     Bind("Quit", "ctrl+q", "global")}
WizardCommands ==
    {Bind("StartSearch", "F9", "wizard"), Bind("StartSearch", "enter", "wizard"),
     Bind("ResetWizard", Palettes, "wizard")}
LiveCommands ==
    {Bind("TogglePause", "space", "live"), Bind("CycleProfile", "p", "live"),
     Bind("SaveCheckpoint", "s", "live"), Bind("ProfileEco", "F2", "live"),
     Bind("ProfileBalanced", "F3", "live"), Bind("ProfilePerformance", "F4", "live"),
     Bind("ProfileMax", "F5", "live"), Bind("MoreWorkers", "+", "live"),
     Bind("FewerWorkers", "-", "live"), Bind("LargerChunk", "]", "live"),
     Bind("SmallerChunk", "[", "live"), Bind("CycleThermal", "t", "live"),
     Bind("ToggleGpu", "g", "live"), Bind("ToggleMetrics", "m", "live"),
     Bind("ExportActiveRun", "e", "live"), Bind("StopSearch", "esc", "live"),
     Bind("DismissFinished", "enter", "live")}
TabCommands ==
    {Bind("ResumeSelectedRun", "r", "Runs"), Bind("ExportSelectedRun", "e", "Runs"),
     Bind("DeleteSelectedRun", "d", "Runs"), Bind("RefreshRuns", "F5", "Runs"),
     Bind("UseSelectedTemplate", "enter", "Gallery"),
     Bind("ValidateDigitFile", "v", "Data"), Bind("ImportDigitFile", "i", "Data"),
     Bind("CycleTheme", "t", "Settings"), Bind("ToggleUnicode", "u", "Settings"),
     Bind("SaveSettings", "ctrl+s", "Settings")}
Commands == GlobalCommands \cup WizardCommands \cup LiveCommands \cup TabCommands

\* Scope::is_available.
InScope(command, context) ==
    \/ command.scope \in {"global", context.tab}
    \/ command.scope = "live" /\ context.tab = "Hunt" /\ context.active
    \/ command.scope = "wizard" /\ context.tab = "Hunt" /\ ~context.active
Available(context) == {c \in Commands : InScope(c, context)}

-----------------------------------------------------------------------------
(* resolve: a key is an action in a context.                               *)

ControlKeys(context) ==
    {<<"ctrl+p", "OpenPalette">>, <<"ctrl+q", "Quit">>}
    \cup IF context.tab = "Settings" THEN {<<"ctrl+s", "SaveSettings">>} ELSE {}
EverywhereKeys ==
    {<<"shift+tab", "PrevTab">>, <<"tab", "NextTab">>,
     <<"F1", "ToggleHelp">>, <<"?", "ToggleHelp">>,
     <<"1", "Hunt">>, <<"2", "Runs">>, <<"3", "Gallery">>, <<"4", "Data">>,
     <<"5", "Settings">>}
StartKey(context) ==
    IF context.tab = "Hunt" /\ ~context.active THEN {<<"F9", "StartSearch">>} ELSE {}
\* On every tab, unlike their scope.
ProfileKeys(context) ==
    IF context.active
    THEN {<<"F2", "ProfileEco">>, <<"F3", "ProfileBalanced">>,
          <<"F4", "ProfilePerformance">>, <<"F5", "ProfileMax">>}
    ELSE {}
LiveKeys ==
    {<<"space", "TogglePause">>, <<"p", "CycleProfile">>, <<"s", "SaveCheckpoint">>,
     <<"+", "MoreWorkers">>, <<"-", "FewerWorkers">>, <<"]", "LargerChunk">>,
     <<"[", "SmallerChunk">>, <<"t", "CycleThermal">>, <<"g", "ToggleGpu">>,
     <<"m", "ToggleMetrics">>, <<"e", "ExportActiveRun">>, <<"esc", "StopSearch">>,
     <<"enter", "DismissFinished">>}
TabKeys(context) ==
    CASE context.tab = "Hunt" -> IF context.active THEN LiveKeys ELSE {}
      [] context.tab = "Runs" ->
            {<<"r", "ResumeSelectedRun">>, <<"e", "ExportSelectedRun">>,
             <<"d", "DeleteSelectedRun">>, <<"F5", "RefreshRuns">>}
      [] context.tab = "Gallery" -> {<<"enter", "UseSelectedTemplate">>}
      [] context.tab = "Data" -> {<<"v", "ValidateDigitFile">>, <<"i", "ImportDigitFile">>}
      [] context.tab = "Settings" -> {<<"t", "CycleTheme">>, <<"u", "ToggleUnicode">>}

\* The arm of a match that a key takes.
Match(key, arms) ==
    IF \E arm \in arms : arm[1] = key
    THEN (CHOOSE arm \in arms : arm[1] = key)[2]
    ELSE "none"
OrElse(route, other) == IF route = "none" THEN other ELSE route

\* The keys of a tab come after those that every tab has.
Resolve(key, context) ==
    OrElse(Match(key, ControlKeys(context) \cup EverywhereKeys \cup StartKey(context)
                      \cup ProfileKeys(context)),
           Match(key, TabKeys(context)))

-----------------------------------------------------------------------------
(* Keys and the field that has the focus.                                  *)

DigitKeys == {"1", "2", "3", "4", "5"}
Printable ==
    DigitKeys \cup {"space", "?", "y", "n", "q", "p", "s", "+", "-", "]", "[", "t", "g",
                    "m", "e", "r", "d", "v", "i", "u", "j"}
EditKeys == {"ctrl+u", "backspace", "home"}
ListKeys == {"up", "down", "j", "home", "pageup"}
Keys ==
    Printable \cup EditKeys \cup ListKeys
    \cup {"left", "right", "enter", "esc", "tab", "shift+tab", "ctrl+c", "ctrl+p",
          "ctrl+q", "ctrl+s", "F1", "F2", "F3", "F4", "F5", "F9"}

FocusKinds ==
    [Hunt |-> {"text", "number", "choice", "submit"}, Data |-> {"text", "choice"},
     Settings |-> {"number", "choice"}, Runs |-> {"none"}, Gallery |-> {"none"}]
FormOpen(u) == u.tab \in {"Data", "Settings"} \/ (u.tab = "Hunt" /\ ~Active(u))

\* Form::handle_key, TextInput and NumberInput: the keys a field consumes.
FieldTakes(focus, key) ==
    \/ key \in {"up", "down"}
    \/ key = "enter" /\ focus # "submit"
    \/ focus = "text" /\ key \in Printable \cup EditKeys \cup {"left", "right"}
    \/ focus = "number" /\ key \in DigitKeys \cup EditKeys \cup {"left", "right", "space"}
    \/ focus \in {"choice", "submit"} /\ key \in {"left", "right", "space"}

\* Quitting comes before the modals; the handed-over search has a key of its own
\* for it.
QuitKeys(u) == {"ctrl+c"} \cup (IF u.handed /\ Active(u) THEN {"q"} ELSE {})
ModalRoute(u, key) ==
    CASE u.help -> IF key \in {"esc", "enter", "?", "space"} THEN "close" ELSE "none"
      [] ~u.help /\ u.palette # NoPalette -> "palette"
      [] OTHER -> IF key \in {"y", "enter"} THEN "yes"
                  ELSE IF key \in {"n", "esc"} THEN "no" ELSE "none"
FormRoute(u, focus, key) ==
    IF FormOpen(u) /\ FieldTakes(focus, key) THEN "edit"
    ELSE IF FormOpen(u) /\ focus = "submit" /\ key = "enter" THEN "StartSearch"
    ELSE "none"
ListRoute(key) == IF key \in ListKeys THEN "navigate" ELSE "none"

\* Seeded fault: single-letter shortcuts win over the field.
Route_ShortcutsFirst(u, focus, key) ==
    IF key \in QuitKeys(u) THEN "Quit"
    ELSE IF Modal(u) # "none" THEN ModalRoute(u, key)
    ELSE OrElse(Resolve(key, ContextOf(u)), OrElse(FormRoute(u, focus, key), ListRoute(key)))

\* handle_key: a modal, the focused field, the bindings of the context, the list.
Route(u, focus, key) ==
    IF key \in QuitKeys(u) THEN "Quit"
    ELSE IF Modal(u) # "none" THEN ModalRoute(u, key)
    ELSE OrElse(FormRoute(u, focus, key), OrElse(Resolve(key, ContextOf(u)), ListRoute(key)))

-----------------------------------------------------------------------------
(* What an action may make of the interface.                               *)

Reloaded(u) == {[u EXCEPT !.row = r] : r \in 0..MaxRows}
Goto(u, tab) ==
    IF u.tab = tab THEN {u}
    ELSE IF tab = "Runs" THEN Reloaded([u EXCEPT !.tab = tab])
    ELSE {[u EXCEPT !.tab = tab]}

\* start_search and resume_selected may fail, and say so.
StartSearch(u) ==
    {u} \cup IF Active(u) THEN {} ELSE {[u EXCEPT !.search = "running", !.tab = "Hunt"]}
ResumeSelected(u) ==
    {u} \cup IF Active(u) \/ u.row = 0 THEN {}
             ELSE {[u EXCEPT !.search = "running", !.tab = "Hunt", !.handed = TRUE]}
DismissFinished(u) ==
    IF u.search # "finished" THEN {u}
    ELSE Reloaded([u EXCEPT !.search = "none"])
DeleteSelected(u) == {[u EXCEPT !.confirm = u.row # 0]}
\* Only the tab of the digit file shows something an edit makes untrue.
Validated(u) == {u, [u EXCEPT !.count = "current"]}

\* perform: of what is sent to the search, exported, reported or kept in a form
\* nothing is seen here.
Perform(u, action) ==
    CASE action \in Tabs -> Goto(u, action)
      [] action = "NextTab" -> Goto(u, Step(u.tab, 1))
      [] action = "PrevTab" -> Goto(u, Step(u.tab, -1))
      [] action = "OpenPalette" -> {[u EXCEPT !.palette = ContextOf(u)]}
      [] action = "ToggleHelp" -> {[u EXCEPT !.help = ~@]}
      [] action = "StartSearch" -> StartSearch(u)
      [] action \in {"StopSearch", "DismissFinished"} -> DismissFinished(u)
      [] action = "ResumeSelectedRun" -> ResumeSelected(u)
      [] action = "DeleteSelectedRun" -> DeleteSelected(u)
      [] action = "RefreshRuns" -> Reloaded(u)
      [] action = "UseSelectedTemplate" -> {[u EXCEPT !.tab = "Hunt"]}
      [] action \in {"ValidateDigitFile", "ImportDigitFile"} -> Validated(u)
      [] OTHER -> {u}

\* Seeded fault: the count stays when the path changes.
Edited_KeepsCount(u) ==
    {[u EXCEPT !.count = IF u.tab = "Data" /\ @ = "current" THEN "stale" ELSE @]}

\* An edit of the form that is open: on Data the count of digits goes.
Edited(u) == {[u EXCEPT !.count = IF u.tab = "Data" THEN "none" ELSE @]}

\* move_selection stops at the ends.
Moved(u) ==
    IF u.tab # "Runs" \/ u.row = 0 THEN {u} ELSE {[u EXCEPT !.row = r] : r \in 1..MaxRows}

\* resolve_delete and delete_selected.
Resolved(u, confirmed) ==
    LET closed == [u EXCEPT !.confirm = FALSE]
    IN IF confirmed THEN Reloaded(closed) ELSE {closed}

\* chosen: the palette closes before its command is performed.
FromPalette(u) ==
    LET closed == [u EXCEPT !.palette = NoPalette]
    IN UNION {Perform(closed, c.action) : c \in Available(u.palette)}
\* handle_palette_key: a query that is edited or a move, Esc or Enter without a
\* match, Enter with one.
PaletteOutcomes(u) ==
    {[u EXCEPT !.palette = ContextOf(u)], [u EXCEPT !.palette = NoPalette]}
    \cup FromPalette(u)

Outcomes(u, route) ==
    CASE route = "close" -> {[u EXCEPT !.help = FALSE]}
      [] route = "palette" -> PaletteOutcomes(u)
      [] route = "yes" -> Resolved(u, TRUE)
      [] route = "no" -> Resolved(u, FALSE)
      [] route = "edit" -> Edited(u)
      [] route = "navigate" -> Moved(u)
      [] OTHER -> Perform(u, route)

-----------------------------------------------------------------------------
(* The mouse: what lies where is what the last frame drew.                 *)

\* status_hints, of which a narrow bar drops the last ones.
Buttons(view) ==
    (CASE view.tab = "Hunt" /\ view.search = "finished" ->
            {"DismissFinished", "ExportActiveRun"}
       [] view.tab = "Hunt" /\ view.search = "running" ->
            {"TogglePause", "CycleProfile", "StopSearch", "ExportActiveRun"}
       [] view.tab = "Hunt" /\ view.search = "none" -> {"StartSearch"}
       [] view.tab = "Runs" ->
            {"ResumeSelectedRun", "ExportSelectedRun", "DeleteSelectedRun"}
       [] view.tab = "Gallery" -> {"UseSelectedTemplate"}
       [] view.tab = "Data" -> {"ValidateDigitFile", "ImportDigitFile"}
       [] view.tab = "Settings" -> {"SaveSettings"})
    \cup {"OpenPalette", "ToggleHelp"}

View(u) == [tab |-> u.tab, search |-> u.search, modal |-> Modal(u), row |-> u.row]
\* Before the first frame, and on a terminal that is too small.
NothingDrawn == [tab |-> "none", search |-> "none", modal |-> "none", row |-> 0]
FormDrawn ==
    drawn.tab \in {"Data", "Settings"} \/ (drawn.tab = "Hunt" /\ drawn.search = "none")
ListDrawn == drawn.tab \in {"Runs", "Gallery"}

\* click_form, on the form of the tab that is open now.
ClickForm(u) ==
    IF FormOpen(u) THEN Edited(u) \cup (IF u.tab = "Hunt" THEN StartSearch(u) ELSE {})
    ELSE {u}

\* Below the modals: a button, a tab, a row of the list, a row of the form, or
\* nothing.
ClickScreen(u) ==
    {u}
    \cup (IF drawn = NothingDrawn THEN {}
          ELSE (UNION {Perform(u, a) : a \in Buttons(drawn)})
               \cup (UNION {Goto(u, t) : t \in Tabs}))
    \cup (IF ListDrawn THEN Moved(u) ELSE {})
    \cup (IF FormDrawn THEN ClickForm(u) ELSE {})

\* Seeded fault: the help does not hold back a click.
ClickOutcomes_ThroughHelp(u) ==
    IF u.palette # NoPalette
    THEN {u} \cup (IF drawn.modal = "palette"
                   THEN {[u EXCEPT !.palette = NoPalette]} \cup FromPalette(u) ELSE {})
    ELSE IF u.confirm
    THEN {u} \cup (IF drawn.modal = "confirm"
                   THEN Resolved(u, TRUE) \cup Resolved(u, FALSE) ELSE {})
    ELSE ClickScreen(u)

\* handle_click: a modal owns every click.
ClickOutcomes(u) ==
    IF u.palette # NoPalette
    THEN {u} \cup (IF drawn.modal = "palette"
                   THEN {[u EXCEPT !.palette = NoPalette]} \cup FromPalette(u) ELSE {})
    ELSE IF u.help THEN {[u EXCEPT !.help = FALSE]}
    ELSE IF u.confirm
    THEN {u} \cup (IF drawn.modal = "confirm"
                   THEN Resolved(u, TRUE) \cup Resolved(u, FALSE) ELSE {})
    ELSE ClickScreen(u)

\* handle_scroll: only the palette holds the wheel back.
ScrollOutcomes(u) ==
    IF u.palette # NoPalette THEN {u}
    ELSE Moved(u) \cup (IF FormDrawn THEN IF FormOpen(u) THEN Edited(u) ELSE {u} ELSE {})

-----------------------------------------------------------------------------
Init ==
    /\ \E row \in 0..MaxRows, launched \in BOOLEAN :
          ui = [tab |-> "Hunt", search |-> IF launched THEN "running" ELSE "none",
                handed |-> launched, help |-> FALSE, palette |-> NoPalette,
                confirm |-> FALSE, row |-> row, count |-> "none"]
    /\ drawn = NothingDrawn
    /\ dirty = TRUE

Key ==
    /\ \E route \in {Route(ui, focus, key) : focus \in FocusKinds[ui.tab], key \in Keys} :
          ui' \in Outcomes(ui, route)
    /\ dirty' = TRUE
    /\ UNCHANGED drawn

Click ==
    /\ ui' \in ClickOutcomes(ui)
    /\ dirty' = TRUE
    /\ UNCHANGED drawn

Scroll ==
    /\ ui' \in ScrollOutcomes(ui)
    /\ dirty' = TRUE
    /\ UNCHANGED drawn

\* poll_worker and on_finished, with a reload unless the search failed.
SearchEnds ==
    /\ ui.search = "running"
    /\ LET ended == [ui EXCEPT !.search = "finished"]
       IN ui' \in {ended} \cup Reloaded(ended)
    /\ dirty' = TRUE
    /\ UNCHANGED drawn

Draw ==
    /\ drawn' \in {View(ui), NothingDrawn}
    /\ dirty' = FALSE
    /\ UNCHANGED ui

Next == Key \/ Click \/ Scroll \/ SearchEnds \/ Draw

Spec == Init /\ [][Next]_vars

-----------------------------------------------------------------------------
(* Properties.                                                             *)

TypeOK ==
    /\ ui \in [tab : Tabs, search : {"none", "running", "finished"}, handed : BOOLEAN,
               help : BOOLEAN, palette : Contexts \cup {NoPalette}, confirm : BOOLEAN,
               row : 0..MaxRows, count : {"none", "current", "stale"}]
    /\ dirty \in BOOLEAN

\* Keys ask for the help first and clicks for the palette: there is never more
\* than one modal to ask for.
OneModal ==
    /\ ui.palette # NoPalette => ~ui.help /\ ~ui.confirm
    /\ ~(ui.help /\ ui.confirm)

\* Nothing changes the context under an open palette: what it offers is
\* available, "never offered 'pause search' while browsing templates".
PaletteIsCurrent == ui.palette \in {NoPalette, ContextOf(ui)}

\* Whatever the screen has not shown is marked (App::dirty).
ScreenOrDirty == dirty \/ drawn \in {View(ui), NothingDrawn}

\* The number of digits shown is that of the file named (DataTab).
CountIsCurrent == ui.count # "stale"

\* What is typed into a field or the palette does nothing else, unless a search
\* was handed over: then q quits, even there.
TypingIsNotACommand ==
    ~ui.handed /\ ~ui.help /\ ~ui.confirm =>
        LET route(key) == Route(ui, "text", key)
        IN \A key \in Printable :
              /\ ui.palette # NoPalette => route(key) = "palette"
              /\ FormOpen(ui) /\ ui.palette = NoPalette => route(key) = "edit"

\* With the modals closed, a key that the help of a view lists does what it says
\* there wherever the focus is, unless the field with the focus takes it, and with
\* some focus none does: Enter starts a search on the row that says so.  The
\* exception is F5 on Runs, which sets a profile while a search is active.
HelpIsTrue ==
    LET bare == [ui EXCEPT !.help = FALSE, !.palette = NoPalette, !.confirm = FALSE]
        route(focus, command) == Route(bare, focus, command.key)
    IN \A command \in Available(ContextOf(ui)) :
          \/ command.key = Palettes
          \/ command.action = "RefreshRuns" /\ Active(ui)
          \/ /\ \A focus \in FocusKinds[ui.tab] :
                   route(focus, command) \in {command.action, "edit"}
             /\ \E focus \in FocusKinds[ui.tab] : route(focus, command) = command.action

\* Ctrl+C works inside every modal.
CtrlCQuits ==
    \A focus \in FocusKinds[ui.tab] :
        Route(ui, focus, "ctrl+c") = "Quit"

\* Input reaches what is in front, and what is in front is true.
InputInvariant ==
    /\ TypeOK
    /\ OneModal
    /\ PaletteIsCurrent
    /\ ScreenOrDirty
    /\ CountIsCurrent
    /\ TypingIsNotACommand
    /\ HelpIsTrue
    /\ CtrlCQuits

\* While a modal is up nothing behind it is operated, by key or by click: no tab
\* is changed, no search started or dismissed, no other modal opened.  The help
\* closes without doing anything, the confirmation with its own effect alone.
\* The wheel alone gets through the help and the confirmation, and moves the
\* selected row or the focus of a form.
Behind(u) == <<u.tab, Active(u), u.handed>>
ModalHolds ==
    /\ Modal(ui) \in {"help", "confirm"} =>
          Modal(ui') \in {"none", Modal(ui)} /\ Behind(ui') = Behind(ui)
    /\ Modal(ui) = "palette" /\ Modal(ui') = "palette" => Behind(ui') = Behind(ui)
ModalsOwnInput == [][ModalHolds]_vars
=============================================================================
