----------------------------- MODULE HuntWizard -----------------------------
(***************************************************************************)
(* The wizard that describes a search: the form and its fields, which      *)
(* fields the choices leave enabled, keys and clicks, the text a field     *)
(* holds, the scrolling panel, and what start_spec makes of the form.      *)
(*                                                                         *)
(* A number's text is the number, Blank, or TooLong for an unsigned        *)
(* integer; any key that edits one may leave any number.  A toggle is a    *)
(* choice of two.  Names of templates and labels are left out.             *)
(***************************************************************************)
EXTENDS Integers, SequencesExt

CONSTANTS
    MaxInt,         \* the largest signed integer
    MaxLen,         \* bound: the characters of a text
    WizardSetups    \* what is edited: see SetupType

VARIABLES
    wizard,     \* the setup
    form,       \* the values of the fields, which are enabled, and the focus
    scroll,     \* HuntTab::scroll; RowRegion's first index
    visible,    \* rows the last frame had for the form
    shown       \* nothing has changed since

vars == <<wizard, form, scroll, visible, shown>>

Order == <<"ArtSource", "Template", "ArtFile", "Name", "PiSource", "PiFile",
           "AllowDecimalPrefix", "SizeMode", "Start", "AdvancedHeading", "MatchMode",
           "Width", "Height", "CanvasWidth", "CanvasHeight", "Threshold", "Invert",
           "KeepGoing", "Profile", "Gpu", "Thermal", "Workers", "Limit">>
Fields == ToSet(Order)
Index(field) == CHOOSE i \in DOMAIN Order : Order[i] = field

\* The options of the choices and toggles, the bounds of the numbers.
Options == [ArtSource |-> 2, Template |-> 2, PiSource |-> 3, AllowDecimalPrefix |-> 2,
            SizeMode |-> 4, MatchMode |-> 3, Invert |-> 2, KeepGoing |-> 2,
            Profile |-> 4, Gpu |-> 3, Thermal |-> 3]
Bounds == [Width |-> <<1, 128>>, Height |-> <<1, 128>>, CanvasWidth |-> <<1, 256>>,
           CanvasHeight |-> <<1, 256>>, Threshold |-> <<0, 9>>, Workers |-> <<0, 1024>>,
           Limit |-> <<0, MaxInt>>]
Selects == DOMAIN Options
Numbers == DOMAIN Bounds
Texts == {"ArtFile", "Name", "PiFile"}
Values == Selects \cup Numbers

Presets == <<<<8, 8>>, <<12, 12>>, <<16, 16>>>>
CustomSize == 3
Emergence == 0
Blank == -1
TooLong == -2

SetupType ==
    [edits : SUBSET Fields,     \* bound: the fields whose values change
     numbers : SUBSET (Nat \cup {Blank, TooLong}), \* bound: what a number's text may become
     letters : SUBSET STRING,   \* bound: the characters typed
     heights : SUBSET Nat,      \* bound: the rows a frame may have
     sizes : SUBSET (Nat \X Nat)]   \* the configured target sizes

\* What the texts are made of: what is typed, and a template's name.
Letters == {"h"} \cup UNION {setup.letters : setup \in WizardSetups}

WizardConstants == MaxInt \in Nat /\ MaxLen \in Nat /\ WizardSetups \subseteq SetupType

-----------------------------------------------------------------------------
(* TextInput, whose cursor counts characters.                              *)

Text(value, cursor) == [value |-> value, cursor |-> cursor]
Typed(value) == Text(value, Len(value))
Before(t) == SubSeq(t.value, 1, t.cursor)
After(t) == SubSeq(t.value, t.cursor + 1, Len(t.value))
\* str::trim: a text of spaces is empty.
Trimmed(value) ==
    LET kept == {i \in DOMAIN value : value[i] # " "}
    IN IF kept = {} THEN <<>> ELSE SubSeq(value, Min(kept), Max(kept))

Insert(t, ch) == Text(Before(t) \o <<ch>> \o After(t), t.cursor + 1)
DeleteBefore(t) ==
    IF t.cursor = 0 THEN t ELSE Text(Front(Before(t)) \o After(t), t.cursor - 1)
DeleteAt(t) ==
    IF t.cursor >= Len(t.value) THEN t ELSE Text(Before(t) \o Tail(After(t)), t.cursor)
\* Spaces before the cursor, then what is not a space.
DeleteWordBefore(t) ==
    LET word == {k \in 0..t.cursor :
                    \E m \in k..t.cursor :
                        /\ \A i \in k+1..m : t.value[i] # " "
                        /\ \A i \in m+1..t.cursor : t.value[i] = " "}
        target == CHOOSE k \in word : \A m \in word : k <= m
    IN Text(SubSeq(t.value, 1, target) \o After(t), target)
MoveCursor(t, delta) ==
    IF t.cursor + delta \in 0..Len(t.value) THEN [t EXCEPT !.cursor = @ + delta] ELSE t

\* handle_key, but for the arrows.
TextEdits(t) ==
    {Insert(t, ch) : ch \in wizard.letters}
    \cup {DeleteBefore(t), DeleteAt(t), DeleteWordBefore(t), Typed(<<>>),
          Text(t.value, 0), Typed(t.value)}

-----------------------------------------------------------------------------
(* Form.                                                                   *)

\* NumberInput::nudge: a text that is no signed integer counts as the minimum;
\* the sum wraps.
Nudge(number, delta, bounds) ==
    LET current == IF number \in 0..MaxInt THEN number ELSE bounds[1]
        size == MaxInt + 1
        sum == ((current + delta + size) % (2 * size)) - size
    IN IF sum < bounds[1] THEN bounds[1] ELSE IF sum > bounds[2] THEN bounds[2] ELSE sum

\* Field::step.
Stepped(f, field, delta) ==
    IF field \in Selects THEN [f EXCEPT !.val[field] = (@ + delta) % Options[field]]
    ELSE IF field \in Numbers
    THEN [f EXCEPT !.val[field] = Nudge(@, delta, Bounds[field])]
    ELSE f

\* Seeded fault: the field next to the focus is taken, enabled or not.
MoveFocus_Anywhere(f, delta) ==
    [f EXCEPT !.focus = Order[((Index(@) - 1 + delta) % Len(Order)) + 1]]

\* move_focus: past what is disabled, around the ends.
MoveFocus(f, delta) ==
    LET at(k) == Order[((Index(f.focus) - 1 + k * delta) % Len(Order)) + 1]
        enabled == {k \in 1..Len(Order) : at(k) \in f.enabled}
    IN IF enabled = {} THEN f
       ELSE [f EXCEPT !.focus = at(CHOOSE k \in enabled : \A m \in enabled : k <= m)]
EnsureEnabled(f) == IF f.focus \in f.enabled THEN f ELSE MoveFocus(f, 1)

EnabledBy(val) ==
    LET template == val.ArtSource = 0
        digitFile == val.PiSource = 1
        custom == val.SizeMode = CustomSize
        emergence == val.MatchMode = Emergence
    IN Fields \ UNION {
        {"AdvancedHeading"},
        IF template THEN {"ArtFile"} ELSE {"Template"},
        IF digitFile THEN {} ELSE {"PiFile", "AllowDecimalPrefix"},
        IF custom THEN {} ELSE {"Width", "Height"},
        IF emergence THEN {"Threshold", "Invert"} ELSE {"CanvasWidth", "CanvasHeight"}}

\* Seeded fault: a preset is a label that leaves the numbers alone.
SyncEnabled_LabelOnly(f) == EnsureEnabled([f EXCEPT !.enabled = EnabledBy(f.val)])

\* sync_enabled: a preset overwrites width and height.
SyncEnabled(f) ==
    LET size == IF f.val.SizeMode = CustomSize THEN <<f.val.Width, f.val.Height>>
                ELSE Presets[f.val.SizeMode + 1]
    IN EnsureEnabled([f EXCEPT !.enabled = EnabledBy(f.val),
                               !.val.Width = size[1], !.val.Height = size[2]])

\* HuntTab::new, from the configuration: a size that is no preset is a custom one.
New(size, mode) ==
    LET preset == SelectInSeq(Presets, LAMBDA s : s = size)
    IN SyncEnabled(
        [val |-> [field \in Values |->
            CASE field \in {"Width", "CanvasWidth"} -> size[1]
              [] field \in {"Height", "CanvasHeight"} -> size[2]
              [] field = "SizeMode" -> IF preset = 0 THEN CustomSize ELSE preset - 1
              [] field = "MatchMode" -> mode
              [] field = "Threshold" -> 5
              [] field \in {"Profile", "Gpu", "Thermal"} -> 1
              [] OTHER -> 0],
         text |-> [field \in Texts |-> Typed(<<>>)],
         enabled |-> {}, focus |-> "ArtSource"])
NewForms == [setup \in WizardSetups |->
    {New(size, mode) : size \in setup.sizes,
        mode \in IF "MatchMode" \in setup.edits THEN 0..2 ELSE {Emergence}}]
News == NewForms[wizard]

Init ==
    /\ wizard \in WizardSetups
    /\ form \in News
    /\ scroll = 0 /\ visible = 0 /\ shown = FALSE

-----------------------------------------------------------------------------
(* Keys, clicks and commands.  The guards of Change bound what is edited.  *)

Editable(f) ==
    (wizard.edits \cap Selects)
    \cup {field \in wizard.edits \cap Numbers : f.val[field] \in wizard.numbers}
    \cup ({"Width", "Height"} \ {f.focus})
InBounds(f) ==
    /\ {field \in Values : f.val[field] # form.val[field]} \subseteq Editable(f)
    /\ \A field \in Texts : f.text[field] # form.text[field] =>
          field \in wizard.edits /\ Len(f.text[field].value) <= MaxLen
Change(f) ==
    /\ InBounds(f)
    /\ form' = f
    /\ shown' = (shown /\ f = form)
    /\ UNCHANGED <<wizard, scroll, visible>>

\* Up, Down and Enter, or the wheel; on the button Enter submits.
Move == \E delta \in {-1, 1} : Change(SyncEnabled(MoveFocus(form, delta)))

\* Left and Right; a space is a Right unless it is typed.
Arrow ==
    \E delta \in {-1, 1} :
        Change(SyncEnabled(IF form.focus \in Texts
                           THEN [form EXCEPT !.text[form.focus] = MoveCursor(@, delta)]
                           ELSE Stepped(form, form.focus, delta)))

Type ==
    \/ /\ form.focus \in Texts
       /\ \E text \in TextEdits(form.text[form.focus]) :
             Change(SyncEnabled([form EXCEPT !.text[form.focus] = text]))
    \/ /\ form.focus \in Numbers \cap wizard.edits
       /\ \E number \in wizard.numbers :
             Change(SyncEnabled([form EXCEPT !.val[form.focus] = number]))

\* Seeded fault: a click takes a greyed row, too.
Click_Greyed ==
    \E row \in 0..visible-1 :
        /\ scroll + row + 1 \in DOMAIN Order
        /\ LET field == Order[scroll + row + 1]
               focused == [form EXCEPT !.focus = field]
           IN Change(SyncEnabled(IF field \in Selects THEN Stepped(focused, field, 1)
                                 ELSE focused))

\* RowRegion::index_at and click_form: focus, then activate.
Click ==
    \E row \in 0..visible-1 :
        /\ scroll + row + 1 \in DOMAIN Order
        /\ LET field == Order[scroll + row + 1]
               focused == [form EXCEPT !.focus = field]
           IN /\ field \in form.enabled
              /\ Change(SyncEnabled(IF field \in Selects THEN Stepped(focused, field, 1)
                                    ELSE focused))

\* preload_template, from the gallery.
PreloadTemplate ==
    \E template \in 0..1 :
        LET filled == [form EXCEPT !.val.Template = template, !.val.ArtSource = 0,
                        !.text.Name = IF @.value = <<>> THEN Typed(<<"h">>) ELSE @]
        IN Change([SyncEnabled(filled) EXCEPT !.focus = "Name"])

ResetWizard == \E f \in News : Change(f)

\* Seeded fault: the row below the last visible one counts as visible.
ScrollFor_OneTooFar(selected, rows, current) ==
    IF rows = 0 THEN 0
    ELSE IF selected < current THEN selected
    ELSE IF selected > current + rows THEN selected + 1 - rows
    ELSE current

ScrollFor(selected, rows, current) ==
    IF rows = 0 THEN 0
    ELSE IF selected < current THEN selected
    ELSE IF selected >= current + rows THEN selected + 1 - rows
    ELSE current

DrawWizard ==
    /\ \E rows \in wizard.heights :
          /\ visible' = rows
          /\ scroll' = ScrollFor(Index(form.focus) - 1, rows, scroll)
    /\ shown' = TRUE
    /\ UNCHANGED <<wizard, form>>

Next == Move \/ Arrow \/ Type \/ Click \/ PreloadTemplate \/ ResetWizard \/ DrawWizard

Spec == Init /\ [][Next]_vars

-----------------------------------------------------------------------------
(* start_spec: the first field it refuses, if there is one, and the search *)
(* that it describes if there is none.                                     *)

Positive(number) == number > 0
Optional(number) == number # TooLong
Entered(number) == IF number = Blank THEN 0 ELSE number

\* A threshold is cut to eight bits before it is compared.
AsByte(number) == IF number = Blank THEN 5 ELSE number % 256
Digit(number) == Optional(number) /\ AsByte(number) <= 9

\* A canvas that is too small either way is named by its width here.
Checks(f) ==
    LET v == f.val
        emergence == v.MatchMode = Emergence
    IN <<<<Positive(v.Width), "Width">>, <<Positive(v.Height), "Height">>,
         <<Digit(v.Threshold), "Threshold">>,
         <<emergence => Positive(v.CanvasWidth), "CanvasWidth">>,
         <<emergence => Positive(v.CanvasHeight), "CanvasHeight">>,
         <<emergence => v.CanvasWidth >= v.Width /\ v.CanvasHeight >= v.Height,
           "CanvasWidth">>,
         <<Optional(v.Workers), "Workers">>, <<Optional(v.Limit), "Limit">>,
         <<v.ArtSource = 1 => Trimmed(f.text.ArtFile.value) # <<>>, "ArtFile">>,
         <<v.PiSource = 1 => Trimmed(f.text.PiFile.value) # <<>>, "PiFile">>>>
Refused(f) ==
    LET i == SelectInSeq(Checks(f), LAMBDA check : ~check[1])
    IN IF i = 0 THEN "none" ELSE Checks(f)[i][2]

\* An empty name is none; the parameters keep allow_decimal_prefix whatever
\* the source is.
StartSpec(f) ==
    LET v == f.val
        emergence == v.MatchMode = Emergence
    IN [mode |-> v.MatchMode, size |-> <<v.Width, v.Height>>,
        canvas |-> IF emergence THEN <<v.CanvasWidth, v.CanvasHeight>>
                   ELSE <<v.Width, v.Height>>,
        threshold |-> AsByte(v.Threshold),
        invert |-> ~emergence /\ v.Invert = 1, keepGoing |-> v.KeepGoing,
        machine |-> <<v.Profile, v.Gpu, v.Thermal>>,
        workers |-> Entered(v.Workers), limit |-> Entered(v.Limit),
        art |-> IF v.ArtSource = 0 THEN <<"template", v.Template>>
                ELSE <<"file", Trimmed(f.text.ArtFile.value)>>,
        source |-> <<v.PiSource, IF v.PiSource = 1 THEN Trimmed(f.text.PiFile.value) ELSE <<>>>>,
        prefix |-> v.AllowDecimalPrefix,
        name |-> Trimmed(f.text.Name.value)]

-----------------------------------------------------------------------------
(* Properties.                                                             *)

TypeOK ==
    /\ wizard \in WizardSetups
    /\ form \in [val : [Values -> Nat \cup {Blank, TooLong}],
                 text : [Texts -> [value : Seq(Letters), cursor : Nat]],
                 enabled : SUBSET Fields, focus : Fields]
    /\ \A field \in Selects : form.val[field] \in 0..Options[field]-1
    /\ \A field \in Texts : form.text[field].cursor <= Len(form.text[field].value)
    /\ scroll \in Nat /\ visible \in Nat /\ shown \in BOOLEAN

\* Focus is never on a heading or on a field that does not apply, whichever way
\* it got there and whatever was chosen since (ensure_enabled).
FocusIsUsable == form.focus \in form.enabled

\* What is greyed follows from the choices, by every way to change one.
GreyedIsCurrent == form.enabled = EnabledBy(form.val)

\* The panel shows the row that has the focus, at any height (scroll_for).
FocusIsVisible ==
    shown /\ visible > 0 => Index(form.focus) - 1 \in scroll..scroll+visible-1

\* The preset whose label is shown is the size that is searched for.
PresetIsTheSize ==
    form.val.SizeMode # CustomSize =>
        StartSpec(form).size = Presets[form.val.SizeMode + 1]

\* What is started is a search the engine takes, though numbers are typed past
\* the bounds of their fields.
AcceptedIsSound ==
    Refused(form) = "none" =>
        LET spec == StartSpec(form)
        IN /\ \A i \in 1..2 : 0 < spec.size[i] /\ spec.size[i] <= spec.canvas[i]
           /\ spec.threshold \in 0..9
           /\ spec.limit >= 0 /\ spec.workers >= 0

\* "Fields that do not apply to the current choices": whatever was left in them
\* changes neither the search nor whether it starts.  Two do: a greyed threshold
\* is still stored and still refused, and a decimal prefix is still a parameter.
Inert == Fields \ (form.enabled \cup {"Width", "Height", "Threshold", "AllowDecimalPrefix"})
GreyedIsInert ==
    /\ \A field \in Inert \cap Values :
          \A v \in IF field \in Selects THEN 0..Options[field]-1
                   ELSE wizard.numbers \cup {Blank, 0} :
             LET other == [form EXCEPT !.val[field] = v]
             IN Refused(other) = Refused(form) /\ StartSpec(other) = StartSpec(form)
    /\ \A field \in Inert \cap Texts :
          LET other == [form EXCEPT !.text[field] = Typed(<<"a">>)]
          IN Refused(other) = Refused(form) /\ StartSpec(other) = StartSpec(form)

\* A refusal is about a field that can be mended, or about a threshold.
RefusalsCanBeMended == Refused(form) \in form.enabled \cup {"none", "Threshold"}

\* The form means what it shows.
WizardInvariant ==
    /\ TypeOK
    /\ FocusIsUsable
    /\ GreyedIsCurrent
    /\ FocusIsVisible
    /\ PresetIsTheSize
    /\ AcceptedIsSound
    /\ GreyedIsInert
    /\ RefusalsCanBeMended

Changed(field) ==
    IF field \in Values THEN form'.val[field] # form.val[field]
    ELSE IF field \in Texts THEN form'.text[field].value # form.text[field].value
    ELSE FALSE
\* One key or click changes the field that has the focus, which was enabled, and
\* with the size preset the numbers it stands for; in a text, what is on one side
\* of the cursor, and what is typed goes before it.  A template from the gallery
\* keeps the name that was typed, and a reset alone forgets it.
EditIsLocal ==
    \/ form' \in News
    \/ /\ \A field \in Fields :
             Changed(field) =>
                 \/ field = form'.focus /\ field \in form.enabled
                 \/ field \in {"Width", "Height"} /\ form'.focus = "SizeMode"
                 \/ field \in {"Template", "ArtSource"} /\ form'.focus = "Name"
       /\ \A field \in Texts :
             Changed(field) =>
                 LET old == form.text[field]
                     new == form'.text[field]
                 IN IF Len(new.value) > Len(old.value)
                    THEN After(new) = After(old) /\ IsPrefix(Before(old), Before(new))
                    ELSE \/ Before(new) = Before(old) \/ After(new) = After(old)
                         \/ new.value = <<>>
EditsAreLocal == [][EditIsLocal]_vars
=============================================================================
