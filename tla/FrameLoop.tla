----------------------------- MODULE FrameLoop ------------------------------
(***************************************************************************)
(* The event loop of the terminal interface: when it draws, how long it    *)
(* waits, and the toasts that expire.  Time is in ticks of the input wait; *)
(* an iteration of the loop takes no time, or a tick.  Toasts are told     *)
(* apart by their text, which has a level.                                 *)
(***************************************************************************)
EXTENDS Integers, SequencesExt

CONSTANTS
    Policies,   \* pairs of a frame interval and a metrics interval, in ticks
    Lifetime,   \* the ticks a toast stays, by text
    MaxVisible, \* MAX_VISIBLE
    IdleRedraw  \* IDLE_REDRAW, in ticks

FrameConstants ==
    /\ Policies \subseteq Nat \X Nat /\ IsFiniteSet(Policies)
    /\ Lifetime \in [DOMAIN Lifetime -> Nat]
    /\ MaxVisible \in Nat /\ IdleRedraw \in Nat

VARIABLES
    policy,     \* App::frame_policy
    toasts,     \* Toasts::items: texts and the ticks each has left
    dirty,      \* App::dirty
    full,       \* a handoff asks for a full redraw
    elapsed,    \* ticks since last_draw, up to Longest
    waiting,    \* whether the loop waits for input
    wait,       \* ticks that the wait still lasts
    screen,     \* the toasts on the screen
    changed,    \* something else is not on the screen yet
    stale       \* history: the ticks for which the screen has not been true

vars == <<policy, toasts, dirty, full, elapsed, waiting, wait, screen, changed, stale>>

Smaller(a, b) == IF a < b THEN a ELSE b
Larger(a, b) == IF a > b THEN a ELSE b
Longest == Max({Larger(p[1], p[2]) : p \in Policies}) + 1
InputWait == 1

Texts(items) == {items[i].text : i \in DOMAIN items}
IsTrue ==
    /\ ~changed
    /\ screen = {toasts[i].text : i \in {j \in DOMAIN toasts : toasts[j].left > 0}}

Init ==
    /\ policy \in Policies
    /\ toasts = <<>>
    /\ dirty = TRUE /\ full = FALSE
    /\ elapsed = Smaller(IdleRedraw, Longest)
    /\ waiting = FALSE /\ wait = 0
    /\ screen = {} /\ changed = TRUE /\ stale = 0

\* Toasts::push: a message that is there is refreshed; the oldest makes room.
Pushed(items, text) ==
    LET new == [text |-> text, left |-> Lifetime[text]]
        at == SelectInSeq(items, LAMBDA toast : toast.text = text)
        longer == Append(items, new)
    IN IF at # 0 THEN ReplaceAt(items, at, new)
       ELSE IF Len(longer) > MaxVisible THEN Tail(longer) ELSE longer

\* Toasts::prune: the toasts that have not expired, in their order.
Kept(items) ==
    LET scan[n \in 0..Len(items)] ==
            IF n = 0 THEN <<>>
            ELSE IF items[n].left > 0 THEN Append(scan[n - 1], items[n]) ELSE scan[n - 1]
    IN scan[Len(items)]

RedrawDue(isDirty) ==
    \/ full
    \/ (isDirty \/ elapsed >= policy[2]) /\ elapsed >= policy[1]
PollWait(since) ==
    Smaller(Larger(policy[1] - since, 0), Smaller(Larger(policy[2] - since, 0), InputWait))

\* Seeded fault: a toast that has expired asks for no redraw.
Iterate_PrunesInSilence ==
    /\ ~waiting
    /\ LET left == Kept(toasts)
       IN /\ toasts' = left
          /\ IF RedrawDue(dirty)
             THEN /\ screen' = Texts(left)
                  /\ changed' = FALSE /\ dirty' = FALSE
                  /\ elapsed' = 0 /\ wait' = PollWait(0) /\ stale' = 0
             ELSE /\ wait' = PollWait(elapsed)
                  /\ UNCHANGED <<dirty, screen, changed, elapsed, stale>>
    /\ full' = FALSE
    /\ waiting' = TRUE
    /\ UNCHANGED policy

\* The body of the loop up to the wait; take_handoff_full_redraw asks once.
Iterate ==
    /\ ~waiting
    /\ LET left == Kept(toasts)
           marked == dirty \/ Len(left) # Len(toasts)
       IN /\ toasts' = left
          /\ IF RedrawDue(marked)
             THEN /\ screen' = Texts(left)
                  /\ changed' = FALSE /\ dirty' = FALSE
                  /\ elapsed' = 0 /\ wait' = PollWait(0) /\ stale' = 0
             ELSE /\ dirty' = marked
                  /\ wait' = PollWait(elapsed)
                  /\ UNCHANGED <<screen, changed, elapsed, stale>>
    /\ full' = FALSE
    /\ waiting' = TRUE
    /\ UNCHANGED policy

\* A tick passes: while the loop waits, or in an iteration that found nothing.
Passes ==
    /\ elapsed' = Smaller(elapsed + 1, Longest)
    /\ toasts' = [i \in DOMAIN toasts |-> [toasts[i] EXCEPT !.left = Larger(@ - 1, 0)]]
    /\ stale' = IF IsTrue THEN 0 ELSE stale + 1
    /\ UNCHANGED <<policy, dirty, full, screen, changed>>
Wait == waiting /\ wait > 0 /\ Passes /\ wait' = wait - 1 /\ UNCHANGED waiting
TimesOut ==
    /\ waiting /\ wait = 0
    /\ waiting' = FALSE
    /\ Passes \/ UNCHANGED <<policy, toasts, dirty, full, elapsed, screen, changed, stale>>
    /\ UNCHANGED wait

\* An event, of the terminal or found by poll_worker: it changes what there is
\* to show, may add a toast, and may bring another policy, with a full redraw if
\* a search is handed over.
Event ==
    /\ waiting
    /\ waiting' = FALSE
    /\ changed' = TRUE /\ dirty' = TRUE
    /\ toasts' \in {toasts} \cup {Pushed(toasts, text) : text \in DOMAIN Lifetime}
    /\ policy' \in Policies
    /\ full' \in {full, policy' # policy}
    /\ UNCHANGED <<elapsed, wait, screen, stale>>

Next == Iterate \/ Wait \/ TimesOut \/ Event

Spec == Init /\ [][Next]_vars

-----------------------------------------------------------------------------
(* Properties.                                                             *)

TypeOK ==
    /\ policy \in Policies
    /\ \A i \in DOMAIN toasts : toasts[i].left \in 0..Lifetime[toasts[i].text]
    /\ {dirty, full, waiting, changed} \subseteq BOOLEAN
    /\ elapsed \in 0..Longest /\ wait \in 0..InputWait
    /\ screen \subseteq DOMAIN Lifetime /\ stale \in Nat

\* What the screen does not show yet, and what it shows no more truly, an expired
\* toast among it, is put right within the longest frame interval and one more
\* iteration (redraw_due, prune).
ScreenIsFresh == stale <= Max({p[1] : p \in Policies}) + InputWait

\* The same message is never stacked, and there is room for the rest of the screen.
ToastsAreFew ==
    /\ Len(toasts) <= MaxVisible
    /\ \A i, j \in DOMAIN toasts : toasts[i].text = toasts[j].text => i = j

FrameInvariant == TypeOK /\ ScreenIsFresh /\ ToastsAreFew

-----------------------------------------------------------------------------
(* The inductive invariant: what is not on the screen asks for a redraw,   *)
(* and a loop that waits ends its wait in time.                            *)

ToastType == [text : DOMAIN Lifetime, left : Nat]
Expired == \E i \in DOMAIN toasts : toasts[i].left = 0

ShownInv ==
    ~dirty => /\ ~changed /\ screen = Texts(toasts)
              /\ stale > 0 => Expired
WaitInv ==
    waiting => /\ elapsed + wait + 1 <= Longest
               /\ dirty => elapsed + wait <= policy[1]
               /\ ~dirty => stale = 0 /\ (wait > 0 => ~Expired)

FrameInv ==
    /\ TypeOK /\ ScreenIsFresh /\ ToastsAreFew
    /\ toasts \in Seq(ToastType)
    /\ ShownInv /\ WaitInv
    /\ stale <= elapsed
=============================================================================
