---------------------------- MODULE DutyPolicy ----------------------------
(***************************************************************************)
(* The token bucket that bounds how much of the time an accelerator is     *)
(* kept busy (--gpu-utilization).  The backend thread waits for a token    *)
(* before each chunk and charges the bucket with the time the chunk took.  *)
(*                                                                         *)
(* Times are whole milliseconds.  Tokens are hundredths of a millisecond,  *)
(* so that refilling at Percent of real time stays within the integers.    *)
(***************************************************************************)
EXTENDS Integers

CONSTANTS
    Percent,     \* the utilization asked for
    WindowMs,    \* GPU_DUTY_WINDOW_MS, the capacity of the bucket
    Dispatches,  \* how long a chunk may keep the accelerator busy
    Gaps,        \* how long other work, or oversleeping, may take
    MaxTime,     \* bound: nothing is started after this time
    None

PolicyConstants ==
    /\ Percent \in 0..100
    /\ WindowMs \in Nat \ {0}
    /\ Dispatches \subseteq Nat
    /\ Gaps \subseteq Nat
    /\ MaxTime \in Nat
    /\ None \notin Nat

VARIABLES
    now,
    pc,           \* "idle", or "admitted" between the wait and the chunk's end
    tokens,       \* tokens_ms, in hundredths
    lastRefill,
    steadyStart,  \* when the first credit was used up
    steadyActive, \* busy time since then
    allActive,    \* busy time since the start
    maxDispatch,
    totalWait

metrics == <<steadyStart, steadyActive, allActive, maxDispatch>>
vars == <<now, pc, tokens, lastRefill, metrics, totalWait>>

Lesser(a, b) == IF a <= b THEN a ELSE b
Larger(a, b) == IF a >= b THEN a ELSE b

Capacity == 100 * WindowMs
Unlimited == Percent \in {0, 100}

Init ==
    /\ now = 0
    /\ pc = "idle"
    /\ tokens = Capacity
    /\ lastRefill = 0
    /\ steadyStart = None
    /\ steadyActive = 0
    /\ allActive = 0
    /\ maxDispatch = 0
    /\ totalWait = 0

\* refill_at: what the bucket holds at a time.
Refilled(time) ==
    IF Unlimited THEN tokens
    ELSE Lesser(tokens + Percent * (time - lastRefill), Capacity)

\* Seeded fault: a debt of up to half a window is tolerated.
RequiredWait_Overdraft(held) ==
    IF Unlimited \/ 2 * held > -Capacity THEN 0
    ELSE (100 - held + Percent - 1) \div Percent
\* Seeded fault: the debt is not divided by the rate at which it is refilled.
RequiredWait_FullRate(held) ==
    IF Unlimited \/ held > 0 THEN 0 ELSE 100 - held
\* required_wait_at: until the bucket holds one millisecond again, rounded up
\* to the next whole millisecond.
RequiredWait(held) ==
    IF Unlimited \/ held > 0 THEN 0
    ELSE (100 - held + Percent - 1) \div Percent

\* wait_before_submission; the sleep may last longer than asked.
WaitBeforeSubmission ==
    LET wait == RequiredWait(Refilled(now))
    IN  /\ pc = "idle"
        /\ now <= MaxTime
        /\ pc' = "admitted"
        /\ \E late \in Gaps :
               now' = IF wait = 0 THEN now ELSE now + wait + late
        /\ tokens' = Refilled(now')
        /\ lastRefill' = now'
        /\ totalWait' = totalWait + wait
        /\ UNCHANGED metrics

\* What a dispatch takes from the bucket: never more than one window.
Charge(active) == 100 * Lesser(active, WindowMs)

\* record_submission, after the leases were given back.
RecordSubmission(active) ==
    /\ pc = "admitted"
    /\ pc' = "idle"
    /\ \E gap \in Gaps : now' = now + active + gap
    /\ IF Percent = 0
       THEN UNCHANGED <<tokens, lastRefill, metrics>>
       ELSE /\ lastRefill' = now'
            /\ tokens' = IF Percent = 100 THEN tokens
                         ELSE Refilled(now') - Charge(active)
            /\ allActive' = allActive + active
            /\ maxDispatch' = Larger(maxDispatch, active)
            /\ steadyActive' = IF steadyStart = None THEN steadyActive
                               ELSE steadyActive + active
            /\ steadyStart' =
                 IF Percent < 100 /\ steadyStart = None /\ tokens' <= 0
                 THEN now' ELSE steadyStart
    /\ UNCHANGED totalWait

\* Time the backend thread spends on anything else: waiting for a chunk or
\* for the GPU leases, handing over the scores.
Pass ==
    /\ now <= MaxTime
    /\ \E gap \in Gaps \ {0} : now' = now + gap
    /\ UNCHANGED <<pc, tokens, lastRefill, metrics, totalWait>>

Next == WaitBeforeSubmission
          \/ (\E active \in Dispatches : RecordSubmission(active))
          \/ Pass

Spec == Init /\ [][Next]_vars

-----------------------------------------------------------------------------
(* Properties.                                                             *)

\* Types; the bucket never holds more than a window's worth, and a dispatch
\* never leaves it a whole window or more in debt.
TypeOK ==
    /\ now \in Nat
    /\ pc \in {"idle", "admitted"}
    /\ tokens \in Int
    /\ tokens <= Capacity
    /\ tokens > -Capacity
    /\ lastRefill \in 0..now
    /\ steadyStart \in (0..now) \cup {None}
    /\ steadyActive \in Nat
    /\ allActive \in Nat
    /\ maxDispatch \in Nat
    /\ totalWait \in Nat

\* The policy of the README: besides a first credit of one window and the
\* dispatch that overdrew the bucket, the accelerator is busy for at most
\* Percent of the time, whatever the gaps between the chunks were.
DutyIsBounded ==
    ~Unlimited =>
        100 * allActive <= Percent * now + 100 * (WindowMs + maxDispatch)

\* What the unit test of the policy asserts of its one schedule: once the
\* credit is used up, the ratio of busy time exceeds the percentage by no
\* more than the longest dispatch's share.
SteadyRatioIsBounded ==
    ~Unlimited /\ steadyStart # None =>
        100 * steadyActive <= Percent * (now - steadyStart) + 100 * maxDispatch

\* No single wait lasts longer than it takes to refill one window and one
\* millisecond: the backend mutex is held while it lasts, so this is also how
\* long a command that reconfigures the backend may be held up.
WaitIsBounded ==
    [][Percent * (totalWait' - totalWait) < Capacity + 100 + Percent]_vars
=============================================================================
