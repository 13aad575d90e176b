----------------------------- MODULE RateLimiter -----------------------------
(***************************************************************************)
(* The circuit breaker of a provider (core/rate_limiter.py, CircuitBreaker) *)
(* as operators on a record.  Time is in ticks and kept as ages, so that   *)
(* the state is finite: recent[i] is the age of the i-th latest failure,   *)
(* Window standing for every age the window has left behind.               *)
(***************************************************************************)
EXTENDS Integers

CONSTANTS
    Threshold,    \* failure_threshold
    Window,       \* window_seconds
    Cooldown,     \* initial_cooldown
    MaxCooldown   \* max_cooldown

ASSUME RateAssumption ==
    /\ Threshold \in Nat \ {0} /\ Window \in Nat \ {0}
    /\ Cooldown \in Nat \ {0} /\ MaxCooldown \in Nat /\ Cooldown <= MaxCooldown

Least(m, n) == IF m <= n THEN m ELSE n

Ages == [1..Threshold -> 0..Window]

Breaker == [state : {"closed", "open", "half"}, recent : Ages,
            opened : 0..MaxCooldown, cooldown : Cooldown..MaxCooldown]

NoFailures == [i \in 1..Threshold |-> Window]
NewBreaker == [state |-> "closed", recent |-> NoFailures, opened |-> 0, cooldown |-> Cooldown]

\* A failure now; the list has as many entries within the window as the threshold.
Pushed(recent)  == [i \in 1..Threshold |-> IF i = 1 THEN 0 ELSE recent[i - 1]]
TooMany(recent) == recent[Threshold] < Window

\* Mutant: a breaker that closes keeps the failures it opened for.
RecordSuccess_KeepsFailures(b) ==
    IF b.state = "half" THEN [b EXCEPT !.state = "closed", !.cooldown = Cooldown] ELSE b

RecordSuccess(b) ==
    IF b.state = "half"
    THEN [b EXCEPT !.state = "closed", !.cooldown = Cooldown, !.recent = NoFailures]
    ELSE b

Opened(b) == [b EXCEPT !.state = "open", !.opened = 0]

\* Mutant: the cooldown is doubled without end.
RecordFailure_Uncapped(b) ==
    LET c == [b EXCEPT !.recent = Pushed(@)]
    IN  IF c.state = "half" THEN [Opened(c) EXCEPT !.cooldown = 2 * @]
        ELSE IF TooMany(c.recent) THEN Opened(c) ELSE c

RecordFailure(b) ==
    LET c == [b EXCEPT !.recent = Pushed(@)]
    IN  IF c.state = "half" THEN [Opened(c) EXCEPT !.cooldown = Least(2 * @, MaxCooldown)]
        ELSE IF TooMany(c.recent) THEN Opened(c) ELSE c

\* allow_request: what it makes of the breaker, and its answer.
Cooled(b)  == b.opened >= b.cooldown

\* Mutant: the probe is let through with the breaker left open.
Asked_StaysOpen(b) == b

Asked(b) ==
    IF b.state = "open" /\ Cooled(b) THEN [b EXCEPT !.state = "half", !.opened = 0] ELSE b
Allowed(b) == b.state # "open" \/ Cooled(b)

\* get_health_score is 0.0 for an open breaker and at least 0.2 for any other.
Healthy(b) == b.state # "open"

\* What a closed breaker should be.
Fresh(b) == b.state = "closed" => ~TooMany(b.recent) /\ b.cooldown = Cooldown

\* A tick passes.  The age of the opening is kept while the breaker is open.
Aged(b) == [b EXCEPT !.recent = [i \in 1..Threshold |-> Least(@[i] + 1, Window)],
                     !.opened = IF b.state = "open" THEN Least(@ + 1, MaxCooldown) ELSE 0]
=============================================================================
