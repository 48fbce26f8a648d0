------------------------------ MODULE Backoff ------------------------------
(***************************************************************************)
(* The delays of an outbox event that keeps failing: New's defaults, fail  *)
(* and the function Backoff (src/messaging/outbox/outbox.go).              *)
(***************************************************************************)
EXTENDS MachineInt

CONSTANTS DefaultBase,       \* one second
          DefaultMax,        \* five minutes
          BaseBackoffs, MaxBackoffs, MaxAttemptsSet,  \* configurations tried
          MaxFailures        \* bound on the failures of the event

ASSUME BackoffAssumption ==
    /\ {DefaultBase, DefaultMax} \subseteq 1 .. MaxInt
    /\ BaseBackoffs \cup MaxBackoffs \subseteq Machine
    /\ MaxAttemptsSet \subseteq Int
    /\ MaxFailures \in Nat

VARIABLES base, max, maxAttempts,  \* BaseBackoff, MaxBackoff, MaxAttempts of New
          attempts,                \* the event's Attempts
          delay                    \* the last delay given to MarkFailed

config == <<base, max, maxAttempts>>
backoffVars == <<config, attempts, delay>>

OrDefault(v, default) == IF v <= 0 THEN default ELSE v

Double(d) == Wrap(2 * d)

\* Mutant: max/2 is not looked at before doubling.
DelaysUnchecked(n, b, m) ==
    LET step[i \in 1 .. n] ==
            IF i = 1 THEN b
            ELSE IF step[i - 1] >= m THEN m ELSE Double(step[i - 1])
    IN step

\* delay at the head of each iteration of the loop; an early return of max is
\* the value of all later ones
Delays(n, b, m) ==
    LET step[i \in 1 .. n] ==
            IF i = 1 THEN b
            ELSE IF step[i - 1] >= m \/ step[i - 1] > m \div 2
                 THEN m
                 ELSE Double(step[i - 1])
    IN step

\* Backoff
BackoffDelay(attempt, b, m) ==
    LET n == IF attempt < 1 THEN 1 ELSE attempt
        top == OrDefault(m, DefaultMax)
        last == Delays(n, OrDefault(b, DefaultBase), top)[n]
    IN IF last > top THEN top ELSE last

\* New, and an event that has not failed yet
BackoffInit ==
    /\ \E b \in BaseBackoffs : base = OrDefault(b, DefaultBase)
    /\ \E m \in MaxBackoffs : max = OrDefault(m, DefaultMax)
    /\ maxAttempts \in MaxAttemptsSet
    /\ attempts = 0
    /\ delay = 0

\* fail(): the store counts the failure when it is marked
Fail ==
    /\ attempts < MaxFailures
    /\ attempts' = attempts + 1
    /\ delay' = IF maxAttempts > 0 /\ attempts' >= maxAttempts
                THEN max
                ELSE BackoffDelay(attempts', base, max)
    /\ UNCHANGED config

Exhausted == maxAttempts > 0 /\ attempts >= maxAttempts

\* the powers of two, as a function
Pow2[k \in Nat] == IF k = 0 THEN 1 ELSE 2 * Pow2[k - 1]

\* The delay is the base doubled once per earlier failure and capped, and the
\* cap once MaxAttempts is exhausted: the loop's tests keep the doubling from
\* overflowing, for every base and every cap up to the largest duration, so
\* that no event is retried sooner than after its previous failure (lines
\* 169-173, 208-218).
CappedDoubling ==
    attempts > 0 =>
        LET exact == base * Pow2[attempts - 1]
        IN delay = IF exact < max /\ ~Exhausted THEN exact ELSE max

=============================================================================
