------------------------------- MODULE Retry -------------------------------
(***************************************************************************)
(* Bounded retry of a consumed message (src/messaging/retry/retry.go):     *)
(* Attempt, Decide and WithAttempt, and a consumer that follows Decide's   *)
(* answer.                                                                 *)
(***************************************************************************)
EXTENDS MachineInt

CONSTANTS DefaultMaxAttempts,  \* 8
          Headers,             \* x-retry-count of the first delivery
          Limits,              \* values of the argument maxAttempts
          OutOfRange,          \* int(v) of a float64 beyond the integers: Go
                               \* leaves it to the machine
          MaxCounted           \* bound: republications that are counted

VARIABLES header,       \* x-retry-count of the message: <<type, number>>
          limit,        \* the argument maxAttempts
          first,        \* history: the count of the first delivery
          state,        \* where the message is
          republished   \* how often the consumer has republished it

retryVars == <<header, limit, first, state, republished>>

Clamp(n) == IF n > MaxInt THEN MaxInt ELSE IF n < MinInt THEN MinInt ELSE n
\* int(v) of a float64 given in halves: the fraction is cut off
Truncate(halves) ==
    LET whole == IF halves >= 0 THEN halves \div 2 ELSE -((-halves) \div 2)
    IN IF whole \in Machine THEN whole ELSE OutOfRange

\* Atoi clamps a number that does not fit; its error is dropped.  "absent",
\* a string that is no number and every other type count as zero.
Attempt(h) ==
    CASE h[1] = "integer" -> h[2]
      [] h[1] = "float64" -> Truncate(h[2])
      [] h[1] = "string"  -> Clamp(h[2])
      [] OTHER            -> 0

\* Every count is an integer of the machine, negative ones and the largest
\* included.
ASSUME RetryAssumption ==
    /\ DefaultMaxAttempts \in 1 .. MaxInt
    /\ MaxCounted \in Nat \ {0}
    /\ Limits \subseteq Machine
    /\ \A h \in Headers : Attempt(h) \in Machine

EffectiveMax(max) == IF max <= 0 THEN DefaultMaxAttempts ELSE max

\* Mutant: the limit is compared with the attempts already made.
DecideOneMore(retriable, h, max) ==
    LET n == Attempt(h)
    IN IF ~retriable \/ n > EffectiveMax(max)
       THEN [action |-> "dlq", attempt |-> n]
       ELSE [action |-> "retry", attempt |-> Wrap(n + 1)]

Decide(retriable, h, max) ==
    LET n == Attempt(h)
    IN IF ~retriable \/ Wrap(n + 1) > EffectiveMax(max)
       THEN [action |-> "dlq", attempt |-> n]
       ELSE [action |-> "retry", attempt |-> Wrap(n + 1)]

WithAttempt(n) == <<"integer", n>>

-----------------------------------------------------------------------------

RetryInit ==
    /\ header \in Headers
    /\ limit \in Limits
    /\ first = Attempt(header)
    /\ state = "queued"
    /\ republished = 0

\* the handler succeeds and the consumer acknowledges
Handled ==
    /\ state = "queued"
    /\ state' = "acked"
    /\ UNCHANGED <<header, limit, first, republished>>

\* the handler fails: the consumer republishes or dead-letters the message
Failed(retriable) ==
    /\ state = "queued"
    /\ LET d == Decide(retriable, header, limit)
       IN IF d.action = "retry"
          THEN /\ header' = WithAttempt(d.attempt)
               /\ republished' = IF republished < MaxCounted THEN republished + 1
                                 ELSE republished
               /\ UNCHANGED state
          ELSE /\ state' = "dlq"
               /\ UNCHANGED <<header, republished>>
    /\ UNCHANGED <<limit, first>>

Deliver == Handled \/ \E retriable \in BOOLEAN : Failed(retriable)

-----------------------------------------------------------------------------

\* How often a message with count n may be republished under the limit max: what
\* is left of the limit.  The sum of lines 62 and 65 wraps for the largest
\* integer: that count starts again from the smallest.
Allowed(n, max) ==
    IF n = MaxInt THEN max - MinInt + 1 ELSE IF n < max THEN max - n ELSE 0

\* Whatever count another producer has written, in whatever type: a message is
\* republished only as often as the count leaves room below the limit, or below
\* the default when none is given, and then dead-lettered (lines 54-66).  From
\* zero on that is at most maxAttempts; a negative count buys more, the largest
\* integer a whole turn; and a limit of the largest integer is none, no count
\* exceeds it.
RetriesBounded ==
    EffectiveMax(limit) < MaxInt => republished <= Allowed(first, EffectiveMax(limit))

=============================================================================
