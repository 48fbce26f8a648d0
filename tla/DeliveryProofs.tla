--------------------------- MODULE DeliveryProofs ---------------------------
(***************************************************************************)
(* For every width of the machine's integers, every configuration of the   *)
(* relay and of the consumer and any number of failures: the delays of the *)
(* outbox are the capped powers of two and a consumer's republications are *)
(* bounded.  The recursive functions of Backoff are shown to have the      *)
(* values their equations say by looking at the least counterexample.      *)
(***************************************************************************)
EXTENDS Delivery, WellFoundedInduction, TLAPS

\* An integer of the machine is not changed by the wrap around.
LEMMA WrapIsIdentity ==
    ASSUME NEW n \in Machine
    PROVE  Wrap(n) = n
  BY MachineIntAssumption DEF Machine, Wrap, MinInt

\* The wrap around always gives an integer of the machine, and turns the
\* successor of the largest one into the smallest.
LEMMA WrapInMachine ==
    ASSUME NEW n \in Int
    PROVE  Wrap(n) \in Machine
<1>1. (n - MinInt) % (2 * MaxInt + 2) \in 0 .. 2 * MaxInt + 1
  BY MachineIntAssumption DEF MinInt
<1> QED
  BY <1>1, MachineIntAssumption DEF Machine, Wrap, MinInt

LEMMA WrapTurns == Wrap(MaxInt + 1) = MinInt
<1>1. (MaxInt + 1) - MinInt = 2 * MaxInt + 2
  BY MachineIntAssumption DEF MinInt
<1>2. (2 * MaxInt + 2) % (2 * MaxInt + 2) = 0
  BY MachineIntAssumption
<1> QED
  BY <1>1, <1>2, MachineIntAssumption DEF Wrap, MinInt

-----------------------------------------------------------------------------
(* Bounded retry *)

\* The count in the header is the first one until the message is republished;
\* then it has gone up by one with every republication since the first sum,
\* and has not passed the limit.
RetryInv ==
    /\ limit \in Limits \cup {0}
    /\ first \in Machine
    /\ republished \in Nat
    /\ Attempt(header) \in Machine
    /\ republished = 0 => Attempt(header) = first
    /\ republished > 0 /\ EffectiveMax(limit) < MaxInt =>
            /\ Attempt(header) <= EffectiveMax(limit)
            /\ republished <= Attempt(header) - Wrap(first + 1) + 1

\* Every limit that Decide may compare a count with is positive.
LEMMA LimitInRange ==
    ASSUME NEW n \in Limits \cup {0}
    PROVE  EffectiveMax(n) \in 1 .. MaxInt
  BY RetryAssumption, MachineIntAssumption DEF EffectiveMax, Machine, MinInt

LEMMA RetryInvariance == Spec => []RetryInv
<1>1. Init => RetryInv
  <2>1. CASE FromOutbox
    <3>1. Attempt(NoHeader) = 0 /\ 0 \in Machine
      BY MachineIntAssumption DEF Attempt, NoHeader, Machine, MinInt
    <3> QED
      BY <2>1, <3>1 DEF FromOutbox, RetryInv
  <2>2. CASE FromElsewhere
    BY <2>2, RetryAssumption DEF FromElsewhere, RetryInit, RetryInv
  <2> QED
    BY <2>1, <2>2 DEF Init
<1>2. RetryInv /\ [Next]_vars => RetryInv'
  <2> SUFFICES ASSUME RetryInv, [Next]_vars
               PROVE  RetryInv'
    OBVIOUS
  <2>1. CASE UNCHANGED retryVars
    BY <2>1 DEF retryVars, RetryInv
  <2>2. CASE RelayPublishes
    BY <2>2 DEF RelayPublishes, RetryInv
  <2>3. CASE Handled
    BY <2>3 DEF Handled, RetryInv
  <2>4. ASSUME NEW retriable \in BOOLEAN, Failed(retriable)
        PROVE  RetryInv'
    <3> DEFINE w == Wrap(Attempt(header) + 1)
               m == EffectiveMax(limit)
    <3>1. w \in Machine /\ Wrap(first + 1) \in Machine /\ m \in 1 .. MaxInt
      BY WrapInMachine, LimitInRange DEF RetryInv, Machine
    <3>2. CASE ~retriable \/ w > m
      <4>1. Decide(retriable, header, limit).action = "dlq"
        BY <3>2 DEF Decide
      <4> QED
        BY <2>4, <4>1 DEF Failed, RetryInv
    <3>3. CASE retriable /\ ~(w > m)
      <4>1. /\ Decide(retriable, header, limit).action = "retry"
            /\ Decide(retriable, header, limit).attempt = w
        BY <3>3 DEF Decide
      <4>2. header' = WithAttempt(w) /\ limit' = limit /\ first' = first
        BY <2>4, <4>1 DEF Failed
      <4>3. Attempt(header)' = w
        BY <4>2 DEF Attempt, WithAttempt
      <4>4. republished' \in Nat \ {0} /\ republished' <= republished + 1
        BY <2>4, <4>1, RetryAssumption DEF Failed, RetryInv
      <4>5. w <= m
        BY <3>1, <3>3 DEF Machine, MinInt
      <4>6. ASSUME m < MaxInt PROVE republished' <= w - Wrap(first + 1) + 1
        <5>1. CASE republished = 0
          BY <3>1, <4>4, <5>1, MachineIntAssumption DEF RetryInv, Machine, MinInt
        <5>2. CASE republished > 0
          <6>1. w = Attempt(header) + 1
            BY <3>1, <4>6, <5>2, WrapIsIdentity, MachineIntAssumption
               DEF RetryInv, Machine, MinInt
          <6>2. republished <= Attempt(header) - Wrap(first + 1) + 1
            BY <4>6, <5>2 DEF RetryInv
          <6> HIDE DEF w
          <6> QED
            BY <3>1, <4>4, <6>1, <6>2, MachineIntAssumption DEF RetryInv, Machine, MinInt
        <5> QED
          BY <5>1, <5>2 DEF RetryInv
      <4> HIDE DEF w
      <4> QED
        BY <3>1, <4>2, <4>3, <4>4, <4>5, <4>6 DEF RetryInv
    <3> QED
      BY <3>2, <3>3
  <2> QED
    BY <2>1, <2>2, <2>3, <2>4
       DEF Next, RelayFails, Consume, Deliver, Settled, vars
<1> QED
  BY <1>1, <1>2, PTL DEF Spec

\* Whatever the width of the integers, the limits and the counts other
\* producers have written, negative and largest ones included: Decide never has
\* a message republished more often than its first count leaves room for below
\* the limit (retry.go 54-66).
THEOREM RetriesHold == Spec => []RetriesBounded
<1>1. RetryInv => RetriesBounded
  <2> SUFFICES ASSUME RetryInv, EffectiveMax(limit) < MaxInt
               PROVE  republished <= Allowed(first, EffectiveMax(limit))
    BY DEF RetriesBounded
  <2>1. EffectiveMax(limit) \in 1 .. MaxInt
    BY LimitInRange DEF RetryInv
  <2>2. CASE republished = 0
    BY <2>1, <2>2, MachineIntAssumption DEF Allowed, RetryInv, Machine, MinInt
  <2>3. CASE republished > 0
    <3>1. republished <= EffectiveMax(limit) - Wrap(first + 1) + 1
      <4>1. Wrap(first + 1) \in Machine
        BY WrapInMachine DEF RetryInv, Machine
      <4> QED
        BY <2>1, <2>3, <4>1, MachineIntAssumption DEF RetryInv, Machine, MinInt
    <3>2. CASE first = MaxInt
      BY <2>1, <3>1, <3>2, WrapTurns, MachineIntAssumption DEF Allowed, RetryInv, MinInt
    <3>3. CASE first # MaxInt
      <4>1. Wrap(first + 1) = first + 1
        BY <3>3, WrapIsIdentity, MachineIntAssumption DEF RetryInv, Machine, MinInt
      <4> QED
        BY <2>1, <2>3, <3>1, <3>3, <4>1, MachineIntAssumption
           DEF Allowed, RetryInv, Machine, MinInt
    <3> QED
      BY <3>2, <3>3
  <2> QED
    BY <2>2, <2>3 DEF RetryInv
<1> QED
  BY <1>1, RetryInvariance, PTL

-----------------------------------------------------------------------------
(* The delays of the outbox *)

\* Every nonempty set of naturals has a least element.
LEMMA LeastNumber ==
    ASSUME NEW S, S \subseteq Nat, S # {}
    PROVE  \E m \in S : \A n \in S : m <= n
<1>1. \E m \in S : \A n \in S : ~(<<n, m>> \in OpToRel(<, Nat))
  <2> HIDE DEF OpToRel
  <2> QED
    BY NatLessThanWellFounded, WFMin
<1>2. PICK m \in S : \A n \in S : ~(<<n, m>> \in OpToRel(<, Nat))
  BY <1>1
<1>3. ASSUME NEW n \in S PROVE ~(n < m)
  <2>1. <<n, m>> \in Nat \X Nat /\ <<n, m>>[1] = n /\ <<n, m>>[2] = m
    OBVIOUS
  <2> QED
    BY <1>2, <2>1 DEF OpToRel
<1> QED
  BY <1>3

\* g holds the powers of two up to the n-th.
PowersUpTo(g, n) ==
    /\ g \in [0 .. n -> Nat \ {0}]
    /\ g[0] = 1
    /\ \A i \in 1 .. n : g[i] = 2 * g[i - 1]

\* Two tables of powers agree where both are defined.
LEMMA PowersAgree ==
    ASSUME NEW n \in Nat, NEW k \in 0 .. n, NEW g, NEW h,
           PowersUpTo(g, n), PowersUpTo(h, k)
    PROVE  \A i \in 0 .. k : g[i] = h[i]
<1> DEFINE D == {i \in 0 .. k : g[i] # h[i]}
<1> SUFFICES ASSUME D # {} PROVE FALSE
  OBVIOUS
<1>1. PICK m \in D : \A i \in D : m <= i
  <2>1. D \subseteq Nat
    OBVIOUS
  <2> HIDE DEF D
  <2> QED
    BY <2>1, LeastNumber
<1>2. m # 0
  BY DEF PowersUpTo
<1>3. m - 1 \in 0 .. k /\ m \in 1 .. k /\ m \in 1 .. n
  BY <1>2
<1>4. g[m - 1] = h[m - 1]
  BY <1>1, <1>3
<1> QED
  BY <1>3, <1>4 DEF PowersUpTo

\* There is a table of any length.
LEMMA PowersExist == \A n \in Nat : \E g : PowersUpTo(g, n)
<1> DEFINE D == {n \in Nat : ~\E g : PowersUpTo(g, n)}
<1> SUFFICES ASSUME D # {} PROVE FALSE
  OBVIOUS
<1>1. PICK m \in D : \A i \in D : m <= i
  BY LeastNumber
<1>2. m # 0
  <2>1. PowersUpTo([i \in 0 .. 0 |-> 1], 0)
    BY DEF PowersUpTo
  <2> QED
    BY <2>1
<1>3. m - 1 \in Nat /\ m - 1 \notin D
  BY <1>1, <1>2
<1>4. PICK g : PowersUpTo(g, m - 1)
  BY <1>3
<1> DEFINE h == [i \in 0 .. m |-> IF i = m THEN 2 * g[m - 1] ELSE g[i]]
<1>5. PowersUpTo(h, m)
  <2>1. h \in [0 .. m -> Nat \ {0}]
    BY <1>2, <1>3, <1>4 DEF PowersUpTo
  <2>2. h[0] = 1
    BY <1>2, <1>4 DEF PowersUpTo
  <2>3. ASSUME NEW i \in 1 .. m PROVE h[i] = 2 * h[i - 1]
    <3>1. h[i - 1] = g[i - 1]
      OBVIOUS
    <3>2. i # m => i \in 1 .. m - 1
      OBVIOUS
    <3> QED
      BY <1>4, <3>1, <3>2 DEF PowersUpTo
  <2> QED
    BY <2>1, <2>2, <2>3 DEF PowersUpTo
<1> QED
  BY <1>5

\* Pow2 satisfies its equation.
LEMMA Pow2Is ==
    /\ Pow2 \in [Nat -> Nat \ {0}]
    /\ Pow2[0] = 1
    /\ \A k \in Nat : Pow2[k + 1] = 2 * Pow2[k]
<1> DEFINE T(n) == CHOOSE g : PowersUpTo(g, n)
           F == [n \in Nat |-> T(n)[n]]
<1>1. \A n \in Nat : PowersUpTo(T(n), n)
  BY PowersExist
<1> HIDE DEF T
<1>2. F \in [Nat -> Nat \ {0}] /\ F[0] = 1
  BY <1>1 DEF PowersUpTo
<1>3. ASSUME NEW k \in Nat PROVE F[k + 1] = 2 * F[k]
  <2>1. PowersUpTo(T(k + 1), k + 1) /\ PowersUpTo(T(k), k)
    BY <1>1
  <2>2. T(k + 1)[k] = T(k)[k]
    BY <2>1, PowersAgree
  <2>3. T(k + 1)[k + 1] = 2 * T(k + 1)[k]
    BY <2>1 DEF PowersUpTo
  <2> QED
    BY <2>2, <2>3
<1>4. F = [k \in Nat |-> IF k = 0 THEN 1 ELSE 2 * F[k - 1]]
  <2>1. ASSUME NEW k \in Nat PROVE F[k] = IF k = 0 THEN 1 ELSE 2 * F[k - 1]
    <3>1. k # 0 => F[(k - 1) + 1] = 2 * F[k - 1]
      BY <1>3
    <3> QED
      BY <1>2, <3>1
  <2> QED
    BY <2>1
<1> HIDE DEF F
<1>5. Pow2 = [k \in Nat |-> IF k = 0 THEN 1 ELSE 2 * Pow2[k - 1]]
  BY <1>4 DEF Pow2
<1>6. Pow2[0] = 1 /\ \A k \in Nat \ {0} : Pow2[k] = 2 * Pow2[k - 1]
  BY <1>5
<1>7. \A k \in Nat : Pow2[k] = F[k]
  <2> DEFINE D == {k \in Nat : Pow2[k] # F[k]}
  <2> SUFFICES ASSUME D # {} PROVE FALSE
    OBVIOUS
  <2>1. PICK m \in D : \A k \in D : m <= k
    BY LeastNumber
  <2>2. m # 0
    BY <1>2, <1>6
  <2>3. m - 1 \in Nat /\ Pow2[m - 1] = F[m - 1]
    BY <2>1, <2>2
  <2>4. F[(m - 1) + 1] = 2 * F[m - 1]
    BY <1>3, <2>3
  <2> QED
    BY <1>6, <2>2, <2>3, <2>4
<1>8. DOMAIN Pow2 = Nat /\ Pow2 = [k \in Nat |-> Pow2[k]]
  BY <1>5
<1> QED
  BY <1>2, <1>3, <1>7, <1>8

\* The base doubled i - 1 times, as long as that is below the cap.
Capped(i, b, m) ==
    IF i = 1 THEN b ELSE IF b * Pow2[i - 1] < m THEN b * Pow2[i - 1] ELSE m

\* One iteration of the loop, from one capped power to the next: the test of
\* max/2 is exactly what the doubling needs not to overflow.
LEMMA OneIteration ==
    ASSUME NEW b \in 1 .. MaxInt, NEW m \in 1 .. MaxInt, NEW i \in Nat \ {0, 1}
    PROVE  LET d == Capped(i - 1, b, m)
           IN /\ d \in 1 .. MaxInt
              /\ Capped(i, b, m) = IF d >= m \/ d > m \div 2 THEN m ELSE Double(d)
<1> DEFINE p == b * Pow2[i - 2]
           d == Capped(i - 1, b, m)
<1>1. Pow2[i - 2] \in Nat \ {0} /\ Pow2[i - 1] = 2 * Pow2[i - 2]
  <2>1. i - 2 \in Nat /\ (i - 2) + 1 = i - 1
    OBVIOUS
  <2> QED
    BY <2>1, Pow2Is
<1>2. p \in Nat \ {0} /\ b * Pow2[i - 1] = 2 * p
  <2>1. ASSUME NEW x \in Nat \ {0}, NEW y \in Nat \ {0}
        PROVE  x * y \in Nat \ {0} /\ x * (2 * y) = 2 * (x * y)
    OBVIOUS
  <2> QED
    BY <1>1, <2>1
<1>3. d = IF i = 2 THEN p ELSE IF p < m THEN p ELSE m
  <2>1. i = 2 => p = b
    BY Pow2Is
  <2>2. i - 1 = 1 <=> i = 2
    OBVIOUS
  <2>3. (i - 1) - 1 = i - 2
    OBVIOUS
  <2> QED
    BY <2>1, <2>2, <2>3 DEF Capped
<1>4. i = 2 => p = b
  BY Pow2Is
<1>5. Capped(i, b, m) = IF 2 * p < m THEN 2 * p ELSE m
  BY <1>2 DEF Capped
<1> HIDE DEF p, d
<1>6. d \in 1 .. MaxInt
  BY <1>2, <1>3, <1>4, MachineIntAssumption
<1>7. CASE d >= m \/ d > m \div 2
  <2>1. 2 * p >= m
    BY <1>2, <1>3, <1>6, <1>7
  <2> QED
    BY <1>2, <1>5, <1>6, <1>7, <2>1 DEF d
<1>8. CASE ~(d >= m \/ d > m \div 2)
  <2>1. d = p /\ 2 * d <= m
    BY <1>2, <1>3, <1>6, <1>8
  <2>2. Wrap(2 * d) = 2 * d
    BY <1>6, <2>1, WrapIsIdentity, MachineIntAssumption DEF Machine, MinInt
  <2>3. Capped(i, b, m) = 2 * d
    BY <1>2, <1>5, <2>1
  <2> QED
    BY <1>6, <1>8, <2>2, <2>3 DEF Double, d
<1> QED
  BY <1>7, <1>8

\* The loop computes the capped powers.
LEMMA DelaysAre ==
    ASSUME NEW n \in Nat \ {0}, NEW b \in 1 .. MaxInt, NEW m \in 1 .. MaxInt
    PROVE  \A i \in 1 .. n : Delays(n, b, m)[i] = Capped(i, b, m)
<1> DEFINE W == [i \in 1 .. n |-> Capped(i, b, m)]
           S == Delays(n, b, m)
<1>1. W = [i \in 1 .. n |->
             IF i = 1 THEN b
             ELSE IF W[i - 1] >= m \/ W[i - 1] > m \div 2
                  THEN m ELSE Double(W[i - 1])]
  <2>1. ASSUME NEW i \in 1 .. n
        PROVE  W[i] = IF i = 1 THEN b
                      ELSE IF W[i - 1] >= m \/ W[i - 1] > m \div 2
                           THEN m ELSE Double(W[i - 1])
    <3>1. CASE i = 1
      BY <3>1 DEF Capped
    <3>2. CASE i # 1
      <4>1. W[i - 1] = Capped(i - 1, b, m) /\ W[i] = Capped(i, b, m)
        BY <3>2
      <4>2. i \in Nat \ {0, 1}
        BY <3>2
      <4>3. Capped(i, b, m) =
              IF Capped(i - 1, b, m) >= m \/ Capped(i - 1, b, m) > m \div 2
              THEN m ELSE Double(Capped(i - 1, b, m))
        BY <4>2, OneIteration
      <4> HIDE DEF W
      <4> QED
        BY <3>2, <4>1, <4>3
    <3> QED
      BY <3>1, <3>2
  <2> QED
    BY <2>1
<1> HIDE DEF W
<1>2. S = [i \in 1 .. n |->
             IF i = 1 THEN b
             ELSE IF S[i - 1] >= m \/ S[i - 1] > m \div 2
                  THEN m ELSE Double(S[i - 1])]
  BY <1>1 DEF Delays
<1> HIDE DEF S
<1>3. \A i \in 1 .. n : S[i] = W[i]
  <2> DEFINE D == {i \in 1 .. n : S[i] # W[i]}
  <2> SUFFICES ASSUME D # {} PROVE FALSE
    OBVIOUS
  <2>1. PICK k \in D : \A i \in D : k <= i
    <3>1. D \subseteq Nat
      OBVIOUS
    <3> HIDE DEF D
    <3> QED
      BY <3>1, LeastNumber
  <2>2. k # 1
    BY <1>1, <1>2
  <2>3. k - 1 \in 1 .. n /\ S[k - 1] = W[k - 1]
    BY <2>1, <2>2
  <2> QED
    BY <1>1, <1>2, <2>2, <2>3
<1> QED
  BY <1>3 DEF W, S

\* What Backoff returns after any number of failures.
LEMMA BackoffDelayIs ==
    ASSUME NEW n \in Nat \ {0}, NEW b \in 1 .. MaxInt, NEW m \in 1 .. MaxInt
    PROVE  BackoffDelay(n, b, m) =
             IF b * Pow2[n - 1] < m THEN b * Pow2[n - 1] ELSE m
<1>1. OrDefault(b, DefaultBase) = b /\ OrDefault(m, DefaultMax) = m
  BY DEF OrDefault
<1>2. Delays(n, b, m)[n] = Capped(n, b, m)
  BY DelaysAre
<1>3. n = 1 => b * Pow2[n - 1] = b
  BY Pow2Is
<1>4. b * Pow2[n - 1] \in Nat
  <2>1. n - 1 \in Nat
    OBVIOUS
  <2>2. Pow2[n - 1] \in Nat
    BY <2>1, Pow2Is
  <2>3. \A x, y \in Nat : x * y \in Nat
    OBVIOUS
  <2> QED
    BY <2>2, <2>3
<1> DEFINE e == b * Pow2[n - 1]
<1>5. Capped(n, b, m) = IF n = 1 THEN b ELSE IF e < m THEN e ELSE m
  BY DEF Capped
<1>6. BackoffDelay(n, b, m) = IF Capped(n, b, m) > m THEN m ELSE Capped(n, b, m)
  BY <1>1, <1>2 DEF BackoffDelay
<1> HIDE DEF e
<1> QED
  BY <1>3, <1>4, <1>5, <1>6 DEF e

\* New replaces every duration that is not positive.
BackoffInv ==
    /\ base \in 1 .. MaxInt /\ max \in 1 .. MaxInt
    /\ attempts \in Nat
    /\ CappedDoubling

\* Whatever the width of the integers, the configuration and the number of
\* failures: the n-th delay is the base doubled n - 1 times, capped, and the
\* doubling never overflows (outbox.go 169-173, 208-218).
THEOREM DoublingHolds == Spec => []CappedDoubling
<1>1. Init => BackoffInv
  BY BackoffAssumption, MachineIntAssumption
     DEF Init, FromOutbox, FromElsewhere, BackoffInit, BackoffInv, CappedDoubling,
         OrDefault, Machine, MinInt
<1>2. BackoffInv /\ [Next]_vars => BackoffInv'
  <2> SUFFICES ASSUME BackoffInv, [Next]_vars
               PROVE  BackoffInv'
    OBVIOUS
  <2>1. CASE UNCHANGED backoffVars
    BY <2>1 DEF backoffVars, config, BackoffInv, CappedDoubling, Exhausted
  <2>2. CASE Fail
    <3>1. attempts' \in Nat \ {0} /\ UNCHANGED config
      BY <2>2 DEF Fail, BackoffInv
    <3>2. base' = base /\ max' = max /\ maxAttempts' = maxAttempts
      BY <3>1 DEF config
    <3>3. delay' = IF maxAttempts > 0 /\ attempts' >= maxAttempts
                   THEN max ELSE BackoffDelay(attempts', base, max)
      BY <2>2 DEF Fail
    <3>4. BackoffDelay(attempts', base, max) =
            IF base * Pow2[attempts' - 1] < max THEN base * Pow2[attempts' - 1]
            ELSE max
      BY <3>1, BackoffDelayIs DEF BackoffInv
    <3>5. CappedDoubling'
      BY <3>1, <3>2, <3>3, <3>4 DEF CappedDoubling, Exhausted
    <3> QED
      BY <3>1, <3>2, <3>5 DEF BackoffInv
  <2> QED
    BY <2>1, <2>2 DEF Next, RelayFails, RelayPublishes, Consume, Settled, vars
<1>3. BackoffInv => CappedDoubling
  BY DEF BackoffInv
<1> QED
  BY <1>1, <1>2, <1>3, PTL DEF Spec

=============================================================================
