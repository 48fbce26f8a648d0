----------------------------- MODULE MachineInt -----------------------------
(* Go's int and time.Duration: from -MaxInt - 1 to MaxInt, in two's complement. *)
EXTENDS Integers

CONSTANT MaxInt

ASSUME MachineIntAssumption == MaxInt \in Nat \ {0}

MinInt == -MaxInt - 1
Machine == MinInt .. MaxInt
Wrap(n) == ((n - MinInt) % (2 * MaxInt + 2)) + MinInt

=============================================================================
