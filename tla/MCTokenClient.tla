--------------------------- MODULE MCTokenClient ---------------------------
(* Two goroutines and two audiences, tokens of 120 seconds; time is in units of ten. *)
EXTENDS TokenClient, TLC

CONSTANTS p1, p2

Symmetry == Permutations({p1, p2})

=============================================================================
