------------------------------ MODULE MCOutbox ------------------------------
(* Outbox with two events and up to two relays for TLC. *)
EXTENDS Outbox, TLC

CONSTANTS e1, e2, r1, r2

TwoEvents == {e1, e2}
OneEvent == {e1}
TwoRelays == {r1, r2}
OneRelay == {r1}
MCSymmetry == Permutations(TwoEvents) \cup Permutations(TwoRelays)

=============================================================================
