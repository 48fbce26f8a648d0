---------------------------- MODULE MCServiceCall ----------------------------
(* Two goroutines and two audiences in units of five seconds for TLC. *)
EXTENDS ServiceCall, TLC

CONSTANTS p1, p2

Symmetry == Permutations({p1, p2})

Cred(audiences) == [name |-> Caller, secret |-> Secret, audiences |-> audiences, scopes |-> {}]

\* a blank and an outdated entry before the one that counts; then restarts
\* with another secret and with one audience left
MCCreds == <<[Cred({}) EXCEPT !.name = Blank], Cred({}), Cred({Wildcard})>>
MCLaterCreds == {<<Cred({Wildcard}), [Cred({Wildcard}) EXCEPT !.secret = "other"]>>,
                 <<Cred({"ledger"})>>}

MCSkews == {-8, -6, 0, 6}

=============================================================================
