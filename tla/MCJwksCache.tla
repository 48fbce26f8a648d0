---------------------------- MODULE MCJwksCache ----------------------------
(* Two goroutines, two key ids and a key server that rotates for TLC. *)
EXTENDS JwksCache, TLC

CONSTANTS p1, p2, k1, k2

Doc(a, b) == (k1 :> a) @@ (k2 :> b)
\* before and after a rotation, a broken document, an unusable one
MCDocs == {Doc("good", "absent"), Doc("absent", "good"),
           Doc("good", "malformed"), Doc("skipped", "absent")}
Symmetry == Permutations({p1, p2})

=============================================================================
