------------------------------ MODULE MCService ------------------------------
(***************************************************************************)
(* Three goroutines, then the requests of MCHttpServer.                    *)
(***************************************************************************)
EXTENDS Service, MCHttpServer

CONSTANTS main, g1, g2

MCSymmetry == Permutations({g1, g2})

=============================================================================
