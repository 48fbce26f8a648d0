----------------------------- MODULE MCDelivery -----------------------------
(* Delivery with eight-bit integers for TLC. *)
EXTENDS Delivery

MCBases == {-1, 0, 1, 2, 3, 5, 31, 63, 64, 100, 127}
MCMaxes == {-1, 0, 1, 2, 7, 62, 63, 64, 126, 127}
MCMaxAttempts == {-1, 0, 1, 4, 9}
MCLimits == {-1, 0, 1, 3, MaxInt - 1, MaxInt}
MCOutOfRange == MinInt

\* every count in the type WithAttempt writes; in the other types the
\* boundaries, numbers beyond the integers and fractions
MCHeaders ==
    LET edges == {MinInt - 1, MinInt, -2, -1, 0, 1, 3, 7, 8, 9, MaxInt - 1, MaxInt,
                  MaxInt + 1}
    IN {NoHeader, <<"other", 0>>}
       \cup ({"integer"} \X Machine)
       \cup ({"string"} \X edges)
       \cup ({"float64"} \X {2 * n + k : n \in edges, k \in {-1, 0, 1}})

=============================================================================
