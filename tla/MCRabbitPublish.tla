--------------------------- MODULE MCRabbitPublish ---------------------------
(* RabbitPublish with three connections, so that a replacement may drop too, *)
(* and one publisher for TLC.                                                *)
EXTENDS RabbitPublish

CONSTANTS c1, c2, c3, p1

MCConn == {c1, c2, c3}
MCPublisher == {p1}

=============================================================================
