------------------------------ MODULE Delivery ------------------------------
(***************************************************************************)
(* A message from the outbox to its end: it fails to be published and is   *)
(* delayed (Backoff), is published and then handled, republished or        *)
(* dead-lettered by its consumer (Retry).  Other messages are in the queue *)
(* from the start, with the header another producer gave them.             *)
(***************************************************************************)
EXTENDS Backoff, Retry

vars == <<backoffVars, retryVars>>

NoHeader == <<"absent", 0>>

FromOutbox ==
    /\ BackoffInit
    /\ header = NoHeader /\ limit = 0 /\ first = 0
    /\ state = "outbox" /\ republished = 0

FromElsewhere ==
    /\ RetryInit
    /\ base = DefaultBase /\ max = DefaultMax /\ maxAttempts = 0
    /\ attempts = 0 /\ delay = 0

Init == FromOutbox \/ FromElsewhere

RelayFails ==
    /\ state = "outbox"
    /\ Fail
    /\ UNCHANGED retryVars

\* publishOne publishes the event; outbox events carry no retry count
RelayPublishes ==
    /\ state = "outbox"
    /\ state' = "queued"
    /\ UNCHANGED <<backoffVars, header, limit, first, republished>>

Consume ==
    /\ Deliver
    /\ UNCHANGED backoffVars

Settled == state \in {"acked", "dlq"} /\ UNCHANGED vars

Next == RelayFails \/ RelayPublishes \/ Consume \/ Settled

Spec == Init /\ [][Next]_vars

=============================================================================
