----------------------------- MODULE AtLeastOnce -----------------------------
(***************************************************************************)
(* What the outbox promises, without saying how: an event handed to it is  *)
(* delivered to the broker before it is settled, any number of times; it   *)
(* may be opened once more, but is never lost or forgotten.                *)
(***************************************************************************)
CONSTANT Event

VARIABLES accepted,   \* events the service has committed to the outbox
          delivered,  \* events the broker holds
          settled     \* events the outbox has no more work with

avars == <<accepted, delivered, settled>>

AInit == accepted = {} /\ delivered = {} /\ settled = {}

Accept(e) ==
    /\ accepted' = accepted \cup {e}
    /\ UNCHANGED <<delivered, settled>>

Deliver(e) ==
    /\ e \in accepted
    /\ delivered' = delivered \cup {e}
    /\ UNCHANGED <<accepted, settled>>

Settle(e) ==
    /\ e \in delivered
    /\ settled' = settled \cup {e}
    /\ UNCHANGED <<accepted, delivered>>

Reopen(e) ==
    /\ settled' = settled \ {e}
    /\ UNCHANGED <<accepted, delivered>>

ANext == \E e \in Event : Accept(e) \/ Deliver(e) \/ Settle(e) \/ Reopen(e)

ASpec == AInit /\ [][ANext]_avars

=============================================================================
