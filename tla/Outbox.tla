------------------------------- MODULE Outbox -------------------------------
(***************************************************************************)
(* The outbox relays: several processes running Relay.Run over one Store   *)
(* and one broker (src/messaging/outbox/outbox.go).                        *)
(*                                                                         *)
(* The Store and the Publisher are interfaces; they are modelled from the  *)
(* calls the relay makes.  A store call may fail before or after it took   *)
(* effect, a publish may fail although the broker has the message, a relay *)
(* may crash between any two calls.  Whether a store lets a late           *)
(* MarkFailed reopen a published row is left open, as the interface does   *)
(* not say.  event.Attempts only chooses the delay of a retry, which is    *)
(* the subject of module Backoff; here a delay is any delay.               *)
(***************************************************************************)
EXTENDS Naturals, FiniteSets

CONSTANTS Event, Relay,
          NoEvent,
          BatchSize,     \* Config.BatchSize
          MaxSent,       \* bound: deliveries of one event that are counted
          MaxStops       \* bound: crashes and cancellations together

ASSUME OutboxAssumption ==
    /\ NoEvent \notin Event
    /\ BatchSize \in Nat \ {0}
    /\ MaxSent \in Nat \ {0, 1}
    /\ MaxStops \in Nat

VARIABLES
    status,    \* the row of each event
    waiting,   \* availableAt of the row lies in the future
    stale,     \* the lock of the row is older than LockTimeout
    sent,      \* how often the broker received the event
    faulty,    \* events met by a crash, an ambiguous call or an aged lock
    rpc,       \* where each relay is
    batch,     \* events of tick's slice the loop has not come to
    cur,       \* the event of the current iteration
    ctxDone,   \* the context of Run is cancelled
    stops      \* crashes and cancellations so far

store == <<status, waiting, stale>>
relay == <<rpc, batch, cur>>
vars == <<store, sent, faulty, relay, ctxDone, stops>>

TypeOK ==
    /\ status \in [Event -> {"absent", "pending", "locked", "published"}]
    /\ waiting \in [Event -> BOOLEAN] /\ stale \in [Event -> BOOLEAN]
    /\ sent \in [Event -> 0 .. MaxSent]
    /\ faulty \subseteq Event
    /\ rpc \in [Relay -> {"tick", "select", "loop", "publish", "mark", "fail",
                          "returned", "down"}]
    /\ batch \in [Relay -> SUBSET Event]
    /\ cur \in [Relay -> Event \cup {NoEvent}]
    /\ ctxDone \in [Relay -> BOOLEAN]
    /\ stops \in 0 .. MaxStops

Init ==
    /\ status = [e \in Event |-> "absent"]
    /\ waiting = [e \in Event |-> FALSE] /\ stale = [e \in Event |-> FALSE]
    /\ sent = [e \in Event |-> 0]
    /\ faulty = {}
    /\ rpc = [r \in Relay |-> "tick"]
    /\ batch = [r \in Relay |-> {}]
    /\ cur = [r \in Relay |-> NoEvent]
    /\ ctxDone = [r \in Relay |-> FALSE]
    /\ stops = 0

-----------------------------------------------------------------------------
(* The store *)

Available == {e \in Event : status[e] = "pending" /\ ~waiting[e]}

Lock(S) ==
    /\ status' = [e \in Event |-> IF e \in S THEN "locked" ELSE status[e]]
    /\ stale' = [e \in Event |-> IF e \in S THEN FALSE ELSE stale[e]]
    /\ UNCHANGED waiting

\* ClaimBatch returns at most batchSize rows, as many as there are
Claimable == {S \in SUBSET Available :
                /\ Cardinality(S) <= BatchSize
                /\ Cardinality(S) < BatchSize => S = Available}

StorePublished(e) ==
    /\ status' = [status EXCEPT ![e] = "published"]
    /\ UNCHANGED <<waiting, stale>>

\* MarkFailed unlocks the row until availableAt; it names no lock owner and may
\* be late, when a store may keep a published row published, or reopen it
StoreFailed(e) ==
    /\ \/ status[e] = "published" /\ UNCHANGED <<status, waiting>>
       \/ /\ status' = [status EXCEPT ![e] = "pending"]
          /\ waiting' = [waiting EXCEPT ![e] = TRUE]
    /\ UNCHANGED stale

StoreRecover ==
    /\ status' = [e \in Event |-> IF status[e] = "locked" /\ stale[e]
                                  THEN "pending" ELSE status[e]]
    /\ UNCHANGED <<waiting, stale>>

\* the service's transaction writes the row
Insert(e) ==
    /\ status[e] = "absent"
    /\ status' = [status EXCEPT ![e] = "pending"]
    /\ UNCHANGED <<waiting, stale, sent, faulty, relay, ctxDone, stops>>

BackoffElapses(e) ==
    /\ waiting[e]
    /\ waiting' = [waiting EXCEPT ![e] = FALSE]
    /\ UNCHANGED <<status, stale, sent, faulty, relay, ctxDone, stops>>

LockAges(e) ==
    /\ status[e] = "locked" /\ ~stale[e]
    /\ stale' = [stale EXCEPT ![e] = TRUE]
    /\ faulty' = faulty \cup {e}
    /\ UNCHANGED <<status, waiting, sent, relay, ctxDone, stops>>

-----------------------------------------------------------------------------
(* Relay.Run and tick *)

Goto(r, to) == rpc' = [rpc EXCEPT ![r] = to]

\* ClaimBatch succeeds
Claim(r) ==
    /\ rpc[r] = "tick"
    /\ \E S \in Claimable : Lock(S) /\ batch' = [batch EXCEPT ![r] = S]
    /\ Goto(r, "loop")
    /\ UNCHANGED <<sent, faulty, cur, ctxDone, stops>>

\* ClaimBatch fails, possibly after the rows were locked
ClaimErr(r) ==
    /\ rpc[r] = "tick"
    /\ \/ UNCHANGED store
       \/ \E S \in Claimable : Lock(S)
    /\ Goto(r, "select")
    /\ UNCHANGED <<sent, faulty, batch, cur, ctxDone, stops>>

\* Mutant: the event is marked published before it is sent.
NextEventMarksFirst(r) ==
    /\ rpc[r] = "loop"
    /\ IF batch[r] = {} \/ ctxDone[r]
       THEN /\ Goto(r, "select")
            /\ batch' = [batch EXCEPT ![r] = {}]
            /\ UNCHANGED <<cur, store>>
       ELSE \E e \in batch[r] :
            /\ Goto(r, "publish")
            /\ batch' = [batch EXCEPT ![r] = @ \ {e}]
            /\ cur' = [cur EXCEPT ![r] = e]
            /\ StorePublished(e)
    /\ UNCHANGED <<sent, faulty, ctxDone, stops>>

\* Mutant: the loop does not advance past a finished event.
NextEventAgain(r) ==
    /\ rpc[r] = "loop"
    /\ IF batch[r] = {} \/ ctxDone[r]
       THEN /\ Goto(r, "select")
            /\ batch' = [batch EXCEPT ![r] = {}]
            /\ UNCHANGED cur
       ELSE \E e \in batch[r] :
            /\ Goto(r, "publish")
            /\ cur' = [cur EXCEPT ![r] = e]
            /\ UNCHANGED batch
    /\ UNCHANGED <<store, sent, faulty, ctxDone, stops>>

\* the loop over the claimed events; a cancelled context leaves the rest locked
NextEvent(r) ==
    /\ rpc[r] = "loop"
    /\ IF batch[r] = {} \/ ctxDone[r]
       THEN /\ Goto(r, "select")
            /\ batch' = [batch EXCEPT ![r] = {}]
            /\ UNCHANGED cur
       ELSE \E e \in batch[r] :
            /\ Goto(r, "publish")
            /\ batch' = [batch EXCEPT ![r] = @ \ {e}]
            /\ cur' = [cur EXCEPT ![r] = e]
    /\ UNCHANGED <<store, sent, faulty, ctxDone, stops>>

Receive(e) == sent' = [sent EXCEPT ![e] = IF @ < MaxSent THEN @ + 1 ELSE @]

\* PublishWithConfirm returns nil: the broker has the event
PublishOk(r) ==
    /\ rpc[r] = "publish"
    /\ Receive(cur[r])
    /\ Goto(r, "mark")
    /\ UNCHANGED <<store, faulty, batch, cur, ctxDone, stops>>

\* Mutant: the error of the publisher is dropped.
PublishErrIgnored(r) ==
    /\ rpc[r] = "publish"
    /\ Goto(r, "mark")
    /\ UNCHANGED <<store, sent, faulty, batch, cur, ctxDone, stops>>

\* it fails, by its timeout, the cancelled context or the broker; a lost
\* confirmation leaves the event with the broker
PublishErr(r) ==
    /\ rpc[r] = "publish"
    /\ \/ UNCHANGED <<sent, faulty>>
       \/ Receive(cur[r]) /\ faulty' = faulty \cup {cur[r]}
    /\ Goto(r, "fail")
    /\ UNCHANGED <<store, batch, cur, ctxDone, stops>>

EndIteration(r) == Goto(r, "loop") /\ cur' = [cur EXCEPT ![r] = NoEvent]

MarkPublished(r) ==
    /\ rpc[r] = "mark"
    /\ StorePublished(cur[r])
    /\ EndIteration(r)
    /\ UNCHANGED <<sent, faulty, batch, ctxDone, stops>>

\* MarkPublished fails, possibly after the row was written: it is only logged
MarkPublishedErr(r) ==
    /\ rpc[r] = "mark"
    /\ \/ UNCHANGED store
       \/ StorePublished(cur[r])
    /\ faulty' = faulty \cup {cur[r]}
    /\ EndIteration(r)
    /\ UNCHANGED <<sent, batch, ctxDone, stops>>

\* fail(): the row is released for a later attempt
MarkFailed(r) ==
    /\ rpc[r] = "fail"
    /\ StoreFailed(cur[r])
    /\ EndIteration(r)
    /\ UNCHANGED <<sent, faulty, batch, ctxDone, stops>>

\* MarkFailed fails before it took effect; after it, the step is MarkFailed
MarkFailedErr(r) ==
    /\ rpc[r] = "fail"
    /\ EndIteration(r)
    /\ UNCHANGED <<store, sent, faulty, batch, ctxDone, stops>>

\* the three cases of Run's select
Poll(r) ==
    /\ rpc[r] = "select"
    /\ Goto(r, "tick")
    /\ UNCHANGED <<store, sent, faulty, batch, cur, ctxDone, stops>>

\* Mutant: every lock is taken for a stuck one.
RecoverAll(r) ==
    /\ rpc[r] = "select"
    /\ status' = [e \in Event |-> IF status[e] = "locked" THEN "pending" ELSE status[e]]
    /\ UNCHANGED <<waiting, stale, sent, faulty, relay, ctxDone, stops>>

\* Mutant: the recovery ticker fires and nothing is recovered.
RecoverNothing(r) ==
    /\ rpc[r] = "select"
    /\ UNCHANGED vars

\* RecoverStuckLocks; a call that fails has recovered the locks all the same,
\* or has changed nothing and is a stuttering step
Recover(r) ==
    /\ rpc[r] = "select"
    /\ StoreRecover
    /\ UNCHANGED <<sent, faulty, relay, ctxDone, stops>>

Return(r) ==
    /\ rpc[r] = "select" /\ ctxDone[r]
    /\ Goto(r, "returned")
    /\ UNCHANGED <<store, sent, faulty, batch, cur, ctxDone, stops>>

-----------------------------------------------------------------------------
(* Processes *)

Cancel(r) ==
    /\ ~ctxDone[r] /\ rpc[r] # "down" /\ stops < MaxStops
    /\ stops' = stops + 1
    /\ ctxDone' = [ctxDone EXCEPT ![r] = TRUE]
    /\ UNCHANGED <<store, sent, faulty, relay>>

\* the process dies; what it had claimed stays locked
Crash(r) ==
    /\ rpc[r] \notin {"down", "returned"} /\ stops < MaxStops
    /\ stops' = stops + 1
    /\ faulty' = faulty \cup batch[r] \cup ({cur[r]} \ {NoEvent})
    /\ Goto(r, "down")
    /\ batch' = [batch EXCEPT ![r] = {}]
    /\ cur' = [cur EXCEPT ![r] = NoEvent]
    /\ UNCHANGED <<store, sent, ctxDone>>

\* a new process calls Run with a new context
Restart(r) ==
    /\ rpc[r] \in {"down", "returned"}
    /\ Goto(r, "tick")
    /\ ctxDone' = [ctxDone EXCEPT ![r] = FALSE]
    /\ UNCHANGED <<store, sent, faulty, batch, cur, stops>>

-----------------------------------------------------------------------------
(* Specification *)

RelayStep(r) ==
    \/ Claim(r)
    \/ ClaimErr(r)
    \/ NextEvent(r)
    \/ PublishOk(r)
    \/ PublishErr(r)
    \/ MarkPublished(r)
    \/ MarkPublishedErr(r)
    \/ MarkFailed(r)
    \/ MarkFailedErr(r)
    \/ Poll(r)
    \/ Recover(r)
    \/ Return(r)

Next ==
    \/ \E r \in Relay : RelayStep(r) \/ Cancel(r) \/ Crash(r) \/ Restart(r)
    \/ \E e \in Event : Insert(e) \/ BackoffElapses(e) \/ LockAges(e)

Spec == Init /\ [][Next]_vars

\* Relays run and are restarted, both tickers keep firing, select passes over
\* none of its ready cases for ever (Go picks one at random), time passes for
\* backoffs and locks.  Neither the store nor the broker refuses an event for
\* ever: what is tried again and again succeeds.
Fairness ==
    /\ \A r \in Relay :
        /\ WF_vars(RelayStep(r))
        /\ WF_vars(Restart(r))
        /\ SF_vars(Poll(r))
        /\ SF_vars(Recover(r))
        /\ SF_vars(Return(r))
    /\ \A e \in Event :
        /\ WF_vars(BackoffElapses(e))
        /\ WF_vars(LockAges(e))
        /\ SF_vars(\E r \in Relay : Claim(r) /\ e \in batch'[r])
        /\ SF_vars(\E r \in Relay : cur[r] = e /\ PublishOk(r))
        /\ SF_vars(\E r \in Relay : cur[r] = e /\ MarkPublished(r))

FairSpec == Spec /\ Fairness

-----------------------------------------------------------------------------
(* Properties *)

\* No event is lost: a row is marked published only when the broker has the
\* event, also when a relay acts on a lock it no longer holds (lines 127-145).
PublishedWasSent == \A e \in Event : status[e] = "published" => sent[e] > 0

\* An event reaches the broker twice only after a fault: a crash, a call with
\* an unknown outcome or a lock that outlived LockTimeout.
DuplicatesNeedFaults == \A e \in Event : sent[e] > 1 => e \in faulty

\* Two relays work on one event only after its lock has aged or its first
\* relay has crashed.
OneRelayPerEvent ==
    \A r1, r2 \in Relay : \A e \in Event :
        /\ r1 # r2
        /\ e \in batch[r1] \cup {cur[r1]}
        /\ e \in batch[r2] \cup {cur[r2]}
        => e \in faulty

\* The outbox as its users see it
Abstract == INSTANCE AtLeastOnce WITH
    accepted <- {e \in Event : status[e] # "absent"},
    delivered <- {e \in Event : sent[e] > 0},
    settled <- {e \in Event : status[e] = "published"}

\* The relays implement the at-least-once outbox.
ImplementsAtLeastOnce == Abstract!ASpec

\* Every row that is written is published in the end, whatever crashes,
\* cancellations, lost replies and stuck locks happen on the way.
EventuallyPublished ==
    \A e \in Event : status[e] # "absent" ~> status[e] = "published"

=============================================================================
