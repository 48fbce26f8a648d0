---------------------------- MODULE OutboxProofs ----------------------------
(***************************************************************************)
(* The outbox relays implement AtLeastOnce, for every set of events and of *)
(* relays and every batch size.                                            *)
(*                                                                         *)
(* That a row is marked published only after the broker has its event is   *)
(* not inductive: a relay at MarkPublished must be known to have sent the  *)
(* event it holds, and whatever a relay holds must be in the outbox.       *)
(***************************************************************************)
EXTENDS Outbox, TLAPS

\* What a relay holds, at each point of the loop of tick.
HoldInv ==
    \A r \in Relay :
        /\ rpc[r] \in {"publish", "mark", "fail"} => cur[r] \in Event
        /\ rpc[r] = "mark" => sent[cur[r]] > 0
        /\ \A e \in Event : e \in batch[r] \/ e = cur[r] => status[e] # "absent"

\* The broker has nothing the service did not write.
SentInv == \A e \in Event : sent[e] > 0 => status[e] # "absent"

OInv == TypeOK /\ HoldInv /\ SentInv /\ PublishedWasSent

-----------------------------------------------------------------------------
\* Every step preserves the type invariant.
LEMMA TypeStep ==
    ASSUME TypeOK, HoldInv, [Next]_vars
    PROVE  TypeOK'
<1> USE OutboxAssumption DEF TypeOK, HoldInv, vars, store, relay
<1>1. ASSUME NEW r \in Relay, Claim(r)
      PROVE  TypeOK'
  <2>1. PICK S \in Claimable : Lock(S) /\ batch' = [batch EXCEPT ![r] = S]
    BY <1>1 DEF Claim
  <2>2. S \subseteq Event /\ \A e \in S : status[e] = "pending"
    BY DEF Claimable, Available
  <2> QED
    BY <1>1, <2>1, <2>2 DEF Claim, Goto, Lock
<1>2. ASSUME NEW r \in Relay, ClaimErr(r)
      PROVE  TypeOK'
  <2>1. CASE UNCHANGED store
    BY <1>2, <2>1 DEF ClaimErr, Goto
  <2>2. ASSUME NEW S \in Claimable, Lock(S)
        PROVE  TypeOK'
    <3>1. S \subseteq Event /\ \A e \in S : status[e] = "pending"
      BY DEF Claimable, Available
    <3> QED
      BY <1>2, <2>2, <3>1 DEF ClaimErr, Goto, Lock
  <2> QED
    BY <1>2, <2>1, <2>2 DEF ClaimErr
<1>3. ASSUME NEW r \in Relay, NextEvent(r)
      PROVE  TypeOK'
  BY <1>3 DEF NextEvent, Goto
<1>4. ASSUME NEW r \in Relay, PublishOk(r)
      PROVE  TypeOK'
  BY <1>4 DEF PublishOk, Goto, Receive
<1>5. ASSUME NEW r \in Relay, PublishErr(r)
      PROVE  TypeOK'
  BY <1>5 DEF PublishErr, Goto, Receive
<1>6. ASSUME NEW r \in Relay, MarkPublished(r)
      PROVE  TypeOK'
  BY <1>6 DEF MarkPublished, StorePublished, EndIteration, Goto
<1>7. ASSUME NEW r \in Relay, MarkPublishedErr(r)
      PROVE  TypeOK'
  BY <1>7 DEF MarkPublishedErr, StorePublished, EndIteration, Goto
<1>8. ASSUME NEW r \in Relay, MarkFailed(r)
      PROVE  TypeOK'
  BY <1>8 DEF MarkFailed, StoreFailed, EndIteration, Goto
<1>9. ASSUME NEW r \in Relay, MarkFailedErr(r)
      PROVE  TypeOK'
  BY <1>9 DEF MarkFailedErr, EndIteration, Goto
<1>10. ASSUME NEW r \in Relay, Poll(r)
      PROVE  TypeOK'
  BY <1>10 DEF Poll, Goto
<1>11. ASSUME NEW r \in Relay, Recover(r)
      PROVE  TypeOK'
  BY <1>11 DEF Recover, StoreRecover
<1>12. ASSUME NEW r \in Relay, Return(r)
      PROVE  TypeOK'
  BY <1>12 DEF Return, Goto
<1>13. ASSUME NEW r \in Relay, Cancel(r)
      PROVE  TypeOK'
  BY <1>13 DEF Cancel
<1>14. ASSUME NEW r \in Relay, Crash(r)
      PROVE  TypeOK'
  BY <1>14 DEF Crash, Goto
<1>15. ASSUME NEW r \in Relay, Restart(r)
      PROVE  TypeOK'
  BY <1>15 DEF Restart, Goto
<1>16. ASSUME NEW e \in Event, Insert(e)
      PROVE  TypeOK'
  BY <1>16 DEF Insert
<1>17. ASSUME NEW e \in Event, BackoffElapses(e)
      PROVE  TypeOK'
  BY <1>17 DEF BackoffElapses
<1>18. ASSUME NEW e \in Event, LockAges(e)
      PROVE  TypeOK'
  BY <1>18 DEF LockAges
<1>19. CASE UNCHANGED vars
  BY <1>19
<1> QED
  BY <1>1, <1>2, <1>3, <1>4, <1>5, <1>6, <1>7, <1>8, <1>9, <1>10, <1>11,
     <1>12, <1>13, <1>14, <1>15, <1>16, <1>17, <1>18, <1>19 DEF Next,
     RelayStep

\* A relay goes on holding events that are in the outbox, and sent ones when
\* it marks them.
LEMMA HoldStep ==
    ASSUME TypeOK, HoldInv, [Next]_vars
    PROVE  HoldInv'
<1> USE OutboxAssumption DEF TypeOK, HoldInv, vars, store, relay
<1>1. ASSUME NEW r \in Relay, Claim(r)
      PROVE  HoldInv'
  <2>1. PICK S \in Claimable : Lock(S) /\ batch' = [batch EXCEPT ![r] = S]
    BY <1>1 DEF Claim
  <2>2. S \subseteq Event /\ \A e \in S : status[e] = "pending"
    BY DEF Claimable, Available
  <2> QED
    BY <1>1, <2>1, <2>2 DEF Claim, Goto, Lock
<1>2. ASSUME NEW r \in Relay, ClaimErr(r)
      PROVE  HoldInv'
  <2>1. CASE UNCHANGED store
    BY <1>2, <2>1 DEF ClaimErr, Goto
  <2>2. ASSUME NEW S \in Claimable, Lock(S)
        PROVE  HoldInv'
    <3>1. S \subseteq Event /\ \A e \in S : status[e] = "pending"
      BY DEF Claimable, Available
    <3> QED
      BY <1>2, <2>2, <3>1 DEF ClaimErr, Goto, Lock
  <2> QED
    BY <1>2, <2>1, <2>2 DEF ClaimErr
<1>3. ASSUME NEW r \in Relay, NextEvent(r)
      PROVE  HoldInv'
  BY <1>3 DEF NextEvent, Goto
<1>4. ASSUME NEW r \in Relay, PublishOk(r)
      PROVE  HoldInv'
  BY <1>4 DEF PublishOk, Goto, Receive
<1>5. ASSUME NEW r \in Relay, PublishErr(r)
      PROVE  HoldInv'
  BY <1>5 DEF PublishErr, Goto, Receive
<1>6. ASSUME NEW r \in Relay, MarkPublished(r)
      PROVE  HoldInv'
  BY <1>6 DEF MarkPublished, StorePublished, EndIteration, Goto
<1>7. ASSUME NEW r \in Relay, MarkPublishedErr(r)
      PROVE  HoldInv'
  BY <1>7 DEF MarkPublishedErr, StorePublished, EndIteration, Goto
<1>8. ASSUME NEW r \in Relay, MarkFailed(r)
      PROVE  HoldInv'
  BY <1>8 DEF MarkFailed, StoreFailed, EndIteration, Goto
<1>9. ASSUME NEW r \in Relay, MarkFailedErr(r)
      PROVE  HoldInv'
  BY <1>9 DEF MarkFailedErr, EndIteration, Goto
<1>10. ASSUME NEW r \in Relay, Poll(r)
      PROVE  HoldInv'
  BY <1>10 DEF Poll, Goto
<1>11. ASSUME NEW r \in Relay, Recover(r)
      PROVE  HoldInv'
  BY <1>11 DEF Recover, StoreRecover
<1>12. ASSUME NEW r \in Relay, Return(r)
      PROVE  HoldInv'
  BY <1>12 DEF Return, Goto
<1>13. ASSUME NEW r \in Relay, Cancel(r)
      PROVE  HoldInv'
  BY <1>13 DEF Cancel
<1>14. ASSUME NEW r \in Relay, Crash(r)
      PROVE  HoldInv'
  BY <1>14 DEF Crash, Goto
<1>15. ASSUME NEW r \in Relay, Restart(r)
      PROVE  HoldInv'
  BY <1>15 DEF Restart, Goto
<1>16. ASSUME NEW e \in Event, Insert(e)
      PROVE  HoldInv'
  BY <1>16 DEF Insert
<1>17. ASSUME NEW e \in Event, BackoffElapses(e)
      PROVE  HoldInv'
  BY <1>17 DEF BackoffElapses
<1>18. ASSUME NEW e \in Event, LockAges(e)
      PROVE  HoldInv'
  BY <1>18 DEF LockAges
<1>19. CASE UNCHANGED vars
  BY <1>19
<1> QED
  BY <1>1, <1>2, <1>3, <1>4, <1>5, <1>6, <1>7, <1>8, <1>9, <1>10, <1>11,
     <1>12, <1>13, <1>14, <1>15, <1>16, <1>17, <1>18, <1>19 DEF Next,
     RelayStep

\* Nothing is sent that was not written, nothing is published unsent.
LEMMA SentStep ==
    ASSUME TypeOK, HoldInv, SentInv, PublishedWasSent, [Next]_vars
    PROVE  (SentInv /\ PublishedWasSent)'
<1> USE OutboxAssumption DEF TypeOK, HoldInv, SentInv, PublishedWasSent, vars, store, relay
<1>1. ASSUME NEW r \in Relay, Claim(r)
      PROVE  (SentInv /\ PublishedWasSent)'
  BY <1>1 DEF Claim, Goto, Lock, Claimable, Available
<1>2. ASSUME NEW r \in Relay, ClaimErr(r)
      PROVE  (SentInv /\ PublishedWasSent)'
  BY <1>2 DEF ClaimErr, Goto, Lock, Claimable, Available
<1>3. ASSUME NEW r \in Relay, NextEvent(r)
      PROVE  (SentInv /\ PublishedWasSent)'
  BY <1>3 DEF NextEvent, Goto
<1>4. ASSUME NEW r \in Relay, PublishOk(r)
      PROVE  (SentInv /\ PublishedWasSent)'
  BY <1>4 DEF PublishOk, Goto, Receive
<1>5. ASSUME NEW r \in Relay, PublishErr(r)
      PROVE  (SentInv /\ PublishedWasSent)'
  BY <1>5 DEF PublishErr, Goto, Receive
<1>6. ASSUME NEW r \in Relay, MarkPublished(r)
      PROVE  (SentInv /\ PublishedWasSent)'
  BY <1>6 DEF MarkPublished, StorePublished, EndIteration, Goto
<1>7. ASSUME NEW r \in Relay, MarkPublishedErr(r)
      PROVE  (SentInv /\ PublishedWasSent)'
  BY <1>7 DEF MarkPublishedErr, StorePublished, EndIteration, Goto
<1>8. ASSUME NEW r \in Relay, MarkFailed(r)
      PROVE  (SentInv /\ PublishedWasSent)'
  BY <1>8 DEF MarkFailed, StoreFailed, EndIteration, Goto
<1>9. ASSUME NEW r \in Relay, MarkFailedErr(r)
      PROVE  (SentInv /\ PublishedWasSent)'
  BY <1>9 DEF MarkFailedErr, EndIteration, Goto
<1>10. ASSUME NEW r \in Relay, Poll(r)
      PROVE  (SentInv /\ PublishedWasSent)'
  BY <1>10 DEF Poll, Goto
<1>11. ASSUME NEW r \in Relay, Recover(r)
      PROVE  (SentInv /\ PublishedWasSent)'
  BY <1>11 DEF Recover, StoreRecover
<1>12. ASSUME NEW r \in Relay, Return(r)
      PROVE  (SentInv /\ PublishedWasSent)'
  BY <1>12 DEF Return, Goto
<1>13. ASSUME NEW r \in Relay, Cancel(r)
      PROVE  (SentInv /\ PublishedWasSent)'
  BY <1>13 DEF Cancel
<1>14. ASSUME NEW r \in Relay, Crash(r)
      PROVE  (SentInv /\ PublishedWasSent)'
  BY <1>14 DEF Crash, Goto
<1>15. ASSUME NEW r \in Relay, Restart(r)
      PROVE  (SentInv /\ PublishedWasSent)'
  BY <1>15 DEF Restart, Goto
<1>16. ASSUME NEW e \in Event, Insert(e)
      PROVE  (SentInv /\ PublishedWasSent)'
  BY <1>16 DEF Insert
<1>17. ASSUME NEW e \in Event, BackoffElapses(e)
      PROVE  (SentInv /\ PublishedWasSent)'
  BY <1>17 DEF BackoffElapses
<1>18. ASSUME NEW e \in Event, LockAges(e)
      PROVE  (SentInv /\ PublishedWasSent)'
  BY <1>18 DEF LockAges
<1>19. CASE UNCHANGED vars
  BY <1>19
<1> QED
  BY <1>1, <1>2, <1>3, <1>4, <1>5, <1>6, <1>7, <1>8, <1>9, <1>10, <1>11,
     <1>12, <1>13, <1>14, <1>15, <1>16, <1>17, <1>18, <1>19 DEF Next,
     RelayStep

-----------------------------------------------------------------------------
\* OInv is an invariant of the relays.
THEOREM OutboxInvariance == Spec => []OInv
<1>1. Init => OInv
  BY OutboxAssumption DEF Init, OInv, TypeOK, HoldInv, SentInv, PublishedWasSent
<1>2. OInv /\ [Next]_vars => OInv'
  BY TypeStep, HoldStep, SentStep DEF OInv
<1> QED
  BY <1>1, <1>2, PTL DEF Spec

\* No event is lost: published rows are with the broker (lines 127-145).
THEOREM PublishedWasSentCorrect == Spec => []PublishedWasSent
<1>1. OInv => PublishedWasSent
  BY DEF OInv
<1> QED
  BY <1>1, OutboxInvariance, PTL

\* Every step of the relays, the store and the broker is a step of the
\* abstract outbox or leaves it unchanged.
LEMMA StepRefines ==
    ASSUME OInv, OInv', [Next]_vars
    PROVE  [Abstract!ANext]_(Abstract!avars)
<1>0. \A e \in Event : Abstract!Reopen(e) => Abstract!ANext
  BY DEF Abstract!ANext
<1> USE OutboxAssumption DEF OInv, TypeOK, HoldInv, SentInv, PublishedWasSent, vars, store, relay,
    Abstract!avars, Abstract!ANext, Abstract!Accept, Abstract!Deliver, Abstract!Settle
<1>1. ASSUME NEW r \in Relay, Claim(r)
      PROVE  [Abstract!ANext]_(Abstract!avars)
  <2>1. PICK S \in Claimable : Lock(S) /\ batch' = [batch EXCEPT ![r] = S]
    BY <1>1 DEF Claim
  <2>2. S \subseteq Event /\ \A e \in S : status[e] = "pending"
    BY DEF Claimable, Available
  <2> QED
    BY <1>1, <2>1, <2>2 DEF Claim, Goto, Lock
<1>2. ASSUME NEW r \in Relay, ClaimErr(r)
      PROVE  [Abstract!ANext]_(Abstract!avars)
  <2>1. CASE UNCHANGED store
    BY <1>2, <2>1 DEF ClaimErr, Goto
  <2>2. ASSUME NEW S \in Claimable, Lock(S)
        PROVE  [Abstract!ANext]_(Abstract!avars)
    <3>1. S \subseteq Event /\ \A e \in S : status[e] = "pending"
      BY DEF Claimable, Available
    <3> QED
      BY <1>2, <2>2, <3>1 DEF ClaimErr, Goto, Lock
  <2> QED
    BY <1>2, <2>1, <2>2 DEF ClaimErr
<1>3. ASSUME NEW r \in Relay, NextEvent(r)
      PROVE  [Abstract!ANext]_(Abstract!avars)
  BY <1>3 DEF NextEvent, Goto
<1>4. ASSUME NEW r \in Relay, PublishOk(r)
      PROVE  [Abstract!ANext]_(Abstract!avars)
  BY <1>4 DEF PublishOk, Goto, Receive
<1>5. ASSUME NEW r \in Relay, PublishErr(r)
      PROVE  [Abstract!ANext]_(Abstract!avars)
  BY <1>5 DEF PublishErr, Goto, Receive
<1>6. ASSUME NEW r \in Relay, MarkPublished(r)
      PROVE  [Abstract!ANext]_(Abstract!avars)
  BY <1>6 DEF MarkPublished, StorePublished, EndIteration, Goto
<1>7. ASSUME NEW r \in Relay, MarkPublishedErr(r)
      PROVE  [Abstract!ANext]_(Abstract!avars)
  BY <1>7 DEF MarkPublishedErr, StorePublished, EndIteration, Goto
<1>8. ASSUME NEW r \in Relay, MarkFailed(r)
      PROVE  [Abstract!ANext]_(Abstract!avars)
  <2>1. PICK e \in Event : e = cur[r]
    BY <1>8 DEF MarkFailed
  <2>2. CASE UNCHANGED <<status, sent>>
    BY <2>2
  <2>3. CASE status' = [status EXCEPT ![e] = "pending"] /\ UNCHANGED sent
    <3>1. Abstract!Reopen(e)
      BY <2>1, <2>3, <1>8 DEF MarkFailed, Abstract!Reopen
    <3> QED
      BY <1>0, <3>1
  <2> QED
    BY <1>8, <2>1, <2>2, <2>3 DEF MarkFailed, StoreFailed
<1>9. ASSUME NEW r \in Relay, MarkFailedErr(r)
      PROVE  [Abstract!ANext]_(Abstract!avars)
  BY <1>9 DEF MarkFailedErr, EndIteration, Goto
<1>10. ASSUME NEW r \in Relay, Poll(r)
      PROVE  [Abstract!ANext]_(Abstract!avars)
  BY <1>10 DEF Poll, Goto
<1>11. ASSUME NEW r \in Relay, Recover(r)
      PROVE  [Abstract!ANext]_(Abstract!avars)
  BY <1>11 DEF Recover, StoreRecover
<1>12. ASSUME NEW r \in Relay, Return(r)
      PROVE  [Abstract!ANext]_(Abstract!avars)
  BY <1>12 DEF Return, Goto
<1>13. ASSUME NEW r \in Relay, Cancel(r)
      PROVE  [Abstract!ANext]_(Abstract!avars)
  BY <1>13 DEF Cancel
<1>14. ASSUME NEW r \in Relay, Crash(r)
      PROVE  [Abstract!ANext]_(Abstract!avars)
  BY <1>14 DEF Crash, Goto
<1>15. ASSUME NEW r \in Relay, Restart(r)
      PROVE  [Abstract!ANext]_(Abstract!avars)
  BY <1>15 DEF Restart, Goto
<1>16. ASSUME NEW e \in Event, Insert(e)
      PROVE  [Abstract!ANext]_(Abstract!avars)
  BY <1>16 DEF Insert
<1>17. ASSUME NEW e \in Event, BackoffElapses(e)
      PROVE  [Abstract!ANext]_(Abstract!avars)
  BY <1>17 DEF BackoffElapses
<1>18. ASSUME NEW e \in Event, LockAges(e)
      PROVE  [Abstract!ANext]_(Abstract!avars)
  BY <1>18 DEF LockAges
<1>19. CASE UNCHANGED vars
  BY <1>19
<1> QED
  BY <1>1, <1>2, <1>3, <1>4, <1>5, <1>6, <1>7, <1>8, <1>9, <1>10, <1>11,
     <1>12, <1>13, <1>14, <1>15, <1>16, <1>17, <1>18, <1>19 DEF Next,
     RelayStep

\* The relays implement the at-least-once outbox.
THEOREM Refinement == Spec => ImplementsAtLeastOnce
<1>1. Init => Abstract!AInit
  BY DEF Init, Abstract!AInit
<1> QED
  BY <1>1, StepRefines, OutboxInvariance, PTL
     DEF Spec, ImplementsAtLeastOnce, Abstract!ASpec

-----------------------------------------------------------------------------
(* Duplicates and shared events need a fault *)

Holds(r, e) == e \in batch[r] \/ e = cur[r]

\* As long as an event has met no fault its lock is fresh, the relay that holds
\* it is the only one, holds it once and finds the row locked; and once it is
\* with the broker, its row is published or about to be.
CleanInv ==
    /\ \A r \in Relay : /\ rpc[r] \notin {"publish", "mark", "fail"} => cur[r] = NoEvent
                        /\ cur[r] \notin batch[r]
    /\ \A e \in Event \ faulty :
        /\ ~stale[e]
        /\ \A r \in Relay : Holds(r, e) => status[e] = "locked"
        /\ \A r1, r2 \in Relay : Holds(r1, e) /\ Holds(r2, e) => r1 = r2
        /\ sent[e] > 0 => /\ sent[e] = 1
                          /\ \/ status[e] = "published"
                             \/ \E r \in Relay : rpc[r] = "mark" /\ cur[r] = e

\* Every step keeps that, or counts as a fault of the event.
LEMMA CleanStep ==
    ASSUME TypeOK, HoldInv, CleanInv, [Next]_vars
    PROVE  CleanInv'
<1> USE OutboxAssumption DEF TypeOK, HoldInv, CleanInv, Holds, vars, store, relay
<1>1. ASSUME NEW r \in Relay, Claim(r)
      PROVE  CleanInv'
  <2>1. PICK S \in Claimable : Lock(S) /\ batch' = [batch EXCEPT ![r] = S]
    BY <1>1 DEF Claim
  <2>2. S \subseteq Event /\ \A e \in S : status[e] = "pending"
    BY DEF Claimable, Available
  <2> QED
    BY <1>1, <2>1, <2>2 DEF Claim, Goto, Lock
<1>2. ASSUME NEW r \in Relay, ClaimErr(r)
      PROVE  CleanInv'
  <2>1. CASE UNCHANGED store
    BY <1>2, <2>1 DEF ClaimErr, Goto
  <2>2. ASSUME NEW S \in Claimable, Lock(S)
        PROVE  CleanInv'
    <3>1. S \subseteq Event /\ \A e \in S : status[e] = "pending"
      BY DEF Claimable, Available
    <3> QED
      BY <1>2, <2>2, <3>1 DEF ClaimErr, Goto, Lock
  <2> QED
    BY <1>2, <2>1, <2>2 DEF ClaimErr
<1>3. ASSUME NEW r \in Relay, NextEvent(r)
      PROVE  CleanInv'
  BY <1>3 DEF NextEvent, Goto
<1>4. ASSUME NEW r \in Relay, PublishOk(r)
      PROVE  CleanInv'
  BY <1>4 DEF PublishOk, Goto, Receive
<1>5. ASSUME NEW r \in Relay, PublishErr(r)
      PROVE  CleanInv'
  BY <1>5 DEF PublishErr, Goto, Receive
<1>6. ASSUME NEW r \in Relay, MarkPublished(r)
      PROVE  CleanInv'
  BY <1>6 DEF MarkPublished, StorePublished, EndIteration, Goto
<1>7. ASSUME NEW r \in Relay, MarkPublishedErr(r)
      PROVE  CleanInv'
  BY <1>7 DEF MarkPublishedErr, StorePublished, EndIteration, Goto
<1>8. ASSUME NEW r \in Relay, MarkFailed(r)
      PROVE  CleanInv'
  BY <1>8 DEF MarkFailed, StoreFailed, EndIteration, Goto
<1>9. ASSUME NEW r \in Relay, MarkFailedErr(r)
      PROVE  CleanInv'
  BY <1>9 DEF MarkFailedErr, EndIteration, Goto
<1>10. ASSUME NEW r \in Relay, Poll(r)
      PROVE  CleanInv'
  BY <1>10 DEF Poll, Goto
<1>11. ASSUME NEW r \in Relay, Recover(r)
      PROVE  CleanInv'
  BY <1>11 DEF Recover, StoreRecover
<1>12. ASSUME NEW r \in Relay, Return(r)
      PROVE  CleanInv'
  BY <1>12 DEF Return, Goto
<1>13. ASSUME NEW r \in Relay, Cancel(r)
      PROVE  CleanInv'
  BY <1>13 DEF Cancel
<1>14. ASSUME NEW r \in Relay, Crash(r)
      PROVE  CleanInv'
  BY <1>14 DEF Crash, Goto
<1>15. ASSUME NEW r \in Relay, Restart(r)
      PROVE  CleanInv'
  BY <1>15 DEF Restart, Goto
<1>16. ASSUME NEW e \in Event, Insert(e)
      PROVE  CleanInv'
  BY <1>16 DEF Insert
<1>17. ASSUME NEW e \in Event, BackoffElapses(e)
      PROVE  CleanInv'
  BY <1>17 DEF BackoffElapses
<1>18. ASSUME NEW e \in Event, LockAges(e)
      PROVE  CleanInv'
  BY <1>18 DEF LockAges
<1>19. CASE UNCHANGED vars
  BY <1>19
<1> QED
  BY <1>1, <1>2, <1>3, <1>4, <1>5, <1>6, <1>7, <1>8, <1>9, <1>10, <1>11,
     <1>12, <1>13, <1>14, <1>15, <1>16, <1>17, <1>18, <1>19 DEF Next,
     RelayStep

\* CleanInv is an invariant of the relays, next to OInv.
LEMMA CleanInvariance == Spec => []CleanInv
<1>1. Init => CleanInv
  BY OutboxAssumption DEF Init, CleanInv, Holds
<1>2. OInv /\ CleanInv /\ [Next]_vars => CleanInv'
  BY CleanStep DEF OInv
<1> QED
  BY <1>1, <1>2, OutboxInvariance, PTL DEF Spec

\* Two relays work on one event only after a crash, an ambiguous call or an
\* aged lock, for any number of relays (outbox.go lines 100-145).
THEOREM OneRelayCorrect == Spec => []OneRelayPerEvent
<1>1. CleanInv => OneRelayPerEvent
  BY DEF CleanInv, Holds, OneRelayPerEvent
<1> QED
  BY <1>1, CleanInvariance, PTL

\* An event reaches the broker twice only after such a fault.
THEOREM DuplicatesCorrect == Spec => []DuplicatesNeedFaults
<1>1. OInv /\ CleanInv => DuplicatesNeedFaults
  BY DEF OInv, TypeOK, CleanInv, DuplicatesNeedFaults
<1> QED
  BY <1>1, OutboxInvariance, CleanInvariance, PTL

=============================================================================
