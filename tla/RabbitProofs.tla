---------------------------- MODULE RabbitProofs ----------------------------
(***************************************************************************)
(* The AMQP client and its publishers, for any number of dials, of         *)
(* publishers and of calls: no connection is leaked; the client among its  *)
(* users is still the client; a publish that returns nil is stored; and    *)
(* nothing is sent once Close has returned.                                *)
(*                                                                         *)
(* OpenIsOwned and CloseReleasesAll need to know who may hold a reference  *)
(* at each point of connectAndSetup and of Close, and that the flag Close  *)
(* sets before it takes the lock keeps every later swap out.               *)
(***************************************************************************)
EXTENDS RabbitPublish, TLAPS

\* A reference is held exactly where its owner is between getting and
\* releasing the connection; the mutex is held only across the swap.
RefInv ==
    /\ fresh # NoConn <=> loop \in {"dialed", "setup", "recheck", "lock", "swap",
                                   "drop"}
    /\ old # NoConn => loop = "closeOld"
    /\ taken # NoConn => closer = "shut"
    /\ mu = "dialer" <=> loop = "swap"

\* Close sets the flag first, and gets the lock when no swap is under way.
CloserInv ==
    /\ closer \notin {"idle", "closing"} => closing
    /\ closer \in {"shut", "wait", "leftover", "done"} => conn = NoConn /\ loop # "swap"
    /\ closer \in {"leftover", "done"} => loop = "done"

\* New's caller holds no client while it connects.
NewInv ==
    /\ closer # "idle" => phase = "running"
    /\ phase = "new" /\ loop # "closeOld" => conn = NoConn
    /\ phase = "new" => loop \in {"try", "dial", "dialed", "setup", "recheck", "lock",
                                  "swap", "closeOld", "drop", "failed"}
    /\ phase = "failed" => conn = NoConn /\ loop = "done" /\ ctxDone

CInv == CTypeOK /\ RefInv /\ CloserInv /\ NewInv /\ OpenIsOwned

-----------------------------------------------------------------------------
\* Every step preserves the type invariant.
LEMMA TypeStep ==
    ASSUME CTypeOK, [CNext]_cvars
    PROVE  CTypeOK'
<1> USE NoConnAssumption DEF CTypeOK, LoopState, CloserState, ConnRef, Closed, cvars
<1>1. CASE TryConnect
  BY <1>1 DEF TryConnect
<1>2. ASSUME NEW c \in Conn, DialOk(c)
      PROVE  CTypeOK'
  BY <1>2 DEF DialOk
<1>3. CASE DialErr
  BY <1>3 DEF DialErr
<1>4. CASE CheckDialed
  BY <1>4 DEF CheckDialed, MoveOn
<1>5. CASE SetupOk
  BY <1>5 DEF SetupOk, MoveOn
<1>6. CASE SetupErr
  BY <1>6 DEF SetupErr, MoveOn
<1>7. CASE Recheck
  BY <1>7 DEF Recheck, MoveOn
<1>8. CASE LockAndCheck
  BY <1>8 DEF LockAndCheck, Locked, MoveOn
<1>9. CASE Swap
  BY <1>9 DEF Swap
<1>10. CASE CloseOld
  BY <1>10 DEF CloseOld
<1>11. CASE ConnectFailed
  <2>1. CASE phase = "new"
    BY <1>11, <2>1 DEF ConnectFailed
  <2>2. CASE phase # "new"
    BY <1>11, <2>2 DEF ConnectFailed
  <2> QED
    BY <2>1, <2>2
<1>12. CASE LoopCheck
  BY <1>12 DEF LoopCheck
<1>13. CASE Notify
  BY <1>13 DEF Notify
<1>14. CASE WatchCtxDone
  BY <1>14 DEF WatchCtxDone, MoveOn
<1>15. CASE WatchClosed
  BY <1>15 DEF WatchClosed, MoveOn
<1>16. CASE Woken
  BY <1>16 DEF Woken, MoveOn
<1>17. CASE Delay
  BY <1>17 DEF Delay, MoveOn
<1>18. CASE DelayNil
  BY <1>18 DEF DelayNil, MoveOn
<1>19. CASE CloseCalled
  BY <1>19 DEF CloseCalled
<1>20. CASE SetClosing
  BY <1>20 DEF SetClosing
<1>21. CASE CloseCancels
  BY <1>21 DEF CloseCancels
<1>22. CASE TakeConn
  BY <1>22 DEF TakeConn
<1>23. CASE ShutTaken
  BY <1>23 DEF ShutTaken
<1>24. CASE WaitLoop
  BY <1>24 DEF WaitLoop
<1>25. CASE TakeLeftover
  BY <1>25 DEF TakeLeftover
<1>26. ASSUME NEW c \in Conn, BrokerDrops(c)
      PROVE  CTypeOK'
  BY <1>26 DEF BrokerDrops
<1>27. CASE ParentCancel
  BY <1>27 DEF ParentCancel
<1>28. CASE UNCHANGED cvars
  BY <1>28
<1>29. CASE DropFresh
  BY <1>29 DEF DropFresh
<1> QED
  BY <1>1, <1>2, <1>3, <1>4, <1>5, <1>6, <1>7, <1>8, <1>9, <1>10, <1>11,
     <1>12, <1>13, <1>14, <1>15, <1>16, <1>17, <1>18, <1>19, <1>20, <1>21,
     <1>22, <1>23, <1>24, <1>25, <1>26, <1>27, <1>28, <1>29 DEF CNext, Dialer,
     Closer, Stopped

\* References are taken and released where RefInv says.
LEMMA RefStep ==
    ASSUME CTypeOK, RefInv, [CNext]_cvars
    PROVE  RefInv'
<1> USE NoConnAssumption DEF CTypeOK, RefInv, ConnRef, LoopState, cvars
<1>1. CASE TryConnect
  BY <1>1 DEF TryConnect
<1>2. ASSUME NEW c \in Conn, DialOk(c)
      PROVE  RefInv'
  BY <1>2 DEF DialOk
<1>3. CASE DialErr
  BY <1>3 DEF DialErr
<1>4. CASE CheckDialed
  BY <1>4 DEF CheckDialed, MoveOn
<1>5. CASE SetupOk
  BY <1>5 DEF SetupOk, MoveOn
<1>6. CASE SetupErr
  BY <1>6 DEF SetupErr, MoveOn
<1>7. CASE Recheck
  BY <1>7 DEF Recheck, MoveOn
<1>8. CASE LockAndCheck
  BY <1>8 DEF LockAndCheck, Locked, MoveOn
<1>9. CASE Swap
  BY <1>9 DEF Swap
<1>10. CASE CloseOld
  BY <1>10 DEF CloseOld
<1>11. CASE ConnectFailed
  BY <1>11 DEF ConnectFailed
<1>12. CASE LoopCheck
  BY <1>12 DEF LoopCheck
<1>13. CASE Notify
  BY <1>13 DEF Notify
<1>14. CASE WatchCtxDone
  BY <1>14 DEF WatchCtxDone, MoveOn
<1>15. CASE WatchClosed
  BY <1>15 DEF WatchClosed, MoveOn
<1>16. CASE Woken
  BY <1>16 DEF Woken, MoveOn
<1>17. CASE Delay
  BY <1>17 DEF Delay, MoveOn
<1>18. CASE DelayNil
  BY <1>18 DEF DelayNil, MoveOn
<1>19. CASE CloseCalled
  BY <1>19 DEF CloseCalled
<1>20. CASE SetClosing
  BY <1>20 DEF SetClosing
<1>21. CASE CloseCancels
  BY <1>21 DEF CloseCancels
<1>22. CASE TakeConn
  BY <1>22 DEF TakeConn
<1>23. CASE ShutTaken
  BY <1>23 DEF ShutTaken
<1>24. CASE WaitLoop
  BY <1>24 DEF WaitLoop
<1>25. CASE TakeLeftover
  BY <1>25 DEF TakeLeftover
<1>26. ASSUME NEW c \in Conn, BrokerDrops(c)
      PROVE  RefInv'
  BY <1>26 DEF BrokerDrops
<1>27. CASE ParentCancel
  BY <1>27 DEF ParentCancel
<1>28. CASE UNCHANGED cvars
  BY <1>28
<1>29. CASE DropFresh
  BY <1>29 DEF DropFresh
<1> QED
  BY <1>1, <1>2, <1>3, <1>4, <1>5, <1>6, <1>7, <1>8, <1>9, <1>10, <1>11,
     <1>12, <1>13, <1>14, <1>15, <1>16, <1>17, <1>18, <1>19, <1>20, <1>21,
     <1>22, <1>23, <1>24, <1>25, <1>26, <1>27, <1>28, <1>29 DEF CNext, Dialer,
     Closer, Stopped

\* Once Close has taken the connection no other is installed.
LEMMA CloserStep ==
    ASSUME CTypeOK, RefInv, CloserInv, NewInv, [CNext]_cvars
    PROVE  CloserInv'
<1> USE NoConnAssumption DEF CTypeOK, RefInv, CloserInv, NewInv, ConnRef, isClosing, cvars
<1>1. CASE TryConnect
  BY <1>1 DEF TryConnect
<1>2. ASSUME NEW c \in Conn, DialOk(c)
      PROVE  CloserInv'
  BY <1>2 DEF DialOk
<1>3. CASE DialErr
  BY <1>3 DEF DialErr
<1>4. CASE CheckDialed
  BY <1>4 DEF CheckDialed, MoveOn
<1>5. CASE SetupOk
  BY <1>5 DEF SetupOk, MoveOn
<1>6. CASE SetupErr
  BY <1>6 DEF SetupErr, MoveOn
<1>7. CASE Recheck
  BY <1>7 DEF Recheck, MoveOn
<1>8. CASE LockAndCheck
  BY <1>8 DEF LockAndCheck, Locked, MoveOn
<1>9. CASE Swap
  BY <1>9 DEF Swap
<1>10. CASE CloseOld
  BY <1>10 DEF CloseOld
<1>11. CASE ConnectFailed
  BY <1>11 DEF ConnectFailed
<1>12. CASE LoopCheck
  BY <1>12 DEF LoopCheck
<1>13. CASE Notify
  BY <1>13 DEF Notify
<1>14. CASE WatchCtxDone
  BY <1>14 DEF WatchCtxDone, MoveOn
<1>15. CASE WatchClosed
  BY <1>15 DEF WatchClosed, MoveOn
<1>16. CASE Woken
  BY <1>16 DEF Woken, MoveOn
<1>17. CASE Delay
  BY <1>17 DEF Delay, MoveOn
<1>18. CASE DelayNil
  BY <1>18 DEF DelayNil, MoveOn
<1>19. CASE CloseCalled
  BY <1>19 DEF CloseCalled
<1>20. CASE SetClosing
  BY <1>20 DEF SetClosing
<1>21. CASE CloseCancels
  BY <1>21 DEF CloseCancels
<1>22. CASE TakeConn
  BY <1>22 DEF TakeConn
<1>23. CASE ShutTaken
  BY <1>23 DEF ShutTaken
<1>24. CASE WaitLoop
  BY <1>24 DEF WaitLoop
<1>25. CASE TakeLeftover
  BY <1>25 DEF TakeLeftover
<1>26. ASSUME NEW c \in Conn, BrokerDrops(c)
      PROVE  CloserInv'
  BY <1>26 DEF BrokerDrops
<1>27. CASE ParentCancel
  BY <1>27 DEF ParentCancel
<1>28. CASE UNCHANGED cvars
  BY <1>28
<1>29. CASE DropFresh
  BY <1>29 DEF DropFresh
<1> QED
  BY <1>1, <1>2, <1>3, <1>4, <1>5, <1>6, <1>7, <1>8, <1>9, <1>10, <1>11,
     <1>12, <1>13, <1>14, <1>15, <1>16, <1>17, <1>18, <1>19, <1>20, <1>21,
     <1>22, <1>23, <1>24, <1>25, <1>26, <1>27, <1>28, <1>29 DEF CNext, Dialer,
     Closer, Stopped

\* Close and the loop wait for New; a failed New is cancelled.
LEMMA NewStep ==
    ASSUME CTypeOK, RefInv, CloserInv, NewInv, [CNext]_cvars
    PROVE  NewInv'
<1> USE NoConnAssumption DEF CTypeOK, RefInv, CloserInv, NewInv, ConnRef, isClosing, cvars
<1>1. CASE TryConnect
  BY <1>1 DEF TryConnect
<1>2. ASSUME NEW c \in Conn, DialOk(c)
      PROVE  NewInv'
  BY <1>2 DEF DialOk
<1>3. CASE DialErr
  BY <1>3 DEF DialErr
<1>4. CASE CheckDialed
  BY <1>4 DEF CheckDialed, MoveOn
<1>5. CASE SetupOk
  BY <1>5 DEF SetupOk, MoveOn
<1>6. CASE SetupErr
  BY <1>6 DEF SetupErr, MoveOn
<1>7. CASE Recheck
  BY <1>7 DEF Recheck, MoveOn
<1>8. CASE LockAndCheck
  BY <1>8 DEF LockAndCheck, Locked, MoveOn
<1>9. CASE Swap
  BY <1>9 DEF Swap
<1>10. CASE CloseOld
  BY <1>10 DEF CloseOld
<1>11. CASE ConnectFailed
  BY <1>11 DEF ConnectFailed
<1>12. CASE LoopCheck
  BY <1>12 DEF LoopCheck
<1>13. CASE Notify
  BY <1>13 DEF Notify
<1>14. CASE WatchCtxDone
  BY <1>14 DEF WatchCtxDone, MoveOn
<1>15. CASE WatchClosed
  BY <1>15 DEF WatchClosed, MoveOn
<1>16. CASE Woken
  BY <1>16 DEF Woken, MoveOn
<1>17. CASE Delay
  BY <1>17 DEF Delay, MoveOn
<1>18. CASE DelayNil
  BY <1>18 DEF DelayNil, MoveOn
<1>19. CASE CloseCalled
  BY <1>19 DEF CloseCalled
<1>20. CASE SetClosing
  BY <1>20 DEF SetClosing
<1>21. CASE CloseCancels
  BY <1>21 DEF CloseCancels
<1>22. CASE TakeConn
  BY <1>22 DEF TakeConn
<1>23. CASE ShutTaken
  BY <1>23 DEF ShutTaken
<1>24. CASE WaitLoop
  BY <1>24 DEF WaitLoop
<1>25. CASE TakeLeftover
  BY <1>25 DEF TakeLeftover
<1>26. ASSUME NEW c \in Conn, BrokerDrops(c)
      PROVE  NewInv'
  BY <1>26 DEF BrokerDrops
<1>27. CASE ParentCancel
  BY <1>27 DEF ParentCancel
<1>28. CASE UNCHANGED cvars
  BY <1>28
<1>29. CASE DropFresh
  BY <1>29 DEF DropFresh
<1> QED
  BY <1>1, <1>2, <1>3, <1>4, <1>5, <1>6, <1>7, <1>8, <1>9, <1>10, <1>11,
     <1>12, <1>13, <1>14, <1>15, <1>16, <1>17, <1>18, <1>19, <1>20, <1>21,
     <1>22, <1>23, <1>24, <1>25, <1>26, <1>27, <1>28, <1>29 DEF CNext, Dialer,
     Closer, Stopped

\* No step leaves an open connection without an owner.
LEMMA OwnedStep ==
    ASSUME CTypeOK, RefInv, OpenIsOwned, [CNext]_cvars
    PROVE  OpenIsOwned'
<1> USE NoConnAssumption DEF CTypeOK, RefInv, OpenIsOwned, ConnRef, Closed, IsOpen, cvars
<1>1. CASE TryConnect
  BY <1>1 DEF TryConnect
<1>2. ASSUME NEW c \in Conn, DialOk(c)
      PROVE  OpenIsOwned'
  BY <1>2 DEF DialOk
<1>3. CASE DialErr
  BY <1>3 DEF DialErr
<1>4. CASE CheckDialed
  BY <1>4 DEF CheckDialed, MoveOn
<1>5. CASE SetupOk
  BY <1>5 DEF SetupOk, MoveOn
<1>6. CASE SetupErr
  BY <1>6 DEF SetupErr, MoveOn
<1>7. CASE Recheck
  BY <1>7 DEF Recheck, MoveOn
<1>8. CASE LockAndCheck
  BY <1>8 DEF LockAndCheck, Locked, MoveOn
<1>9. CASE Swap
  BY <1>9 DEF Swap
<1>10. CASE CloseOld
  BY <1>10 DEF CloseOld
<1>11. CASE ConnectFailed
  BY <1>11 DEF ConnectFailed
<1>12. CASE LoopCheck
  BY <1>12 DEF LoopCheck
<1>13. CASE Notify
  BY <1>13 DEF Notify
<1>14. CASE WatchCtxDone
  BY <1>14 DEF WatchCtxDone, MoveOn
<1>15. CASE WatchClosed
  BY <1>15 DEF WatchClosed, MoveOn
<1>16. CASE Woken
  BY <1>16 DEF Woken, MoveOn
<1>17. CASE Delay
  BY <1>17 DEF Delay, MoveOn
<1>18. CASE DelayNil
  BY <1>18 DEF DelayNil, MoveOn
<1>19. CASE CloseCalled
  BY <1>19 DEF CloseCalled
<1>20. CASE SetClosing
  BY <1>20 DEF SetClosing
<1>21. CASE CloseCancels
  BY <1>21 DEF CloseCancels
<1>22. CASE TakeConn
  BY <1>22 DEF TakeConn
<1>23. CASE ShutTaken
  BY <1>23 DEF ShutTaken
<1>24. CASE WaitLoop
  BY <1>24 DEF WaitLoop
<1>25. CASE TakeLeftover
  BY <1>25 DEF TakeLeftover
<1>26. ASSUME NEW c \in Conn, BrokerDrops(c)
      PROVE  OpenIsOwned'
  BY <1>26 DEF BrokerDrops
<1>27. CASE ParentCancel
  BY <1>27 DEF ParentCancel
<1>28. CASE UNCHANGED cvars
  BY <1>28
<1>29. CASE DropFresh
  BY <1>29 DEF DropFresh
<1> QED
  BY <1>1, <1>2, <1>3, <1>4, <1>5, <1>6, <1>7, <1>8, <1>9, <1>10, <1>11,
     <1>12, <1>13, <1>14, <1>15, <1>16, <1>17, <1>18, <1>19, <1>20, <1>21,
     <1>22, <1>23, <1>24, <1>25, <1>26, <1>27, <1>28, <1>29 DEF CNext, Dialer,
     Closer, Stopped

-----------------------------------------------------------------------------
\* CInv is an invariant of the client.
THEOREM ClientInvariance == CSpec => []CInv
<1>1. CInit => CInv
  BY NoConnAssumption DEF CInit, CInv, CTypeOK, LoopState, CloserState, ConnRef,
     RefInv, CloserInv, NewInv, OpenIsOwned
<1>2. CInv /\ [CNext]_cvars => CInv'
  BY TypeStep, RefStep, CloserStep, NewStep, OwnedStep DEF CInv
<1> QED
  BY <1>1, <1>2, PTL DEF CSpec

\* Every open connection has an owner that will close it.
THEOREM OpenIsOwnedCorrect == CSpec => []OpenIsOwned
<1>1. CInv => OpenIsOwned
  BY DEF CInv
<1> QED
  BY <1>1, ClientInvariance, PTL

\* Close returns with every connection closed, however its steps interleave
\* with a reconnect (lines 90-136 and 315-337).
THEOREM CloseReleasesAllCorrect == CSpec => []CloseReleasesAll
<1>1. CInv => CloseReleasesAll
  <2> SUFFICES ASSUME CInv, closer = "done"
               PROVE  /\ \A c \in Conn : connState[c] # "open"
                      /\ loop = "done" /\ conn = NoConn
    BY DEF CloseReleasesAll
  <2>1. loop = "done" /\ conn = NoConn
    BY DEF CInv, CloserInv
  <2>2. fresh = NoConn /\ old = NoConn /\ taken = NoConn
    BY <2>1 DEF CInv, RefInv
  <2> QED
    BY <2>1, <2>2, NoConnAssumption DEF CInv, OpenIsOwned
<1> QED
  BY <1>1, ClientInvariance, PTL

\* The second look at c.conn in Close (lines 328-334) never finds anything.
THEOREM NoLeftoverCorrect == CSpec => []NoLeftover
<1>1. CInv => NoLeftover
  BY DEF CInv, CloserInv, NoLeftover
<1> QED
  BY <1>1, ClientInvariance, PTL

\* A New that fails leaves no connection behind (lines 73-76).
THEOREM FailedNewIsCleanCorrect == CSpec => []FailedNewIsClean
<1>1. CInv => FailedNewIsClean
  <2> SUFFICES ASSUME CInv, phase = "failed"
               PROVE  ctxDone /\ \A c \in Conn : connState[c] # "open"
    BY DEF FailedNewIsClean
  <2>1. ctxDone /\ conn = NoConn /\ loop = "done" /\ closer = "idle"
    BY DEF CInv, NewInv, CTypeOK, CloserState
  <2>2. fresh = NoConn /\ old = NoConn /\ taken = NoConn
    BY <2>1 DEF CInv, RefInv
  <2> QED
    BY <2>1, <2>2, NoConnAssumption DEF CInv, OpenIsOwned
<1> QED
  BY <1>1, ClientInvariance, PTL

\* After Close took the connection, no step puts another one in its place.
THEOREM NoInstallAfterTakeCorrect == CSpec => NoInstallAfterTake
<1>1. CInv /\ [CNext]_cvars =>
        [(closer \in {"shut", "wait", "leftover", "done"}) => conn' \in {conn, NoConn}]_cvars
  <2> SUFFICES ASSUME CInv, CNext, closer \in {"shut", "wait", "leftover", "done"}
               PROVE  conn' \in {conn, NoConn}
    OBVIOUS
  <2>1. ~Swap
    BY DEF Swap, CInv, CloserInv
  <2>2. TakeConn \/ TakeLeftover => conn' = NoConn
    BY DEF TakeConn, TakeLeftover
  <2>3. TakeConn \/ TakeLeftover \/ conn' = conn
    BY <2>1 DEF CNext, Dialer, TryConnect, DialOk, DialErr, CheckDialed, SetupOk,
       SetupErr, Recheck, LockAndCheck, Locked, CloseOld, ConnectFailed, LoopCheck, Notify,
       WatchCtxDone, WatchClosed, Woken, Delay, DelayNil, DropFresh, MoveOn,
       CloseCalled, Closer, SetClosing, CloseCancels, ShutTaken, WaitLoop,
       BrokerDrops, ParentCancel, Stopped, cvars
  <2> QED
    BY <2>2, <2>3
<1> QED
  BY <1>1, ClientInvariance, PTL DEF CSpec, NoInstallAfterTake

-----------------------------------------------------------------------------
(* Publishers *)

\* A publisher's call and the broker's answer leave the client alone, and the
\* client's steps are its own.
THEOREM PublishersUseClient == PSpec => CSpec
<1>1. PInit => CInit
  BY DEF PInit
<1>2. [PNext]_<<cvars, pvars>> => [CNext]_cvars
  BY DEF PNext
<1> QED
  BY <1>1, <1>2, PTL DEF PSpec, CSpec

\* So the client's invariants hold among its users: no connection is lost, and
\* Close and a failed New leave none open (client.go lines 73-76, 90-136, 315-337).
THEOREM ClientCorrectInUse ==
    PSpec => /\ []OpenIsOwned /\ []CloseReleasesAll /\ []FailedNewIsClean
             /\ NoInstallAfterTake
  BY PublishersUseClient, OpenIsOwnedCorrect, CloseReleasesAllCorrect,
     FailedNewIsCleanCorrect, NoInstallAfterTakeCorrect, PTL

-----------------------------------------------------------------------------
(* The inductive invariant *)

\* A call that is under way has a number, and the broker confirms what it has
\* stored.
PubInv ==
    /\ PTypeOK
    /\ \A p \in Publisher : pub[p] # "idle" => calls[p] > 0
    /\ \A m \in Message : <<m, TRUE>> \in confirms => m \in stored
    /\ ConfirmedIsStored

\* The number of a call names one of the messages.
LEMMA CurrentIsMessage ==
    ASSUME PubInv, NEW p \in Publisher, pub[p] # "idle"
    PROVE  Current(p) \in Message
  BY MaxCallsAssumption DEF PubInv, PTypeOK, Message, Current

\* Every step keeps it; what the client does is the matter of its own invariant.
LEMMA PubInductive ==
    ASSUME PubInv, CTypeOK', [PNext]_<<cvars, pvars>>
    PROVE  PubInv'
<1> USE MaxCallsAssumption DEF PubInv, PTypeOK, ConfirmedIsStored
<1>1. ASSUME UNCHANGED pvars PROVE PubInv'
  BY <1>1 DEF pvars
<1>2. ASSUME NEW p \in Publisher, NEW o \in Op, Call(p, o), UNCHANGED cvars PROVE PubInv'
  <2>1. calls' \in [Publisher -> 0 .. MaxCalls] /\ \A q \in Publisher : calls'[q] >= calls[q]
    BY <1>2 DEF Call
  <2>2. calls'[p] > 0
    BY <1>2 DEF Call
  <2>3. pub' \in [Publisher -> {"idle", "current", "open", "publish", "await", "close"}]
    BY <1>2 DEF Call
  <2>4. \A q \in Publisher : pub'[q] # "idle" => calls'[q] > 0
    BY <1>2, <2>1, <2>2 DEF Call
  <2> QED
    BY <1>2, <2>1, <2>3, <2>4 DEF Call
<1>3. ASSUME NEW p \in Publisher, ReadConn(p), UNCHANGED cvars PROVE PubInv'
  BY <1>3 DEF ReadConn, CTypeOK, ConnRef
<1>4. ASSUME NEW p \in Publisher, OpenChannel(p), UNCHANGED cvars PROVE PubInv'
  BY <1>4 DEF OpenChannel, Finishes, ConnRef
<1>5. ASSUME NEW p \in Publisher, CallFails(p), UNCHANGED cvars PROVE PubInv'
  <2>1. inflight' \subseteq inflight \cup {Current(p)} /\ pub[p] # "idle"
    BY <1>5 DEF CallFails
  <2>2. inflight' \subseteq Message
    BY <2>1, CurrentIsMessage
  <2> QED
    BY <1>5, <2>2 DEF CallFails, Finishes, ConnRef
<1>6. ASSUME NEW p \in Publisher, PublishWritten(p), UNCHANGED cvars PROVE PubInv'
  <2>1. inflight' \subseteq Message
    BY <1>6, CurrentIsMessage DEF PublishWritten
  <2> QED
    BY <1>6, <2>1 DEF PublishWritten
<1>7. ASSUME NEW p \in Publisher, AwaitConfirm(p), UNCHANGED cvars PROVE PubInv'
  <2>1. Current(p) \in Message
    BY <1>7, CurrentIsMessage DEF AwaitConfirm
  <2>2. succeeded' \subseteq Message /\ succeeded' \subseteq stored
    BY <1>7, <2>1 DEF AwaitConfirm
  <2> QED
    BY <1>7, <2>2 DEF AwaitConfirm, Finishes, ConnRef
<1>8. ASSUME NEW p \in Publisher, AwaitTimeout(p) \/ AwaitClosed(p), UNCHANGED cvars
      PROVE  PubInv'
  BY <1>8 DEF AwaitTimeout, AwaitClosed, Finishes, ConnRef
<1>9. ASSUME NEW m \in Message, NEW ack \in BOOLEAN, BrokerAnswers(m, ack), UNCHANGED cvars
      PROVE  PubInv'
  <2>1. confirms' \subseteq (Message \X BOOLEAN)
    BY <1>9 DEF BrokerAnswers
  <2>2. \A n \in Message : <<n, TRUE>> \in confirms' => n \in stored'
    BY <1>9 DEF BrokerAnswers
  <2>3. stored' \subseteq Message /\ stored \subseteq stored' /\ inflight' \subseteq Message
    BY <1>9 DEF BrokerAnswers
  <2> QED
    BY <1>9, <2>1, <2>2, <2>3 DEF BrokerAnswers
<1>10. ASSUME NEW p \in Publisher, ChannelFails(p) \/ CloseChannel(p), UNCHANGED cvars
       PROVE  PubInv'
  BY <1>10 DEF ChannelFails, CloseChannel, Returns, ConnRef
<1> QED
  BY <1>1, <1>2, <1>3, <1>4, <1>5, <1>6, <1>7, <1>8, <1>9, <1>10 DEF PNext, CallSteps

\* Every reachable state satisfies it.
LEMMA PubInvariance == PSpec => []PubInv
<1>1. PInit /\ CInv => PubInv
  BY MaxCallsAssumption DEF PInit, CInv, PubInv, PTypeOK, ConfirmedIsStored, Op, Message, ConnRef
<1>2. CInv => CTypeOK
  BY DEF CInv
<1>3. PubInv /\ CTypeOK' /\ [PNext]_<<cvars, pvars>> => PubInv'
  BY PubInductive
<1> QED
  BY <1>1, <1>2, <1>3, PublishersUseClient, ClientInvariance, PTL DEF PSpec

-----------------------------------------------------------------------------

\* Type correctness of client and publishers.
THEOREM PublishTypeOK == PSpec => []PTypeOK
<1>1. PubInv => PTypeOK
  BY DEF PubInv
<1> QED
  BY <1>1, PubInvariance, PTL

\* A publish that returns nil was stored by the broker, whatever confirmations
\* of earlier calls arrive late (lines 254-296).
THEOREM ConfirmedHolds == PSpec => []ConfirmedIsStored
<1>1. PubInv => ConfirmedIsStored
  BY DEF PubInv
<1> QED
  BY <1>1, PubInvariance, PTL

\* After Close has returned nothing is written to the broker: the handle of a
\* call that passed isClosing before is closed (lines 216-233, 254-296, 315-337).
THEOREM NothingSentHolds == PSpec => NothingSentAfterClose
<1>1. PubInv /\ CloseReleasesAll /\ [PNext]_<<cvars, pvars>> =>
        [closer = "done" => inflight' \subseteq inflight]_<<cvars, pvars>>
  <2> SUFFICES ASSUME PubInv, CloseReleasesAll, PNext, closer = "done"
               PROVE  inflight' \subseteq inflight
    OBVIOUS
  <2>1. \A p \in Publisher : ~IsOpen(handle[p])
    BY DEF PubInv, PTypeOK, ConnRef, IsOpen, CloseReleasesAll
  <2>2. ASSUME NEW p \in Publisher, CallSteps(p) PROVE inflight' \subseteq inflight
    BY <2>1, <2>2 DEF CallSteps, ReadConn, OpenChannel, ChannelFails, CallFails,
       CloseChannel, PublishWritten, Writable, AwaitConfirm, AwaitTimeout, AwaitClosed
  <2>3. ASSUME NEW p \in Publisher, NEW o \in Op, Call(p, o) PROVE inflight' \subseteq inflight
    BY <2>3 DEF Call
  <2>4. ASSUME NEW m \in Message, NEW ack \in BOOLEAN, BrokerAnswers(m, ack)
        PROVE  inflight' \subseteq inflight
    BY <2>4 DEF BrokerAnswers
  <2>5. ASSUME UNCHANGED pvars PROVE inflight' \subseteq inflight
    BY <2>5 DEF pvars
  <2> QED
    BY <2>2, <2>3, <2>4, <2>5 DEF PNext
<1> QED
  BY <1>1, PubInvariance, ClientCorrectInUse, PTL DEF PSpec, NothingSentAfterClose

=============================================================================
