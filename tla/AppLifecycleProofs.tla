------------------------- MODULE AppLifecycleProofs -------------------------
(***************************************************************************)
(* Invariants of AppLifecycle proved for every number of servers, runners  *)
(* and closers and every timeout.                                          *)
(*                                                                         *)
(* The safety properties are not inductive: that a resource is closed only *)
(* after the drain depends on the order of the phases of Run.  Inv states  *)
(* what holds in each phase, one conjunct per concern.                     *)
(***************************************************************************)
EXTENDS AppLifecycle, FiniteSetTheorems, TLAPS

Before == {"config", "start", "select", "unready"}

\* The indices of the two loops stay inside what they index.
LoopInv ==
    /\ pc = "stop" => idx <= Len(servers)
    /\ pc = "stopping" => /\ idx > 0 /\ idx <= Len(servers)
                          /\ servers[idx] # "bare"
    /\ pc = "close" => idx <= closers

\* Which tasks exist, and when the process is ready.
PhaseInv ==
    /\ timeout > 0
    /\ pc = "config" => started = 0
    /\ pc \notin {"config", "start"} => started = NTasks
    /\ \A t \in Task : t > started => task[t] = "idle"
    /\ ready => pc \in {"select", "unready"}
    /\ pc \in Before => deadline = "unset" /\ shutdownErr = "nil"

\* A server whose shutdown has returned is stopped, or Run will fail.
ServerInv ==
    /\ pc \in Before => \A s \in 1 .. MaxServers : srv[s] = "up"
    /\ pc \in {"stop", "stopping"} =>
        \A s \in 1 .. Len(servers) :
            s > idx /\ servers[s] # "bare" => srv[s] = "stopped" \/ shutdownErr # "nil"
    /\ pc \in {"wait", "close", "done"} =>
        \A s \in 1 .. Len(servers) :
            servers[s] # "bare" => srv[s] = "stopped" \/ shutdownErr # "nil"

\* Closing starts after the drain, or after a deadline Run will report.
DrainInv ==
    /\ drained => pc \in {"wait", "close", "done"} /\ AllTasksDone
    /\ pc \in {"close", "done"} =>
        AllTasksDone \/ (deadline = "expired" /\ shutdownErr # "nil")

\* The closers called are the last Len(closed) ones, the latest first.
CloseInv ==
    /\ pc \notin {"close", "done"} => closed = <<>>
    /\ pc = "close" => Len(closed) = closers - idx
    /\ pc = "done" => Len(closed) = closers
    /\ \A k \in 1 .. Len(closed) : closed[k] = closers + 1 - k

\* errCh holds each task at most once, and only tasks that have sent.
ErrInv ==
    /\ \A i \in 1 .. Len(errCh) :
        errCh[i] <= started /\ task[errCh[i]] \in {"cancelling", "done"}
    /\ \A i, j \in 1 .. Len(errCh) : i # j => errCh[i] # errCh[j]
    /\ runErr # NoTask => task[runErr] \in {"cancelling", "done"}
    /\ pc \notin {"config", "start", "select"} /\ ~ctxDone => runErr # NoTask
    /\ pc = "done" => result = IF runErr # NoTask THEN "run" ELSE shutdownErr

Inv == TypeOK /\ LoopInv /\ PhaseInv /\ ServerInv /\ DrainInv /\ CloseInv /\ ErrInv

-----------------------------------------------------------------------------
\* Every step preserves the type invariant; the loop indices are needed.
LEMMA TypeStep ==
    ASSUME TypeOK, LoopInv, [Next]_vars
    PROVE  TypeOK'
<1> USE BoundsAssumption DEF TypeOK, LoopInv, MainState, TaskState, ShutdownError, ServerKind,
    Task, NoTask, NTasks, FirstError, vars, registered, tasks, stopping, errors
<1>1. ASSUME NEW kind \in ServerKind, AddServer(kind)
      PROVE  TypeOK'
  BY <1>1 DEF AddServer
<1>2. CASE AddRunner
  BY <1>2 DEF AddRunner
<1>3. CASE AddCloser
  BY <1>3 DEF AddCloser
<1>4. CASE CallRun
  BY <1>4 DEF CallRun
<1>5. CASE CancelCtx
  BY <1>5 DEF CancelCtx
<1>6. CASE PropagateCancel
  BY <1>6 DEF PropagateCancel
<1>7. CASE DeadlineExpires
  BY <1>7 DEF DeadlineExpires
<1>8. CASE StartTask
  BY <1>8 DEF StartTask
<1>9. CASE MarkReady
  BY <1>9 DEF MarkReady
<1>10. CASE SelectCtxDone
  BY <1>10 DEF SelectCtxDone
<1>11. CASE SelectErr
  BY <1>11 DEF SelectErr
<1>12. CASE BeginShutdown
  <2>1. Len(servers) \in Nat
    OBVIOUS
  <2> QED
    BY <1>12, <2>1 DEF BeginShutdown
<1>13. CASE SkipServer
  BY <1>13 DEF SkipServer
<1>14. CASE CallShutdown
  BY <1>14 DEF CallShutdown
<1>15. CASE ShutdownReturnsNil
  BY <1>15 DEF ShutdownReturnsNil
<1>16. CASE ShutdownReturnsErr
  BY <1>16 DEF ShutdownReturnsErr
<1>17. CASE ShutdownTimesOut
  BY <1>17 DEF ShutdownTimesOut
<1>18. CASE CancelRunners
  BY <1>18 DEF CancelRunners
<1>19. CASE WaitDrained
  BY <1>19 DEF WaitDrained
<1>20. CASE WaitDeadline
  BY <1>20 DEF WaitDeadline
<1>21. ASSUME NEW err \in BOOLEAN, CloseResource(err)
      PROVE  TypeOK'
  BY <1>21 DEF CloseResource
<1>22. CASE Return
  BY <1>22 DEF Return
<1>23. CASE WaitGroupDone
  BY <1>23 DEF WaitGroupDone
<1>24. ASSUME NEW s \in 1 .. MaxServers, ConnectionsEnd(s)
      PROVE  TypeOK'
  BY <1>24 DEF ConnectionsEnd
<1>25. ASSUME NEW t \in Task, TaskReturnsNil(t)
      PROVE  TypeOK'
  BY <1>25 DEF TaskReturnsNil
<1>26. ASSUME NEW t \in Task, TaskReturnsErr(t)
      PROVE  TypeOK'
  BY <1>26 DEF TaskReturnsErr
<1>27. ASSUME NEW t \in Task, TaskChecksCtx(t)
      PROVE  TypeOK'
  BY <1>27 DEF TaskChecksCtx
<1>28. ASSUME NEW t \in Task, TaskSendsErr(t)
      PROVE  TypeOK'
  BY <1>28 DEF TaskSendsErr
<1>29. ASSUME NEW t \in Task, TaskCancelsRun(t)
      PROVE  TypeOK'
  BY <1>29 DEF TaskCancelsRun
<1>30. CASE UNCHANGED vars
  BY <1>30
<1> QED
  BY <1>1, <1>2, <1>3, <1>4, <1>5, <1>6, <1>7, <1>8, <1>9, <1>10, <1>11,
     <1>12, <1>13, <1>14, <1>15, <1>16, <1>17, <1>18, <1>19, <1>20, <1>21,
     <1>22, <1>23, <1>24, <1>25, <1>26, <1>27, <1>28, <1>29, <1>30 DEF
     Next, Register, Main, TaskNext, TaskSteps, Returned

\* Every step keeps the loop indices in range.
LEMMA LoopStep ==
    ASSUME TypeOK, LoopInv, [Next]_vars
    PROVE  LoopInv'
<1> USE DEF TypeOK, LoopInv, vars, registered, tasks, stopping, errors
<1>1. ASSUME NEW kind \in ServerKind, AddServer(kind)
      PROVE  LoopInv'
  BY <1>1 DEF AddServer
<1>2. CASE AddRunner
  BY <1>2 DEF AddRunner
<1>3. CASE AddCloser
  BY <1>3 DEF AddCloser
<1>4. CASE CallRun
  BY <1>4 DEF CallRun
<1>5. CASE CancelCtx
  BY <1>5 DEF CancelCtx
<1>6. CASE PropagateCancel
  BY <1>6 DEF PropagateCancel
<1>7. CASE DeadlineExpires
  BY <1>7 DEF DeadlineExpires
<1>8. CASE StartTask
  BY <1>8 DEF StartTask
<1>9. CASE MarkReady
  BY <1>9 DEF MarkReady
<1>10. CASE SelectCtxDone
  BY <1>10 DEF SelectCtxDone
<1>11. CASE SelectErr
  BY <1>11 DEF SelectErr
<1>12. CASE BeginShutdown
  BY <1>12 DEF BeginShutdown
<1>13. CASE SkipServer
  BY <1>13 DEF SkipServer
<1>14. CASE CallShutdown
  BY <1>14 DEF CallShutdown
<1>15. CASE ShutdownReturnsNil
  BY <1>15 DEF ShutdownReturnsNil
<1>16. CASE ShutdownReturnsErr
  BY <1>16 DEF ShutdownReturnsErr
<1>17. CASE ShutdownTimesOut
  BY <1>17 DEF ShutdownTimesOut
<1>18. CASE CancelRunners
  BY <1>18 DEF CancelRunners
<1>19. CASE WaitDrained
  BY <1>19 DEF WaitDrained
<1>20. CASE WaitDeadline
  BY <1>20 DEF WaitDeadline
<1>21. ASSUME NEW err \in BOOLEAN, CloseResource(err)
      PROVE  LoopInv'
  BY <1>21 DEF CloseResource
<1>22. CASE Return
  BY <1>22 DEF Return
<1>23. CASE WaitGroupDone
  BY <1>23 DEF WaitGroupDone
<1>24. ASSUME NEW s \in 1 .. MaxServers, ConnectionsEnd(s)
      PROVE  LoopInv'
  BY <1>24 DEF ConnectionsEnd
<1>25. ASSUME NEW t \in Task, TaskReturnsNil(t)
      PROVE  LoopInv'
  BY <1>25 DEF TaskReturnsNil
<1>26. ASSUME NEW t \in Task, TaskReturnsErr(t)
      PROVE  LoopInv'
  BY <1>26 DEF TaskReturnsErr
<1>27. ASSUME NEW t \in Task, TaskChecksCtx(t)
      PROVE  LoopInv'
  BY <1>27 DEF TaskChecksCtx
<1>28. ASSUME NEW t \in Task, TaskSendsErr(t)
      PROVE  LoopInv'
  BY <1>28 DEF TaskSendsErr
<1>29. ASSUME NEW t \in Task, TaskCancelsRun(t)
      PROVE  LoopInv'
  BY <1>29 DEF TaskCancelsRun
<1>30. CASE UNCHANGED vars
  BY <1>30
<1> QED
  BY <1>1, <1>2, <1>3, <1>4, <1>5, <1>6, <1>7, <1>8, <1>9, <1>10, <1>11,
     <1>12, <1>13, <1>14, <1>15, <1>16, <1>17, <1>18, <1>19, <1>20, <1>21,
     <1>22, <1>23, <1>24, <1>25, <1>26, <1>27, <1>28, <1>29, <1>30 DEF
     Next, Register, Main, TaskNext, TaskSteps, Returned

\* Every step preserves the phase invariant.
LEMMA PhaseStep ==
    ASSUME TypeOK, LoopInv, PhaseInv, [Next]_vars
    PROVE  PhaseInv'
<1> USE BoundsAssumption DEF TypeOK, LoopInv, PhaseInv, Before, Task, NTasks, vars, registered, tasks, stopping, errors
<1>1. ASSUME NEW kind \in ServerKind, AddServer(kind)
      PROVE  PhaseInv'
  BY <1>1 DEF AddServer
<1>2. CASE AddRunner
  BY <1>2 DEF AddRunner
<1>3. CASE AddCloser
  BY <1>3 DEF AddCloser
<1>4. CASE CallRun
  BY <1>4 DEF CallRun
<1>5. CASE CancelCtx
  BY <1>5 DEF CancelCtx
<1>6. CASE PropagateCancel
  BY <1>6 DEF PropagateCancel
<1>7. CASE DeadlineExpires
  BY <1>7 DEF DeadlineExpires
<1>8. CASE StartTask
  BY <1>8 DEF StartTask
<1>9. CASE MarkReady
  BY <1>9 DEF MarkReady
<1>10. CASE SelectCtxDone
  BY <1>10 DEF SelectCtxDone
<1>11. CASE SelectErr
  BY <1>11 DEF SelectErr
<1>12. CASE BeginShutdown
  BY <1>12 DEF BeginShutdown
<1>13. CASE SkipServer
  BY <1>13 DEF SkipServer
<1>14. CASE CallShutdown
  BY <1>14 DEF CallShutdown
<1>15. CASE ShutdownReturnsNil
  BY <1>15 DEF ShutdownReturnsNil
<1>16. CASE ShutdownReturnsErr
  BY <1>16 DEF ShutdownReturnsErr
<1>17. CASE ShutdownTimesOut
  BY <1>17 DEF ShutdownTimesOut
<1>18. CASE CancelRunners
  BY <1>18 DEF CancelRunners
<1>19. CASE WaitDrained
  BY <1>19 DEF WaitDrained
<1>20. CASE WaitDeadline
  BY <1>20 DEF WaitDeadline
<1>21. ASSUME NEW err \in BOOLEAN, CloseResource(err)
      PROVE  PhaseInv'
  BY <1>21 DEF CloseResource
<1>22. CASE Return
  BY <1>22 DEF Return
<1>23. CASE WaitGroupDone
  BY <1>23 DEF WaitGroupDone
<1>24. ASSUME NEW s \in 1 .. MaxServers, ConnectionsEnd(s)
      PROVE  PhaseInv'
  BY <1>24 DEF ConnectionsEnd
<1>25. ASSUME NEW t \in Task, TaskReturnsNil(t)
      PROVE  PhaseInv'
  BY <1>25 DEF TaskReturnsNil
<1>26. ASSUME NEW t \in Task, TaskReturnsErr(t)
      PROVE  PhaseInv'
  BY <1>26 DEF TaskReturnsErr
<1>27. ASSUME NEW t \in Task, TaskChecksCtx(t)
      PROVE  PhaseInv'
  BY <1>27 DEF TaskChecksCtx
<1>28. ASSUME NEW t \in Task, TaskSendsErr(t)
      PROVE  PhaseInv'
  BY <1>28 DEF TaskSendsErr
<1>29. ASSUME NEW t \in Task, TaskCancelsRun(t)
      PROVE  PhaseInv'
  BY <1>29 DEF TaskCancelsRun
<1>30. CASE UNCHANGED vars
  BY <1>30
<1> QED
  BY <1>1, <1>2, <1>3, <1>4, <1>5, <1>6, <1>7, <1>8, <1>9, <1>10, <1>11,
     <1>12, <1>13, <1>14, <1>15, <1>16, <1>17, <1>18, <1>19, <1>20, <1>21,
     <1>22, <1>23, <1>24, <1>25, <1>26, <1>27, <1>28, <1>29, <1>30 DEF
     Next, Register, Main, TaskNext, TaskSteps, Returned

\* Every step preserves the server invariant.
LEMMA ServerStep ==
    ASSUME TypeOK, LoopInv, PhaseInv, ServerInv, [Next]_vars
    PROVE  ServerInv'
<1> USE BoundsAssumption DEF TypeOK, LoopInv, PhaseInv, ServerInv, Before, NTasks,
    FirstError, ShutdownError, ServerKind, vars, registered, tasks, stopping, errors
<1>1. ASSUME NEW kind \in ServerKind, AddServer(kind)
      PROVE  ServerInv'
  BY <1>1 DEF AddServer
<1>2. CASE AddRunner
  BY <1>2 DEF AddRunner
<1>3. CASE AddCloser
  BY <1>3 DEF AddCloser
<1>4. CASE CallRun
  BY <1>4 DEF CallRun
<1>5. CASE CancelCtx
  BY <1>5 DEF CancelCtx
<1>6. CASE PropagateCancel
  BY <1>6 DEF PropagateCancel
<1>7. CASE DeadlineExpires
  BY <1>7 DEF DeadlineExpires
<1>8. CASE StartTask
  BY <1>8 DEF StartTask
<1>9. CASE MarkReady
  BY <1>9 DEF MarkReady
<1>10. CASE SelectCtxDone
  BY <1>10 DEF SelectCtxDone
<1>11. CASE SelectErr
  BY <1>11 DEF SelectErr
<1>12. CASE BeginShutdown
  BY <1>12 DEF BeginShutdown
<1>13. CASE SkipServer
  BY <1>13 DEF SkipServer
<1>14. CASE CallShutdown
  BY <1>14 DEF CallShutdown
<1>15. CASE ShutdownReturnsNil
  BY <1>15 DEF ShutdownReturnsNil
<1>16. CASE ShutdownReturnsErr
  BY <1>16 DEF ShutdownReturnsErr
<1>17. CASE ShutdownTimesOut
  BY <1>17 DEF ShutdownTimesOut
<1>18. CASE CancelRunners
  BY <1>18 DEF CancelRunners
<1>19. CASE WaitDrained
  BY <1>19 DEF WaitDrained
<1>20. CASE WaitDeadline
  BY <1>20 DEF WaitDeadline
<1>21. ASSUME NEW err \in BOOLEAN, CloseResource(err)
      PROVE  ServerInv'
  BY <1>21 DEF CloseResource
<1>22. CASE Return
  BY <1>22 DEF Return
<1>23. CASE WaitGroupDone
  BY <1>23 DEF WaitGroupDone
<1>24. ASSUME NEW s \in 1 .. MaxServers, ConnectionsEnd(s)
      PROVE  ServerInv'
  BY <1>24 DEF ConnectionsEnd
<1>25. ASSUME NEW t \in Task, TaskReturnsNil(t)
      PROVE  ServerInv'
  BY <1>25 DEF TaskReturnsNil
<1>26. ASSUME NEW t \in Task, TaskReturnsErr(t)
      PROVE  ServerInv'
  BY <1>26 DEF TaskReturnsErr
<1>27. ASSUME NEW t \in Task, TaskChecksCtx(t)
      PROVE  ServerInv'
  BY <1>27 DEF TaskChecksCtx
<1>28. ASSUME NEW t \in Task, TaskSendsErr(t)
      PROVE  ServerInv'
  BY <1>28 DEF TaskSendsErr
<1>29. ASSUME NEW t \in Task, TaskCancelsRun(t)
      PROVE  ServerInv'
  BY <1>29 DEF TaskCancelsRun
<1>30. CASE UNCHANGED vars
  BY <1>30
<1> QED
  BY <1>1, <1>2, <1>3, <1>4, <1>5, <1>6, <1>7, <1>8, <1>9, <1>10, <1>11,
     <1>12, <1>13, <1>14, <1>15, <1>16, <1>17, <1>18, <1>19, <1>20, <1>21,
     <1>22, <1>23, <1>24, <1>25, <1>26, <1>27, <1>28, <1>29, <1>30 DEF
     Next, Register, Main, TaskNext, TaskSteps, Returned

\* Every step preserves the drain invariant.
LEMMA DrainStep ==
    ASSUME TypeOK, PhaseInv, DrainInv, [Next]_vars
    PROVE  DrainInv'
<1> USE BoundsAssumption DEF TypeOK, PhaseInv, DrainInv, Task, NTasks, AllTasksDone,
    FirstError, ShutdownError, vars, registered, tasks, stopping, errors
<1>1. ASSUME NEW kind \in ServerKind, AddServer(kind)
      PROVE  DrainInv'
  BY <1>1 DEF AddServer
<1>2. CASE AddRunner
  BY <1>2 DEF AddRunner
<1>3. CASE AddCloser
  BY <1>3 DEF AddCloser
<1>4. CASE CallRun
  BY <1>4 DEF CallRun
<1>5. CASE CancelCtx
  BY <1>5 DEF CancelCtx
<1>6. CASE PropagateCancel
  BY <1>6 DEF PropagateCancel
<1>7. CASE DeadlineExpires
  BY <1>7 DEF DeadlineExpires
<1>8. CASE StartTask
  BY <1>8 DEF StartTask
<1>9. CASE MarkReady
  BY <1>9 DEF MarkReady
<1>10. CASE SelectCtxDone
  BY <1>10 DEF SelectCtxDone
<1>11. CASE SelectErr
  BY <1>11 DEF SelectErr
<1>12. CASE BeginShutdown
  BY <1>12 DEF BeginShutdown
<1>13. CASE SkipServer
  BY <1>13 DEF SkipServer
<1>14. CASE CallShutdown
  BY <1>14 DEF CallShutdown
<1>15. CASE ShutdownReturnsNil
  BY <1>15 DEF ShutdownReturnsNil
<1>16. CASE ShutdownReturnsErr
  BY <1>16 DEF ShutdownReturnsErr
<1>17. CASE ShutdownTimesOut
  BY <1>17 DEF ShutdownTimesOut
<1>18. CASE CancelRunners
  BY <1>18 DEF CancelRunners
<1>19. CASE WaitDrained
  BY <1>19 DEF WaitDrained
<1>20. CASE WaitDeadline
  BY <1>20 DEF WaitDeadline
<1>21. ASSUME NEW err \in BOOLEAN, CloseResource(err)
      PROVE  DrainInv'
  BY <1>21 DEF CloseResource
<1>22. CASE Return
  BY <1>22 DEF Return
<1>23. CASE WaitGroupDone
  BY <1>23 DEF WaitGroupDone
<1>24. ASSUME NEW s \in 1 .. MaxServers, ConnectionsEnd(s)
      PROVE  DrainInv'
  BY <1>24 DEF ConnectionsEnd
<1>25. ASSUME NEW t \in Task, TaskReturnsNil(t)
      PROVE  DrainInv'
  BY <1>25 DEF TaskReturnsNil
<1>26. ASSUME NEW t \in Task, TaskReturnsErr(t)
      PROVE  DrainInv'
  BY <1>26 DEF TaskReturnsErr
<1>27. ASSUME NEW t \in Task, TaskChecksCtx(t)
      PROVE  DrainInv'
  BY <1>27 DEF TaskChecksCtx
<1>28. ASSUME NEW t \in Task, TaskSendsErr(t)
      PROVE  DrainInv'
  BY <1>28 DEF TaskSendsErr
<1>29. ASSUME NEW t \in Task, TaskCancelsRun(t)
      PROVE  DrainInv'
  BY <1>29 DEF TaskCancelsRun
<1>30. CASE UNCHANGED vars
  BY <1>30
<1> QED
  BY <1>1, <1>2, <1>3, <1>4, <1>5, <1>6, <1>7, <1>8, <1>9, <1>10, <1>11,
     <1>12, <1>13, <1>14, <1>15, <1>16, <1>17, <1>18, <1>19, <1>20, <1>21,
     <1>22, <1>23, <1>24, <1>25, <1>26, <1>27, <1>28, <1>29, <1>30 DEF
     Next, Register, Main, TaskNext, TaskSteps, Returned

\* Every step preserves the order of closing.
LEMMA CloseStep ==
    ASSUME TypeOK, LoopInv, CloseInv, [Next]_vars
    PROVE  CloseInv'
<1> USE BoundsAssumption DEF TypeOK, LoopInv, CloseInv, vars, registered, tasks, stopping, errors
<1>1. ASSUME NEW kind \in ServerKind, AddServer(kind)
      PROVE  CloseInv'
  BY <1>1 DEF AddServer
<1>2. CASE AddRunner
  BY <1>2 DEF AddRunner
<1>3. CASE AddCloser
  BY <1>3 DEF AddCloser
<1>4. CASE CallRun
  BY <1>4 DEF CallRun
<1>5. CASE CancelCtx
  BY <1>5 DEF CancelCtx
<1>6. CASE PropagateCancel
  BY <1>6 DEF PropagateCancel
<1>7. CASE DeadlineExpires
  BY <1>7 DEF DeadlineExpires
<1>8. CASE StartTask
  BY <1>8 DEF StartTask
<1>9. CASE MarkReady
  BY <1>9 DEF MarkReady
<1>10. CASE SelectCtxDone
  BY <1>10 DEF SelectCtxDone
<1>11. CASE SelectErr
  BY <1>11 DEF SelectErr
<1>12. CASE BeginShutdown
  BY <1>12 DEF BeginShutdown
<1>13. CASE SkipServer
  BY <1>13 DEF SkipServer
<1>14. CASE CallShutdown
  BY <1>14 DEF CallShutdown
<1>15. CASE ShutdownReturnsNil
  BY <1>15 DEF ShutdownReturnsNil
<1>16. CASE ShutdownReturnsErr
  BY <1>16 DEF ShutdownReturnsErr
<1>17. CASE ShutdownTimesOut
  BY <1>17 DEF ShutdownTimesOut
<1>18. CASE CancelRunners
  BY <1>18 DEF CancelRunners
<1>19. CASE WaitDrained
  BY <1>19 DEF WaitDrained
<1>20. CASE WaitDeadline
  BY <1>20 DEF WaitDeadline
<1>21. ASSUME NEW err \in BOOLEAN, CloseResource(err)
      PROVE  CloseInv'
  <2>1. closed' = Append(closed, idx) /\ UNCHANGED closers
    BY <1>21 DEF CloseResource
  <2>2. Len(closed) \in Nat /\ Len(closed') = Len(closed) + 1
    BY <2>1
  <2>3. \A k \in 1 .. Len(closed) : closed'[k] = closed[k]
    BY <2>1
  <2>4. closed'[Len(closed) + 1] = idx
    BY <2>1
  <2>5. pc = "close" /\ pc' = "close" /\ idx' = idx - 1
    BY <1>21 DEF CloseResource
  <2>6. idx = closers + 1 - (Len(closed) + 1)
    BY <2>2, <2>5
  <2>7. \A k \in 1 .. Len(closed') : closed'[k] = closers + 1 - k
    <3> SUFFICES ASSUME NEW k \in 1 .. Len(closed')
                 PROVE  closed'[k] = closers + 1 - k
      OBVIOUS
    <3>1. CASE k = Len(closed) + 1
      BY <3>1, <2>4, <2>6
    <3>2. CASE k \in 1 .. Len(closed)
      BY <3>2, <2>3
    <3> QED
      BY <3>1, <3>2, <2>2
  <2>8. Len(closed') = closers' - idx'
    BY <2>1, <2>2, <2>5, <2>6
  <2> QED
    BY <2>1, <2>5, <2>7, <2>8
<1>22. CASE Return
  BY <1>22 DEF Return
<1>23. CASE WaitGroupDone
  BY <1>23 DEF WaitGroupDone
<1>24. ASSUME NEW s \in 1 .. MaxServers, ConnectionsEnd(s)
      PROVE  CloseInv'
  BY <1>24 DEF ConnectionsEnd
<1>25. ASSUME NEW t \in Task, TaskReturnsNil(t)
      PROVE  CloseInv'
  BY <1>25 DEF TaskReturnsNil
<1>26. ASSUME NEW t \in Task, TaskReturnsErr(t)
      PROVE  CloseInv'
  BY <1>26 DEF TaskReturnsErr
<1>27. ASSUME NEW t \in Task, TaskChecksCtx(t)
      PROVE  CloseInv'
  BY <1>27 DEF TaskChecksCtx
<1>28. ASSUME NEW t \in Task, TaskSendsErr(t)
      PROVE  CloseInv'
  BY <1>28 DEF TaskSendsErr
<1>29. ASSUME NEW t \in Task, TaskCancelsRun(t)
      PROVE  CloseInv'
  BY <1>29 DEF TaskCancelsRun
<1>30. CASE UNCHANGED vars
  BY <1>30
<1> QED
  BY <1>1, <1>2, <1>3, <1>4, <1>5, <1>6, <1>7, <1>8, <1>9, <1>10, <1>11,
     <1>12, <1>13, <1>14, <1>15, <1>16, <1>17, <1>18, <1>19, <1>20, <1>21,
     <1>22, <1>23, <1>24, <1>25, <1>26, <1>27, <1>28, <1>29, <1>30 DEF
     Next, Register, Main, TaskNext, TaskSteps, Returned

\* Every step preserves the error bookkeeping.
LEMMA ErrStep ==
    ASSUME TypeOK, PhaseInv, ErrInv, [Next]_vars
    PROVE  ErrInv'
<1> USE BoundsAssumption DEF TypeOK, PhaseInv, ErrInv, Task, NoTask, NTasks, MainState, vars, registered, tasks, stopping, errors
<1>1. ASSUME NEW kind \in ServerKind, AddServer(kind)
      PROVE  ErrInv'
  BY <1>1 DEF AddServer
<1>2. CASE AddRunner
  BY <1>2 DEF AddRunner
<1>3. CASE AddCloser
  BY <1>3 DEF AddCloser
<1>4. CASE CallRun
  BY <1>4 DEF CallRun
<1>5. CASE CancelCtx
  BY <1>5 DEF CancelCtx
<1>6. CASE PropagateCancel
  BY <1>6 DEF PropagateCancel
<1>7. CASE DeadlineExpires
  BY <1>7 DEF DeadlineExpires
<1>8. CASE StartTask
  BY <1>8 DEF StartTask
<1>9. CASE MarkReady
  BY <1>9 DEF MarkReady
<1>10. CASE SelectCtxDone
  BY <1>10 DEF SelectCtxDone
<1>11. CASE SelectErr
  BY <1>11 DEF SelectErr
<1>12. CASE BeginShutdown
  BY <1>12 DEF BeginShutdown
<1>13. CASE SkipServer
  BY <1>13 DEF SkipServer
<1>14. CASE CallShutdown
  BY <1>14 DEF CallShutdown
<1>15. CASE ShutdownReturnsNil
  BY <1>15 DEF ShutdownReturnsNil
<1>16. CASE ShutdownReturnsErr
  BY <1>16 DEF ShutdownReturnsErr
<1>17. CASE ShutdownTimesOut
  BY <1>17 DEF ShutdownTimesOut
<1>18. CASE CancelRunners
  BY <1>18 DEF CancelRunners
<1>19. CASE WaitDrained
  BY <1>19 DEF WaitDrained
<1>20. CASE WaitDeadline
  BY <1>20 DEF WaitDeadline
<1>21. ASSUME NEW err \in BOOLEAN, CloseResource(err)
      PROVE  ErrInv'
  BY <1>21 DEF CloseResource
<1>22. CASE Return
  BY <1>22 DEF Return
<1>23. CASE WaitGroupDone
  BY <1>23 DEF WaitGroupDone
<1>24. ASSUME NEW s \in 1 .. MaxServers, ConnectionsEnd(s)
      PROVE  ErrInv'
  BY <1>24 DEF ConnectionsEnd
<1>25. ASSUME NEW t \in Task, TaskReturnsNil(t)
      PROVE  ErrInv'
  BY <1>25 DEF TaskReturnsNil
<1>26. ASSUME NEW t \in Task, TaskReturnsErr(t)
      PROVE  ErrInv'
  BY <1>26 DEF TaskReturnsErr
<1>27. ASSUME NEW t \in Task, TaskChecksCtx(t)
      PROVE  ErrInv'
  BY <1>27 DEF TaskChecksCtx
<1>28. ASSUME NEW t \in Task, TaskSendsErr(t)
      PROVE  ErrInv'
  <2>1. /\ task[t] = "reporting" /\ task' = [task EXCEPT ![t] = "cancelling"]
        /\ errCh' = Append(errCh, t)
        /\ UNCHANGED <<pc, started, ctxDone, runErr, shutdownErr, result>>
    BY <1>28 DEF TaskSendsErr
  <2>2. t <= started
    BY <2>1
  <2>3. Len(errCh) \in Nat /\ Len(errCh') = Len(errCh) + 1
    BY <2>1
  <2>4. \A i \in 1 .. Len(errCh) : errCh'[i] = errCh[i] /\ errCh[i] \in Task
    BY <2>1
  <2>5. errCh'[Len(errCh) + 1] = t
    BY <2>1
  <2>6. \A i \in 1 .. Len(errCh) : errCh[i] # t
    BY <2>1
  <2>7. \A i \in 1 .. Len(errCh') :
            errCh'[i] <= started' /\ task'[errCh'[i]] \in {"cancelling", "done"}
    <3> SUFFICES ASSUME NEW i \in 1 .. Len(errCh')
                 PROVE  errCh'[i] <= started' /\ task'[errCh'[i]] \in {"cancelling", "done"}
      OBVIOUS
    <3>1. CASE i = Len(errCh) + 1
      BY <3>1, <2>1, <2>2, <2>5
    <3>2. CASE i \in 1 .. Len(errCh)
      BY <3>2, <2>1, <2>4, <2>6
    <3> QED
      BY <3>1, <3>2, <2>3
  <2>8. \A i, j \in 1 .. Len(errCh') : i # j => errCh'[i] # errCh'[j]
    <3> SUFFICES ASSUME NEW i \in 1 .. Len(errCh'), NEW j \in 1 .. Len(errCh'), i # j
                 PROVE  errCh'[i] # errCh'[j]
      OBVIOUS
    <3>1. CASE i \in 1 .. Len(errCh) /\ j \in 1 .. Len(errCh)
      BY <3>1, <2>4
    <3>2. CASE i = Len(errCh) + 1
      <4>1. j \in 1 .. Len(errCh)
        BY <3>2, <2>3
      <4> QED
        BY <3>2, <4>1, <2>4, <2>5, <2>6
    <3>3. CASE j = Len(errCh) + 1
      <4>1. i \in 1 .. Len(errCh)
        BY <3>3, <2>3
      <4> QED
        BY <3>3, <4>1, <2>4, <2>5, <2>6
    <3>4. \A k \in 1 .. Len(errCh') : k \in 1 .. Len(errCh) \/ k = Len(errCh) + 1
      BY <2>3
    <3> QED
      BY <3>1, <3>2, <3>3, <3>4
  <2>9. runErr' # NoTask => task'[runErr'] \in {"cancelling", "done"}
    BY <2>1
  <2> QED
    BY <2>1, <2>7, <2>8, <2>9
<1>29. ASSUME NEW t \in Task, TaskCancelsRun(t)
      PROVE  ErrInv'
  BY <1>29 DEF TaskCancelsRun
<1>30. CASE UNCHANGED vars
  BY <1>30
<1> QED
  BY <1>1, <1>2, <1>3, <1>4, <1>5, <1>6, <1>7, <1>8, <1>9, <1>10, <1>11,
     <1>12, <1>13, <1>14, <1>15, <1>16, <1>17, <1>18, <1>19, <1>20, <1>21,
     <1>22, <1>23, <1>24, <1>25, <1>26, <1>27, <1>28, <1>29, <1>30 DEF
     Next, Register, Main, TaskNext, TaskSteps, Returned

-----------------------------------------------------------------------------
\* New leaves a positive timeout, whatever the configuration and environment.
LEMMA TimeoutsPositive == Timeouts \subseteq {d \in Int : d > 0}
<1> SUFFICES ASSUME NEW d \in Timeouts PROVE d \in Int /\ d > 0
  OBVIOUS
<1>1. CASE d \in {c \in CfgTimeouts : c > 0}
  BY <1>1, TimeoutAssumption
<1>2. CASE d \in timeoutFromEnv(EnvTimeouts)
  BY <1>2, TimeoutAssumption DEF timeoutFromEnv
<1> QED
  BY <1>1, <1>2 DEF Timeouts

\* The initial states satisfy the inductive invariant.
LEMMA InitInv == Init => Inv
<1> SUFFICES ASSUME Init PROVE Inv
  OBVIOUS
<1> USE BoundsAssumption DEF Init
<1>1. timeout \in Int /\ timeout > 0
  BY TimeoutsPositive
<1>2. TypeOK
  <2>1. servers \in Seq(ServerKind) /\ Len(servers) = 0 /\ errCh \in Seq(Task)
        /\ closed \in Seq(1 .. MaxClosers)
    OBVIOUS
  <2>2. task \in [Task -> TaskState]
    BY DEF TaskState
  <2>3. srv \in [1 .. MaxServers -> {"up", "draining", "stopped"}]
    OBVIOUS
  <2>4. pc \in MainState /\ shutdownErr \in ShutdownError
    BY DEF MainState, ShutdownError
  <2>5. runErr \in Task \cup {NoTask} /\ result \in ShutdownError \cup {"none", "run"}
    OBVIOUS
  <2>6. started \in 0 .. (Len(servers) + runners)
    BY <2>1
  <2>7. runners \in 0 .. MaxRunners /\ closers \in 0 .. MaxClosers /\ idx \in Nat
        /\ Len(servers) <= MaxServers
    BY <2>1
  <2>8. ready \in BOOLEAN /\ ctxDone \in BOOLEAN /\ runDone \in BOOLEAN
        /\ drained \in BOOLEAN /\ deadline \in {"unset", "armed", "expired"}
    OBVIOUS
  <2> QED
    BY <1>1, <2>1, <2>2, <2>3, <2>4, <2>5, <2>6, <2>7, <2>8, Zenon DEF TypeOK
<1>3. LoopInv /\ PhaseInv
  BY <1>1 DEF LoopInv, PhaseInv, Task
<1>4. ServerInv /\ DrainInv /\ CloseInv /\ ErrInv
  BY DEF ServerInv, DrainInv, CloseInv, ErrInv, NoTask
<1> QED
  BY <1>2, <1>3, <1>4 DEF Inv

\* Every step of Run, of a task or of the environment preserves Inv.
LEMMA NextInv == Inv /\ [Next]_vars => Inv'
  BY TypeStep, LoopStep, PhaseStep, ServerStep, DrainStep, CloseStep, ErrStep
     DEF Inv

\* Inv is an invariant of the lifecycle.
THEOREM Invariance == Spec => []Inv
<1> QED
  BY InitInv, NextInv, PTL DEF Spec

\* Type correctness of Run's state, for every number of registrations.
THEOREM TypeCorrect == Spec => []TypeOK
<1>1. Inv => TypeOK
  BY DEF Inv
<1> QED
  BY <1>1, Invariance, PTL

\* No resource is closed while a task may still use it, unless the shutdown
\* deadline has passed (the wait of lines 246-259 before the loop of 261).
THEOREM CloseAfterDrainCorrect == Spec => []CloseAfterDrain
<1>1. Inv => CloseAfterDrain
  BY DEF Inv, DrainInv, CloseInv, CloseAfterDrain
<1> QED
  BY <1>1, Invariance, PTL

\* Run returns nil only after a complete stop (lines 236-271).
THEOREM CleanExitCorrect == Spec => []CleanExit
<1>1. Inv => CleanExit
  BY DEF Inv, TypeOK, PhaseInv, ServerInv, DrainInv, CloseInv, ErrInv, CleanExit,
         ShutdownError
<1> QED
  BY <1>1, Invariance, PTL

\* The closers are called in reverse registration order, none is left out.
THEOREM ReverseCloseCorrect == Spec => []ReverseClose
<1>1. Inv => ReverseClose
  BY DEF Inv, CloseInv, ReverseClose
<1> QED
  BY <1>1, Invariance, PTL

\* Unless its context was cancelled, Run returns the error of a failed task.
THEOREM FailureIsReturnedCorrect == Spec => []FailureIsReturned
<1>1. Inv => FailureIsReturned
  BY DEF Inv, ErrInv, FailureIsReturned
<1> QED
  BY <1>1, Invariance, PTL

\* errCh never holds more errors than there are tasks: it holds each task at
\* most once.
LEMMA ErrChBounded == TypeOK /\ ErrInv => Len(errCh) <= NTasks
<1> SUFFICES ASSUME TypeOK, ErrInv, Len(errCh) > NTasks
             PROVE  FALSE
  BY BoundsAssumption DEF TypeOK, NTasks
<1> DEFINE S == 1 .. Len(errCh)
           T == 1 .. NTasks
           f == [i \in S |-> errCh[i]]
<1>1. NTasks \in Nat /\ Len(errCh) \in Nat
  BY BoundsAssumption DEF TypeOK, NTasks
<1>a. \A n \in Nat : IsFiniteSet(1 .. n) /\ Cardinality(1 .. n) = n
  BY FS_Interval
<1>2. IsFiniteSet(S) /\ Cardinality(S) = Len(errCh)
  BY <1>1, <1>a
<1>3. IsFiniteSet(T) /\ Cardinality(T) = NTasks
  BY <1>1, <1>a
<1>4. f \in [S -> T]
  <2> SUFFICES ASSUME NEW i \in S PROVE errCh[i] \in T
    OBVIOUS
  <2>1. errCh[i] \in Task /\ errCh[i] <= started /\ started \in Nat /\ started <= NTasks
    BY <1>1 DEF ErrInv, TypeOK, NTasks
  <2>2. errCh[i] \in Nat \ {0}
    BY <2>1, BoundsAssumption DEF Task
  <2> QED
    BY <1>1, <2>1, <2>2
<1>5. Cardinality(T) < Cardinality(S)
  BY <1>1, <1>2, <1>3
<1> HIDE DEF S, T, f
<1>6. \E x, y \in S : x # y /\ f[x] = f[y]
  BY <1>2, <1>3, <1>4, <1>5, FS_PigeonHole
<1> QED
  BY <1>6 DEF ErrInv, S, f

\* A failing task is never blocked on errCh (line 200), so the WaitGroup is
\* never held up by an error nobody reads.
THEOREM ReportNeverBlocksCorrect == Spec => []ReportNeverBlocks
<1>1. Inv => ReportNeverBlocks
  <2> SUFFICES ASSUME Inv PROVE Len(errCh) < ErrChCap
    BY DEF ReportNeverBlocks
  <2>1. Len(errCh) <= NTasks /\ Len(errCh) \in Nat /\ NTasks \in Nat
    BY ErrChBounded, BoundsAssumption DEF Inv, TypeOK, NTasks
  <2> QED
    BY <2>1 DEF ErrChCap
<1> QED
  BY <1>1, Invariance, PTL

\* A task that has sent no error and will send none any more.
Innocent(t) ==
    /\ runDone
    /\ task[t] \in {"running", "failed", "done"}
    /\ runErr # t
    /\ \A i \in 1 .. Len(errCh) : errCh[i] # t

\* Once its context is cancelled, a task stays innocent.
LEMMA StaysInnocent ==
    ASSUME NEW t \in Task, Inv, Innocent(t), [Next]_vars
    PROVE  Innocent(t)'
<1> USE DEF Innocent, vars, registered, tasks, stopping, errors
<1>1. CASE SelectErr
  <2>1. errCh \in Seq(Task) /\ errCh # <<>>
    BY <1>1 DEF SelectErr, Inv, TypeOK
  <2>2. /\ Head(errCh) = errCh[1] /\ 1 \in 1 .. Len(errCh)
        /\ \A i \in 1 .. Len(Tail(errCh)) : Tail(errCh)[i] = errCh[i + 1]
                                           /\ i + 1 \in 1 .. Len(errCh)
    BY <2>1
  <2> QED
    BY <1>1, <2>2 DEF SelectErr
<1>2. ASSUME NEW u \in Task, TaskSendsErr(u) PROVE Innocent(t)'
  <2>1. u # t /\ errCh \in Seq(Task) /\ task \in [Task -> TaskState]
    BY <1>2 DEF TaskSendsErr, Inv, TypeOK
  <2>2. \A i \in 1 .. Len(errCh') : errCh'[i] # t
    BY <1>2, <2>1 DEF TaskSendsErr
  <2> QED
    BY <1>2, <2>1, <2>2 DEF TaskSendsErr
<1>3. ASSUME NEW u \in Task, TaskReturnsNil(u) \/ TaskReturnsErr(u) PROVE Innocent(t)'
  BY <1>3 DEF TaskReturnsNil, TaskReturnsErr, Inv, TypeOK
<1>4. ASSUME NEW u \in Task, TaskChecksCtx(u) \/ TaskCancelsRun(u) PROVE Innocent(t)'
  BY <1>4 DEF TaskChecksCtx, TaskCancelsRun, Inv, TypeOK
<1>5. CASE StartTask
  <2>1. task[started + 1] = "idle" /\ started + 1 # t
    BY <1>5, BoundsAssumption DEF StartTask, Inv, TypeOK, PhaseInv, Task, NTasks
  <2> QED
    BY <1>5, <2>1 DEF StartTask, Inv, TypeOK
<1>6. CASE CallRun
  <2>1. started = 0 /\ t > 0
    BY <1>6, BoundsAssumption DEF CallRun, Inv, PhaseInv, Task
  <2>2. task[t] = "idle"
    BY <2>1 DEF Inv, PhaseInv
  <2> QED
    BY <2>2
<1>7. CASE CancelRunners \/ PropagateCancel
  BY <1>7 DEF CancelRunners, PropagateCancel
<1>8. CASE UNCHANGED <<runDone, task, runErr, errCh>>
  BY <1>8
<1>9. CASE \/ Register \/ CancelCtx \/ DeadlineExpires \/ WaitGroupDone \/ Returned
           \/ \E s \in 1 .. MaxServers : ConnectionsEnd(s)
  BY <1>8, <1>9 DEF Register, AddServer, AddRunner, AddCloser, CancelCtx, DeadlineExpires,
     WaitGroupDone, Returned, ConnectionsEnd
<1>10. CASE MarkReady \/ SelectCtxDone \/ BeginShutdown \/ SkipServer \/ CallShutdown
            \/ ShutdownReturnsNil \/ ShutdownReturnsErr \/ ShutdownTimesOut
  BY <1>8, <1>10 DEF MarkReady, SelectCtxDone, BeginShutdown, SkipServer, CallShutdown,
     ShutdownReturnsNil, ShutdownReturnsErr, ShutdownTimesOut
<1>11. CASE WaitDrained \/ WaitDeadline \/ Return \/ \E err \in BOOLEAN : CloseResource(err)
  BY <1>8, <1>11 DEF WaitDrained, WaitDeadline, Return, CloseResource
<1> QED
  BY <1>1, <1>2, <1>3, <1>4, <1>5, <1>6, <1>7, <1>8, <1>9, <1>10, <1>11
     DEF Next, Main, TaskNext, TaskSteps

\* Run never returns the error of a task that was still at work when its
\* context was cancelled (lines 205-210 and 223-228).
THEOREM CulpritFailedFirstCorrect == Spec => CulpritFailedFirst
<1>1. ASSUME NEW t \in Task
      PROVE  Spec => [](task[t] = "running" /\ runDone => [](runErr # t))
  <2>1. Inv /\ task[t] = "running" /\ runDone => Innocent(t)
    <3> SUFFICES ASSUME Inv, task[t] = "running", runDone PROVE Innocent(t)
      OBVIOUS
    <3>1. t # NoTask
      BY BoundsAssumption DEF Task, NoTask
    <3> QED
      BY <3>1 DEF Inv, ErrInv, Innocent
  <2>2. Inv /\ Innocent(t) /\ [Next]_vars => Innocent(t)'
    BY StaysInnocent
  <2>3. Innocent(t) => runErr # t
    BY DEF Innocent
  <2> QED
    BY <2>1, <2>2, <2>3, Invariance, PTL DEF Spec
<1> QED
  BY <1>1 DEF CulpritFailedFirst

\* Every shutdown starts with a live context (New, lines 80-94, and line 232).
THEOREM GraceIsGrantedCorrect == Spec => GraceIsGranted
<1>1. Inv /\ [Next]_vars => [pc = "unready" /\ pc' = "stop" => deadline' = "armed"]_vars
  <2> SUFFICES ASSUME Inv, Next, pc = "unready", pc' = "stop"
               PROVE  deadline' = "armed"
    OBVIOUS
  <2>1. BeginShutdown
    BY DEF Next, Register, AddServer, AddRunner, AddCloser, CallRun, CancelCtx,
       PropagateCancel, DeadlineExpires, Main, StartTask, MarkReady, SelectCtxDone,
       SelectErr, SkipServer, CallShutdown, ShutdownReturnsNil, ShutdownReturnsErr,
       ShutdownTimesOut, CancelRunners, WaitDrained, WaitDeadline, CloseResource,
       Return, WaitGroupDone, ConnectionsEnd, TaskNext, TaskReturnsNil,
       TaskReturnsErr, TaskSteps, TaskChecksCtx, TaskSendsErr, TaskCancelsRun,
       Returned, vars
  <2> QED
    BY <2>1 DEF BeginShutdown, Inv, PhaseInv
<1> QED
  BY <1>1, Invariance, PTL DEF Spec, GraceIsGranted

=============================================================================
