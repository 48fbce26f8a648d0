---------------------------- MODULE AppLifecycle ----------------------------
(***************************************************************************)
(* runtime.App: registration of servers, runners and closers, and one call *)
(* of App.Run (src/runtime/app.go).                                        *)
(*                                                                         *)
(* The goroutine that calls Run is the program counter pc.  Every server   *)
(* and every runner has a goroutine, "task" t; tasks are numbered in the   *)
(* order Run starts them, the servers first.  Run's context ctx, the       *)
(* derived runCtx, the buffered channel errCh, the shutdown deadline and   *)
(* the goroutine that waits on the WaitGroup are shared state.             *)
(*                                                                         *)
(* What a task, a server's connections or a closer do is not in this code: *)
(* they return, fail or drain whenever they like, or never.                *)
(***************************************************************************)
EXTENDS Integers, Sequences, FiniteSets

CONSTANTS MaxServers, MaxRunners, MaxClosers,  \* bounds on registrations
          DefaultShutdownTimeout,              \* the package constant
          CfgTimeouts,                         \* values of Config.ShutdownTimeout
          EnvTimeouts                          \* durations SHUTDOWN_TIMEOUT parses to

ASSUME BoundsAssumption ==
    MaxServers \in Nat /\ MaxRunners \in Nat /\ MaxClosers \in Nat

ASSUME TimeoutAssumption ==
    /\ DefaultShutdownTimeout \in Nat \ {0}
    /\ CfgTimeouts \subseteq Int /\ EnvTimeouts \subseteq Int
    /\ CfgTimeouts # {}

VARIABLES
    pc,           \* where the goroutine calling Run is
    servers,      \* a.servers: the kind of each server, in registration order
    runners,      \* len(a.runners)
    closers,      \* len(a.closers)
    timeout,      \* a.cfg.ShutdownTimeout after New
    ready,        \* a.ready
    started,      \* how many tasks start() has launched
    task,         \* state of each task's goroutine
    ctxDone,      \* ctx is cancelled
    runDone,      \* runCtx is cancelled
    errCh,        \* the buffered error channel: the tasks whose error it holds
    idx,          \* i of the shutdown loop, then of the close loop
    srv,          \* what each server's listener and connections do
    deadline,     \* shutdownCtx
    drained,      \* the channel done is closed
    closed,       \* the closers called, in the order of the calls
    runErr,       \* the task whose error the select received, NoTask if none
    shutdownErr,  \* the first error of the shutdown
    result        \* what Run returned

registered == <<servers, runners, closers, timeout>>
tasks == <<started, task, errCh>>
stopping == <<idx, srv, deadline, drained, closed>>
errors == <<runErr, shutdownErr, result>>
vars == <<pc, ready, ctxDone, runDone, registered, tasks, stopping, errors>>

-----------------------------------------------------------------------------
(* Types *)

\* "bare" is a server Run has nothing to stop on: AddServer with a nil
\* shutdown, or AddGRPC with a nil server.
ServerKind == {"http", "grpc", "custom", "bare"}
Task == 1 .. (MaxServers + MaxRunners)
NoTask == 0
MainState == {"config", "start", "select", "unready", "stop", "stopping",
              "wait", "close", "done"}
TaskState == {"idle", "running", "failed", "reporting", "cancelling", "done"}
ShutdownError == {"nil", "server", "deadline", "close"}

TypeOK ==
    /\ pc \in MainState
    /\ servers \in Seq(ServerKind) /\ Len(servers) <= MaxServers
    /\ runners \in 0 .. MaxRunners
    /\ closers \in 0 .. MaxClosers
    /\ timeout \in Int
    /\ ready \in BOOLEAN
    /\ started \in 0 .. (Len(servers) + runners)
    /\ task \in [Task -> TaskState]
    /\ ctxDone \in BOOLEAN /\ runDone \in BOOLEAN
    /\ errCh \in Seq(Task)
    /\ idx \in Nat
    /\ srv \in [1 .. MaxServers -> {"up", "draining", "stopped"}]
    /\ deadline \in {"unset", "armed", "expired"}
    /\ drained \in BOOLEAN
    /\ closed \in Seq(1 .. MaxClosers)
    /\ runErr \in Task \cup {NoTask}
    /\ shutdownErr \in ShutdownError
    /\ result \in ShutdownError \cup {"none", "run"}

-----------------------------------------------------------------------------
(* Configuration *)

\* Mutant: the check d > 0 is forgotten.
timeoutFromEnvUnchecked(durations) ==
    durations \cup {DefaultShutdownTimeout}

\* timeoutFromEnv; an unset or unparsable variable gives no duration
timeoutFromEnv(durations) ==
    {d \in durations : d > 0} \cup {DefaultShutdownTimeout}

Timeouts == {c \in CfgTimeouts : c > 0}
            \cup (IF \E c \in CfgTimeouts : c <= 0
                  THEN timeoutFromEnv(EnvTimeouts) ELSE {})

NTasks == Len(servers) + runners
\* Mutant: room for a single error.
ErrChCapOne == 1

\* make(chan error, len(a.servers)+len(a.runners)+1)
ErrChCap == NTasks + 1
AllTasksDone == \A t \in 1 .. started : task[t] = "done"
FirstError(err) == IF shutdownErr = "nil" THEN err ELSE shutdownErr

\* New
Init ==
    /\ pc = "config"
    /\ servers = <<>> /\ runners = 0 /\ closers = 0
    /\ timeout \in Timeouts
    /\ ready = FALSE
    /\ started = 0
    /\ task = [t \in Task |-> "idle"]
    /\ ctxDone = FALSE /\ runDone = FALSE
    /\ errCh = <<>>
    /\ idx = 0
    /\ srv = [s \in 1 .. MaxServers |-> "up"]
    /\ deadline = "unset"
    /\ drained = FALSE
    /\ closed = <<>>
    /\ runErr = NoTask /\ shutdownErr = "nil" /\ result = "none"

\* AddHTTP, AddGRPC and AddServer all append to a.servers
AddServer(kind) ==
    /\ pc = "config" /\ Len(servers) < MaxServers
    /\ servers' = Append(servers, kind)
    /\ UNCHANGED <<pc, runners, closers, timeout, ready, ctxDone, runDone,
                   tasks, stopping, errors>>

\* AddRunner, AddWorker and AddConsumer; a nil runner is ignored
AddRunner ==
    /\ pc = "config" /\ runners < MaxRunners
    /\ runners' = runners + 1
    /\ UNCHANGED <<pc, servers, closers, timeout, ready, ctxDone, runDone,
                   tasks, stopping, errors>>

\* AddCloser and AddCloseFunc; a nil closer is ignored
AddCloser ==
    /\ pc = "config" /\ closers < MaxClosers
    /\ closers' = closers + 1
    /\ UNCHANGED <<pc, servers, runners, timeout, ready, ctxDone, runDone,
                   tasks, stopping, errors>>

-----------------------------------------------------------------------------
(* The caller of Run, and the timer *)

\* The caller's context is cancelled, before or during Run
CancelCtx ==
    /\ ~ctxDone
    /\ ctxDone' = TRUE
    /\ UNCHANGED <<pc, ready, runDone, registered, tasks, stopping, errors>>

\* A cancelled parent context cancels its children after closing its own
\* Done channel: for a moment ctx is done and runCtx.Err() is still nil.
PropagateCancel ==
    /\ pc # "config" /\ ctxDone /\ ~runDone
    /\ runDone' = TRUE
    /\ UNCHANGED <<pc, ready, ctxDone, registered, tasks, stopping, errors>>

DeadlineExpires ==
    /\ deadline = "armed" /\ pc # "done"
    /\ deadline' = "expired"
    /\ UNCHANGED <<pc, ready, ctxDone, runDone, idx, srv, drained, closed,
                   registered, tasks, errors>>

-----------------------------------------------------------------------------
(* Run: starting and running *)

\* context.WithCancel(ctx): a child of a cancelled context is born cancelled.
\* A Run with a nil context (lines 193-195) has no effect and is left out.
CallRun ==
    /\ pc = "config"
    /\ pc' = "start"
    /\ runDone' = ctxDone
    /\ UNCHANGED <<ready, ctxDone, registered, tasks, stopping, errors>>

StartTask ==
    /\ pc = "start" /\ started < NTasks
    /\ started' = started + 1
    /\ task' = [task EXCEPT ![started + 1] = "running"]
    /\ UNCHANGED <<pc, ready, ctxDone, runDone, errCh, registered, stopping,
                   errors>>

MarkReady ==
    /\ pc = "start" /\ started = NTasks
    /\ ready' = TRUE
    /\ pc' = "select"
    /\ UNCHANGED <<ctxDone, runDone, registered, tasks, stopping, errors>>

\* the two cases of the select; either may be taken when both are ready
SelectCtxDone ==
    /\ pc = "select" /\ ctxDone
    /\ pc' = "unready"
    /\ UNCHANGED <<ready, ctxDone, runDone, registered, tasks, stopping,
                   errors>>

SelectErr ==
    /\ pc = "select" /\ errCh # <<>>
    /\ runErr' = Head(errCh) /\ errCh' = Tail(errCh)
    /\ pc' = "unready"
    /\ UNCHANGED <<ready, started, task, ctxDone, runDone, shutdownErr,
                   result, registered, stopping>>

-----------------------------------------------------------------------------
(* Run: shutdown *)

\* Mutant: ready is never cleared.
BeginShutdownStillReady ==
    /\ pc = "unready"
    /\ deadline' = IF timeout > 0 THEN "armed" ELSE "expired"
    /\ idx' = Len(servers)
    /\ pc' = "stop"
    /\ UNCHANGED <<ready, ctxDone, runDone, srv, drained, closed, registered,
                   tasks, errors>>

\* a.ready.Store(false); context.WithTimeout with a timeout that is not
\* positive returns a context that has already expired
BeginShutdown ==
    /\ pc = "unready"
    /\ ready' = FALSE
    /\ deadline' = IF timeout > 0 THEN "armed" ELSE "expired"
    /\ idx' = Len(servers)
    /\ pc' = "stop"
    /\ UNCHANGED <<ctxDone, runDone, srv, drained, closed, registered, tasks,
                   errors>>

SkipServer ==
    /\ pc = "stop" /\ idx > 0 /\ servers[idx] = "bare"
    /\ idx' = idx - 1
    /\ UNCHANGED <<pc, ready, ctxDone, runDone, srv, deadline, drained,
                   closed, registered, tasks, errors>>

\* s.shutdown(shutdownCtx) is entered: the listener is closed and, for gRPC,
\* the GracefulStop goroutine runs
CallShutdown ==
    /\ pc = "stop" /\ idx > 0 /\ servers[idx] # "bare"
    /\ srv' = [srv EXCEPT ![idx] = "draining"]
    /\ pc' = "stopping"
    /\ UNCHANGED <<ready, ctxDone, runDone, idx, deadline, drained, closed,
                   registered, tasks, errors>>

\* The last open connection of a draining server ends
ConnectionsEnd(s) ==
    /\ srv[s] = "draining"
    /\ srv' = [srv EXCEPT ![s] = "stopped"]
    /\ UNCHANGED <<pc, ready, ctxDone, runDone, idx, deadline, drained,
                   closed, registered, tasks, errors>>

ShutdownReturnsNil ==
    /\ pc = "stopping" /\ srv[idx] = "stopped"
    /\ idx' = idx - 1
    /\ pc' = "stop"
    /\ UNCHANGED <<ready, ctxDone, runDone, srv, deadline, drained, closed,
                   registered, tasks, errors>>

\* An error other than the deadline: http.Server.Shutdown reports a listener
\* that would not close once its connections are gone, a custom shutdown may
\* give up at any time, gracefulStopGRPC has no such error.
ShutdownReturnsErr ==
    /\ pc = "stopping"
    /\ \/ servers[idx] = "http" /\ srv[idx] = "stopped"
       \/ servers[idx] = "custom"
    /\ shutdownErr' = FirstError("server")
    /\ idx' = idx - 1
    /\ pc' = "stop"
    /\ UNCHANGED <<ready, ctxDone, runDone, srv, deadline, drained, closed,
                   runErr, result, registered, tasks>>

\* shutdownCtx expires inside s.shutdown.  gRPC falls back to Stop, which
\* closes every connection; an HTTP server keeps draining on its own.
ShutdownTimesOut ==
    /\ pc = "stopping" /\ deadline = "expired"
    /\ srv' = IF servers[idx] = "grpc" THEN [srv EXCEPT ![idx] = "stopped"] ELSE srv
    /\ shutdownErr' = FirstError("server")
    /\ idx' = idx - 1
    /\ pc' = "stop"
    /\ UNCHANGED <<ready, ctxDone, runDone, deadline, drained, closed, runErr,
                   result, registered, tasks>>

CancelRunners ==
    /\ pc = "stop" /\ idx = 0
    /\ runDone' = TRUE
    /\ pc' = "wait"
    /\ UNCHANGED <<ready, ctxDone, registered, tasks, stopping, errors>>

\* the goroutine of lines 249-252; it outlives a Run that timed out
WaitGroupDone ==
    /\ pc \in {"wait", "close", "done"} /\ ~drained
    /\ AllTasksDone
    /\ drained' = TRUE
    /\ UNCHANGED <<pc, ready, ctxDone, runDone, idx, srv, deadline, closed,
                   registered, tasks, errors>>

\* Mutant: the done channel is not waited for.
WaitDrainedAtOnce ==
    /\ pc = "wait"
    /\ idx' = closers
    /\ pc' = "close"
    /\ UNCHANGED <<ready, ctxDone, runDone, srv, deadline, drained, closed,
                   registered, tasks, errors>>

WaitDrained ==
    /\ pc = "wait" /\ drained
    /\ idx' = closers
    /\ pc' = "close"
    /\ UNCHANGED <<ready, ctxDone, runDone, srv, deadline, drained, closed,
                   registered, tasks, errors>>

\* Mutant: the deadline passes without becoming Run's error.
WaitDeadlineSilent ==
    /\ pc = "wait" /\ deadline = "expired"
    /\ idx' = closers
    /\ pc' = "close"
    /\ UNCHANGED <<ready, ctxDone, runDone, srv, deadline, drained, closed,
                   registered, tasks, errors>>

\* Mutant: Run waits for the tasks even when the deadline has passed.
WaitDeadlineIgnored ==
    /\ pc = "wait" /\ deadline = "expired" /\ drained
    /\ shutdownErr' = FirstError("deadline")
    /\ idx' = closers
    /\ pc' = "close"
    /\ UNCHANGED <<ready, ctxDone, runDone, srv, deadline, drained, closed,
                   runErr, result, registered, tasks>>

WaitDeadline ==
    /\ pc = "wait" /\ deadline = "expired"
    /\ shutdownErr' = FirstError("deadline")
    /\ idx' = closers
    /\ pc' = "close"
    /\ UNCHANGED <<ready, ctxDone, runDone, srv, deadline, drained, closed,
                   runErr, result, registered, tasks>>

\* Mutant: the first closer that fails ends the loop.
CloseResourceBreak(err) ==
    /\ pc = "close" /\ idx > 0
    /\ closed' = Append(closed, idx)
    /\ shutdownErr' = IF err THEN FirstError("close") ELSE shutdownErr
    /\ idx' = IF err THEN 0 ELSE idx - 1
    /\ UNCHANGED <<pc, ready, ctxDone, runDone, srv, deadline, drained, runErr,
                   result, registered, tasks>>

\* Mutant: the loop runs down to -1.
CloseResourceTooFar(err) ==
    /\ pc = "close" /\ idx >= 0
    /\ closed' = Append(closed, idx)
    /\ shutdownErr' = IF err THEN FirstError("close") ELSE shutdownErr
    /\ idx' = idx - 1
    /\ UNCHANGED <<pc, ready, ctxDone, runDone, srv, deadline, drained, runErr,
                   result, registered, tasks>>

CloseResource(err) ==
    /\ pc = "close" /\ idx > 0
    /\ closed' = Append(closed, idx)
    /\ shutdownErr' = IF err THEN FirstError("close") ELSE shutdownErr
    /\ idx' = idx - 1
    /\ UNCHANGED <<pc, ready, ctxDone, runDone, srv, deadline, drained,
                   runErr, result, registered, tasks>>

\* Mutant: an error of the shutdown hides the error that caused it.
ReturnShutdownErr ==
    /\ pc = "close" /\ idx = 0
    /\ result' = IF shutdownErr # "nil" \/ runErr = NoTask THEN shutdownErr ELSE "run"
    /\ pc' = "done"
    /\ UNCHANGED <<ready, ctxDone, runDone, runErr, shutdownErr, registered,
                   tasks, stopping>>

Return ==
    /\ pc = "close" /\ idx = 0
    /\ result' = IF runErr # NoTask THEN "run" ELSE shutdownErr
    /\ pc' = "done"
    /\ UNCHANGED <<ready, ctxDone, runDone, runErr, shutdownErr, registered,
                   tasks, stopping>>

-----------------------------------------------------------------------------
(* A task's goroutine: the body of start() *)

\* fn(runCtx) returns nil or an error at any time.  AddHTTP turns the
\* ErrServerClosed of a Start whose server was shut down into nil; any other
\* error remains one, also of a Start that fails to listen just then.
TaskReturnsNil(t) ==
    /\ task[t] = "running"
    /\ task' = [task EXCEPT ![t] = "done"]
    /\ UNCHANGED <<pc, ready, started, ctxDone, runDone, errCh, registered,
                   stopping, errors>>

TaskReturnsErr(t) ==
    /\ task[t] = "running"
    /\ task' = [task EXCEPT ![t] = "failed"]
    /\ UNCHANGED <<pc, ready, started, ctxDone, runDone, errCh, registered,
                   stopping, errors>>

\* Mutant: every error is reported, that of a cancelled runner too.
TaskReportsAny(t) ==
    /\ task[t] = "failed"
    /\ task' = [task EXCEPT ![t] = "reporting"]
    /\ UNCHANGED <<pc, ready, started, ctxDone, runDone, errCh, registered,
                   stopping, errors>>

\* err != nil && runCtx.Err() == nil
TaskChecksCtx(t) ==
    /\ task[t] = "failed"
    /\ task' = [task EXCEPT ![t] = IF runDone THEN "done" ELSE "reporting"]
    /\ UNCHANGED <<pc, ready, started, ctxDone, runDone, errCh, registered,
                   stopping, errors>>

\* errCh <- err blocks while the buffer is full
TaskSendsErr(t) ==
    /\ task[t] = "reporting" /\ Len(errCh) < ErrChCap
    /\ errCh' = Append(errCh, t)
    /\ task' = [task EXCEPT ![t] = "cancelling"]
    /\ UNCHANGED <<pc, ready, started, ctxDone, runDone, registered, stopping,
                   errors>>

TaskCancelsRun(t) ==
    /\ task[t] = "cancelling"
    /\ runDone' = TRUE
    /\ task' = [task EXCEPT ![t] = "done"]
    /\ UNCHANGED <<pc, ready, started, ctxDone, errCh, registered, stopping,
                   errors>>

-----------------------------------------------------------------------------
(* The specification *)

Register ==
    \/ \E kind \in ServerKind : AddServer(kind)
    \/ AddRunner
    \/ AddCloser

Main ==
    \/ StartTask
    \/ MarkReady
    \/ SelectCtxDone
    \/ SelectErr
    \/ BeginShutdown
    \/ SkipServer
    \/ CallShutdown
    \/ ShutdownReturnsNil
    \/ ShutdownReturnsErr
    \/ ShutdownTimesOut
    \/ CancelRunners
    \/ WaitDrained
    \/ WaitDeadline
    \/ \E err \in BOOLEAN : CloseResource(err)
    \/ Return

TaskSteps(t) == TaskChecksCtx(t) \/ TaskSendsErr(t) \/ TaskCancelsRun(t)

TaskNext(t) == TaskReturnsNil(t) \/ TaskReturnsErr(t) \/ TaskSteps(t)

\* Run has returned; only leftover goroutines still move
Returned == pc = "done" /\ UNCHANGED vars

Next ==
    \/ Register
    \/ CallRun
    \/ CancelCtx
    \/ PropagateCancel
    \/ DeadlineExpires
    \/ Main
    \/ WaitGroupDone
    \/ \E s \in 1 .. MaxServers : ConnectionsEnd(s)
    \/ \E t \in Task : TaskNext(t)
    \/ Returned

\* Go schedules every runnable goroutine, timers fire and contexts propagate.
\* Nothing is assumed of fn(runCtx) or of the connections of a server.
Fairness ==
    /\ WF_vars(Main)
    /\ WF_vars(PropagateCancel)
    /\ WF_vars(DeadlineExpires)
    /\ WF_vars(WaitGroupDone)
    /\ \A t \in Task : WF_vars(TaskSteps(t))

Spec == Init /\ [][Next]_vars
FairSpec == Spec /\ Fairness

-----------------------------------------------------------------------------
(* Properties *)

\* A resource is closed only when every task has finished, or when the
\* shutdown deadline has passed (lines 246-266): no runner uses a closed
\* database or broker before its grace period is over.
CloseAfterDrain ==
    closed # <<>> => AllTasksDone \/ deadline = "expired"

\* Run returns nil only for a clean stop: every task finished, every server
\* that can be shut down has no connection left, every closer was called.
CleanExit ==
    pc = "done" /\ result = "nil" =>
        /\ started = NTasks /\ AllTasksDone
        /\ \A s \in 1 .. Len(servers) : servers[s] # "bare" => srv[s] = "stopped"
        /\ Len(closed) = closers

\* The closers called so far are the last ones registered, the latest first;
\* an error of one never keeps the next from being called (lines 261-266).
ReverseClose ==
    /\ \A k \in 1 .. Len(closed) : closed[k] = closers + 1 - k
    /\ pc = "done" => Len(closed) = closers

\* A task that reports its error never blocks on errCh, even when Run no
\* longer reads from it: the buffer of line 200 has room for every task.
ReportNeverBlocks ==
    \A t \in Task : task[t] = "reporting" => Len(errCh) < ErrChCap

\* Unless its context was cancelled, Run ends only because a task failed, and
\* it is that task's error it returns, whatever went wrong in the shutdown.
FailureIsReturned ==
    pc = "done" /\ ~ctxDone => /\ result = "run"
                               /\ task[runErr] \in {"cancelling", "done"}

\* A task that is still at work when its context is cancelled, by another
\* task's failure, by the caller or by the shutdown, is never the one whose
\* error Run returns, whatever it returns then: the error of a runner that was
\* only told to stop does not hide the failure that stopped it (lines 205-210,
\* 223-228).
CulpritFailedFirst ==
    \A t \in Task : [](task[t] = "running" /\ runDone => [](runErr # t))

\* A shutdown never starts with an expired context: New replaces a timeout
\* that is not positive, from the configuration or the environment.
GraceIsGranted ==
    [][pc = "unready" /\ pc' = "stop" => deadline' = "armed"]_vars

\* A cancelled context or a failed task ends Run, whatever the runners, the
\* servers' connections and the other tasks do (deadline of lines 232-259).
RunReturns ==
    pc # "config" /\ (ctxDone \/ \E t \in Task : task[t] = "failed")
        ~> pc = "done"

\* Once the context is cancelled the probe turns to "no" and stays there,
\* even when the cancellation came before line 221 set ready.
StaysUnready == ctxDone ~> [](~ready)

\* The package comment, lines 6-11: in a shutdown the servers are stopped (2)
\* before the contexts of the runners are cancelled (3).
DocumentedOrder ==
    /\ deadline # "unset"
    /\ runDone
    /\ \E t \in Len(servers) + 1 .. started : task[t] = "running"
    => \A s \in 1 .. Len(servers) : servers[s] # "bare" => srv[s] # "up"

=============================================================================
