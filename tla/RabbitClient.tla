---------------------------- MODULE RabbitClient ----------------------------
(***************************************************************************)
(* Connection lifecycle of the reconnecting AMQP client                    *)
(* (src/messaging/rabbitmq/client.go): New, the reconnect loop and Close.  *)
(*                                                                         *)
(* Two goroutines run against each other.  The one in loop first is New's  *)
(* caller, which connects once, and then reconnectLoop; both use           *)
(* connectAndSetup.  closer is the one inside Close's sync.Once.  They     *)
(* share conn under the mutex mu, and the flags closing and ctx, which are *)
(* read without it.  The broker may drop any connection at any time, or    *)
(* leave a request unanswered for ever: only the TCP connect of a dial has *)
(* a timeout.                                                              *)
(***************************************************************************)
EXTENDS FiniteSets

CONSTANTS Conn,    \* the connections that can be dialed, each at most once
          NoConn   \* a nil *amqp.Connection

ASSUME NoConnAssumption == NoConn \notin Conn

VARIABLES
    connState,  \* what amqp knows of each connection
    conn,       \* c.conn
    closing,    \* c.closing
    ctxDone,    \* c.ctx is cancelled, by its parent or by c.cancel
    mu,         \* who holds c.mu for writing between two steps
    phase,      \* whether New still runs
    loop,       \* where connectAndSetup and reconnectLoop are
    fresh,      \* conn of connectAndSetup
    old,        \* old of connectAndSetup
    watched,    \* the connection closeCh was registered on
    closer,     \* where Close is
    taken       \* conn of Close

cvars == <<connState, conn, closing, ctxDone, mu, phase, loop, fresh, old, watched,
           closer, taken>>

-----------------------------------------------------------------------------
(* Types *)

LoopState == {"check", "notify", "delayNil", "watch", "woken", "try", "dial",
              "dialed", "setup", "recheck", "lock", "swap", "closeOld", "drop",
              "failed", "delay", "done"}
CloserState == {"idle", "closing", "cancel", "take", "shut", "wait", "leftover",
                "done"}
ConnRef == Conn \cup {NoConn}

CTypeOK ==
    /\ connState \in [Conn -> {"unused", "open", "closed"}]
    /\ conn \in ConnRef /\ fresh \in ConnRef /\ old \in ConnRef
    /\ watched \in ConnRef /\ taken \in ConnRef
    /\ closing \in BOOLEAN /\ ctxDone \in BOOLEAN
    /\ mu \in {"free", "dialer"}
    /\ phase \in {"new", "running", "failed"}
    /\ loop \in LoopState
    /\ closer \in CloserState

isClosing == closing \/ ctxDone
IsOpen(c) == c # NoConn /\ connState[c] = "open"
\* conn.Close(); on a connection that is closed already it changes nothing
Closed(c) == [k \in Conn |-> IF k = c THEN "closed" ELSE connState[k]]

\* a New that got past the check of its URL
CInit ==
    /\ connState = [c \in Conn |-> "unused"]
    /\ conn = NoConn /\ fresh = NoConn /\ old = NoConn
    /\ watched = NoConn /\ taken = NoConn
    /\ closing = FALSE /\ ctxDone = FALSE
    /\ mu = "free"
    /\ phase = "new"
    /\ loop = "try"
    /\ closer = "idle"

-----------------------------------------------------------------------------
(* connectAndSetup *)

\* the checks before the dial: line 91, and for a reconnect lines 179 and 196
TryConnect ==
    /\ loop = "try"
    /\ loop' = IF ~isClosing THEN "dial" ELSE IF phase = "new" THEN "failed" ELSE "check"
    /\ UNCHANGED <<connState, conn, closing, ctxDone, mu, phase, fresh, old,
                   watched, closer, taken>>

\* The connections differ in nothing before they are dialed: it does not
\* matter which one is next.
NextUnused == CHOOSE c \in Conn : connState[c] = "unused"

DialOk(c) ==
    /\ loop = "dial" /\ connState[c] = "unused" /\ c = NextUnused
    /\ connState' = [connState EXCEPT ![c] = "open"]
    /\ fresh' = c
    /\ loop' = "dialed"
    /\ UNCHANGED <<conn, closing, ctxDone, mu, phase, old, watched, closer, taken>>

DialErr ==
    /\ loop = "dial"
    /\ loop' = "failed"
    /\ UNCHANGED <<connState, conn, closing, ctxDone, mu, phase, fresh, old,
                   watched, closer, taken>>

MoveOn(from, to) ==
    /\ loop = from
    /\ loop' = to
    /\ UNCHANGED <<connState, conn, closing, ctxDone, mu, phase, fresh, old,
                   watched, closer, taken>>

CheckDialed == MoveOn("dialed", IF isClosing THEN "drop" ELSE "setup")

\* c.setup runs on a channel of the new connection, or is nil
SetupOk == MoveOn("setup", "recheck")
\* Mutant: the connection whose topology failed is not closed.
SetupErrLeaks ==
    /\ loop = "setup"
    /\ fresh' = NoConn
    /\ loop' = "failed"
    /\ UNCHANGED <<connState, conn, closing, ctxDone, mu, phase, old, watched,
                   closer, taken>>

SetupErr == MoveOn("setup", "drop")

Recheck == MoveOn("recheck", IF isClosing THEN "drop" ELSE "lock")

\* the lock is taken for the swap
Locked ==
    /\ mu' = "dialer"
    /\ loop' = "swap"
    /\ UNCHANGED <<connState, conn, closing, ctxDone, phase, fresh, old, watched,
                   closer, taken>>

\* Mutant: closing is not read again under the lock.
LockUnchecked == loop = "lock" /\ mu = "free" /\ Locked

\* Mutant: the early return leaves the mutex locked.
LockNotReleased ==
    /\ loop = "lock" /\ mu = "free"
    /\ mu' = "dialer"
    /\ loop' = IF closing THEN "drop" ELSE "swap"
    /\ UNCHANGED <<connState, conn, closing, ctxDone, phase, fresh, old, watched,
                   closer, taken>>

\* c.mu.Lock() and the check under the lock; closing is set without the lock,
\* so Close may begin between this check and the swap.
LockAndCheck ==
    /\ mu = "free"
    /\ \/ closing /\ MoveOn("lock", "drop")
       \/ ~closing /\ loop = "lock" /\ Locked

\* conn.Close() and the error return of connectAndSetup, after each check of
\* isClosing and a failed topology
DropFresh ==
    /\ loop = "drop"
    /\ connState' = Closed(fresh)
    /\ fresh' = NoConn
    /\ loop' = "failed"
    /\ UNCHANGED <<conn, closing, ctxDone, mu, phase, old, watched, closer, taken>>

Swap ==
    /\ loop = "swap"
    /\ old' = conn
    /\ conn' = fresh
    /\ fresh' = NoConn
    /\ mu' = "free"
    /\ loop' = "closeOld"
    /\ UNCHANGED <<connState, closing, ctxDone, phase, watched, closer, taken>>

\* old.Close(), and connectAndSetup returns nil: New starts the loop,
\* tryReconnect goes back to it
CloseOld ==
    /\ loop = "closeOld"
    /\ connState' = IF IsOpen(old) THEN Closed(old) ELSE connState
    /\ old' = NoConn
    /\ phase' = "running"
    /\ loop' = "check"
    /\ UNCHANGED <<conn, closing, ctxDone, mu, fresh, watched, closer, taken>>

\* Mutant: New returns its error without cancelling the context.
ConnectFailedNoCancel ==
    /\ loop = "failed"
    /\ IF phase = "new"
       THEN phase' = "failed" /\ loop' = "done"
       ELSE loop' = (IF isClosing THEN "check" ELSE "delay") /\ UNCHANGED phase
    /\ UNCHANGED <<connState, conn, closing, ctxDone, mu, fresh, old, watched,
                   closer, taken>>

\* an error of connectAndSetup: New cancels its context and returns no client,
\* tryReconnect waits unless the client is closing
ConnectFailed ==
    /\ loop = "failed"
    /\ IF phase = "new"
       THEN phase' = "failed" /\ ctxDone' = TRUE /\ loop' = "done"
       ELSE loop' = (IF isClosing THEN "check" ELSE "delay") /\ UNCHANGED <<phase, ctxDone>>
    /\ UNCHANGED <<connState, conn, closing, mu, fresh, old, watched, closer, taken>>

-----------------------------------------------------------------------------
(* reconnectLoop *)

LoopCheck ==
    /\ loop = "check"
    /\ loop' = IF isClosing THEN "done" ELSE "notify"
    /\ UNCHANGED <<connState, conn, closing, ctxDone, mu, phase, fresh, old,
                   watched, closer, taken>>

\* closeNotifications reads c.conn under the read lock
Notify ==
    /\ loop = "notify" /\ mu = "free"
    /\ watched' = conn
    /\ loop' = IF conn = NoConn THEN "delayNil" ELSE "watch"
    /\ UNCHANGED <<connState, conn, closing, ctxDone, mu, phase, fresh, old,
                   closer, taken>>

\* Mutant: only Close ends the wait, not the parent context.
WatchClosingOnly ==
    /\ ctxDone /\ closing
    /\ MoveOn("watch", "done")

\* the select of lines 152-162; NotifyClose on a connection that is closed
\* already delivers at once
WatchCtxDone ==
    /\ ctxDone
    /\ MoveOn("watch", "done")
WatchClosed ==
    /\ loop = "watch" /\ ~IsOpen(watched)
    /\ MoveOn("watch", "woken")
\* Mutant: the loop ends with the connection it watched.
WokenStops == MoveOn("woken", "done")

Woken == MoveOn("woken", IF isClosing THEN "done" ELSE "try")

\* waitReconnect: Wait returns at once when ctx is done, after the delay
\* otherwise; tryReconnect's failure leads back to the loop, the loop's own
\* failure ends it.
Delay ==
    \/ ctxDone /\ MoveOn("delay", "check")
    \/ MoveOn("delay", IF closing THEN "check" ELSE "try")
DelayNil ==
    \/ ctxDone /\ MoveOn("delayNil", "done")
    \/ MoveOn("delayNil", IF closing THEN "done" ELSE "try")

-----------------------------------------------------------------------------
(* Close *)

\* Only a client New has returned can be closed
CloseCalled ==
    /\ phase = "running" /\ closer = "idle"
    /\ closer' = "closing"
    /\ UNCHANGED <<connState, conn, closing, ctxDone, mu, phase, loop, fresh, old,
                   watched, taken>>

SetClosing ==
    /\ closer = "closing"
    /\ closing' = TRUE
    /\ closer' = "cancel"
    /\ UNCHANGED <<connState, conn, ctxDone, mu, phase, loop, fresh, old, watched,
                   taken>>

CloseCancels ==
    /\ closer = "cancel"
    /\ ctxDone' = TRUE
    /\ closer' = "take"
    /\ UNCHANGED <<connState, conn, closing, mu, phase, loop, fresh, old, watched,
                   taken>>

TakeConn ==
    /\ closer = "take" /\ mu = "free"
    /\ taken' = conn
    /\ conn' = NoConn
    /\ closer' = "shut"
    /\ UNCHANGED <<connState, closing, ctxDone, mu, phase, loop, fresh, old, watched>>

\* Mutant: Close forgets to close the connection it took.
ShutTakenForgets ==
    /\ closer = "shut"
    /\ taken' = NoConn
    /\ closer' = "wait"
    /\ UNCHANGED <<connState, conn, closing, ctxDone, mu, phase, loop, fresh, old,
                   watched>>

ShutTaken ==
    /\ closer = "shut"
    /\ connState' = Closed(taken)
    /\ taken' = NoConn
    /\ closer' = "wait"
    /\ UNCHANGED <<conn, closing, ctxDone, mu, phase, loop, fresh, old, watched>>

\* Mutant: Close does not wait for the loop.
WaitLoopSkipped ==
    /\ closer = "wait"
    /\ closer' = "leftover"
    /\ UNCHANGED <<connState, conn, closing, ctxDone, mu, phase, loop, fresh, old,
                   watched, taken>>

\* c.wg.Wait()
WaitLoop ==
    /\ closer = "wait" /\ loop = "done"
    /\ closer' = "leftover"
    /\ UNCHANGED <<connState, conn, closing, ctxDone, mu, phase, loop, fresh, old,
                   watched, taken>>

TakeLeftover ==
    /\ closer = "leftover" /\ mu = "free"
    /\ connState' = Closed(conn)
    /\ conn' = NoConn
    /\ closer' = "done"
    /\ UNCHANGED <<closing, ctxDone, mu, phase, loop, fresh, old, watched, taken>>

-----------------------------------------------------------------------------
(* Environment and specification *)

\* the broker or the network ends a connection
BrokerDrops(c) ==
    /\ connState[c] = "open"
    /\ connState' = [connState EXCEPT ![c] = "closed"]
    /\ UNCHANGED <<conn, closing, ctxDone, mu, phase, loop, fresh, old, watched,
                   closer, taken>>

\* the context given to New is cancelled
ParentCancel ==
    /\ ~ctxDone
    /\ ctxDone' = TRUE
    /\ UNCHANGED <<connState, conn, closing, mu, phase, loop, fresh, old, watched,
                   closer, taken>>

Dialer ==
    \/ TryConnect
    \/ \E c \in Conn : DialOk(c)
    \/ DialErr
    \/ CheckDialed
    \/ SetupOk
    \/ SetupErr
    \/ Recheck
    \/ LockAndCheck
    \/ DropFresh
    \/ Swap
    \/ CloseOld
    \/ ConnectFailed
    \/ LoopCheck
    \/ Notify
    \/ WatchCtxDone
    \/ WatchClosed
    \/ Woken
    \/ Delay
    \/ DelayNil

Closer ==
    \/ SetClosing
    \/ CloseCancels
    \/ TakeConn
    \/ ShutTaken
    \/ WaitLoop
    \/ TakeLeftover

\* New failed or Close is finished: nothing of the client runs any more
Stopped ==
    /\ phase = "failed" \/ loop = "done"
    /\ UNCHANGED cvars

CNext ==
    \/ Dialer
    \/ CloseCalled
    \/ Closer
    \/ \E c \in Conn : BrokerDrops(c)
    \/ ParentCancel
    \/ Stopped

CSpec == CInit /\ [][CNext]_cvars

\* Where a goroutine waits for the broker.  The AMQP handshake of a dial, the
\* channel and declarations of a topology and conn.Close() have no timeout;
\* on a connection that is closed already they end at once.
LoopAsks ==
    \/ loop = "dial"
    \/ loop \in {"setup", "drop"} /\ IsOpen(fresh)
    \/ loop = "closeOld" /\ IsOpen(old)
CloserAsks ==
    \/ closer = "shut" /\ IsOpen(taken)
    \/ closer = "leftover" /\ IsOpen(conn)

\* Both goroutines are scheduled; nothing is assumed of the broker.
CFairness ==
    /\ WF_cvars(Dialer /\ ~LoopAsks)
    /\ WF_cvars(Closer /\ ~CloserAsks)

\* A broker that answers the loop sooner or later, and, asked again and again,
\* accepts a connection and its topology sometimes.
BrokerWilling ==
    /\ []<>~LoopAsks
    /\ SF_cvars(\E c \in Conn : DialOk(c))
    /\ SF_cvars(SetupOk)

CFairSpec == CSpec /\ CFairness

-----------------------------------------------------------------------------
(* Properties *)

\* Every open connection has an owner that will close it: the client itself,
\* connectAndSetup before and after the swap, or Close.  A connection dialed
\* while Close runs is never lost (lines 102-134, 320-326).
OpenIsOwned ==
    \A c \in Conn : connState[c] = "open" => c \in {conn, fresh, old, taken}

\* When Close returns, no connection is open and no goroutine is left to open
\* one, even when Close met a reconnect halfway (lines 315-337).
CloseReleasesAll ==
    closer = "done" => /\ \A c \in Conn : connState[c] # "open"
                       /\ loop = "done" /\ conn = NoConn

\* The second look at c.conn after wg.Wait (lines 328-334) finds nothing: the
\* check under the lock at line 124 has kept every later connection out.
NoLeftover == closer = "leftover" => conn = NoConn

\* Nobody installs a connection once Close has taken the current one.
NoInstallAfterTake ==
    [][(closer \in {"shut", "wait", "leftover", "done"}) => conn' \in {conn, NoConn}]_cvars

\* A client New refused to return holds no connection and is cancelled.
FailedNewIsClean ==
    phase = "failed" => ctxDone /\ \A c \in Conn : connState[c] # "open"

\* Close comes back, whatever the reconnect loop is doing when it is called,
\* unless the loop or Close itself waits for a broker that never answers.
CloseReturns ==
    closer = "closing" ~> closer = "done" \/ []LoopAsks \/ []CloserAsks

\* Cancelling the context given to New ends the reconnect loop, unless it waits
\* for a broker that never answers.
CancelStopsLoop == ctxDone ~> loop = "done" \/ []LoopAsks

\* Every connection that drops is replaced, the replacements included, when the
\* broker is willing, unless the client is stopped or the connections of the
\* model have all been used and lost.
Reconnects ==
    BrokerWilling =>
        (phase = "running" /\ conn # NoConn /\ ~IsOpen(conn)
            ~> IsOpen(conn) \/ isClosing \/ \A c \in Conn : connState[c] = "closed")

=============================================================================
