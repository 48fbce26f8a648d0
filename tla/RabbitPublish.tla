---------------------------- MODULE RabbitPublish ----------------------------
(***************************************************************************)
(* The users of the AMQP client: PublishWithConfirmHeaders, and Channel    *)
(* with Ping and SetupTopology on top of it, running against RabbitClient  *)
(* (src/messaging/rabbitmq/client.go, lines 216-313).                      *)
(*                                                                         *)
(* A publish opens an AMQP channel of its own, so a confirmation is named  *)
(* by the publisher and the number of its call.  What the broker does with *)
(* a message and when its answer arrives is not in this code.              *)
(***************************************************************************)
EXTENDS RabbitClient, Naturals

CONSTANTS Publisher,
          MaxCalls     \* bound on the calls of one publisher

ASSUME MaxCallsAssumption == MaxCalls \in Nat

VARIABLES
    pub,        \* where each publisher's call is
    op,         \* what it called
    handle,     \* conn of Channel()
    calls,      \* calls made so far; the last one is the current one
    inflight,   \* messages written to a connection and not yet seen by the broker
    stored,     \* messages the broker took responsibility for
    confirms,   \* answers of the broker: <<publisher, call, ack>>
    succeeded   \* calls of publish that returned nil

pvars == <<pub, op, handle, calls, inflight, stored, confirms, succeeded>>

Op == {"publish", "channel"}
Message == Publisher \X (1 .. MaxCalls)

\* Types of the client's and the publishers' variables (client.go 215-300).
PTypeOK ==
    /\ CTypeOK
    /\ pub \in [Publisher -> {"idle", "current", "open", "publish", "await", "close"}]
    /\ op \in [Publisher -> Op]
    /\ handle \in [Publisher -> ConnRef]
    /\ calls \in [Publisher -> 0 .. MaxCalls]
    /\ inflight \subseteq Message /\ stored \subseteq Message
    /\ confirms \subseteq (Message \X BOOLEAN)
    /\ succeeded \subseteq Message

PInit ==
    /\ CInit
    /\ pub = [p \in Publisher |-> "idle"]
    /\ op = [p \in Publisher |-> "channel"]
    /\ handle = [p \in Publisher |-> NoConn]
    /\ calls = [p \in Publisher |-> 0]
    /\ inflight = {} /\ stored = {} /\ confirms = {} /\ succeeded = {}

Current(p) == <<p, calls[p]>>

\* conn of Channel() is forgotten with the call
Returns(p) ==
    /\ pub' = [pub EXCEPT ![p] = "idle"]
    /\ handle' = [handle EXCEPT ![p] = NoConn]

\* The result is known; the deferred ch.Close() comes first
Finishes(p) == pub' = [pub EXCEPT ![p] = "close"] /\ UNCHANGED handle

\* amqp writes on an open connection only.
Writable(p) == IsOpen(handle[p])

-----------------------------------------------------------------------------
(* Channel *)

\* the call, and isClosing at line 217
Call(p, o) ==
    /\ phase = "running" /\ pub[p] = "idle" /\ calls[p] < MaxCalls
    /\ calls' = [calls EXCEPT ![p] = @ + 1]
    /\ op' = [op EXCEPT ![p] = o]
    /\ pub' = [pub EXCEPT ![p] = IF isClosing THEN "idle" ELSE "current"]
    /\ UNCHANGED <<handle, inflight, stored, confirms, succeeded>>

\* currentConnection and IsClosed
ReadConn(p) ==
    /\ pub[p] = "current" /\ mu = "free"
    /\ pub' = [pub EXCEPT ![p] = IF IsOpen(conn) THEN "open" ELSE "idle"]
    /\ handle' = [handle EXCEPT ![p] = IF IsOpen(conn) THEN conn ELSE NoConn]
    /\ UNCHANGED <<op, calls, inflight, stored, confirms, succeeded>>

\* conn.Channel() succeeds only on an open connection; a publish goes on to
\* confirm mode and NotifyPublish, the other calls to their ch.Close()
OpenChannel(p) ==
    /\ pub[p] = "open" /\ IsOpen(handle[p])
    /\ IF op[p] = "publish"
       THEN pub' = [pub EXCEPT ![p] = "publish"] /\ UNCHANGED handle
       ELSE Finishes(p)
    /\ UNCHANGED <<op, calls, inflight, stored, confirms, succeeded>>

\* conn.Channel() fails
ChannelFails(p) ==
    /\ pub[p] = "open"
    /\ Returns(p)
    /\ UNCHANGED <<op, calls, inflight, stored, confirms, succeeded>>

\* ch.Confirm or PublishWithContext fails; the last may have written the
\* message first
CallFails(p) ==
    /\ pub[p] \in {"open", "publish"} /\ op[p] = "publish"
    /\ inflight' \in {inflight} \cup
            (IF pub[p] = "publish" /\ Writable(p) THEN {inflight \cup {Current(p)}} ELSE {})
    /\ Finishes(p)
    /\ UNCHANGED <<op, calls, stored, confirms, succeeded>>

\* the deferred ch.Close()
CloseChannel(p) ==
    /\ pub[p] = "close"
    /\ Returns(p)
    /\ UNCHANGED <<op, calls, inflight, stored, confirms, succeeded>>

-----------------------------------------------------------------------------
(* PublishWithConfirmHeaders *)

PublishWritten(p) ==
    /\ pub[p] = "publish" /\ Writable(p)
    /\ inflight' = inflight \cup {Current(p)}
    /\ pub' = [pub EXCEPT ![p] = "await"]
    /\ UNCHANGED <<op, handle, calls, stored, confirms, succeeded>>

\* Mutant: one channel serves all calls, a late confirmation counts for the
\* current one.
AwaitAnyConfirm(p) ==
    /\ pub[p] = "await"
    /\ \E ack \in BOOLEAN :
        /\ \E k \in 1 .. MaxCalls : <<<<p, k>>, ack>> \in confirms
        /\ succeeded' = IF ack THEN succeeded \cup {Current(p)} ELSE succeeded
    /\ Finishes(p)
    /\ UNCHANGED <<op, calls, inflight, stored, confirms>>

\* the confirmation of this call's channel arrives
AwaitConfirm(p) ==
    /\ pub[p] = "await"
    /\ \E ack \in BOOLEAN :
        /\ <<Current(p), ack>> \in confirms
        /\ succeeded' = IF ack THEN succeeded \cup {Current(p)} ELSE succeeded
    /\ Finishes(p)
    /\ UNCHANGED <<op, calls, inflight, stored, confirms>>

\* Mutant: the confirmation is waited for without a timeout.
AwaitForever(p) ==
    /\ pub[p] = "await" /\ ~IsOpen(handle[p])
    /\ Finishes(p)
    /\ UNCHANGED <<op, calls, inflight, stored, confirms, succeeded>>

\* pubCtx expires: ConfirmTimeout, or the caller's own context
AwaitTimeout(p) ==
    /\ pub[p] = "await"
    /\ Finishes(p)
    /\ UNCHANGED <<op, calls, inflight, stored, confirms, succeeded>>

\* the connection goes and closes the confirm channel
AwaitClosed(p) ==
    /\ pub[p] = "await" /\ ~IsOpen(handle[p])
    /\ Finishes(p)
    /\ UNCHANGED <<op, calls, inflight, stored, confirms, succeeded>>

-----------------------------------------------------------------------------
(* The broker *)

BrokerAnswers(m, ack) ==
    /\ m \in inflight
    /\ inflight' = inflight \ {m}
    /\ stored' = IF ack THEN stored \cup {m} ELSE stored
    /\ confirms' = confirms \cup {<<m, ack>>}
    /\ UNCHANGED <<pub, op, handle, calls, succeeded>>

-----------------------------------------------------------------------------
(* Specification *)

CallSteps(p) ==
    \/ ReadConn(p)
    \/ OpenChannel(p)
    \/ ChannelFails(p)
    \/ CallFails(p)
    \/ CloseChannel(p)
    \/ PublishWritten(p)
    \/ AwaitConfirm(p)
    \/ AwaitTimeout(p)
    \/ AwaitClosed(p)

PNext ==
    \/ CNext /\ UNCHANGED pvars
    \/ /\ \/ \E p \in Publisher : CallSteps(p) \/ \E o \in Op : Call(p, o)
          \/ \E m \in Message, ack \in BOOLEAN : BrokerAnswers(m, ack)
       /\ UNCHANGED cvars

PSpec == PInit /\ [][PNext]_<<cvars, pvars>>

\* Where a call waits for the broker: opening the channel and confirm mode, the
\* write itself and the deferred ch.Close() have no timeout; ConfirmTimeout
\* covers the wait for the confirmation only.
CallAsks(p) == pub[p] \in {"open", "publish", "close"} /\ IsOpen(handle[p])

\* The fairness of the client, and a publisher's goroutine is scheduled and
\* ConfirmTimeout fires; nothing is assumed of the broker.
PFairSpec ==
    /\ PSpec
    /\ CFairness
    /\ \A p \in Publisher : WF_pvars(CallSteps(p) /\ ~CallAsks(p) /\ UNCHANGED cvars)

-----------------------------------------------------------------------------
(* Properties *)

\* A publish that returns nil was stored by the broker, even when earlier
\* calls timed out and their confirmations arrive late (lines 254-296).
ConfirmedIsStored == succeeded \subseteq stored

\* After Close has returned nothing is written to the broker: a call that
\* passed isClosing before Close began and still holds its connection finds it
\* closed, whichever goroutine closed it.
NothingSentAfterClose ==
    [][closer = "done" => inflight' \subseteq inflight]_<<cvars, pvars>>

\* Every call returns, whatever becomes of the connection and of the
\* confirmation, unless it waits for a broker that never answers.
CallsReturn ==
    \A p \in Publisher : pub[p] # "idle" ~> pub[p] = "idle" \/ []CallAsks(p)

=============================================================================
