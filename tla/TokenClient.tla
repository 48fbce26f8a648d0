---------------------------- MODULE TokenClient ----------------------------
(***************************************************************************)
(* ServiceTokenClient (src/security/s2s/client.go): concurrent Token calls *)
(* over one cached service token, fetched from auth-service under the      *)
(* client's mutex.                                                         *)
(*                                                                         *)
(* Time is counted in units a configuration chooses and passes by Grain;   *)
(* the client's and auth-service's clocks agree.  auth-service is          *)
(* external: it issues a token that lives for one of Lives and reports     *)
(* that in expires_in, or reports nothing.                                 *)
(***************************************************************************)
EXTENDS Naturals

CONSTANTS Proc,        \* goroutines that call Token
          Audience,
          Default,     \* the configured audience
          NoAud,       \* an empty audience
          Lives,       \* lifetimes auth-service gives to tokens
          Reports,     \* whether answers carry expires_in: a set of BOOLEAN
          Margin,      \* 30 seconds
          Guess,       \* 4 minutes
          Timeout,     \* of the HTTP client, 10 seconds
          Grain,       \* how far time moves at once
          MaxNow,      \* bound on time
          MaxCalls     \* bound on calls of Token

ASSUME TokenAssumption ==
    /\ Default \in Audience
    /\ NoAud \notin Audience
    /\ Lives \subseteq Nat \ {0} /\ Lives # {}
    /\ Reports \subseteq BOOLEAN /\ Reports # {}
    /\ {Margin, Guess, Timeout, MaxNow, MaxCalls} \subseteq Nat /\ Grain \in Nat \ {0}
    /\ Timeout <= Margin

VARIABLES
    now,
    mu,          \* the holder of c.mu, a set of at most one
    cached,      \* token (issued, valid: its iat and exp), tokenAudience, expiresAt
    pc, aud, sentAt, answer,      \* each goroutine: its place and its locals
    got,         \* the token a call returned, and when
    calls        \* history variable: calls of Token

client == <<mu, cached>>
local == <<aud, sentAt, answer, got>>
vars == <<now, client, pc, local, calls>>

NoToken == [aud |-> NoAud, expiresAt |-> 0, issued |-> 0, valid |-> 0]
NoAnswer == [life |-> 0, issuedAt |-> 0, reported |-> FALSE]
Nothing == [token |-> NoToken, at |-> 0]

Init ==
    /\ now = 0
    /\ mu = {}
    /\ cached = NoToken
    /\ pc = [p \in Proc |-> "idle"]
    /\ aud = [p \in Proc |-> NoAud]
    /\ sentAt = [p \in Proc |-> 0]
    /\ answer = [p \in Proc |-> NoAnswer]
    /\ got = [p \in Proc |-> Nothing]
    /\ calls = 0

Goto(p, place) == pc' = [pc EXCEPT ![p] = place]

-----------------------------------------------------------------------------
(* Token *)

\* an empty audience stands for the configured one
Call(p, a) ==
    /\ pc[p] = "idle"
    /\ calls < MaxCalls
    /\ calls' = calls + 1
    /\ Goto(p, "lock")
    /\ aud' = [aud EXCEPT ![p] = IF a = NoAud THEN Default ELSE a]
    /\ UNCHANGED <<now, client, sentAt, answer, got>>

Usable(a) ==
    /\ cached.aud = a
    /\ now + Margin < cached.expiresAt

\* c.mu.Lock, a cache hit, and the deferred Unlock
Hit(p) ==
    /\ pc[p] = "lock"
    /\ mu = {}
    /\ Usable(aud[p])
    /\ got' = [got EXCEPT ![p] = [token |-> cached, at |-> now]]
    /\ Goto(p, "hit")
    /\ UNCHANGED <<now, client, aud, sentAt, answer, calls>>

\* c.mu.Lock, a miss: fetch sends its request
Miss(p) ==
    /\ pc[p] = "lock"
    /\ mu = {}
    /\ ~Usable(aud[p])
    /\ mu' = {p}
    /\ sentAt' = [sentAt EXCEPT ![p] = now]
    /\ Goto(p, "asked")
    /\ UNCHANGED <<now, cached, aud, answer, got, calls>>

\* auth-service issues the token; the answer is on its way
AuthAnswers(p, life, reported) ==
    /\ pc[p] = "asked"
    /\ Goto(p, "issued")
    /\ answer' = [answer EXCEPT ![p] =
           [life |-> life, issuedAt |-> now, reported |-> reported]]
    /\ UNCHANGED <<now, client, aud, sentAt, got, calls>>

\* fetch's expiry: expires_in from now on, or the guess
ExpiryOf(ans) == now + (IF ans.reported THEN ans.life ELSE Guess)

Leave(p, place) ==
    /\ Goto(p, place)
    /\ mu' = {}
    /\ sentAt' = [sentAt EXCEPT ![p] = 0]
    /\ answer' = [answer EXCEPT ![p] = NoAnswer]

\* fetch returns a token, which replaces the cached one
FetchOk(p) ==
    /\ pc[p] = "issued"
    /\ LET tok == [aud |-> aud[p], expiresAt |-> ExpiryOf(answer[p]),
                   issued |-> answer[p].issuedAt,
                   valid |-> answer[p].issuedAt + answer[p].life]
       IN /\ cached' = tok
          /\ got' = [got EXCEPT ![p] = [token |-> tok, at |-> now]]
    /\ Leave(p, "fetched")
    /\ UNCHANGED <<now, aud, calls>>

\* fetch fails: no answer within Timeout, ctx done, another status, or an
\* answer without a token; the cached token stays
FetchErr(p) ==
    /\ pc[p] \in {"asked", "issued"}
    /\ Leave(p, "failed")
    /\ UNCHANGED <<now, cached, aud, got, calls>>

Forget(p) ==
    /\ Goto(p, "idle")
    /\ aud' = [aud EXCEPT ![p] = NoAud]
    /\ got' = [got EXCEPT ![p] = Nothing]
    /\ UNCHANGED <<now, client, sentAt, answer, calls>>

\* the caller is through with the token
Return(p) ==
    /\ pc[p] \in {"hit", "fetched", "failed"}
    /\ Forget(p)

\* Time passes; a request has ended when its Timeout is over
Tick ==
    /\ now + Grain <= MaxNow
    /\ \A p \in Proc : pc[p] \in {"asked", "issued"} => now + Grain <= sentAt[p] + Timeout
    /\ now' = now + Grain
    /\ UNCHANGED <<client, pc, local, calls>>

-----------------------------------------------------------------------------

ClientStep(p) ==
    \/ Hit(p) \/ Miss(p) \/ FetchOk(p) \/ FetchErr(p) \/ Return(p)
    \/ \E a \in Audience \cup {NoAud} : Call(p, a)

Step(p) ==
    \/ ClientStep(p)
    \/ \E life \in Lives, reported \in Reports : AuthAnswers(p, life, reported)

Next ==
    \/ Tick
    \/ \E p \in Proc : Step(p)

Spec == Init /\ [][Next]_vars

-----------------------------------------------------------------------------

\* A cached token is returned only to callers of its audience, and with more
\* life left than the margin minus the time the fetch may have taken: the
\* answer's delay never eats up the margin ("caches them until near expiry",
\* client.go lines 17-18, 76, 131).
HitIsUsable ==
    \A p \in Proc : pc[p] = "hit" =>
        /\ got[p].token.aud = aud[p]
        /\ got[p].at + (Margin - Timeout) < got[p].token.valid

=============================================================================
