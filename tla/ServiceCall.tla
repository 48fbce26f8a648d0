----------------------------- MODULE ServiceCall -----------------------------
(***************************************************************************)
(* A call from one service to another: the caller's token client, the      *)
(* auth-service that grants it tokens, the request that carries one        *)
(* (s2s/http.go, the client interceptors of security/grpc), and the        *)
(* verification at the callee.                                             *)
(*                                                                         *)
(* auth-service is the handler this package is written for: Authenticate,  *)
(* MayRequestAudience, Issue.  Its registry is configuration: it changes   *)
(* when auth-service restarts.  Every replica of a callee has a clock of   *)
(* its own, which is off by one of Skews.                                  *)
(***************************************************************************)
EXTENDS TokenClient, Integers

CONSTANTS Blank, Wildcard, Backdate, DefaultLeeway, DefaultTTL,
          Caller, Secret,
          Creds,        \* the credentials auth-service starts with
          LaterCreds,   \* the credentials it may restart with, a set
          Skews,
          MaxTransit    \* bound: how long a request travels

ASSUME CallAssumption ==
    /\ MaxTransit \in Nat /\ Skews \subseteq Int
    /\ {Backdate, DefaultLeeway, DefaultTTL} \subseteq Nat
    /\ \E longest \in Lives : \A life \in Lives : life <= longest
    /\ Blank \notin {"auth", "k1", "key1"}

A == INSTANCE Auth

VARIABLES
    registry,
    verdict,      \* each request: the callee's answer
    \* history variables
    lastGrant     \* each audience: when the registry last granted it

callVars == <<vars, registry, verdict, lastGrant>>

MaxLife == CHOOSE l \in Lives : \A m \in Lives : m <= l
Forever == MaxNow + MaxLife + DefaultLeeway + MaxNow
NoVerdict == [reason |-> "none", skew |-> 0]

Grants(reg, a) ==
    /\ A!Authenticate(reg, Caller, Secret)
    /\ A!MayRequestAudience(reg[Caller], a)

CallInit ==
    /\ Init
    /\ registry = A!NewServiceRegistry(Creds)
    /\ verdict = [p \in Proc |-> NoVerdict]
    /\ lastGrant = [a \in Audience |-> IF Grants(registry, a) THEN 0 ELSE -Forever]

-----------------------------------------------------------------------------
(* auth-service *)

\* Mutant: a credential is good for every audience.
AuthServiceAnyAudience(p, life) ==
    /\ A!Authenticate(registry, Caller, Secret)
    /\ AuthAnswers(p, life, TRUE)
    /\ UNCHANGED <<registry, verdict, lastGrant>>

\* a refusal is one of the ways in which fetch fails
AuthService(p, life) ==
    /\ Grants(registry, aud[p])
    /\ AuthAnswers(p, life, TRUE)
    /\ UNCHANGED <<registry, verdict, lastGrant>>

Restart(creds) ==
    /\ registry = A!NewServiceRegistry(Creds)
    /\ registry' = A!NewServiceRegistry(creds)
    /\ lastGrant' = [a \in Audience |-> IF Grants(registry, a) THEN now ELSE lastGrant[a]]
    /\ UNCHANGED <<vars, verdict>>

-----------------------------------------------------------------------------
(* The request and the callee *)

Signer(life) == [issuer |-> "auth", kid |-> "k1", key |-> "key1", ttl |-> life]

\* the token as Issue made it
JWT(tok) ==
    CHOOSE jwt \in UNION {A!Issue(s, Caller, tok.aud, {}, tok.issued) :
                          s \in A!NewSigner(Signer(tok.valid - tok.issued))} : TRUE

\* the callee that serves an audience accepts this caller
Callee(a) ==
    CHOOSE v \in A!NewServiceVerifier(
        [issuer |-> "auth", audience |-> a, url |-> TRUE,
         keys |-> [k \in {"k1"} |-> "key1"], leeway |-> 0, allowed |-> {Caller}]) : TRUE

\* RoundTrip and the client interceptors put the token into the request
Outgoing(tok) == A!AuthorizationHeader(JWT(tok))

\* Verify of the callee sees it when it arrives; S2S has stripped the header
Receive(p, skew) ==
    /\ pc[p] \in {"hit", "fetched"}
    /\ verdict' = [verdict EXCEPT ![p] =
           [reason |-> A!ServiceVerify(Callee(aud[p]), A!TrimBearer(Outgoing(got[p].token)),
                                       now + skew).reason,
            skew |-> skew]]
    /\ Goto(p, IF pc[p] = "hit" THEN "answered_hit" ELSE "answered")
    /\ UNCHANGED <<now, client, local, calls, registry, lastGrant>>

Answered == {p \in Proc : pc[p] \in {"answered_hit", "answered"}}

Finish(p) ==
    /\ p \in Answered
    /\ Forget(p)
    /\ verdict' = [verdict EXCEPT ![p] = NoVerdict]
    /\ UNCHANGED <<registry, lastGrant>>

-----------------------------------------------------------------------------

\* an answer is looked at as soon as it is there
Pass ==
    /\ Answered = {}
    /\ \A p \in Proc : pc[p] \in {"hit", "fetched"} => now + Grain <= got[p].at + MaxTransit
    /\ Tick

CallNext ==
    \/ /\ Pass \/ \E p \in Proc : ClientStep(p)
       /\ UNCHANGED <<registry, verdict, lastGrant>>
    \/ \E p \in Proc :
           \/ \E life \in Lives : AuthService(p, life)
           \/ \E skew \in Skews : Receive(p, skew)
           \/ Finish(p)
    \/ \E creds \in LaterCreds : Restart(creds)

CallSpec == CallInit /\ [][CallNext]_callVars

-----------------------------------------------------------------------------

\* A request with a cached token that travels no longer than the margin minus
\* the client's timeout is accepted by every callee whose clock is off by at
\* most its leeway, before the token's time and after: no cached token is
\* refused for its age, its audience or its subject, however long its fetch
\* took (client.go lines 76 and 131, s2s.go lines 77-78, 132, 207, 208).
TimelyIsAccepted ==
    \A p \in Proc :
        /\ pc[p] = "answered_hit"
        /\ now <= got[p].at + (Margin - Timeout)
        /\ verdict[p].skew \in -DefaultLeeway .. DefaultLeeway
        => verdict[p].reason = "none"

\* A caller that auth-service no longer grants an audience is refused there
\* once its last tokens have run out: no cache renews a token, whatever the
\* callee's clock shows plus the leeway (registry.go lines 55-72 and 85-100,
\* client.go lines 76-88, s2s.go lines 132-133).
RevocationTakesEffect ==
    \A p \in Answered :
        verdict[p].reason = "none" /\ ~Grants(registry, aud[p]) =>
            now + verdict[p].skew < lastGrant[aud[p]] + MaxLife + DefaultLeeway

=============================================================================
