-------------------------- MODULE ServiceCallProofs --------------------------
(***************************************************************************)
(* Calls between services: a cached token is accepted while it is timely,  *)
(* and a grant that is withdrawn runs out, for any goroutines, audiences,  *)
(* lifetimes, clocks and credentials.                                      *)
(***************************************************************************)
EXTENDS ServiceCall, TLAPS

-----------------------------------------------------------------------------
(* What a callee makes of a token that auth-service has issued *)

\* the times at which a callee's clock lets a token pass
InLife(tok, t) ==
    /\ t < tok.valid + DefaultLeeway
    /\ t >= tok.issued - Backdate - DefaultLeeway

\* a token of a caller and an audience with a name, for some time
Issued(tok) ==
    /\ Caller # Blank /\ tok.aud # Blank
    /\ tok.issued \in Nat /\ tok.valid \in Nat /\ tok.issued < tok.valid

\* The token as Issue makes it and AuthorizationHeader sends it.
LEMMA JWTIsIssued ==
    ASSUME NEW tok, Issued(tok)
    PROVE  JWT(tok) = [form |-> "jwt", bearers |-> 0, alg |-> "EdDSA",
                       kid |-> {"k1"}, key |-> "key1", iss |-> {"auth"},
                       sub |-> {Caller}, aud |-> {tok.aud},
                       nbf |-> {tok.issued - Backdate}, exp |-> {tok.valid},
                       scopes |-> {}, userID |-> {}, use |-> Blank]
<1> DEFINE life == tok.valid - tok.issued
<1>1. life \in Nat /\ life > 0 /\ tok.issued + life = tok.valid
  BY DEF Issued
<1>2. A!NewSigner(Signer(life)) = {Signer(life)}
  <2>1. A!OrElse(life, DefaultTTL) = life
    BY <1>1 DEF A!OrElse
  <2> HIDE DEF life
  <2> QED
    BY <2>1, CallAssumption DEF A!NewSigner, Signer
<1>3. A!Issue(Signer(life), Caller, tok.aud, {}, tok.issued) =
        {[form |-> "jwt", bearers |-> 0, alg |-> "EdDSA",
          kid |-> {"k1"}, key |-> "key1", iss |-> {"auth"},
          sub |-> {Caller}, aud |-> {tok.aud},
          nbf |-> {tok.issued - Backdate}, exp |-> {tok.valid},
          scopes |-> {}, userID |-> {}, use |-> Blank]}
  BY <1>1 DEF A!Issue, Signer, Issued
<1> QED
  BY <1>2, <1>3 DEF JWT

\* The token as the callee parses it: neither of its prefixes is left.
LEMMA ArrivesIntact ==
    ASSUME NEW tok, Issued(tok)
    PROVE  LET arrived == A!TrimBearer(A!TrimBearer(Outgoing(tok)))
           IN /\ arrived.form = "jwt" /\ arrived.bearers = 0
              /\ arrived.alg = "EdDSA" /\ arrived.kid = {"k1"} /\ arrived.key = "key1"
              /\ arrived.iss = {"auth"} /\ arrived.sub = {Caller}
              /\ arrived.aud = {tok.aud}
              /\ arrived.nbf = {tok.issued - Backdate} /\ arrived.exp = {tok.valid}
<1> DEFINE jwt == [form |-> "jwt", bearers |-> 0, alg |-> "EdDSA",
                   kid |-> {"k1"}, key |-> "key1", iss |-> {"auth"},
                   sub |-> {Caller}, aud |-> {tok.aud},
                   nbf |-> {tok.issued - Backdate}, exp |-> {tok.valid},
                   scopes |-> {}, userID |-> {}, use |-> Blank]
<1>1. JWT(tok) = jwt /\ jwt.form = "jwt"
  BY JWTIsIssued
<1>2. Outgoing(tok) = [jwt EXCEPT !.bearers = 1]
  <2> HIDE DEF jwt
  <2> QED
    BY <1>1 DEF Outgoing, A!AuthorizationHeader
<1> QED
  BY <1>2 DEF A!TrimBearer

\* The callee of an audience: one verifier, with the default leeway.
LEMMA CalleeIsConfigured ==
    ASSUME NEW a, a # Blank, Caller # Blank
    PROVE  /\ Callee(a).issuer = "auth" /\ Callee(a).audience = a
           /\ Callee(a).leeway = DefaultLeeway /\ Callee(a).allowed = {Caller}
           /\ Callee(a).keys = [k \in {"k1"} |-> "key1"]
<1> DEFINE cfg == [issuer |-> "auth", audience |-> a, url |-> TRUE,
                   keys |-> [k \in {"k1"} |-> "key1"], leeway |-> 0, allowed |-> {Caller}]
           v == [cfg EXCEPT !.allowed = @ \ {Blank},
                            !.leeway = A!OrElse(@, DefaultLeeway)]
<1>1. A!Sufficient(cfg)
  BY CallAssumption DEF A!Sufficient
<1>2. A!NewServiceVerifier(cfg) = {v}
  BY <1>1 DEF A!NewServiceVerifier
<1>3. Callee(a) = v
  <2> HIDE DEF v
  <2> QED
    BY <1>2 DEF Callee
<1>4. A!OrElse(0, DefaultLeeway) = DefaultLeeway /\ {Caller} \ {Blank} = {Caller}
  BY DEF A!OrElse
<1> QED
  BY <1>3, <1>4

\* The callee accepts the token exactly within its life, give or take leeway.
LEMMA VerdictIsLife ==
    ASSUME NEW tok, Issued(tok), NEW t \in Int
    PROVE  A!ServiceVerify(Callee(tok.aud), A!TrimBearer(Outgoing(tok)), t).reason = "none"
             <=> InLife(tok, t)
<1> DEFINE arrived == A!TrimBearer(A!TrimBearer(Outgoing(tok)))
           v == Callee(tok.aud)
           errors == A!ParseErrors(arrived, "EdDSA", A!KeysFor(v, arrived), A!Want(v),
                                   v.leeway, t)
<1>1. /\ arrived.form = "jwt" /\ arrived.bearers = 0
      /\ arrived.alg = "EdDSA" /\ arrived.kid = {"k1"} /\ arrived.key = "key1"
      /\ arrived.iss = {"auth"} /\ arrived.sub = {Caller}
      /\ arrived.aud = {tok.aud}
      /\ arrived.nbf = {tok.issued - Backdate} /\ arrived.exp = {tok.valid}
  BY ArrivesIntact
<1>2. /\ v.issuer = "auth" /\ v.audience = tok.aud /\ v.leeway = DefaultLeeway
      /\ v.allowed = {Caller} /\ v.keys = [k \in {"k1"} |-> "key1"]
  BY CalleeIsConfigured DEF Issued
<1> HIDE DEF arrived, v
<1>3. errors = A!ClaimErrors(arrived, A!Want(v), DefaultLeeway, t)
  <2>1. "key1" \in A!KeysFor(v, arrived)
    BY <1>1, <1>2 DEF A!KeysFor
  <2> QED
    BY <1>1, <1>2, <2>1 DEF A!ParseErrors
<1>4. errors = {} <=> InLife(tok, t)
  <2>1. A!Want(v).iss = {"auth"} /\ A!Want(v).aud = {tok.aud}
    BY <1>2 DEF A!Want
  <2>2. ASSUME NEW e
        PROVE  e \in errors <=>
                 \/ e = "expired" /\ t >= tok.valid + DefaultLeeway
                 \/ e = "not_yet" /\ t < (tok.issued - Backdate) - DefaultLeeway
    BY <1>1, <1>3, <2>1 DEF A!ClaimErrors
  <2> HIDE DEF errors
  <2>3. t >= tok.valid + DefaultLeeway => "expired" \in errors
    BY <2>2
  <2>4. t < (tok.issued - Backdate) - DefaultLeeway => "not_yet" \in errors
    BY <2>2
  <2>5. errors # {} => \/ t >= tok.valid + DefaultLeeway
                       \/ t < (tok.issued - Backdate) - DefaultLeeway
    BY <2>2
  <2> QED
    BY <2>3, <2>4, <2>5, CallAssumption DEF InLife, Issued
<1>5. A!ClassifyJWTError(errors) # "none"
  BY DEF A!ClassifyJWTError
<1>6. A!ServiceVerify(v, A!TrimBearer(Outgoing(tok)), t) =
        IF errors # {} THEN A!Unauthenticated(A!ClassifyJWTError(errors)) ELSE A!Accepted
  <2>1. A!ServiceVerify(v, A!TrimBearer(Outgoing(tok)), t) =
          IF arrived.form = "absent" THEN A!Unauthenticated("missing_token")
          ELSE IF errors # {} THEN A!Unauthenticated(A!ClassifyJWTError(errors))
          ELSE IF arrived.sub \subseteq {Blank} THEN A!Unauthenticated("invalid_signature")
          ELSE IF v.allowed # {} /\ arrived.sub \cap v.allowed = {}
               THEN A!Refused("forbidden", "unknown_service")
          ELSE A!Accepted
    BY DEF A!ServiceVerify, arrived
  <2> HIDE DEF errors
  <2> QED
    BY <1>1, <1>2, <2>1 DEF Issued
<1> HIDE DEF errors
<1>7. errors # {} => A!ServiceVerify(v, A!TrimBearer(Outgoing(tok)), t).reason
                       = A!ClassifyJWTError(errors)
  BY <1>6 DEF A!Unauthenticated, A!Refused
<1>8. errors = {} => A!ServiceVerify(v, A!TrimBearer(Outgoing(tok)), t).reason = "none"
  BY <1>6 DEF A!Accepted
<1> QED
  BY <1>4, <1>5, <1>7, <1>8 DEF v

-----------------------------------------------------------------------------
(* The inductive invariant *)

Token == [aud : Audience \cup {NoAud}, expiresAt : Nat, issued : Nat, valid : Nat]

Types ==
    /\ now \in Nat
    /\ cached \in Token
    /\ pc = [p \in Proc |-> pc[p]]
    /\ aud \in [Proc -> Audience \cup {NoAud}]
    /\ sentAt \in [Proc -> Nat]
    /\ answer \in [Proc -> [life : Nat, issuedAt : Nat, reported : BOOLEAN]]
    /\ got \in [Proc -> [token : Token, at : Nat]]
    /\ verdict = [p \in Proc |-> verdict[p]]
    /\ lastGrant \in [Audience -> Int]

\* the registry grants the audience, or did so at t or later
GrantedAt(a, t) == Grants(registry, a) \/ t <= lastGrant[a]

\* a token that auth-service has issued under a grant; the client's idea of
\* its expiry is late by at most the fetch's Timeout
Good(tok) ==
    /\ tok.aud \in Audience
    /\ Issued(tok)
    /\ tok.issued <= now
    /\ tok.valid - tok.issued \in Lives
    /\ tok.expiresAt <= tok.valid + Timeout
    /\ GrantedAt(tok.aud, tok.issued)

CacheInv == cached.aud # NoAud => Good(cached)

\* a goroutine that waits for auth-service
FetchInv(p) ==
    /\ pc[p] # "idle" => aud[p] \in Audience
    /\ pc[p] \in {"asked", "issued"} => sentAt[p] <= now /\ now <= sentAt[p] + Timeout
    /\ pc[p] = "issued" =>
         /\ answer[p].reported
         /\ answer[p].life \in Lives
         /\ sentAt[p] <= answer[p].issuedAt /\ answer[p].issuedAt <= now
         /\ Caller # Blank /\ aud[p] # Blank
         /\ GrantedAt(aud[p], answer[p].issuedAt)

\* a goroutine that has a token, and the request it sends with it
GotInv(p) ==
    /\ pc[p] \in {"hit", "fetched", "answered_hit", "answered"} =>
         /\ Good(got[p].token)
         /\ got[p].token.aud = aud[p]
         /\ got[p].at <= now
    /\ pc[p] \in {"hit", "answered_hit"} =>
         got[p].at + Margin < got[p].token.expiresAt

\* an answer is the one that the token's life gives at the callee's clock
VerdictInv(p) ==
    pc[p] \in {"answered_hit", "answered"} =>
        /\ verdict[p].skew \in Int
        /\ verdict[p].reason = "none" <=> InLife(got[p].token, now + verdict[p].skew)

IInv ==
    /\ Types
    /\ CacheInv
    /\ \A p \in Proc : FetchInv(p) /\ GotInv(p) /\ VerdictInv(p)

-----------------------------------------------------------------------------
(* Facts about the constants and the registry *)

\* No lifetime exceeds MaxLife.
LEMMA LifeBounded ==
    /\ MaxLife \in Nat
    /\ \A life \in Lives : life \in Nat /\ 0 < life /\ life <= MaxLife
<1>1. MaxLife \in Lives /\ \A life \in Lives : life <= MaxLife
  BY CallAssumption DEF MaxLife
<1> QED
  BY <1>1, TokenAssumption

\* auth-service grants tokens to names only, and for names only.
LEMMA GrantsNamed ==
    ASSUME NEW reg, NEW a, Grants(reg, a)
    PROVE  Caller # Blank /\ a # Blank
BY DEF Grants, A!Authenticate, A!MayRequestAudience

-----------------------------------------------------------------------------
(* Every action keeps the invariant *)

\* A call has a place and its audience, nothing else.
LEMMA CallKeeps ==
    ASSUME IInv, NEW p \in Proc, NEW a \in Audience \cup {NoAud}, Call(p, a),
           UNCHANGED <<registry, verdict, lastGrant>>
    PROVE  IInv'
<1> USE DEF client, local, Call, Goto
<1>1. Types'
  BY TokenAssumption DEF IInv, Types
<1>2. CacheInv'
  BY DEF IInv, CacheInv, Good, Issued, GrantedAt
<1>3. ASSUME NEW q \in Proc PROVE FetchInv(q)'
  BY TokenAssumption DEF IInv, Types, FetchInv, GrantedAt
<1>4. ASSUME NEW q \in Proc PROVE GotInv(q)'
  BY DEF IInv, Types, GotInv, Good, Issued, GrantedAt
<1>5. ASSUME NEW q \in Proc PROVE VerdictInv(q)'
  BY DEF IInv, Types, VerdictInv, InLife
<1> QED
  BY <1>1, <1>2, <1>3, <1>4, <1>5 DEF IInv

\* A hit hands out the cached token with the margin left.
LEMMA HitKeeps ==
    ASSUME IInv, NEW p \in Proc, Hit(p),
           UNCHANGED <<registry, verdict, lastGrant>>
    PROVE  IInv'
<1> USE DEF client, local, Hit, Usable, Goto
<1>1. Types'
  BY DEF IInv, Types
<1>2. CacheInv'
  BY DEF IInv, CacheInv, Good, Issued, GrantedAt
<1>3. ASSUME NEW q \in Proc PROVE FetchInv(q)'
  BY DEF IInv, Types, FetchInv, GrantedAt
<1>4. ASSUME NEW q \in Proc PROVE GotInv(q)'
  BY TokenAssumption DEF IInv, Types, FetchInv, GotInv, CacheInv, Good, Issued, GrantedAt
<1>5. ASSUME NEW q \in Proc PROVE VerdictInv(q)'
  BY DEF IInv, Types, VerdictInv, InLife
<1> QED
  BY <1>1, <1>2, <1>3, <1>4, <1>5 DEF IInv

\* A miss sends its request now.
LEMMA MissKeeps ==
    ASSUME IInv, NEW p \in Proc, Miss(p),
           UNCHANGED <<registry, verdict, lastGrant>>
    PROVE  IInv'
<1> USE DEF client, local, Miss, Goto
<1>1. Types'
  BY DEF IInv, Types
<1>2. CacheInv'
  BY DEF IInv, CacheInv, Good, Issued, GrantedAt
<1>3. ASSUME NEW q \in Proc PROVE FetchInv(q)'
  BY TokenAssumption DEF IInv, Types, FetchInv, GrantedAt
<1>4. ASSUME NEW q \in Proc PROVE GotInv(q)'
  BY DEF IInv, Types, GotInv, Good, Issued, GrantedAt
<1>5. ASSUME NEW q \in Proc PROVE VerdictInv(q)'
  BY DEF IInv, Types, VerdictInv, InLife
<1> QED
  BY <1>1, <1>2, <1>3, <1>4, <1>5 DEF IInv

\* The answer has come within Timeout, so the expiry is late by no more.
LEMMA FetchOkKeeps ==
    ASSUME IInv, NEW p \in Proc, FetchOk(p),
           UNCHANGED <<registry, verdict, lastGrant>>
    PROVE  IInv'
<1> USE DEF client, local, FetchOk, Leave, ExpiryOf, Goto
<1> DEFINE tok == [aud |-> aud[p], expiresAt |-> ExpiryOf(answer[p]),
                   issued |-> answer[p].issuedAt,
                   valid |-> answer[p].issuedAt + answer[p].life]
<1>1. Types'
  <2>1. tok \in Token
    BY TokenAssumption DEF IInv, Types, Token
  <2>2. /\ cached' = tok /\ got' = [got EXCEPT ![p] = [token |-> tok, at |-> now]]
        /\ pc' = [pc EXCEPT ![p] = "fetched"]
        /\ sentAt' = [sentAt EXCEPT ![p] = 0] /\ answer' = [answer EXCEPT ![p] = NoAnswer]
        /\ UNCHANGED <<now, aud>>
    OBVIOUS
  <2> HIDE DEF tok, FetchOk
  <2> QED
    BY <2>1, <2>2 DEF IInv, Types, NoAnswer
<1>2. CacheInv'
  BY TokenAssumption DEF IInv, Types, CacheInv, FetchInv, Good, Issued, GrantedAt
<1>3. ASSUME NEW q \in Proc PROVE FetchInv(q)'
  BY DEF IInv, Types, FetchInv, GrantedAt
<1>4. ASSUME NEW q \in Proc PROVE GotInv(q)'
  BY TokenAssumption DEF IInv, Types, FetchInv, GotInv, Good, Issued, GrantedAt
<1>5. ASSUME NEW q \in Proc PROVE VerdictInv(q)'
  BY DEF IInv, Types, VerdictInv, InLife
<1> QED
  BY <1>1, <1>2, <1>3, <1>4, <1>5 DEF IInv

\* A failure changes no token.
LEMMA FetchErrKeeps ==
    ASSUME IInv, NEW p \in Proc, FetchErr(p),
           UNCHANGED <<registry, verdict, lastGrant>>
    PROVE  IInv'
<1> USE DEF client, local, FetchErr, Leave, Goto
<1>1. Types'
  BY DEF IInv, Types, NoAnswer
<1>2. CacheInv'
  BY DEF IInv, CacheInv, Good, Issued, GrantedAt
<1>3. ASSUME NEW q \in Proc PROVE FetchInv(q)'
  BY DEF IInv, Types, FetchInv, GrantedAt
<1>4. ASSUME NEW q \in Proc PROVE GotInv(q)'
  BY DEF IInv, Types, GotInv, Good, Issued, GrantedAt
<1>5. ASSUME NEW q \in Proc PROVE VerdictInv(q)'
  BY DEF IInv, Types, VerdictInv, InLife
<1> QED
  BY <1>1, <1>2, <1>3, <1>4, <1>5 DEF IInv

\* A goroutine that is through has no token.
LEMMA ReturnKeeps ==
    ASSUME IInv, NEW p \in Proc, Return(p),
           UNCHANGED <<registry, verdict, lastGrant>>
    PROVE  IInv'
<1> USE DEF client, local, Return, Forget, Goto
<1>1. Types'
  BY DEF IInv, Types, Token, Nothing, NoToken
<1>2. CacheInv'
  BY DEF IInv, CacheInv, Good, Issued, GrantedAt
<1>3. ASSUME NEW q \in Proc PROVE FetchInv(q)'
  BY DEF IInv, Types, FetchInv, GrantedAt
<1>4. ASSUME NEW q \in Proc PROVE GotInv(q)'
  BY DEF IInv, Types, GotInv, Good, Issued, GrantedAt
<1>5. ASSUME NEW q \in Proc PROVE VerdictInv(q)'
  BY DEF IInv, Types, VerdictInv, InLife
<1> QED
  BY <1>1, <1>2, <1>3, <1>4, <1>5 DEF IInv

\* A token is issued under a grant, to a name and for a name.
LEMMA AuthServiceKeeps ==
    ASSUME IInv, NEW p \in Proc, NEW life \in Lives, AuthService(p, life)
    PROVE  IInv'
<1> USE DEF client, local, AuthService, AuthAnswers, Goto
<1>1. Types'
  BY LifeBounded DEF IInv, Types
<1>2. CacheInv'
  BY DEF IInv, CacheInv, Good, Issued, GrantedAt
<1>3. ASSUME NEW q \in Proc PROVE FetchInv(q)'
  BY GrantsNamed DEF IInv, Types, FetchInv, GrantedAt
<1>4. ASSUME NEW q \in Proc PROVE GotInv(q)'
  BY DEF IInv, Types, GotInv, Good, Issued, GrantedAt
<1>5. ASSUME NEW q \in Proc PROVE VerdictInv(q)'
  BY DEF IInv, Types, VerdictInv, InLife
<1> QED
  BY <1>1, <1>2, <1>3, <1>4, <1>5 DEF IInv

\* An answer that was looked at is gone.
LEMMA FinishKeeps ==
    ASSUME IInv, NEW p \in Proc, Finish(p)
    PROVE  IInv'
<1> USE DEF client, local, Finish, Forget, Goto
<1>1. Types'
  BY DEF IInv, Types, Token, Nothing, NoToken
<1>2. CacheInv'
  BY DEF IInv, CacheInv, Good, Issued, GrantedAt
<1>3. ASSUME NEW q \in Proc PROVE FetchInv(q)'
  BY DEF IInv, Types, FetchInv, GrantedAt
<1>4. ASSUME NEW q \in Proc PROVE GotInv(q)'
  BY DEF IInv, Types, GotInv, Good, Issued, GrantedAt
<1>5. ASSUME NEW q \in Proc PROVE VerdictInv(q)'
  BY DEF IInv, Types, VerdictInv, InLife
<1> QED
  BY <1>1, <1>2, <1>3, <1>4, <1>5 DEF IInv

\* The callee's answer is the one of the token's life at its clock.
LEMMA ReceiveKeeps ==
    ASSUME IInv, NEW p \in Proc, NEW skew \in Skews, Receive(p, skew)
    PROVE  IInv'
<1> USE DEF client, local, Goto
<1> DEFINE reason == A!ServiceVerify(Callee(aud[p]), A!TrimBearer(Outgoing(got[p].token)),
                                     now + skew).reason
<1>1. reason = "none" <=> InLife(got[p].token, now + skew)
  <2>1. Issued(got[p].token) /\ got[p].token.aud = aud[p] /\ now + skew \in Int
    BY CallAssumption DEF Receive, IInv, Types, GotInv, Good
  <2> QED
    BY <2>1, VerdictIsLife
<1>2. /\ verdict' = [verdict EXCEPT ![p] = [reason |-> reason, skew |-> skew]]
      /\ pc[p] \in {"hit", "fetched"}
      /\ pc' = [pc EXCEPT ![p] = IF pc[p] = "hit" THEN "answered_hit" ELSE "answered"]
      /\ UNCHANGED <<now, cached, aud, sentAt, answer, got, registry, lastGrant>>
  BY DEF Receive
<1> HIDE DEF reason
<1>3. Types'
  BY <1>2 DEF IInv, Types
<1>4. CacheInv'
  BY <1>2 DEF IInv, CacheInv, Good, Issued, GrantedAt
<1>5. ASSUME NEW q \in Proc PROVE FetchInv(q)' /\ GotInv(q)'
  BY <1>2 DEF IInv, Types, FetchInv, GotInv, Good, Issued, GrantedAt
<1>6. ASSUME NEW q \in Proc PROVE VerdictInv(q)'
  BY <1>1, <1>2, CallAssumption DEF IInv, Types, VerdictInv, InLife
<1> QED
  BY <1>3, <1>4, <1>5, <1>6 DEF IInv

\* Time passes while no answer is looked at, and within every fetch's Timeout.
LEMMA PassKeeps ==
    ASSUME IInv, Pass, UNCHANGED <<registry, verdict, lastGrant>>
    PROVE  IInv'
<1> USE DEF Pass, Tick, client, local
<1>1. Types'
  BY TokenAssumption DEF IInv, Types
<1>2. now <= now'
  BY TokenAssumption DEF IInv, Types
<1>3. CacheInv'
  BY <1>2, TokenAssumption DEF IInv, Types, Token, CacheInv, Good, Issued, GrantedAt
<1>4. ASSUME NEW p \in Proc PROVE FetchInv(p)'
  BY <1>2, TokenAssumption DEF IInv, Types, FetchInv, GrantedAt
<1>5. ASSUME NEW p \in Proc PROVE GotInv(p)'
  BY <1>2, TokenAssumption DEF IInv, Types, Token, GotInv, Good, Issued, GrantedAt
<1>6. ASSUME NEW p \in Proc PROVE VerdictInv(p)'
  BY DEF VerdictInv, Answered
<1> QED
  BY <1>1, <1>3, <1>4, <1>5, <1>6 DEF IInv

\* A restart of auth-service: what it granted until now was issued until now.
LEMMA RestartKeeps ==
    ASSUME IInv, NEW creds \in LaterCreds, Restart(creds)
    PROVE  IInv'
<1>1. /\ lastGrant' = [a \in Audience |-> IF Grants(registry, a) THEN now ELSE lastGrant[a]]
      /\ UNCHANGED <<now, cached, pc, aud, sentAt, answer, got, verdict>>
  BY DEF Restart, vars, client, local
<1>2. ASSUME NEW a \in Audience, NEW t \in Nat, t <= now, GrantedAt(a, t)
      PROVE  GrantedAt(a, t)'
  BY <1>1, <1>2 DEF IInv, Types, GrantedAt
<1>3. Types'
  BY <1>1 DEF IInv, Types
<1>4. CacheInv'
  BY <1>1, <1>2 DEF IInv, Types, Token, CacheInv, Good, Issued
<1>5. ASSUME NEW p \in Proc PROVE FetchInv(p)'
  BY <1>1, <1>2 DEF IInv, Types, FetchInv
<1>6. ASSUME NEW p \in Proc PROVE GotInv(p)'
  BY <1>1, <1>2 DEF IInv, Types, Token, GotInv, Good, Issued
<1>7. ASSUME NEW p \in Proc PROVE VerdictInv(p)'
  BY <1>1 DEF IInv, VerdictInv, InLife
<1> QED
  BY <1>3, <1>4, <1>5, <1>6, <1>7 DEF IInv

-----------------------------------------------------------------------------

LEMMA InitInv == CallInit => IInv
<1> SUFFICES ASSUME CallInit PROVE IInv
  OBVIOUS
<1> USE DEF CallInit, Init
<1>1. Forever \in Int
  BY LifeBounded, TokenAssumption, CallAssumption DEF Forever
<1>2. Types
  BY <1>1, TokenAssumption DEF Types, Token, NoToken, NoAnswer, Nothing
<1>3. CacheInv
  BY DEF CacheInv, NoToken
<1> QED
  BY <1>2, <1>3 DEF IInv, FetchInv, GotInv, VerdictInv

LEMMA Inductive == IInv /\ [CallNext]_callVars => IInv'
<1> SUFFICES ASSUME IInv, [CallNext]_callVars PROVE IInv'
  OBVIOUS
<1>1. CASE UNCHANGED callVars
  BY <1>1 DEF callVars, vars, client, local, IInv, Types, CacheInv, FetchInv, GotInv,
              VerdictInv, Good, GrantedAt
<1>2. CASE Pass /\ UNCHANGED <<registry, verdict, lastGrant>>
  BY <1>2, PassKeeps
<1>3. ASSUME NEW p \in Proc, ClientStep(p), UNCHANGED <<registry, verdict, lastGrant>>
      PROVE  IInv'
  BY <1>3, HitKeeps, MissKeeps, FetchOkKeeps, FetchErrKeeps, ReturnKeeps, CallKeeps
     DEF ClientStep
<1>4. ASSUME NEW p \in Proc, NEW life \in Lives, AuthService(p, life) PROVE IInv'
  BY <1>4, AuthServiceKeeps
<1>5. ASSUME NEW p \in Proc, NEW skew \in Skews, Receive(p, skew) PROVE IInv'
  BY <1>5, ReceiveKeeps
<1>6. ASSUME NEW p \in Proc, Finish(p) PROVE IInv'
  BY <1>6, FinishKeeps
<1>7. ASSUME NEW creds \in LaterCreds, Restart(creds) PROVE IInv'
  BY <1>7, RestartKeeps
<1> QED
  BY <1>1, <1>2, <1>3, <1>4, <1>5, <1>6, <1>7 DEF CallNext

LEMMA Invariance == CallSpec => []IInv
BY InitInv, Inductive, PTL DEF CallSpec

-----------------------------------------------------------------------------
(* The properties *)

\* HitIsUsable of the token client in calls between services, where answers
\* carry expires_in: a hit leaves more of the token's own life than the margin
\* minus the client's timeout (client.go lines 76 and 131).
THEOREM HitHolds == CallSpec => []HitIsUsable
<1>1. IInv => HitIsUsable
  BY TokenAssumption DEF IInv, Types, Token, GotInv, Good, Issued, HitIsUsable
<1> QED
  BY <1>1, Invariance, PTL

\* TimelyIsAccepted: a request with a cached token is accepted within the
\* margin minus the timeout, by every callee whose clock is off by at most its
\* leeway (client.go lines 76 and 131, s2s.go lines 77-78, 132, 207, 208).
THEOREM TimelyHolds == CallSpec => []TimelyIsAccepted
<1>1. IInv => TimelyIsAccepted
  <2> SUFFICES ASSUME IInv, NEW p \in Proc, pc[p] = "answered_hit",
                      now <= got[p].at + (Margin - Timeout),
                      verdict[p].skew \in -DefaultLeeway .. DefaultLeeway
               PROVE  verdict[p].reason = "none"
    BY DEF TimelyIsAccepted
  <2>1. /\ got[p].at + Margin < got[p].token.expiresAt
        /\ got[p].token.expiresAt <= got[p].token.valid + Timeout
        /\ got[p].token.issued <= now
    BY DEF IInv, GotInv, Good
  <2>2. InLife(got[p].token, now + verdict[p].skew)
    BY <2>1, TokenAssumption, CallAssumption DEF IInv, Types, Token, GotInv, Good, InLife
  <2> QED
    BY <2>2 DEF IInv, VerdictInv
<1> QED
  BY <1>1, Invariance, PTL

\* RevocationTakesEffect: a caller that auth-service no longer grants an
\* audience is refused there once the longest token of its last grant and the
\* leeway have run out (registry.go lines 55-72 and 85-100, client.go lines
\* 76-88, s2s.go lines 132-133).
THEOREM RevocationHolds == CallSpec => []RevocationTakesEffect
<1>1. IInv => RevocationTakesEffect
  <2> SUFFICES ASSUME IInv, NEW p \in Answered,
                      verdict[p].reason = "none", ~Grants(registry, aud[p])
               PROVE  now + verdict[p].skew < lastGrant[aud[p]] + MaxLife + DefaultLeeway
    BY DEF RevocationTakesEffect
  <2>1. /\ Good(got[p].token) /\ got[p].token.aud = aud[p] /\ verdict[p].skew \in Int
        /\ InLife(got[p].token, now + verdict[p].skew)
    BY DEF IInv, GotInv, VerdictInv, Answered
  <2>2. got[p].token.issued <= lastGrant[aud[p]] /\ aud[p] \in Audience
    BY <2>1 DEF Good, GrantedAt
  <2>3. got[p].token.valid <= got[p].token.issued + MaxLife
    BY <2>1, LifeBounded DEF Good, Issued
  <2> QED
    BY <2>1, <2>2, <2>3, LifeBounded, CallAssumption DEF IInv, Types, InLife, Good, Issued
<1> QED
  BY <1>1, Invariance, PTL

=============================================================================
