-------------------------------- MODULE Auth --------------------------------
(***************************************************************************)
(* Tokens, the services that issue them and the verifiers that check them: *)
(* security/s2s (registry.go, the Signer and Verifier of s2s.go),          *)
(* security/jwt/verifier.go, and the jwt library they call (external).     *)
(*                                                                         *)
(* A token is a record.  Claims that may be missing (kid, iss, sub, nbf,   *)
(* exp, userID) are sets of at most one element; bearers counts the        *)
(* "Bearer " prefixes in front of it; "garbage" is anything the parser     *)
(* cannot read.  A verifier is a record made by a constructor.             *)
(***************************************************************************)
EXTENDS Integers, Sequences, FiniteSetsExt, TLC

CONSTANTS Blank,          \* a name or secret of white space only
          Wildcard,       \* "*" in a credential's audiences
          Backdate,       \* of nbf, 5 seconds
          DefaultLeeway,  \* 30 seconds
          DefaultTTL      \* 2 minutes

ASSUME AuthAssumption == {Backdate, DefaultLeeway, DefaultTTL} \subseteq Nat

Absent == [form |-> "absent", bearers |-> 0]

\* trimBearer, bearer
TrimBearer(tok) == [tok EXCEPT !.bearers = IF @ > 0 THEN @ - 1 ELSE 0]

\* AuthorizationHeader
AuthorizationHeader(tok) ==
    IF tok.form = "absent" THEN tok ELSE [tok EXCEPT !.bearers = 1]

\* Mutant: a setting that is left out stays zero.
OrElseZero(v, default) == v

\* a setting that is left out has its default
OrElse(v, default) == IF v <= 0 THEN default ELSE v

-----------------------------------------------------------------------------
(* auth-service: its registry of callers and its signer *)

\* NewServiceRegistry: blank entries are skipped, the last entry of a name stays
NewServiceRegistry(creds) ==
    LET usable == {i \in DOMAIN creds : creds[i].name # Blank /\ creds[i].secret # Blank}
        entries(name) == {i \in usable : creds[i].name = name}
    IN [name \in {creds[i].name : i \in usable} |-> creds[Max(entries(name))]]

Authenticate(registry, name, secret) ==
    /\ name # Blank /\ secret # Blank
    /\ name \in DOMAIN registry
    /\ registry[name].secret = secret

MayRequestAudience(cred, aud) ==
    aud # Blank /\ \E a \in cred.audiences : a = Wildcard \/ a = aud

\* NewSigner: no signer without issuer, key id and key
NewSigner(cfg) ==
    IF Blank \in {cfg.issuer, cfg.kid, cfg.key} THEN {}
    ELSE {[cfg EXCEPT !.ttl = OrElse(@, DefaultTTL)]}

\* Issue: the token, or nothing.  Its times are cut to whole seconds, which is
\* finer than time is counted here.
Issue(signer, subject, audience, scopes, now) ==
    IF Blank \in {subject, audience} THEN {}
    ELSE {[form |-> "jwt", bearers |-> 0, alg |-> "EdDSA",
           kid |-> {signer.kid}, key |-> signer.key,
           iss |-> {signer.issuer}, sub |-> {subject}, aud |-> {audience},
           nbf |-> {now - Backdate}, exp |-> {now + signer.ttl},
           scopes |-> scopes, userID |-> {}, use |-> Blank]}

-----------------------------------------------------------------------------
(* The jwt library, as NewParser and ParseWithClaims are used *)

\* The claims that are wrong at a time; want.iss and want.aud are empty when
\* the parser is not told to check them.
ClaimErrors(tok, want, leeway, now) ==
    {e \in {"missing", "expired", "not_yet", "issuer", "audience"} :
        \/ /\ e = "missing"
           /\ \/ tok.exp = {}
              \/ want.iss # {} /\ tok.iss = {}
              \/ want.aud # {} /\ tok.aud = {}
        \/ e = "expired" /\ \E t \in tok.exp : now >= t + leeway
        \/ e = "not_yet" /\ \E t \in tok.nbf : now < t - leeway
        \/ e = "issuer" /\ {want.iss, tok.iss} \cap {{}} = {} /\ tok.iss # want.iss
        \/ e = "audience" /\ {want.aud, tok.aud} \cap {{}} = {}
                          /\ want.aud \cap tok.aud = {}}

\* All errors of a token; its claims are looked at once its signature holds.
\* keys holds what the key function returned, nothing if that failed.
ParseErrors(tok, alg, keys, want, leeway, now) ==
    IF tok.form # "jwt" \/ tok.bearers > 0 THEN {"malformed"}
    ELSE IF tok.alg # alg THEN {"signature"}
    ELSE IF keys = {} THEN {"unverifiable"}
    ELSE IF tok.key \notin keys THEN {"signature"}
    ELSE ClaimErrors(tok, want, leeway, now)

-----------------------------------------------------------------------------
(* The verifiers *)

Refused(kind, reason) == [ok |-> FALSE, kind |-> kind, reason |-> reason]
Unauthenticated(reason) == Refused("unauthenticated", reason)
Accepted == [ok |-> TRUE, kind |-> "none", reason |-> "none"]

\* what both NewVerifiers ask for
Sufficient(cfg) ==
    Blank \notin {cfg.issuer, cfg.audience} /\ (cfg.url \/ DOMAIN cfg.keys # {})

\* s2s NewVerifier: the configuration with its defaults, or nothing for an
\* unusable one
NewServiceVerifier(cfg) ==
    IF ~Sufficient(cfg) THEN {}
    ELSE {[cfg EXCEPT !.allowed = @ \ {Blank}, !.leeway = OrElse(@, DefaultLeeway)]}

\* jwt NewVerifier
NewUserVerifier(cfg) ==
    IF ~Sufficient(cfg) \/ (cfg.allowLegacy /\ cfg.legacy = Blank) THEN {}
    ELSE {[cfg EXCEPT !.legacy = IF cfg.allowLegacy THEN {@} ELSE {},
                      !.use = IF @ = Blank THEN "access" ELSE @,
                      !.leeway = OrElse(@, DefaultLeeway)]}

\* the key function: the key of the token's kid in the cache
KeysFor(v, tok) == {v.keys[k] : k \in tok.kid \cap DOMAIN v.keys}

Want(v) == [iss |-> {v.issuer}, aud |-> {v.audience}]

\* classifyJWTError: the first of the errors it asks for
ClassifyJWTError(errors) ==
    IF "expired" \in errors THEN "expired"
    ELSE IF "audience" \in errors THEN "invalid_audience"
    ELSE IF "issuer" \in errors THEN "invalid_issuer"
    ELSE "invalid_signature"

\* s2s Verifier.Verify
ServiceVerify(v, header, now) ==
    LET tok == TrimBearer(header)
        errors == ParseErrors(tok, "EdDSA", KeysFor(v, tok), Want(v), v.leeway, now)
    IN IF tok.form = "absent" THEN Unauthenticated("missing_token")
       ELSE IF errors # {} THEN Unauthenticated(ClassifyJWTError(errors))
       ELSE IF tok.sub \subseteq {Blank} THEN Unauthenticated("invalid_signature")
       ELSE IF v.allowed # {} /\ tok.sub \cap v.allowed = {}
            THEN Refused("forbidden", "unknown_service")
       ELSE Accepted

\* enforceTokenUse after claimsFromToken
UserClaims(v, tok) ==
    IF tok.userID \subseteq {Blank} THEN Unauthenticated("invalid token")
    ELSE IF tok.use # v.use THEN Unauthenticated("invalid token use")
    ELSE Accepted

\* verifyEdDSA and verifyLegacyHS256: errors is what the parser returned
UserVerified(v, tok, errors) ==
    IF errors = {} THEN UserClaims(v, tok)
    ELSE Unauthenticated(IF "expired" \in errors THEN "token expired" ELSE "invalid token")

\* jwt Verifier.Verify: the token's own alg selects the check; a legacy token
\* is neither asked for its issuer nor for its audience
UserVerify(v, header, now) ==
    LET tok == TrimBearer(header)
        errors(alg, keys, want) == ParseErrors(tok, alg, keys, want, v.leeway, now)
    IN IF tok.form = "absent" THEN Unauthenticated("empty token")
       ELSE IF tok.form = "garbage" \/ tok.bearers > 0 THEN Unauthenticated("invalid token")
       ELSE IF tok.alg = "EdDSA"
            THEN UserVerified(v, tok, errors("EdDSA", KeysFor(v, tok), Want(v)))
       ELSE IF tok.alg = "HS256" /\ v.legacy # {}
            THEN UserVerified(v, tok, errors("HS256", v.legacy, [iss |-> {}, aud |-> {}]))
       ELSE Unauthenticated("invalid token")

=============================================================================
