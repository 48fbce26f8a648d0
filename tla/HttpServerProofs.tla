-------------------------- MODULE HttpServerProofs --------------------------
(***************************************************************************)
(* What a server makes of a request, for any tokens, keys, configurations, *)
(* clocks and errors: who gets past the gates, how often a request is      *)
(* answered and counted, and what its client may conclude.  ServiceProofs  *)
(* states the results of the service's behaviour.                          *)
(***************************************************************************)
EXTENDS HttpServer, WellFoundedInduction, TLAPS

-----------------------------------------------------------------------------
(* Tokens *)

\* A set of natural numbers has a least element.
LEMMA LeastElement ==
    ASSUME NEW S, S \subseteq Nat, S # {}
    PROVE  Min(S) \in S /\ \A n \in S : Min(S) <= n
<1>1. \E m \in S : \A n \in S : ~(<<n, m>> \in OpToRel(<, Nat))
  <2> HIDE DEF OpToRel
  <2> QED
    BY NatLessThanWellFounded, WFMin
<1>2. \E m \in S : \A n \in S : m <= n
  <2>1. PICK m \in S : \A n \in S : ~(<<n, m>> \in OpToRel(<, Nat))
    BY <1>1
  <2>2. ASSUME NEW n \in S PROVE ~(n < m)
    <3>1. <<n, m>> \in Nat \X Nat /\ <<n, m>>[1] = n /\ <<n, m>>[2] = m
      OBVIOUS
    <3> QED
      BY <2>1, <3>1 DEF OpToRel
  <2> QED
    BY <2>2
<1> QED
  BY <1>2 DEF Min

\* What TrimBearer leaves of a token.
LEMMA Trimmed ==
    ASSUME NEW tok, IsToken(tok)
    PROVE  /\ IsToken(TrimBearer(tok))
           /\ TrimBearer(tok).form = tok.form
           /\ TrimBearer(tok).bearers = (IF tok.bearers > 0 THEN tok.bearers - 1 ELSE 0)
           /\ DOMAIN TrimBearer(tok) = DOMAIN tok
           /\ \A c \in DOMAIN tok \ {"bearers"} : TrimBearer(tok)[c] = tok[c]
<1>1. DOMAIN TrimBearer(tok) = DOMAIN tok
  BY DEF TrimBearer, IsToken
<1>2. \A c \in DOMAIN tok \ {"bearers"} : TrimBearer(tok)[c] = tok[c]
  BY DEF TrimBearer
<1>3. TrimBearer(tok).bearers = (IF tok.bearers > 0 THEN tok.bearers - 1 ELSE 0)
  BY DEF TrimBearer, IsToken
<1> QED
  BY <1>1, <1>2, <1>3 DEF IsToken, Claims

\* The claims of a jwt survive TrimBearer.
LEMMA ClaimsSurvive ==
    ASSUME NEW tok, IsToken(tok), tok.form = "jwt"
    PROVE  LET t == TrimBearer(tok)
           IN /\ t.alg = tok.alg /\ t.kid = tok.kid /\ t.key = tok.key /\ t.iss = tok.iss
              /\ t.sub = tok.sub /\ t.aud = tok.aud /\ t.nbf = tok.nbf /\ t.exp = tok.exp
              /\ t.userID = tok.userID /\ t.use = tok.use
BY Trimmed DEF IsToken, Claims

\* The parser finds nothing wrong with the claims of a token exactly when it is
\* in time, and its issuer and audience are the ones that are asked for.
LEMMA ClaimsAreRight ==
    ASSUME NEW tok, tok.exp \cup tok.nbf \subseteq Int, \A s, t \in tok.exp : s = t,
           NEW want, NEW leeway \in Int, NEW now \in Int
    PROVE  ClaimErrors(tok, want, leeway, now) = {} <=>
             /\ InTime(tok, leeway, now)
             /\ want.iss # {} => tok.iss = want.iss
             /\ want.aud # {} => want.aud \cap tok.aud # {}
<1> DEFINE errors == ClaimErrors(tok, want, leeway, now)
<1>1. "missing" \in errors <=> \/ tok.exp = {}
                               \/ want.iss # {} /\ tok.iss = {}
                               \/ want.aud # {} /\ tok.aud = {}
  BY DEF ClaimErrors
<1>2. "expired" \in errors <=> \E t \in tok.exp : now >= t + leeway
  BY DEF ClaimErrors
<1>3. "not_yet" \in errors <=> \E t \in tok.nbf : now < t - leeway
  BY DEF ClaimErrors
<1>4. "issuer" \in errors <=> want.iss # {} /\ tok.iss # {} /\ tok.iss # want.iss
  BY DEF ClaimErrors
<1>5. "audience" \in errors <=> want.aud # {} /\ tok.aud # {} /\ want.aud \cap tok.aud = {}
  BY DEF ClaimErrors
<1>6. errors \subseteq {"missing", "expired", "not_yet", "issuer", "audience"}
  BY DEF ClaimErrors
<1> HIDE DEF errors
<1>7. InTime(tok, leeway, now) <=>
        tok.exp # {} /\ "expired" \notin errors /\ "not_yet" \notin errors
  BY <1>2, <1>3 DEF InTime
<1>8. errors = {} <=> /\ "missing" \notin errors /\ "expired" \notin errors
                      /\ "not_yet" \notin errors /\ "issuer" \notin errors
                      /\ "audience" \notin errors
  BY <1>6
<1>9. ASSUME errors = {}
      PROVE  /\ InTime(tok, leeway, now)
             /\ want.iss # {} => tok.iss = want.iss
             /\ want.aud # {} => want.aud \cap tok.aud # {}
  <2>1. "missing" \notin errors /\ "issuer" \notin errors /\ "audience" \notin errors
    BY <1>9
  <2>2. tok.exp # {} /\ (want.iss # {} => tok.iss # {}) /\ (want.aud # {} => tok.aud # {})
    BY <2>1, <1>1
  <2>3. InTime(tok, leeway, now)
    BY <1>7, <1>9, <2>2
  <2>4. want.iss # {} => tok.iss = want.iss
    BY <1>4, <2>1, <2>2
  <2>5. want.aud # {} => want.aud \cap tok.aud # {}
    BY <1>5, <2>1, <2>2
  <2> QED
    BY <2>3, <2>4, <2>5
<1>10. ASSUME InTime(tok, leeway, now),
              want.iss # {} => tok.iss = want.iss,
              want.aud # {} => want.aud \cap tok.aud # {}
       PROVE  errors = {}
  <2>1. tok.exp # {} /\ "expired" \notin errors /\ "not_yet" \notin errors
    BY <1>7, <1>10
  <2>2. "issuer" \notin errors
    BY <1>4, <1>10
  <2>3. "audience" \notin errors
    BY <1>5, <1>10
  <2>4. want.aud # {} => tok.aud # {}
    BY <1>10
  <2>5. "missing" \notin errors
    BY <1>1, <1>10, <2>1, <2>4
  <2> QED
    BY <1>8, <2>1, <2>2, <2>3, <2>5
<1> QED
  BY <1>9, <1>10 DEF errors

\* The parser accepts a token exactly when it is a jwt of the algorithm, signed
\* with one of the keys, with the right claims.
LEMMA ParserAccepts ==
    ASSUME NEW tok, IsToken(tok), NEW alg, NEW keys, NEW want,
           NEW leeway \in Int, NEW now \in Int
    PROVE  ParseErrors(tok, alg, keys, want, leeway, now) = {} <=>
             /\ tok.form = "jwt" /\ tok.bearers = 0 /\ tok.alg = alg /\ tok.key \in keys
             /\ InTime(tok, leeway, now)
             /\ want.iss # {} => tok.iss = want.iss
             /\ want.aud # {} => want.aud \cap tok.aud # {}
<1>1. CASE tok.form = "jwt"
  <2>1. ClaimErrors(tok, want, leeway, now) = {} <=>
             /\ InTime(tok, leeway, now)
             /\ want.iss # {} => tok.iss = want.iss
             /\ want.aud # {} => want.aud \cap tok.aud # {}
    BY <1>1, ClaimsAreRight DEF IsToken
  <2> QED
    BY <1>1, <2>1 DEF ParseErrors, IsToken
<1>2. CASE tok.form # "jwt"
  BY <1>2 DEF ParseErrors
<1> QED
  BY <1>1, <1>2

\* The verifier of users has the settings of its configuration.
LEMMA UserVerifierIs ==
    ASSUME NEW v \in NewUserVerifier(UserConfig)
    PROVE  /\ v.issuer = UserConfig.issuer /\ v.audience = UserConfig.audience
           /\ v.keys = UserConfig.keys
           /\ v.legacy = (IF UserConfig.allowLegacy THEN {UserConfig.legacy} ELSE {})
           /\ v.use = UseOf(UserConfig) /\ v.leeway = LeewayOf(UserConfig)
           /\ v.leeway \in Int
<1> DEFINE leeway == OrElse(UserConfig.leeway, DefaultLeeway)
           use == IF UserConfig.use = Blank THEN "access" ELSE UserConfig.use
           legacy == IF UserConfig.allowLegacy THEN {UserConfig.legacy} ELSE {}
<1>1. v = [UserConfig EXCEPT !.legacy = legacy, !.use = use, !.leeway = leeway]
  BY DEF NewUserVerifier
<1>2. leeway = LeewayOf(UserConfig) /\ leeway \in Int /\ use = UseOf(UserConfig)
  BY ConfigAssumption, AuthAssumption DEF LeewayOf, UseOf, OrElse
<1> HIDE DEF leeway, use, legacy
<1>3. /\ v.issuer = UserConfig.issuer /\ v.audience = UserConfig.audience
      /\ v.keys = UserConfig.keys /\ v.legacy = legacy /\ v.use = use /\ v.leeway = leeway
  BY <1>1, ConfigAssumption
<1> QED
  BY <1>2, <1>3 DEF legacy

LEMMA ServiceVerifierIs ==
    ASSUME NEW v \in NewServiceVerifier(ServiceConfig)
    PROVE  /\ v.issuer = ServiceConfig.issuer /\ v.audience = ServiceConfig.audience
           /\ v.keys = ServiceConfig.keys
           /\ v.allowed = ServiceConfig.allowed \ {Blank}
           /\ v.leeway = LeewayOf(ServiceConfig)
           /\ v.leeway \in Int
<1> DEFINE leeway == OrElse(ServiceConfig.leeway, DefaultLeeway)
           allowed == ServiceConfig.allowed \ {Blank}
<1>1. v = [ServiceConfig EXCEPT !.allowed = allowed, !.leeway = leeway]
  BY DEF NewServiceVerifier
<1>2. leeway = LeewayOf(ServiceConfig) /\ leeway \in Int
  BY ConfigAssumption, AuthAssumption DEF LeewayOf, OrElse
<1> HIDE DEF leeway, allowed
<1>3. /\ v.issuer = ServiceConfig.issuer /\ v.audience = ServiceConfig.audience
      /\ v.keys = ServiceConfig.keys /\ v.allowed = allowed /\ v.leeway = leeway
  BY <1>1, ConfigAssumption
<1> QED
  BY <1>2, <1>3 DEF allowed

\* There is one of each.
LEMMA VerifiersExist ==
    NewUserVerifier(UserConfig) # {} /\ NewServiceVerifier(ServiceConfig) # {}
BY ConfigAssumption DEF NewUserVerifier, NewServiceVerifier

-----------------------------------------------------------------------------
(* The verifiers *)

\* What verifyEdDSA and verifyLegacyHS256 make of a parsed token.
LEMMA UserVerdict ==
    ASSUME NEW v, NEW tok, NEW errors
    PROVE  /\ UserVerified(v, tok, errors).ok <=>
                /\ errors = {}
                /\ ~(tok.userID \subseteq {Blank}) /\ tok.use = v.use
           /\ UserVerified(v, tok, errors).ok \/
                UserVerified(v, tok, errors).kind = "unauthenticated"
BY DEF UserVerified, UserClaims, Unauthenticated, Refused, Accepted

\* The verifier of users accepts the genuine and the legacy tokens that are in
\* time, for its use and of a user, and what it refuses is unauthenticated.
LEMMA UserAccepted ==
    ASSUME NEW v \in NewUserVerifier(UserConfig), NEW tok, IsToken(tok), NEW now \in Int
    PROVE  /\ UserVerify(v, tok, now).ok <=>
                /\ tok.form = "jwt" /\ tok.bearers <= 1
                /\ \/ Genuine(tok, UserConfig)
                   \/ UserConfig.allowLegacy /\ tok.alg = "HS256" /\ tok.key = UserConfig.legacy
                /\ InTime(tok, LeewayOf(UserConfig), now)
                /\ tok.use = UseOf(UserConfig) /\ ~(tok.userID \subseteq {Blank})
           /\ UserVerify(v, tok, now).ok \/ UserVerify(v, tok, now).kind = "unauthenticated"
<1> DEFINE t == TrimBearer(tok)
           eddsa == ParseErrors(t, "EdDSA", KeysFor(v, t), Want(v), v.leeway, now)
           hs256 == ParseErrors(t, "HS256", v.legacy, [iss |-> {}, aud |-> {}], v.leeway, now)
<1>1. IsToken(t) /\ t.form = tok.form /\ (tok.bearers <= 1 <=> t.bearers = 0)
  BY Trimmed DEF IsToken
<1>2. UserVerify(v, tok, now) =
        IF t.form = "absent" THEN Unauthenticated("empty token")
        ELSE IF t.form = "garbage" \/ t.bearers > 0 THEN Unauthenticated("invalid token")
        ELSE IF t.alg = "EdDSA" THEN UserVerified(v, t, eddsa)
        ELSE IF t.alg = "HS256" /\ v.legacy # {} THEN UserVerified(v, t, hs256)
        ELSE Unauthenticated("invalid token")
  BY DEF UserVerify
<1>3. ~Unauthenticated("empty token").ok /\ ~Unauthenticated("invalid token").ok
      /\ Unauthenticated("empty token").kind = "unauthenticated"
      /\ Unauthenticated("invalid token").kind = "unauthenticated"
  BY DEF Unauthenticated, Refused
<1>4. /\ v.issuer = UserConfig.issuer /\ v.audience = UserConfig.audience
      /\ v.keys = UserConfig.keys
      /\ v.legacy = (IF UserConfig.allowLegacy THEN {UserConfig.legacy} ELSE {})
      /\ v.use = UseOf(UserConfig) /\ v.leeway = LeewayOf(UserConfig) /\ v.leeway \in Int
  BY UserVerifierIs
<1> HIDE DEF t
<1>5. CASE tok.form # "jwt" \/ tok.bearers > 1
  <2>1. t.form = "absent" \/ t.form = "garbage" \/ t.bearers > 0
    BY <1>1, <1>5 DEF IsToken
  <2>2. ~(tok.form = "jwt" /\ tok.bearers <= 1)
    BY <1>5 DEF IsToken
  <2> HIDE DEF eddsa, hs256
  <2>3. \/ UserVerify(v, tok, now) = Unauthenticated("empty token")
        \/ UserVerify(v, tok, now) = Unauthenticated("invalid token")
    BY <1>2, <2>1
  <2> QED
    BY <1>3, <2>2, <2>3
<1>6. CASE tok.form = "jwt" /\ tok.bearers <= 1
  <2>1. /\ t.alg = tok.alg /\ t.kid = tok.kid /\ t.key = tok.key /\ t.iss = tok.iss
        /\ t.aud = tok.aud /\ t.nbf = tok.nbf /\ t.exp = tok.exp
        /\ t.userID = tok.userID /\ t.use = tok.use
    BY <1>6, ClaimsSurvive DEF t
  <2>2. InTime(t, v.leeway, now) <=> InTime(tok, LeewayOf(UserConfig), now)
    BY <1>4, <2>1 DEF InTime
  <2>3. t.alg = "EdDSA" => (eddsa = {} <=>
          Genuine(tok, UserConfig) /\ InTime(tok, LeewayOf(UserConfig), now))
    <3>1. t.key \in KeysFor(v, t) <=>
            \E k \in tok.kid \cap DOMAIN UserConfig.keys : tok.key = UserConfig.keys[k]
      BY <1>4, <2>1 DEF KeysFor
    <3>2. Want(v).iss = {UserConfig.issuer} /\ Want(v).aud = {UserConfig.audience}
      BY <1>4 DEF Want
    <3>3. eddsa = {} <=>
            /\ t.form = "jwt" /\ t.bearers = 0 /\ t.alg = "EdDSA" /\ t.key \in KeysFor(v, t)
            /\ InTime(t, v.leeway, now)
            /\ Want(v).iss # {} => t.iss = Want(v).iss
            /\ Want(v).aud # {} => Want(v).aud \cap t.aud # {}
      BY <1>1, <1>4, ParserAccepts
    <3> HIDE DEF eddsa
    <3>4. Want(v).aud \cap t.aud # {} <=> UserConfig.audience \in tok.aud
      BY <2>1, <3>2
    <3> QED
      BY <1>1, <1>6, <2>1, <2>2, <3>1, <3>2, <3>3, <3>4 DEF Genuine
  <2>4. hs256 = {} <=>
          t.alg = "HS256" /\ t.key \in v.legacy /\ InTime(tok, LeewayOf(UserConfig), now)
    <3>1. hs256 = {} <=>
            /\ t.form = "jwt" /\ t.bearers = 0 /\ t.alg = "HS256" /\ t.key \in v.legacy
            /\ InTime(t, v.leeway, now)
      BY <1>1, <1>4, ParserAccepts
    <3> HIDE DEF hs256
    <3> QED
      BY <1>1, <1>6, <2>2, <3>1
  <2> HIDE DEF eddsa, hs256
  <2>8. t.form # "absent" /\ t.form # "garbage" /\ ~(t.bearers > 0)
    BY <1>1, <1>6
  <2>5. CASE tok.alg = "EdDSA"
    <3>1. UserVerify(v, tok, now) = UserVerified(v, t, eddsa)
      BY <1>2, <2>1, <2>5, <2>8
    <3> QED
      BY <1>4, <1>6, <2>1, <2>3, <2>5, <3>1, UserVerdict
  <2>6. CASE tok.alg = "HS256" /\ UserConfig.allowLegacy
    <3>1. UserVerify(v, tok, now) = UserVerified(v, t, hs256)
      BY <1>2, <1>4, <2>1, <2>6, <2>8
    <3> QED
      BY <1>4, <1>6, <2>1, <2>4, <2>6, <3>1, UserVerdict DEF Genuine
  <2>7. CASE tok.alg # "EdDSA" /\ ~(tok.alg = "HS256" /\ UserConfig.allowLegacy)
    <3>1. UserVerify(v, tok, now) = Unauthenticated("invalid token")
      BY <1>2, <1>4, <2>1, <2>7, <2>8
    <3> QED
      BY <1>3, <2>7, <3>1 DEF Genuine
  <2> QED
    BY <2>5, <2>6, <2>7
<1> QED
  BY <1>5, <1>6 DEF IsToken

\* The verifier of services, likewise; a service it does not know is forbidden.
LEMMA ServiceAccepted ==
    ASSUME NEW v \in NewServiceVerifier(ServiceConfig), NEW tok, IsToken(tok), NEW now \in Int
    PROVE  /\ ServiceVerify(v, tok, now).ok <=>
                /\ tok.form = "jwt" /\ tok.bearers <= 1
                /\ Genuine(tok, ServiceConfig)
                /\ InTime(tok, LeewayOf(ServiceConfig), now)
                /\ ~(tok.sub \subseteq {Blank})
                /\ LET allowed == ServiceConfig.allowed \ {Blank}
                   IN allowed = {} \/ tok.sub \cap allowed # {}
           /\ \/ ServiceVerify(v, tok, now).ok
              \/ ServiceVerify(v, tok, now).kind \in {"unauthenticated", "forbidden"}
<1> DEFINE t == TrimBearer(tok)
           errors == ParseErrors(t, "EdDSA", KeysFor(v, t), Want(v), v.leeway, now)
<1>1. IsToken(t) /\ t.form = tok.form /\ (tok.bearers <= 1 <=> t.bearers = 0)
  BY Trimmed DEF IsToken
<1>2. /\ v.issuer = ServiceConfig.issuer /\ v.audience = ServiceConfig.audience
      /\ v.keys = ServiceConfig.keys /\ v.allowed = ServiceConfig.allowed \ {Blank}
      /\ v.leeway = LeewayOf(ServiceConfig) /\ v.leeway \in Int
  BY ServiceVerifierIs
<1>3. ServiceVerify(v, tok, now) =
        IF t.form = "absent" THEN Unauthenticated("missing_token")
        ELSE IF errors # {} THEN Unauthenticated(ClassifyJWTError(errors))
        ELSE IF t.sub \subseteq {Blank} THEN Unauthenticated("invalid_signature")
        ELSE IF v.allowed # {} /\ t.sub \cap v.allowed = {}
             THEN Refused("forbidden", "unknown_service")
        ELSE Accepted
  BY DEF ServiceVerify
<1> HIDE DEF t
<1>4. Want(v).iss = {ServiceConfig.issuer} /\ Want(v).aud = {ServiceConfig.audience}
  BY <1>2 DEF Want
<1>5. errors = {} <=>
        /\ t.form = "jwt" /\ t.bearers = 0 /\ t.alg = "EdDSA" /\ t.key \in KeysFor(v, t)
        /\ InTime(t, v.leeway, now)
        /\ Want(v).iss # {} => t.iss = Want(v).iss
        /\ Want(v).aud # {} => Want(v).aud \cap t.aud # {}
  <2>1. IsToken(t) /\ v.leeway \in Int
    BY <1>1, <1>2
  <2> QED
    BY <2>1, ParserAccepts
<1> HIDE DEF errors
<1>6. /\ ServiceVerify(v, tok, now).ok <=>
           /\ t.form # "absent" /\ errors = {} /\ ~(t.sub \subseteq {Blank})
           /\ v.allowed = {} \/ t.sub \cap v.allowed # {}
      /\ \/ ServiceVerify(v, tok, now).ok
         \/ ServiceVerify(v, tok, now).kind \in {"unauthenticated", "forbidden"}
  BY <1>3 DEF Unauthenticated, Refused, Accepted
<1>7. CASE tok.form # "jwt"
  BY <1>1, <1>5, <1>6, <1>7
<1>8. CASE tok.form = "jwt"
  <2>1. /\ t.alg = tok.alg /\ t.kid = tok.kid /\ t.key = tok.key /\ t.iss = tok.iss
        /\ t.sub = tok.sub /\ t.aud = tok.aud /\ t.nbf = tok.nbf /\ t.exp = tok.exp
    BY <1>8, ClaimsSurvive DEF t
  <2>2. InTime(t, v.leeway, now) <=> InTime(tok, LeewayOf(ServiceConfig), now)
    BY <1>2, <2>1 DEF InTime
  <2>3. t.key \in KeysFor(v, t) <=>
          \E k \in tok.kid \cap DOMAIN ServiceConfig.keys : tok.key = ServiceConfig.keys[k]
    BY <1>2, <2>1 DEF KeysFor
  <2>4. Want(v).aud \cap t.aud # {} <=> ServiceConfig.audience \in tok.aud
    BY <1>4, <2>1
  <2>5. errors = {} <=>
          /\ tok.bearers <= 1 /\ Genuine(tok, ServiceConfig)
          /\ InTime(tok, LeewayOf(ServiceConfig), now)
    BY <1>1, <1>4, <1>5, <1>8, <2>1, <2>2, <2>3, <2>4 DEF Genuine
  <2> QED
    BY <1>1, <1>2, <1>6, <1>8, <2>1, <2>5
<1> QED
  BY <1>7, <1>8

-----------------------------------------------------------------------------
(* The gates *)

\* A request's access token is one.
LEMMA AccessTokenIs ==
    ASSUME NEW req, IsRequest(req)
    PROVE  IsToken(AccessToken(req))
<1> DEFINE found == {i \in DOMAIN req.cookies : req.cookies[i].form # "absent"}
<1>1. IsToken(TrimBearer(req.header))
  BY Trimmed DEF IsRequest
<1>2. IsToken(Absent)
  BY DEF IsToken, Absent
<1>3. found # {} => Min(found) \in DOMAIN req.cookies
  BY LeastElement DEF IsRequest
<1>4. found # {} => IsToken(req.cookies[Min(found)])
  BY <1>3 DEF IsRequest
<1> QED
  BY <1>1, <1>2, <1>4 DEF AccessToken

\* The captcha's verifier lets pass whom the provider has accepted, and
\* everybody with a token where it is off or there is none in development.
LEMMA CaptchaAccepts ==
    ASSUME NEW c, IsCaptcha(c)
    PROVE  {CaptchaVerify(v, c.token, c.opts, c.answer) : v \in c.verifier} = {"none"}
             <=> Human(c)
<1>1. CASE ~c.cfg.enabled
  <2>1. c.verifier = {NoopVerifier(FALSE)}
    BY <1>1 DEF IsCaptcha, NewRecaptchaV3, NewFromConfig
  <2>2. CaptchaVerify(NoopVerifier(FALSE), c.token, c.opts, c.answer) = "none"
    BY DEF CaptchaVerify, NoopVerifier
  <2> QED
    BY <1>1, <2>1, <2>2 DEF Human
<1>2. CASE c.cfg.enabled /\ ~c.cfg.secret
  <2>1. ~c.direct /\ ~c.cfg.production /\ c.verifier = {NoopVerifier(TRUE)}
    BY <1>2 DEF IsCaptcha, NewRecaptchaV3, NewFromConfig
  <2>2. CaptchaVerify(NoopVerifier(TRUE), c.token, c.opts, c.answer) = "none" <=> c.token
    BY DEF CaptchaVerify, NoopVerifier
  <2>3. {CaptchaVerify(w, c.token, c.opts, c.answer) : w \in c.verifier} = {"none"} <=>
          CaptchaVerify(NoopVerifier(TRUE), c.token, c.opts, c.answer) = "none"
    BY <2>1
  <2>4. Human(c) <=> c.token
    BY <1>2, <2>1 DEF Human
  <2> QED
    BY <2>2, <2>3, <2>4
<1>3. CASE c.cfg.enabled /\ c.cfg.secret
  <2> DEFINE actions == IF c.direct THEN c.cfg.actions ELSE {}
             v == [type |-> "recaptcha", minScore |-> MinScore(c.cfg),
                   host |-> c.cfg.host, actions |-> actions]
  <2>1. c.verifier = {v}
    <3>1. CASE c.direct
      BY <1>3, <3>1 DEF IsCaptcha, NewRecaptchaV3
    <3>2. CASE ~c.direct
      <4> DEFINE cfg == [c.cfg EXCEPT !.actions = {}]
      <4>1. /\ cfg.enabled = c.cfg.enabled /\ cfg.secret = c.cfg.secret
            /\ cfg.minScore = c.cfg.minScore /\ cfg.host = c.cfg.host /\ cfg.actions = {}
        BY DEF IsCaptcha
      <4>2. c.verifier = NewRecaptchaV3(cfg)
        BY <1>3, <3>2 DEF IsCaptcha, NewFromConfig
      <4> HIDE DEF cfg
      <4> QED
        BY <1>3, <3>2, <4>1, <4>2 DEF NewRecaptchaV3, MinScore
    <3> QED
      BY <3>1, <3>2
  <2>2. CaptchaVerify(v, c.token, c.opts, c.answer) = "none" <=>
          c.token /\ ~c.answer.failed /\ c.answer.success /\ ~Mismatch(v, c.opts, c.answer)
    BY DEF CaptchaVerify
  <2>3. Mismatch(v, c.opts, c.answer) <=>
          \/ c.answer.score < MinScore(c.cfg)
          \/ Contradict(c.opts.action, c.answer.action)
          \/ /\ actions # {}
             /\ (IF c.opts.action # {} THEN c.opts.action ELSE c.answer.action)
                  \cap actions = {}
          \/ Contradict(c.cfg.host, c.answer.host)
          \/ Contradict(c.opts.host, c.answer.host)
    BY DEF Mismatch
  <2> HIDE DEF v
  <2>4. ASSUME NEW a, NEW b, \A x, y \in a : x = y, \A x, y \in b : x = y
        PROVE  ~Contradict(a, b) <=> \A x \in a : b \subseteq {x}
    BY <2>4 DEF Contradict
  <2>5. /\ \A x, y \in c.opts.action : x = y
        /\ \A x, y \in c.opts.host : x = y
        /\ \A x, y \in c.answer.action : x = y
        /\ \A x, y \in c.answer.host : x = y
        /\ \A x, y \in c.cfg.host : x = y
    BY DEF IsCaptcha
  <2>6. /\ ~Contradict(c.opts.action, c.answer.action) <=>
             \A a \in c.opts.action : c.answer.action \subseteq {a}
        /\ ~Contradict(c.cfg.host, c.answer.host) <=>
             \A h \in c.cfg.host : c.answer.host \subseteq {h}
        /\ ~Contradict(c.opts.host, c.answer.host) <=>
             \A h \in c.opts.host : c.answer.host \subseteq {h}
    BY <2>4, <2>5
  <2>7. c.answer.score < MinScore(c.cfg) <=> ~(c.answer.score >= MinScore(c.cfg))
    BY CaptchaAssumption DEF IsCaptcha, MinScore
  <2> DEFINE named == IF c.opts.action # {} THEN c.opts.action ELSE c.answer.action
  <2>8. ~Contradict(c.opts.action, c.answer.action) =>
          (~(actions # {} /\ named \cap actions = {}) <=>
            (c.direct /\ c.cfg.actions # {} =>
               /\ c.opts.action \cup c.answer.action # {}
               /\ c.opts.action \cup c.answer.action \subseteq c.cfg.actions))
    BY <2>5 DEF Contradict
  <2>9. {CaptchaVerify(w, c.token, c.opts, c.answer) : w \in c.verifier} = {"none"} <=>
          CaptchaVerify(v, c.token, c.opts, c.answer) = "none"
    BY <2>1
  <2> HIDE DEF actions, named
  <2> QED
    BY <1>3, <2>2, <2>3, <2>6, <2>7, <2>8, <2>9 DEF Human, named
<1> QED
  BY <1>1, <1>2, <1>3

\* A refusal says "unauthenticated" or "forbidden", alone or inside one other
\* error, as an AuthFailure.
IsRefusal(err) ==
    \E kind \in {"unauthenticated", "forbidden"} :
        err = <<Rich(kind)>> \/ err = <<Plain, Rich(kind)>>

\* No refusal is taken for success.
LEMMA RefusalsAre ==
    /\ <<Plain>> # NoError
    /\ \A err : IsRefusal(err) => err # NoError /\ err # <<Plain>>
    /\ \A kind \in {"unauthenticated", "forbidden"} :
         IsRefusal(Refusal(kind)) /\ IsRefusal(<<Plain, Rich(kind)>>)
<1>1. \A a : <<a>> # <<>>
  OBVIOUS
<1>2. \A a, b : <<a, b>> # <<>> /\ <<a, b>> # <<a>>
  OBVIOUS
<1>3. ASSUME NEW kind PROVE <<Rich(kind)>> # <<Plain>>
  <2>1. Rich(kind).type = "rich" /\ Plain.type = "plain"
    BY DEF Rich, Plain
  <2>2. <<Rich(kind)>>[1] = Rich(kind) /\ <<Plain>>[1] = Plain
    OBVIOUS
  <2> QED
    BY <2>1, <2>2
<1>4. \A err : IsRefusal(err) => err # NoError /\ err # <<Plain>>
  BY <1>1, <1>2, <1>3 DEF NoError, IsRefusal
<1> QED
  BY <1>1, <1>4 DEF Refusal, NoError, IsRefusal

\* JWT and S2S ask the verifier there is.
LEMMA UserGate ==
    ASSUME NEW req, IsRequest(req)
    PROVE  LET user == JWT(NewUserVerifier(UserConfig), req)
               tok == AccessToken(req)
           IN /\ user.ok <=>
                   /\ tok.form = "jwt" /\ tok.bearers <= 1
                   /\ \/ Genuine(tok, UserConfig)
                      \/ /\ UserConfig.allowLegacy
                         /\ tok.alg = "HS256" /\ tok.key = UserConfig.legacy
                   /\ InTime(tok, LeewayOf(UserConfig), req.now)
                   /\ tok.use = UseOf(UserConfig) /\ ~(tok.userID \subseteq {Blank})
              /\ user.ok \/ user.kind = "unauthenticated"
<1> DEFINE v == CHOOSE v \in NewUserVerifier(UserConfig) : TRUE
<1>1. v \in NewUserVerifier(UserConfig)
  BY VerifiersExist
<1>2. JWT(NewUserVerifier(UserConfig), req) = UserVerify(v, AccessToken(req), req.now)
  BY VerifiersExist DEF JWT
<1>3. IsToken(AccessToken(req)) /\ req.now \in Int
  BY AccessTokenIs DEF IsRequest
<1> HIDE DEF v
<1> QED
  BY <1>1, <1>2, <1>3, UserAccepted

LEMMA ServiceGate ==
    ASSUME NEW tok, IsToken(tok), NEW now \in Int
    PROVE  LET service == S2S(NewServiceVerifier(ServiceConfig), tok, now)
               allowed == ServiceConfig.allowed \ {Blank}
           IN /\ service.ok <=>
                   /\ tok.form = "jwt" /\ tok.bearers <= 1
                   /\ Genuine(tok, ServiceConfig)
                   /\ InTime(tok, LeewayOf(ServiceConfig), now)
                   /\ ~(tok.sub \subseteq {Blank})
                   /\ allowed = {} \/ tok.sub \cap allowed # {}
              /\ service.ok \/ service.kind \in {"unauthenticated", "forbidden"}
<1> DEFINE v == CHOOSE v \in NewServiceVerifier(ServiceConfig) : TRUE
<1>1. v \in NewServiceVerifier(ServiceConfig)
  BY VerifiersExist
<1>2. S2S(NewServiceVerifier(ServiceConfig), tok, now) = ServiceVerify(v, tok, now)
  BY VerifiersExist DEF S2S
<1> HIDE DEF v
<1> QED
  BY <1>1, <1>2, ServiceAccepted

\* What S2S makes of the header it has stripped, said of the header.
LEMMA ServiceGateStripped ==
    ASSUME NEW tok, IsToken(tok), NEW now \in Int
    PROVE  LET service == S2S(NewServiceVerifier(ServiceConfig), TrimBearer(tok), now)
               allowed == ServiceConfig.allowed \ {Blank}
           IN /\ service.ok <=>
                   /\ tok.form = "jwt" /\ tok.bearers <= 2
                   /\ Genuine(tok, ServiceConfig)
                   /\ InTime(tok, LeewayOf(ServiceConfig), now)
                   /\ ~(tok.sub \subseteq {Blank})
                   /\ allowed = {} \/ tok.sub \cap allowed # {}
              /\ service.ok \/ service.kind \in {"unauthenticated", "forbidden"}
<1> DEFINE t == TrimBearer(tok)
<1>1. IsToken(t) /\ t.form = tok.form /\ (t.bearers <= 1 <=> tok.bearers <= 2)
  BY Trimmed DEF IsToken
<1>2. tok.form = "jwt" =>
        /\ Genuine(t, ServiceConfig) <=> Genuine(tok, ServiceConfig)
        /\ InTime(t, LeewayOf(ServiceConfig), now) <=> InTime(tok, LeewayOf(ServiceConfig), now)
        /\ t.sub = tok.sub
  BY ClaimsSurvive DEF Genuine, InTime
<1> HIDE DEF t
<1> QED
  BY <1>1, <1>2, ServiceGate DEF t

\* The gate of an HTTP route lets pass exactly the requests whose token or
\* captcha entitles to it.
LEMMA GateIsLegit ==
    ASSUME NEW req, IsRequest(req)
    PROVE  /\ req.route \in UserRoutes \cup ServiceRoutes \cup {"captcha"} =>
                (Gate(req) = NoError <=> Legit(req))
           /\ req.route # "captcha" => Gate(req) = NoError \/ IsRefusal(Gate(req))
           /\ req.route = "captcha" => Gate(req) = NoError \/ Gate(req) = <<Plain>>
<1> DEFINE user == JWT(NewUserVerifier(UserConfig), req)
           tok == AccessToken(req)
           service == S2S(NewServiceVerifier(ServiceConfig), TrimBearer(req.header), req.now)
<1>1. CASE req.route = "captcha"
  <2>1. Gate(req) = IF {CaptchaVerify(v, req.captcha.token, req.captcha.opts,
                                      req.captcha.answer) :
                        v \in req.captcha.verifier} # {"none"} THEN <<Plain>> ELSE NoError
    BY <1>1 DEF Gate, UserRoutes, ServiceRoutes
  <2>2. Legit(req) <=> Human(req.captcha)
    BY <1>1 DEF Legit
  <2>3. {CaptchaVerify(v, req.captcha.token, req.captcha.opts, req.captcha.answer) :
           v \in req.captcha.verifier} = {"none"} <=> Human(req.captcha)
    BY <1>1, CaptchaAccepts DEF IsRequest
  <2> QED
    BY <1>1, <2>1, <2>2, <2>3, RefusalsAre
<1>2. CASE req.route \in UserRoutes
  <2>1. /\ req.route # "captcha" /\ req.route \notin ServiceRoutes
        /\ req.route \in {"user", "admin", "permission"}
    BY <1>2 DEF UserRoutes, ServiceRoutes
  <2>2. Gate(req) =
          IF ~user.ok THEN Refusal(user.kind)
          ELSE IF req.route = "admin" /\ ~Require(tok, tok.roles, AdminRoles)
               THEN Refusal("forbidden")
          ELSE IF req.route = "permission" /\ ~Require(tok, tok.permissions, Permissions)
               THEN Refusal("forbidden")
          ELSE NoError
    BY <1>2, <2>1 DEF Gate
  <2>3. Legit(req) <=>
          /\ tok.form = "jwt" /\ tok.bearers <= 1
          /\ \/ Genuine(tok, UserConfig)
             \/ UserConfig.allowLegacy /\ tok.alg = "HS256" /\ tok.key = UserConfig.legacy
          /\ InTime(tok, LeewayOf(UserConfig), req.now)
          /\ tok.use = UseOf(UserConfig) /\ ~(tok.userID \subseteq {Blank})
          /\ \/ tok.fullAccess \/ req.route = "user"
             \/ req.route = "admin" /\ tok.roles \cap AdminRoles # {}
             \/ req.route = "permission" /\ tok.permissions \cap Permissions # {}
    BY <1>2, <2>1 DEF Legit
  <2>4. /\ user.ok <=>
             /\ tok.form = "jwt" /\ tok.bearers <= 1
             /\ \/ Genuine(tok, UserConfig)
                \/ UserConfig.allowLegacy /\ tok.alg = "HS256" /\ tok.key = UserConfig.legacy
             /\ InTime(tok, LeewayOf(UserConfig), req.now)
             /\ tok.use = UseOf(UserConfig) /\ ~(tok.userID \subseteq {Blank})
        /\ user.ok \/ user.kind = "unauthenticated"
    BY UserGate
  <2> HIDE DEF user, tok
  <2>5. Gate(req) = NoError <=>
          /\ user.ok
          /\ req.route = "admin" => Require(tok, tok.roles, AdminRoles)
          /\ req.route = "permission" => Require(tok, tok.permissions, Permissions)
    BY <2>1, <2>2, <2>4, RefusalsAre
  <2>6. Gate(req) = NoError \/ IsRefusal(Gate(req))
    BY <2>2, <2>4, RefusalsAre
  <2> QED
    BY <2>1, <2>3, <2>4, <2>5, <2>6 DEF Require
<1>3. CASE req.route \in ServiceRoutes
  <2>1. /\ req.route # "captcha" /\ req.route \notin UserRoutes
        /\ req.route \notin {"admin", "permission"} /\ req.route \notin GrpcRoutes
    BY <1>3 DEF UserRoutes, ServiceRoutes, GrpcRoutes
  <2>2. Gate(req) =
          IF ~service.ok THEN <<Plain, Rich(service.kind)>>
          ELSE IF ~HasAnyScope(req.header, ScopesOf(req.route)) THEN Refusal("forbidden")
          ELSE NoError
    BY <1>3, <2>1 DEF Gate
  <2>3. Legit(req) <=>
          /\ req.header.form = "jwt" /\ req.header.bearers <= 2
          /\ Genuine(req.header, ServiceConfig)
          /\ InTime(req.header, LeewayOf(ServiceConfig), req.now)
          /\ ~(req.header.sub \subseteq {Blank})
          /\ LET allowed == ServiceConfig.allowed \ {Blank}
             IN allowed = {} \/ req.header.sub \cap allowed # {}
          /\ ScopesOf(req.route) = {} \/ req.header.scopes \cap Scopes # {}
    BY <2>1 DEF Legit
  <2>4. /\ service.ok <=>
             /\ req.header.form = "jwt" /\ req.header.bearers <= 2
             /\ Genuine(req.header, ServiceConfig)
             /\ InTime(req.header, LeewayOf(ServiceConfig), req.now)
             /\ ~(req.header.sub \subseteq {Blank})
             /\ LET allowed == ServiceConfig.allowed \ {Blank}
                IN allowed = {} \/ req.header.sub \cap allowed # {}
        /\ service.ok \/ service.kind \in {"unauthenticated", "forbidden"}
    BY ServiceGateStripped DEF IsRequest
  <2> HIDE DEF service
  <2>5. HasAnyScope(req.header, ScopesOf(req.route)) <=>
          ScopesOf(req.route) = {} \/ req.header.scopes \cap Scopes # {}
    BY DEF HasAnyScope, ScopesOf
  <2>6. Gate(req) = NoError <=> service.ok /\ HasAnyScope(req.header, ScopesOf(req.route))
    BY <2>2, <2>4, RefusalsAre
  <2>7. Gate(req) = NoError \/ IsRefusal(Gate(req))
    BY <2>2, <2>4, RefusalsAre
  <2> QED
    BY <2>1, <2>3, <2>4, <2>5, <2>6, <2>7
<1>4. CASE req.route \notin UserRoutes \cup ServiceRoutes \cup {"captcha"}
  BY <1>4 DEF Gate, UserRoutes, ServiceRoutes
<1> QED
  BY <1>1, <1>2, <1>3, <1>4

\* The gate of the gRPC routes, likewise.
LEMMA GrpcGateIsLegit ==
    ASSUME NEW req, IsRequest(req)
    PROVE  /\ req.route \in GrpcRoutes \ {"grpc_health"} => (GrpcGate(req) = "OK" <=> Legit(req))
           /\ GrpcGate(req) \in {"OK", "Unauthenticated", "PermissionDenied"}
<1> DEFINE service == S2S(NewServiceVerifier(ServiceConfig), req.header, req.now)
<1>1. SUFFICES ASSUME req.route \in GrpcRoutes \ {"grpc_health"}
               PROVE  GrpcGate(req) = "OK" <=> Legit(req)
  BY DEF GrpcGate
<1>2. /\ req.route # "captcha" /\ req.route \notin UserRoutes
      /\ req.route \in GrpcRoutes /\ req.route # "grpc_health"
  BY <1>1 DEF UserRoutes, GrpcRoutes
<1>3. GrpcGate(req) = "OK" <=> service.ok /\ HasAnyScope(req.header, ScopesOf(req.route))
  BY <1>2 DEF GrpcGate, Authenticated
<1>4. Legit(req) <=>
        /\ req.header.form = "jwt" /\ req.header.bearers <= 1
        /\ Genuine(req.header, ServiceConfig)
        /\ InTime(req.header, LeewayOf(ServiceConfig), req.now)
        /\ ~(req.header.sub \subseteq {Blank})
        /\ LET allowed == ServiceConfig.allowed \ {Blank}
           IN allowed = {} \/ req.header.sub \cap allowed # {}
        /\ ScopesOf(req.route) = {} \/ req.header.scopes \cap Scopes # {}
  BY <1>2 DEF Legit
<1>5. service.ok <=>
        /\ req.header.form = "jwt" /\ req.header.bearers <= 1
        /\ Genuine(req.header, ServiceConfig)
        /\ InTime(req.header, LeewayOf(ServiceConfig), req.now)
        /\ ~(req.header.sub \subseteq {Blank})
        /\ LET allowed == ServiceConfig.allowed \ {Blank}
           IN allowed = {} \/ req.header.sub \cap allowed # {}
  BY ServiceGate DEF IsRequest
<1>6. HasAnyScope(req.header, ScopesOf(req.route)) <=>
        ScopesOf(req.route) = {} \/ req.header.scopes \cap Scopes # {}
  BY DEF HasAnyScope, ScopesOf
<1> HIDE DEF service
<1> QED
  BY <1>3, <1>4, <1>5, <1>6

-----------------------------------------------------------------------------
(* Errors and their status *)

\* Every kind has the status of a failure, and refusals have theirs.
LEMMA KindStatus ==
    /\ \A kind : StatusFromKind(kind) \in 400 .. 599
    /\ StatusFromKind("unauthenticated") = 401 /\ StatusFromKind("forbidden") = 403
    /\ StatusFromKind("unexpected") = 500 /\ StatusFromKind("unavailable") = 503
    /\ StatusFromKind("conflict") = 409
BY DEF StatusFromKind, StatusOfKind

\* The error handler answers an error with the status of a failure, and a
\* refusal with 401 or 403.
LEMMA ErrorStatusIs ==
    ASSUME NEW err, IsError(err), err # NoError
    PROVE  ErrorStatus(err) \in 400 .. 599
BY KindStatus DEF ErrorStatus, IsError

LEMMA RefusalStatus ==
    ASSUME NEW err, IsRefusal(err)
    PROVE  IsError(err) /\ ~Has(err, "maxbytes") /\ ErrorStatus(err) \in {401, 403}
<1>1. PICK kind \in {"unauthenticated", "forbidden"} :
        err = <<Rich(kind)>> \/ err = <<Plain, Rich(kind)>>
  BY DEF IsRefusal
<1>2. /\ Rich(kind).type = "rich" /\ Rich(kind).kind = kind /\ kind # "none"
      /\ Plain.type = "plain"
  BY DEF Rich, Plain
<1>3. PICK n \in {1, 2} : /\ DOMAIN err = 1 .. n
                          /\ err[n] = Rich(kind)
                          /\ \A i \in 1 .. n : i # n => err[i] = Plain
  BY <1>1
<1>4. /\ ~Has(err, "validation") /\ ~Has(err, "maxbytes") /\ Has(err, "rich")
      /\ \A i \in DOMAIN err : err[i].type # "http"
  BY <1>2, <1>3 DEF Has
<1>5. IsError(err)
  BY <1>3, <1>4 DEF IsError
<1>6. {i \in DOMAIN err : err[i].type = "rich" /\ err[i].kind # "none"} = {n}
  BY <1>2, <1>3
<1>7. Min({n}) = n
  BY DEF Min
<1>8. Kind(err) = kind
  BY <1>2, <1>3, <1>6, <1>7 DEF Kind
<1> QED
  BY <1>4, <1>5, <1>8, KindStatus DEF ErrorStatus

\* The metrics count an error as a failure.
LEMMA CountedStatus ==
    ASSUME NEW err, IsError(err), NEW current \in Nat
    PROVE  StatusFromHandlerError(err, current) \in Nat
           /\ StatusFromHandlerError(err, current) >= 400
<1>1. Has(err, "http") => As(err, "http").code \in 400 .. 599
  <2>1. SUFFICES ASSUME Has(err, "http") PROVE As(err, "http").code \in 400 .. 599
    OBVIOUS
  <2> DEFINE found == {i \in DOMAIN err : err[i].type = "http"}
  <2>2. found # {} /\ found \subseteq Nat
    BY <2>1 DEF Has, IsError
  <2>3. Min(found) \in found
    BY <2>2, LeastElement
  <2> QED
    BY <2>3 DEF As, IsError
<1> QED
  BY <1>1, KindStatus DEF StatusFromHandlerError

\* The answer to a failure of the handler's own is no definite refusal.
LEMMA OwnFailureStatus ==
    ASSUME NEW err, IsError(err), err # NoError, OwnFailure(err)
    PROVE  ErrorStatus(err) \in {409, 500, 503}
<1>1. CASE err[1].type = "rich" /\ err[1].kind \in {"unexpected", "unavailable", "conflict"}
  <2> DEFINE kinds == {i \in DOMAIN err : err[i].type = "rich" /\ err[i].kind # "none"}
  <2>1. 1 \in kinds /\ kinds \subseteq Nat \ {0}
    BY <1>1 DEF IsError
  <2>2. Min(kinds) = 1
    <3>1. Min(kinds) \in kinds /\ Min(kinds) <= 1
      BY <2>1, LeastElement
    <3> QED
      BY <2>1, <3>1
  <2>3. Kind(err) = err[1].kind
    BY <2>1, <2>2 DEF Kind
  <2>4. Has(err, "rich")
    BY <1>1 DEF Has, IsError
  <2> QED
    BY <1>1, <2>3, <2>4, KindStatus DEF ErrorStatus, OwnFailure
<1>2. CASE err[1].type = "plain" /\ ~Has(err, "rich")
  BY <1>2 DEF ErrorStatus, OwnFailure
<1> QED
  BY <1>1, <1>2 DEF OwnFailure

-----------------------------------------------------------------------------
(* The chain of middleware *)

\* What a handler, a gate or the router hands to the middleware around it.
IsHandled(x) ==
    /\ DOMAIN x = {"res", "err", "panic", "ran"}
    /\ IsError(x.err)
    /\ x.res.writes \in {0, 1} /\ x.res.status \in 200 .. 599
    /\ x.res.writes = 0 => x.res.status = 200

LEMMA HandleIs ==
    ASSUME NEW req, IsRequest(req)
    PROVE  LET x == Handle(req)
               routed == req.route \notin {"unknown"} \cup InfraRoutes
           IN /\ IsHandled(x)
              /\ x.ran <=> routed /\ Gate(req) = NoError
              /\ x.ran => /\ x.err = req.err
                          /\ x.res.writes = 0 => req.wrote = 0
                          /\ x.res.writes = 1 => x.res.status = req.wrote
              /\ ~x.ran => ~x.panic
              /\ routed /\ ~x.ran => x.err = Gate(req) /\ x.res.writes = 0
<1> DEFINE x == Handle(req)
           written == IF req.wrote = 0 THEN Fresh ELSE Write(Fresh, req.wrote)
           none == [res |-> Fresh, err |-> NoError, panic |-> FALSE, ran |-> FALSE]
<1>1. IsError(NoError) /\ IsError(<<Http(404)>>) /\ IsError(<<Plain>>)
  <2>1. IsError(NoError)
    BY DEF IsError, NoError
  <2>2. IsError(<<Http(404)>>)
    <3>1. Http(404).code = 404
      BY DEF Http
    <3> QED
      BY <3>1 DEF IsError
  <2>3. IsError(<<Plain>>)
    <3>1. Plain.type = "plain"
      BY DEF Plain
    <3> QED
      BY <3>1 DEF IsError
  <2> QED
    BY <2>1, <2>2, <2>3
<1>2. Fresh.writes = 0 /\ Fresh.status = 200
  BY DEF Fresh
<1>3. \A status : Write(Fresh, status).writes = 1 /\ Write(Fresh, status).status = status
  BY DEF Fresh, Write
<1>4. IsError(Gate(req))
  BY <1>1, GateIsLegit, RefusalStatus
<1>5. CASE req.route = "unknown"
  <2>1. x = [none EXCEPT !.err = <<Http(404)>>]
    BY <1>5 DEF Handle
  <2>2. /\ DOMAIN x = {"res", "err", "panic", "ran"} /\ x.err = <<Http(404)>>
        /\ x.res = Fresh /\ x.panic = FALSE /\ x.ran = FALSE
    BY <2>1
  <2> HIDE DEF x
  <2> QED
    BY <1>1, <1>2, <1>5, <2>2 DEF IsHandled, x
<1>6. CASE req.route \in InfraRoutes
  <2>1. PICK status \in {200, 503} : x = [none EXCEPT !.res = Write(Fresh, status)]
    <3>1. CASE req.route \in {"live", "health"}
      BY <3>1 DEF Handle
    <3>2. CASE req.route = "ready"
      BY <3>2 DEF Handle
    <3> QED
      BY <1>6, <3>1, <3>2 DEF InfraRoutes
  <2>2. /\ DOMAIN x = {"res", "err", "panic", "ran"} /\ x.err = NoError
        /\ x.res = Write(Fresh, status) /\ x.panic = FALSE /\ x.ran = FALSE
    BY <2>1
  <2> HIDE DEF x
  <2> QED
    BY <1>1, <1>3, <1>6, <2>2 DEF IsHandled, x
<1>7. CASE req.route \notin {"unknown"} \cup InfraRoutes /\ Gate(req) # NoError
  <2>1. x = [none EXCEPT !.err = Gate(req)]
    BY <1>7 DEF Handle, InfraRoutes
  <2>2. /\ DOMAIN x = {"res", "err", "panic", "ran"} /\ x.err = Gate(req)
        /\ x.res = Fresh /\ x.panic = FALSE /\ x.ran = FALSE
    BY <2>1
  <2> HIDE DEF x
  <2> QED
    BY <1>2, <1>4, <1>7, <2>2 DEF IsHandled, x
<1>8. CASE req.route \notin {"unknown"} \cup InfraRoutes /\ Gate(req) = NoError
  <2>1. x = [res |-> written, err |-> req.err, panic |-> req.panic, ran |-> TRUE]
    BY <1>8 DEF Handle, InfraRoutes
  <2>2. /\ DOMAIN x = {"res", "err", "panic", "ran"} /\ x.err = req.err
        /\ x.res = written /\ x.ran = TRUE
    BY <2>1
  <2>3. /\ written.writes \in {0, 1} /\ written.status \in 200 .. 599
        /\ written.writes = 0 => written.status = 200 /\ req.wrote = 0
        /\ written.writes = 1 => written.status = req.wrote
    BY <1>2, <1>3 DEF IsRequest
  <2> HIDE DEF x, written
  <2> QED
    BY <1>8, <2>2, <2>3 DEF IsHandled, IsRequest, x
<1> QED
  BY <1>5, <1>6, <1>7, <1>8

\* The middleware keeps who ran and whether there is an error; whatever part of
\* it calls the error handler, the response is written once: by the handler if
\* it has written, and otherwise with the status of the panic or the error.
LEMMA AnsweredOnce ==
    ASSUME NEW req, NEW x, IsHandled(x)
    PROVE  LET inner == Limit(x)
               y == Tracing(req, inner)
               res == Answer(y)
           IN /\ y.ran = x.ran /\ y.panic = x.panic /\ y.err = inner.err
              /\ IsHandled(inner) /\ inner.res = x.res
              /\ inner.err = NoError <=> x.err = NoError
              /\ ~Has(x.err, "maxbytes") => inner.err = x.err
              /\ y.res.status \in 200 .. 599
              /\ res.writes = 1
              /\ res.status = IF x.res.writes = 1 THEN x.res.status
                              ELSE IF x.panic THEN 500
                              ELSE IF x.err # NoError THEN ErrorStatus(inner.err)
                              ELSE 200
              /\ ~x.panic /\ x.err = NoError => y.res.status = res.status
<1> DEFINE inner == Limit(x)
           y == Tracing(req, inner)
           res == Answer(y)
<1>1. /\ <<Http(413)>> # NoError /\ IsError(<<Http(413)>>)
      /\ <<Plain>> # NoError /\ ErrorStatus(<<Plain>>) = 500
  <2>1. /\ Http(413).code = 413 /\ Plain.type = "plain"
        /\ <<Plain>>[1] = Plain /\ DOMAIN <<Plain>> = {1}
    BY DEF Http, Plain
  <2>2. ~Has(<<Plain>>, "validation") /\ ~Has(<<Plain>>, "rich")
    BY <2>1 DEF Has
  <2>3. ErrorStatus(<<Plain>>) = 500
    BY <2>1, <2>2 DEF ErrorStatus
  <2> QED
    BY <2>1, <2>3 DEF IsError, NoError
<1>2. /\ IsHandled(inner) /\ inner.res = x.res /\ inner.panic = x.panic /\ inner.ran = x.ran
      /\ inner.err = NoError <=> x.err = NoError
      /\ ~Has(x.err, "maxbytes") => inner.err = x.err
  <2>1. CASE inner = x
    BY <2>1
  <2>2. CASE inner = [x EXCEPT !.err = <<Http(413)>>] /\ Has(x.err, "maxbytes")
    <3>1. /\ DOMAIN inner = DOMAIN x /\ inner.err = <<Http(413)>> /\ inner.res = x.res
          /\ inner.panic = x.panic /\ inner.ran = x.ran
      BY <2>2 DEF IsHandled
    <3>2. x.err # NoError
      BY <2>2 DEF Has, NoError
    <3> HIDE DEF inner
    <3> QED
      BY <1>1, <2>2, <3>1, <3>2 DEF IsHandled
  <2> QED
    BY <2>1, <2>2 DEF Limit
<1> HIDE DEF inner
<1>3. inner.err # NoError => ErrorStatus(inner.err) \in 400 .. 599
  BY <1>2, ErrorStatusIs DEF IsHandled
<1>4. \A r, e : /\ r.writes = 1 => ErrorHandler(e, r) = r
                /\ r.writes = 0 => /\ ErrorHandler(e, r).writes = 1
                                   /\ ErrorHandler(e, r).status = ErrorStatus(e)
  BY DEF ErrorHandler, Committed, Write
<1>5. /\ y.ran = x.ran /\ y.panic = x.panic /\ y.err = inner.err
      /\ y.res = IF req.tracing /\ ~x.panic /\ inner.err # NoError
                 THEN ErrorHandler(inner.err, x.res) ELSE x.res
  <2>1. CASE req.tracing /\ ~x.panic /\ inner.err # NoError
    <3>1. y = [inner EXCEPT !.res = ErrorHandler(inner.err, inner.res)]
      BY <1>2, <2>1 DEF Tracing
    <3>2. DOMAIN inner = {"res", "err", "panic", "ran"}
      BY <1>2 DEF IsHandled
    <3>3. /\ y.ran = inner.ran /\ y.panic = inner.panic /\ y.err = inner.err
          /\ y.res = ErrorHandler(inner.err, inner.res)
      BY <3>1, <3>2
    <3> HIDE DEF y
    <3> QED
      BY <1>2, <2>1, <3>3
  <2>2. CASE ~(req.tracing /\ ~x.panic /\ inner.err # NoError)
    <3>1. y = inner
      BY <1>2, <2>2 DEF Tracing
    <3> HIDE DEF y
    <3> QED
      BY <1>2, <2>2, <3>1
  <2> QED
    BY <2>1, <2>2
<1> HIDE DEF y
<1>6. /\ y.res.writes \in {0, 1} /\ y.res.status \in 200 .. 599
      /\ x.res.writes = 1 => y.res = x.res
      /\ x.res.writes = 0 /\ y.res.writes = 1 =>
           ~x.panic /\ inner.err # NoError /\ y.res.status = ErrorStatus(inner.err)
      /\ y.res.writes = 0 => y.res.status = 200
  BY <1>3, <1>4, <1>5 DEF IsHandled
<1>7. /\ res.writes = 1
      /\ y.res.writes = 1 => res = y.res
      /\ y.res.writes = 0 => res.status = IF x.panic THEN 500
                                          ELSE IF inner.err # NoError THEN ErrorStatus(inner.err)
                                          ELSE 200
  <2> DEFINE r == IF y.panic THEN ErrorHandler(<<Plain>>, y.res)
                  ELSE IF y.err # NoError THEN ErrorHandler(y.err, y.res) ELSE y.res
  <2>1. res = IF Committed(r) THEN r ELSE Write(r, 200)
    BY DEF Answer
  <2>2. CASE y.res.writes = 1
    <3>1. r = y.res
      BY <1>4, <2>2
    <3> HIDE DEF r, res
    <3> QED
      BY <2>1, <2>2, <3>1 DEF Committed
  <2>3. CASE y.res.writes = 0 /\ (x.panic \/ inner.err # NoError)
    <3>1. /\ r.writes = 1
          /\ r.status = IF x.panic THEN 500 ELSE ErrorStatus(inner.err)
      BY <1>1, <1>4, <1>5, <2>3
    <3> HIDE DEF r, res
    <3> QED
      BY <2>1, <2>3, <3>1 DEF Committed
  <2>4. CASE y.res.writes = 0 /\ ~x.panic /\ inner.err = NoError
    <3>1. r = y.res
      BY <1>5, <2>4
    <3> HIDE DEF r, res
    <3> QED
      BY <2>1, <2>4, <3>1 DEF Committed, Write
  <2> QED
    BY <1>6, <2>2, <2>3, <2>4
<1> HIDE DEF res
<1>8. res.status = IF x.res.writes = 1 THEN x.res.status
                   ELSE IF x.panic THEN 500
                   ELSE IF x.err # NoError THEN ErrorStatus(inner.err)
                   ELSE 200
  BY <1>2, <1>6, <1>7 DEF IsHandled
<1>9. ~x.panic /\ x.err = NoError => y.res.status = res.status
  BY <1>2, <1>6, <1>7
<1> QED
  BY <1>2, <1>5, <1>6, <1>7, <1>8, <1>9 DEF inner, y, res

-----------------------------------------------------------------------------
(* Requests *)

\* An exchange over HTTP, field by field.
LEMMA HttpExchangeIs ==
    ASSUME NEW req, IsRequest(req)
    PROVE  LET x == Handle(req)
               inner == Limit(x)
               y == Tracing(req, inner)
               res == Answer(y)
               e == HttpExchange(req)
           IN /\ e.req = {req} /\ e.ran = x.ran /\ e.panic = x.panic
              /\ e.failed <=> x.err # NoError
              /\ e.writes = res.writes /\ e.status = res.status
              /\ e.counted = Metrics(req, y)
              /\ e.logged = IF req.route \in SkippedRoutes \/ x.panic THEN {} ELSE {LogStatus(inner)}
              /\ e.outcome = ClassifyHTTP(res.status, req.cut)
              /\ e.label = HttpLabel(res.status, req.cut)
<1> DEFINE x == Handle(req)
           inner == Limit(x)
           y == Tracing(req, inner)
           res == Answer(y)
           e == HttpExchange(req)
<1>1. e = [req |-> {req}, ran |-> y.ran, panic |-> y.panic, failed |-> y.err # NoError,
           writes |-> res.writes, status |-> res.status, counted |-> Metrics(req, y),
           logged |-> IF req.route \in SkippedRoutes \/ y.panic THEN {} ELSE {LogStatus(inner)},
           outcome |-> ClassifyHTTP(res.status, req.cut),
           label |-> HttpLabel(res.status, req.cut)]
  BY DEF HttpExchange
<1>2. /\ y.ran = x.ran /\ y.panic = x.panic /\ y.err = inner.err
      /\ inner.err = NoError <=> x.err = NoError
  BY HandleIs, AnsweredOnce
<1> HIDE DEF x, inner, y, res, e
<1>3. /\ e.req = {req} /\ e.ran = y.ran /\ e.panic = y.panic
      /\ e.failed <=> y.err # NoError
      /\ e.writes = res.writes /\ e.status = res.status
      /\ e.counted = Metrics(req, y)
      /\ e.logged = IF req.route \in SkippedRoutes \/ y.panic THEN {} ELSE {LogStatus(inner)}
      /\ e.outcome = ClassifyHTTP(res.status, req.cut)
      /\ e.label = HttpLabel(res.status, req.cut)
  BY <1>1
<1> QED
  BY <1>2, <1>3 DEF x, inner, y, res, e

\* The other exchanges.
LEMMA OtherExchangesAre ==
    ASSUME NEW req
    PROVE  /\ NotSent(req).req = {req} /\ ~NotSent(req).ran
           /\ GrpcExchange(req).req = {req}
           /\ GrpcExchange(req).ran <=> GrpcGate(req) = "OK"
           /\ GrpcExchange(req).outcome = "none"
           /\ GrpcGate(req) # "OK" => GrpcExchange(req).label = GrpcLabel(GrpcGate(req), req.cut)
BY DEF NotSent, GrpcExchange

\* HandlerNeedsLegit, of a request.
LEMMA RunsIfLegit ==
    ASSUME NEW req, IsRequest(req), req.route \in Protected \cup {"captcha"}, Reaches(req)
    PROVE  Exchange(req).ran <=> Legit(req)
<1>1. CASE req.route \in GrpcRoutes
  <2>1. req.route \in GrpcRoutes \ {"grpc_health"}
    BY <1>1 DEF Protected, UserRoutes, ServiceRoutes, GrpcRoutes
  <2>2. Exchange(req) = GrpcExchange(req)
    BY <1>1 DEF Exchange
  <2>3. GrpcExchange(req).ran <=> GrpcGate(req) = "OK"
    BY OtherExchangesAre
  <2>4. GrpcGate(req) = "OK" <=> Legit(req)
    BY <2>1, GrpcGateIsLegit
  <2> QED
    BY <2>2, <2>3, <2>4
<1>2. CASE req.route \notin GrpcRoutes
  <2>1. /\ req.route \in UserRoutes \cup ServiceRoutes \cup {"captcha"}
        /\ req.route \notin {"unknown"} \cup InfraRoutes
    BY <1>2 DEF Protected, UserRoutes, ServiceRoutes, GrpcRoutes, InfraRoutes
  <2>2. Exchange(req) = HttpExchange(req)
    BY <1>2 DEF Exchange
  <2>3. HttpExchange(req).ran = Handle(req).ran
    BY HttpExchangeIs
  <2>4. Handle(req).ran <=> Gate(req) = NoError
    BY <2>1, HandleIs
  <2>5. Gate(req) = NoError <=> Legit(req)
    BY <2>1, GateIsLegit
  <2> QED
    BY <2>2, <2>3, <2>4, <2>5
<1> QED
  BY <1>1, <1>2

\* OneAnswerOneCount, of a request.
LEMMA AnsweredAndCounted ==
    ASSUME NEW req, IsRequest(req)
    PROVE  LET e == HttpExchange(req)
           IN /\ e.writes = 1
              /\ ~e.panic => (e.counted = {} <=> req.route \in InfraRoutes)
              /\ e.counted \subseteq
                   IF e.failed \/ e.status >= 400 THEN {"4xx", "5xx"} ELSE {"2xx", "3xx"}
              /\ e.failed => \A status \in e.logged :
                   status >= 400 \/ (status = e.status /\ status # 200)
<1> DEFINE x == Handle(req)
           inner == Limit(x)
           y == Tracing(req, inner)
           res == Answer(y)
           e == HttpExchange(req)
<1>1. /\ e.ran = x.ran /\ e.panic = x.panic
      /\ e.failed <=> x.err # NoError
      /\ e.writes = res.writes /\ e.status = res.status /\ e.counted = Metrics(req, y)
      /\ e.logged = IF req.route \in SkippedRoutes \/ x.panic THEN {} ELSE {LogStatus(inner)}
  BY HttpExchangeIs
<1>2. IsHandled(x)
  BY HandleIs
<1>3. /\ y.panic = x.panic /\ y.err = inner.err
      /\ IsHandled(inner) /\ inner.res = x.res
      /\ inner.err = NoError <=> x.err = NoError
      /\ y.res.status \in 200 .. 599 /\ res.writes = 1
      /\ x.res.writes = 1 => res.status = x.res.status
      /\ ~x.panic /\ x.err = NoError => y.res.status = res.status
  BY <1>2, AnsweredOnce
<1> HIDE DEF x, inner, y, res, e
<1>4. ~e.panic => (e.counted = {} <=> req.route \in InfraRoutes)
  BY <1>1, <1>3 DEF Metrics
<1>5. e.counted \subseteq IF e.failed \/ e.status >= 400 THEN {"4xx", "5xx"} ELSE {"2xx", "3xx"}
  <2>1. CASE req.route \in InfraRoutes \/ x.panic
    BY <1>1, <1>3, <2>1 DEF Metrics
  <2>2. CASE ~(req.route \in InfraRoutes \/ x.panic) /\ x.err # NoError
    <3> DEFINE code == StatusFromHandlerError(y.err, y.res.status)
    <3>1. e.counted = {StatusClass(code)}
      BY <1>1, <1>3, <2>2 DEF Metrics
    <3>2. code \in Nat /\ code >= 400
      BY <1>3, CountedStatus DEF IsHandled
    <3> HIDE DEF code
    <3> QED
      BY <1>1, <2>2, <3>1, <3>2 DEF StatusClass
  <2>3. CASE ~(req.route \in InfraRoutes \/ x.panic) /\ x.err = NoError
    <3>1. e.counted = {StatusClass(res.status)}
      BY <1>1, <1>3, <2>3 DEF Metrics
    <3> QED
      BY <1>1, <1>3, <2>3, <3>1 DEF StatusClass
  <2> QED
    BY <2>1, <2>2, <2>3
<1>6. ASSUME e.failed, NEW status \in e.logged
      PROVE  status >= 400 \/ (status = e.status /\ status # 200)
  <2>1. status = LogStatus(inner) /\ inner.err # NoError
    BY <1>1, <1>3, <1>6
  <2>2. inner.err[1].type = "http" => inner.err[1].code \in 400 .. 599
    BY <1>3, <2>1 DEF IsHandled, IsError
  <2>3. inner.res.status \notin {0, 200} => inner.res.status = res.status
    BY <1>2, <1>3 DEF IsHandled
  <2> QED
    BY <1>1, <1>3, <2>1, <2>2, <2>3 DEF LogStatus, IsHandled
<1> QED
  BY <1>1, <1>3, <1>4, <1>5, <1>6 DEF e

\* OutcomeIsHonest, of a request.
LEMMA HonestOutcome ==
    ASSUME NEW req, IsRequest(req)
    PROVE  LET e == Exchange(req)
           IN /\ e.outcome = "definite_failure" /\ e.ran /\ req.effect =>
                   req.cut = "undecodable" \/ SaidRefused(req)
              /\ req.route \in Protected /\ req.cut = "none" /\ ~e.ran =>
                   /\ e.outcome \in {"none", "definite_failure"}
                   /\ e.label \in {"unauthenticated", "forbidden"}
<1>1. CASE ~Reaches(req)
  <2>1. Exchange(req) = NotSent(req) /\ req.cut # "none"
    BY <1>1 DEF Exchange, Reaches
  <2>2. ~NotSent(req).ran
    BY OtherExchangesAre
  <2> QED
    BY <2>1, <2>2
<1>2. CASE Reaches(req) /\ req.route \in GrpcRoutes
  <2>1. Exchange(req) = GrpcExchange(req)
    BY <1>2 DEF Exchange
  <2>2. GrpcLabel("Unauthenticated", "none") = "unauthenticated"
        /\ GrpcLabel("PermissionDenied", "none") = "forbidden"
    BY DEF GrpcLabel, GrpcLabels
  <2>3. GrpcGate(req) \in {"OK", "Unauthenticated", "PermissionDenied"}
    BY GrpcGateIsLegit
  <2>4. /\ GrpcExchange(req).ran <=> GrpcGate(req) = "OK"
        /\ GrpcExchange(req).outcome = "none"
        /\ GrpcGate(req) # "OK" => GrpcExchange(req).label = GrpcLabel(GrpcGate(req), req.cut)
    BY OtherExchangesAre
  <2> QED
    BY <2>1, <2>2, <2>3, <2>4
<1>3. CASE Reaches(req) /\ req.route \notin GrpcRoutes
  <2> DEFINE x == Handle(req)
             inner == Limit(x)
             res == Answer(Tracing(req, inner))
             e == HttpExchange(req)
  <2>1. Exchange(req) = e
    BY <1>3 DEF Exchange
  <2>2. /\ e.ran = x.ran /\ e.outcome = ClassifyHTTP(res.status, req.cut)
        /\ e.label = HttpLabel(res.status, req.cut)
    BY HttpExchangeIs
  <2>3. LET routed == req.route \notin {"unknown"} \cup InfraRoutes
        IN /\ IsHandled(x)
           /\ x.ran <=> routed /\ Gate(req) = NoError
           /\ x.ran => /\ x.err = req.err
                       /\ x.res.writes = 0 => req.wrote = 0
                       /\ x.res.writes = 1 => x.res.status = req.wrote
           /\ ~x.ran => ~x.panic
           /\ routed /\ ~x.ran => x.err = Gate(req) /\ x.res.writes = 0
    BY HandleIs
  <2>4. /\ inner.err = NoError <=> x.err = NoError
        /\ ~Has(x.err, "maxbytes") => inner.err = x.err
        /\ res.status = IF x.res.writes = 1 THEN x.res.status
                        ELSE IF x.panic THEN 500
                        ELSE IF x.err # NoError THEN ErrorStatus(inner.err)
                        ELSE 200
    BY <2>3, AnsweredOnce
  <2> HIDE DEF x, inner, res, e
  <2>5. ASSUME e.ran, e.outcome = "definite_failure", req.cut # "undecodable"
        PROVE  SaidRefused(req)
    <3>1. req.cut # "local"
      BY <1>3 DEF Reaches
    <3>2. res.status \in 400 .. 499 \ {408, 429, 409}
      BY <2>2, <2>5, <3>1 DEF ClassifyHTTP, IsDefiniteLocal
    <3>3. CASE x.res.writes = 1
      BY <2>2, <2>3, <2>4, <2>5, <3>2, <3>3 DEF SaidRefused
    <3>4. CASE x.res.writes = 0
      <4>1. req.wrote = 0 /\ req.err = x.err /\ x.err # NoError
            /\ res.status = ErrorStatus(inner.err)
        BY <2>2, <2>3, <2>4, <2>5, <3>2, <3>4
      <4>2. ASSUME OwnFailure(req.err) PROVE FALSE
        <5>1. inner.err = req.err
          BY <2>4, <4>1, <4>2 DEF OwnFailure
        <5>2. IsError(req.err)
          BY DEF IsRequest
        <5>3. ErrorStatus(req.err) \in {409, 500, 503}
          BY <4>1, <4>2, <5>2, OwnFailureStatus
        <5> QED
          BY <3>2, <4>1, <5>1, <5>3
      <4> QED
        BY <4>1, <4>2 DEF SaidRefused
    <3> QED
      BY <2>3, <3>3, <3>4 DEF IsHandled
  <2>6. ASSUME req.route \in Protected, req.cut = "none", ~e.ran
        PROVE  e.outcome = "definite_failure" /\ e.label \in {"unauthenticated", "forbidden"}
    <3>1. req.route \notin {"unknown"} \cup InfraRoutes /\ req.route # "captcha"
      BY <2>6 DEF Protected, UserRoutes, ServiceRoutes, GrpcRoutes, InfraRoutes
    <3>2. x.err = Gate(req) /\ x.res.writes = 0 /\ ~x.panic /\ IsRefusal(Gate(req))
      BY <2>2, <2>3, <2>6, <3>1, GateIsLegit
    <3>3. res.status \in {401, 403}
      BY <2>4, <3>2, RefusalStatus, RefusalsAre
    <3> QED
      BY <2>2, <2>6, <3>3 DEF ClassifyHTTP, IsDefiniteLocal, HttpLabel, HttpLabels
  <2> QED
    BY <2>1, <2>5, <2>6
<1> QED
  BY <1>1, <1>2, <1>3

=============================================================================
