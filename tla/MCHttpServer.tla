---------------------------- MODULE MCHttpServer ----------------------------
(***************************************************************************)
(* The requests TLC tries: tokens that differ from a good one in at most   *)
(* two claims, errors of at most two layers.  Time is in units of five     *)
(* seconds.                                                                *)
(***************************************************************************)
EXTENDS HttpServer

Keys == "k1" :> "key1" @@ "k2" :> "key2"
MCUserConfig == [issuer |-> "auth", audience |-> "api", url |-> TRUE, keys |-> Keys,
                 leeway |-> 0, allowLegacy |-> TRUE, legacy |-> "shared", use |-> Blank]
MCServiceConfig == [issuer |-> "auth", audience |-> "orders", url |-> TRUE, keys |-> Keys,
                    leeway |-> 0, allowed |-> {Blank, "caller"}]

-----------------------------------------------------------------------------
(* Tokens *)

UserToken == [form |-> "jwt", bearers |-> 1, alg |-> "EdDSA", kid |-> {"k1"},
              key |-> "key1", iss |-> {"auth"}, sub |-> {"u1"}, aud |-> {"api"},
              nbf |-> {10}, exp |-> {34}, scopes |-> {}, userID |-> {"u1"},
              use |-> "access", roles |-> {}, permissions |-> {}, fullAccess |-> FALSE]
LegacyToken == [UserToken EXCEPT !.alg = "HS256", !.key = "shared", !.kid = {},
                                 !.iss = {}, !.aud = {}]
ServiceToken ==
    CHOOSE tok \in UNION {Issue(s, "caller", "orders", {"read"}, 11) :
        s \in NewSigner([issuer |-> "auth", kid |-> "k2", key |-> "key2", ttl |-> 0])} : TRUE
Garbage == [form |-> "garbage", bearers |-> 0]

\* single claims that may differ
Claim == [bearers : {0, 2, 3}] \cup [alg : {"HS256", "none"}]
         \cup [kid : {{}, {"k2"}, {"k9"}}] \cup [key : {"key2", "shared"}]
         \cup [iss : {{}, {"other"}}] \cup [aud : {{}, {"web"}, {"web", "orders"}}]
         \cup [nbf : {{}, {40}}] \cup [exp : {{}, {1}}] \cup [sub : {{}, {Blank}, {"u9"}}]
         \cup [use : {Blank, "refresh"}] \cup [userID : {{}, {Blank}}]
         \cup [scopes : {{}, {"write"}}]
Vary(tok) == {tok, Absent, Garbage} \cup {c @@ tok : c \in Claim}
             \cup {c @@ (d @@ tok) : c \in Claim, d \in Claim}

\* around the ends of the token's time and the leeway of six
Nows == {3, 4, 20, 39, 40}

-----------------------------------------------------------------------------
(* Requests *)

Request0 == [route |-> "public", header |-> Absent, cookies |-> <<Absent, Absent>>,
             now |-> 20, captcha |-> {}, wrote |-> 0, err |-> NoError, panic |-> FALSE, effect |-> FALSE,
             deps |-> <<>>, tracing |-> TRUE, cut |-> "none"]

\* the handler writes and takes effect
Success == [Request0 EXCEPT !.wrote = 200, !.effect = TRUE]

Authority == [roles : {{"admin"}, {"other"}}] \cup [permissions : {{"pay"}, {"other"}}]
             \cup [fullAccess : {TRUE}]

AuthRequests ==
    {[Success EXCEPT !.route = "user", !.header = tok] : tok \in Vary(UserToken)}
    \cup {[Success EXCEPT !.route = "user", !.header = tok] : tok \in Vary(LegacyToken)}
    \cup {[Success EXCEPT !.route = r, !.header = tok] :
            r \in {"service", "grpc_scoped"}, tok \in Vary(ServiceToken)}
    \cup {[Success EXCEPT !.route = r, !.header = tok, !.now = t] :
            r \in Protected, t \in Nows,
            tok \in {c @@ UserToken : c \in Authority} \cup {ServiceToken, LegacyToken}}
    \cup {[Success EXCEPT !.route = r, !.header = h, !.cookies = <<c, d>>] :
            r \in {"user", "admin"}, h \in {Absent, Garbage},
            c \in {Absent, UserToken}, d \in {Absent, Garbage, [fullAccess |-> TRUE] @@ UserToken}}

Kinds == {"none", "unexpected"} \cup DOMAIN StatusOfKind
Layer == {Rich(k) : k \in Kinds} \cup {Http(404), Http(500), Plain}
         \cup {[type |-> t] : t \in {"says_validation"}}
Leaf == Layer \cup {[type |-> t] : t \in {"validation", "maxbytes"}}
Chains == {<<l>> : l \in Leaf} \cup {<<l, m>> : l \in Layer, m \in Leaf}

\* failures of the handler's own, around whatever it met
LateChains == {<<Plain>>, <<Plain, Http(404)>>} \cup {<<Rich(k)>> \o t : k \in {"unexpected", "unavailable", "conflict"},
                                t \in {<<>>} \cup {<<l>> : l \in Layer}}

HandlerRequests ==
    {[Request0 EXCEPT !.err = e, !.wrote = w, !.tracing = t] :
        e \in Chains, w \in {0, 200, 201}, t \in BOOLEAN}
    \cup {[Request0 EXCEPT !.err = e, !.wrote = w, !.cut = c, !.effect = TRUE] :
        e \in LateChains \cup {NoError}, w \in {0, 200, 201}, c \in {"none", "timeout", "eof", "undecodable"}}
    \cup {[Request0 EXCEPT !.err = e, !.wrote = w, !.effect = TRUE] :
        e \in Chains, w \in {0, 400}}
    \cup {[Request0 EXCEPT !.panic = TRUE, !.wrote = w, !.effect = f] :
        w \in {0, 200}, f \in BOOLEAN}
    \cup {[Success EXCEPT !.route = r, !.cut = c] :
        r \in {"public", "grpc_health"}, c \in {"local", "refused", "timeout"}}
    \cup {[Request0 EXCEPT !.route = r, !.deps = d, !.err = e] :
        r \in {"live", "health", "ready", "unknown", "grpc_health"},
        d \in {<<>>, <<TRUE, TRUE>>, <<TRUE, FALSE>>}, e \in {NoError, <<Plain>>}}

Strings == {{}, {"login"}, {"pay"}}
Captchas ==
    {[cfg |-> cfg, direct |-> direct, token |-> t, opts |-> o, answer |-> a,
      verifier |-> IF direct THEN NewRecaptchaV3(cfg) ELSE NewFromConfig(cfg)] :
        cfg \in [production : BOOLEAN, enabled : BOOLEAN, secret : BOOLEAN, minScore : {0},
                host : {{}}, actions : {{"login"}}]
               \cup [production : {TRUE}, enabled : {TRUE}, secret : {TRUE}, minScore : {7},
                    host : {{"shop"}}, actions : {{}}],
        direct \in BOOLEAN, t \in BOOLEAN,
        o \in [action : Strings, host : {{}}] \cup [action : {{}}, host : {{"web"}, {"shop"}}],
        a \in [failed : {FALSE}, success : {TRUE}, score : {4, 5, 7}, action : Strings,
               host : {{}, {"shop"}}]
             \cup [failed : BOOLEAN, success : {FALSE}, score : {7}, action : {{}}, host : {{}}]}

\* a service that gets no verifier does not start
CaptchaRequests ==
    {[Success EXCEPT !.route = "captcha", !.captcha = c] :
        c \in {d \in Captchas : d.verifier # {}}}

MCRequests == AuthRequests \cup HandlerRequests \cup CaptchaRequests

\* handlers that write nothing and return an error of each kind, or panic
KindRequests == {[Request0 EXCEPT !.err = <<Rich(k)>>] : k \in Kinds}
                \cup {[Request0 EXCEPT !.panic = TRUE]}

=============================================================================
