----------------------------- MODULE HttpServer -----------------------------
(***************************************************************************)
(* One request through a server built by http/server.New: Recover,         *)
(* metrics, tracing, access log, the body limit, authentication, the       *)
(* handler and the error handler; and what its client makes of the answer  *)
(* (security/outcome, observability/metrics).                              *)
(*                                                                         *)
(* Requests share no state, so each is one step, and the last one is kept  *)
(* for the properties.  An error is the sequence of the errors that it     *)
(* wraps, outermost first: errors.As finds the first of a type.            *)
(***************************************************************************)
EXTENDS Auth, Captcha

CONSTANTS UserConfig, ServiceConfig,  \* of the two verifiers
          AdminRoles, Permissions, Scopes,  \* that the routes ask for
          Requests                    \* the requests tried

VARIABLE exchange  \* the last request with its answer, or NoExchange

Rich(kind) == [type |-> "rich", kind |-> kind]
Http(code) == [type |-> "http", code |-> code]
Plain == [type |-> "plain"]
NoError == <<>>

-----------------------------------------------------------------------------
(* errors: RichError, ValidationError *)

Has(err, type) == \E i \in DOMAIN err : err[i].type = type
As(err, type) == err[Min({i \in DOMAIN err : err[i].type = type})]

\* Mutant: the innermost kind counts.
KindOfCause(err) ==
    LET kinds == {i \in DOMAIN err : err[i].type = "rich" /\ err[i].kind # "none"}
    IN IF kinds = {} THEN "unexpected" ELSE err[Max(kinds)].kind

\* Kind: of the outermost RichError that was given one
Kind(err) ==
    LET kinds == {i \in DOMAIN err : err[i].type = "rich" /\ err[i].kind # "none"}
    IN IF kinds = {} THEN "unexpected" ELSE err[Min(kinds)].kind

-----------------------------------------------------------------------------
(* http/middleware/error.go *)

StatusOfKind ==
    [invalid |-> 400, unauthenticated |-> 401, forbidden |-> 403, not_found |-> 404,
     conflict |-> 409, too_many_requests |-> 429, unavailable |-> 503]

StatusFromKind(kind) ==
    IF kind \in DOMAIN StatusOfKind THEN StatusOfKind[kind] ELSE 500

\* a response: how often its header was written, and its status
Write(res, status) == [writes |-> res.writes + 1, status |-> status]
Committed(res) == res.writes > 0

ErrorStatus(err) ==
    IF Has(err, "validation") THEN 422
    ELSE IF Has(err, "rich") THEN StatusFromKind(Kind(err))
    ELSE IF err[1].type = "http" THEN err[1].code
    ELSE 500

\* Mutant: a response that is on its way is written again.
ErrorHandlerAgain(err, res) == Write(res, ErrorStatus(err))

ErrorHandler(err, res) == IF Committed(res) THEN res ELSE Write(res, ErrorStatus(err))

-----------------------------------------------------------------------------
(* Authentication: security/echo and security/grpc *)

Refusal(kind) == <<Rich(kind)>>

\* accessToken: the header, then the cookies; bearer strips the header
AccessToken(req) ==
    LET found == {i \in DOMAIN req.cookies : req.cookies[i].form # "absent"}
    IN IF req.header.form # "absent" THEN TrimBearer(req.header)
       ELSE IF found = {} THEN Absent ELSE req.cookies[Min(found)]

\* JWT: the claims' record on success
JWT(verifiers, req) ==
    IF verifiers = {} THEN Unauthenticated("unauthenticated")
    ELSE UserVerify(CHOOSE v \in verifiers : TRUE, AccessToken(req), req.now)

\* S2S
S2S(verifiers, header, now) ==
    IF verifiers = {} THEN Unauthenticated("missing_token")
    ELSE ServiceVerify(CHOOSE v \in verifiers : TRUE, header, now)

\* Mutant: any permission or role will do.
RequireAnyOf(tok, held, asked) == tok.fullAccess \/ held # {}

\* RequireAdmin, RequirePermission, HasPermission
Require(tok, held, asked) == tok.fullAccess \/ held \cap asked # {}

\* RequireServiceScopes, RequireAnyScope: no scopes means any service
HasAnyScope(tok, asked) == asked = {} \/ tok.scopes \cap asked # {}

UserRoutes == {"user", "admin", "permission"}
ServiceRoutes == {"service", "scoped"}
GrpcRoutes == {"grpc_health", "grpc", "grpc_scoped"}
Protected == UserRoutes \cup ServiceRoutes \cup (GrpcRoutes \ {"grpc_health"})
ScopesOf(route) == IF route \in {"scoped", "grpc_scoped"} THEN Scopes ELSE {}

\* what is returned in front of the handler: by the route's middleware, or on
\* "captcha" by a handler that asks the captcha verifier first
Gate(req) ==
    LET user == JWT(NewUserVerifier(UserConfig), req)
        claims == AccessToken(req)
        service == S2S(NewServiceVerifier(ServiceConfig), TrimBearer(req.header), req.now)
        human == {CaptchaVerify(v, req.captcha.token, req.captcha.opts, req.captcha.answer) :
                  v \in req.captcha.verifier}
    IN IF req.route = "captcha" /\ human # {"none"} THEN <<Plain>>  \* a captcha Error
       ELSE IF req.route \in UserRoutes /\ ~user.ok THEN Refusal(user.kind)
       ELSE IF req.route = "admin" /\ ~Require(claims, claims.roles, AdminRoles)
            THEN Refusal("forbidden")
       ELSE IF req.route = "permission" /\ ~Require(claims, claims.permissions, Permissions)
            THEN Refusal("forbidden")
       ELSE IF req.route \in ServiceRoutes /\ ~service.ok
            THEN <<Plain, Rich(service.kind)>>  \* an AuthFailure
       ELSE IF req.route \in ServiceRoutes /\ ~HasAnyScope(req.header, ScopesOf(req.route))
            THEN Refusal("forbidden")
       ELSE NoError

\* authenticate of the gRPC interceptors, which leaves the prefix to Verify
Authenticated(req) == S2S(NewServiceVerifier(ServiceConfig), req.header, req.now).ok

\* the interceptors' status code; every refusal of Verify looks the same
GrpcGate(req) ==
    IF req.route = "grpc_health" THEN "OK"
    ELSE IF ~Authenticated(req) THEN "Unauthenticated"
    ELSE IF ~HasAnyScope(req.header, ScopesOf(req.route)) THEN "PermissionDenied"
    ELSE "OK"

-----------------------------------------------------------------------------
(* The chain of http/server.New around the route, inside out.  x is the    *)
(* response so far, the error that is returned and whether a panic goes up. *)

Fresh == [writes |-> 0, status |-> 200]
InfraRoutes == {"live", "health", "ready"}
\* AccessLog skips the probes of these names; "/health", which Register adds, is
\* not among them
SkippedRoutes == {"live", "ready"}

\* the router, health.Register and the handlers
Handle(req) ==
    LET none == [res |-> Fresh, err |-> NoError, panic |-> FALSE, ran |-> FALSE]
        written == IF req.wrote = 0 THEN Fresh ELSE Write(Fresh, req.wrote)
        ready == \A d \in DOMAIN req.deps : req.deps[d]
    IN IF req.route = "unknown" THEN [none EXCEPT !.err = <<Http(404)>>]
       ELSE IF req.route \in {"live", "health"} THEN [none EXCEPT !.res = Write(Fresh, 200)]
       ELSE IF req.route = "ready"
            THEN [none EXCEPT !.res = Write(Fresh, IF ready THEN 200 ELSE 503)]
       ELSE IF Gate(req) # NoError THEN [none EXCEPT !.err = Gate(req)]
       ELSE [res |-> written, err |-> req.err, panic |-> req.panic, ran |-> TRUE]

\* httplimit.Middleware
Limit(x) ==
    IF ~x.panic /\ Has(x.err, "maxbytes") THEN [x EXCEPT !.err = <<Http(413)>>] ELSE x

\* AccessLog returns what it got and logs a status
LogStatus(x) ==
    IF x.err = NoError THEN x.res.status
    ELSE IF x.err[1].type = "http" /\ x.err[1].code > 0 THEN x.err[1].code
    ELSE IF x.res.status \in {0, 200} THEN 500
    ELSE x.res.status

\* the tracing middleware hands an error to the error handler and returns it
Tracing(req, x) ==
    IF req.tracing /\ ~x.panic /\ x.err # NoError
    THEN [x EXCEPT !.res = ErrorHandler(x.err, @)] ELSE x

StatusClass(code) ==
    IF code >= 500 THEN "5xx" ELSE IF code >= 400 THEN "4xx"
    ELSE IF code >= 300 THEN "3xx" ELSE "2xx"

\* statusFromHandlerError of http/metrics, which has a table of its own
StatusFromHandlerError(err, current) ==
    IF Has(err, "validation") THEN 422
    ELSE IF Has(err, "rich")
         THEN IF Kind(err) \in {"conflict", "unavailable"} THEN 500
              ELSE StatusFromKind(Kind(err))
    ELSE IF Has(err, "http") /\ As(err, "http").code > 0 THEN As(err, "http").code
    ELSE IF current >= 400 THEN current
    ELSE IF Has(err, "says_validation") THEN 422
    ELSE 500

\* metrics.Middleware: probes pass, and so does a panic, which never comes to
\* the counter
Metrics(req, x) ==
    IF req.route \in InfraRoutes \/ x.panic THEN {}
    ELSE {StatusClass(IF x.err # NoError THEN StatusFromHandlerError(x.err, x.res.status)
                      ELSE IF x.res.status = 0 THEN 200 ELSE x.res.status)}

\* Recover and Echo itself call the error handler once more; a handler that
\* has written nothing has answered 200
Answer(x) ==
    LET res == IF x.panic THEN ErrorHandler(<<Plain>>, x.res)
               ELSE IF x.err # NoError THEN ErrorHandler(x.err, x.res) ELSE x.res
    IN IF Committed(res) THEN res ELSE Write(res, 200)

-----------------------------------------------------------------------------
(* The client: security/outcome and the client metrics *)

\* isDefiniteLocal: a request that could not be encoded or built; but the word
\* it looks for is also in "unmarshal", the error of an answer that could not be
\* decoded
IsDefiniteLocal(cut) == cut \in {"local", "undecodable"}

\* ClassifyHTTP: cut is the error of the call
ClassifyHTTP(status, cut) ==
    IF IsDefiniteLocal(cut) THEN "definite_failure"
    ELSE IF cut # "none" THEN "ambiguous_outcome"
    ELSE IF status \in 200 .. 299 THEN "success"
    ELSE IF status \in 400 .. 499 \ {408, 429, 409} THEN "definite_failure"
    ELSE "ambiguous_outcome"

HttpLabels ==
    [status \in {401, 403, 404, 409, 429} |->
        CASE status = 401 -> "unauthenticated"
          [] status = 403 -> "forbidden"
          [] status = 404 -> "not_found"
          [] status = 409 -> "conflict"
          [] status = 429 -> "rate_limited"]
GrpcLabels ==
    [OK |-> "none", Unauthenticated |-> "unauthenticated", PermissionDenied |-> "forbidden"]

\* errorTypeFromErr
CutLabel(cut) == IF cut = "timeout" THEN cut ELSE "unavailable"

\* classifyHTTP with HTTPStatusClass; decoding comes after the round trip
HttpLabel(status, cut) ==
    IF cut \notin {"none", "undecodable"} THEN CutLabel(cut)
    ELSE IF status \in 200 .. 399 THEN "none"
    ELSE IF status \in DOMAIN HttpLabels THEN HttpLabels[status]
    ELSE IF status \in 400 .. 499 THEN "invalid"
    ELSE "server"

\* classifyGRPC
GrpcLabel(code, cut) ==
    IF cut # "none" THEN CutLabel(cut)
    ELSE IF code \in DOMAIN GrpcLabels THEN GrpcLabels[code] ELSE "server"

-----------------------------------------------------------------------------
(* What arrives: tokens as a parser may find them, errors of any depth.    *)

Claims == {"alg", "kid", "key", "iss", "sub", "aud", "nbf", "exp", "userID", "use"}

IsToken(tok) ==
    /\ {"form", "bearers"} \subseteq DOMAIN tok
    /\ tok.form \in {"absent", "garbage", "jwt"} /\ tok.bearers \in Nat
    /\ tok.form = "jwt" =>
         /\ Claims \subseteq DOMAIN tok
         /\ tok.exp \cup tok.nbf \subseteq Int
         /\ \A s, t \in tok.exp : s = t

\* an HTTPError says of a failure
IsError(err) ==
    /\ DOMAIN err \subseteq Nat \ {0}
    /\ err # NoError => 1 \in DOMAIN err
    /\ \A i \in DOMAIN err : err[i].type = "http" => err[i].code \in 400 .. 599

\* A handler's failure that is its own, around whatever it met: none that says
\* the request was refused.
OwnFailure(err) ==
    /\ ~Has(err, "validation") /\ ~Has(err, "maxbytes")
    /\ \/ err[1].type = "rich" /\ err[1].kind \in {"unexpected", "unavailable", "conflict"}
       \/ err[1].type = "plain" /\ ~Has(err, "rich")

\* a captcha and the verifier of its configuration; without one a service
\* does not start
IsCaptcha(c) ==
    /\ c.verifier = (IF c.direct THEN NewRecaptchaV3(c.cfg) ELSE NewFromConfig(c.cfg))
    /\ c.verifier # {}
    /\ {"enabled", "production", "secret", "minScore", "host", "actions"} \subseteq DOMAIN c.cfg
    /\ c.cfg.minScore \in Nat /\ c.answer.score \in Nat
    /\ \A s \in {c.opts.action, c.opts.host, c.answer.action, c.answer.host, c.cfg.host} :
           \A a, b \in s : a = b

IsRequest(req) ==
    /\ IsToken(req.header) /\ \A i \in DOMAIN req.cookies : IsToken(req.cookies[i])
    /\ DOMAIN req.cookies = 1 .. 2  \* access_token, admin_access_token
    /\ req.now \in Int
    /\ req.route = "captcha" => IsCaptcha(req.captcha)
    /\ req.wrote \in {0} \cup 200 .. 599
    /\ IsError(req.err)

ASSUME RequestAssumption == \A req \in Requests : IsRequest(req)

\* the configurations give verifiers
ASSUME ConfigAssumption ==
    /\ {"legacy", "use", "leeway", "issuer", "audience", "keys"} \subseteq DOMAIN UserConfig
    /\ {"allowed", "leeway", "issuer", "audience", "keys"} \subseteq DOMAIN ServiceConfig
    /\ UserConfig.leeway \in Int /\ ServiceConfig.leeway \in Int
    /\ Sufficient(UserConfig) /\ Sufficient(ServiceConfig)
    /\ UserConfig.allowLegacy => UserConfig.legacy # Blank

-----------------------------------------------------------------------------

NoExchange == [req |-> {}, counted |-> {}]

Reaches(req) == req.cut \notin {"local", "refused"}

HttpExchange(req) ==
    LET inner == Limit(Handle(req))
        x == Tracing(req, inner)
        res == Answer(x)
    IN [req |-> {req}, ran |-> x.ran, panic |-> x.panic, failed |-> x.err # NoError,
        writes |-> res.writes, status |-> res.status, counted |-> Metrics(req, x),
        logged |-> IF req.route \in SkippedRoutes \/ x.panic THEN {} ELSE {LogStatus(inner)},
        outcome |-> ClassifyHTTP(res.status, req.cut),
        label |-> HttpLabel(res.status, req.cut)]

\* the handler's own failure is an error without a status
GrpcExchange(req) ==
    LET gate == GrpcGate(req)
        code == IF gate = "OK" /\ req.err # NoError THEN "Unknown" ELSE gate
    IN [req |-> {req}, ran |-> gate = "OK", panic |-> FALSE, failed |-> code # "OK",
        writes |-> 1, status |-> 0, counted |-> {}, logged |-> {},
        outcome |-> "none", label |-> GrpcLabel(code, req.cut)]

\* the request is not sent, or the server cannot be reached
NotSent(req) ==
    [req |-> {req}, ran |-> FALSE, panic |-> FALSE, failed |-> TRUE,
     writes |-> 0, status |-> 0, counted |-> {}, logged |-> {},
     outcome |-> ClassifyHTTP(0, req.cut), label |-> CutLabel(req.cut)]

HInit == exchange = NoExchange

Exchange(req) ==
    IF ~Reaches(req) THEN NotSent(req)
    ELSE IF req.route \in GrpcRoutes THEN GrpcExchange(req)
    ELSE HttpExchange(req)

Serve ==
    /\ exchange = NoExchange
    /\ \E req \in Requests : exchange' = Exchange(req)

Done ==
    /\ exchange # NoExchange
    /\ exchange' = NoExchange

HNext == Serve \/ Done

HSpec == HInit /\ [][HNext]_exchange

-----------------------------------------------------------------------------

\* A token that entitles to a route, said of the token alone: its issuer made
\* it with a key of the verifier, or a legacy issuer did where that is allowed,
\* for this audience, use and time, and its holder has what the route asks for.
LeewayOf(cfg) == IF cfg.leeway > 0 THEN cfg.leeway ELSE DefaultLeeway
UseOf(cfg) == IF cfg.use # Blank THEN cfg.use ELSE "access"

InTime(tok, leeway, now) ==
    /\ \E t \in tok.exp : now < t + leeway
    /\ \A t \in tok.nbf : now >= t - leeway

Genuine(tok, cfg) ==
    /\ tok.alg = "EdDSA"
    /\ \E k \in tok.kid \cap DOMAIN cfg.keys : tok.key = cfg.keys[k]
    /\ tok.iss = {cfg.issuer} /\ cfg.audience \in tok.aud

\* The provider has accepted the token of this action and host, with the score
\* asked for; only outside production, without a secret, any token will do.
Human(c) ==
    c.cfg.enabled =>
        /\ c.token
        /\ c.cfg.secret \/ c.cfg.production =>
            /\ ~c.answer.failed /\ c.answer.success
            /\ c.answer.score >= MinScore(c.cfg)
            /\ \A a \in c.opts.action : c.answer.action \subseteq {a}
            /\ \A h \in c.opts.host \cup c.cfg.host : c.answer.host \subseteq {h}
            /\ c.direct /\ c.cfg.actions # {} =>
                  /\ c.opts.action \cup c.answer.action # {}
                  /\ c.opts.action \cup c.answer.action \subseteq c.cfg.actions

Legit(req) ==
    LET user == AccessToken(req)
        service == req.header
    IN IF req.route = "captcha" THEN Human(req.captcha)
       ELSE IF req.route \in UserRoutes
       THEN /\ user.form = "jwt" /\ user.bearers <= 1
            /\ \/ Genuine(user, UserConfig)
               \/ UserConfig.allowLegacy /\ user.alg = "HS256" /\ user.key = UserConfig.legacy
            /\ InTime(user, LeewayOf(UserConfig), req.now)
            /\ user.use = UseOf(UserConfig) /\ ~(user.userID \subseteq {Blank})
            /\ \/ user.fullAccess \/ req.route = "user"
               \/ req.route = "admin" /\ user.roles \cap AdminRoles # {}
               \/ req.route = "permission" /\ user.permissions \cap Permissions # {}
       ELSE /\ service.form = "jwt"
            /\ service.bearers <= IF req.route \in GrpcRoutes THEN 1 ELSE 2
            /\ Genuine(service, ServiceConfig)
            /\ InTime(service, LeewayOf(ServiceConfig), req.now)
            /\ ~(service.sub \subseteq {Blank})
            /\ LET allowed == ServiceConfig.allowed \ {Blank}
               IN allowed = {} \/ service.sub \cap allowed # {}
            /\ \/ ScopesOf(req.route) = {} \/ service.scopes \cap Scopes # {}

\* A protected handler runs for the requests whose token entitles to it, over
\* HTTP and gRPC, and for no other: no combination of header, cookies, alg,
\* kid, claims and clock gets past the chain of checks or is stopped by it
\* without reason; and a failing captcha provider or a configuration without a
\* secret opens no route in production (verifier.go 100-206, s2s.go 119-155,
\* middleware.go 19-175, interceptor.go 18-110, captcha.go 150-215, 250-273).
HandlerNeedsLegit ==
    \A req \in exchange.req :
        req.route \in Protected \cup {"captcha"} /\ Reaches(req) => (exchange.ran <=> Legit(req))

\* Every request that reaches the server gets exactly one answer, although up
\* to three places call the error handler; unless its handler panics, it is
\* counted if and only if it is no probe (CountedAsAnswered says what becomes of
\* the panics); and a failure is counted and logged as one, except that the log
\* shows a status other than 200 that the handler has written before it failed
\* (error.go 17-20, request.go 38-47, middleware.go 43-66).
OneAnswerOneCount ==
    \A req \in exchange.req : Reaches(req) /\ req.route \notin GrpcRoutes =>
        /\ exchange.writes = 1
        /\ ~exchange.panic => (exchange.counted = {} <=> req.route \in InfraRoutes)
        /\ exchange.counted \subseteq
               IF exchange.failed \/ exchange.status >= 400 THEN {"4xx", "5xx"} ELSE {"2xx", "3xx"}
        /\ exchange.failed => \A status \in exchange.logged :
               status >= 400 \/ (status = exchange.status /\ status # 200)

\* The handler itself has refused the request: it has written a client error, or
\* it has written nothing and returned an error that says so.
SaidRefused(req) ==
    \/ req.wrote \in 400 .. 499
    \/ req.wrote = 0 /\ req.err # NoError /\ ~OwnFailure(req.err)

\* A client is told of a definite failure after the handler has taken effect
\* only if the handler itself said that it refused, or if the answer could not
\* be decoded: no error of its own is taken for a refusal, whatever refusal it
\* wraps, and neither is a lost answer.  And a refused token is a definite
\* failure that the client counts as such, not as one of the server (outcome.go
\* 1-2, 47-73, http.go 111-143).
OutcomeIsHonest ==
    \A req \in exchange.req :
        /\ exchange.outcome = "definite_failure" /\ exchange.ran /\ req.effect =>
               req.cut = "undecodable" \/ SaidRefused(req)
        /\ req.route \in Protected /\ req.cut = "none" /\ ~exchange.ran =>
               /\ exchange.outcome \in {"none", "definite_failure"}
               /\ exchange.label \in {"unauthenticated", "forbidden"}

\* The help text of http_server_requests_total (http/metrics/middleware.go line
\* 29): inbound requests by status class, probes excluded.  Every request that
\* is no probe is counted, in the class of the answer the client got.
CountedAsAnswered ==
    \A req \in exchange.req : Reaches(req) /\ req.route \notin GrpcRoutes \cup InfraRoutes =>
        exchange.counted = {StatusClass(exchange.status)}

=============================================================================
