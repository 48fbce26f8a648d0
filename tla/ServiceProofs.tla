--------------------------- MODULE ServiceProofs ---------------------------
(***************************************************************************)
(* What a service process keeps, for any number of goroutines, calls and   *)
(* requests.                                                               *)
(***************************************************************************)
EXTENDS Service, HttpServerProofs

-----------------------------------------------------------------------------
(* The global logger *)

\* Who is in the window has left New or L without a logger; the places are typed.
PlacesOK == gpc \in [Go -> {"idle", "lazy", "new"}]

\* No call and no request takes a goroutine anywhere else.
LEMMA PlacesInductive == PlacesOK /\ [SNext]_serviceVars => PlacesOK'
<1> SUFFICES ASSUME PlacesOK, [SNext]_serviceVars PROVE PlacesOK'
  OBVIOUS
<1>1. ASSUME NEW g \in Go, L(g) \/ LLazy(g) \/ New(g) \/ NewInit(g) PROVE PlacesOK'
  BY <1>1 DEF L, LLazy, New, NewInit, At, PlacesOK
<1>2. ASSUME NEW g \in Go,
             \/ Build(g) \/ Install(g) \/ SetGlobal(g)
             \/ Take(g) \/ TakeAgain(g) \/ Close(g)
      PROVE PlacesOK'
  BY <1>2 DEF Build, Install, SetGlobal, Take, TakeAgain, TakeCurrent, Close, rest, PlacesOK
<1>3. CASE Configure \/ Request \/ Finish \/ Stopped \/ UNCHANGED serviceVars
  BY <1>3 DEF Configure, Request, Finish, Stopped, serviceVars, globals, PlacesOK
<1> QED
  BY <1>1, <1>2, <1>3 DEF SNext, Boot, GNext, GStep

\* With a logger in place nobody enters the window again, and who is not in it
\* does not touch the logger, the process's own Init excepted.
LEMMA LoggerStep ==
    PlacesOK /\ [SNext]_serviceVars =>
        [WindowClosed /\ logger \in {"init", "server"}
           => WindowClosed' /\ logger' \in {logger, "init"}]_globals
<1> SUFFICES ASSUME PlacesOK, [SNext]_serviceVars, WindowClosed,
                    logger \in {"init", "server"}
             PROVE  WindowClosed' /\ logger' \in {logger, "init"}
  OBVIOUS
<1>1. IsInitialized
  BY DEF IsInitialized
<1>2. CASE Configure
  BY <1>2 DEF Configure, LoggerInit, WindowClosed
<1>3. ASSUME NEW g \in Go, LLazy(g) \/ NewInit(g) PROVE FALSE
  BY <1>3 DEF LLazy, NewInit, WindowClosed
<1>4. ASSUME NEW g \in Go, L(g) \/ New(g) PROVE WindowClosed' /\ logger' = logger
  BY <1>1, <1>4 DEF L, New, At, WindowClosed, PlacesOK
<1>5. ASSUME NEW g \in Go,
             \/ Build(g) \/ Install(g) \/ SetGlobal(g)
             \/ Take(g) \/ TakeAgain(g) \/ Close(g)
      PROVE WindowClosed' /\ logger' = logger
  BY <1>5 DEF Build, Install, SetGlobal, Take, TakeAgain, TakeCurrent, Close, rest,
     WindowClosed
<1>6. CASE Request
  BY <1>1, <1>6 DEF Request, LoggerInit, WindowClosed
<1>7. CASE Finish \/ Stopped \/ UNCHANGED serviceVars
  BY <1>7 DEF Finish, Stopped, serviceVars, globals, WindowClosed
<1> QED
  BY <1>2, <1>3, <1>4, <1>5, <1>6, <1>7 DEF SNext, Boot, GNext, GStep

\* Once nobody is left who found no logger, the configured one is never replaced
\* but by the process's own Init, whatever the goroutines and the requests do
\* (logger.go lines 80-93, server.go lines 28-34).
THEOREM LoggerStays == ServiceSpec => ConfiguredLoggerStays
<1>1. SInit => PlacesOK
  BY DEF SInit, GInit, PlacesOK
<1> QED
  BY <1>1, PlacesInductive, LoggerStep, PTL DEF ServiceSpec, ConfiguredLoggerStays

-----------------------------------------------------------------------------
(* The tracer provider *)

\* As long as every shutdown function is called once, where a goroutine's
\* provider is follows from the goroutine's place: the variable holds it from
\* installation to shutdown, and whoever is about to shut a provider down has
\* its own in hand.
OwnProvider ==
    /\ \A g \in Go : g \in live <=> tracing[g] # "off"
    /\ \A g \in Go : tracing[g] \in {"installed", "ready"} <=> provider = g
    /\ \A g \in Go : tracing[g] = "ready" => otel = g
    /\ \A g \in Go : tracing[g] = "closing" => held[g] = g

\* Later calls take the providers of others, but nobody's is lost.
NoneLost ==
    \A g \in live : \/ provider = g \/ tracing[g] = "built"
                    \/ \E h \in Go : tracing[h] = "closing" /\ held[h] = g

TracerInv ==
    /\ tracing \in [Go -> {"off", "built", "installed", "ready", "closing"}]
    /\ held \in [Go -> Go \cup {NoTracer}]
    /\ provider \in Go \cup {NoTracer}
    /\ live \subseteq Go
    /\ ~again => OwnProvider
    /\ NoneLost

\* No call breaks that.
LEMMA TracerInductive == TracerInv /\ [SNext]_serviceVars => TracerInv'
<1> USE GlobalsAssumption DEF OwnProvider, NoneLost
<1> SUFFICES ASSUME TracerInv, [SNext]_serviceVars PROVE TracerInv'
  OBVIOUS
<1>1. ASSUME NEW g \in Go, Build(g) PROVE TracerInv'
  BY <1>1 DEF Build, Trace, rest, TracerInv
<1>2. ASSUME NEW g \in Go, Install(g) PROVE TracerInv'
  BY <1>2 DEF Install, Trace, rest, TracerInv
<1>3. ASSUME NEW g \in Go, SetGlobal(g) PROVE TracerInv'
  BY <1>3 DEF SetGlobal, Trace, rest, TracerInv
<1>4. ASSUME NEW g \in Go, Take(g) PROVE TracerInv'
  BY <1>4 DEF Take, TakeCurrent, Trace, rest, TracerInv
<1>5. ASSUME NEW g \in Go, TakeAgain(g) PROVE TracerInv'
  BY <1>5 DEF TakeAgain, TakeCurrent, Trace, rest, TracerInv
<1>6. ASSUME NEW g \in Go, Close(g) PROVE TracerInv'
  BY <1>6 DEF Close, Trace, rest, TracerInv
<1>7. ASSUME NEW g \in Go, L(g) \/ LLazy(g) \/ New(g) \/ NewInit(g) PROVE TracerInv'
  BY <1>7 DEF L, LLazy, New, NewInit, tracers, TracerInv
<1>8. CASE Configure \/ Request
  BY <1>8 DEF Configure, Request, tracers, TracerInv
<1>9. CASE Finish \/ Stopped \/ UNCHANGED serviceVars
  BY <1>9 DEF Finish, Stopped, serviceVars, globals, tracers, TracerInv
<1> QED
  BY <1>1, <1>2, <1>3, <1>4, <1>5, <1>6, <1>7, <1>8, <1>9 DEF SNext, Boot, GNext, GStep

\* From the return of Init to its shutdown the global provider is the caller's
\* and alive while no shutdown function is called twice, and no live provider is
\* ever lost: for any goroutines, although Init and shutdown act outside the
\* lock (tracer.go lines 129-139 and 145-158).
THEOREM TracerOwned == ServiceSpec => []TracerOwnership
<1>1. SInit => TracerInv
  BY GlobalsAssumption DEF SInit, GInit, TracerInv, OwnProvider, NoneLost
<1>2. TracerInv => TracerOwnership
  BY DEF TracerInv, OwnProvider, NoneLost, TracerOwnership
<1> QED
  BY <1>1, <1>2, TracerInductive, PTL DEF ServiceSpec

-----------------------------------------------------------------------------
(* Requests *)

\* What is kept of a request is its exchange.
ExchangeInv == exchange = NoExchange \/ \E req \in Requests : exchange = Exchange(req)

LEMMA ExchangeInvariance == ServiceSpec => []ExchangeInv
<1>1. SInit => ExchangeInv
  BY DEF SInit, HInit, ExchangeInv
<1>2. ExchangeInv /\ [SNext]_serviceVars => ExchangeInv'
  BY DEF ExchangeInv, SNext, Boot, Request, Serve, Finish, Done, Stopped, serviceVars
<1> QED
  BY <1>1, <1>2, PTL DEF ServiceSpec

\* The request of an exchange.
LEMMA ExchangeOf ==
    ASSUME ExchangeInv, NEW req \in exchange.req
    PROVE  req \in Requests /\ exchange = Exchange(req) /\ IsRequest(req)
<1>1. exchange # NoExchange
  BY DEF NoExchange
<1>2. PICK r \in Requests : exchange = Exchange(r)
  BY <1>1 DEF ExchangeInv
<1>3. IsRequest(r)
  BY RequestAssumption
<1>4. HttpExchange(r).req = {r}
  BY <1>3, HttpExchangeIs
<1>5. Exchange(r).req = {r}
  BY <1>4, OtherExchangesAre DEF Exchange
<1> QED
  BY <1>2, <1>3, <1>5

\* HandlerNeedsLegit: a protected handler runs for the requests whose token or
\* captcha entitles to it and for no other, whatever the header, the cookies,
\* the claims, the keys, the configuration and the clock are (verifier.go
\* 100-206, s2s.go 119-155, middleware.go 19-175, interceptor.go 18-110,
\* captcha.go 150-215, 250-273).
THEOREM LegitHolds == ServiceSpec => []HandlerNeedsLegit
<1>1. ExchangeInv => HandlerNeedsLegit
  BY ExchangeOf, RunsIfLegit DEF HandlerNeedsLegit
<1> QED
  BY <1>1, ExchangeInvariance, PTL

\* OneAnswerOneCount: a request gets one answer, whatever its handler writes,
\* returns or throws; it is counted once, unless the handler panics, and errors
\* of any depth are counted as failures (error.go 17-20, request.go 38-47,
\* middleware.go 43-66).
THEOREM OneAnswerHolds == ServiceSpec => []OneAnswerOneCount
<1>1. ExchangeInv => OneAnswerOneCount
  <2> SUFFICES ASSUME ExchangeInv, NEW req \in exchange.req,
                      Reaches(req), req.route \notin GrpcRoutes
               PROVE  /\ exchange.writes = 1
                      /\ ~exchange.panic => (exchange.counted = {} <=> req.route \in InfraRoutes)
                      /\ exchange.counted \subseteq
                           IF exchange.failed \/ exchange.status >= 400
                           THEN {"4xx", "5xx"} ELSE {"2xx", "3xx"}
                      /\ exchange.failed => \A status \in exchange.logged :
                           status >= 400 \/ (status = exchange.status /\ status # 200)
    BY DEF OneAnswerOneCount
  <2>1. exchange = HttpExchange(req) /\ IsRequest(req)
    BY ExchangeOf DEF Exchange
  <2> QED
    BY <2>1, AnsweredAndCounted
<1> QED
  BY <1>1, ExchangeInvariance, PTL

\* OutcomeIsHonest: when the handler has taken effect, a client is told of a
\* definite failure only if the handler said so or the answer could not be
\* decoded, and a refusal is a definite failure (outcome.go 1-2, 47-73, http.go
\* 111-143).
THEOREM HonestHolds == ServiceSpec => []OutcomeIsHonest
<1>1. ExchangeInv => OutcomeIsHonest
  <2> SUFFICES ASSUME ExchangeInv, NEW req \in exchange.req
               PROVE  /\ exchange.outcome = "definite_failure" /\ exchange.ran /\ req.effect =>
                           req.cut = "undecodable" \/ SaidRefused(req)
                      /\ req.route \in Protected /\ req.cut = "none" /\ ~exchange.ran =>
                           /\ exchange.outcome \in {"none", "definite_failure"}
                           /\ exchange.label \in {"unauthenticated", "forbidden"}
    BY DEF OutcomeIsHonest
  <2>1. exchange = Exchange(req) /\ IsRequest(req)
    BY ExchangeOf
  <2> QED
    BY <2>1, HonestOutcome
<1> QED
  BY <1>1, ExchangeInvariance, PTL

=============================================================================
