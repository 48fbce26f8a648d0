------------------------------- MODULE Globals -------------------------------
(***************************************************************************)
(* The process-wide state of observability: the global logger              *)
(* (logger/logger.go) with its lazy default, the tracer provider           *)
(* (tracing/tracer.go) with its shutdown functions, and http/server.New,   *)
(* which initialises the logger when nobody has.                           *)
(*                                                                         *)
(* Goroutines call them in any order, before, while and after Main calls   *)
(* Init, which it does at most once.  A shutdown function may be called    *)
(* again, however late.                                                    *)
(***************************************************************************)
EXTENDS Naturals, FiniteSets

CONSTANTS Go,        \* goroutines
          Main,
          NoTracer,  \* a nil provider
          MaxBoot    \* bound on the calls of a goroutine

ASSUME GlobalsAssumption == Main \in Go /\ NoTracer \notin Go /\ MaxBoot \in Nat

\* A goroutine's provider is named after it: it has one at a time.  The gRPC
\* connection of a provider is left out; nobody closes it after a successful
\* Init (tracer.go lines 112 and 158).
VARIABLES
    logger,    \* base, cfg and inited: "none", or whose Config was the last:
               \* "default" of L, "init" of Main, "server" of New
    initCalled,  \* Main has called Init
    server,    \* New has returned
    provider,  \* the variable of that name
    otel,      \* OpenTelemetry's global provider
    live,      \* providers that have been built and not shut down
    tracing,   \* each goroutine: how far its Init and shutdown are
    held,      \* each goroutine: the provider it is about to shut down
    spent,     \* goroutines whose shutdown function has been called
    again,     \* a shutdown function has been called a second time
    gpc,       \* each goroutine: its place in L or New
    booted     \* each goroutine: how many calls it has begun

tracers == <<provider, otel, live, tracing, held, spent, again>>
globals == <<logger, initCalled, server, tracers, gpc, booted>>

GInit ==
    /\ logger = "none" /\ initCalled = FALSE /\ server = FALSE
    /\ provider = NoTracer /\ otel = NoTracer /\ live = {}
    /\ tracing = [g \in Go |-> "off"] /\ held = [g \in Go |-> NoTracer]
    /\ spent = {} /\ again = FALSE
    /\ gpc = [g \in Go |-> "idle"]
    /\ booted = [g \in Go |-> 0]

\* IsInitialized
IsInitialized == logger # "none"

Begin(g) ==
    /\ gpc[g] = "idle" /\ tracing[g] \in {"off", "ready"}
    /\ booted[g] < MaxBoot
    /\ booted' = [booted EXCEPT ![g] = @ + 1]

At(g, place) == gpc' = [gpc EXCEPT ![g] = place]

-----------------------------------------------------------------------------
(* The logger *)

\* Init, under the lock
LoggerInit(config) == logger' = config

\* the process calls Init once
Configure ==
    /\ ~initCalled
    /\ Begin(Main)
    /\ LoggerInit("init")
    /\ initCalled' = TRUE
    /\ UNCHANGED <<server, tracers, gpc>>

\* Mutant: L does not see that the logger is there.
LBlind(g) ==
    /\ Begin(g)
    /\ At(g, "lazy")
    /\ UNCHANGED <<logger, initCalled, server, tracers>>

\* L: with a logger in place it returns that; otherwise it gives up the lock
L(g) ==
    /\ Begin(g)
    /\ At(g, IF IsInitialized THEN "idle" ELSE "lazy")
    /\ UNCHANGED <<logger, initCalled, server, tracers>>

\* and initialises the logger without a further look
LLazy(g) ==
    /\ gpc[g] = "lazy"
    /\ LoggerInit("default")
    /\ At(g, "idle")
    /\ UNCHANGED <<initCalled, server, tracers, booted>>

\* server.New: IsInitialized, and then Init with the server's own Config
New(g) ==
    /\ Begin(g)
    /\ At(g, IF IsInitialized THEN "idle" ELSE "new")
    /\ server' = (server \/ IsInitialized)
    /\ UNCHANGED <<logger, initCalled, tracers>>

NewInit(g) ==
    /\ gpc[g] = "new"
    /\ LoggerInit("server")
    /\ At(g, "idle")
    /\ server' = TRUE
    /\ UNCHANGED <<initCalled, tracers, booted>>

-----------------------------------------------------------------------------
(* The tracer provider *)

rest == <<logger, initCalled, server, gpc>>

Trace(g, place, tp) ==
    /\ tracing' = [tracing EXCEPT ![g] = place]
    /\ held' = [held EXCEPT ![g] = tp]

\* tracing.Init up to the lock: a provider and its connection; a disabled
\* configuration or a failing exporter leaves nothing behind.  A goroutine
\* builds the next one when its name is free, for others may hold the last.
Build(g) ==
    /\ tracing[g] = "off" /\ g \notin live
    /\ Begin(g)
    /\ \/ Trace(g, "built", NoTracer) /\ live' = live \cup {g}
       \/ UNCHANGED <<tracing, held, live>>
    /\ UNCHANGED <<rest, provider, otel, spent, again>>

\* Mutant: an earlier Init is overwritten.
InstallAnyway(g) ==
    /\ tracing[g] = "built"
    /\ provider' = g
    /\ Trace(g, "installed", NoTracer)
    /\ UNCHANGED <<rest, otel, live, spent, again, booted>>

\* mu.Lock: one Init has the variable, the others shut their provider down
Install(g) ==
    /\ tracing[g] = "built"
    /\ IF provider = NoTracer
       THEN provider' = g /\ Trace(g, "installed", NoTracer)
       ELSE UNCHANGED provider /\ Trace(g, "closing", g)
    /\ UNCHANGED <<rest, otel, live, spent, again, booted>>

\* outside the lock: SetTracerProvider, and Init returns its shutdown function
SetGlobal(g) ==
    /\ tracing[g] = "installed"
    /\ otel' = g
    /\ Trace(g, "ready", NoTracer)
    /\ UNCHANGED <<rest, provider, live, spent, again, booted>>

\* the shutdown function takes whatever provider there is
TakeCurrent(g) ==
    /\ Begin(g)
    /\ provider' = NoTracer
    /\ Trace(g, IF provider = NoTracer THEN "off" ELSE "closing", provider)
    /\ UNCHANGED <<rest, otel, live>>

Take(g) ==
    /\ tracing[g] = "ready"
    /\ TakeCurrent(g)
    /\ spent' = spent \cup {g}
    /\ UNCHANGED again

\* so does one that has been called before
TakeAgain(g) ==
    /\ tracing[g] = "off" /\ g \in spent
    /\ TakeCurrent(g)
    /\ again' = TRUE
    /\ UNCHANGED spent

\* Shutdown of a provider, outside the lock
Close(g) ==
    /\ tracing[g] = "closing"
    /\ live' = live \ {held[g]}
    /\ Trace(g, "off", NoTracer)
    /\ UNCHANGED <<rest, provider, otel, spent, again, booted>>

-----------------------------------------------------------------------------

GStep(g) ==
    \/ L(g) \/ LLazy(g) \/ New(g) \/ NewInit(g)
    \/ Build(g) \/ Install(g) \/ SetGlobal(g)
    \/ Take(g) \/ TakeAgain(g) \/ Close(g)

GNext == Configure \/ \E g \in Go : GStep(g)

\* all goroutines have made the calls they could
Quiet ==
    \A g \in Go : /\ gpc[g] = "idle"
                  /\ tracing[g] \in {"off", "ready"}
                  /\ booted[g] = MaxBoot

-----------------------------------------------------------------------------

\* Nobody is between finding no logger and initialising it.
WindowClosed == \A g \in Go : gpc[g] = "idle"

\* Once the logger is configured and nobody is left who found none before, it is
\* neither replaced by the lazy default nor by another server's New, whatever
\* the goroutines that log and build servers do from then on; only the process's
\* own Init replaces it (logger.go lines 80-93, server.go lines 28-34).
ConfiguredLoggerStays ==
    [][WindowClosed /\ logger \in {"init", "server"}
         => WindowClosed' /\ logger' \in {logger, "init"}]_globals

\* "Init sets the global JSON logger. Safe to call once at process start."
\* (logger.go line 28): from the process's Init on, its logger is the global one.
InitSetsLogger == initCalled => logger = "init"

\* From the return of a successful Init to the call of its shutdown function
\* the global provider is the caller's and alive, although Init and shutdown
\* leave the lock before they act, as long as no shutdown function is called
\* twice; and even then every provider that is alive can still be shut down: by
\* the variable's owner or by who is about to do it (tracer.go lines 129-139
\* and 145-158).
TracerOwnership ==
    /\ ~again => \A g \in Go : tracing[g] = "ready" =>
           provider = g /\ otel = g /\ g \in live
    /\ \A g \in live : \/ provider = g \/ tracing[g] = "built"
                       \/ \E h \in Go : tracing[h] = "closing" /\ held[h] = g

=============================================================================
