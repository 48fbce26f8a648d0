# Verification of go-packages

TLA+ models of the parts of go-packages whose correctness depends on
interleaving, failure or time, model-checked with TLC and, for the central
results, proved with TLAPS. Line numbers refer to the files under `src/`.

## 1. Inventory

go-packages is a set of Go modules that microservices link. There is no server
of its own; the concurrency is that of the service's goroutines, of the
packages' own goroutines (`App.Run`, the AMQP reconnect loop) and of several
processes that share a database and a broker (the outbox).

| Component | State | Operations | Hard part |
|---|---|---|---|
| `runtime` (app.go) | registered servers, runners, closers; `ready`; run and shutdown contexts; `errCh`; wait group | `New`, `Add*`, `Ready`, `Ping`, `Run` | a task failing while the caller cancels; the deadline racing the drain; the order of shutdown |
| `messaging/rabbitmq` (client.go) | `conn` under `mu`, `closing`, context, the loop's goroutine | `New`, reconnect loop, `Channel`, `SetupTopology`, `PublishWithConfirm`, `Ping`, `Close` | `Close` against a reconnect halfway; check-then-act in `Channel`; late or missing confirmations; requests the broker never answers |
| `messaging/outbox` (outbox.go) | rows of the store (external), the batch and the event of each relay | `Run`, `tick`, `publishOne`, `fail`, `recover`, `Backoff` | crashes and unknown outcomes between publish and mark; lock timeouts; several relays; overflow of the delay |
| `messaging/retry` (retry.go) | the `x-retry-count` header | `Attempt`, `Decide`, `WithAttempt` | count written by others, in several types, at the ends of int |
| `security/jwks` (jwks.go) | keys, `fetchedAt`, `lastETag` under `mu`; the `refreshing` lock | `Seed`, `Get`, `Refresh`, `EnsureFresh`, `Lookup`, `Parse` | refreshes around a key rotation; conditional requests; broken documents |
| `security/s2s` client.go | one cached token under a mutex | `Token`, `fetch` | several audiences over one slot; expiry counted from the wrong end of a delay |
| `security/s2s` s2s.go, registry.go, http.go; `security/jwt` | configuration, the key cache | `Verify`, `Warm`, `Issue`, `Authenticate`, `RoundTrip` | a token names its own algorithm and key; clocks, leeway and cached tokens; grants withdrawn while tokens live |
| `security/echo`, `security/grpc` | none | middleware, interceptors | the order of verification, permission and handler |
| `security/captcha` | configuration | `NewFromConfig`, `Verify` | a provider that fails; configurations that open the route |
| `security/outcome`, `httplimit` | none | `ClassifyHTTP`, the body limit | lost answers and answers that cannot be decoded; what an error was wrapped in |
| `security/aead`, `transport`, `proxy`, `safeconfig` | configuration | checks and conversions | sequential |
| `errors`, `http/*` | none | error values, status mapping, the middleware chain of `server.New` | three callers of the error handler; two mappings of an error to a status |
| `observability/metrics` | Prometheus counters | `Record*`, classification | counted once or twice |
| `observability/tracing`, `logger` | one global provider, one global logger | `Init`, shutdown, `L` | locks that are left before acting; a lazy default that overtakes `Init`; a shutdown that acts on whatever is there |
| `postgres` | the standard library's pool | `Open`, migration hook | none of its own |

How they interact: `App` runs the outbox relay as a runner and closes the AMQP
client as a closer. The relay publishes through the AMQP client's
`PublishWithConfirm`, and takes only its error as the answer. The verifiers
share one JWKS cache per verifier and ignore the error of `EnsureFresh`. The
token client is what services hand to the outbound transport, and reports to
the metrics. `server.New` initialises the logger when nobody has, and puts
metrics, tracing, access log and error handler around every route; the verifiers
stand in front of the handlers; the client of another service classifies the
answer.

What makes each correct: a shutdown that closes nothing in use and reports what
ended the process; no connection lost between `Close` and the loop; no event
lost and none sent twice without a fault; a bounded number of retries; an
answer of the key server applied to the keys it is about, and never a step back
in time; a cached token that its callee accepts, and a withdrawn grant that takes
effect; a handler that runs for entitled requests only; one answer per request
and at most one count; no failure called definite after an effect that the
handler does not deny; a configured logger and an installed tracer that stay.
`PROJECT.json` lists the hazards at their lines, with the properties against
each.

## 2. Modules

| Module | Models | State and actions |
|---|---|---|
| `AppLifecycle` | `runtime/app.go` | `pc` is Run's place; `task[t]` a goroutine of `start`; `srv` the servers' connections; `deadline` the shutdown context. One action per statement of `Run` that another goroutine can observe; the goroutine of `start` is split at `fn`, `runCtx.Err()`, the send and `runCancel`. A cancelled parent context reaches `runCtx` in a step of its own, as in package context |
| `RabbitClient` | `New`, `connectAndSetup`, `reconnectLoop`, `Close` | `loop` is the goroutine that connects (New's, then the loop's), `closer` the one in `Close`; `conn`, `fresh`, `old`, `taken` are the variables that hold a connection. `LoopAsks` and `CloserAsks` name the places that wait for the broker without a timeout |
| `RabbitPublish` | `Channel`, `SetupTopology`, `Ping`, `PublishWithConfirmHeaders` | extends `RabbitClient` and interleaves publishers and a broker with it |
| `AtLeastOnce` | what the outbox promises | accepted, delivered and settled events |
| `Outbox` | `Relay.Run`, `tick`, `fail`, `recover` for several relays | `status`, `waiting`, `stale` are the rows; `rpc`, `batch`, `cur` each relay's place. Store and Publisher are interfaces: each call may fail before or after it took effect, and a late `MarkFailed` may leave a published row alone or open it again |
| `Backoff`, `Retry` | `Backoff` and its use in `fail`; retry.go and a consumer that obeys it | integers of a small width that wrap (`MachineInt`) |
| `Delivery` | a message from outbox to its end | composes `Backoff` and `Retry`; other producers' messages start in the queue with any count of any type; `first` remembers it |
| `JwksCache` | jwks.go under `Verify` and `Warm` | `keys`, `stale`, `lastETag`, `refreshing`; each caller's place and the answer it holds; the server's published documents as a history |
| `TokenClient` | `Token`, `fetch` | the cached token with the expiry the client assumes and the one in its claims |
| `Auth` | registry.go, signer and verifier of s2s.go, jwt/verifier.go | operators only: a token is a record of claims, `ServiceVerify` and `UserVerify` give the verdict and its reason; the jwt library's parser is external |
| `ServiceCall` | a call between two services | extends `TokenClient`; auth-service answers by its registry, which changes at a restart; the token travels and is verified by a callee whose clock is off |
| `Captcha` | captcha.go | operators only: which verifier a configuration gives, what it makes of an answer |
| `HttpServer` | `server.New`'s chain around a route, echo and gRPC authentication, errors, http/metrics, outcome, the client metrics | one operator per middleware, composed in the order of `New`; requests share no state, so each is one step, and `exchange` keeps the last with its answer |
| `Globals` | logger.go, tracer.go `Init` and shutdown, `server.New`'s use of them | `logger`, `provider`, `otel`, and each goroutine's place; calls are split where the code leaves its lock; goroutines call before, while and after main calls `Init` |
| `Service` | a service process | composes `Globals` and `HttpServer`: no request before `New` has returned |
| `AppLifecycleProofs`, `RabbitProofs`, `OutboxProofs`, `DeliveryProofs`, `JwksCacheProofs`, `ServiceCallProofs`, `HttpServerProofs`, `ServiceProofs` | the theorems of section 4 | each extends the module it is about; `HttpServerProofs` holds the lemmas on the pipeline that `ServiceProofs` needs |
| `MC*` | values for TLC | |

Definitions named `Mutant` in their comment are plausible bugs: each replaces
one definition and makes the property it is listed with in `PROJECT.json` fail.

What is abstracted: names, payloads, headers other than the retry count, error
texts (except for the words `isDefiniteLocal` looks for), hooks, logging and the
metrics other than the request counter. A server's connections are one state per
server. `Run(nil)` and `New` with an empty URL, which return an error before they
create anything, are left out. The moments in a token are whole seconds by
construction: `NewNumericDate` (s2s.go:206-208) cuts off less than one, which
the model's clock does not resolve. Cryptography is not modelled: a token is
signed with a key or not, and no one signs with a key they do not have. An error
is the sequence of the errors it wraps, outermost first. OpenTelemetry's Echo
middleware is external: it hands an error to the error handler and returns it.

## 3. Runs

| Run | Bounds | Shows |
|---|---|---|
| `app` | one server of any of four kinds, one runner, two closers; configured and environment timeouts -1, 0, 1 | the order of the shutdown, its time, whose error `Run` returns, that readiness does not come back, and that Run returns |
| `app_order` | as above | violation: see findings |
| `rabbit` | three connections, one publisher with two calls | no leak, no false success, nothing sent after `Close`; everything returns unless it waits for a broker that never answers; with a willing broker every drop, a replacement's too, is followed by a reconnect |
| `outbox_safety` | two events, two relays, batches of two, one crash or cancellation | at-least-once, duplicates only after faults, one relay per event |
| `outbox_liveness` | one event, two relays | every event is published in the end |
| `delivery` | eight-bit ints; every combination of the bases, caps, limits and headers of `MCDelivery`: all 256 counts as an int, the ends and numbers beyond them as a string or a float | `Backoff` is capped doubling; a message is republished as often as its count leaves room below the limit |
| `jwks` | two callers, two key ids, one of them a possible static key, three documents in turn from four (two good, one broken, one without a usable key), server with or without ETags | the six properties of the cache |
| `s2s` | two callers, two audiences, three calls, tokens of 50 seconds in units of five, one restart of auth-service, clocks off by -40, -30, 0 and 30 seconds, 30 seconds of travel | a cached token is accepted within margin and leeway; a withdrawn grant takes effect |
| `token_guess` | lifetime of 120 seconds | violation: see findings |
| `service` | three goroutines with three calls each; then every request of `MCHttpServer`: tokens that deviate in up to two claims, five moments, all route kinds, handlers that write nothing, 200, 201 or 400 and have taken effect or not, errors of up to two layers, panics, lost and undecodable answers, seven captcha configurations | a configured logger stays once nobody is left who found none; tracer and providers are not lost; entitled handlers only, one answer, at most one count, honest outcomes |
| `logger_lazy` | the same goroutines | violation: see findings |
| `http_status` | a handler's error of each kind, a panic | violation: see findings |

Why these bounds are enough to be of interest: two tasks are what it takes for
one to fail while the other reports; three connections for a replacement that
drops as well; two calls of a publisher for a confirmation that comes late; two
relays and two events for a batch abandoned halfway and taken over; two callers
and three documents for an answer that overtakes another; two goroutines beside
main for an `Init` that loses while another shuts down. Two deviations at once are what it takes to
get past one check by failing another (an HS256 token with another issuer, a
wrong key under a good key id); two layers of error what it takes for a cause to
contradict what wraps it. The widths of `Backoff` and `Retry` reach both ends of
the integer, which no test at 64 bits does. The bounds on counts (`MaxCalls`,
`MaxStops`, `MaxSent`, `MaxDocs`, `MaxNow`, `MaxTransit`, `MaxBoot`,
`MaxFailures`, `MaxCounted`) are named in the modules. The runs of `TokenClient`
and `ServiceCall` end when time or calls are used up, so deadlock is not checked
there. Permutations of relays and events, of callers and of goroutines are
symmetries in the runs without liveness. In `service` requests come after the
goroutines' calls: a request only asks of the globals whether there is a logger,
so the two commute.

Assumptions on what is outside. `Globals`: main calls `Init` at most once; other
goroutines may call `L`, `server.New` and `tracing.Init` at any time, and a
shutdown function any number of times. `HttpServer`: a handler may write any
status, return any error and have taken effect or not. `OutcomeIsHonest` then
has two exceptions, which the code cannot avoid or does not: a handler that has
taken effect and itself says it refused (it writes a 4xx, or returns an error of
such a kind) is believed, and an undecodable answer is taken for a local failure
(see below). `ServiceCall`: callers' and auth-service's clocks agree,
callees' are off by at most `Skews`; auth-service reports `expires_in` (what
happens otherwise is `token_guess`).

Fairness. `app`: Run's goroutine, the tasks' reporting steps, the timer and the
propagation of a cancellation go on; nothing is assumed of what runners,
servers or connections do, but a registered shutdown function is assumed to
obey its context and a closer to return, since Run calls both without a
timeout of its own (lines 241, 263). `rabbit`: goroutines are scheduled, the reconnect
delay and `ConfirmTimeout` pass; nothing is assumed of the broker. The custom
`Dial` (client.go:94-98) bounds the TCP connect, not the AMQP handshake, and
`conn.Channel()`, the topology calls, `ch.Confirm` and both `Close` calls wait
without a timeout, so `CloseReturns`, `CancelStopsLoop` and `CallsReturn` allow
for one outcome besides the return: to wait in such a place for ever. `Reconnects`
holds under `BrokerWilling`, its antecedent: the broker answers the loop in the
end and, tried again and again, accepts a dial and a setup. `outbox_liveness`: both tickers fire (the
select picks among ready cases at random, hence strong fairness), a stopped
relay is started again, backoff and lock timeout pass, and calls tried again
and again succeed at some time.

### Findings

- `app_order`: the package comment (app.go:6-11) puts "cancel runner contexts"
  after "stop HTTP/gRPC servers". `runCtx` is a child of the caller's context
  (line 197) and a failing task cancels it (line 209), so runners are cancelled
  before any server is stopped.
- `token_guess`: the client "caches them until near expiry" (client.go:17-18).
  Without a positive `expires_in` it assumes four minutes, twice the default
  lifetime of the Signer in the same package (s2s.go:179-181).
- `logger_lazy`: `Init` is "Safe to call once at process start" (logger.go:28).
  `L` looks for a logger, leaves the lock and then calls `Init(Config{})` without
  another look (lines 80-88): a goroutine that found none replaces the logger the
  process has configured in between, for good. `ConfiguredLoggerStays` says what
  does hold: once nobody is left in between, the logger stays.
- `http_status`: `http_server_requests_total` counts "Inbound HTTP requests by
  ... status class. Probes are excluded." (http/metrics/middleware.go:29). A
  panic passes the counter (line 52) on its way to Recover and is answered 500
  and not counted, which is what TLC shows first; and the counter's own table of
  error kinds lacks conflict, so an answer 409 is counted as 5xx (line 115).

Observed without a run:

- A broker that accepts connections and then falls silent holds `Close`, the
  reconnect loop and publishers for ever (client.go:94-118, 224, 260, 327): these
  requests have no deadline and do not see the cancelled context.
- "bounded retries" (retry.go:1) depends on who wrote the count: a negative one
  buys as many republications more, the largest int wraps at lines 62 and 65 and
  starts again from the smallest, and `maxAttempts` of the largest int is no limit.
- outcome promises never to "treat transport failures as authoritative business
  failures" (outcome.go:1-2), but `isDefiniteLocal` (lines 70-73) looks for
  "marshal" and finds it in "unmarshal", the failure to decode an answer that
  came after the effect.
- A shutdown function of `tracing.Init` called late or twice shuts down the
  provider of a later `Init` (tracer.go:145-158), and the gRPC connection of a
  provider that was installed is never closed (lines 112, 158).
- A failed token fetch is counted twice as an attempt (client.go:80-83,
  metrics/s2s.go:26), against the help text at registry.go:88; two calls in a
  row, which a unit test shows.
- Outbox stores decide what a late `MarkFailed` does to a published row; the
  interface (outbox.go:22-27) does not say. One that opens the row again publishes
  it again, and only after a fault.
- `AccessLog` skips "/health-check" and "/ready" but logs "/health", which
  `health.Register` adds (request.go:27, health.go:40).
- A scope refused after a successful verification counts as a success and as a
  failure in the authentication counters; `New` ignores its logger configuration
  when anything was logged before it.

## 4. Theorems

Every invariant and every action property that a passing run checks is also a
theorem, for every value of the constants under the named ASSUMEs, which TLC
evaluates in the runs. For most of them the property alone is not inductive;
what follows names the invariant that is.

- `AppLifecycleProofs`: the six invariants of the `app` run, type correctness
  included, the action property `GraceIsGranted`, and `CulpritFailedFirst`: a task
  at work when its context is cancelled stays innocent, for it reads
  `runCtx.Err()` after that and before it may report. They rest on `Inv`, which
  states per phase of `Run` what holds: the loop indices, which tasks exist,
  which servers are stopped or have left an error, that closing has begun only
  after the drain or after a deadline Run will report, which closers have been
  called, and which tasks have sent to `errCh`. `CloseAfterDrain` alone is not
  inductive: it needs the place of `Run` and the wait group's goroutine. That
  `errCh` has room is a counting argument: each task is in it at most once.
- `RabbitProofs`: first the client by itself, `OpenIsOwned`, `CloseReleasesAll`,
  `NoLeftover`, `FailedNewIsClean` and `NoInstallAfterTake` for every number of
  connections. `CInv` says where each reference may be held, and that
  `closing`, set before `Close` asks for the lock, keeps every later swap out.
  Then `PublishersUseClient`: the specification with publishers implies the
  client's, so all of this holds in use (`ClientCorrectInUse`). `PubInv` adds
  that the broker confirms what it has stored; it gives `ConfirmedIsStored`,
  and with `CloseReleasesAll` the action property `NothingSentAfterClose`: the
  handle of a call that passed `isClosing` in time is closed.
- `OutboxProofs`: `PublishedWasSent`, and that `Outbox` implements `AtLeastOnce`
  under the mapping accepted = not absent, delivered = sent at least once,
  settled = published (`Reopen` is a late `MarkFailed` in a store that lets it);
  for every number of relays, events and crashes. `OInv` says that a relay at `MarkPublished` has sent the event it holds. `CleanInv`
  follows an event without a fault: its row is locked as long as one relay, and
  no second, holds it, and it has been sent at most once, by the relay that is
  about to mark it. From it come `OneRelayPerEvent` and `DuplicatesNeedFaults`.
- `DeliveryProofs`: `RetriesBounded` and `CappedDoubling`, for integers of any
  width. The first says how often a message may be republished from the count it
  came with: `max - n` times below the limit, not at all from the limit on, and a
  whole turn of the integers from the largest, where `n + 1` wraps. Its invariant
  is that the count in the header runs ahead of the republications: each one
  raises it by one, from the first count plus one, wrapped. The second is about a
  loop, so it is proved from the equations of the recursive functions `Pow2` and
  `Delays`:
  a function that satisfies the equation exists (tables of powers of every
  length, glued together), hence the CHOOSE behind the definition satisfies it,
  and two functions that do agree, since they agree below the least argument at
  which they do not. `OneIteration` is the arithmetic: the test of `max/2` is
  exactly what the doubling needs not to overflow.
- `JwksCacheProofs`: type correctness and the six properties of the `jwks` run,
  for any goroutines, key ids, documents and rotations. `IInv` says who holds
  the refresh lock; that the keys are those of the installed document and the
  ETag names it; that an answer in hand is of a document no older than the
  installed one; and, for a key that no document has lacked since the call
  began, from which document on it is present.
- `ServiceCallProofs`: `TimelyIsAccepted` and `RevocationTakesEffect`, and
  `HitIsUsable` where answers carry `expires_in` (`token_guess` shows it fails
  without). `VerdictIsLife` takes a token through `Issue`,
  `AuthorizationHeader`, both trims and the verifier, and leaves a comparison of
  the callee's clock with the token's life; `IInv` bounds the life of every
  token in the cache, under way or presented by the registry's last grant.
- `HttpServerProofs`, `ServiceProofs`: `HandlerNeedsLegit`, `OneAnswerOneCount`
  and `OutcomeIsHonest` for every request that has the shape of one
  (`RequestAssumption`: tokens with any claims in the header and in both cookies,
  errors of any depth) and every configuration that gives verifiers (`ConfigAssumption`).
  The lemmas go through the pipeline once: what each verifier accepts, that a
  gate lets pass whom `Legit` names, the status of each refusal and of each
  kind of error, and what `Handle` and the middlewares around it do. The
  invariant is that the last exchange is that of its request. For the globals:
  `ConfiguredLoggerStays` (a logger once there stays there, so nobody new comes
  between finding none and initialising one) and `TracerOwnership` (which of a goroutine's `Init`
  and shutdown may act on the global provider), for any goroutines.

The assumptions are what the code's setting gives: bounds are naturals,
placeholders are outside the sets they extend, tokens have lives and these a
longest one (`CallAssumption`), the client's timeout is within its margin
(`TokenAssumption`; ten seconds by default and thirty in client.go).
`RequestAssumption` asks of a request only its shape.

What the proofs have shown about the models: `OneAnswerOneCount` was false as
first stated. A handler that has written a status other than 200 and then fails
is logged with the status it had written (request.go 38-47); the run's bound,
handlers that write 200 or nothing, had hidden it. The property now says so and
the run has handlers that write 201. Reading the models against the code again
has shown more of the kind: `RetriesBounded`, `ConfiguredLoggerStays`,
`TracerOwnership` and `OutcomeIsHonest` held only under assumptions that no code
makes true, and now say what holds without them. `Legit` was a definition for the one
configuration of the run and is now one for all.

Only model-checked: `RunReturns`, `StaysUnready`, `CloseReturns`,
`CancelStopsLoop`, `Reconnects`, `CallsReturn` and `EventuallyPublished`, which
are about liveness under fairness, out of TLAPS's reach here.

## 5. Not modelled, and the plan

Left out: trace headers and PEM decoding, which keep no state; label strings and
formatting; the Prometheus, OpenTelemetry, Echo and SQL libraries; `aead`, pure
functions around AES-GCM with a single key; `transport`, `proxy`, `safeconfig` and
`postgres`, which check and convert configuration once at start; request ids;
the authentication counters. An answer 200 without an ETag from a server that
sends ETags otherwise keeps the old ETag (jwks.go:133); the model's server is
consistent, and the hazard is listed.

What is left to prove: the safety half of `StaysUnready` (`ready`, once taken
back, is never set again), type correctness of `Service` and of `ServiceCall` as
theorems of their own, and that `TokenClient`, with an auth-service that
reports `expires_in`, is implemented by `ServiceCall`.
