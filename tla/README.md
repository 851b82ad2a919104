# A verification of secure-svc-gw

TLA+ models of the gateway (`src/internal`, `src/cmd/gateway`), of its Kubernetes controller
(`src/cmd/controller`) and of the generator of its certificates (`src/cmd/gen-artifacts`),
checked with TLC on small instances and proved with TLAPS for all values of the constants:
safety and refinement outright, liveness from the facts that only TLC can check (see "Liveness").
`PROJECT.json` lists the components, runs, mutants, findings, hazards and theorems, and maps
every definition to the lines it models.

## The system and its inventory

A request goes through the handler: route, JWT verification with a replay check in a nonce
store, scope, a pick from the pool of the route's service, one or two exchanges with a
backend over mTLS. A health checker per pool probes the backends and owns the healthy bit the
pick reads. The process around them loads a configuration, connects to its nonce store, starts
and, on a signal, drains. In Kubernetes a controller renders that configuration from a custom
resource and restarts the gateway when it changes; under Docker Compose a generator writes it,
with the certificates and keys of everyone involved.

| Component | State | Operations | What is hard |
|---|---|---|---|
| In-memory nonce store (`auth/nonce.go`) | map jti -> exp | CheckAndStore, sweep | the sweeper's and Verify's clock readings are older than the lock |
| Redis nonce store (`auth/redis_nonce.go`) | keys in Redis, a ttl per call | CheckAndStore | replicas with different clocks, lost replies, a Redis that stops or forgets |
| Verifier (`auth/jwt.go`) | registered keys | Verify, HasScope | order of the checks, the instant `exp` |
| Load balancer (`lb/pool.go`) | per backend: healthy, inflight, EWMA, hasStats | Pick, Acquire, Release, RecordLatency, SetHealthy | Pick is many separate reads; SetHealthy is two writes |
| Health checker (`health/checker.go`) | fails, passes, gauge | tick, probe, record | probes overlap and arrive in any order |
| Handler (`proxy/handler.go`) | none of its own; one goroutine per request | ServeHTTP, forward | concurrent use of one token, retry after an exchange with unknown outcome, a body that can be sent once |
| Controller (`cmd/controller/main.go`) | objects in the cluster | reconcile, watch | any call may fail and yet take effect later, crash between writes, lost events, calls the API server does not take |
| Gateway process (`cmd/gateway`, `config`) | configuration, store, two servers, a signal channel | start, serve, shutdown | errors and signals at any point of the start, a deadline shared by two shutdowns, what a restart forgets |
| Generator (`cmd/gen-artifacts`) | some twenty files | one run, again on every `make up` | files replaced one by one under processes that start; a run that fails half way |
| Logging, demo backend, client | - | - | output only, or a stub; see "Not modelled" |

## Modules

| Module | Models | Proofs |
|---|---|---|
| `NonceWindow` | what a `NonceStore` promises: a jti that was let through is not let through again before the exp of its token, unless the store may lose its memory and did | |
| `NonceCache`, `MCNonceCache` | `nonce.go` with the exp check of `Verify` | `NonceCacheProofs` |
| `RedisNonce`, `MCRedisNonce` | `redis_nonce.go` in several replicas; Redis and go-redis external | `RedisNonceProofs` |
| `Pool` | `lb.Backend` as a record, its methods as operators | |
| `SharedPool` | what checker and requests may do to the pool they share: the rules each relies on of the other | |
| `HealthChecker` | `checker.go` over `Pool` | `HealthCheckerProofs` |
| `Balancer`, `MCBalancer` | `Pool.Pick` and the statistics, with requests and checker interleaved | `BalancerProofs` |
| `Admission` | what a request goes through, whoever looks: open, then refused or let through with the use of its jti, then answered, or cut off | |
| `Verifier` | the checks of `Verify` before the store, and `HasScope` | |
| `Handler`, `MCHandler` | `handler.go` over `Verifier` | `HandlerProofs` |
| `Controller`, `MCController` | `cmd/controller/main.go`, the resource of `api/v1alpha1` | `ControllerProofs` |
| `Deployment`, `MCDeployment` | the gateway's pods beside the controller, which the annotation restarts (external) | |
| `Gateway`, `MCGateway` | `cmd/gateway/main.go` with `config.Load`; requests as the server sees them | `GatewayProofs` |
| `Artifacts`, `MCArtifacts` | `cmd/gen-artifacts/main.go`, and the files gateway, backends and clients read at their start (`docker-compose.yaml`, `tls.go`, `client/gateway.py`) | `ArtifactsProofs` |

Every action is one atomic step of the code: what happens under a lock is one action, and
what another goroutine can see half done is two (`SwapHealthy` then `WipeStats`, the ewma then
the in-flight counter of a score, the clock then the lock of the sweeper).

How the modules fit together. HealthChecker and Balancer have the two halves of one pool:
the first every step of the checker and the least of the requests, the second the other way
round. Both are shown to implement `SharedPool` (`KeepsPoolRules`), so what each assumes of the
other is what the other does. NonceCache and RedisNonce implement NonceWindow, with the time
that passes. Handler and Gateway use a store by that promise at a single instant: a set of jtis.
Gateway adds which store it is and what the ends of the process and of Redis do to it. The two
look at the same request, Handler from its goroutine and Gateway from the server; both are shown
to implement `Admission` (`KeepsAdmission`), so the few steps to which Gateway reduces a request
are those Handler's many steps amount to.
Handler's Pick returns any member of the pool or nil; Balancer has the real one. Handler's
trusted backends are a constant; Artifacts says which they are.

Data is abstracted to what the properties tell apart. A token is a record of claims with one
Boolean for "decodes" and the signing key in place of a signature. A configuration file is a
record of what `main` branches on. A generated file is the number of the run that wrote it:
keys of one name are equal when they are of one run. A NetworkPolicy is the port it opens. A
namespace for it is the one in which the chart allows the controller to write (`home`) or another.
The hash of a configuration is the configuration. An EWMA is an integer number of `1/Unit`
milliseconds; a division by ten is exact for as many samples as `Unit` has zeros and is rounded down after that. Names that
begin a comment with "Mutant:" are wrong variants of the definition that follows; no
specification uses them.

Two things that the code leaves to what it calls decide what its properties can say.

* The body of a request. `forward` hands the incoming body to `http.Client` (`handler.go:185`),
  which closes it at the end of an attempt, and the retry hands over the same one (`:121`). Over
  HTTP/1 the server's closed body is an error to read, so the retry fails before a backend has a
  complete request. Over HTTP/2 it reads as empty, and the retry delivers a complete request
  without a body. Handler has both (`Closed`, `Deliver`, external); `BodyExecutedOnce` says what is
  left: one delivery of the body itself, and over HTTP/1 one delivery of the request.
* The media type of the controller's calls. `do` marks every body as a strategic merge patch
  (`main.go:403-405`). An API server takes that for the PATCH of an existing object of a built-in
  kind, and answers 415 to a POST and to the PATCH of a custom resource. So `reconcileCertificate`
  always fails and with it every reconcile of a resource with an issuerRef, and a ConfigMap or
  NetworkPolicy that is missing stays so. Those the controller keeps are the ones the Helm charts
  install: `Chart` is the first ConfigMap, the first NetworkPolicy is the backends' chart's or none,
  and `EditConfigMap` and `EditPolicy` are what later upgrades and deletions make of them. The
  convergence properties are about resources without an issuerRef and objects that exist
  (`Applicable`, `Passable`), and about the policy at `home`. One that an edit of the namespace has
  left behind elsewhere is not looked at by the controller nor by the model.

## Runs

Passing runs (bounds in the `.cfg` files):

| Run | Instance | What it shows |
|---|---|---|
| `nonce_cache` | 3 requests, 4 ticks | the store implements NonceWindow exactly; entries live as long as their token and are reclaimed |
| `redis_nonce` | 2 requests, 2 replicas, skew of 1, 4 ticks | the same with the skew as slack, through stops, restarts with the keys or without them, lost replies; every request is answered |
| `health_checker` | 2 backends, one an impostor, 2 overlapping probes each, thresholds 3 and 2 | the bit follows full streaks and nothing less, gauge and statistics agree with it, the checker keeps to SharedPool, the bit converges |
| `handler` | 2 requests, 16 tokens and one more among those that get as far as a backend, 7 paths, no body or one over HTTP/1 or HTTP/2, 3 backends of which 1 untrusted, a store that may fail | only authorised requests are executed, one forward per jti, in-flight counters exact, one retry at most and elsewhere, a body delivered once, every request answered, and once |
| `balancer` | 2 requests, 2 backends, latencies of 0 and 3 ms | EWMA within its samples, the worst backend not picked nor one that was out all along, the busier one only if it is faster, two different ones compared, requests keep to SharedPool |
| `controller` | 5 resources, 2 Secrets, 1 edit (of the resource, the Secret, the ConfigMap or the policy), 1 fault | no ConfigMap without its Certificate and no annotation without its ConfigMap, also with late writes; convergence of ConfigMap, annotation and NetworkPolicy |
| `gateway` | 2 requests with one jti or two, 6 configuration files, 2 attempts to reach Redis, a grace of 2, 2 faults | a jti passes once per memory of the configured store; whatever main waits for has an end; a shutdown answers the quick requests, and ends; a usable gateway comes back |
| `artifacts` | 2 services, the impostor alone in the first and one backend in the second, 1 client, 2 runs of the generator, 1 process stopped | a complete run has replaced everything; no process mixes in older files; processes on the latest run trust each other and never the impostor; every backend starts in the end |

The bounds are enough for the cases in question: two requests suffice for a race between two,
a third in `nonce_cache` lets a jti be used, refused and used again; 4 ticks leave room before,
at and after every `exp`; two backends are the smallest pool in which Pick compares
(`BalancerProofs` covers the larger ones, where the pair drawn is not the whole pool), and a
latency of 0 is the average that `score` replaces; two overlapping probes allow results out of
order. One fault in `controller` reaches every failing call, a late effect of it, and a crash, from
every state. In `gateway` two faults let an outage and a signal, or a signal and a kill, meet anywhere; two attempts have a first and
a last one; a grace of 2 has requests that fit into it and others that do not. In `artifacts`
two runs are a failed one and its successor, or two good ones over a process that starts; the
second service has a certificate triple of its own, read later than the first, by which its
backend is judged (that a backend of the first service is trusted as well is left to the proof).
`ControllerProofs`, `GatewayProofs` and `ArtifactsProofs` have no such bounds.

Fairness. Goroutines that can run do run (weak fairness of their steps); the ticker and
the client timeouts justify fairness of `Tick`, `Probe` and of the exchanges in `Handler`. Go's
mutex starves nobody, hence strong fairness of `record`. `Handler!Finish` has none: the server
has no write timeout and a client may stop reading. `Controller` also assumes that API servers
end a watch sooner or later, and that not every watch ends before its first event (strong fairness
of `TakeEvent`); `Deployment` that the pods are replaced for a new annotation. An API server gives
up its own work on a call, so a late write happens within bounded time or not at all (fairness of `Lands`). `Gateway` assumes that a
container that ended is started again, as Kubernetes does, that Redis comes back, and that time
passes; nothing of its clients. `Artifacts` has fairness for the backends alone, which
`docker-compose.yaml` restarts (`restart: unless-stopped`); the gateway has no such line, and the
generator is run by a person. `Balancer` needs no fairness.
`handler` and `artifacts` do not check for deadlock: the first stops when all its
requests have been served, the second when its runs are over and every process is up.

Violation runs, each a sentence of the repository that the code does not bear out:

| Run | What happens |
|---|---|
| `nonce_accepted_once` | a token is accepted twice when its exp passes and the sweeper runs between the exp check and CheckAndStore |
| `fresh_after_return` | a latency from before the ejection is recorded after the wipe |
| `pods_converge` (`Deployment`) | a pod may keep a configuration that was taken back |
| `restarts_for_changes` | the order of a Go map changes the hash |

## Other differences between text and code

Met while translating the source. They are in the models as the code has them, and are stated
here from reading: no run is about them. Paths are relative to `src/`.

| Code | Text | Difference |
|---|---|---|
| `internal/auth/jwt.go:196` | `:23` | a token still passes at the instant exp |
| `internal/auth/jwt.go:52`, `:199` | `README.md:81` | the window before iat is 30 s and nbf is not read |
| `internal/auth/redis_nonce.go:39` | `README.md:80` | the ttl is measured by the replica's clock, so a key may go before exp by the skew |
| `internal/auth/redis_nonce.go:44` | `README.md:80` | a Redis that restarts without its keys (the chart gives it no volume) lets a jti through again |
| `internal/lb/pool.go:103` | `README.md:27` | a backend with a wrong certificate is in the pool until its first probes have failed |
| `internal/health/checker.go:118` | `internal/lb/pool.go:100` | the first failure does not eject: it takes a full streak |
| `internal/lb/pool.go:116` | `:123` | Pick may return nil although the pool was never empty, since the bits are read one by one |
| `internal/lb/pool.go:84` | `:8` | an average of zero is scored as one millisecond, above averages between zero and one |
| `internal/proxy/handler.go:116` | `:30` | a retried request logs two decisions |
| `internal/proxy/handler.go:121` | `README.md:131` | a request is retried once; over HTTP/2 one with a body may go to the second backend with an empty body |
| `internal/proxy/handler.go:187` | `:239` | a request that cannot be built counts as a transport error and is retried |
| `cmd/controller/main.go:119` | `:114` | a failed read of the Redis Secret leaves Redis out of the configuration |
| `cmd/controller/main.go:235` | `api/v1alpha1/types.go:47` | a NetworkPolicy the API server refuses passes for reconciled |
| `cmd/gen-artifacts/main.go:220` | `:94` | "127.0.0.1" is among the DNS names of the listener's certificate, where the verification of an IP address does not look |
| `cmd/controller/main.go:404` | `:150`, `README.md:623`, `api/v1alpha1/types.go:56` | the API server takes neither a POST nor the PATCH of a Certificate with this media type: no Certificate, and no ConfigMap or NetworkPolicy that is absent, is ever created |
| `cmd/controller/main.go:151` | `:22` | the ConfigMap is patched at every reconcile, not only when the hash differs |
| `cmd/controller/main.go:168` | `:167` | a policy that a change of the backends' namespace has left in the old one is not deleted |
| `cmd/controller/main.go:319` | `api/v1alpha1/types.go:133` | a service without a port inherits the port of the one before it |

## Proofs

* `NonceCacheProofs`. The inductive invariant says, beyond types, that the sweeper's reading is
  not ahead of the clock, and that an entry is absent only where the exp spent on it is past.
  From it follow `RememberedWhileGood` and, step by step, the refinement of NonceWindow.
* `RedisNonceProofs`. Redis may lose its keys when it restarts, which is NonceWindow's `Forget`.
  The invariant bounds the last millisecond of a key from below by the exp of the token that was
  let through with it, less `MaxSkew`; it needs the bound on the ttl of a command under way.
* `HealthCheckerProofs`. The invariant ties the counters to the recorded results (a counter is
  the length of the current streak, up to `MaxCount`), the bit to the counters, the gauge to the
  bit and to what `record` still has to do. The three state invariants follow from it, the two
  action properties are proved from it action by action, and so is the refinement of `SharedPool`.
* `HandlerProofs`. The invariant says, per request, how many attempts it has made by where its
  goroutine is (`Attempts`), that one past authorisation has a verified token, the scope and a
  stored jti (`Cleared`), and what is left of its body once a backend has it (`Executions`);
  across requests, that two admitted ones have different jtis. The last is inductive because a
  request is admitted only with a jti that was not stored, and the others' are. A step of one
  request changes nothing of another (`Frame`), so each action is looked at for its own request.
  All safety properties of the run follow, for any number of requests.
* `BalancerProofs`. The invariant says that a scan lists no backend twice (`Apart`), what a
  request has by each stage of Pick (`Stage`), and that what it has read is what there is as long
  as it is quiet (`Current`), and that a backend out of the pool since the scan began is not in its
  list (`Unseen`, `OutIsOut`); with it go the bounds of the average and that the counters are exact
  (`InflightExact`), which the rules of `SharedPool` need. The two draws differ by arithmetic
  (`SecondDiffers`), the average stays in range by `Between`, and of two products the one with the
  larger number of requests is the smaller only by its average (`LowerFactor`). All
  properties of the Balancer run follow, the refinement of `SharedPool` included, for a pool of
  any size.
* `ControllerProofs`. Beyond types (`Objects`, `Outside`) the invariant says what reconcile holds
  at each of its calls (`Holds`), what it has done by then (`Done`), and that the ConfigMap is the
  chart's or that of a resource that needs no Certificate (`Origin`). A late write breaks neither
  order because it was due when it was made and nothing undoes that: it is of a reconcile that got
  past the Certificate, and `held` keeps what the ConfigMap has held (`AllDue`, `History`). From it
  follow the order of Certificate and ConfigMap and that of ConfigMap and annotation, for any number
  of edits, faults and late writes.
* `GatewayProofs`. A process without servers has no connections (`Wired`). The store is the
  configured one and has every jti it let through since it last lost its memory (`Remembered`),
  hence one use per memory. A request that a shutdown found with enough time left has less work
  than the context has seconds, or is answered (`InTime`); both go down together.
* `ArtifactsProofs`. The files a run has passed are its own (`Passed`). A file is never older than
  those written after it, unless it is being written (`Ordered`), whichever runs gave up where; so
  what comes before a process's first file in the order of writing is not older than what the
  process has of it (`Ahead`), and a process reads nothing older than its first file. That
  yields `Agree` for any tables of services and clients: the latest run has no newer files.

The constants need only the named assumptions of the modules: exps are natural numbers,
thresholds positive, the set of requests finite, the entries of a pool different from each
other, generated files and processes told apart by their names, `None` distinct from other values (in Handler, from the status codes).

### Refinement

Six refinements are proved, each as `Spec => Abstract!Spec`: initial states map to initial
states and each action, with the inductive invariant, to a step or a stutter.

* `NonceCache` and `RedisNonce` implement `NonceWindow`.
* `HealthChecker` and `Balancer` implement `SharedPool`.
* `Handler` implements `Admission` (`HandlerAdmits`). Its steps between the use of the jti and the
  answer are stutters: the picks, the exchanges, the retry. The one fact the invariant lacked is
  that the status is 200 while the body is copied, so that a request that ends there counts as
  answered and not as refused.
* `Gateway` implements `Admission` with the ends of a process (`GatewayAdmits`). A client that
  stops reading is a stutter, every way the process ends is `End`, and getting a store is `Recall`,
  which is right because a process that is still starting has no request under way (`Wired`).

`KeepsAdmission` was checked with TLC on the instances of `handler` and `gateway` before it was
proved; their runs leave it out.

### Liveness

Every liveness property of a run is the conclusion of a theorem, from the specification with the
fairness described above and two kinds of premises, which are what the prover cannot establish.

* `[]GoesOn`: each step that the fairness is about is enabled where the code can take it. The
  prover has no rules for `ENABLED`; TLC has checked each `GoesOn` as an invariant on the
  instances of the runs.
* The end of a counting. Temporal induction over the natural numbers is out of reach, so a
  theorem takes for granted that a bounded counter comes to rest, and the argument from there
  on is proved.

| Theorem | Premises beyond `[]GoesOn` | Argument |
|---|---|---|
| `MemoryReclaimed` | the clock comes to its bound | a sweep under way ends, the next one reads the last instant and removes what is past |
| `AnsweredWithoutRedis` | none | three steps of the request, each of which stays possible whatever Redis does |
| `BitConverges` | `KeepsTicking`: the ticker goes on; `CountersSettle`: once a backend no longer changes, the counter of its results rests | a probe is sent, answered and recorded again and again; a counter that rests while results are recorded is at its bound; then `record` sets the bit |
| `EveryRequestAnswered` | none | the stages of `ServeHTTP` by attempt (`At`): each leads to the next one or to an answer, and the second attempt is the last |
| `ConfigurationConverges`, `NetworkPolicyConverges` | `Settles`: edits, faults and late writes end | a reconcile of an `Applicable` resource that starts after the last change writes the ConfigMap and the policy and, if it is `Passable`, gets to the annotation; the watch or the next one brings it about, and nothing undoes it |
| `SignalStops` | `LoopsEnd` | the deadline comes, both shutdowns return, main returns; a signal or a crash on the way ends the process too |
| `GatewayRecovers` | `LoopsEnd`; faults end | a process with a configuration from before the last edit ends (`Deaf`) or serves; the next start finds all it needs (`Sound`), goes through to `wait`, and both listeners open |
| `BackendsStart` | processes are no longer stopped | a backend reads on or gives up, and once all of its files are of complete runs it reads to the end |

`LoopsEnd` is a property of the `gateway` run. `CountersSettle` was checked with TLC on the
instance of `health_checker`; the other premises are about the clock, the ticker and the bounds
of the model on what its environment does.

### Only model-checked

`ENABLED` (`GoesOn`) and the ends of countings (`LoopsEnd`, `CountersSettle`), as above. Every
other property of a passing run is the statement of a theorem, the liveness properties under
those premises. Every component has a `TypeOK`. `redis_nonce` checks it, where it says that no
ttl is zero; for all of them it is proved (`TypeCorrect`), as a part of the inductive invariant.

## Not modelled

* Logging (`internal/logging`), the metrics but for the gauge of the health checker, request ids,
  the copying of headers: output that no decision of the code depends on.
* The parsing of base64, JSON, YAML and PEM, and cryptography: a value decodes or does not, a
  signature is that of a key. What they do to every byte is beyond a model checker.
* The client library and the demo backend, but for the files they read at their start and the
  health endpoint. Handler's inputs are what any client may send, its exchanges what any backend
  may do.
* The order of the attempts to reach Redis is there, the growing pauses between them are not: no
  property is about how long a start takes.
* A health check request that cannot be built. `probe` ignores that error (`checker.go:86`) and would
  pass a nil request on; HealthChecker takes every address in the configuration to be a URL, which
  `config.Load` does not check.
* A wall clock that steps back, redirects a backend may send, two backends of one ID.
* The probabilities behind two random choices: how evenly concurrent picks spread.
* Handler over the real stores and the real pool in one specification. The
  interfaces between them are checked instead (NonceWindow, SharedPool); TLC needs about two
  minutes for Handler alone, and the product was not attempted.
