-------------------------------- MODULE Gateway --------------------------------
(***************************************************************************)
(* The gateway process (src/cmd/gateway/main.go) from its start, with the  *)
(* attempts to reach Redis, to its end: an error, a signal that finds no   *)
(* handler, or a shutdown that gives the requests under way five seconds.  *)
(* The process is started again when it has ended, and what its nonce      *)
(* store then still has depends on which store it is. Redis, too, may stop *)
(* and start again, with its keys or without them.                         *)
(*                                                                         *)
(* A request is what Handler makes of it, seen from the server: a          *)
(* connection, the use of a jti, some seconds of work, a response. All     *)
(* tokens are good for as long as the model runs; NonceCache and           *)
(* RedisNonce are about the time for which a store holds what it was given.*)
(*                                                                         *)
(* A configuration file is a record with the fields                        *)
(*   parses              the file is there and is the YAML of a Config     *)
(*   routes, services    how many there are                                *)
(*   keys                the client keys, {"good", "bad"} at most: a bad   *)
(*                       one is not the base64 of 32 bytes                 *)
(*   redis, listener     "none", "good" or "bad": redis_url, and the       *)
(*                       certificate and key of the client-facing listener *)
(***************************************************************************)
EXTENDS Integers, FiniteSets

CONSTANTS
    Requests,
    Jtis,
    Uses,            \* which jti the token of each request may have
    Files,           \* what the configuration file may hold
    Attempts,        \* to reach Redis: ten
    Grace,           \* seconds a shutdown waits: five
    Works,           \* seconds the handler may need for a request
    MaxFaults,       \* bound on signals, crashes, outages and edits
    None             \* the absence of a value

Servers == {"gateway", "metrics"}
Stores == {"memory", "redis"}
Choices == {"none", "good", "bad"}

Config == [parses : BOOLEAN, routes : Nat, services : Nat, keys : SUBSET {"good", "bad"},
           redis : Choices, listener : Choices]

ASSUME FilesAssumption == Files \subseteq Config
ASSUME TimesAssumption == Attempts \in Nat \ {0} /\ Grace \in Nat /\ Works \subseteq Nat
ASSUME FaultsAssumption == MaxFaults \in Nat
ASSUME UsesAssumption == Uses \subseteq [Requests -> Jtis]
ASSUME NoneAssumption == None \notin Files /\ None \notin Stores /\ None \notin {0, 1, 2}

VARIABLES
    pc, code,        \* where main is, and the exit status once it is "dead"
    cfg,             \* the configuration it has loaded
    attempt, pools,  \* the loops: the attempt to reach Redis, the services registered
    store,           \* the nonce store of this life: "memory" or "redis"
    mem, keys,       \* the jtis in the in-memory store, and in Redis
    srv,             \* server |-> "off", "starting", "up" or "closed"
    sig,             \* the channel stop holds a signal
    left,            \* seconds until the context of the shutdown expires
    jti,             \* request |-> the jti of its token
    conn, work,      \* request |-> its connection, the seconds its handler still needs
    scrape,          \* the metrics are being read
    file, certs,     \* the configuration file; the gateway's certificates are good
    redisUp,         \* Redis answers
    faults,          \* how much of the bound is left
    passed,          \* history: store |-> the requests let through since it last lost its memory
    promised         \* history: those a shutdown has found with enough time left

outside == <<file, certs, redisUp, faults>>
startup == <<cfg, attempt, pools, store>>
traffic == <<jti, conn, work>>
stores == <<mem, keys>>
vars == <<pc, code, startup, stores, srv, sig, left, traffic, scrape, outside, passed, promised>>

Init ==
    /\ pc = "load" /\ code = None
    /\ cfg = None /\ attempt = 1 /\ pools = 0 /\ store = None
    /\ mem = {} /\ keys = {}
    /\ srv = [s \in Servers |-> "off"] /\ sig = FALSE /\ left = 0
    /\ jti \in Uses
    /\ conn = [r \in Requests |-> "none"] /\ work = [r \in Requests |-> 0]
    /\ scrape = FALSE
    /\ file \in Files /\ certs \in BOOLEAN /\ redisUp \in BOOLEAN /\ faults = MaxFaults
    /\ passed = [s \in Stores |-> {}] /\ promised = {}

Fault == faults > 0 /\ faults' = faults - 1 /\ UNCHANGED <<file, certs, redisUp>>

\* The process ends, and with it its memory and its connections.
Exit(status) ==
    /\ pc' = "dead" /\ code' = status
    /\ cfg' = None /\ attempt' = 1 /\ pools' = 0 /\ store' = None
    /\ mem' = {}
    /\ srv' = [s \in Servers |-> "off"] /\ sig' = FALSE /\ left' = 0 /\ scrape' = FALSE
    /\ conn' = [r \in Requests |-> IF conn[r] \in {"open", "active", "stalled"} THEN "cut" ELSE conn[r]]
    /\ work' = [r \in Requests |-> 0]
    /\ passed' = [passed EXCEPT !["memory"] = {}]
    /\ UNCHANGED <<keys, jti, promised>>

\* External: the container is started again.
Restart ==
    /\ pc = "dead"
    /\ pc' = "load" /\ code' = None /\ promised' = {}
    /\ UNCHANGED <<startup, stores, srv, sig, left, traffic, scrape, outside, passed>>
--------------------------------------------------------------------------------
(* Start. *)

\* main goes on to where; the rest of the start-up is left to the action.
Goto(where) ==
    /\ pc' = where
    /\ UNCHANGED <<code, stores, srv, sig, left, traffic, scrape, outside, passed, promised>>

LoadOK(f) == f.parses /\ f.routes > 0 /\ f.services > 0

Load ==
    /\ pc = "load" /\ LoadOK(file)
    /\ cfg' = file
    /\ Goto("store")
    /\ UNCHANGED <<attempt, pools, store>>

\* Mutant: the gateway makes do with a store of its own when Redis cannot be reached.
FallBackToMemory ==
    /\ pc = "store" /\ (cfg.redis = "none" \/ attempt = Attempts)
    /\ store' = "memory"
    /\ Goto("verifier")
    /\ UNCHANGED <<cfg, attempt, pools>>

UseMemory ==
    /\ pc = "store" /\ cfg.redis = "none"
    /\ store' = "memory"
    /\ Goto("verifier")
    /\ UNCHANGED <<cfg, attempt, pools>>

\* NewRedisNonceStore parses the URL and pings the server.
NewRedisNonceStore == cfg.redis = "good" /\ redisUp

\* Mutant: the error of an earlier attempt stands.
ConnectedAtFirst ==
    /\ pc = "store" /\ cfg.redis # "none"
    /\ NewRedisNonceStore /\ attempt = 1
    /\ store' = "redis"
    /\ Goto("verifier")
    /\ UNCHANGED <<cfg, attempt, pools>>

Connected ==
    /\ pc = "store" /\ cfg.redis # "none"
    /\ NewRedisNonceStore
    /\ store' = "redis"
    /\ Goto("verifier")
    /\ UNCHANGED <<cfg, attempt, pools>>

\* Mutant: an attempt that fails is not counted.
NotReadyForever ==
    /\ pc = "store" /\ cfg.redis # "none"
    /\ ~NewRedisNonceStore
    /\ attempt < Attempts
    /\ Goto("store")
    /\ UNCHANGED startup

NotReady ==
    /\ pc = "store" /\ cfg.redis # "none"
    /\ ~NewRedisNonceStore
    /\ attempt < Attempts
    /\ attempt' = attempt + 1
    /\ Goto("store")
    /\ UNCHANGED <<cfg, pools, store>>

\* At least one key, and each of them decodes.
KeysOK(f) == f.keys # {} /\ "bad" \notin f.keys

NewVerifier ==
    /\ pc = "verifier" /\ KeysOK(cfg)
    /\ Goto("services")
    /\ UNCHANGED startup

\* A pool, a client and a checker for the next service. BackendTLS reads the
\* certificates anew for each of them.
RegisterService ==
    /\ pc = "services" /\ pools < cfg.services
    /\ certs
    /\ pools' = pools + 1
    /\ Goto("services")
    /\ UNCHANGED <<cfg, attempt, store>>

\* The errors of the start-up, each of which ends the process.
StartFails ==
    /\ \/ pc = "load" /\ ~LoadOK(file)
       \/ pc = "store" /\ cfg.redis # "none" /\ ~NewRedisNonceStore /\ attempt = Attempts
       \/ pc = "verifier" /\ ~KeysOK(cfg)
       \/ pc = "services" /\ pools < cfg.services /\ ~certs
    /\ Exit(1)
    /\ UNCHANGED outside

\* Both servers get a goroutine ...
StartServers ==
    /\ pc = "services" /\ pools = cfg.services
    /\ pc' = "arm"
    /\ srv' = [s \in Servers |-> "starting"]
    /\ UNCHANGED <<code, startup, stores, sig, left, traffic, scrape, outside, passed, promised>>

\* ... before the process asks for signals.
Notify ==
    /\ pc = "arm"
    /\ Goto("wait")
    /\ UNCHANGED startup

\* The listener has its port and, if it speaks TLS, its certificate.
Listen(s) ==
    /\ srv[s] = "starting"
    /\ s = "gateway" => cfg.listener # "bad"
    /\ srv' = [srv EXCEPT ![s] = "up"]
    /\ UNCHANGED <<pc, code, startup, stores, sig, left, traffic, scrape, outside, passed, promised>>

\* ListenAndServe returns an error other than ErrServerClosed: whichever server it is, the
\* process ends.
ServeFails(s) ==
    /\ \/ srv[s] = "starting" /\ s = "gateway" /\ cfg.listener = "bad" /\ UNCHANGED outside
       \/ srv[s] \in {"starting", "up"} /\ Fault
    /\ Exit(1)
--------------------------------------------------------------------------------
(* The requests, as net/http and Handler treat them. *)

\* What a request does to its connection leaves main alone.
Step(r, state) ==
    /\ conn' = [conn EXCEPT ![r] = state]
    /\ UNCHANGED <<pc, code, startup, srv, sig, left, jti, scrape>>

Connect(r) ==
    /\ conn[r] = "none" /\ srv["gateway"] = "up"
    /\ Step(r, "open")
    /\ UNCHANGED <<stores, work, outside, passed, promised>>

\* ReadHeaderTimeout.
HeaderTimeout(r) ==
    /\ conn[r] = "open"
    /\ Step(r, "rejected")
    /\ UNCHANGED <<stores, work, outside, passed, promised>>

\* CheckAndStore, for a store that answers.
Has(j) == IF store = "redis" THEN j \in keys ELSE j \in mem

Answers == store = "redis" => redisUp

Remember(j) ==
    IF store = "redis"
    THEN keys' = keys \cup {j} /\ UNCHANGED mem
    ELSE mem' = mem \cup {j} /\ UNCHANGED keys

\* The header has been read, and Verify lets the token pass.
Admit(r) ==
    /\ conn[r] = "open"
    /\ Answers /\ ~Has(jti[r])
    /\ Remember(jti[r])
    /\ \E w \in Works : work' = [work EXCEPT ![r] = w]
    /\ passed' = [passed EXCEPT ![IF cfg.redis = "none" THEN "memory" ELSE "redis"] = @ \cup {r}]
    /\ Step(r, "active")
    /\ UNCHANGED <<outside, promised>>

\* A replay; or Redis does not answer, and may have stored the jti.
Refuse(r) ==
    /\ conn[r] = "open"
    /\ \/ Answers /\ Has(jti[r]) /\ UNCHANGED <<stores, outside>>
       \/ ~Answers /\ UNCHANGED <<stores, outside>>
       \/ store = "redis" /\ redisUp /\ Fault /\ Remember(jti[r])
    /\ Step(r, "rejected")
    /\ UNCHANGED <<work, passed, promised>>

Respond(r) ==
    /\ conn[r] = "active" /\ work[r] = 0
    /\ Step(r, "answered")
    /\ UNCHANGED <<stores, work, outside, passed, promised>>

\* The client stops reading, and nothing limits how long.
Stall(r) ==
    /\ conn[r] = "active"
    /\ Step(r, "stalled")
    /\ work' = [work EXCEPT ![r] = 0]
    /\ promised' = promised \ {r}
    /\ UNCHANGED <<stores, outside, passed>>

Resume(r) ==
    /\ conn[r] = "stalled"
    /\ Step(r, "answered")
    /\ UNCHANGED <<stores, work, outside, passed, promised>>

Scrape ==
    /\ scrape \/ srv["metrics"] = "up"
    /\ scrape' = ~scrape
    /\ UNCHANGED <<pc, code, startup, stores, srv, sig, left, traffic, outside, passed, promised>>
--------------------------------------------------------------------------------
(* The end. *)

Stopping == pc \in {"drain", "metrics"}

\* SIGINT or SIGTERM. Without a handler it ends the process; the channel has room for one,
\* which nobody reads any more once the shutdown has begun.
Signal ==
    /\ pc # "dead" /\ Fault
    /\ IF pc = "wait" \/ Stopping
       THEN /\ sig' = TRUE
            /\ UNCHANGED <<pc, code, startup, stores, srv, left, traffic, scrape, passed, promised>>
       ELSE Exit(2)

\* SIGKILL, or the end of the machine.
Kill == pc # "dead" /\ Fault /\ Exit(2)

\* srv.Shutdown closes the listener ...
Shutdown ==
    /\ pc = "wait" /\ sig
    /\ pc' = "drain" /\ sig' = FALSE
    /\ srv' = [srv EXCEPT !["gateway"] = "closed"]
    /\ left' = Grace
    /\ promised' = {r \in Requests : conn[r] = "active" /\ work[r] < Grace}
    /\ UNCHANGED <<code, startup, stores, traffic, scrape, outside, passed>>

Busy == \E r \in Requests : conn[r] \in {"open", "active", "stalled"}

\* Mutants: Close instead of Shutdown; a context without a deadline.
DrainedAtOnce == TRUE
DrainedWhenIdle == ~Busy

Drained == Busy => left = 0

\* ... and returns when no connection is busy or its context has expired. The same context
\* goes to metricsSrv.Shutdown ...
ShutdownMetrics ==
    /\ pc = "drain" /\ Drained
    /\ pc' = "metrics"
    /\ srv' = [srv EXCEPT !["metrics"] = "closed"]
    /\ UNCHANGED <<code, startup, stores, sig, left, traffic, scrape, outside, passed, promised>>

\* ... and main returns.
Return ==
    /\ pc = "metrics" /\ (scrape => left = 0)
    /\ Exit(0)
    /\ UNCHANGED outside

\* A second passes; a handler that has finished has written its response before that.
Tick ==
    /\ \A r \in Requests : conn[r] = "active" => work[r] > 0
    /\ Stopping => left > 0
    /\ left' = IF Stopping THEN left - 1 ELSE left
    /\ work' = [r \in Requests |-> IF conn[r] = "active" THEN work[r] - 1 ELSE work[r]]
    /\ UNCHANGED <<pc, code, startup, stores, srv, sig, jti, conn, scrape, outside, passed, promised>>
--------------------------------------------------------------------------------
(* External: the file and the certificates are replaced, Redis stops and starts. *)

Outage ==
    /\ faults > 0 /\ faults' = faults - 1
    /\ \/ file' \in Files \ {file} /\ UNCHANGED <<certs, redisUp>>
       \/ certs' = ~certs /\ UNCHANGED <<file, redisUp>>
       \/ redisUp /\ redisUp' = FALSE /\ UNCHANGED <<file, certs>>
    /\ UNCHANGED <<pc, code, startup, stores, srv, sig, left, traffic, scrape, passed, promised>>

\* With its keys, or without them: the chart gives Redis no volume.
RedisStarts ==
    /\ ~redisUp /\ redisUp' = TRUE
    /\ \/ UNCHANGED <<keys, passed>>
       \/ keys' = {} /\ passed' = [passed EXCEPT !["redis"] = {}]
    /\ UNCHANGED <<file, certs, faults, mem>>
    /\ UNCHANGED <<pc, code, startup, srv, sig, left, traffic, scrape, promised>>
--------------------------------------------------------------------------------
Main ==
    \/ Load \/ UseMemory \/ Connected \/ NotReady \/ NewVerifier \/ RegisterService
    \/ StartFails \/ StartServers \/ Notify
    \/ Shutdown \/ ShutdownMetrics \/ Return

Next ==
    \/ Main \/ Restart
    \/ \E s \in Servers : Listen(s) \/ ServeFails(s)
    \/ \E r \in Requests :
        \/ Connect(r) \/ HeaderTimeout(r) \/ Admit(r) \/ Refuse(r)
        \/ Respond(r) \/ Stall(r) \/ Resume(r)
    \/ Scrape \/ Signal \/ Kill \/ Tick \/ Outage \/ RedisStarts

\* Goroutines that can run do run, time passes, the container is started again and Redis
\* comes back. Nothing is assumed of the clients.
Fairness ==
    /\ WF_vars(Main) /\ WF_vars(Restart) /\ WF_vars(Tick) /\ WF_vars(RedisStarts)
    /\ \A s \in Servers : WF_vars(Listen(s)) /\ WF_vars(ServeFails(s))
    /\ \A r \in Requests : WF_vars(Respond(r))

Spec == Init /\ [][Next]_vars /\ Fairness
--------------------------------------------------------------------------------
TypeOK ==
    /\ pc \in {"load", "store", "verifier", "services", "arm", "wait", "drain", "metrics", "dead"}
    /\ code \in {None, 0, 1, 2} /\ (code # None <=> pc = "dead")
    /\ cfg \in Files \cup {None} /\ (cfg = None <=> pc \in {"load", "dead"})
    /\ attempt \in 1..Attempts /\ pools \in Nat
    /\ store \in Stores \cup {None} /\ (store = None <=> pc \in {"load", "store", "dead"})
    /\ mem \subseteq Jtis /\ keys \subseteq Jtis /\ jti \in Uses
    /\ srv \in [Servers -> {"off", "starting", "up", "closed"}]
    /\ sig \in BOOLEAN /\ scrape \in BOOLEAN /\ certs \in BOOLEAN /\ redisUp \in BOOLEAN
    /\ left \in 0..Grace
    /\ conn \in [Requests -> {"none", "open", "active", "stalled", "answered", "rejected", "cut"}]
    /\ work \in [Requests -> Nat]
    /\ file \in Files /\ faults \in 0..MaxFaults
    /\ passed \in [Stores -> SUBSET Requests] /\ promised \subseteq Requests

\* What a restart costs. Two requests with one jti are let through only if the configured
\* store lost its memory in between: the in-memory one with each end of the process, Redis
\* with its keys. A gateway that is configured for Redis and does not reach it ends rather
\* than start with a store of its own, and a restart of the gateway alone costs nothing.
OncePerMemory ==
    \A s \in Stores : \A p, q \in passed[s] : p # q => jti[p] # jti[q]

\* A shutdown that runs to its end has answered every request that needed less than its
\* five seconds and whose client went on reading, whatever the other clients, the metrics
\* server and further signals did in the meantime.
QuickAnswered == pc = "dead" /\ code = 0 => \A r \in promised : conn[r] = "answered"

\* Where a request is, the jti it carries, and the jtis the store of this life holds.
PhaseOf(state) == IF state = "stalled" THEN "active" ELSE state
Carries(r) == IF conn[r] = "none" THEN {} ELSE {jti[r]}
Used == IF store = None THEN {} ELSE IF store = "redis" THEN keys ELSE mem

\* To the process a request is what it is to its handler, as Admission has it: the clients
\* that stop reading, the shutdown, the crashes and the outages of Redis change nothing in
\* what a request goes through.
Admission == INSTANCE Admission WITH
    Ends <- TRUE,
    phase <- [r \in Requests |-> PhaseOf(conn[r])],
    carries <- [r \in Requests |-> Carries(r)],
    used <- Used
KeepsAdmission == Admission!Spec

\* main has a next step: one of its start, or of a shutdown that has nothing to wait for.
Due ==
    \/ pc \in {"load", "store", "verifier", "services", "arm"}
    \/ pc = "wait" /\ sig
    \/ pc = "drain" /\ Drained
    \/ pc = "metrics" /\ (scrape => left = 0)

\* Nothing that has to go on is stuck: main takes the step that is due, the container can
\* be started again, Redis can come back, and a listener is opened or fails.
GoesOn ==
    /\ Due => ENABLED <<Main>>_vars
    /\ pc = "dead" => ENABLED <<Restart>>_vars
    /\ ~redisUp => ENABLED <<RedisStarts>>_vars
    /\ \A s \in Servers :
        srv[s] = "starting" =>
            IF s = "gateway" /\ cfg.listener = "bad"
            THEN ENABLED <<ServeFails(s)>>_vars
            ELSE ENABLED <<Listen(s)>>_vars

\* main is in one of its loops: over the attempts to reach Redis (main.go:52-64), over the
\* services, or waiting in a shutdown whose context has not expired.
Looping == pc \in {"store", "services"} \/ (Stopping /\ left # 0)

\* What main waits for has an end: it leaves every loop, whatever Redis, the requests under
\* way, the clients that have stopped reading and the scrapes do.
LoopsEnd == []<>~Looping

\* A signal that finds its handler ends the process, also when a client has stopped reading
\* (there is no write timeout) and a request takes longer than the shutdown waits.
Stops == (pc = "wait" /\ sig) ~> pc = "dead"

Startable == LoadOK(file) /\ KeysOK(file) /\ file.redis # "bad" /\ file.listener # "bad" /\ certs

\* After the last signal, crash or outage a gateway with a usable configuration serves, and
\* goes on to, although it gave up on Redis before or died half way through its start.
Recovers == <>[]Startable => <>[](pc = "wait" /\ srv = [s \in Servers |-> "up"])
================================================================================
