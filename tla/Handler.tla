-------------------------------- MODULE Handler --------------------------------
(***************************************************************************)
(* Handler.ServeHTTP (src/internal/proxy/handler.go): request goroutines   *)
(* that authenticate, authorise, pick a backend of the route's pool,       *)
(* forward the request, and try once more on another backend after a       *)
(* network error.                                                          *)
(*                                                                         *)
(* Two neighbours are here what they promise. The nonce store is the set   *)
(* of the jtis it holds: every token is verified at the time Now, and      *)
(* NonceCache and RedisNonce model how long a store holds what it was      *)
(* given. Pool.Pick returns any member of the pool or nil: which one, and  *)
(* what the health checker and the latencies have to do with it, is the    *)
(* subject of Balancer. Of a backend's state only the in-flight counter is *)
(* left, which forward keeps.                                              *)
(***************************************************************************)
EXTENDS Verifier

CONSTANTS
    Requests,
    Inputs,        \* what clients send: [path, token, body]
    Routes,        \* the routing table, in order: [service, scope]
    Matches,       \* path |-> the routes whose prefix it has
    BadTargets,    \* paths that, without the prefix, make no URL
    Pools,         \* service |-> its backends
    Trusted,       \* backends whose certificate BackendTLS accepts
    StoreFails,    \* whether the nonce store may be out of reach
    Now,
    None           \* the absence of a value

Backends == UNION {Pools[s] : s \in DOMAIN Pools}

ASSUME RequestsAssumption == IsFiniteSet(Requests)
\* A request has no body, or one that came over HTTP/1 or over HTTP/2.
ASSUME InputsAssumption == \A x \in Inputs : x.body \in {"none", "http1", "http2"}
ASSUME NoneAssumption == None \notin {200, 401, 403, 404, 502, 503}

VARIABLES
    seen,          \* the jtis in the nonce store
    inflight,      \* backend |-> its in-flight counter
    pc, in,        \* request |-> where its goroutine is, what it is serving
    status,        \* what the client was answered
    tries,         \* the backends the request was given to, in order
    body,          \* the request's body: "none", "fresh", "closed", or read to its end, "drained"
    err,           \* how the last exchange ended: "none", "net", "ctx"
    executed       \* history: the backends that got a complete request, and the body then

vars == <<seen, inflight, pc, in, status, tries, body, err, executed>>

Init ==
    /\ seen = {}
    /\ inflight = [b \in Backends |-> 0]
    /\ pc = [r \in Requests |-> "idle"]
    /\ in = [r \in Requests |-> None]
    /\ status = [r \in Requests |-> None]
    /\ tries = [r \in Requests |-> <<>>]
    /\ body = [r \in Requests |-> "none"]
    /\ err = [r \in Requests |-> "none"]
    /\ executed = [r \in Requests |-> {}]
--------------------------------------------------------------------------------
(* Authentication and authorisation. *)

forwarding == <<inflight, in, tries, body, err, executed>>

NoRoute == [service |-> None, scope |-> ""]

\* The first route whose prefix the path has.
Match(path) == IF Matches[path] = {} THEN NoRoute ELSE Routes[Min(Matches[path])]

Service(r) == Match(in[r].path).service

Answer(r, code) ==
    /\ pc' = [pc EXCEPT ![r] = "done"]
    /\ status' = [status EXCEPT ![r] = code]

Goto(r, where) == pc' = [pc EXCEPT ![r] = where] /\ UNCHANGED status

\* A request arrives (external: net/http starts a goroutine for it).
Arrive(r) ==
    /\ pc[r] = "idle"
    /\ \E x \in Inputs :
        /\ in' = [in EXCEPT ![r] = x]
        /\ body' = [body EXCEPT ![r] = IF x.body = "none" THEN "none" ELSE "fresh"]
    /\ Goto(r, "arrived")
    /\ UNCHANGED <<seen, inflight, tries, err, executed>>

RejectRoute(r) ==
    /\ pc[r] = "arrived"
    /\ Service(r) = None
    /\ Answer(r, 404)
    /\ UNCHANGED <<seen, forwarding>>

\* What Verify, or the missing token, says before the nonce store is asked.
Denied(r) == in[r].token # None => Verify(in[r].token, Now) # "ok"

RejectToken(r) ==
    /\ pc[r] = "arrived"
    /\ Service(r) # None
    /\ Denied(r)
    /\ Answer(r, 401)
    /\ UNCHANGED <<seen, forwarding>>

RejectReplay(r) ==
    /\ pc[r] = "arrived"
    /\ Service(r) # None
    /\ ~Denied(r)
    /\ in[r].token.jti \in seen
    /\ Answer(r, 401)
    /\ UNCHANGED <<seen, forwarding>>

\* Mutant: the jti is looked up but not stored.
RememberNothing(jti) == UNCHANGED seen

Remember(jti) == seen' = seen \cup {jti}

\* The store is out of reach, which counts as a replay; it may have stored the jti.
RejectStore(r) ==
    /\ pc[r] = "arrived"
    /\ Service(r) # None
    /\ ~Denied(r)
    /\ StoreFails
    /\ UNCHANGED seen \/ Remember(in[r].token.jti)
    /\ Answer(r, 401)
    /\ UNCHANGED forwarding

\* Verify succeeds, and the jti is consumed.
Authenticate(r) ==
    /\ pc[r] = "arrived"
    /\ Service(r) # None
    /\ ~Denied(r)
    /\ in[r].token.jti \notin seen
    /\ Remember(in[r].token.jti)

Authorised(r) == HasScope(in[r].token, Match(in[r].path).scope)

RejectScope(r) ==
    /\ Authenticate(r)
    /\ ~Authorised(r)
    /\ Answer(r, 403)
    /\ UNCHANGED forwarding

\* A route to a service the configuration does not have: h.pools has a nil *Pool, and
\* Pick panics. net/http drops the connection; nothing is answered, counted or logged.
Panic(r) ==
    /\ Authenticate(r)
    /\ Authorised(r)
    /\ Service(r) \notin DOMAIN Pools
    /\ Goto(r, "panicked")
    /\ UNCHANGED forwarding

Admit(r) ==
    /\ Authenticate(r)
    /\ Authorised(r)
    /\ Service(r) \in DOMAIN Pools
    /\ Goto(r, "pick")
    /\ UNCHANGED forwarding
--------------------------------------------------------------------------------
(* What ServeHTTP does with the answer of Pick. *)

\* Mutant: a request without a backend waits for one.
PickNoneWaits(r) ==
    /\ pc[r] = "pick"
    /\ tries[r] # <<>>
    /\ Answer(r, 502)
    /\ UNCHANGED <<seen, forwarding>>

\* nil: no backend for the request, or none to retry on.
PickNone(r) ==
    /\ pc[r] = "pick"
    /\ Answer(r, IF tries[r] = <<>> THEN 503 ELSE 502)
    /\ UNCHANGED <<seen, forwarding>>

PickFirst(r) ==
    /\ pc[r] = "pick"
    /\ tries[r] = <<>>
    /\ \E b \in Pools[Service(r)] : tries' = [tries EXCEPT ![r] = <<b>>]
    /\ Goto(r, "send")
    /\ UNCHANGED <<seen, inflight, in, body, err, executed>>

\* Mutant: the retry goes wherever Pick says.
AlternativeAny(r) == Pools[Service(r)]

\* alt.ID != backend.ID
Alternative(r) == Pools[Service(r)] \ {tries[r][1]}

PickAlternative(r) ==
    /\ pc[r] = "pick"
    /\ tries[r] # <<>>
    /\ \E b \in Alternative(r) : tries' = [tries EXCEPT ![r] = Append(@, b)]
    /\ Goto(r, "send")
    /\ UNCHANGED <<seen, inflight, in, body, err, executed>>

\* The backend that has just failed is picked again: no retry.
PickSame(r) ==
    /\ pc[r] = "pick"
    /\ tries[r] # <<>>
    /\ Answer(r, 502)
    /\ UNCHANGED <<seen, forwarding>>
--------------------------------------------------------------------------------
(* Handler.forward, and what ServeHTTP does with its result. *)

Target(r) == tries[r][Len(tries[r])]

Acquire(b) == inflight' = [inflight EXCEPT ![b] = @ + 1]

\* Mutant: the release is lost.
ReleaseLost(b) == UNCHANGED inflight

Release(b) == inflight' = [inflight EXCEPT ![b] = @ - 1]

\* A path that has the prefix without a "/" after it is glued to the backend's
\* address; the request cannot be built, which counts as a network error.
Unsendable(r) ==
    /\ pc[r] = "send"
    /\ in[r].path \in BadTargets
    /\ Acquire(Target(r))
    /\ err' = [err EXCEPT ![r] = "net"]
    /\ Goto(r, "failed")
    /\ UNCHANGED <<seen, in, tries, body, executed>>

Send(r) ==
    /\ pc[r] = "send"
    /\ in[r].path \notin BadTargets
    /\ Acquire(Target(r))
    /\ Goto(r, "wire")
    /\ UNCHANGED <<seen, in, tries, body, err, executed>>

\* The backend can get a complete request: the handshake succeeds, and reading the body
\* is not an error.
Accepts(r) == Target(r) \in Trusted /\ body[r] # "closed"

\* The target gets the request, with what can be read of the body: a drained one is empty.
Deliver(r) == executed' = [executed EXCEPT ![r] = @ \cup {[to |-> Target(r), body |-> body[r]]}]

\* What client.Do leaves of a body, which it closes (external: net/http). Reading it again
\* is an error; over HTTP/2 a body that was read to its end goes on saying EOF.
Closed(r, all) ==
    IF body[r] # "fresh" THEN body[r]
    ELSE IF all /\ in[r].body = "http2" THEN "drained"
    ELSE "closed"

\* Mutant: the body can be read again.
DoKeepsBody(r, all) ==
    /\ pc[r] = "wire"
    /\ UNCHANGED <<seen, inflight, in, tries, body>>

\* client.Do returns; all: the request was sent to its end.
Do(r, all) ==
    /\ pc[r] = "wire"
    /\ body' = [body EXCEPT ![r] = Closed(r, all)]
    /\ UNCHANGED <<seen, inflight, in, tries>>

\* The backend answers: the header goes to the client.
Reply(r) ==
    /\ Do(r, TRUE)
    /\ Accepts(r)
    /\ Deliver(r)
    /\ err' = [err EXCEPT ![r] = "none"]
    /\ pc' = [pc EXCEPT ![r] = "copy"]
    /\ status' = [status EXCEPT ![r] = 200]

\* A transport error ("net"), a timeout or a client that left ("ctx"). The request may
\* have been sent to its end, and the backend may have got it all the same.
Fail(r) ==
    /\ \/ Do(r, FALSE) /\ UNCHANGED executed
       \/ Do(r, TRUE) /\ Accepts(r) /\ (UNCHANGED executed \/ Deliver(r))
    /\ \E e \in {"net", "ctx"} : err' = [err EXCEPT ![r] = e]
    /\ Goto(r, "failed")

\* Mutant: an error while the body is copied is returned like one of Do.
FinishReturnsError(r) ==
    /\ pc[r] = "copy"
    /\ Release(Target(r))
    /\ Answer(r, 502)
    /\ UNCHANGED <<seen, in, tries, body, err, executed>>

\* The body has been copied, or the copy failed: both are a success.
Finish(r) ==
    /\ pc[r] = "copy"
    /\ Release(Target(r))
    /\ Goto(r, "done")
    /\ UNCHANGED <<seen, in, tries, body, err, executed>>

\* isRetryable(err), and this was the first attempt.
Retryable(r) == err[r] = "net" /\ Len(tries[r]) = 1

Retry(r) ==
    /\ pc[r] = "failed"
    /\ Retryable(r)
    /\ Release(Target(r))
    /\ Goto(r, "pick")
    /\ UNCHANGED <<seen, in, tries, body, err, executed>>

GiveUp(r) ==
    /\ pc[r] = "failed"
    /\ ~Retryable(r)
    /\ Release(Target(r))
    /\ Answer(r, 502)
    /\ UNCHANGED <<seen, in, tries, body, err, executed>>
--------------------------------------------------------------------------------
Authenticating(r) ==
    \/ RejectRoute(r) \/ RejectToken(r) \/ RejectReplay(r)
    \/ RejectStore(r) \/ RejectScope(r) \/ Panic(r) \/ Admit(r)

Picking(r) == PickNone(r) \/ PickFirst(r) \/ PickAlternative(r) \/ PickSame(r)

Forwarding(r) == Unsendable(r) \/ Send(r) \/ Reply(r) \/ Fail(r) \/ Retry(r) \/ GiveUp(r)

\* The steps of a request's goroutine that nobody can hold up: no lock is held across
\* them, and Do is bounded by the client's timeout. Finish is not one of them: the
\* server has no write timeout, and a client may stop reading.
Serve(r) == Authenticating(r) \/ Picking(r) \/ Forwarding(r)

Next == \E r \in Requests : Arrive(r) \/ Serve(r) \/ Finish(r)

Fairness == \A r \in Requests : WF_vars(Serve(r))

Spec == Init /\ [][Next]_vars /\ Fairness
--------------------------------------------------------------------------------
TypeOK ==
    /\ inflight \in [Backends -> Nat]
    /\ seen \subseteq {x.token.jti : x \in {y \in Inputs : y.token # None}}
    /\ pc \in [Requests -> {"idle", "arrived", "pick", "send", "wire",
                            "copy", "failed", "done", "panicked"}]
    /\ in \in [Requests -> Inputs \cup {None}]
    /\ status \in [Requests -> {None, 200, 401, 403, 404, 502, 503}]
    /\ tries \in [Requests -> Seq(Backends)] /\ \A r \in Requests : Len(tries[r]) <= 2
    /\ executed \in [Requests -> SUBSET [to : Backends, body : {"none", "fresh", "drained"}]]
    /\ body \in [Requests -> {"none", "fresh", "closed", "drained"}]
    /\ err \in [Requests -> {"none", "net", "ctx"}]

\* A backend's in-flight counter is the number of forwards that hold it: Acquire and the
\* deferred Release pair up on every path through forward, retries included.
InflightExact ==
    \A b \in Backends :
        inflight[b] = Cardinality({r \in Requests :
            pc[r] \in {"wire", "copy", "failed"} /\ Target(r) = b})

\* Whatever got a request is a trusted backend of the service its path is routed to, and
\* the request carried a token that passes every check of Verify, grants the scope the
\* route asks for, and has had its jti stored.
ExecutedOnlyAuthorised ==
    \A r \in Requests : \A e \in executed[r] :
        /\ e.to \in Trusted
        /\ e.to \in Pools[Service(r)]
        /\ in[r].token # None
        /\ Verify(in[r].token, Now) = "ok"
        /\ in[r].token.kid \in Kids /\ in[r].token.sig = in[r].token.kid
        /\ LET need == Match(in[r].path).scope IN need = "" \/ need \in in[r].token.scope
        /\ in[r].token.jti \in seen

\* Two requests that carry the same jti do not both reach a backend, however their
\* handlers interleave: Verify consumes the jti before anything is forwarded.
OneForwardPerJti ==
    \A r, s \in Requests :
        r # s /\ tries[r] # <<>> /\ tries[s] # <<>> => in[r].token.jti # in[s].token.jti

\* A request is forwarded at most twice, to two different backends, the second time only
\* after a network error of the first, and never again once a backend has answered.
RetriedElsewhere ==
    \A r \in Requests :
        /\ Len(tries[r]) <= 2
        /\ Len(tries[r]) = 2 => tries[r][1] # tries[r][2]
        /\ Len(tries[r]) = 2 /\ pc[r] = "send" => err[r] = "net" /\ status[r] = None

\* A body is delivered once: the attempt that failed has closed it. Over HTTP/1 the retry
\* then delivers nothing at all; over HTTP/2 a second backend may get the request, but with
\* an empty body.
BodyExecutedOnce ==
    \A r \in Requests : in[r] # None /\ in[r].body # "none" =>
        /\ Cardinality({e \in executed[r] : e.body = "fresh"}) <= 1
        /\ in[r].body = "http1" => Cardinality(executed[r]) <= 1

\* A response is begun once: after the header of a reply or of an error has been written
\* no step writes another one.
AnsweredOnce == [][\A r \in Requests : status[r] # None => status'[r] = status[r]]_vars

\* Where a request is to whoever looks from outside, and the jti it carries.
PhaseOf(where, code) ==
    CASE where = "idle" -> "none"
      [] where = "arrived" -> "open"
      [] where = "panicked" -> "cut"
      [] where = "done" -> IF code \in {401, 403, 404} THEN "rejected" ELSE "answered"
      [] OTHER -> "active"

Carries(r) == IF pc[r] # "idle" /\ in[r].token # None THEN {in[r].token.jti} ELSE {}

\* A request goes through what Admission says: one refusal or one use of its jti, whatever
\* the steps of Verify, Pick, forward and the retry are, and one end.
Admission == INSTANCE Admission WITH
    Jtis <- {x.token.jti : x \in {y \in Inputs : y.token # None}},
    Ends <- FALSE,
    phase <- [r \in Requests |-> PhaseOf(pc[r], status[r])],
    carries <- [r \in Requests |-> Carries(r)],
    used <- seen
KeepsAdmission == Admission!Spec

\* A request whose response has not begun can always take its next step: ServeHTTP and
\* forward have an answer for every outcome of Verify, Pick and client.Do.
GoesOn ==
    \A r \in Requests :
        pc[r] \in {"arrived", "pick", "send", "wire", "failed"} => ENABLED <<Serve(r)>>_vars

\* Every request is answered, or dropped by the panic of a route without a service. The
\* retry, the lost exchanges and a pool without a healthy backend do not hold it up.
Responds ==
    \A r \in Requests : pc[r] = "arrived" ~> (status[r] # None \/ pc[r] = "panicked")
================================================================================
