----------------------------- MODULE HandlerProofs -----------------------------
(***************************************************************************)
(* For any number of concurrent requests, any tokens, routes and pools:    *)
(* only authorised requests reach a backend, a jti is forwarded once, the  *)
(* one retry goes elsewhere and delivers no body twice, every response is  *)
(* begun once, the in-flight counters are exact, the handler implements    *)
(* Admission, and every request is answered.                               *)
(***************************************************************************)
EXTENDS Handler, FiniteSetTheorems, TLAPS

Holding == {"wire", "copy", "failed"}

Deliveries == [to : Backends, body : {"none", "fresh", "drained"}]

Types ==
    /\ inflight \in [Backends -> Int]
    /\ seen \subseteq {x.token.jti : x \in {y \in Inputs : y.token # None}}
    /\ pc \in [Requests -> {"idle", "arrived", "pick", "send", "wire",
                            "copy", "failed", "done", "panicked"}]
    /\ in \in [Requests -> Inputs \cup {None}]
    /\ status \in [Requests -> {None, 200, 401, 403, 404, 502, 503}]
    /\ tries \in [Requests -> Seq(Backends)]
    /\ body \in [Requests -> {"none", "fresh", "closed", "drained"}]
    /\ err \in [Requests -> {"none", "net", "ctx"}]
    /\ executed \in [Requests -> SUBSET Deliveries]

\* The request has passed authentication and authorisation.
Admitted(r) == pc[r] = "pick" \/ tries[r] # <<>>

\* What that took.
Cleared(r) ==
    /\ in[r].token # None
    /\ Verify(in[r].token, Now) = "ok"
    /\ HasScope(in[r].token, Match(in[r].path).scope)
    /\ Service(r) \in DOMAIN Pools
    /\ in[r].token.jti \in seen

\* How many attempts a request has made, by where it is.
Attempts(r) ==
    /\ pc[r] \in {"idle", "arrived", "panicked"} => tries[r] = <<>>
    /\ pc[r] = "pick" => tries[r] = <<>> \/ (Len(tries[r]) = 1 /\ err[r] = "net")
    /\ pc[r] \in {"send"} \cup Holding => Len(tries[r]) \in {1, 2}
    /\ pc[r] = "send" /\ Len(tries[r]) = 2 => err[r] = "net"
    /\ Len(tries[r]) <= 2
    /\ Len(tries[r]) = 2 => tries[r][1] # tries[r][2]
    /\ pc[r] \notin {"copy", "done"} => status[r] = None

\* The backends that got the request with its body.
Whole(r) == {e \in executed[r] : e.body = "fresh"}

\* Who has executed it, and what became of its body.
Executions(r) ==
    /\ \A i \in 1..Len(tries[r]) : tries[r][i] \in Pools[Service(r)]
    /\ \A e \in executed[r] : e.to \in Pools[Service(r)] /\ e.to \in Trusted
    /\ tries[r] = <<>> => executed[r] = {}
    /\ pc[r] # "idle" => in[r] \in Inputs
    /\ pc[r] # "idle" /\ body[r] = "none" => in[r].body = "none"
    /\ pc[r] # "idle" /\ body[r] = "drained" => in[r].body = "http2"
    /\ body[r] = "fresh" => executed[r] = {}
    /\ in[r].body # "none" => \E e : Whole(r) \subseteq {e}
    /\ in[r].body = "http1" => \E e : executed[r] \subseteq {e}

Progress(r) == (Admitted(r) => Cleared(r)) /\ Attempts(r) /\ Executions(r)

\* A jti admits one request.
Distinct ==
    \A r, s \in Requests :
        r # s /\ Admitted(r) /\ Admitted(s) => in[r].token.jti # in[s].token.jti

Inv ==
    /\ Types
    /\ \A r \in Requests : Progress(r)
    /\ Distinct
    /\ InflightExact

\* A step of r changes nothing of another request, and forgets no jti.
Frame(r) ==
    /\ seen \subseteq seen'
    /\ \A s \in Requests :
        s # r => /\ pc'[s] = pc[s] /\ in'[s] = in[s] /\ status'[s] = status[s]
                 /\ tries'[s] = tries[s] /\ body'[s] = body[s] /\ err'[s] = err[s]
                 /\ executed'[s] = executed[s]

Step(r) == Arrive(r) \/ Serve(r) \/ Finish(r)
--------------------------------------------------------------------------------
\* NewHandler: nothing is under way.
LEMMA InitInv == Init => Inv
<1> SUFFICES ASSUME Init PROVE Inv
  OBVIOUS
<1>1. Types
  BY DEF Init, Types
<1>2. ASSUME NEW r \in Requests PROVE Progress(r) /\ ~Admitted(r) /\ pc[r] \notin Holding
  <2>1. /\ pc[r] = "idle" /\ tries[r] = <<>> /\ executed[r] = {} /\ status[r] = None
        /\ Len(tries[r]) = 0
    BY DEF Init
  <2>2. Whole(r) = {}
    BY <2>1, Zenon DEF Whole
  <2>3. Executions(r)
    <3>1. \A i \in 1..Len(tries[r]) : FALSE
      BY <2>1
    <3> QED  BY <2>1, <2>2, <3>1, Zenon DEF Executions
  <2> QED  BY <2>1, <2>3 DEF Progress, Admitted, Attempts, Holding
<1>3. InflightExact
  <2> SUFFICES ASSUME NEW b \in Backends
               PROVE  inflight[b] = Cardinality({r \in Requests :
                          pc[r] \in {"wire", "copy", "failed"} /\ Target(r) = b})
    BY DEF InflightExact
  <2>1. {r \in Requests : pc[r] \in {"wire", "copy", "failed"} /\ Target(r) = b} = {}
    BY <1>2 DEF Holding
  <2>2. inflight[b] = 0
    BY DEF Init
  <2> QED  BY <2>1, <2>2, FS_EmptySet
<1> QED  BY <1>1, <1>2, <1>3 DEF Inv, Distinct

\* What is known of a request survives the steps of the others.
LEMMA OthersProgress ==
  ASSUME NEW r \in Requests, NEW s \in Requests, s # r, Frame(r), Progress(s)
  PROVE  Progress(s)' /\ (Admitted(s)' <=> Admitted(s)) /\ in'[s] = in[s]
<1>1. /\ pc'[s] = pc[s] /\ in'[s] = in[s] /\ status'[s] = status[s]
      /\ tries'[s] = tries[s] /\ body'[s] = body[s] /\ err'[s] = err[s]
      /\ executed'[s] = executed[s] /\ seen \subseteq seen'
  BY DEF Frame
<1>2. Attempts(s)' /\ (Admitted(s)' <=> Admitted(s))
  BY <1>1 DEF Progress, Attempts, Admitted
<1>3. Executions(s)'
  BY <1>1, Zenon DEF Progress, Executions, Whole, Service
<1>4. Cleared(s) => Cleared(s)'
  BY <1>1 DEF Cleared, Service
<1> QED  BY <1>1, <1>2, <1>3, <1>4 DEF Progress
--------------------------------------------------------------------------------
\* Every variable of the requests has a value for each of them.
LEMMA Domains ==
  ASSUME Types
  PROVE  /\ DOMAIN pc = Requests /\ DOMAIN in = Requests /\ DOMAIN status = Requests
         /\ DOMAIN tries = Requests /\ DOMAIN body = Requests /\ DOMAIN err = Requests
         /\ DOMAIN executed = Requests
BY DEF Types

\* A request that has been given to a backend has passed every check.
LEMMA Underway ==
  ASSUME NEW r \in Requests, Progress(r), pc[r] \in {"send"} \cup Holding
  PROVE  Admitted(r) /\ Cleared(r) /\ Attempts(r) /\ Executions(r) /\ tries[r] # <<>>
<1>1. Len(tries[r]) \in {1, 2}
  BY DEF Progress, Attempts
<1>2. Len(tries[r]) # 0
  BY <1>1
<1>3. Len(<<>>) = 0
  OBVIOUS
<1>4. tries[r] # <<>>
  BY <1>2, <1>3
<1> QED  BY <1>4 DEF Progress, Admitted

(* A step of r keeps the types and changes nothing of the other requests. *)

\* A step of ServeHTTP up to the scope check keeps the types and the other requests.
LEMMA AuthenticatingFrame ==
  ASSUME Types, NEW r \in Requests, \A s \in Requests : Progress(s), Authenticating(r)
  PROVE  Types' /\ Frame(r)
<1>1. pc[r] = "arrived" /\ in[r] \in Inputs
  BY DEF Authenticating, RejectRoute, RejectToken, RejectReplay, RejectStore, RejectScope,
         Panic, Admit, Authenticate, Progress, Executions
<1>2. UNCHANGED forwarding
  BY DEF Authenticating, RejectRoute, RejectToken, RejectReplay, RejectStore, RejectScope,
         Panic, Admit
<1>3. \/ UNCHANGED seen
      \/ in[r].token # None /\ seen' = seen \cup {in[r].token.jti}
  BY DEF Authenticating, RejectRoute, RejectToken, RejectReplay, RejectStore, RejectScope,
         Panic, Admit, Authenticate, Denied, Remember
<1>4. \E p \in {"done", "panicked", "pick"}, c \in {status[r], 401, 403, 404} :
        pc' = [pc EXCEPT ![r] = p] /\ status' = [status EXCEPT ![r] = c]
  <2>1. status = [status EXCEPT ![r] = status[r]]
    BY DEF Types
  <2> QED
    BY <2>1 DEF Authenticating, RejectRoute, RejectToken, RejectReplay, RejectStore,
                RejectScope, Panic, Admit, Answer, Goto
<1>5. seen \subseteq seen' /\ seen' \subseteq {x.token.jti : x \in {y \in Inputs : y.token # None}}
  BY <1>1, <1>3 DEF Types
<1> QED  BY <1>2, <1>4, <1>5 DEF Types, Frame, forwarding

\* So does a Pick.
LEMMA PickingFrame ==
  ASSUME Types, NEW r \in Requests, Progress(r), Picking(r)
  PROVE  Types' /\ Frame(r)
<1>0. pc[r] = "pick" /\ UNCHANGED <<seen, inflight, in, body, err, executed>>
  BY DEF Picking, PickNone, PickFirst, PickAlternative, PickSame, forwarding
<1>1. Service(r) \in DOMAIN Pools /\ Pools[Service(r)] \subseteq Backends
  BY <1>0 DEF Progress, Admitted, Cleared, Backends
<1>2. CASE PickNone(r) \/ PickSame(r)
  <2>1. PICK c \in {502, 503} : Answer(r, c)
    BY <1>2 DEF PickNone, PickSame
  <2>2. UNCHANGED tries
    BY <1>2 DEF PickNone, PickSame, forwarding
  <2> QED  BY <1>0, <2>1, <2>2 DEF Answer, Types, Frame
<1>3. CASE PickFirst(r)
  BY <1>1, <1>3 DEF PickFirst, Goto, Types, Frame
<1>4. CASE PickAlternative(r)
  <2>1. PICK b \in Backends : tries' = [tries EXCEPT ![r] = Append(@, b)]
    BY <1>1, <1>4, Zenon DEF PickAlternative, Alternative
  <2>2. Append(tries[r], b) \in Seq(Backends)
    BY DEF Types
  <2> QED  BY <1>4, <2>1, <2>2 DEF PickAlternative, Goto, Types, Frame
<1> QED  BY <1>2, <1>3, <1>4 DEF Picking

\* A request that is being forwarded is so to a backend of its service's pool.
LEMMA TargetInPool ==
  ASSUME Types, NEW r \in Requests, Progress(r), pc[r] \in {"send"} \cup Holding
  PROVE  Target(r) \in Backends /\ Target(r) \in Pools[Service(r)]
<1>1. tries[r] \in Seq(Backends) /\ (Len(tries[r]) = 1 \/ Len(tries[r]) = 2)
  BY DEF Types, Progress, Attempts
<1>2. PICK n \in {1, 2} : Len(tries[r]) = n
  BY <1>1
<1>3. n \in 1..n
  OBVIOUS
<1> QED  BY <1>1, <1>2, <1>3 DEF Target, Progress, Executions

\* A delivery is to the target, of a body that can be read, and the request's own.
LEMMA DeliverFrame ==
  ASSUME Types, NEW r \in Requests, Target(r) \in Backends, Accepts(r), Deliver(r)
  PROVE  /\ executed' \in [Requests -> SUBSET Deliveries]
         /\ \A s \in Requests : s # r => executed'[s] = executed[s]
         /\ executed'[r] = executed[r] \cup {[to |-> Target(r), body |-> body[r]]}
<1>1. body[r] \in {"none", "fresh", "drained"}
  BY DEF Types, Accepts
<1>2. [to |-> Target(r), body |-> body[r]] \in Deliveries
  BY <1>1 DEF Deliveries
<1> QED  BY <1>2 DEF Types, Deliver

\* client.Do touches the body of its request only.
BodyFrame(r) ==
    /\ body' \in [Requests -> {"none", "fresh", "closed", "drained"}]
    /\ \A s \in Requests : s # r => body'[s] = body[s]

LEMMA DoFrame ==
  ASSUME Types, NEW r \in Requests, NEW all \in BOOLEAN, Do(r, all)
  PROVE  BodyFrame(r) /\ body'[r] = Closed(r, all)
<1>1. Closed(r, all) \in {"none", "fresh", "closed", "drained"}
  BY DEF Types, Closed
<1> QED  BY <1>1 DEF Do, Types, BodyFrame

\* A step of forward keeps the types and the other requests.
LEMMA ForwardingFrame ==
  ASSUME Types, NEW r \in Requests, Progress(r), Forwarding(r) \/ Finish(r)
  PROVE  Types' /\ Frame(r)
<1>1. pc[r] \in {"send"} \cup Holding
  BY DEF Forwarding, Unsendable, Send, Reply, Fail, Do, Retry, GiveUp, Finish, Holding
<1>2. Target(r) \in Backends
  BY <1>1, TargetInPool
<1>3. UNCHANGED <<seen, in, tries>>
  BY Zenon DEF Forwarding, Unsendable, Send, Reply, Fail, Do, Retry, GiveUp, Finish
<1>4. inflight' \in [Backends -> Int]
  <2>1. Acquire(Target(r)) \/ Release(Target(r)) \/ UNCHANGED inflight
    BY Zenon DEF Forwarding, Unsendable, Send, Reply, Fail, Do, Retry, GiveUp, Finish
  <2> QED  BY <1>2, <2>1 DEF Acquire, Release, Types
<1>5. CASE Unsendable(r) \/ Send(r)
  <2>1. CASE Unsendable(r)
    BY <1>3, <1>4, <2>1 DEF Unsendable, Goto, Types, Frame
  <2>2. CASE Send(r)
    BY <1>3, <1>4, <2>2 DEF Send, Goto, Types, Frame
  <2> QED  BY <1>5, <2>1, <2>2, Zenon
<1>6. CASE Reply(r)
  <2>1. /\ executed' \in [Requests -> SUBSET Deliveries]
        /\ \A s \in Requests : s # r => executed'[s] = executed[s]
    BY <1>2, <1>6, DeliverFrame DEF Reply
  <2>2. BodyFrame(r)
    BY <1>6, DoFrame DEF Reply
  <2>3. /\ pc' = [pc EXCEPT ![r] = "copy"] /\ status' = [status EXCEPT ![r] = 200]
        /\ err' = [err EXCEPT ![r] = "none"]
    BY <1>6, Zenon DEF Reply
  <2> QED  BY <1>3, <1>4, <2>1, <2>2, <2>3 DEF BodyFrame, Types, Frame
<1>7. CASE Fail(r)
  <2>1. /\ executed' \in [Requests -> SUBSET Deliveries]
        /\ \A s \in Requests : s # r => executed'[s] = executed[s]
    <3>1. CASE UNCHANGED executed
      BY <3>1 DEF Types
    <3>2. CASE Accepts(r) /\ Deliver(r)
      BY <1>2, <3>2, DeliverFrame
    <3> QED  BY <1>7, <3>1, <3>2 DEF Fail
  <2>2. /\ err' \in [Requests -> {"none", "net", "ctx"}]
        /\ \A s \in Requests : s # r => err'[s] = err[s]
    BY <1>7 DEF Fail, Types
  <2>3. BodyFrame(r)
    BY <1>7, DoFrame DEF Fail
  <2> QED  BY <1>3, <1>4, <1>7, <2>1, <2>2, <2>3 DEF Fail, Goto, BodyFrame, Types, Frame
<1>8. CASE Retry(r) \/ GiveUp(r) \/ Finish(r)
  <2>1. CASE Retry(r)
    BY <1>3, <1>4, <2>1 DEF Retry, Goto, Types, Frame
  <2>2. CASE GiveUp(r)
    BY <1>3, <1>4, <2>2 DEF GiveUp, Answer, Types, Frame
  <2>3. CASE Finish(r)
    BY <1>3, <1>4, <2>3 DEF Finish, Goto, Types, Frame
  <2> QED  BY <1>8, <2>1, <2>2, <2>3, Zenon
<1> QED  BY <1>5, <1>6, <1>7, <1>8 DEF Forwarding

\* So does every step of a request.
LEMMA StepFrame ==
  ASSUME Inv, NEW r \in Requests, Step(r)
  PROVE  Types' /\ Frame(r)
<1>1. CASE Arrive(r)
  BY <1>1 DEF Arrive, Goto, Inv, Types, Frame
<1> QED
  BY <1>1, AuthenticatingFrame, PickingFrame, ForwardingFrame, Zenon DEF Step, Serve, Inv
--------------------------------------------------------------------------------
(* What is known of r survives its own steps. *)

\* A request that has just arrived has been admitted to nothing.
LEMMA ArriveProgress ==
  ASSUME Types, NEW r \in Requests, Progress(r), Arrive(r)
  PROVE  Progress(r)' /\ ~Admitted(r)'
<1>1. PICK x \in Inputs :
        in'[r] = x /\ body'[r] = IF x.body = "none" THEN "none" ELSE "fresh"
  BY DEF Arrive, Types
<1>2. /\ pc[r] = "idle" /\ pc'[r] = "arrived"
      /\ UNCHANGED <<seen, status, tries, err, executed>>
  BY DEF Arrive, Goto, Types
<1>3. tries[r] = <<>> /\ executed[r] = {} /\ status[r] = None
  BY <1>2 DEF Progress, Attempts, Executions
<1>4. ~Admitted(r)'
  BY <1>2, <1>3 DEF Admitted
<1>5. Attempts(r)'
  BY <1>2, <1>3 DEF Attempts, Holding
<1>6. Executions(r)'
  <2>1. body'[r] \in {"none", "fresh"} /\ (body'[r] = "none" => in'[r].body = "none")
    BY <1>1
  <2>2. Whole(r)' = {} /\ executed'[r] = {} /\ tries'[r] = <<>>
    BY <1>2, <1>3, Zenon DEF Whole
  <2>3. \A i \in 1..Len(tries'[r]) : FALSE
    BY <1>2, <1>3
  <2> QED  BY <1>1, <1>2, <2>1, <2>2, <2>3 DEF Executions
<1> QED  BY <1>4, <1>5, <1>6 DEF Progress

\* A request is admitted with a jti that was not in the store.
LEMMA AuthenticatingProgress ==
  ASSUME Types, NEW r \in Requests, Progress(r), Authenticating(r)
  PROVE  /\ Progress(r)'
         /\ Admitted(r)' => in[r].token.jti \notin seen
<1>1. pc[r] = "arrived" /\ UNCHANGED <<in, tries, body, err, executed>>
  BY Zenon DEF Authenticating, RejectRoute, RejectToken, RejectReplay, RejectStore, RejectScope,
         Panic, Admit, Authenticate, forwarding
<1>2. tries[r] = <<>> /\ executed[r] = {} /\ status[r] = None /\ Len(tries[r]) = 0
  BY <1>1 DEF Progress, Attempts, Executions
<1>3. \/ pc'[r] = "done"
      \/ pc'[r] = "panicked" /\ UNCHANGED status
      \/ pc'[r] = "pick" /\ UNCHANGED status /\ Admit(r)
  <2>1. CASE Panic(r)
    BY <2>1, Domains DEF Panic, Goto
  <2>2. CASE Admit(r)
    BY <2>2, Domains DEF Admit, Goto
  <2>3. CASE ~Panic(r) /\ ~Admit(r)
    <3>1. \E c : Answer(r, c)
      BY <2>3 DEF Authenticating, RejectRoute, RejectToken, RejectReplay, RejectStore, RejectScope
    <3> QED  BY <3>1, Domains, Zenon DEF Answer
  <2> QED  BY <2>1, <2>2, <2>3
<1>4. Admitted(r)' => Admit(r)
  BY <1>1, <1>2, <1>3 DEF Admitted
<1>5. ASSUME Admit(r) PROVE Cleared(r)' /\ in[r].token.jti \notin seen
  <2>1. seen' = seen \cup {in[r].token.jti} /\ in[r].token.jti \notin seen
    BY <1>5 DEF Admit, Authenticate, Remember
  <2>2. in[r].token # None /\ Verify(in[r].token, Now) = "ok"
    BY <1>5 DEF Admit, Authenticate, Denied
  <2>3. HasScope(in[r].token, Match(in[r].path).scope) /\ Service(r) \in DOMAIN Pools
    BY <1>5 DEF Admit, Authorised
  <2> QED  BY <1>1, <2>1, <2>2, <2>3, Zenon DEF Cleared, Service
<1>6. Attempts(r)'
  BY <1>1, <1>2, <1>3 DEF Attempts, Holding
<1>7. Executions(r)'
  <2>1. Executions(r) /\ pc'[r] # "idle"
    BY <1>3 DEF Progress
  <2> QED  BY <1>1, <1>2, <2>1, Zenon DEF Executions, Whole, Service
<1> QED  BY <1>4, <1>5, <1>6, <1>7, Zenon DEF Progress

\* An attempt is begun on b.
LEMMA PickedProgress ==
  ASSUME Types, NEW r \in Requests, Progress(r), pc[r] = "pick", pc'[r] = "send",
         UNCHANGED <<seen, in, status, body, err, executed>>,
         NEW b \in Pools[Service(r)],
         \/ tries[r] = <<>> /\ tries'[r] = <<b>>
         \/ /\ tries[r] # <<>> /\ tries'[r] = Append(tries[r], b)
            /\ b # tries[r][1]
  PROVE  Progress(r)'
<1>1. Cleared(r) /\ Attempts(r) /\ Executions(r) /\ tries[r] \in Seq(Backends)
  BY DEF Progress, Admitted, Types
<1>2. Cleared(r)'
  BY <1>1, Zenon DEF Cleared, Service
<1>3. CASE tries[r] = <<>> /\ tries'[r] = <<b>>
  <2>1. Len(tries'[r]) = 1 /\ tries'[r][1] = b /\ tries'[r] # <<>>
    BY <1>3
  <2>2. Attempts(r)'
    BY <1>1, <2>1 DEF Attempts, Holding
  <2>3. \A i \in 1..Len(tries'[r]) : tries'[r][i] \in Pools[Service(r)]
    BY <2>1
  <2>4. Executions(r)'
    BY <1>1, <2>1, <2>3, Zenon DEF Executions, Whole, Service
  <2> QED  BY <1>2, <2>2, <2>4, Zenon DEF Progress
<1>4. CASE tries[r] # <<>> /\ tries'[r] = Append(tries[r], b) /\ b # tries[r][1]
  <2>1. Len(tries[r]) = 1 /\ err[r] = "net"
    BY <1>1, <1>4, Zenon DEF Attempts
  <2>2. Pools[Service(r)] \subseteq Backends
    BY <1>1, Zenon DEF Cleared, Backends
  <2>3. /\ Len(tries'[r]) = 2 /\ tries'[r] # <<>>
        /\ tries'[r][1] = tries[r][1] /\ tries'[r][2] = b
    <3>1. b \in Backends
      BY <2>2, Zenon
    <3> QED  BY <1>1, <1>4, <2>1, <3>1
  <2>4. Attempts(r)'
    BY <1>1, <1>4, <2>1, <2>3 DEF Attempts, Holding
  <2>5. \A i \in 1..2 : tries'[r][i] \in Pools[Service(r)]
    <3>1. \A i \in 1..1 : tries[r][i] \in Pools[Service(r)]
      BY <1>1, <2>1, Zenon DEF Executions
    <3> QED  BY <2>3, <3>1
  <2>6. Executions(r)'
    BY <1>1, <2>3, <2>5, Zenon DEF Executions, Whole, Service
  <2> QED  BY <1>2, <2>4, <2>6 DEF Progress
<1> QED  BY <1>3, <1>4, Zenon

\* A Pick keeps what is known of its request.
LEMMA PickingProgress ==
  ASSUME Types, NEW r \in Requests, Progress(r), Picking(r)
  PROVE  Progress(r)'
<1>1. pc[r] = "pick" /\ UNCHANGED <<seen, inflight, in, body, err, executed>>
  BY DEF Picking, PickNone, PickFirst, PickAlternative, PickSame, forwarding
<1>2. CASE PickNone(r) \/ PickSame(r)
  <2>1. pc'[r] = "done" /\ UNCHANGED tries
    BY <1>2 DEF PickNone, PickSame, Answer, forwarding, Types
  <2>2. Cleared(r) /\ Attempts(r) /\ Executions(r)
    BY <1>1 DEF Progress, Admitted
  <2>3. Cleared(r)'
    BY <1>1, <2>2 DEF Cleared, Service
  <2>4. Attempts(r)'
    BY <2>1, <2>2, Zenon DEF Attempts, Holding
  <2>5. Executions(r)'
    BY <1>1, <2>1, <2>2, Zenon DEF Executions, Whole, Service
  <2> QED  BY <2>3, <2>4, <2>5 DEF Progress
<1>3. CASE PickFirst(r)
  <2>1. PICK b \in Pools[Service(r)] : tries' = [tries EXCEPT ![r] = <<b>>]
    BY <1>3, Zenon DEF PickFirst
  <2>2. tries[r] = <<>> /\ tries'[r] = <<b>> /\ pc'[r] = "send" /\ UNCHANGED status
    BY <1>3, <2>1, Domains DEF PickFirst, Goto
  <2> QED  BY <1>1, <2>2, PickedProgress
<1>4. CASE PickAlternative(r)
  <2>1. PICK b \in Alternative(r) : tries' = [tries EXCEPT ![r] = Append(@, b)]
    BY <1>4, Zenon DEF PickAlternative
  <2>2. /\ tries[r] # <<>> /\ tries'[r] = Append(tries[r], b)
        /\ pc'[r] = "send" /\ UNCHANGED status
    BY <1>4, <2>1, Domains DEF PickAlternative, Goto
  <2>3. b \in Pools[Service(r)] /\ b # tries[r][1]
    BY <2>1 DEF Alternative
  <2> QED  BY <1>1, <2>2, <2>3, PickedProgress
<1> QED  BY <1>2, <1>3, <1>4 DEF Picking

\* The exchange with a backend, whether it answers or fails.
LEMMA DoExecutions ==
  ASSUME Types, NEW r \in Requests, Progress(r), NEW all \in BOOLEAN, Do(r, all), pc'[r] # "idle",
         \/ executed'[r] = executed[r]
         \/ /\ all /\ Accepts(r)
            /\ executed'[r] = executed[r] \cup {[to |-> Target(r), body |-> body[r]]}
  PROVE  Executions(r)'
<1>1. pc[r] = "wire" /\ UNCHANGED <<seen, in, tries>> /\ body'[r] = Closed(r, all)
  BY DoFrame DEF Do
<1>2. Executions(r) /\ body[r] \in {"none", "fresh", "closed", "drained"} /\ tries[r] # <<>>
  <2>1. body[r] \in {"none", "fresh", "closed", "drained"}
    BY Zenon DEF Types
  <2> QED  BY <1>1, <2>1, Underway DEF Holding
<1>3. /\ body'[r] # "fresh"
      /\ body'[r] = "none" => in[r].body = "none"
      /\ body'[r] = "drained" => in[r].body = "http2"
  BY <1>1, <1>2 DEF Closed, Executions
<1>4. CASE executed'[r] = executed[r]
  <2>1. Whole(r)' = Whole(r)
    BY <1>4, Zenon DEF Whole
  <2> QED  BY <1>1, <1>2, <1>3, <1>4, <2>1, Zenon DEF Executions, Service
<1>5. CASE /\ Accepts(r)
           /\ executed'[r] = executed[r] \cup {[to |-> Target(r), body |-> body[r]]}
  <2> DEFINE d == [to |-> Target(r), body |-> body[r]]
  <2>1. /\ Target(r) \in Pools[Service(r)] /\ Target(r) \in Trusted /\ body[r] # "closed"
        /\ d.to = Target(r) /\ d.body = body[r]
    BY <1>1, <1>5, TargetInPool DEF Accepts, Holding
  <2>2. executed'[r] = executed[r] \cup {d}
    BY <1>5
  <2> HIDE DEF d
  <2>3. body[r] = "fresh" => executed'[r] \subseteq {d}
    BY <1>2, <2>2, Zenon DEF Executions
  <2>4. in[r].body = "http1" => \E e : executed'[r] \subseteq {e}
    <3>1. in[r].body = "http1" => body[r] = "fresh"
      BY <1>1, <1>2, <2>1 DEF Executions
    <3> QED  BY <2>3, <3>1, Zenon
  <2>5. in[r].body # "none" => \E e : Whole(r)' \subseteq {e}
    <3>1. CASE body[r] = "fresh"
      BY <2>3, <3>1, Zenon DEF Whole
    <3>2. CASE body[r] # "fresh"
      <4>1. Whole(r)' = Whole(r)
        BY <2>1, <2>2, <3>2, Zenon DEF Whole
      <4> QED  BY <1>2, <4>1, Zenon DEF Executions
    <3> QED  BY <3>1, <3>2, Zenon
  <2>6. \A e \in executed'[r] : e.to \in Pools[Service(r)] /\ e.to \in Trusted
    BY <1>2, <2>1, <2>2, Zenon DEF Executions
  <2> QED  BY <1>1, <1>2, <1>3, <2>4, <2>5, <2>6, Zenon DEF Executions, Service
<1> QED  BY <1>4, <1>5

\* A step of forward keeps what is known of its request.
LEMMA ForwardingProgress ==
  ASSUME Types, NEW r \in Requests, Progress(r), Forwarding(r) \/ Finish(r)
  PROVE  Progress(r)'
<1>1. pc[r] \in {"send"} \cup Holding /\ UNCHANGED <<seen, in, tries>>
  BY DEF Forwarding, Unsendable, Send, Reply, Fail, Do, Retry, GiveUp, Finish, Holding
<1>2. Attempts(r) /\ Executions(r) /\ Cleared(r) /\ tries[r] # <<>>
  BY <1>1, Underway, Zenon
<1>3. Cleared(r)'
  BY <1>1, <1>2 DEF Cleared, Service
<1>4. Attempts(r)'
  <2>1. CASE Unsendable(r)
    <3>1. pc[r] = "send" /\ pc'[r] = "failed" /\ UNCHANGED status
      BY <2>1, Domains, Zenon DEF Unsendable, Goto
    <3> QED  BY <1>1, <1>2, <3>1, Zenon DEF Attempts, Holding
  <2>2. CASE Send(r)
    <3>1. pc[r] = "send" /\ pc'[r] = "wire" /\ UNCHANGED status
      BY <2>2, Domains, Zenon DEF Send, Goto
    <3> QED  BY <1>1, <1>2, <3>1, Zenon DEF Attempts, Holding
  <2>3. CASE Reply(r)
    <3>1. pc[r] = "wire" /\ pc'[r] = "copy"
      BY <2>3, Domains, Zenon DEF Reply, Do
    <3> QED  BY <1>1, <1>2, <3>1, Zenon DEF Attempts, Holding
  <2>4. CASE Fail(r)
    <3>1. pc[r] = "wire" /\ pc'[r] = "failed" /\ UNCHANGED status
      BY <2>4, Domains, Zenon DEF Fail, Do, Goto
    <3> QED  BY <1>1, <1>2, <3>1, Zenon DEF Attempts, Holding
  <2>5. CASE Retry(r)
    <3>1. /\ pc[r] = "failed" /\ pc'[r] = "pick" /\ UNCHANGED <<status, err>>
          /\ err[r] = "net" /\ Len(tries[r]) = 1
      BY <2>5, Domains, Zenon DEF Retry, Retryable, Goto
    <3> QED  BY <1>1, <1>2, <3>1, Zenon DEF Attempts, Holding
  <2>6. CASE GiveUp(r) \/ Finish(r)
    <3>1. pc'[r] = "done"
      BY <2>6, Domains DEF GiveUp, Finish, Answer, Goto
    <3> QED  BY <1>1, <1>2, <3>1, Zenon DEF Attempts, Holding
  <2> QED  BY <2>1, <2>2, <2>3, <2>4, <2>5, <2>6, Zenon DEF Forwarding
<1>5. pc'[r] # "idle" /\ pc[r] # "idle"
  <2>1. \E p \in {"failed", "wire", "copy", "pick", "done"} : pc' = [pc EXCEPT ![r] = p]
    BY Zenon DEF Forwarding, Unsendable, Send, Reply, Fail, Retry, GiveUp, Finish, Answer, Goto
  <2> QED  BY <1>1, <2>1, Domains, Zenon DEF Holding
<1>6. Executions(r)'
  <2>1. CASE UNCHANGED <<body, executed>>
    BY <1>1, <1>2, <1>5, <2>1, Zenon DEF Executions, Whole, Service
  <2>2. CASE Reply(r) \/ Fail(r)
    <3>1. PICK all \in BOOLEAN :
            /\ Do(r, all)
            /\ UNCHANGED executed \/ (all /\ Accepts(r) /\ Deliver(r))
      BY <2>2, Zenon DEF Reply, Fail
    <3>2. Target(r) \in Backends
      BY <1>1, TargetInPool
    <3>3. \/ executed'[r] = executed[r]
          \/ /\ all /\ Accepts(r)
             /\ executed'[r] = executed[r] \cup {[to |-> Target(r), body |-> body[r]]}
      BY <3>1, <3>2, DeliverFrame, Zenon
    <3> QED  BY <1>5, <3>1, <3>3, DoExecutions
  <2> QED  BY <2>1, <2>2, Zenon DEF Forwarding, Unsendable, Send, Retry, GiveUp, Finish
<1> QED  BY <1>3, <1>4, <1>6, Zenon DEF Progress
--------------------------------------------------------------------------------
(* A jti that admits a request was not in the store, and those of the others are. *)

\* Every step keeps what is known of its request, and admits with a fresh jti only.
LEMMA StepProgress ==
  ASSUME Inv, NEW r \in Requests, Step(r)
  PROVE  /\ Progress(r)'
         /\ Admitted(r)' => /\ in'[r] = in[r]
                            /\ Admitted(r) \/ in[r].token.jti \notin seen
<1>0. Types /\ Progress(r)
  BY Zenon DEF Inv
<1>1. CASE Arrive(r)
  BY <1>0, <1>1, ArriveProgress
<1>2. CASE Authenticating(r)
  <2>1. in' = in
    BY <1>2 DEF Authenticating, RejectRoute, RejectToken, RejectReplay, RejectStore,
                RejectScope, Panic, Admit, forwarding
  <2> QED  BY <1>0, <1>2, <2>1, AuthenticatingProgress, Zenon
<1>3. CASE Picking(r)
  <2>1. in' = in /\ Admitted(r)
    BY <1>3, Zenon DEF Picking, PickNone, PickFirst, PickAlternative, PickSame, forwarding, Admitted
  <2> QED  BY <1>0, <1>3, <2>1, PickingProgress, Zenon
<1>4. CASE Forwarding(r) \/ Finish(r)
  <2>1. in' = in /\ pc[r] \in {"send"} \cup Holding
    BY <1>4 DEF Forwarding, Unsendable, Send, Reply, Fail, Do, Retry, GiveUp, Finish, Holding
  <2>2. Admitted(r)
    BY <1>0, <2>1, Underway
  <2> QED  BY <1>0, <1>4, <2>1, <2>2, ForwardingProgress, Zenon
<1> QED  BY <1>1, <1>2, <1>3, <1>4 DEF Step, Serve

\* No step admits a second request with the same jti.
LEMMA StepDistinct ==
  ASSUME Inv, NEW r \in Requests, Step(r)
  PROVE  Distinct'
<1>1. ASSUME NEW s \in Requests, s # r, Admitted(s)', Admitted(r)'
      PROVE  in'[r].token.jti # in'[s].token.jti
  <2>1. Admitted(s) /\ in'[s] = in[s] /\ Progress(s)
    BY <1>1, StepFrame, OthersProgress, Zenon DEF Inv
  <2>2. in[s].token.jti \in seen
    BY <2>1, Zenon DEF Progress, Cleared
  <2>3. in'[r] = in[r] /\ (Admitted(r) \/ in[r].token.jti \notin seen)
    BY <1>1, StepProgress, Zenon
  <2> QED  BY <1>1, <2>1, <2>2, <2>3, Zenon DEF Inv, Distinct
<1>2. ASSUME NEW s \in Requests, NEW q \in Requests, s # r, q # r, s # q,
             Admitted(s)', Admitted(q)'
      PROVE  in'[s].token.jti # in'[q].token.jti
  <2>1. Admitted(s) /\ in'[s] = in[s] /\ Admitted(q) /\ in'[q] = in[q]
    BY <1>2, StepFrame, OthersProgress, Zenon DEF Inv
  <2> QED  BY <1>2, <2>1, Zenon DEF Inv, Distinct
<1> QED  BY <1>1, <1>2, Zenon DEF Distinct
--------------------------------------------------------------------------------
(* Acquire and Release follow the requests that hold a backend. *)

Holders(b) == {s \in Requests : pc[s] \in Holding /\ Target(s) = b}

\* The request neither takes nor gives up a backend.
LEMMA SameHolders ==
  ASSUME Inv, NEW r \in Requests, Step(r), UNCHANGED inflight,
         pc[r] \in Holding <=> pc'[r] \in Holding,
         pc[r] \in Holding => tries'[r] = tries[r]
  PROVE  InflightExact'
<1> SUFFICES ASSUME NEW b \in Backends
             PROVE  inflight'[b] = Cardinality(Holders(b)')
  BY DEF InflightExact, Holders, Holding
<1>1. \A s \in Requests : pc'[s] \in Holding /\ Target(s)' = b <=> pc[s] \in Holding /\ Target(s) = b
  BY StepFrame DEF Frame, Target
<1>2. Holders(b)' = Holders(b)
  BY <1>1, Zenon DEF Holders
<1> QED  BY <1>2, Zenon DEF Inv, InflightExact, Holders, Holding

\* It takes one.
LEMMA OneMoreHolder ==
  ASSUME Inv, NEW r \in Requests, Step(r), Acquire(Target(r)), UNCHANGED tries,
         pc[r] = "send", pc'[r] \in Holding
  PROVE  InflightExact'
<1> SUFFICES ASSUME NEW b \in Backends
             PROVE  inflight'[b] = Cardinality(Holders(b)')
  BY Zenon DEF InflightExact, Holders, Holding
<1>0. /\ inflight[b] = Cardinality(Holders(b)) /\ inflight[b] \in Int
      /\ inflight' = [inflight EXCEPT ![Target(r)] = @ + 1] /\ inflight \in [Backends -> Int]
  <2>1. inflight \in [Backends -> Int] /\ inflight[b] \in Int
    BY DEF Inv, Types
  <2> QED  BY <2>1, Zenon DEF Inv, InflightExact, Holders, Holding, Acquire
<1>1. \A s \in Requests : s # r => pc'[s] = pc[s]
  BY StepFrame, Zenon DEF Frame
<1>2. \A s \in Requests : Target(s)' = Target(s)
  BY Zenon DEF Target
<1>3. IsFiniteSet(Holders(b)) /\ r \notin Holders(b)
  <2>1. Holders(b) \subseteq Requests /\ r \notin Holders(b)
    BY Zenon DEF Holders, Holding
  <2> QED  BY <2>1, RequestsAssumption, FS_Subset, Zenon
<1>4. CASE Target(r) = b
  <2>1. Holders(b)' = Holders(b) \cup {r}
    BY <1>1, <1>2, <1>4, Zenon DEF Holders
  <2>2. Cardinality(Holders(b)') = Cardinality(Holders(b)) + 1
    BY <1>3, <2>1, FS_AddElement, Zenon
  <2> QED  BY <1>0, <1>4, <2>2, Zenon
<1>5. CASE Target(r) # b
  <2>1. Holders(b)' = Holders(b)
    BY <1>1, <1>2, <1>5, Zenon DEF Holders
  <2> QED  BY <1>0, <1>5, <2>1
<1> QED  BY <1>4, <1>5, Zenon

\* It gives one up.
LEMMA OneHolderLess ==
  ASSUME Inv, NEW r \in Requests, Step(r), Release(Target(r)), UNCHANGED tries,
         pc[r] \in Holding, pc'[r] \notin Holding
  PROVE  InflightExact'
<1> SUFFICES ASSUME NEW b \in Backends
             PROVE  inflight'[b] = Cardinality(Holders(b)')
  BY Zenon DEF InflightExact, Holders, Holding
<1>0. /\ inflight[b] = Cardinality(Holders(b)) /\ inflight[b] \in Int
      /\ inflight' = [inflight EXCEPT ![Target(r)] = @ - 1] /\ inflight \in [Backends -> Int]
  <2>1. inflight \in [Backends -> Int] /\ inflight[b] \in Int
    BY DEF Inv, Types
  <2> QED  BY <2>1, Zenon DEF Inv, InflightExact, Holders, Holding, Release
<1>1. \A s \in Requests : s # r => pc'[s] = pc[s]
  BY StepFrame DEF Frame
<1>2. \A s \in Requests : Target(s)' = Target(s)
  BY Zenon DEF Target
<1>3. IsFiniteSet(Holders(b))
  <2>1. Holders(b) \subseteq Requests
    BY Zenon DEF Holders
  <2> QED  BY <2>1, RequestsAssumption, FS_Subset, Zenon
<1>4. CASE Target(r) = b
  <2>1. Holders(b)' = Holders(b) \ {r} /\ r \in Holders(b)
    BY <1>1, <1>2, <1>4, Zenon DEF Holders
  <2>2. Cardinality(Holders(b)') = Cardinality(Holders(b)) - 1
    BY <1>3, <2>1, FS_RemoveElement, Zenon
  <2> QED  BY <1>0, <1>4, <2>2, Zenon
<1>5. CASE Target(r) # b
  <2>1. Holders(b)' = Holders(b)
    BY <1>1, <1>2, <1>5 DEF Holders
  <2> QED  BY <1>0, <1>5, <2>1
<1> QED  BY <1>4, <1>5, Zenon

\* Every step keeps the in-flight counters exact.
LEMMA StepInflight ==
  ASSUME Inv, NEW r \in Requests, Step(r)
  PROVE  InflightExact'
<1>0. Types
  BY DEF Inv
<1>1. CASE Arrive(r) \/ Authenticating(r) \/ Picking(r)
  <2>1. UNCHANGED inflight /\ pc[r] \in {"idle", "arrived", "pick"}
    <3>1. CASE Arrive(r)
      BY <3>1, Zenon DEF Arrive
    <3>2. CASE Authenticating(r)
      BY <3>2, Zenon DEF Authenticating, RejectRoute, RejectToken, RejectReplay, RejectStore,
                  RejectScope, Panic, Admit, Authenticate, forwarding
    <3>3. CASE Picking(r)
      BY <3>3 DEF Picking, PickNone, PickFirst, PickAlternative, PickSame, forwarding
    <3> QED  BY <1>1, <3>1, <3>2, <3>3, Zenon
  <2>2. \E p \in {"arrived", "done", "panicked", "pick", "send"} : pc' = [pc EXCEPT ![r] = p]
    <3>1. CASE Arrive(r)
      BY <3>1, Zenon DEF Arrive, Goto
    <3>2. CASE Authenticating(r)
      BY <3>2, Zenon DEF Authenticating, RejectRoute, RejectToken, RejectReplay, RejectStore,
                  RejectScope, Panic, Admit, Answer, Goto
    <3>3. CASE Picking(r)
      BY <3>3, Zenon DEF Picking, PickNone, PickFirst, PickAlternative, PickSame, Answer, Goto
    <3> QED  BY <1>1, <3>1, <3>2, <3>3, Zenon
  <2>3. pc[r] \notin Holding /\ pc'[r] \notin Holding
    BY <1>0, <2>1, <2>2, Domains, Zenon DEF Holding
  <2> QED  BY <2>1, <2>3, SameHolders
<1>2. CASE Unsendable(r) \/ Send(r)
  <2>1. /\ Acquire(Target(r)) /\ UNCHANGED tries
        /\ pc[r] = "send" /\ pc'[r] \in Holding
    BY <1>0, <1>2, Domains, Zenon DEF Unsendable, Send, Goto, Holding
  <2> QED  BY <2>1, OneMoreHolder, Zenon
<1>3. CASE Reply(r) \/ Fail(r)
  <2>1. UNCHANGED <<inflight, tries>> /\ pc[r] \in Holding /\ pc'[r] \in Holding
    BY <1>0, <1>3, Domains, Zenon DEF Reply, Fail, Do, Goto, Holding
  <2> QED  BY <2>1, SameHolders, Zenon
<1>4. CASE Retry(r) \/ GiveUp(r) \/ Finish(r)
  <2>1. /\ Release(Target(r)) /\ UNCHANGED tries
        /\ pc[r] \in Holding /\ pc'[r] \notin Holding
    BY <1>0, <1>4, Domains DEF Retry, GiveUp, Finish, Goto, Answer, Holding
  <2> QED  BY <2>1, OneHolderLess, Zenon
<1> QED  BY <1>1, <1>2, <1>3, <1>4 DEF Step, Serve, Forwarding
--------------------------------------------------------------------------------
\* Every step keeps the invariant.
LEMMA NextInv == Inv /\ [Next]_vars => Inv'
<1> SUFFICES ASSUME Inv, [Next]_vars PROVE Inv'
  OBVIOUS
<1>1. CASE UNCHANGED vars
  <2>1. Types' /\ InflightExact'
    <3>1. Types'
      BY <1>1, Zenon DEF vars, Inv, Types
    <3>2. InflightExact'
      BY <1>1 DEF vars, Inv, InflightExact, Target
    <3> QED  BY <3>1, <3>2, Zenon
  <2>2. ASSUME NEW r \in Requests PROVE Progress(r)'
    <3>1. Cleared(r)' = Cleared(r) /\ Admitted(r)' = Admitted(r)
      BY <1>1, Zenon DEF vars, Cleared, Admitted, Service
    <3>2. Attempts(r)' = Attempts(r)
      BY <1>1, Zenon DEF vars, Attempts
    <3>3. Executions(r)' = Executions(r)
      BY <1>1, Zenon DEF vars, Executions, Whole, Service
    <3> QED  BY <3>1, <3>2, <3>3, Zenon DEF Inv, Progress
  <2>3. Distinct'
    BY <1>1 DEF vars, Inv, Distinct, Admitted
  <2> QED  BY <2>1, <2>2, <2>3 DEF Inv
<1>2. ASSUME NEW r \in Requests, Step(r) PROVE Inv'
  <2>1. Types' /\ Frame(r)
    BY <1>2, StepFrame, Zenon
  <2>2. Progress(r)'
    BY <1>2, StepProgress, Zenon
  <2>3. \A s \in Requests : Progress(s)'
    BY <2>1, <2>2, OthersProgress DEF Inv
  <2> QED  BY <1>2, <2>1, <2>3, StepDistinct, StepInflight, Zenon DEF Inv
<1> QED  BY <1>1, <1>2 DEF Next, Step

\* The inductive invariant holds throughout.
THEOREM Invariance == Spec => []Inv
BY InitInv, NextInv, PTL DEF Spec

\* Type correctness of the handler: in particular, the counters never go below zero and
\* ServeHTTP forwards a request at most twice.
THEOREM TypeCorrect == Spec => []TypeOK
<1>1. Inv => TypeOK
  <2> SUFFICES ASSUME Inv PROVE TypeOK
    OBVIOUS
  <2>1. ASSUME NEW b \in Backends PROVE inflight[b] \in Nat
    <3>1. Holders(b) \subseteq Requests /\ inflight[b] = Cardinality(Holders(b))
      BY Zenon DEF Inv, InflightExact, Holders, Holding
    <3> QED  BY <3>1, RequestsAssumption, FS_Subset, FS_CardinalityType, Zenon
  <2>2. inflight \in [Backends -> Nat]
    BY <2>1 DEF Inv, Types
  <2>3. \A r \in Requests : Len(tries[r]) <= 2
    BY DEF Inv, Progress, Attempts
  <2> QED  BY <2>2, <2>3 DEF Inv, Types, TypeOK, Deliveries
<1> QED  BY <1>1, Invariance, PTL

\* forward's Acquire and its deferred Release pair up on every path, for any number of
\* requests and any pools: the in-flight counters are exact.
THEOREM CountersExact == Spec => []InflightExact
<1>1. Inv => InflightExact
  BY Zenon DEF Inv
<1> QED  BY <1>1, Invariance, PTL

\* Verify consumes the jti before ServeHTTP forwards anything: however many handlers
\* interleave, one request per jti reaches a backend.
THEOREM ForwardedOnce == Spec => []OneForwardPerJti
<1>1. Inv => OneForwardPerJti
  BY Zenon DEF Inv, Distinct, Admitted, OneForwardPerJti
<1> QED  BY <1>1, Invariance, PTL

\* The one retry of ServeHTTP goes to another backend, after a network error, and before
\* anything was answered.
THEOREM RetryElsewhere == Spec => []RetriedElsewhere
<1>1. Inv => RetriedElsewhere
  BY Zenon DEF Inv, Progress, Attempts, RetriedElsewhere
<1> QED  BY <1>1, Invariance, PTL

\* A set with at most one element.
LEMMA AtMostOne ==
  ASSUME NEW S, NEW e, S \subseteq {e}
  PROVE  Cardinality(S) <= 1
<1>1. S = {} \/ S = {e}
  BY Zenon
<1>2. Cardinality({}) = 0 /\ Cardinality({e}) = 1
  BY FS_EmptySet, FS_Singleton, Zenon
<1> QED  BY <1>1, <1>2

\* client.Do closes the body, so that the retry cannot deliver it again: a body reaches
\* one backend, and a request with one that came over HTTP/1 is executed by one.
THEOREM BodyOnce == Spec => []BodyExecutedOnce
<1>1. Inv => BodyExecutedOnce
  <2> SUFFICES ASSUME Inv, NEW r \in Requests, in[r].body # "none"
               PROVE  /\ Cardinality(Whole(r)) <= 1
                      /\ in[r].body = "http1" => Cardinality(executed[r]) <= 1
    BY Zenon DEF BodyExecutedOnce, Whole
  <2>1. /\ \E e : Whole(r) \subseteq {e}
        /\ in[r].body = "http1" => \E e : executed[r] \subseteq {e}
    BY Zenon DEF Inv, Progress, Executions
  <2> QED  BY <2>1, AtMostOne, Zenon
<1> QED  BY <1>1, Invariance, PTL

\* After the header of a reply or of an error has been written, ServeHTTP writes no other.
THEOREM OneAnswer == Spec => AnsweredOnce
<1>1. Inv /\ [Next]_vars =>
        [\A r \in Requests : status[r] # None => status'[r] = status[r]]_vars
  <2> SUFFICES ASSUME Inv, NEW s \in Requests, Step(s), NEW r \in Requests, status[r] # None
               PROVE  status'[r] = status[r]
    BY Zenon DEF Next, Step
  <2>1. CASE r # s
    BY <2>1, StepFrame DEF Frame
  <2>2. CASE r = s
    <3>1. pc[s] \in {"copy", "done"}
      BY <2>2, Zenon DEF Inv, Progress, Attempts
    <3>2. ~Authenticating(s)
      BY <3>1, Zenon DEF Authenticating, RejectRoute, RejectToken, RejectReplay, RejectStore,
                  RejectScope, Panic, Admit, Authenticate
    <3>3. ~Arrive(s) /\ ~Picking(s)
      BY <3>1, Zenon DEF Arrive, Picking, PickNone, PickFirst, PickAlternative, PickSame
    <3>4. ~Forwarding(s)
      BY <3>1 DEF Forwarding, Unsendable, Send, Reply, Fail, Do, Retry, GiveUp
    <3>5. UNCHANGED status
      BY <3>2, <3>3, <3>4 DEF Step, Serve, Finish, Goto
    <3> QED  BY <3>5, Zenon
  <2> QED  BY <2>1, <2>2, Zenon
<1> QED  BY <1>1, Invariance, PTL DEF Spec, AnsweredOnce
--------------------------------------------------------------------------------
(* Verify says "ok" only when every check holds. *)

\* The least of a set of numbers is one of them.
LEMMA MinIsLeast ==
  ASSUME NEW S, S \subseteq Nat, S # {}
  PROVE  Min(S) \in S
<1>1. PICK x \in S : \A y \in S : ~(<<y, x>> \in OpToRel(<, Nat))
  BY NatLessThanWellFounded, WFMin
<1>2. ASSUME NEW y \in S, y < x PROVE FALSE
  <2>1. <<y, x>> \in Nat \X Nat /\ <<y, x>>[1] < <<y, x>>[2]
    BY <1>2
  <2>2. <<y, x>> \in {ss \in Nat \X Nat : ss[1] < ss[2]}
    BY <2>1
  <2> QED  BY <1>1, <2>2 DEF OpToRel
<1>3. \A y \in S : x <= y
  BY <1>2
<1> QED  BY <1>3, Zenon DEF Min

\* A token that Verify lets pass is signed by the registered key it names.
LEMMA VerifyChecks ==
  ASSUME NEW tok, NEW t, Verify(tok, t) = "ok"
  PROVE  tok.kid \in Kids /\ tok.sig = tok.kid
<1> DEFINE failed == {i \in DOMAIN Checks(tok, t) : ~Checks(tok, t)[i].holds}
<1>1. DOMAIN Checks(tok, t) = 1..11
  BY DEF Checks
<1>2. \A i \in 1..11 : Checks(tok, t)[i].reason # "ok"
  <2> DEFINE Reason(i) == Checks(tok, t)[i].reason
  <2>1. /\ Reason(1) = "bad_claims" /\ Reason(2) = "bad_claims" /\ Reason(3) = "unknown_kid"
        /\ Reason(4) = "bad_claims" /\ Reason(5) = "bad_signature" /\ Reason(6) = "bad_claims"
        /\ Reason(7) = "wrong_issuer" /\ Reason(8) = "wrong_audience" /\ Reason(9) = "expired"
        /\ Reason(10) = "not_yet_valid" /\ Reason(11) = "bad_claims"
    BY Zenon DEF Checks
  <2> HIDE DEF Reason
  <2>2. \A i \in 1..11 : Reason(i) # "ok"
    BY <2>1
  <2> QED  BY <2>2 DEF Reason
<1>3. failed \subseteq 1..11 /\ 1..11 \subseteq Nat
  BY <1>1
<1>4. failed # {} => Min(failed) \in failed
  BY <1>3, MinIsLeast, Zenon
<1>5. failed = {}
  BY <1>2, <1>3, <1>4, Zenon DEF Verify
<1>6. Checks(tok, t)[3].holds /\ Checks(tok, t)[5].holds
  BY <1>1, <1>5
<1> QED  BY <1>6, Zenon DEF Checks, SignedByKid

\* ServeHTTP gives a request to a backend only after every check: whatever tokens, routes
\* and pools there are, what got a request is a trusted backend of the routed service and
\* the request's token was verified, has the scope, and had its jti stored.
THEOREM OnlyAuthorised == Spec => []ExecutedOnlyAuthorised
<1>1. Inv => ExecutedOnlyAuthorised
  <2> SUFFICES ASSUME Inv, NEW r \in Requests, NEW e \in executed[r]
               PROVE  /\ e.to \in Trusted
                      /\ e.to \in Pools[Service(r)]
                      /\ in[r].token # None
                      /\ Verify(in[r].token, Now) = "ok"
                      /\ in[r].token.kid \in Kids /\ in[r].token.sig = in[r].token.kid
                      /\ \/ Match(in[r].path).scope = ""
                         \/ Match(in[r].path).scope \in in[r].token.scope
                      /\ in[r].token.jti \in seen
    BY DEF ExecutedOnlyAuthorised
  <2>1. Executions(r) /\ tries[r] # <<>>
    BY Zenon DEF Inv, Progress, Executions
  <2>2. Cleared(r)
    BY <2>1, Zenon DEF Inv, Progress, Admitted
  <2>3. e.to \in Trusted /\ e.to \in Pools[Service(r)]
    BY <2>1, Zenon DEF Executions
  <2> QED  BY <2>2, <2>3, VerifyChecks DEF Cleared, HasScope
<1> QED  BY <1>1, Invariance, PTL
--------------------------------------------------------------------------------
(* What a request goes through, seen from outside. *)

Active == {"pick", "send", "wire", "copy", "failed"}

\* The phases, place by place.
LEMMA Phases ==
  ASSUME NEW c
  PROVE  /\ PhaseOf("idle", c) = "none"
         /\ PhaseOf("arrived", c) = "open"
         /\ PhaseOf("panicked", c) = "cut"
         /\ c \in {401, 403, 404} => PhaseOf("done", c) = "rejected"
         /\ c \in {200, 502, 503} => PhaseOf("done", c) = "answered"
         /\ \A where \in Active : PhaseOf(where, c) = "active"
<1>1. PhaseOf("idle", c) = "none" BY DEF PhaseOf
<1>2. PhaseOf("arrived", c) = "open" BY DEF PhaseOf
<1>3. PhaseOf("panicked", c) = "cut" BY DEF PhaseOf
<1>4. c \in {401, 403, 404} => PhaseOf("done", c) = "rejected" BY DEF PhaseOf
<1>5. c \in {200, 502, 503} => PhaseOf("done", c) = "answered" BY DEF PhaseOf
<1>6. \A where \in Active : PhaseOf(where, c) = "active" BY Zenon DEF PhaseOf, Active
<1> QED  BY <1>1, <1>2, <1>3, <1>4, <1>5, <1>6, Zenon

\* While the body is copied the client has its 200.
Copying == \A r \in Requests : pc[r] = "copy" => status[r] = 200

\* A step of ServeHTTP, as Admission sees it: what happens to the place of the request, to
\* its status and to the nonce store.
Passes(r) ==
    /\ in'[r] = in[r] /\ pc[r] # "idle" /\ pc'[r] # "idle"
    /\ pc'[r] = "copy" => status'[r] = 200
    /\ \/ /\ pc[r] = "arrived"
          /\ \/ pc'[r] = "done" /\ status'[r] \in {401, 403, 404}
             \/ pc'[r] = "panicked"
          /\ seen' \in {seen, seen \cup Carries(r)}
       \/ /\ pc[r] = "arrived" /\ pc'[r] = "pick"
          /\ Carries(r) # {} /\ Carries(r) \cap seen = {} /\ seen' = seen \cup Carries(r)
       \/ pc[r] \in Active /\ pc'[r] \in Active /\ seen' = seen
       \/ /\ pc[r] \in Active /\ pc'[r] = "done" /\ status'[r] \in {200, 502, 503}
          /\ seen' = seen

\* Every step of ServeHTTP is such a passage.
LEMMA Passage ==
  ASSUME Inv, Copying, NEW r \in Requests, Serve(r) \/ Finish(r)
  PROVE  Passes(r)
<1> USE DEF Passes
<1>0. Types /\ DOMAIN pc = Requests /\ DOMAIN status = Requests
  BY Domains DEF Inv
<1>1. ASSUME NEW code, Answer(r, code) PROVE pc'[r] = "done" /\ status'[r] = code
  BY <1>0, <1>1 DEF Answer
<1>2. ASSUME NEW where, Goto(r, where) PROVE pc'[r] = where /\ status' = status
  BY <1>0, <1>2, Zenon DEF Goto
<1>3. ASSUME pc[r] = "arrived", ~Denied(r) PROVE Carries(r) = {in[r].token.jti}
  BY <1>3, Zenon DEF Denied, Carries
<1>4. CASE Authenticating(r)
  <2>1. pc[r] = "arrived" /\ UNCHANGED in
    BY <1>4, Zenon DEF Authenticating, RejectRoute, RejectToken, RejectReplay, RejectStore, RejectScope,
                Panic, Admit, Authenticate, forwarding
  <2>2. CASE RejectRoute(r) \/ RejectToken(r) \/ RejectReplay(r)
    <3>1. seen' = seen /\ (Answer(r, 401) \/ Answer(r, 404))
      BY <2>2, Zenon DEF RejectRoute, RejectToken, RejectReplay
    <3> QED  BY <1>1, <2>1, <3>1
  <2>3. CASE RejectStore(r)
    <3>1. ~Denied(r) /\ (seen' = seen \/ Remember(in[r].token.jti)) /\ Answer(r, 401)
      BY <2>3, Zenon DEF RejectStore
    <3>2. seen' \in {seen, seen \cup Carries(r)}
      BY <1>3, <2>1, <3>1 DEF Remember
    <3> QED  BY <1>1, <2>1, <3>1, <3>2
  <2>4. ASSUME Authenticate(r)
        PROVE  Carries(r) # {} /\ Carries(r) \cap seen = {} /\ seen' = seen \cup Carries(r)
    BY <1>3, <2>1, <2>4, Zenon DEF Authenticate, Remember
  <2>5. CASE RejectScope(r)
    <3>1. Authenticate(r) /\ Answer(r, 403)
      BY <2>5, Zenon DEF RejectScope
    <3> QED  BY <1>1, <2>1, <2>4, <3>1
  <2>6. CASE Panic(r)
    <3>1. Authenticate(r) /\ Goto(r, "panicked")
      BY <2>6, Zenon DEF Panic
    <3> QED  BY <1>2, <2>1, <2>4, <3>1
  <2>7. CASE Admit(r)
    <3>1. Authenticate(r) /\ Goto(r, "pick")
      BY <2>7, Zenon DEF Admit
    <3> QED  BY <1>2, <2>1, <2>4, <3>1
  <2> QED  BY <1>4, <2>2, <2>3, <2>5, <2>6, <2>7, Zenon DEF Authenticating
<1>5. CASE Picking(r)
  <2>1. pc[r] = "pick" /\ UNCHANGED <<in, seen>>
    BY <1>5, Zenon DEF Picking, PickNone, PickFirst, PickAlternative, PickSame, forwarding
  <2>2. Answer(r, 502) \/ Answer(r, 503) \/ Goto(r, "send")
    BY <1>5, Zenon DEF Picking, PickNone, PickFirst, PickAlternative, PickSame
  <2> QED  BY <1>1, <1>2, <2>1, <2>2 DEF Active
<1>6. CASE Forwarding(r) \/ Finish(r)
  <2>1. pc[r] \in {"send", "wire", "copy", "failed"} /\ UNCHANGED <<in, seen>>
    BY <1>6, Zenon DEF Forwarding, Unsendable, Send, Reply, Fail, Retry, GiveUp, Finish, Do
  <2>2. CASE Reply(r)
    <3>1. pc'[r] = "copy" /\ status'[r] = 200
      BY <1>0, <2>2, Zenon DEF Reply
    <3> QED  BY <2>1, <3>1, Zenon DEF Active
  <2>3. CASE Finish(r)
    <3>1. pc[r] = "copy" /\ Goto(r, "done")
      BY <2>3, Zenon DEF Finish
    <3>2. status[r] = 200
      BY <3>1 DEF Copying
    <3>3. pc'[r] = "done" /\ status'[r] = 200
      BY <1>2, <3>1, <3>2
    <3> QED  BY <2>1, <3>3 DEF Active
  <2>4. CASE GiveUp(r)
    <3>1. pc'[r] = "done" /\ status'[r] = 502
      BY <1>1, <2>4 DEF GiveUp
    <3> QED  BY <2>1, <3>1 DEF Active
  <2>5. CASE Unsendable(r) \/ Send(r) \/ Fail(r) \/ Retry(r)
    <3>1. Goto(r, "failed") \/ Goto(r, "wire") \/ Goto(r, "pick")
      BY <2>5, Zenon DEF Unsendable, Send, Fail, Retry
    <3> QED  BY <1>2, <2>1, <3>1 DEF Active
  <2> QED  BY <1>6, <2>2, <2>3, <2>4, <2>5, Zenon DEF Forwarding
<1> QED  BY <1>4, <1>5, <1>6, Zenon DEF Serve

\* Every step of a request is a step of Admission, or shows nothing of itself.
LEMMA StepAdmission ==
  ASSUME Inv, Copying, NEW r \in Requests, Step(r)
  PROVE  Copying' /\ [Admission!Next]_Admission!vars
<1> DEFINE P == [s \in Requests |-> PhaseOf(pc[s], status[s])]
           C == [s \in Requests |-> Carries(s)]
<1>1. Frame(r)
  BY StepFrame, Zenon
<1>2. P' = [P EXCEPT ![r] = PhaseOf(pc'[r], status'[r])] /\ P[r] = PhaseOf(pc[r], status[r])
  BY <1>1, Zenon DEF Frame
<1>3. \A s \in Requests \ {r} : Carries(s)' = Carries(s)
  BY <1>1, Zenon DEF Frame, Carries
<1>4. C' = [C EXCEPT ![r] = Carries(r)'] /\ C[r] = Carries(r)
  BY <1>3, Zenon
<1>5. CASE Arrive(r)
  <2>1. pc[r] = "idle" /\ pc'[r] = "arrived" /\ seen' = seen
    BY <1>5, Domains, Zenon DEF Arrive, Goto, Inv
  <2>2. P[r] = "none" /\ P' = [P EXCEPT ![r] = "open"]
    <3>1. PhaseOf(pc[r], status[r]) = "none" /\ PhaseOf(pc'[r], status'[r]) = "open"
      BY <2>1, Phases
    <3> QED  BY <1>2, <3>1, Zenon
  <2>3. PICK x \in Inputs : in' = [in EXCEPT ![r] = x]
    BY <1>5, Zenon DEF Arrive
  <2>4. in'[r] = x
    BY <2>3, Domains, Zenon DEF Inv
  <2>5. Carries(r)' \in {{}} \cup {{j} : j \in {y.token.jti : y \in {z \in Inputs : z.token # None}}}
    BY <2>1, <2>4 DEF Carries
  <2>6. Admission!Open(r)
    BY <1>4, <2>1, <2>2, <2>5, Zenon DEF Admission!Open, Admission!Step
  <2>7. Copying'
    <3> SUFFICES ASSUME NEW s \in Requests, pc'[s] = "copy" PROVE status'[s] = 200
      BY Zenon DEF Copying
    <3>1. s # r => pc'[s] = pc[s] /\ status'[s] = status[s]
      BY <1>1, Zenon DEF Frame
    <3>2. s # r
      BY <2>1
    <3>3. pc[s] = "copy" => status[s] = 200
      BY Zenon DEF Copying
    <3> QED  BY <3>1, <3>2, <3>3, Zenon
  <2> QED  BY <2>6, <2>7 DEF Admission!Next
<1>6. CASE Serve(r) \/ Finish(r)
  <2>0. Passes(r)
    BY <1>6, Passage, Zenon
  <2>1. in'[r] = in[r] /\ pc[r] # "idle" /\ pc'[r] # "idle" /\ (pc'[r] = "copy" => status'[r] = 200)
    BY <2>0, Zenon DEF Passes
  <2>2. Copying'
    <3> SUFFICES ASSUME NEW s \in Requests, pc'[s] = "copy" PROVE status'[s] = 200
      BY Zenon DEF Copying
    <3>1. s # r => pc'[s] = pc[s] /\ status'[s] = status[s]
      BY <1>1, Zenon DEF Frame
    <3>2. pc[s] = "copy" => status[s] = 200
      BY Zenon DEF Copying
    <3> QED  BY <2>1, <3>1, <3>2, Zenon
  <2>3. C' = C
    <3>1. Carries(r)' = Carries(r)
      BY <2>1, Zenon DEF Carries
    <3> QED  BY <1>4, <3>1, Zenon
  <2>4. CASE /\ pc[r] = "arrived"
             /\ \/ pc'[r] = "done" /\ status'[r] \in {401, 403, 404}
                \/ pc'[r] = "panicked"
             /\ seen' \in {seen, seen \cup Carries(r)}
    <3>1. P[r] = "open" /\ PhaseOf(pc'[r], status'[r]) \in {"rejected", "cut"}
      BY <1>2, <2>4, Phases
    <3>2. Admission!Refuse(r)
      BY <1>2, <1>4, <2>3, <2>4, <3>1, Zenon DEF Admission!Refuse, Admission!Step
    <3> QED  BY <2>2, <3>2 DEF Admission!Next
  <2>5. CASE /\ pc[r] = "arrived" /\ pc'[r] = "pick"
             /\ Carries(r) # {} /\ Carries(r) \cap seen = {} /\ seen' = seen \cup Carries(r)
    <3>1. P[r] = "open" /\ PhaseOf(pc'[r], status'[r]) = "active"
      BY <1>2, <2>5, Phases DEF Active
    <3>2. Admission!Admit(r)
      BY <1>2, <1>4, <2>3, <2>5, <3>1, Zenon DEF Admission!Admit, Admission!Step
    <3> QED  BY <2>2, <3>2 DEF Admission!Next
  <2>6. CASE pc[r] \in Active /\ pc'[r] \in Active /\ seen' = seen
    <3>1. P[r] = "active" /\ PhaseOf(pc'[r], status'[r]) = "active"
      BY <1>2, <2>6, Phases
    <3>2. P' = P
      BY <1>2, <3>1, Zenon
    <3> QED  BY <2>2, <2>3, <2>6, <3>2, Zenon DEF Admission!vars
  <2>7. CASE pc[r] \in Active /\ pc'[r] = "done" /\ status'[r] \in {200, 502, 503} /\ seen' = seen
    <3>1. P[r] = "active" /\ PhaseOf(pc'[r], status'[r]) = "answered"
      BY <1>2, <2>7, Phases
    <3>2. P' = [P EXCEPT ![r] = "answered"]
      BY <1>2, <3>1, Zenon
    <3>3. Admission!Answer(r)
      BY <2>3, <2>7, <3>1, <3>2, Zenon DEF Admission!Answer, Admission!Step
    <3> QED  BY <2>2, <3>3 DEF Admission!Next
  <2> HIDE DEF P, C
  <2> QED  BY <2>0, <2>4, <2>5, <2>6, <2>7, Zenon DEF Passes
<1> QED  BY <1>5, <1>6 DEF Step

\* ServeHTTP implements Admission: whatever Verify, Pick, forward and the retry do on the way
\* and however requests interleave, a request is refused once, or uses up its jti once and is
\* answered once, and no jti is used twice.
THEOREM HandlerAdmits == Spec => KeepsAdmission
<1>1. Init => Copying /\ Admission!Init
  <2> SUFFICES ASSUME Init PROVE Copying /\ Admission!Init
    OBVIOUS
  <2>1. \A r \in Requests : pc[r] = "idle"
    BY DEF Init
  <2>2. [r \in Requests |-> PhaseOf(pc[r], status[r])] = [r \in Requests |-> "none"]
    BY <2>1, Phases
  <2>3. [r \in Requests |-> Carries(r)] = [r \in Requests |-> {}]
    BY <2>1 DEF Carries
  <2>4. seen = {}
    BY DEF Init
  <2> QED  BY <2>1, <2>2, <2>3, <2>4 DEF Copying, Admission!Init
<1>2. Inv /\ Copying /\ [Next]_vars => Copying' /\ [Admission!Next]_Admission!vars
  <2> SUFFICES ASSUME Inv, Copying, [Next]_vars
               PROVE  Copying' /\ [Admission!Next]_Admission!vars
    BY Zenon
  <2>1. CASE UNCHANGED vars
    BY <2>1 DEF vars, Copying, Carries, Admission!vars
  <2>2. CASE Next
    BY <2>2, StepAdmission DEF Next, Step
  <2> QED  BY <2>1, <2>2
<1> QED  BY <1>1, <1>2, Invariance, PTL DEF Spec, KeepsAdmission, Admission!Spec

--------------------------------------------------------------------------------
(* Liveness. ENABLED is left to TLC, in GoesOn. *)

Scheduled(r) == WF_vars(Serve(r))
CanGoOn(r) ==
    pc[r] \in {"arrived", "pick", "send", "wire", "failed"} => ENABLED <<Serve(r)>>_vars
RespondsTo(r) == pc[r] = "arrived" ~> (status[r] # None \/ pc[r] = "panicked")

\* The request is at this step, with n backends tried.
At(r, where, n) == pc[r] = where /\ Len(tries[r]) = n
Over(r) == status[r] # None \/ pc[r] = "panicked"

\* A step that moves the request on moves it towards its response; n backends have been
\* tried when it is forwarded.
MovesOn(r) ==
    /\ At(r, "arrived", 0) => At(r, "pick", 0)' \/ Over(r)'
    /\ At(r, "pick", 0) => At(r, "send", 1)' \/ Over(r)'
    /\ At(r, "send", 1) => At(r, "wire", 1)' \/ At(r, "failed", 1)'
    /\ At(r, "wire", 1) => At(r, "failed", 1)' \/ Over(r)'
    /\ At(r, "failed", 1) => At(r, "pick", 1)' \/ Over(r)'
    /\ At(r, "pick", 1) => At(r, "send", 2)' \/ Over(r)'
    /\ At(r, "send", 2) => At(r, "wire", 2)' \/ At(r, "failed", 2)'
    /\ At(r, "wire", 2) => At(r, "failed", 2)' \/ Over(r)'
    /\ At(r, "failed", 2) => Over(r)'

StaysPut(r) == \A where, n : At(r, where, n) => At(r, where, n)'

\* The fairness, the enabled steps and the promise, request by request.
LEMMA PerRequest ==
  /\ Fairness => \A r \in Requests : Scheduled(r)
  /\ GoesOn => \A r \in Requests : CanGoOn(r)
  /\ (\A r \in Requests : RespondsTo(r)) => Responds
BY PTL DEF Fairness, Scheduled, GoesOn, CanGoOn, Responds, RespondsTo

\* A request that has been answered, with any of the handler's codes, is over.
LEMMA AnswerIsOver ==
  ASSUME NEW r \in Requests, status'[r] \in {200, 401, 403, 404, 502, 503}
  PROVE  Over(r)'
BY NoneAssumption DEF Over

\* Authenticating a request lets it through or answers it.
LEMMA AuthenticatingMovesOn ==
  ASSUME NEW r \in Requests, Types, Progress(r), Authenticating(r)
  PROVE  MovesOn(r)
<1>1. pc[r] = "arrived" /\ UNCHANGED tries
  BY DEF Authenticating, RejectRoute, RejectToken, RejectReplay, RejectStore, RejectScope,
         Panic, Admit, Authenticate, forwarding
<1>2. pc'[r] = "pick" \/ Over(r)'
  <2>1. CASE Panic(r) \/ Admit(r)
    BY <2>1, Domains, Zenon DEF Panic, Admit, Goto, Over
  <2>2. CASE ~Panic(r) /\ ~Admit(r)
    <3>1. Answer(r, 401) \/ Answer(r, 403) \/ Answer(r, 404)
      BY <2>2, Zenon DEF Authenticating, RejectRoute, RejectToken, RejectReplay, RejectStore,
                         RejectScope
    <3>2. status'[r] \in {401, 403, 404}
      <4>1. ASSUME NEW c \in {401, 403, 404}, Answer(r, c) PROVE status'[r] = c
        BY <4>1, Domains DEF Answer
      <4> QED  BY <3>1, <4>1
    <3>3. status'[r] \in {200, 401, 403, 404, 502, 503}
      BY <3>2
    <3> QED  BY <3>3, AnswerIsOver
  <2> QED  BY <2>1, <2>2, Zenon
<1> QED  BY <1>1, <1>2, Zenon DEF MovesOn, At

\* Pick gives it the next backend, or none and an answer.
LEMMA PickingMovesOn ==
  ASSUME NEW r \in Requests, Types, Progress(r), Picking(r)
  PROVE  MovesOn(r)
<1>0. pc[r] = "pick" /\ tries[r] \in Seq(Backends) /\ Attempts(r)
  <2>1. pc[r] = "pick"
    BY Zenon DEF Picking, PickNone, PickFirst, PickAlternative, PickSame
  <2>2. tries[r] \in Seq(Backends)
    <3>1. tries \in [Requests -> Seq(Backends)]
      BY Zenon DEF Types
    <3> QED  BY <3>1
  <2>3. Attempts(r)
    BY <2>1 DEF Progress
  <2> QED  BY <2>1, <2>2, <2>3
<1>1. CASE PickNone(r) \/ PickSame(r)
  <2>1. Answer(r, 502) \/ Answer(r, 503)
    BY <1>1 DEF PickNone, PickSame
  <2>2. Over(r)'
    <3>1. status'[r] \in {502, 503}
      BY <2>1, Domains DEF Answer
    <3> QED  BY <3>1, AnswerIsOver
  <2> QED  BY <1>0, <2>2, Zenon DEF MovesOn, At
<1>2. CASE PickFirst(r)
  <2>1. PICK b : tries' = [tries EXCEPT ![r] = <<b>>]
    BY <1>2, Zenon DEF PickFirst
  <2>2. pc'[r] = "send" /\ tries'[r] = <<b>> /\ tries[r] = <<>>
    BY <1>2, <2>1, Domains, Zenon DEF PickFirst, Goto
  <2>3. Len(tries'[r]) = 1 /\ Len(tries[r]) = 0
    BY <2>2, Zenon
  <2> QED  BY <1>0, <2>2, <2>3, Zenon DEF MovesOn, At
<1>3. CASE PickAlternative(r)
  <2>1. PICK b \in Alternative(r) : tries' = [tries EXCEPT ![r] = Append(@, b)]
    BY <1>3, Zenon DEF PickAlternative
  <2>2. pc'[r] = "send" /\ tries'[r] = Append(tries[r], b)
    BY <1>3, <2>1, Domains, Zenon DEF PickAlternative, Goto
  <2>3. Len(tries[r]) = 1
    BY <1>0, <1>3, Zenon DEF PickAlternative, Attempts
  <2> DEFINE n == Len(tries[r])
             m == Len(tries'[r])
  <2>4. m = n + 1 /\ n = 1
    BY <1>0, <2>2, <2>3
  <2> HIDE DEF n, m
  <2>5. n = 1 /\ m = 2
    BY <2>4
  <2> USE DEF n, m
  <2> QED  BY <1>0, <2>2, <2>3, <2>5 DEF MovesOn, At
<1> QED  BY <1>1, <1>2, <1>3, Zenon DEF Picking

\* An attempt ends in the header of a reply, in the one retry, or in an answer.
LEMMA ForwardingMovesOn ==
  ASSUME NEW r \in Requests, Types, Progress(r), Forwarding(r)
  PROVE  MovesOn(r)
<1>0. tries'[r] = tries[r]
  BY Zenon DEF Forwarding, Unsendable, Send, Reply, Fail, Do, Retry, GiveUp
<1>1. CASE Unsendable(r) \/ Send(r)
  <2>1. pc[r] = "send" /\ pc'[r] \in {"wire", "failed"}
    BY <1>1, Domains, Zenon DEF Unsendable, Send, Goto
  <2> QED  BY <1>0, <2>1, Zenon DEF MovesOn, At
<1>2. CASE Reply(r)
  <2>1. pc[r] = "wire" /\ status' = [status EXCEPT ![r] = 200]
    BY <1>2 DEF Reply, Do
  <2>2. Over(r)'
    <3>1. status'[r] \in {200, 502}
      BY <2>1, Domains DEF Answer
    <3> QED  BY <3>1, AnswerIsOver
  <2> QED  BY <2>1, <2>2, Zenon DEF MovesOn, At
<1>3. CASE Fail(r)
  <2>1. pc[r] = "wire" /\ pc'[r] = "failed"
    BY <1>3, Domains, Zenon DEF Fail, Do, Goto
  <2> QED  BY <1>0, <2>1, Zenon DEF MovesOn, At
<1>4. CASE Retry(r)
  <2>1. pc[r] = "failed" /\ pc' = [pc EXCEPT ![r] = "pick"] /\ Len(tries[r]) = 1
    BY <1>4, Zenon DEF Retry, Retryable, Goto
  <2>2. pc'[r] = "pick"
    BY <2>1, Domains
  <2>3. At(r, "pick", 1)'
    BY <1>0, <2>1, <2>2, Zenon DEF At
  <2>4. \A where, n : At(r, where, n) => where = "failed" /\ n = 1
    BY <2>1, Zenon DEF At
  <2> QED  BY <2>3, <2>4 DEF MovesOn
<1>5. CASE GiveUp(r)
  <2>1. pc[r] = "failed" /\ Answer(r, 502)
    BY <1>5, Zenon DEF GiveUp
  <2>2. Over(r)'
    <3>1. status'[r] \in {200, 502}
      BY <2>1, Domains DEF Answer
    <3> QED  BY <3>1, AnswerIsOver
  <2> QED  BY <2>1, <2>2, Zenon DEF MovesOn, At
<1> QED  BY <1>1, <1>2, <1>3, <1>4, <1>5, Zenon DEF Forwarding

\* So every step of the request's goroutine moves it on, and the others leave it alone.
LEMMA Onward ==
  ASSUME NEW r \in Requests, Inv, [Next]_vars
  PROVE  /\ MovesOn(r) \/ StaysPut(r)
         /\ Serve(r) => MovesOn(r)
<1>1. Serve(r) => MovesOn(r)
  BY AuthenticatingMovesOn, PickingMovesOn, ForwardingMovesOn, Zenon DEF Inv, Serve
<1>2. ASSUME NEW s \in Requests, s # r, Step(s) PROVE StaysPut(r)
  <2>1. pc'[r] = pc[r] /\ tries'[r] = tries[r]
    BY <1>2, StepFrame, Zenon DEF Frame
  <2> QED  BY <2>1, Zenon DEF StaysPut, At
<1>3. UNCHANGED vars => StaysPut(r)
  BY Zenon DEF vars, StaysPut, At
<1>4. Arrive(r) \/ Finish(r) => MovesOn(r)
  BY DEF Arrive, Finish, MovesOn, At
<1> QED  BY <1>1, <1>2, <1>3, <1>4, Zenon DEF Next, Step

\* ServeHTTP answers every request, or its goroutine panics on a route without a service:
\* however the other requests interleave with it, whatever its backends do and however
\* few of them there are.
THEOREM EveryRequestAnswered == Spec /\ []GoesOn => Responds
<1> SUFFICES ASSUME NEW r \in Requests PROVE Spec /\ []GoesOn => RespondsTo(r)
  <2>1. Spec /\ []GoesOn => \A r \in Requests : RespondsTo(r)
    OBVIOUS
  <2> QED  BY <2>1, PerRequest, Zenon
<1>1. (Fairness => Scheduled(r)) /\ (GoesOn => CanGoOn(r))
  BY PerRequest
<1>2. Inv /\ [Next]_vars => MovesOn(r) \/ StaysPut(r)
  BY Onward
<1>3. Inv /\ [Next]_vars /\ <<Serve(r)>>_vars => MovesOn(r)
  BY Onward
<1>4. Inv /\ pc[r] = "arrived" => At(r, "arrived", 0)
  <2> SUFFICES ASSUME Inv, pc[r] = "arrived" PROVE Len(tries[r]) = 0
    BY Zenon DEF At
  <2>1. tries[r] = <<>>
    BY Zenon DEF Inv, Progress, Attempts
  <2> QED  BY <2>1
<1>5. \/ At(r, "arrived", 0) \/ At(r, "pick", 0) \/ At(r, "send", 1) \/ At(r, "wire", 1)
      \/ At(r, "failed", 1) \/ At(r, "pick", 1) \/ At(r, "send", 2) \/ At(r, "wire", 2)
      \/ At(r, "failed", 2)
      => pc[r] \in {"arrived", "pick", "send", "wire", "failed"}
  BY Zenon DEF At
<1>6. StaysPut(r) =>
        /\ At(r, "arrived", 0) => At(r, "arrived", 0)'
        /\ At(r, "pick", 0) => At(r, "pick", 0)'
        /\ At(r, "send", 1) => At(r, "send", 1)'
        /\ At(r, "wire", 1) => At(r, "wire", 1)'
        /\ At(r, "failed", 1) => At(r, "failed", 1)'
        /\ At(r, "pick", 1) => At(r, "pick", 1)'
        /\ At(r, "send", 2) => At(r, "send", 2)'
        /\ At(r, "wire", 2) => At(r, "wire", 2)'
        /\ At(r, "failed", 2) => At(r, "failed", 2)'
  BY Zenon DEF StaysPut
<1>7. (status[r] # None \/ pc[r] = "panicked") <=> Over(r)
  BY DEF Over
<1> QED
  BY <1>1, <1>2, <1>3, <1>4, <1>5, <1>6, <1>7, Invariance, PTL
  DEF Spec, Scheduled, CanGoOn, RespondsTo, MovesOn
================================================================================
