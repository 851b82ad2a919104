------------------------------- MODULE Balancer --------------------------------
(***************************************************************************)
(* One pool (src/internal/lb/pool.go) shared by request goroutines, which  *)
(* pick a backend by two random choices and then forward to it, and by the *)
(* health checker, which may flip a bit at any time. A Pick is not atomic: *)
(* Healthy() reads the bits one after the other, and a score is two reads. *)
(***************************************************************************)
EXTENDS Pool, Sequences, FiniteSets, Functions

CONSTANTS
    Requests,
    Order,         \* the backends, in the order of the configuration
    Latencies,     \* of an exchange, in ms
    None           \* the absence of a value

Backends == Range(Order)

ASSUME LatenciesAssumption == Latencies \subseteq Nat
ASSUME RequestsAssumption == IsFiniteSet(Requests)

\* Each entry of the pool is a *Backend of its own.
ASSUME OrderAssumption ==
    /\ Order \in Seq(Backends)
    /\ \A i, j \in 1..Len(Order) : Order[i] = Order[j] => i = j

ASSUME NoneAssumption == None \notin Int /\ None \notin Backends

VARIABLES
    backend,       \* the pool: backend |-> Pool!BackendType
    wiping,        \* the backend SetHealthy(true) has still to wipe, or None
    pc,            \* request |-> where its goroutine is
    left, snap,    \* Healthy(): the backends still to look at, the ones seen healthy
    score,         \* the pair drawn, and the reads of their comparison
    at,            \* what Pick returned
    out,           \* history: the backends out of the pool since Pick was called
    quiet,         \* history: the pool has not changed since the request drew its pair
    outlived,      \* history: the backend was ejected during the request's exchange
    stale          \* history: backends whose statistics have such an exchange's latency

picking == <<left, snap, score, at>>
history == <<out, quiet, outlived, stale>>
vars == <<backend, wiping, pc, picking, history>>

NoScore == [a |-> None, b |-> None, ewma |-> None, scoreA |-> None]

\* Requests that have come and gone may have left statistics.
Init ==
    /\ backend \in [Backends -> {NewBackend} \cup {RecordLatency(NewBackend, ms) : ms \in Latencies}]
    /\ wiping = None
    /\ pc = [r \in Requests |-> "idle"]
    /\ left = [r \in Requests |-> <<>>]
    /\ snap = [r \in Requests |-> <<>>]
    /\ score = [r \in Requests |-> NoScore]
    /\ at = [r \in Requests |-> None]
    /\ out = [r \in Requests |-> {}]
    /\ quiet = {}
    /\ outlived = {}
    /\ stale = {}

Goto(r, where) == pc' = [pc EXCEPT ![r] = where]
--------------------------------------------------------------------------------
(* Pick. *)

StartPick(r) ==
    /\ pc[r] = "idle"
    /\ Goto(r, "scan")
    /\ left' = [left EXCEPT ![r] = Order]
    /\ out' = [out EXCEPT ![r] = {b \in Backends : ~backend[b].healthy}]
    /\ UNCHANGED <<backend, wiping, snap, score, at, quiet, outlived, stale>>

\* Mutant: All() instead of Healthy().
LookAtAll(r) ==
    /\ pc[r] = "scan"
    /\ left[r] # <<>>
    /\ left' = [left EXCEPT ![r] = Tail(@)]
    /\ snap' = [snap EXCEPT ![r] = Append(@, Head(left[r]))]
    /\ UNCHANGED <<backend, wiping, pc, score, at, history>>

\* Healthy() reads the next bit.
Look(r) ==
    /\ pc[r] = "scan"
    /\ left[r] # <<>>
    /\ left' = [left EXCEPT ![r] = Tail(@)]
    /\ snap' = [snap EXCEPT ![r] = IF backend[Head(left[r])].healthy
                                   THEN Append(@, Head(left[r])) ELSE @]
    /\ UNCHANGED <<backend, wiping, pc, score, at, history>>

PickNone(r) ==
    /\ pc[r] = "scan" /\ left[r] = <<>> /\ snap[r] = <<>>
    /\ Goto(r, "unserved")
    /\ UNCHANGED <<backend, wiping, picking, history>>

PickOnly(r) ==
    /\ pc[r] = "scan" /\ left[r] = <<>> /\ Len(snap[r]) = 1
    /\ Goto(r, "picked")
    /\ at' = [at EXCEPT ![r] = snap[r][1]]
    /\ UNCHANGED <<backend, wiping, left, snap, score, history>>

PickTwo(r) ==
    /\ pc[r] = "scan" /\ left[r] = <<>> /\ Len(snap[r]) > 1
    /\ \E i \in 0..Len(snap[r]) - 1, j \in 0..Len(snap[r]) - 2 :
        score' = [score EXCEPT ![r].a = snap[r][i + 1], ![r].b = snap[r][Second(i, j) + 1]]
    /\ Goto(r, "ewma")
    /\ quiet' = quiet \cup {r}
    /\ UNCHANGED <<backend, wiping, left, snap, at, out, outlived, stale>>

\* score() of a, then of b: the ewma under the backend's mutex ...
ReadEwma(r) ==
    /\ pc[r] = "ewma"
    /\ LET b == IF score[r].scoreA = None THEN score[r].a ELSE score[r].b
       IN  score' = [score EXCEPT ![r].ewma = backend[b].ewma]
    /\ Goto(r, "inflight")
    /\ UNCHANGED <<backend, wiping, left, snap, at, history>>

\* ... then its counter.
ReadInflightA(r) ==
    /\ pc[r] = "inflight" /\ score[r].scoreA = None
    /\ score' = [score EXCEPT ![r].scoreA = Score(score[r].ewma, backend[score[r].a].inflight)]
    /\ Goto(r, "ewma")
    /\ UNCHANGED <<backend, wiping, left, snap, at, history>>

\* Mutant: the higher score wins.
LowerIsB(scoreA, scoreB) == scoreB <= scoreA

LowerIsA(scoreA, scoreB) == scoreA <= scoreB

ReadInflightB(r) ==
    /\ pc[r] = "inflight" /\ score[r].scoreA # None
    /\ LET scoreB == Score(score[r].ewma, backend[score[r].b].inflight)
       IN  at' = [at EXCEPT ![r] = IF LowerIsA(score[r].scoreA, scoreB) THEN score[r].a ELSE score[r].b]
    /\ Goto(r, "picked")
    /\ UNCHANGED <<backend, wiping, left, snap, score, history>>
--------------------------------------------------------------------------------
(* forward. *)

\* Mutant: the request is not counted.
SendUncounted(r) ==
    /\ pc[r] = "picked"
    /\ Goto(r, "wire")
    /\ left' = [left EXCEPT ![r] = <<>>]
    /\ snap' = [snap EXCEPT ![r] = <<>>]
    /\ score' = [score EXCEPT ![r] = NoScore]
    /\ out' = [out EXCEPT ![r] = {}]
    /\ UNCHANGED <<backend, wiping, at, quiet, outlived, stale>>

\* A request that cannot be built is counted, but there is no exchange.
Send(r) ==
    /\ pc[r] = "picked"
    /\ backend' = [backend EXCEPT ![at[r]] = Acquire(@)]
    /\ Goto(r, "wire") \/ Goto(r, "sampled")
    /\ left' = [left EXCEPT ![r] = <<>>]
    /\ snap' = [snap EXCEPT ![r] = <<>>]
    /\ score' = [score EXCEPT ![r] = NoScore]
    /\ out' = [out EXCEPT ![r] = {}]
    /\ quiet' = {}
    /\ UNCHANGED <<wiping, at, outlived, stale>>

\* Do returns, with an answer or an error: either is a sample.
Sample(r) ==
    /\ pc[r] = "wire"
    /\ \E ms \in Latencies : backend' = [backend EXCEPT ![at[r]] = RecordLatency(@, ms)]
    /\ Goto(r, "sampled")
    /\ quiet' = {}
    /\ outlived' = outlived \ {r}
    /\ stale' = IF r \in outlived THEN stale \cup {at[r]} ELSE stale
    /\ UNCHANGED <<wiping, picking, out>>

\* The deferred Release, once the response has been copied.
Finish(r) ==
    /\ pc[r] = "sampled"
    /\ backend' = [backend EXCEPT ![at[r]] = Release(@)]
    /\ Goto(r, "served")
    /\ at' = [at EXCEPT ![r] = None]
    /\ quiet' = {}
    /\ UNCHANGED <<wiping, left, snap, score, out, outlived, stale>>
--------------------------------------------------------------------------------
(* The checker of HealthChecker, which holds its lock until a return to the   *)
(* pool is complete.                                                          *)

MarkDown(b) ==
    /\ wiping = None
    /\ backend[b].healthy
    /\ backend' = [backend EXCEPT ![b] = SwapHealthy(@, FALSE)]
    /\ outlived' = outlived \cup {r \in Requests : pc[r] = "wire" /\ at[r] = b}
    /\ quiet' = {}
    /\ UNCHANGED <<wiping, pc, picking, out, stale>>

MarkUp(b) ==
    /\ wiping = None
    /\ ~backend[b].healthy
    /\ backend' = [backend EXCEPT ![b] = SwapHealthy(@, TRUE)]
    /\ wiping' = b
    /\ out' = [r \in Requests |-> out[r] \ {b}]
    /\ quiet' = {}
    /\ UNCHANGED <<pc, picking, outlived, stale>>

Wipe ==
    /\ wiping # None
    /\ backend' = [backend EXCEPT ![wiping] = WipeStats(@)]
    /\ wiping' = None
    /\ stale' = stale \ {wiping}
    /\ quiet' = {}
    /\ UNCHANGED <<pc, picking, out, outlived>>
--------------------------------------------------------------------------------
Pick(r) ==
    \/ StartPick(r) \/ Look(r) \/ PickNone(r) \/ PickOnly(r) \/ PickTwo(r)
    \/ ReadEwma(r) \/ ReadInflightA(r) \/ ReadInflightB(r)

Next ==
    \/ \E r \in Requests : Pick(r) \/ Send(r) \/ Sample(r) \/ Finish(r)
    \/ \E b \in Backends : MarkDown(b) \/ MarkUp(b)
    \/ Wipe

Spec == Init /\ [][Next]_vars
--------------------------------------------------------------------------------
TypeOK ==
    /\ backend \in [Backends -> BackendType]
    /\ wiping \in Backends \cup {None}
    /\ pc \in [Requests -> {"idle", "scan", "ewma", "inflight", "picked", "wire", "sampled",
                            "unserved", "served"}]
    /\ left \in [Requests -> Seq(Backends)] /\ snap \in [Requests -> Seq(Backends)]
    /\ score \in [Requests -> [a : Backends \cup {None}, b : Backends \cup {None},
                              ewma : Nat \cup {None}, scoreA : Int \cup {None}]]
    /\ at \in [Requests -> Backends \cup {None}]
    /\ out \in [Requests -> SUBSET Backends]
    /\ quiet \subseteq Requests /\ outlived \subseteq Requests
    /\ stale \subseteq Backends

\* The average RecordLatency keeps lies between two of the latencies, whatever wipe came
\* between two samples, and a backend without statistics has none.
EwmaWithinSamples ==
    \A b \in Backends :
        IF backend[b].hasStats
        THEN \E lo, hi \in Latencies : lo * Unit <= backend[b].ewma /\ backend[b].ewma <= hi * Unit
        ELSE backend[b].ewma = 0

\* Two random choices: when nothing else happens to the pool between its draw and its
\* choice, Pick does not return a backend that is worse than every other one it saw.
WorstNotPicked ==
    \A r \in Requests :
        LET S(b) == Score(backend[b].ewma, backend[b].inflight)
        IN  pc[r] = "picked" /\ r \in quiet =>
                \E c \in Range(snap[r]) \ {at[r]} : S(at[r]) <= S(c)

\* The other backend of the two that Pick compared.
Other(r) == IF at[r] = score[r].a THEN score[r].b ELSE score[r].a

\* Load spreads: left alone, Pick returns the one of its two backends that has more requests
\* in flight only if the average of that one is lower. A backend without statistics, or with
\* an average of zero, takes part in this as one that answers in a millisecond: otherwise
\* its score would be zero at any load, and it would draw every request.
BusierOnlyIfFaster ==
    LET Average(b) == IF backend[b].ewma = 0 THEN Unit ELSE backend[b].ewma
    IN  \A r \in Requests :
            /\ pc[r] = "picked" /\ r \in quiet
            /\ backend[Other(r)].inflight < backend[at[r]].inflight
            => Average(at[r]) < Average(Other(r))

\* Pick compares two different backends, both of its snapshot, whatever the checker did
\* during the scan: stepping the second draw over the first never runs off the list.
ComparesTwo ==
    \A r \in Requests :
        pc[r] \in {"ewma", "inflight"} =>
            score[r].a # score[r].b /\ {score[r].a, score[r].b} \subseteq Range(snap[r])

\* A backend that was out of the pool when Pick was called and has not come back since is
\* not returned, whatever else the checker flips during the scan and the comparison.
EjectedNotPicked == \A r \in Requests : pc[r] = "picked" => at[r] \notin out[r]

\* To the checker the requests do what SharedPool says and nothing else: none touches a
\* bit ("the LB only reads it", pool.go:15), and none releases what it has not acquired.
Shared == INSTANCE SharedPool
KeepsPoolRules == Shared!Spec
--------------------------------------------------------------------------------
(* What the comments say, and the code does not do. *)

\* "When a backend transitions from unhealthy back to healthy we also wipe its EWMA --
\* otherwise a stale pre-ejection latency can starve the recovered backend": a request that
\* was sent before the ejection and ends after the return still records its latency.
FreshAfterReturn == \A b \in stale : ~backend[b].healthy \/ wiping = b
================================================================================
