----------------------------- MODULE BalancerProofs ----------------------------
(***************************************************************************)
(* For a pool of any size, any number of requests and any latencies: Pick  *)
(* compares two different backends of its snapshot and, left alone, avoids *)
(* the worst and the busier unless it is faster; it returns no backend     *)
(* that has been out since it was called; averages stay within their       *)
(* samples; and the requests keep to SharedPool, on which the health       *)
(* checker relies.                                                         *)
(***************************************************************************)
EXTENDS Balancer, FiniteSetTheorems, TLAPS

Counted == {"wire", "sampled"}

Numbers == [healthy : BOOLEAN, inflight : Int, ewma : Nat, hasStats : BOOLEAN]

Reads == [a : Backends \cup {None}, b : Backends \cup {None},
          ewma : Nat \cup {None}, scoreA : Int \cup {None}]

Types ==
    /\ backend \in [Backends -> Numbers]
    /\ wiping \in Backends \cup {None}
    /\ pc \in [Requests -> {"idle", "scan", "ewma", "inflight", "picked", "wire", "sampled",
                            "unserved", "served"}]
    /\ left \in [Requests -> Seq(Backends)] /\ snap \in [Requests -> Seq(Backends)]
    /\ score \in [Requests -> Reads]
    /\ at \in [Requests -> Backends \cup {None}]
    /\ out \in [Requests -> SUBSET Backends]
    /\ quiet \subseteq Requests /\ outlived \subseteq Requests
    /\ stale \subseteq Backends

\* Healthy() lists no backend twice.
Apart(r) ==
    /\ \A i, j \in 1..Len(left[r]) : left[r][i] = left[r][j] => i = j
    /\ \A i, j \in 1..Len(snap[r]) : snap[r][i] = snap[r][j] => i = j
    /\ \A i \in 1..Len(left[r]), j \in 1..Len(snap[r]) : left[r][i] # snap[r][j]

\* Where the goroutine is in Pick, and what it has by then.
Stage(r) ==
    /\ pc[r] = "idle" => snap[r] = <<>>
    /\ pc[r] \in {"idle", "scan"} => score[r] = NoScore /\ r \notin quiet
    /\ pc[r] \in {"ewma", "inflight"} =>
        /\ score[r].a # score[r].b
        /\ score[r].a \in Backends /\ score[r].b \in Backends
        /\ score[r].a \in Range(snap[r]) /\ score[r].b \in Range(snap[r])
    /\ pc[r] = "inflight" => score[r].ewma # None
    /\ pc[r] \in {"picked"} \cup Counted => at[r] \in Backends

\* What it has read is what there is, unless something happened since it drew its pair.
Current(r) ==
    r \in quiet =>
        /\ pc[r] \in {"ewma", "inflight"} /\ score[r].scoreA # None =>
            score[r].scoreA = Score(backend[score[r].a].ewma, backend[score[r].a].inflight)
        /\ pc[r] = "inflight" =>
            score[r].ewma = backend[IF score[r].scoreA = None THEN score[r].a ELSE score[r].b].ewma
        /\ pc[r] = "picked" =>
            /\ Other(r) \in Backends /\ Other(r) \in Range(snap[r]) /\ Other(r) # at[r]
            /\ Score(backend[at[r]].ewma, backend[at[r]].inflight)
                 <= Score(backend[Other(r)].ewma, backend[Other(r)].inflight)

\* A backend that is still out of the pool has not been seen healthy.
Unseen(r) ==
    /\ pc[r] \in {"scan", "ewma", "inflight"} => \A b \in out[r] : b \notin Range(snap[r])
    /\ pc[r] = "picked" => at[r] \notin out[r]

\* And its bit is down.
OutIsOut == \A r \in Requests : \A b \in out[r] : ~backend[b].healthy

\* A request that has its backend is counted there until it ends, and nothing else is.
InflightExact ==
    \A b \in Backends :
        backend[b].inflight = Cardinality({r \in Requests : pc[r] \in Counted /\ at[r] = b})

Progress(r) == Apart(r) /\ Stage(r) /\ Current(r)

Inv ==
    /\ Types
    /\ \A r \in Requests : Progress(r) /\ Unseen(r)
    /\ OutIsOut
    /\ EwmaWithinSamples
    /\ InflightExact

\* A step of r changes nothing of another request, and either leaves the backends alone
\* or ends the quiet of everyone.
Frame(r) ==
    /\ \A s \in Requests :
        s # r => /\ pc'[s] = pc[s] /\ left'[s] = left[s] /\ snap'[s] = snap[s]
                 /\ score'[s] = score[s] /\ at'[s] = at[s] /\ out'[s] = out[s]
    /\ \/ quiet' = {}
       \/ /\ UNCHANGED backend
          /\ \A s \in Requests : s # r => (s \in quiet' <=> s \in quiet)

Exchange(r) == Send(r) \/ Sample(r) \/ Finish(r)
--------------------------------------------------------------------------------
(* The arithmetic of pool.go. *)

\* A score is an integer.
LEMMA ScoreType ==
  ASSUME NEW e \in Nat, NEW n \in Int
  PROVE  Score(e, n) \in Int
BY UnitAssumption DEF Score

\* The second draw of Pick is in the range of the list and is not the first.
LEMMA SecondDiffers ==
  ASSUME NEW n \in Nat, NEW i \in 0..n - 1, NEW j \in 0..n - 2
  PROVE  Second(i, j) \in 0..n - 1 /\ Second(i, j) # i
BY DEF Second

\* A weighted average lies between what it averages, rounded down or not.
LEMMA Between ==
  ASSUME NEW x \in Nat, NEW e \in Nat, NEW l \in Nat, NEW h \in Nat, l <= e, e <= h
  PROVE  /\ (3 * x + 7 * e) \div 10 \in Nat
         /\ l <= (3 * x + 7 * e) \div 10 \/ x <= (3 * x + 7 * e) \div 10
         /\ (3 * x + 7 * e) \div 10 <= h \/ (3 * x + 7 * e) \div 10 <= x
OBVIOUS

\* RecordLatency keeps the average within the latencies it was given.
LEMMA RecordWithin ==
  ASSUME NEW be \in Numbers, NEW ms \in Latencies,
         IF be.hasStats
         THEN \E lo, hi \in Latencies : lo * Unit <= be.ewma /\ be.ewma <= hi * Unit
         ELSE be.ewma = 0
  PROVE  /\ RecordLatency(be, ms) \in Numbers
         /\ RecordLatency(be, ms).hasStats
         /\ RecordLatency(be, ms).inflight = be.inflight
         /\ \E lo, hi \in Latencies : /\ lo * Unit <= RecordLatency(be, ms).ewma
                                      /\ RecordLatency(be, ms).ewma <= hi * Unit
<1>1. ms * Unit \in Nat /\ 3 * ms * Unit = 3 * (ms * Unit)
  BY LatenciesAssumption, UnitAssumption
<1>2. CASE be.hasStats
  <2>1. PICK lo \in Latencies, hi \in Latencies : lo * Unit <= be.ewma /\ be.ewma <= hi * Unit
    BY <1>2
  <2>2. lo * Unit \in Nat /\ hi * Unit \in Nat /\ be.ewma \in Nat
    BY LatenciesAssumption, UnitAssumption DEF Numbers
  <2> DEFINE e == (3 * (ms * Unit) + 7 * be.ewma) \div 10
  <2>3. /\ e \in Nat
        /\ lo * Unit <= e \/ ms * Unit <= e
        /\ e <= hi * Unit \/ e <= ms * Unit
    BY <1>1, <2>1, <2>2, Between
  <2>4. /\ RecordLatency(be, ms).ewma = e /\ RecordLatency(be, ms).hasStats
        /\ RecordLatency(be, ms).inflight = be.inflight
        /\ e \in Nat => RecordLatency(be, ms) \in Numbers
    BY <1>1, <1>2 DEF RecordLatency, Numbers
  <2> HIDE DEF e
  <2> QED  BY <2>1, <2>3, <2>4
<1>3. CASE ~be.hasStats
  <2>1. /\ RecordLatency(be, ms).ewma = ms * Unit /\ RecordLatency(be, ms).hasStats
        /\ RecordLatency(be, ms).inflight = be.inflight
        /\ RecordLatency(be, ms) \in Numbers
    BY <1>1, <1>3 DEF RecordLatency, Numbers
  <2> QED  BY <1>1, <2>1
<1> QED  BY <1>2, <1>3
--------------------------------------------------------------------------------
\* NewPool, and requests that have come and gone.
LEMMA InitInv == Init => Inv
<1> SUFFICES ASSUME Init PROVE Inv
  OBVIOUS
<1>1. ASSUME NEW b \in Backends
      PROVE  /\ backend[b] \in Numbers /\ backend[b].inflight = 0
             /\ IF backend[b].hasStats
                THEN \E lo, hi \in Latencies : /\ lo * Unit <= backend[b].ewma
                                               /\ backend[b].ewma <= hi * Unit
                ELSE backend[b].ewma = 0
  <2>1. /\ NewBackend \in Numbers /\ NewBackend.inflight = 0 /\ ~NewBackend.hasStats
        /\ NewBackend.ewma = 0
    BY DEF NewBackend, Numbers
  <2>2. CASE backend[b] = NewBackend
    BY <2>1, <2>2
  <2>3. ASSUME NEW ms \in Latencies, backend[b] = RecordLatency(NewBackend, ms)
        PROVE  <1>1!2
    BY <2>1, <2>3, RecordWithin
  <2> QED  BY <2>2, <2>3 DEF Init
<1>2. Types
  BY <1>1 DEF Init, Types, Reads, NoScore
<1>3. ASSUME NEW r \in Requests PROVE Progress(r) /\ pc[r] \notin Counted
  <2>1. /\ pc[r] = "idle" /\ left[r] = <<>> /\ snap[r] = <<>> /\ score[r] = NoScore
        /\ r \notin quiet
    BY DEF Init
  <2>2. Apart(r)
    BY <2>1 DEF Apart
  <2>3. Stage(r) /\ Current(r) /\ pc[r] \notin Counted
    BY <2>1 DEF Stage, Current, Counted
  <2> QED  BY <2>2, <2>3 DEF Progress
<1>4. EwmaWithinSamples
  BY <1>1 DEF EwmaWithinSamples
<1>5. InflightExact
  <2> SUFFICES ASSUME NEW b \in Backends
               PROVE  backend[b].inflight =
                        Cardinality({r \in Requests : pc[r] \in Counted /\ at[r] = b})
    BY DEF InflightExact
  <2>1. {r \in Requests : pc[r] \in Counted /\ at[r] = b} = {}
    BY <1>3 DEF Counted
  <2> QED  BY <1>1, <2>1, FS_EmptySet
<1>6. OutIsOut /\ \A r \in Requests : Unseen(r)
  BY DEF Init, OutIsOut, Unseen
<1> QED  BY <1>2, <1>3, <1>4, <1>5, <1>6 DEF Inv

\* What is known of a request survives the steps of the others.
LEMMA OthersProgress ==
  ASSUME NEW r, NEW s \in Requests, s # r, Frame(r), Progress(s)
  PROVE  Progress(s)'
<1>1. /\ pc'[s] = pc[s] /\ left'[s] = left[s] /\ snap'[s] = snap[s]
      /\ score'[s] = score[s] /\ at'[s] = at[s]
  BY DEF Frame
<1>2. Apart(s)'
  BY <1>1 DEF Progress, Apart
<1>3. CASE quiet' = {}
  <2>1. Stage(s)'
    BY <1>1, <1>3 DEF Progress, Stage
  <2>2. Current(s)'
    BY <1>3 DEF Current
  <2> QED  BY <1>2, <2>1, <2>2 DEF Progress
<1>4. CASE UNCHANGED backend /\ (s \in quiet' <=> s \in quiet)
  <2>1. Stage(s)'
    BY <1>1, <1>4 DEF Progress, Stage
  <2>2. Current(s)'
    BY <1>1, <1>4 DEF Progress, Current, Other
  <2> QED  BY <1>2, <2>1, <2>2 DEF Progress
<1> QED  BY <1>3, <1>4 DEF Frame

\* What a request has not seen, it has not seen after the steps of the others either.
LEMMA OthersUnseen ==
  ASSUME NEW r, NEW s \in Requests, s # r, Frame(r), Unseen(s)
  PROVE  Unseen(s)'
<1>1. pc'[s] = pc[s] /\ snap'[s] = snap[s] /\ at'[s] = at[s] /\ out'[s] = out[s]
  BY DEF Frame
<1> QED  BY <1>1 DEF Unseen
--------------------------------------------------------------------------------
(* The steps of Pick. They leave the backends alone. *)

\* Steps of Pick: the list of backends is taken ...
LEMMA StartPickInv ==
  ASSUME Inv, NEW r \in Requests, StartPick(r)
  PROVE  Types' /\ Frame(r) /\ Progress(r)'
<1>1. Types' /\ Frame(r)
  BY OrderAssumption DEF StartPick, Goto, Inv, Types, Frame
<1>2. /\ pc[r] = "idle" /\ pc'[r] = "scan" /\ left'[r] = Order
      /\ UNCHANGED <<backend, snap, score, at, quiet>> /\ Progress(r)
  BY DEF StartPick, Goto, Inv, Types
<1>3. snap[r] = <<>> /\ score[r] = NoScore /\ r \notin quiet
  BY <1>2 DEF Progress, Stage
<1>4. Apart(r)'
  BY <1>2, <1>3, OrderAssumption DEF Apart
<1>5. Stage(r)' /\ Current(r)'
  BY <1>2, <1>3 DEF Stage, Current, Counted
<1> QED  BY <1>1, <1>4, <1>5 DEF Progress

\* ... a backend is looked at and, if it is healthy, listed ...
LEMMA LookInv ==
  ASSUME Inv, NEW r \in Requests, Look(r)
  PROVE  Types' /\ Frame(r) /\ Progress(r)'
<1>0. /\ left[r] \in Seq(Backends) /\ left[r] # <<>> /\ snap[r] \in Seq(Backends)
      /\ Progress(r) /\ pc[r] = "scan" /\ UNCHANGED <<backend, pc, score, at, quiet>>
      /\ left'[r] = Tail(left[r])
  BY DEF Look, Inv, Types, history
<1>1. /\ Head(left[r]) = left[r][1] /\ Head(left[r]) \in Backends
      /\ Tail(left[r]) \in Seq(Backends) /\ Len(Tail(left[r])) = Len(left[r]) - 1
      /\ \A i \in 1..Len(Tail(left[r])) : Tail(left[r])[i] = left[r][i + 1]
      /\ Len(left[r]) \in Nat /\ Len(left[r]) >= 1
  BY <1>0
<1>2. \/ snap' = [snap EXCEPT ![r] = snap[r]]
      \/ snap' = [snap EXCEPT ![r] = Append(snap[r], left[r][1])]
  BY <1>1 DEF Look
<1>3. snap' \in [Requests -> Seq(Backends)] /\ \A s \in Requests : s # r => snap'[s] = snap[s]
  <2>1. left[r][1] \in Backends /\ Append(snap[r], left[r][1]) \in Seq(Backends)
    BY <1>0, <1>1
  <2> QED  BY <1>0, <1>2, <2>1 DEF Inv, Types
<1>4. Types' /\ Frame(r)
  BY <1>1, <1>3 DEF Look, Inv, Types, Frame, history
<1>5. Apart(r)'
  <2>1. \A i, j \in 1..Len(left'[r]) : left'[r][i] = left'[r][j] => i = j
    BY <1>0, <1>1 DEF Progress, Apart
  <2>2. ASSUME NEW i \in 1..Len(left'[r]), NEW j \in 1..Len(snap[r])
        PROVE  left'[r][i] # snap[r][j]
    <3>1. i + 1 \in 1..Len(left[r]) /\ left'[r][i] = left[r][i + 1]
      BY <1>0, <1>1
    <3> QED  BY <1>0, <3>1 DEF Progress, Apart
  <2>3. \A i \in 1..Len(left'[r]) : left'[r][i] # left[r][1]
    BY <1>0, <1>1 DEF Progress, Apart
  <2>4. CASE snap'[r] = snap[r]
    BY <1>0, <2>1, <2>2, <2>4 DEF Progress, Apart
  <2>5. CASE snap'[r] = Append(snap[r], left[r][1])
    <3>1. /\ Len(snap'[r]) = Len(snap[r]) + 1 /\ Len(snap[r]) \in Nat
          /\ snap'[r][Len(snap[r]) + 1] = left[r][1]
          /\ \A i \in 1..Len(snap[r]) : snap'[r][i] = snap[r][i]
      BY <1>0, <1>1, <2>5
    <3>2. \A j \in 1..Len(snap[r]) : left[r][1] # snap[r][j]
      BY <1>0, <1>1 DEF Progress, Apart
    <3>3. ASSUME NEW i \in 1..Len(snap'[r]), NEW j \in 1..Len(snap'[r]), snap'[r][i] = snap'[r][j]
          PROVE  i = j
      <4>1. i \in 1..Len(snap[r]) \/ i = Len(snap[r]) + 1
        BY <3>1
      <4>2. j \in 1..Len(snap[r]) \/ j = Len(snap[r]) + 1
        BY <3>1
      <4> QED  BY <1>0, <3>1, <3>2, <3>3, <4>1, <4>2 DEF Progress, Apart
    <3>4. \A i \in 1..Len(left'[r]), j \in 1..Len(snap'[r]) : left'[r][i] # snap'[r][j]
      BY <2>2, <2>3, <3>1
    <3> QED  BY <2>1, <3>3, <3>4 DEF Apart
  <2> QED  BY <1>2, <2>4, <2>5 DEF Inv, Types
<1>6. Stage(r)' /\ Current(r)'
  BY <1>0 DEF Progress, Stage, Current, Counted
<1> QED  BY <1>4, <1>5, <1>6 DEF Progress

\* ... none or one is listed, and Pick returns ...
LEMMA PickFewInv ==
  ASSUME Inv, NEW r \in Requests, PickNone(r) \/ PickOnly(r)
  PROVE  Types' /\ Frame(r) /\ Progress(r)'
<1>0. /\ UNCHANGED <<backend, left, snap, score, quiet>> /\ pc[r] = "scan" /\ Progress(r)
      /\ UNCHANGED <<wiping, out, outlived, stale>>
  BY DEF PickNone, PickOnly, Inv, picking, history
<1>1. r \notin quiet
  BY <1>0 DEF Progress, Stage
<1>2. CASE PickNone(r)
  <2>1. Types' /\ Frame(r)
    BY <1>0, <1>2 DEF PickNone, Goto, Inv, Types, Frame, picking
  <2>2. pc'[r] = "unserved"
    BY <1>2 DEF PickNone, Goto, Inv, Types
  <2>3. Apart(r)' /\ Stage(r)' /\ Current(r)'
    BY <1>0, <1>1, <2>2 DEF Progress, Apart, Stage, Current, Counted
  <2> QED  BY <2>1, <2>3 DEF Progress
<1>3. CASE PickOnly(r)
  <2>1. snap[r][1] \in Backends
    <3>1. snap[r] \in Seq(Backends) /\ Len(snap[r]) = 1
      BY <1>3 DEF PickOnly, Inv, Types
    <3> QED  BY <3>1
  <2>2. Types' /\ Frame(r)
    BY <1>0, <1>3, <2>1 DEF PickOnly, Goto, Inv, Types, Frame
  <2>3. pc'[r] = "picked" /\ at'[r] \in Backends
    BY <1>3, <2>1 DEF PickOnly, Goto, Inv, Types
  <2>4. Apart(r)' /\ Stage(r)' /\ Current(r)'
    BY <1>0, <1>1, <2>3 DEF Progress, Apart, Stage, Current, Counted
  <2> QED  BY <2>2, <2>4 DEF Progress
<1> QED  BY <1>2, <1>3

\* ... or two of the list are drawn ...
LEMMA PickTwoInv ==
  ASSUME Inv, NEW r \in Requests, PickTwo(r)
  PROVE  Types' /\ Frame(r) /\ Progress(r)'
<1>0. /\ UNCHANGED <<backend, wiping, left, snap, at, out, outlived, stale>>
      /\ pc[r] = "scan" /\ Progress(r) /\ quiet' = quiet \cup {r}
      /\ pc' = [pc EXCEPT ![r] = "ewma"] /\ pc'[r] = "ewma"
      /\ score[r] = NoScore /\ snap[r] \in Seq(Backends)
  BY DEF PickTwo, Goto, Inv, Types, Progress, Stage
<1>1. PICK i \in 0..Len(snap[r]) - 1, j \in 0..Len(snap[r]) - 2 :
        score' = [score EXCEPT ![r].a = snap[r][i + 1], ![r].b = snap[r][Second(i, j) + 1]]
  BY DEF PickTwo
<1> DEFINE x == i + 1
           y == Second(i, j) + 1
<1>2. x \in 1..Len(snap[r]) /\ y \in 1..Len(snap[r]) /\ x # y
  <2>0. snap[r] \in Seq(Backends)
    BY <1>0
  <2>1. Len(snap[r]) \in Nat
    BY <2>0
  <2>2. Second(i, j) \in 0..Len(snap[r]) - 1 /\ Second(i, j) # i
    BY <2>1, SecondDiffers
  <2> QED  BY <2>1, <2>2
<1>3. /\ snap[r][x] \in Backends /\ snap[r][y] \in Backends /\ snap[r][x] # snap[r][y]
      /\ snap[r][x] \in Range(snap[r]) /\ snap[r][y] \in Range(snap[r])
  <2> HIDE DEF x, y
  <2>1. snap[r][x] # snap[r][y]
    BY <1>0, <1>2 DEF Progress, Apart
  <2>2. x \in DOMAIN snap[r] /\ y \in DOMAIN snap[r]
    BY <1>0, <1>2
  <2> QED  BY <1>0, <1>2, <2>1, <2>2 DEF Range
<1>4. /\ score' \in [Requests -> Reads]
      /\ \A s \in Requests : s # r => score'[s] = score[s]
      /\ score'[r].a = snap[r][x] /\ score'[r].b = snap[r][y] /\ score'[r].scoreA = None
  <2> HIDE DEF y
  <2>1. score' = [score EXCEPT ![r].a = snap[r][x], ![r].b = snap[r][y]]
    BY <1>1 DEF y
  <2> HIDE DEF x
  <2>2. /\ score'[r] = [score[r] EXCEPT !.a = snap[r][x], !.b = snap[r][y]]
        /\ \A s \in Requests : s # r => score'[s] = score[s]
        /\ DOMAIN score' = Requests
        /\ score' = [s \in Requests |-> score'[s]]
    BY <2>1 DEF Inv, Types
  <2>3. /\ score'[r] \in Reads
        /\ score'[r].a = snap[r][x] /\ score'[r].b = snap[r][y] /\ score'[r].scoreA = None
    <3>1. score[r] \in Reads /\ score[r].scoreA = None
      BY <1>0 DEF Inv, Types, NoScore
    <3> QED  BY <1>3, <2>2, <3>1 DEF Reads
  <2>4. \A s \in Requests : score'[s] \in Reads
    BY <2>2, <2>3 DEF Inv, Types
  <2> QED  BY <2>2, <2>3, <2>4
<1>5. Types' /\ Frame(r)
  BY <1>0, <1>4 DEF Inv, Types, Frame
<1>6. Apart(r)'
  BY <1>0 DEF Progress, Apart
<1>7. Stage(r)' /\ Current(r)'
  <2> HIDE DEF x, y
  <2> QED  BY <1>0, <1>3, <1>4 DEF Stage, Current, Counted
<1> QED  BY <1>5, <1>6, <1>7 DEF Progress

\* ... their averages and the first in-flight counter are read ...
LEMMA ReadsInv ==
  ASSUME Inv, NEW r \in Requests, ReadEwma(r) \/ ReadInflightA(r)
  PROVE  Types' /\ Frame(r) /\ Progress(r)'
<1> DEFINE p == score[r]
<1>0. /\ UNCHANGED <<backend, wiping, left, snap, at, out, quiet, outlived, stale>>
      /\ pc[r] \in {"ewma", "inflight"} /\ Apart(r) /\ Stage(r) /\ Current(r)
      /\ p \in Reads
  BY DEF ReadEwma, ReadInflightA, Inv, Types, Progress, history
<1>1. /\ p.a # p.b /\ p.a \in Backends /\ p.b \in Backends
      /\ p.a \in Range(snap[r]) /\ p.b \in Range(snap[r])
      /\ backend[p.a] \in Numbers /\ backend[p.b] \in Numbers
  BY <1>0 DEF Stage, Inv, Types
<1>2. Apart(r)'
  BY <1>0 DEF Apart
<1>3. CASE ReadEwma(r)
  <2>1. PICK b \in Backends :
          /\ b = IF p.scoreA = None THEN p.a ELSE p.b
          /\ score' = [score EXCEPT ![r].ewma = backend[b].ewma]
          /\ backend[b] \in Numbers
    BY <1>1, <1>3 DEF ReadEwma
  <2>2. backend[b].ewma \in Nat
    BY <2>1 DEF Numbers
  <2>3. Types' /\ Frame(r)
    <3>1. [p EXCEPT !.ewma = backend[b].ewma] \in Reads
      BY <1>0, <2>2 DEF Reads
    <3>2. score' = [score EXCEPT ![r] = [p EXCEPT !.ewma = backend[b].ewma]]
      BY <2>1
    <3> HIDE DEF p
    <3>3. /\ score' \in [Requests -> Reads]
          /\ \A s \in Requests : s # r => score'[s] = score[s]
      BY <3>1, <3>2 DEF Inv, Types
    <3> QED  BY <1>0, <1>3, <3>3 DEF ReadEwma, Goto, Inv, Types, Frame
  <2>4. /\ pc[r] = "ewma" /\ pc'[r] = "inflight" /\ score'[r].a = p.a /\ score'[r].b = p.b
        /\ score'[r].scoreA = p.scoreA /\ score'[r].ewma = backend[b].ewma
    BY <1>3, <2>1 DEF ReadEwma, Goto, Inv, Types, Reads
  <2>5. Stage(r)'
    <3>1. score'[r].ewma # None
      BY <2>2, <2>4, NoneAssumption
    <3> QED  BY <1>0, <1>1, <2>4, <3>1 DEF Stage, Counted
  <2>6. Current(r)'
    BY <1>0, <2>1, <2>4 DEF Current
  <2> QED  BY <1>2, <2>3, <2>5, <2>6 DEF Progress
<1>4. CASE ReadInflightA(r)
  <2>1. /\ pc[r] = "inflight" /\ p.scoreA = None /\ p.ewma \in Nat
        /\ score' = [score EXCEPT ![r].scoreA = Score(p.ewma, backend[p.a].inflight)]
    BY <1>0, <1>4 DEF ReadInflightA, Stage, Reads
  <2>2. Score(p.ewma, backend[p.a].inflight) \in Int
    BY <1>1, <2>1, ScoreType DEF Numbers
  <2>3. Types' /\ Frame(r)
    <3> DEFINE n == Score(p.ewma, backend[p.a].inflight)
    <3>1. [p EXCEPT !.scoreA = n] \in Reads
      BY <1>0, <2>2 DEF Reads
    <3>2. score' = [score EXCEPT ![r] = [p EXCEPT !.scoreA = n]]
      BY <2>1
    <3> HIDE DEF p, n
    <3>3. /\ score' \in [Requests -> Reads]
          /\ \A s \in Requests : s # r => score'[s] = score[s]
      BY <3>1, <3>2 DEF Inv, Types
    <3> QED  BY <1>0, <1>4, <3>3 DEF ReadInflightA, Goto, Inv, Types, Frame
  <2>4. /\ pc'[r] = "ewma" /\ score'[r].a = p.a /\ score'[r].b = p.b
        /\ score'[r].scoreA = Score(p.ewma, backend[p.a].inflight)
    BY <1>4, <2>1 DEF ReadInflightA, Goto, Inv, Types, Reads
  <2>5. Stage(r)'
    BY <1>0, <1>1, <2>4 DEF Stage, Counted
  <2>6. Current(r)'
    BY <1>0, <2>1, <2>4 DEF Current
  <2> QED  BY <1>2, <2>3, <2>5, <2>6 DEF Progress
<1> QED  BY <1>3, <1>4

\* ... and the second one, after which the lower score is returned.
LEMMA ReadInflightBInv ==
  ASSUME Inv, NEW r \in Requests, ReadInflightB(r)
  PROVE  Types' /\ Frame(r) /\ Progress(r)'
<1> DEFINE p == score[r]
           S(b) == Score(backend[b].ewma, backend[b].inflight)
           scoreB == Score(p.ewma, backend[p.b].inflight)
<1>0. /\ UNCHANGED <<backend, wiping, left, snap, score, out, quiet, outlived, stale>>
      /\ pc[r] = "inflight" /\ p.scoreA # None /\ Apart(r) /\ Stage(r) /\ Current(r)
      /\ p \in Reads
  BY DEF ReadInflightB, Inv, Types, Progress, history
<1>1. /\ p.a # p.b /\ p.a \in Backends /\ p.b \in Backends
      /\ p.a \in Range(snap[r]) /\ p.b \in Range(snap[r])
      /\ p.scoreA \in Int /\ p.ewma \in Nat
  BY <1>0 DEF Stage, Reads
<1>2. /\ pc' = [pc EXCEPT ![r] = "picked"]
      /\ at' = [at EXCEPT ![r] = IF p.scoreA <= scoreB THEN p.a ELSE p.b]
  BY DEF ReadInflightB, LowerIsA, Goto
<1>3. pc'[r] = "picked" /\ at'[r] = IF p.scoreA <= scoreB THEN p.a ELSE p.b
  BY <1>2 DEF Inv, Types
<1>4. Types' /\ Frame(r)
  <2>1. (IF p.scoreA <= scoreB THEN p.a ELSE p.b) \in Backends
    BY <1>1
  <2> HIDE DEF scoreB, p
  <2>2. /\ at' \in [Requests -> Backends \cup {None}]
        /\ \A s \in Requests : s # r => at'[s] = at[s]
    BY <1>2, <2>1 DEF Inv, Types
  <2> QED  BY <1>0, <1>2, <2>2 DEF Inv, Types, Frame
<1>5. Apart(r)'
  BY <1>0 DEF Apart
<1>6. Stage(r)'
  BY <1>0, <1>1, <1>3 DEF Stage, Counted
<1>7. Current(r)'
  <2> DEFINE o == IF at'[r] = p.a THEN p.b ELSE p.a
  <2> SUFFICES ASSUME r \in quiet
               PROVE  o \in Backends /\ o \in Range(snap[r]) /\ o # at'[r] /\ S(at'[r]) <= S(o)
    BY <1>0, <1>3 DEF Current, Other
  <2>1. p.scoreA = S(p.a) /\ scoreB = S(p.b)
    BY <1>0 DEF Current
  <2>2. backend[p.b] \in Numbers
    BY <1>1 DEF Inv, Types
  <2>3. scoreB \in Int
    BY <1>1, <2>2, ScoreType DEF Numbers
  <2> HIDE DEF S, scoreB
  <2>4. CASE p.scoreA <= scoreB
    BY <1>1, <1>3, <2>1, <2>4
  <2>5. CASE ~(p.scoreA <= scoreB)
    <3>1. scoreB <= p.scoreA
      BY <1>1, <2>3, <2>5
    <3> QED  BY <1>1, <1>3, <2>1, <2>5, <3>1
  <2> QED  BY <2>4, <2>5
<1> QED  BY <1>4, <1>5, <1>6, <1>7 DEF Progress

\* The scan lists a backend only if its bit is up, and the rest of Pick only chooses.
LEMMA PickUnseen ==
  ASSUME Inv, NEW r \in Requests, Pick(r)
  PROVE  Unseen(r)' /\ OutIsOut'
<1>0. /\ Unseen(r) /\ Progress(r) /\ snap[r] \in Seq(Backends) /\ left[r] \in Seq(Backends)
      /\ UNCHANGED backend
  BY DEF Inv, Types, Pick, StartPick, Look, PickNone, PickOnly, PickTwo, ReadEwma,
         ReadInflightA, ReadInflightB
<1>1. CASE StartPick(r)
  <2>1. /\ pc'[r] = "scan" /\ snap' = snap /\ snap[r] = <<>>
        /\ out' = [out EXCEPT ![r] = {b \in Backends : ~backend[b].healthy}]
    BY <1>0, <1>1 DEF StartPick, Goto, Inv, Types, Progress, Stage
  <2>2. Unseen(r)'
    BY <2>1 DEF Unseen, Range
  <2>3. OutIsOut'
    BY <1>0, <2>1 DEF OutIsOut, Inv, Types
  <2> QED  BY <2>2, <2>3
<1>2. CASE Look(r)
  <2>1. pc[r] = "scan" /\ UNCHANGED <<pc, at, out>> /\ left[r] # <<>>
    BY <1>2 DEF Look, history
  <2> DEFINE h == Head(left[r])
  <2>2. h \in Backends
    BY <1>0, <2>1
  <2>3. snap'[r] = snap[r] \/ (backend[h].healthy /\ snap'[r] = Append(snap[r], h))
    BY <1>2 DEF Look, Inv, Types
  <2>4. h \in out[r] => ~backend[h].healthy
    BY DEF Inv, OutIsOut
  <2> HIDE DEF h
  <2>5. Range(Append(snap[r], h)) \subseteq Range(snap[r]) \cup {h}
    BY <1>0, <2>2 DEF Range
  <2>6. \A b \in out[r] : b \notin Range(snap'[r])
    <3>1. \A b \in out[r] : b \notin Range(snap[r])
      BY <1>0, <2>1 DEF Unseen
    <3>2. CASE snap'[r] = snap[r]
      BY <3>1, <3>2, Zenon
    <3>3. CASE backend[h].healthy /\ snap'[r] = Append(snap[r], h)
      <4>1. h \notin out[r]
        BY <2>4, <3>3
      <4>2. Range(snap'[r]) \subseteq Range(snap[r]) \cup {h}
        BY <2>5, <3>3, Zenon
      <4> QED  BY <3>1, <4>1, <4>2
    <3> QED  BY <2>3, <3>2, <3>3
  <2> QED  BY <1>0, <2>1, <2>6 DEF Unseen, Inv, OutIsOut
<1>3. CASE PickNone(r)
  BY <1>0, <1>3 DEF PickNone, Goto, picking, history, Unseen, Inv, Types, OutIsOut
<1>4. CASE PickOnly(r)
  <2>1. /\ pc[r] = "scan" /\ pc'[r] = "picked" /\ at'[r] = snap[r][1] /\ out' = out
        /\ Len(snap[r]) = 1
    BY <1>4 DEF PickOnly, Goto, history, Inv, Types
  <2>2. snap[r][1] \in Range(snap[r])
    BY <1>0, <2>1 DEF Range
  <2> QED  BY <1>0, <2>1, <2>2 DEF Unseen, Inv, OutIsOut
<1>5. CASE PickTwo(r)
  BY <1>0, <1>5 DEF PickTwo, Goto, Unseen, Inv, Types, OutIsOut
<1>6. CASE ReadEwma(r) \/ ReadInflightA(r)
  BY <1>0, <1>6 DEF ReadEwma, ReadInflightA, Goto, history, Unseen, Inv, Types, OutIsOut
<1>7. CASE ReadInflightB(r)
  <2>1. /\ pc[r] = "inflight" /\ pc'[r] = "picked" /\ out' = out
        /\ at'[r] \in {score[r].a, score[r].b}
    BY <1>7 DEF ReadInflightB, Goto, history, Inv, Types
  <2>2. score[r].a \in Range(snap[r]) /\ score[r].b \in Range(snap[r])
    BY <1>0, <2>1 DEF Progress, Stage
  <2> QED  BY <1>0, <2>1, <2>2 DEF Unseen, Inv, OutIsOut
<1> QED  BY <1>1, <1>2, <1>3, <1>4, <1>5, <1>6, <1>7 DEF Pick

\* A step of Pick leaves the counters and the statistics alone.
LEMMA PickInv ==
  ASSUME Inv, NEW r \in Requests, Pick(r)
  PROVE  Inv'
<1>1. Types' /\ Frame(r) /\ Progress(r)'
  BY StartPickInv, LookInv, PickFewInv, PickTwoInv, ReadsInv, ReadInflightBInv DEF Pick
<1>2. \A s \in Requests : Progress(s)'
  BY <1>1, OthersProgress DEF Inv
<1>3. UNCHANGED backend
  BY DEF Pick, StartPick, Look, PickNone, PickOnly, PickTwo, ReadEwma, ReadInflightA,
         ReadInflightB
<1>4. EwmaWithinSamples'
  BY <1>3 DEF Inv, EwmaWithinSamples
<1>5. pc[r] \notin Counted /\ pc'[r] \notin Counted
  BY DEF Pick, StartPick, Look, PickNone, PickOnly, PickTwo, ReadEwma, ReadInflightA,
         ReadInflightB, Goto, Inv, Types, Counted
<1>6. ASSUME NEW b \in Backends
      PROVE  {s \in Requests : pc'[s] \in Counted /\ at'[s] = b}
               = {s \in Requests : pc[s] \in Counted /\ at[s] = b}
  BY <1>1, <1>5 DEF Frame
<1>7. InflightExact'
  BY <1>3, <1>6 DEF Inv, InflightExact, Counted
<1>8. OutIsOut' /\ \A s \in Requests : Unseen(s)'
  BY <1>1, PickUnseen, OthersUnseen DEF Inv
<1> QED  BY <1>1, <1>2, <1>4, <1>7, <1>8 DEF Inv
--------------------------------------------------------------------------------
(* The steps that change a backend end everybody's quiet. *)

\* What is left to show of a step that changes one backend b to be.
LEMMA Changed ==
  ASSUME Inv, NEW b \in Backends, NEW be \in Numbers, backend' = [backend EXCEPT ![b] = be],
         IF be.hasStats
         THEN \E lo, hi \in Latencies : lo * Unit <= be.ewma /\ be.ewma <= hi * Unit
         ELSE be.ewma = 0
  PROVE  backend' \in [Backends -> Numbers] /\ EwmaWithinSamples'
<1>1. \A c \in Backends : backend'[c] = IF c = b THEN be ELSE backend[c]
  BY DEF Inv, Types
<1> QED  BY <1>1 DEF Inv, Types, EwmaWithinSamples

\* An acquire, a release, and what leaves the counter alone.
LEMMA Counting ==
  ASSUME Inv, NEW r \in Requests, NEW b \in Backends, NEW be \in Numbers, Frame(r),
         backend' = [backend EXCEPT ![b] = be],
         \/ /\ pc[r] \notin Counted /\ pc'[r] \in Counted /\ at'[r] = b
            /\ be.inflight = backend[b].inflight + 1
         \/ /\ pc[r] \in Counted /\ at[r] = b /\ pc'[r] \notin Counted
            /\ be.inflight = backend[b].inflight - 1
         \/ /\ pc[r] \in Counted /\ pc'[r] \in Counted /\ at'[r] = at[r]
            /\ be.inflight = backend[b].inflight
  PROVE  InflightExact'
<1> DEFINE Holders(c) == {s \in Requests : pc[s] \in Counted /\ at[s] = c}
           After(c) == {s \in Requests : pc'[s] \in Counted /\ at'[s] = c}
<1> SUFFICES ASSUME NEW c \in Backends
             PROVE  backend'[c].inflight = Cardinality(After(c))
  BY DEF InflightExact, Counted
<1>1. /\ backend[c].inflight = Cardinality(Holders(c)) /\ backend[c].inflight \in Int
      /\ backend'[c] = IF c = b THEN be ELSE backend[c]
  BY DEF Inv, InflightExact, Counted, Types, Numbers
<1>2. \A s \in Requests : s # r => pc'[s] = pc[s] /\ at'[s] = at[s]
  BY DEF Frame
<1>3. IsFiniteSet(Holders(c))
  <2>1. Holders(c) \subseteq Requests
    OBVIOUS
  <2> QED  BY <2>1, RequestsAssumption, FS_Subset
<1>4. CASE /\ pc[r] \notin Counted /\ pc'[r] \in Counted /\ at'[r] = b
           /\ be.inflight = backend[b].inflight + 1
  <2>1. r \notin Holders(c) /\ After(c) = IF c = b THEN Holders(c) \cup {r} ELSE Holders(c)
    BY <1>2, <1>4
  <2>2. Cardinality(Holders(c) \cup {r}) = Cardinality(Holders(c)) + 1
    BY <1>3, <2>1, FS_AddElement
  <2> HIDE DEF Holders, After
  <2> QED  BY <1>1, <1>4, <2>1, <2>2
<1>5. CASE /\ pc[r] \in Counted /\ at[r] = b /\ pc'[r] \notin Counted
           /\ be.inflight = backend[b].inflight - 1
  <2>1. /\ c = b => r \in Holders(c)
        /\ After(c) = IF c = b THEN Holders(c) \ {r} ELSE Holders(c)
    BY <1>2, <1>5
  <2>2. c = b => Cardinality(Holders(c) \ {r}) = Cardinality(Holders(c)) - 1
    BY <1>3, <2>1, FS_RemoveElement
  <2> HIDE DEF Holders, After
  <2> QED  BY <1>1, <1>5, <2>1, <2>2
<1>6. CASE /\ pc[r] \in Counted /\ pc'[r] \in Counted /\ at'[r] = at[r]
           /\ be.inflight = backend[b].inflight
  <2>1. After(c) = Holders(c)
    BY <1>2, <1>6
  <2> HIDE DEF Holders, After
  <2> QED  BY <1>1, <1>6, <2>1
<1> QED  BY <1>4, <1>5, <1>6

\* A request on the wire flips no bit, and has done with Pick.
LEMMA ExchangeUnseen ==
  ASSUME Inv, NEW r \in Requests, Exchange(r), Frame(r)
  PROVE  OutIsOut' /\ \A s \in Requests : Unseen(s)'
<1>0. pc[r] \in {"picked"} \cup Counted /\ at[r] \in Backends
  BY DEF Exchange, Send, Sample, Finish, Counted, Inv, Progress, Stage
<1>1. Unseen(r)'
  <2>1. pc'[r] \in {"wire", "sampled", "served"}
    BY DEF Exchange, Send, Sample, Finish, Goto, Inv, Types
  <2> QED  BY <2>1 DEF Unseen
<1>2. \A b \in Backends : backend'[b].healthy = backend[b].healthy
  <2>0. PICK be \in Numbers : be = backend[at[r]]
    BY <1>0 DEF Inv, Types
  <2>1. PICK new : backend' = [backend EXCEPT ![at[r]] = new] /\ new.healthy = be.healthy
    <3>1. CASE Send(r)
      <4>1. Acquire(be).healthy = be.healthy
        BY DEF Acquire, Numbers
      <4> QED  BY <2>0, <3>1, <4>1 DEF Send
    <3>2. CASE Sample(r)
      <4>1. \A ms \in Latencies : RecordLatency(be, ms).healthy = be.healthy
        BY DEF RecordLatency, Numbers
      <4> QED  BY <2>0, <3>2, <4>1 DEF Sample
    <3>3. CASE Finish(r)
      <4>1. Release(be).healthy = be.healthy
        BY DEF Release, Numbers
      <4> QED  BY <2>0, <3>3, <4>1 DEF Finish
    <3> QED  BY <3>1, <3>2, <3>3 DEF Exchange
  <2> QED  BY <1>0, <2>0, <2>1 DEF Inv, Types
<1>3. \A s \in Requests : out'[s] \subseteq out[s] /\ out'[s] \subseteq Backends
  <2>1. out' = out \/ out' = [out EXCEPT ![r] = {}]
    BY DEF Exchange, Send, Sample, Finish
  <2> QED  BY <2>1 DEF Inv, Types
<1>4. OutIsOut'
  BY <1>2, <1>3 DEF Inv, OutIsOut
<1>5. \A s \in Requests : Unseen(s)'
  BY <1>1, OthersUnseen DEF Inv
<1> QED  BY <1>4, <1>5

\* A request that forwards keeps the invariant.
LEMMA ExchangeInv ==
  ASSUME Inv, NEW r \in Requests, Exchange(r)
  PROVE  Inv'
<1> DEFINE b == at[r]
<1>0. /\ pc[r] \in {"picked"} \cup Counted /\ Progress(r) /\ b \in Backends
      /\ backend[b] \in Numbers /\ quiet' = {} /\ UNCHANGED wiping
  BY DEF Exchange, Send, Sample, Finish, Inv, Types, Counted, Progress, Stage
<1>1. IF backend[b].hasStats
      THEN \E lo, hi \in Latencies : lo * Unit <= backend[b].ewma /\ backend[b].ewma <= hi * Unit
      ELSE backend[b].ewma = 0
  BY <1>0 DEF Inv, EwmaWithinSamples
<1>2. /\ stale' \subseteq Backends /\ outlived' \subseteq Requests
      /\ out' \in [Requests -> SUBSET Backends]
      /\ \A s \in Requests : s # r => out'[s] = out[s]
  BY <1>0 DEF Exchange, Send, Sample, Finish, Inv, Types
<1>3. /\ pc' \in [Requests -> {"idle", "scan", "ewma", "inflight", "picked", "wire", "sampled",
                               "unserved", "served"}]
      /\ \A s \in Requests : s # r => pc'[s] = pc[s]
      /\ Send(r) => pc[r] = "picked" /\ pc'[r] \in Counted
      /\ Sample(r) => pc[r] = "wire" /\ pc'[r] = "sampled"
      /\ Finish(r) => pc[r] = "sampled" /\ pc'[r] = "served"
  BY DEF Exchange, Send, Sample, Finish, Goto, Inv, Types, Counted
<1>4. CASE Send(r)
  <2>1. /\ Acquire(backend[b]) \in Numbers
        /\ Acquire(backend[b]).inflight = backend[b].inflight + 1
        /\ Acquire(backend[b]).ewma = backend[b].ewma
        /\ Acquire(backend[b]).hasStats = backend[b].hasStats
    BY <1>0 DEF Acquire, Numbers
  <2>2. backend' = [backend EXCEPT ![b] = Acquire(backend[b])] /\ at' = at
    BY <1>4 DEF Send
  <2>3. Types' /\ Frame(r) /\ EwmaWithinSamples'
    <3>1. backend' \in [Backends -> Numbers] /\ EwmaWithinSamples'
      BY <1>0, <1>1, <2>1, <2>2, Changed
    <3>2. NoScore \in Reads
      BY DEF NoScore, Reads
    <3>3. Frame(r)
      BY <1>0, <1>2, <1>3, <1>4 DEF Send, Inv, Types, Frame
    <3>4. /\ left' \in [Requests -> Seq(Backends)] /\ snap' \in [Requests -> Seq(Backends)]
          /\ score' \in [Requests -> Reads]
      BY <1>4, <3>2 DEF Send, Inv, Types
    <3> QED  BY <1>0, <1>2, <1>3, <2>2, <3>1, <3>3, <3>4 DEF Inv, Types
  <2>4. Progress(r)'
    <3>1. /\ pc'[r] \in Counted /\ left'[r] = <<>> /\ snap'[r] = <<>> /\ at'[r] \in Backends
      BY <1>0, <1>3, <1>4, <2>2 DEF Send, Inv, Types
    <3>2. Apart(r)'
      <4>1. 1..Len(<<>>) = {}
        OBVIOUS
      <4>2. 1..Len(left'[r]) = {} /\ 1..Len(snap'[r]) = {}
        BY <3>1, <4>1, Zenon
      <4> QED  BY <4>2, Zenon DEF Apart
    <3> QED  BY <1>0, <3>1, <3>2 DEF Progress, Stage, Current, Counted
  <2>5. InflightExact'
    BY <1>0, <1>3, <1>4, <2>1, <2>2, <2>3, Counting DEF Counted
  <2> QED  BY <2>3, <2>4, <2>5, OthersProgress, ExchangeUnseen DEF Inv
<1>5. CASE Sample(r)
  <2>1. PICK ms \in Latencies : backend' = [backend EXCEPT ![b] = RecordLatency(backend[b], ms)]
    BY <1>5 DEF Sample
  <2>2. /\ RecordLatency(backend[b], ms) \in Numbers
        /\ RecordLatency(backend[b], ms).hasStats
        /\ RecordLatency(backend[b], ms).inflight = backend[b].inflight
        /\ \E lo, hi \in Latencies : /\ lo * Unit <= RecordLatency(backend[b], ms).ewma
                                     /\ RecordLatency(backend[b], ms).ewma <= hi * Unit
    BY <1>0, <1>1, RecordWithin
  <2>3. UNCHANGED <<left, snap, score, at>>
    BY <1>5 DEF Sample, picking
  <2>4. backend' \in [Backends -> Numbers] /\ EwmaWithinSamples'
    BY <1>0, <2>1, <2>2, Changed
  <2>5. Types' /\ Frame(r)
    BY <1>0, <1>2, <1>3, <2>3, <2>4 DEF Inv, Types, Frame
  <2>6. Apart(r)' /\ Stage(r)' /\ Current(r)'
    <3>1. Apart(r)'
      BY <1>0, <2>3 DEF Progress, Apart
    <3>2. Stage(r)'
      BY <1>0, <1>3, <1>5, <2>3 DEF Stage, Counted
    <3>3. Current(r)'
      BY <1>0 DEF Current
    <3> QED  BY <3>1, <3>2, <3>3
  <2>7. InflightExact'
    BY <1>0, <1>3, <1>5, <2>1, <2>2, <2>3, <2>5, Counting DEF Counted
  <2> QED  BY <2>4, <2>5, <2>6, <2>7, OthersProgress, ExchangeUnseen DEF Inv, Progress
<1>6. CASE Finish(r)
  <2>1. /\ Release(backend[b]) \in Numbers
        /\ Release(backend[b]).inflight = backend[b].inflight - 1
        /\ Release(backend[b]).ewma = backend[b].ewma
        /\ Release(backend[b]).hasStats = backend[b].hasStats
    BY <1>0 DEF Release, Numbers
  <2>2. /\ backend' = [backend EXCEPT ![b] = Release(backend[b])]
        /\ at' = [at EXCEPT ![r] = None] /\ UNCHANGED <<left, snap, score>>
    BY <1>6 DEF Finish
  <2>3. backend' \in [Backends -> Numbers] /\ EwmaWithinSamples'
    BY <1>0, <1>1, <2>1, <2>2, Changed
  <2>4. Types' /\ Frame(r)
    BY <1>0, <1>2, <1>3, <2>2, <2>3 DEF Inv, Types, Frame
  <2>5. Apart(r)' /\ Stage(r)' /\ Current(r)'
    <3>1. Apart(r)'
      BY <1>0, <2>2 DEF Progress, Apart
    <3>2. Stage(r)'
      BY <1>3, <1>6 DEF Stage, Counted
    <3>3. Current(r)'
      BY <1>0 DEF Current
    <3> QED  BY <3>1, <3>2, <3>3
  <2>6. InflightExact'
    BY <1>0, <1>3, <1>6, <2>1, <2>2, <2>4, Counting DEF Counted
  <2> QED  BY <2>3, <2>4, <2>5, <2>6, OthersProgress, ExchangeUnseen DEF Inv, Progress
<1> QED  BY <1>4, <1>5, <1>6 DEF Exchange

\* A backend whose bit goes up is no longer one that has been out.
LEMMA CheckerUnseen ==
  ASSUME Inv, Wipe \/ \E b \in Backends : MarkDown(b) \/ MarkUp(b)
  PROVE  /\ out' \in [Requests -> SUBSET Backends]
         /\ OutIsOut' /\ \A s \in Requests : Unseen(s)'
<1>0. UNCHANGED <<pc, snap, at>> /\ backend \in [Backends -> Numbers]
  BY DEF Wipe, MarkDown, MarkUp, picking, Inv, Types
<1>1. ASSUME NEW b \in Backends, MarkUp(b)
      PROVE  /\ \A s \in Requests : out'[s] \subseteq out[s] \ {b}
             /\ out' \in [Requests -> SUBSET Backends]
             /\ \A c \in Backends \ {b} : backend'[c] = backend[c]
  BY <1>0, <1>1 DEF MarkUp, Inv, Types
<1>2. ASSUME NEW b \in Backends, MarkDown(b)
      PROVE  out' = out /\ \A c \in Backends : ~backend[c].healthy => ~backend'[c].healthy
  <2>1. SwapHealthy(backend[b], FALSE).healthy = FALSE
    BY <1>0 DEF SwapHealthy, Numbers
  <2>2. out' = out /\ backend' = [backend EXCEPT ![b] = SwapHealthy(backend[b], FALSE)]
    BY <1>2 DEF MarkDown
  <2> QED  BY <1>0, <2>1, <2>2
<1>3. ASSUME Wipe
      PROVE  out' = out /\ \A c \in Backends : ~backend[c].healthy => ~backend'[c].healthy
  <2>1. wiping \in Backends
    BY <1>3 DEF Wipe, Inv, Types
  <2>2. WipeStats(backend[wiping]).healthy = backend[wiping].healthy
    BY <1>0, <2>1 DEF WipeStats, Numbers
  <2>3. out' = out /\ backend' = [backend EXCEPT ![wiping] = WipeStats(backend[wiping])]
    BY <1>3 DEF Wipe
  <2> QED  BY <1>0, <2>1, <2>2, <2>3
<1>4. \A s \in Requests : out'[s] \subseteq out[s]
  BY <1>1, <1>2, <1>3
<1>5. out' \in [Requests -> SUBSET Backends]
  BY <1>1, <1>2, <1>3 DEF Inv, Types
<1>6. OutIsOut'
  BY <1>1, <1>2, <1>3, <1>5 DEF Inv, OutIsOut, Types
<1>7. \A s \in Requests : Unseen(s)'
  BY <1>0, <1>4 DEF Inv, Unseen
<1> QED  BY <1>5, <1>6, <1>7

\* The checker flips a bit or wipes the statistics, and leaves the counters alone.
LEMMA CheckerInv ==
  ASSUME Inv, Wipe \/ \E b \in Backends : MarkDown(b) \/ MarkUp(b)
  PROVE  Inv'
<1>0. UNCHANGED <<pc, left, snap, score, at>> /\ quiet' = {}
  BY DEF Wipe, MarkDown, MarkUp, picking
<1>1. PICK b \in Backends, be \in Numbers :
        /\ backend' = [backend EXCEPT ![b] = be]
        /\ be.inflight = backend[b].inflight
        /\ \/ be.ewma = backend[b].ewma /\ be.hasStats = backend[b].hasStats
           \/ be.ewma = 0 /\ ~be.hasStats
  <2>1. ASSUME NEW b \in Backends, NEW v \in BOOLEAN
        PROVE  /\ SwapHealthy(backend[b], v) \in Numbers
               /\ SwapHealthy(backend[b], v).inflight = backend[b].inflight
               /\ SwapHealthy(backend[b], v).ewma = backend[b].ewma
               /\ SwapHealthy(backend[b], v).hasStats = backend[b].hasStats
    <3>1. backend[b] \in Numbers
      BY DEF Inv, Types
    <3> QED  BY <3>1 DEF SwapHealthy, Numbers
  <2>2. ASSUME NEW b \in Backends
        PROVE  /\ WipeStats(backend[b]) \in Numbers
               /\ WipeStats(backend[b]).inflight = backend[b].inflight
               /\ WipeStats(backend[b]).ewma = 0 /\ ~WipeStats(backend[b]).hasStats
    <3>1. backend[b] \in Numbers
      BY DEF Inv, Types
    <3> QED  BY <3>1 DEF WipeStats, Numbers
  <2>3. CASE Wipe
    <3>1. wiping \in Backends /\ backend' = [backend EXCEPT ![wiping] = WipeStats(backend[wiping])]
      BY <2>3 DEF Wipe, Inv, Types
    <3> QED  BY <2>2, <3>1
  <2>4. ASSUME NEW b \in Backends, MarkDown(b) \/ MarkUp(b)
        PROVE  \E v \in BOOLEAN : backend' = [backend EXCEPT ![b] = SwapHealthy(backend[b], v)]
    BY <2>4 DEF MarkDown, MarkUp
  <2> QED  BY <2>1, <2>3, <2>4
<1>2. backend' \in [Backends -> Numbers] /\ EwmaWithinSamples'
  BY <1>1, Changed DEF Inv, EwmaWithinSamples
<1>3. Types'
  <2>1. wiping' \in Backends \cup {None} /\ stale' \subseteq Backends /\ outlived' \subseteq Requests
    BY DEF Wipe, MarkDown, MarkUp, Inv, Types
  <2> QED  BY <1>0, <1>2, <2>1, CheckerUnseen DEF Inv, Types
<1>4. ASSUME NEW s \in Requests PROVE Progress(s)'
  <2>1. Apart(s) /\ Stage(s)
    BY DEF Inv, Progress
  <2>2. Apart(s)'
    BY <1>0, <2>1 DEF Apart
  <2>3. Stage(s)'
    BY <1>0, <2>1 DEF Stage
  <2>4. Current(s)'
    BY <1>0 DEF Current
  <2> QED  BY <2>2, <2>3, <2>4 DEF Progress
<1>5. \A c \in Backends : backend'[c].inflight = backend[c].inflight
  BY <1>1 DEF Inv, Types
<1>6. InflightExact'
  BY <1>0, <1>5 DEF Inv, InflightExact
<1> QED  BY <1>2, <1>3, <1>4, <1>6, CheckerUnseen DEF Inv
--------------------------------------------------------------------------------
\* Every step keeps the invariant.
LEMMA NextInv == Inv /\ [Next]_vars => Inv'
<1> SUFFICES ASSUME Inv, [Next]_vars PROVE Inv'
  OBVIOUS
<1>1. CASE UNCHANGED vars
  <2>1. UNCHANGED <<backend, wiping, pc, left, snap, score, at, out, quiet, outlived, stale>>
    BY <1>1 DEF vars, picking, history
  <2>2. Types' /\ EwmaWithinSamples' /\ InflightExact'
    BY <2>1 DEF Inv, Types, EwmaWithinSamples, InflightExact
  <2>4. OutIsOut' /\ \A r \in Requests : Unseen(r)'
    BY <2>1 DEF Inv, OutIsOut, Unseen
  <2>3. ASSUME NEW r \in Requests PROVE Progress(r)'
    <3>1. Apart(r) /\ Stage(r) /\ Current(r)
      BY DEF Inv, Progress
    <3>2. Apart(r)'
      BY <2>1, <3>1 DEF Apart
    <3>3. Stage(r)'
      BY <2>1, <3>1 DEF Stage
    <3>4. Current(r)'
      BY <2>1, <3>1 DEF Current, Other
    <3> QED  BY <3>2, <3>3, <3>4 DEF Progress
  <2> QED  BY <2>2, <2>3, <2>4 DEF Inv
<1> QED  BY <1>1, PickInv, ExchangeInv, CheckerInv DEF Next, Exchange

\* The inductive invariant holds throughout.
THEOREM Invariance == Spec => []Inv
BY InitInv, NextInv, PTL DEF Spec

\* Type correctness of the pool: in particular, Release never takes a counter below zero.
THEOREM TypeCorrect == Spec => []TypeOK
<1>1. Inv => TypeOK
  <2> SUFFICES ASSUME Inv PROVE TypeOK
    OBVIOUS
  <2>1. ASSUME NEW b \in Backends PROVE backend[b] \in BackendType
    <3> DEFINE holders == {r \in Requests : pc[r] \in Counted /\ at[r] = b}
    <3>1. holders \subseteq Requests /\ backend[b].inflight = Cardinality(holders)
      BY DEF Inv, InflightExact
    <3>2. backend[b].inflight \in Nat
      BY <3>1, RequestsAssumption, FS_Subset, FS_CardinalityType
    <3>3. backend[b] \in Numbers
      BY DEF Inv, Types
    <3> QED  BY <3>2, <3>3 DEF Numbers, BackendType
  <2>2. backend \in [Backends -> BackendType]
    BY <2>1 DEF Inv, Types
  <2> QED  BY <2>2 DEF Inv, Types, TypeOK, Reads
<1> QED  BY <1>1, Invariance, PTL

\* RecordLatency and the wipe of SetHealthy keep the average within the latencies, however
\* they interleave.
THEOREM AverageWithin == Spec => []EwmaWithinSamples
<1>1. Inv => EwmaWithinSamples
  BY DEF Inv
<1> QED  BY <1>1, Invariance, PTL

\* The second draw of Pick is another backend of the snapshot, in a pool of any size.
THEOREM TwoCompared == Spec => []ComparesTwo
<1>1. Inv => ComparesTwo
  BY DEF Inv, Progress, Stage, ComparesTwo
<1> QED  BY <1>1, Invariance, PTL

\* In a pool of any size, a Pick nobody interferes with does not return the worst of the
\* backends it saw.
THEOREM AvoidsWorst == Spec => []WorstNotPicked
<1>1. Inv => WorstNotPicked
  <2> SUFFICES ASSUME Inv, NEW r \in Requests, pc[r] = "picked", r \in quiet
               PROVE  \E c \in Range(snap[r]) \ {at[r]} :
                          Score(backend[at[r]].ewma, backend[at[r]].inflight)
                              <= Score(backend[c].ewma, backend[c].inflight)
    BY DEF WorstNotPicked
  <2> QED  BY DEF Inv, Progress, Current
<1> QED  BY <1>1, Invariance, PTL

\* A lower score at a higher load takes a lower factor.
LEMMA LowerFactor ==
  ASSUME NEW x \in Nat, NEW y \in Nat \ {0}, NEW m \in Nat, NEW n \in Nat, n < m,
         x * (m + 1) <= y * (n + 1)
  PROVE  x < y
<1> SUFFICES ASSUME y <= x PROVE FALSE
  OBVIOUS
<1>1. y * (m + 1) <= x * (m + 1)
  OBVIOUS
<1>2. y * (m + 1) = y * (n + 1) + y * (m - n)
  OBVIOUS
<1>3. y * (m - n) > 0
  <2>1. m - n \in Nat \ {0}
    OBVIOUS
  <2> QED  BY <2>1
<1>4. x * (m + 1) \in Nat /\ y * (m + 1) \in Nat /\ y * (n + 1) \in Nat /\ y * (m - n) \in Int
  OBVIOUS
<1> QED  BY <1>1, <1>2, <1>3, <1>4

\* In a pool of any size, a Pick nobody interferes with takes the busier of the two backends
\* it compared only for a lower average, where zero stands for a millisecond.
THEOREM LoadSpreads == Spec => []BusierOnlyIfFaster
<1> DEFINE Average(b) == IF backend[b].ewma = 0 THEN Unit ELSE backend[b].ewma
<1>1. Inv /\ TypeOK => BusierOnlyIfFaster
  <2> SUFFICES ASSUME Inv, TypeOK, NEW r \in Requests, pc[r] = "picked", r \in quiet,
                      backend[Other(r)].inflight < backend[at[r]].inflight
               PROVE  Average(at[r]) < Average(Other(r))
    BY DEF BusierOnlyIfFaster
  <2>1. /\ at[r] \in Backends /\ Other(r) \in Backends
        /\ Score(backend[at[r]].ewma, backend[at[r]].inflight)
             <= Score(backend[Other(r)].ewma, backend[Other(r)].inflight)
    BY DEF Inv, Progress, Stage, Current, Counted
  <2>2. \A b \in {at[r], Other(r)} : backend[b].ewma \in Nat /\ backend[b].inflight \in Nat
    BY <2>1 DEF TypeOK, BackendType
  <2>3. Average(at[r]) \in Nat /\ Average(Other(r)) \in Nat \ {0}
    BY <2>2, UnitAssumption
  <2>4. Average(at[r]) * (backend[at[r]].inflight + 1)
          <= Average(Other(r)) * (backend[Other(r)].inflight + 1)
    BY <2>1 DEF Score
  <2> HIDE DEF Average
  <2> QED  BY <2>2, <2>3, <2>4, LowerFactor
<1> QED  BY <1>1, Invariance, TypeCorrect, PTL

\* Pick does not return a backend that was out when it was called and has stayed out.
THEOREM NeverEjected == Spec => []EjectedNotPicked
<1>1. Inv => EjectedNotPicked
  BY DEF Inv, Unseen, EjectedNotPicked
<1> QED  BY <1>1, Invariance, PTL

\* Every step of a request or of the checker is, to the pool, one that SharedPool allows.
LEMMA PoolStep == Inv /\ TypeOK /\ [Next]_vars => [Shared!Next]_(Shared!vars)
<1> SUFFICES ASSUME Inv, TypeOK, [Next]_vars PROVE Shared!Next \/ UNCHANGED Shared!vars
  OBVIOUS
<1>1. ASSUME NEW r \in Requests, Pick(r) PROVE UNCHANGED Shared!vars
  BY <1>1 DEF Pick, StartPick, Look, PickNone, PickOnly, PickTwo, ReadEwma, ReadInflightA,
              ReadInflightB, Shared!vars
<1>2. ASSUME NEW r \in Requests, Exchange(r) PROVE Shared!Next
  <2>0. at[r] \in Backends
    BY <1>2 DEF Exchange, Send, Sample, Finish, Inv, Progress, Stage, Counted
  <2>1. Send(r) => Shared!Acquired(at[r])
    BY DEF Send, Shared!Acquired, Shared!Acquire, Acquire
  <2>2. Sample(r) => Shared!Sampled(at[r])
    BY DEF Sample, Shared!Sampled, Shared!RecordLatency, RecordLatency
  <2>3. Finish(r) => Shared!Released(at[r])
    <3> SUFFICES ASSUME Finish(r) PROVE Shared!Released(at[r])
      OBVIOUS
    <3> DEFINE holders == {s \in Requests : pc[s] \in Counted /\ at[s] = at[r]}
    <3>1. backend[at[r]].inflight = Cardinality(holders)
      BY <2>0 DEF Inv, InflightExact
    <3>2. r \in holders /\ IsFiniteSet(holders)
      BY RequestsAssumption, FS_Subset DEF Finish, Counted
    <3>3. Cardinality(holders) \in Nat /\ Cardinality(holders) # 0
      BY <3>2, FS_CardinalityType, FS_EmptySet
    <3>4. backend[at[r]].inflight > 0
      <4> HIDE DEF holders
      <4>1. ASSUME NEW n \in Nat, n # 0 PROVE n > 0
        BY <4>1
      <4> QED  BY <3>1, <3>3, <4>1
    <3> QED  BY <3>4 DEF Finish, Shared!Released, Shared!Release, Release
  <2> QED  BY <1>2, <2>0, <2>1, <2>2, <2>3 DEF Exchange, Shared!Next
<1>3. ASSUME NEW b \in Backends, MarkDown(b) \/ MarkUp(b) PROVE Shared!Next
  <2>1. MarkDown(b) => Shared!Down(b)
    BY DEF MarkDown, Shared!Down, Shared!SwapHealthy, SwapHealthy
  <2>2. MarkUp(b) => Shared!Up(b)
    BY DEF MarkUp, Shared!Up, Shared!SwapHealthy, SwapHealthy
  <2> QED  BY <1>3, <2>1, <2>2 DEF Shared!Next
<1>4. CASE Wipe
  BY <1>4 DEF Wipe, Shared!Wiped, Shared!WipeStats, WipeStats, Shared!Next
<1>5. CASE UNCHANGED vars
  BY <1>5 DEF vars, Shared!vars
<1> QED  BY <1>1, <1>2, <1>3, <1>4, <1>5 DEF Next, Exchange

\* Any number of requests on a pool of any size implement SharedPool: what HealthChecker
\* assumes of them, and none of them releases a backend more often than it acquired it.
THEOREM RequestsKeepRules == Spec => KeepsPoolRules
<1>1. Init => Shared!Init
  BY DEF Init, Shared!Init, Shared!NewBackend, NewBackend, Shared!RecordLatency, RecordLatency
<1> QED  BY <1>1, PoolStep, Invariance, TypeCorrect, PTL DEF Spec, KeepsPoolRules, Shared!Spec
================================================================================
