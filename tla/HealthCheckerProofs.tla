-------------------------- MODULE HealthCheckerProofs --------------------------
(***************************************************************************)
(* For every pool, every pair of thresholds and any number of overlapping  *)
(* probes: the healthy bit and the gauge of the health checker follow the  *)
(* streaks of probe results and nothing else, and the bit converges to the *)
(* truth.                                                                  *)
(***************************************************************************)
EXTENDS HealthChecker, TLAPS

\* A counter has reached n exactly when the last n results are a streak.
CountersAreStreaks ==
    \A b \in Backends : \A n \in 1..MaxCount :
        /\ fails[b] >= n <=> Streak(b, n, "fail")
        /\ passes[b] >= n <=> Streak(b, n, "ok")

\* A counter that would flip the bit has already flipped it.
BitWithinThresholds ==
    \A b \in Backends :
        /\ backend[b].healthy => fails[b] < FailThreshold
        /\ ~backend[b].healthy => passes[b] < PassThreshold

\* The gauge agrees with the bit, or the record under way is about to set it.
GaugeOrPending ==
    /\ \A b \in Backends :
        pending = None \/ pending.b # b => (backend[b].healthy <=> gauge[b] \in {1, None})
    /\ pending # None => (backend[pending.b].healthy <=> pending.gauge = 1)

\* No probe of an impostor has passed, and tick bounds the probes in flight.
ProbesSound ==
    \A b \in Backends :
        /\ InFlight(b) <= MaxProbes
        /\ b \notin Trusted => probes[b]["ok"] = 0

Inv ==
    /\ TypeOK
    /\ ProbesSound
    /\ CountersAreStreaks
    /\ BitWithinThresholds
    /\ GaugeOrPending
    /\ CleanReturn

--------------------------------------------------------------------------------
\* NewPool and NewChecker establish the invariant.
LEMMA InitInv == Init => Inv
<1> SUFFICES ASSUME Init PROVE Inv
  OBVIOUS
<1> USE ThresholdAssumption, ProbesAssumption, NoneAssumption
<1>1. \A b \in Backends : backend[b] = NewBackend
  BY DEF Init
<1>2. TypeOK
  <2>1. NewBackend \in BackendType
    BY DEF NewBackend, BackendType
  <2> QED  BY <2>1 DEF Init, TypeOK
<1>3. ProbesSound
  BY DEF Init, ProbesSound, InFlight
<1>4. CountersAreStreaks
  BY DEF Init, CountersAreStreaks, Streak, Results
<1>5. BitWithinThresholds /\ GaugeOrPending /\ CleanReturn
  BY <1>1 DEF Init, NewBackend, BitWithinThresholds, GaugeOrPending, CleanReturn
<1> QED  BY <1>2, <1>3, <1>4, <1>5 DEF Inv

\* What recording res does to the streaks of the history.
LEMMA ShiftStreaks ==
  ASSUME TypeOK, NEW b \in Backends, NEW res \in Results, Shift(b, res)
  PROVE  /\ recent' \in [Backends -> [1..MaxCount -> Results \cup {None}]]
         /\ \A c \in Backends : c # b => recent'[c] = recent[c]
         /\ \A n \in 1..MaxCount :
              /\ Streak(b, n, res)' <=> n = 1 \/ Streak(b, n - 1, res)
              /\ \A other \in Results : other # res => ~Streak(b, n, other)'
<1> USE ThresholdAssumption
<1>1. recent \in [Backends -> [1..MaxCount -> Results \cup {None}]]
  BY DEF TypeOK
<1> DEFINE new == [i \in 1..MaxCount |-> IF i = 1 THEN res ELSE recent[b][i - 1]]
<1>2. recent' = [recent EXCEPT ![b] = new]
  BY DEF Shift
<1>3. new \in [1..MaxCount -> Results \cup {None}]
  BY <1>1
<1>4. new[1] = res /\ \A i \in 2..MaxCount : new[i] = recent[b][i - 1]
  OBVIOUS
<1> HIDE DEF new
<1>5. recent'[b] = new
  BY <1>1, <1>2
<1>6. ASSUME NEW n \in 1..MaxCount
      PROVE  Streak(b, n, res)' <=> n = 1 \/ Streak(b, n - 1, res)
  <2>1. ASSUME Streak(b, n, res)', n # 1 PROVE Streak(b, n - 1, res)
    <3> SUFFICES ASSUME NEW i \in 1..(n - 1) PROVE recent[b][i] = res
      BY DEF Streak
    <3>1. i + 1 \in 1..n /\ i + 1 \in 2..MaxCount
      OBVIOUS
    <3> QED  BY <1>4, <1>5, <2>1, <3>1 DEF Streak
  <2>2. ASSUME n = 1 \/ Streak(b, n - 1, res) PROVE Streak(b, n, res)'
    <3> SUFFICES ASSUME NEW i \in 1..n PROVE recent'[b][i] = res
      BY DEF Streak
    <3>1. CASE i = 1
      BY <1>4, <1>5, <3>1
    <3>2. CASE i # 1
      <4>1. i - 1 \in 1..(n - 1) /\ i \in 2..MaxCount /\ n # 1
        BY <3>2
      <4> QED  BY <1>4, <1>5, <2>2, <4>1 DEF Streak
    <3> QED  BY <3>1, <3>2
  <2> QED  BY <2>1, <2>2
<1>7. ASSUME NEW n \in 1..MaxCount, NEW other \in Results, other # res
      PROVE  ~Streak(b, n, other)'
  BY <1>4, <1>5, <1>7 DEF Streak
<1> QED  BY <1>1, <1>2, <1>3, <1>6, <1>7

\* The counters that record updates on a success stay the streaks of the history.
LEMMA CountOkStreaks ==
  ASSUME TypeOK, CountersAreStreaks, NEW b \in Backends, Shift(b, "ok"), CountOk(b)
  PROVE  /\ fails' \in [Backends -> 0..MaxCount] /\ passes' \in [Backends -> 0..MaxCount]
         /\ CountersAreStreaks'
<1> USE ThresholdAssumption
<1>1. "ok" \in Results /\ "fail" \in Results /\ "fail" # "ok"
  BY DEF Results
<1>2. fails \in [Backends -> 0..MaxCount] /\ passes \in [Backends -> 0..MaxCount]
  BY DEF TypeOK
<1>3. /\ fails' = [fails EXCEPT ![b] = 0]
      /\ passes' = [passes EXCEPT ![b] = Bump(passes[b])]
      /\ Bump(passes[b]) \in 0..MaxCount
  BY <1>2 DEF CountOk, Bump
<1>4. ASSUME NEW c \in Backends, NEW n \in 1..MaxCount
      PROVE  (fails'[c] >= n <=> Streak(c, n, "fail")') /\ (passes'[c] >= n <=> Streak(c, n, "ok")')
  <2>1. CASE c # b
    <3>1. recent'[c] = recent[c] /\ fails'[c] = fails[c] /\ passes'[c] = passes[c]
      BY <1>1, <1>2, <1>3, <2>1, ShiftStreaks
    <3> QED  BY <3>1 DEF CountersAreStreaks, Streak
  <2>2. CASE c = b
    <3>1. fails'[b] = 0 /\ passes'[b] = Bump(passes[b])
      BY <1>2, <1>3
    <3>2. ~Streak(b, n, "fail")' /\ (Streak(b, n, "ok")' <=> n = 1 \/ Streak(b, n - 1, "ok"))
      BY <1>1, ShiftStreaks
    <3>3. Bump(passes[b]) >= n <=> n = 1 \/ passes[b] >= n - 1
      BY <1>2 DEF Bump
    <3>4. n # 1 => (passes[b] >= n - 1 <=> Streak(b, n - 1, "ok"))
      BY DEF CountersAreStreaks
    <3> QED  BY <2>2, <3>1, <3>2, <3>3, <3>4
  <2> QED  BY <2>1, <2>2
<1> QED  BY <1>2, <1>3, <1>4 DEF CountersAreStreaks

\* The counters that record updates on a failure stay the streaks of the history.
LEMMA CountFailStreaks ==
  ASSUME TypeOK, CountersAreStreaks, NEW b \in Backends, Shift(b, "fail"), CountFail(b)
  PROVE  /\ fails' \in [Backends -> 0..MaxCount] /\ passes' \in [Backends -> 0..MaxCount]
         /\ CountersAreStreaks'
<1> USE ThresholdAssumption
<1>1. "ok" \in Results /\ "fail" \in Results /\ "fail" # "ok"
  BY DEF Results
<1>2. fails \in [Backends -> 0..MaxCount] /\ passes \in [Backends -> 0..MaxCount]
  BY DEF TypeOK
<1>3. /\ passes' = [passes EXCEPT ![b] = 0]
      /\ fails' = [fails EXCEPT ![b] = Bump(fails[b])]
      /\ Bump(fails[b]) \in 0..MaxCount
  BY <1>2 DEF CountFail, Bump
<1>4. ASSUME NEW c \in Backends, NEW n \in 1..MaxCount
      PROVE  (fails'[c] >= n <=> Streak(c, n, "fail")') /\ (passes'[c] >= n <=> Streak(c, n, "ok")')
  <2>1. CASE c # b
    <3>1. recent'[c] = recent[c] /\ fails'[c] = fails[c] /\ passes'[c] = passes[c]
      BY <1>1, <1>2, <1>3, <2>1, ShiftStreaks
    <3> QED  BY <3>1 DEF CountersAreStreaks, Streak
  <2>2. CASE c = b
    <3>1. passes'[b] = 0 /\ fails'[b] = Bump(fails[b])
      BY <1>2, <1>3
    <3>2. ~Streak(b, n, "ok")' /\ (Streak(b, n, "fail")' <=> n = 1 \/ Streak(b, n - 1, "fail"))
      BY <1>1, ShiftStreaks
    <3>3. Bump(fails[b]) >= n <=> n = 1 \/ fails[b] >= n - 1
      BY <1>2 DEF Bump
    <3>4. n # 1 => (fails[b] >= n - 1 <=> Streak(b, n - 1, "fail"))
      BY DEF CountersAreStreaks
    <3> QED  BY <2>2, <3>1, <3>2, <3>3, <3>4
  <2> QED  BY <2>1, <2>2
<1> QED  BY <1>2, <1>3, <1>4 DEF CountersAreStreaks

\* The methods of a backend keep it well typed and touch only their own fields.
LEMMA BackendOps ==
  ASSUME NEW be \in BackendType
  PROVE  /\ \A v \in BOOLEAN :
              /\ SwapHealthy(be, v) \in BackendType
              /\ SwapHealthy(be, v).healthy = v
         /\ WipeStats(be) \in BackendType
         /\ WipeStats(be).healthy = be.healthy
         /\ WipeStats(be).ewma = 0 /\ WipeStats(be).hasStats = FALSE
         /\ RecordLatency(be, Latency) \in BackendType
         /\ RecordLatency(be, Latency).healthy = be.healthy
<1>1. /\ \A v \in BOOLEAN :
           /\ SwapHealthy(be, v) \in BackendType
           /\ SwapHealthy(be, v).healthy = v
      /\ WipeStats(be) \in BackendType
      /\ WipeStats(be).healthy = be.healthy
      /\ WipeStats(be).ewma = 0 /\ WipeStats(be).hasStats = FALSE
  BY DEF BackendType, SwapHealthy, WipeStats
<1>2. be.ewma \in Nat /\ Latency \in Nat /\ Unit \in Nat
  BY ProbesAssumption, UnitAssumption DEF BackendType
<1>3. Latency * Unit \in Nat
  BY <1>2
<1>4. (3 * Latency * Unit + 7 * be.ewma) \div 10 \in Nat
  <2>1. 3 * Latency * Unit + 7 * be.ewma \in Nat
    BY <1>2
  <2> QED  BY <2>1
<1>5. /\ RecordLatency(be, Latency) \in BackendType
      /\ RecordLatency(be, Latency).healthy = be.healthy
  BY <1>3, <1>4 DEF BackendType, RecordLatency
<1> QED  BY <1>1, <1>5

\* record takes one result off the probes in flight.
LEMMA TakeProbes ==
  ASSUME TypeOK, ProbesSound, NEW b \in Backends, NEW res \in Results, Take(b, res)
  PROVE  probes' \in [Backends -> [{"sent", "ok", "fail"} -> 0..MaxProbes]] /\ ProbesSound'
<1> USE ProbesAssumption
<1>1. probes \in [Backends -> [{"sent", "ok", "fail"} -> 0..MaxProbes]]
  BY DEF TypeOK
<1>2. probes' = [probes EXCEPT ![b] = [probes[b] EXCEPT ![res] = @ - 1]] /\ probes[b][res] > 0
  BY <1>1 DEF Take, Results
<1>3. res \in {"ok", "fail"}
  BY DEF Results
<1>4. probes' \in [Backends -> [{"sent", "ok", "fail"} -> 0..MaxProbes]]
  BY <1>1, <1>2, <1>3
<1>5. ASSUME NEW c \in Backends
      PROVE  InFlight(c)' <= MaxProbes /\ (c \notin Trusted => probes'[c]["ok"] = 0)
  <2>1. CASE c # b
    BY <1>1, <1>2, <2>1 DEF ProbesSound, InFlight
  <2>2. CASE c = b
    BY <1>1, <1>2, <1>3, <2>2 DEF ProbesSound, InFlight
  <2> QED  BY <2>1, <2>2
<1> QED  BY <1>4, <1>5 DEF ProbesSound

\* What record still has to do once it has swapped the bit is a well-typed note.
LEMMA PendingNote ==
  ASSUME NEW b \in Backends, NEW w \in BOOLEAN, NEW g \in {0, 1},
         NEW p, p = [b |-> b, wipe |-> w, gauge |-> g]
  PROVE  /\ p \in [b : Backends, wipe : BOOLEAN, gauge : {0, 1}]
         /\ p # None
         /\ p.b = b /\ p.wipe = w /\ p.gauge = g
<1>1. p \in [b : Backends, wipe : BOOLEAN, gauge : {0, 1}]
  OBVIOUS
<1>2. p.b = b /\ p.wipe = w /\ p.gauge = g
  OBVIOUS
<1>3. p # None
  BY <1>1, NoneAssumption
<1> QED  BY <1>1, <1>2, <1>3

\* Every step of record on a success preserves the invariant.
LEMMA RecordOkInv == ASSUME Inv, NEW b \in Backends, RecordOk(b) PROVE Inv'
<1> USE ThresholdAssumption, NoneAssumption
<1>1. "ok" \in Results /\ Take(b, "ok") /\ CountOk(b) /\ Shift(b, "ok")
  BY DEF RecordOk, Restore, ConfirmHealthy, NotYetRestored, Take, Results
<1>2. probes' \in [Backends -> [{"sent", "ok", "fail"} -> 0..MaxProbes]] /\ ProbesSound'
  BY <1>1, TakeProbes DEF Inv
<1>3. /\ fails' \in [Backends -> 0..MaxCount] /\ passes' \in [Backends -> 0..MaxCount]
      /\ CountersAreStreaks'
  BY <1>1, CountOkStreaks DEF Inv
<1>4. recent' \in [Backends -> [1..MaxCount -> Results \cup {None}]]
  BY <1>1, ShiftStreaks DEF Inv
<1>5. fails' = [fails EXCEPT ![b] = 0] /\ passes' = [passes EXCEPT ![b] = Bump(passes[b])]
  BY <1>1 DEF CountOk
<1>6. pending = None /\ UNCHANGED <<answers, gauge>>
  BY <1>1 DEF Take, RecordOk, Restore, ConfirmHealthy, NotYetRestored
<1>7. backend \in [Backends -> BackendType] /\ backend[b] \in BackendType
  BY DEF Inv, TypeOK
<1>8. CASE Restore(b)
  <2>1. /\ backend' = [backend EXCEPT ![b] = SwapHealthy(backend[b], TRUE)]
        /\ pending' = [b |-> b, wipe |-> TRUE, gauge |-> 1]
        /\ fed' = [fed EXCEPT ![b] = FALSE]
    BY <1>8 DEF Restore
  <2>2. SwapHealthy(backend[b], TRUE) \in BackendType /\ SwapHealthy(backend[b], TRUE).healthy = TRUE
    BY <1>7, BackendOps
  <2>3. backend'[b].healthy /\ \A c \in Backends : c # b => backend'[c] = backend[c]
    BY <1>7, <2>1, <2>2
  <2>4. pending'.b = b /\ pending'.wipe = TRUE /\ pending'.gauge = 1 /\ pending' # None
        /\ pending' \in [b : Backends, wipe : BOOLEAN, gauge : {0, 1}]
    BY <2>1, PendingNote
  <2>5. backend' \in [Backends -> BackendType]
    BY <1>7, <2>1, <2>2
  <2>6. TypeOK'
    BY <1>2, <1>3, <1>4, <1>6, <2>1, <2>4, <2>5 DEF Inv, TypeOK
  <2>7. BitWithinThresholds'
    BY <1>5, <2>3 DEF Inv, TypeOK, BitWithinThresholds
  <2>8. GaugeOrPending'
    BY <1>6, <2>3, <2>4 DEF Inv, GaugeOrPending
  <2>9. CleanReturn'
    BY <1>6, <2>1, <2>3, <2>4 DEF Inv, TypeOK, CleanReturn
  <2> QED  BY <1>2, <1>3, <2>6, <2>7, <2>8, <2>9 DEF Inv
<1>9. CASE ConfirmHealthy(b)
  <2>1. /\ pending' = [b |-> b, wipe |-> FALSE, gauge |-> 1] /\ backend[b].healthy
        /\ UNCHANGED <<backend, fed>>
    BY <1>9 DEF ConfirmHealthy
  <2>2. pending'.b = b /\ pending'.wipe = FALSE /\ pending'.gauge = 1 /\ pending' # None
        /\ pending' \in [b : Backends, wipe : BOOLEAN, gauge : {0, 1}]
    BY <2>1, PendingNote
  <2>3. TypeOK'
    BY <1>2, <1>3, <1>4, <1>6, <2>1, <2>2 DEF Inv, TypeOK
  <2>4. BitWithinThresholds'
    BY <1>5, <2>1 DEF Inv, TypeOK, BitWithinThresholds
  <2>5. GaugeOrPending' /\ CleanReturn'
    BY <1>6, <2>1, <2>2 DEF Inv, GaugeOrPending, CleanReturn
  <2> QED  BY <1>2, <1>3, <2>3, <2>4, <2>5 DEF Inv
<1>10. CASE NotYetRestored(b)
  <2>1. ~backend[b].healthy /\ passes'[b] < PassThreshold /\ UNCHANGED <<backend, pending, fed>>
    BY <1>10 DEF NotYetRestored
  <2>2. TypeOK'
    BY <1>2, <1>3, <1>4, <1>6, <2>1 DEF Inv, TypeOK
  <2>3. BitWithinThresholds'
    BY <1>5, <2>1 DEF Inv, TypeOK, BitWithinThresholds
  <2>4. GaugeOrPending' /\ CleanReturn'
    BY <1>6, <2>1 DEF Inv, GaugeOrPending, CleanReturn
  <2> QED  BY <1>2, <1>3, <2>2, <2>3, <2>4 DEF Inv
<1> QED  BY <1>8, <1>9, <1>10 DEF RecordOk

\* Every step of record on a failure preserves the invariant.
LEMMA RecordFailInv == ASSUME Inv, NEW b \in Backends, RecordFail(b) PROVE Inv'
<1> USE ThresholdAssumption, NoneAssumption
<1>1. "fail" \in Results /\ Take(b, "fail") /\ CountFail(b) /\ Shift(b, "fail")
  BY DEF RecordFail, Eject, NotEjected, Take, Results
<1>2. probes' \in [Backends -> [{"sent", "ok", "fail"} -> 0..MaxProbes]] /\ ProbesSound'
  BY <1>1, TakeProbes DEF Inv
<1>3. /\ fails' \in [Backends -> 0..MaxCount] /\ passes' \in [Backends -> 0..MaxCount]
      /\ CountersAreStreaks'
  BY <1>1, CountFailStreaks DEF Inv
<1>4. recent' \in [Backends -> [1..MaxCount -> Results \cup {None}]]
  BY <1>1, ShiftStreaks DEF Inv
<1>5. passes' = [passes EXCEPT ![b] = 0] /\ fails' = [fails EXCEPT ![b] = Bump(fails[b])]
  BY <1>1 DEF CountFail
<1>6. pending = None /\ UNCHANGED <<answers, gauge, fed>>
  BY <1>1 DEF Take, RecordFail, Eject, NotEjected
<1>7. backend \in [Backends -> BackendType] /\ backend[b] \in BackendType
  BY DEF Inv, TypeOK
<1>8. CASE Eject(b)
  <2>1. /\ backend' = [backend EXCEPT ![b] = SwapHealthy(backend[b], FALSE)]
        /\ pending' = [b |-> b, wipe |-> FALSE, gauge |-> 0]
    BY <1>8 DEF Eject
  <2>2. SwapHealthy(backend[b], FALSE) \in BackendType /\ SwapHealthy(backend[b], FALSE).healthy = FALSE
    BY <1>7, BackendOps
  <2>3. ~backend'[b].healthy /\ \A c \in Backends : c # b => backend'[c] = backend[c]
    BY <1>7, <2>1, <2>2
  <2>4. pending'.b = b /\ pending'.wipe = FALSE /\ pending'.gauge = 0 /\ pending' # None
        /\ pending' \in [b : Backends, wipe : BOOLEAN, gauge : {0, 1}]
    BY <2>1, PendingNote
  <2>5. backend' \in [Backends -> BackendType]
    BY <1>7, <2>1, <2>2
  <2>6. TypeOK'
    BY <1>2, <1>3, <1>4, <1>6, <2>4, <2>5 DEF Inv, TypeOK
  <2>7. BitWithinThresholds'
    BY <1>5, <2>3 DEF Inv, TypeOK, BitWithinThresholds
  <2>8. GaugeOrPending'
    BY <1>6, <2>3, <2>4 DEF Inv, GaugeOrPending
  <2>9. CleanReturn'
    BY <1>6, <2>3, <2>4 DEF Inv, CleanReturn
  <2> QED  BY <1>2, <1>3, <2>6, <2>7, <2>8, <2>9 DEF Inv
<1>9. CASE NotEjected(b)
  <2>1. ~(backend[b].healthy /\ fails'[b] >= FailThreshold) /\ UNCHANGED <<backend, pending>>
    BY <1>9 DEF NotEjected
  <2>2. TypeOK'
    BY <1>2, <1>3, <1>4, <1>6, <2>1 DEF Inv, TypeOK
  <2>3. BitWithinThresholds'
    BY <1>3, <1>5, <2>1 DEF Inv, TypeOK, BitWithinThresholds
  <2>4. GaugeOrPending' /\ CleanReturn'
    BY <1>6, <2>1 DEF Inv, GaugeOrPending, CleanReturn
  <2> QED  BY <1>2, <1>3, <2>2, <2>3, <2>4 DEF Inv
<1> QED  BY <1>8, <1>9 DEF RecordFail

--------------------------------------------------------------------------------
\* Every step of the checker, of its probes, of the requests and of the backends
\* preserves the invariant.
LEMMA NextInv == Inv /\ [Next]_vars => Inv'
<1> SUFFICES ASSUME Inv, [Next]_vars PROVE Inv'
  OBVIOUS
<1> USE ThresholdAssumption, ProbesAssumption, NoneAssumption
<1>0. /\ backend \in [Backends -> BackendType]
      /\ probes \in [Backends -> [{"sent", "ok", "fail"} -> 0..MaxProbes]]
  BY DEF Inv, TypeOK
<1>1. CASE Tick
  <2>1. /\ \A b \in Backends : InFlight(b) < MaxProbes
        /\ probes' = [b \in Backends |-> [probes[b] EXCEPT !["sent"] = @ + 1]]
        /\ UNCHANGED <<backend, answers, fails, passes, pending, gauge, recent, fed>>
    BY <1>1 DEF Tick
  <2>2. ASSUME NEW b \in Backends
        PROVE  /\ probes'[b] \in [{"sent", "ok", "fail"} -> 0..MaxProbes]
               /\ InFlight(b)' <= MaxProbes
               /\ b \notin Trusted => probes'[b]["ok"] = 0
    BY <1>0, <2>1 DEF InFlight, Inv, ProbesSound
  <2>3. TypeOK'
    BY <2>1, <2>2 DEF Inv, TypeOK
  <2>4. ProbesSound'
    BY <2>2 DEF ProbesSound
  <2>5. CountersAreStreaks'
    BY <2>1 DEF Inv, CountersAreStreaks, Streak
  <2> QED  BY <2>1, <2>3, <2>4, <2>5 DEF Inv, BitWithinThresholds, GaugeOrPending, CleanReturn
<1>2. ASSUME NEW b \in Backends, Flip(b) PROVE Inv'
  <2>1. /\ answers' = [answers EXCEPT ![b] = ~answers[b]]
        /\ UNCHANGED <<backend, probes, fails, passes, pending, gauge, recent, fed>>
    BY <1>2 DEF Flip
  <2>2. TypeOK'
    <3>1. answers' \in [Backends -> BOOLEAN]
      BY <2>1 DEF Inv, TypeOK
    <3> QED  BY <2>1, <3>1 DEF Inv, TypeOK
  <2>3. ProbesSound' /\ CountersAreStreaks'
    BY <2>1 DEF Inv, ProbesSound, InFlight, CountersAreStreaks, Streak
  <2>4. BitWithinThresholds' /\ GaugeOrPending' /\ CleanReturn'
    BY <2>1 DEF Inv, BitWithinThresholds, GaugeOrPending, CleanReturn
  <2> QED  BY <2>2, <2>3, <2>4 DEF Inv
<1>3. ASSUME NEW b \in Backends, Traffic(b) PROVE Inv'
  <2>1. /\ backend' = [backend EXCEPT ![b] = RecordLatency(backend[b], Latency)]
        /\ fed' = [fed EXCEPT ![b] = TRUE]
        /\ UNCHANGED <<answers, probes, fails, passes, pending, gauge, recent>>
    BY <1>3 DEF Traffic
  <2>2. /\ backend' \in [Backends -> BackendType]
        /\ \A c \in Backends : backend'[c].healthy = backend[c].healthy
        /\ \A c \in Backends : c # b => backend'[c] = backend[c]
    <3> DEFINE new == RecordLatency(backend[b], Latency)
    <3>0. PICK be \in BackendType : be = backend[b]
      BY <1>0
    <3>1. new \in BackendType /\ new.healthy = backend[b].healthy
      BY <3>0, BackendOps
    <3>2. backend' = [backend EXCEPT ![b] = new]
      BY <2>1
    <3> HIDE DEF new
    <3> QED  BY <1>0, <3>1, <3>2
  <2>3. TypeOK'
    BY <2>1, <2>2 DEF Inv, TypeOK
  <2>4. ProbesSound' /\ CountersAreStreaks'
    BY <2>1 DEF Inv, ProbesSound, InFlight, CountersAreStreaks, Streak
  <2>5. BitWithinThresholds' /\ GaugeOrPending'
    BY <2>1, <2>2 DEF Inv, TypeOK, BitWithinThresholds, GaugeOrPending
  <2>6. CleanReturn'
    BY <2>1, <2>2 DEF Inv, TypeOK, CleanReturn
  <2> QED  BY <2>3, <2>4, <2>5, <2>6 DEF Inv
<1>4. ASSUME NEW b \in Backends, Probe(b) PROVE Inv'
  <2>1. PICK res \in {"ok", "fail"} :
          /\ res = (IF ProbeOK(b) THEN "ok" ELSE "fail")
          /\ probes' = [probes EXCEPT ![b]["sent"] = @ - 1, ![b][res] = @ + 1]
          /\ probes[b]["sent"] > 0
          /\ UNCHANGED <<backend, answers, fails, passes, pending, gauge, recent, fed>>
    BY <1>4 DEF Probe
  <2>2. b \notin Trusted => res = "fail"
    BY <2>1 DEF ProbeOK
  <2>3. ASSUME NEW c \in Backends
        PROVE  /\ probes'[c] \in [{"sent", "ok", "fail"} -> 0..MaxProbes]
               /\ InFlight(c)' <= MaxProbes
               /\ c \notin Trusted => probes'[c]["ok"] = 0
    <3>1. CASE c # b
      BY <1>0, <2>1, <3>1 DEF InFlight, Inv, ProbesSound
    <3>2. CASE c = b
      BY <1>0, <2>1, <2>2, <3>2 DEF InFlight, Inv, ProbesSound
    <3> QED  BY <3>1, <3>2
  <2>4. probes' \in [Backends -> [{"sent", "ok", "fail"} -> 0..MaxProbes]]
    BY <1>0, <2>1, <2>3
  <2>5. TypeOK'
    BY <2>1, <2>4 DEF Inv, TypeOK
  <2>6. ProbesSound'
    BY <2>3 DEF ProbesSound
  <2>7. CountersAreStreaks'
    BY <2>1 DEF Inv, CountersAreStreaks, Streak
  <2> QED  BY <2>1, <2>5, <2>6, <2>7 DEF Inv, BitWithinThresholds, GaugeOrPending, CleanReturn
<1>5. ASSUME NEW b \in Backends, RecordOk(b) PROVE Inv'
  BY <1>5, RecordOkInv
<1>6. ASSUME NEW b \in Backends, RecordFail(b) PROVE Inv'
  BY <1>6, RecordFailInv
<1>7. CASE Wipe
  <2>0. /\ pending \in [b : Backends, wipe : BOOLEAN, gauge : {0, 1}] /\ pending # None
        /\ pending.wipe /\ pending.b \in Backends
    BY <1>7 DEF Wipe, Inv, TypeOK
  <2> DEFINE b == pending.b
  <2>1. /\ backend' = [backend EXCEPT ![b] = WipeStats(backend[b])]
        /\ pending' = [pending EXCEPT !.wipe = FALSE]
        /\ UNCHANGED <<answers, probes, fails, passes, gauge, recent, fed>>
    BY <1>7 DEF Wipe
  <2>2. /\ pending' \in [b : Backends, wipe : BOOLEAN, gauge : {0, 1}] /\ pending' # None
        /\ pending'.b = b /\ pending'.gauge = pending.gauge /\ pending'.wipe = FALSE
    BY <2>0, <2>1
  <2>3. /\ backend' \in [Backends -> BackendType]
        /\ \A c \in Backends : backend'[c].healthy = backend[c].healthy
        /\ \A c \in Backends : c # b => backend'[c] = backend[c]
        /\ backend'[b].ewma = 0 /\ backend'[b].hasStats = FALSE
    <3> DEFINE new == WipeStats(backend[b])
    <3>0. PICK be \in BackendType : be = backend[b]
      BY <1>0, <2>0
    <3>1. /\ new \in BackendType /\ new.healthy = backend[b].healthy
          /\ new.ewma = 0 /\ new.hasStats = FALSE
      BY <3>0, BackendOps
    <3>2. backend' = [backend EXCEPT ![b] = new] /\ b \in Backends
      BY <2>0, <2>1
    <3> HIDE DEF new, b
    <3> QED  BY <1>0, <3>1, <3>2
  <2>4. TypeOK'
    BY <2>1, <2>2, <2>3 DEF Inv, TypeOK
  <2>5. ProbesSound' /\ CountersAreStreaks'
    BY <2>1 DEF Inv, ProbesSound, InFlight, CountersAreStreaks, Streak
  <2>6. BitWithinThresholds'
    BY <2>1, <2>3 DEF Inv, BitWithinThresholds
  <2>7. GaugeOrPending'
    BY <2>0, <2>1, <2>2, <2>3 DEF Inv, GaugeOrPending
  <2>8. CleanReturn'
    BY <2>1, <2>2, <2>3 DEF Inv, CleanReturn
  <2> QED  BY <2>4, <2>5, <2>6, <2>7, <2>8 DEF Inv
<1>8. CASE SetGauge
  <2>0. /\ pending \in [b : Backends, wipe : BOOLEAN, gauge : {0, 1}] /\ pending # None
        /\ ~pending.wipe /\ pending.b \in Backends /\ pending.gauge \in {0, 1}
    BY <1>8 DEF SetGauge, Inv, TypeOK
  <2>1. /\ gauge' = [gauge EXCEPT ![pending.b] = pending.gauge]
        /\ pending' = None
        /\ UNCHANGED <<backend, answers, probes, fails, passes, recent, fed>>
    BY <1>8 DEF SetGauge
  <2>2. TypeOK'
    BY <2>0, <2>1 DEF Inv, TypeOK
  <2>3. ProbesSound' /\ CountersAreStreaks' /\ BitWithinThresholds'
    BY <2>1 DEF Inv, ProbesSound, InFlight, CountersAreStreaks, Streak, BitWithinThresholds
  <2>4. GaugeOrPending'
    BY <2>0, <2>1 DEF Inv, TypeOK, GaugeOrPending
  <2>5. CleanReturn'
    BY <2>0, <2>1 DEF Inv, CleanReturn
  <2> QED  BY <2>2, <2>3, <2>4, <2>5 DEF Inv
<1>9. CASE UNCHANGED vars
  BY <1>9 DEF vars, Inv, TypeOK, ProbesSound, InFlight, CountersAreStreaks, Streak,
              BitWithinThresholds, GaugeOrPending, CleanReturn
<1> QED  BY <1>1, <1>2, <1>3, <1>4, <1>5, <1>6, <1>7, <1>8, <1>9 DEF Next

\* The inductive invariant holds in every behaviour of the checker.
THEOREM Invariance == Spec => []Inv
BY InitInv, NextInv, PTL DEF Spec

\* The state of the checker and of its pool is always well typed; in particular
\* the counters and the probes in flight stay within their bounds.
THEOREM TypeCorrect == Spec => []TypeOK
<1>1. Inv => TypeOK
  BY DEF Inv
<1> QED  BY <1>1, Invariance, PTL

\* failThreshold consecutive failures leave a backend out of the pool and
\* passThreshold consecutive successes leave it in, for all thresholds.
THEOREM BitFollows == Spec => []BitFollowsStreaks
<1>1. Inv => BitFollowsStreaks
  <2> SUFFICES ASSUME Inv, NEW b \in Backends
               PROVE  /\ Streak(b, FailThreshold, "fail") => ~backend[b].healthy
                      /\ Streak(b, PassThreshold, "ok") => backend[b].healthy
    BY DEF BitFollowsStreaks
  <2>1. FailThreshold \in 1..MaxCount /\ PassThreshold \in 1..MaxCount
    BY ThresholdAssumption
  <2>2. /\ fails[b] >= FailThreshold <=> Streak(b, FailThreshold, "fail")
        /\ passes[b] >= PassThreshold <=> Streak(b, PassThreshold, "ok")
    BY <2>1 DEF Inv, CountersAreStreaks
  <2>3. /\ backend[b].healthy => fails[b] < FailThreshold
        /\ ~backend[b].healthy => passes[b] < PassThreshold
    BY DEF Inv, BitWithinThresholds
  <2>4. fails[b] \in Int /\ passes[b] \in Int
    <3>1. fails \in [Backends -> 0..MaxCount] /\ passes \in [Backends -> 0..MaxCount]
      BY DEF Inv, TypeOK
    <3>2. 0..MaxCount \subseteq Int
      BY ThresholdAssumption
    <3> QED  BY <3>1, <3>2
  <2> QED  BY <2>1, <2>2, <2>3, <2>4
<1> QED  BY <1>1, Invariance, PTL

\* The gauge agrees with the bit whenever no record is under way.
THEOREM GaugeFollows == Spec => []GaugeAgrees
<1>1. Inv => GaugeAgrees
  BY DEF Inv, GaugeOrPending, GaugeAgrees
<1> QED  BY <1>1, Invariance, PTL

\* A backend that is back in the pool starts without statistics.
THEOREM ReturnsClean == Spec => []CleanReturn
<1>1. Inv => CleanReturn
  BY DEF Inv
<1> QED  BY <1>1, Invariance, PTL

\* Only the two branches of record that call SetHealthy change a healthy bit.
LEMMA OnlyRecordFlips ==
  ASSUME Inv, [Next]_vars, NEW b \in Backends
  PROVE  /\ backend[b].healthy /\ ~backend'[b].healthy => Eject(b)
         /\ ~backend[b].healthy /\ backend'[b].healthy => Restore(b)
<1> USE NoneAssumption
<1>0. backend \in [Backends -> BackendType]
  BY DEF Inv, TypeOK
<1>1. CASE UNCHANGED backend
  BY <1>1
<1>2. ASSUME NEW c \in Backends, Traffic(c) PROVE backend'[b].healthy = backend[b].healthy
  <2>0. PICK be \in BackendType : be = backend[c]
    BY <1>0
  <2>1. backend' = [backend EXCEPT ![c] = RecordLatency(be, Latency)]
    BY <1>2, <2>0 DEF Traffic
  <2>2. RecordLatency(be, Latency).healthy = be.healthy
    BY BackendOps
  <2> QED  BY <1>0, <2>0, <2>1, <2>2
<1>3. CASE Wipe
  <2>0. pending.b \in Backends
    BY <1>3 DEF Wipe, Inv, TypeOK
  <2>1. PICK be \in BackendType : be = backend[pending.b]
    BY <1>0, <2>0
  <2>2. backend' = [backend EXCEPT ![pending.b] = WipeStats(be)]
    BY <1>3, <2>1 DEF Wipe
  <2>3. WipeStats(be).healthy = be.healthy
    BY BackendOps
  <2>4. backend'[b].healthy = backend[b].healthy
    BY <1>0, <2>0, <2>1, <2>2, <2>3
  <2> QED  BY <2>4
<1>4. ASSUME NEW c \in Backends, Restore(c)
      PROVE  /\ ~(backend[b].healthy /\ ~backend'[b].healthy)
             /\ ~backend[b].healthy /\ backend'[b].healthy => Restore(b)
  <2>1. backend' = [backend EXCEPT ![c] = SwapHealthy(backend[c], TRUE)]
    BY <1>4 DEF Restore
  <2>2. CASE c = b
    <3>0. PICK be \in BackendType : be = backend[b]
      BY <1>0
    <3>1. backend'[b] = SwapHealthy(be, TRUE)
      BY <1>0, <2>1, <2>2, <3>0
    <3>2. backend'[b].healthy = TRUE
      BY <3>1 DEF SwapHealthy, BackendType
    <3> QED  BY <1>4, <2>2, <3>2
  <2>3. CASE c # b
    BY <1>0, <2>1, <2>3
  <2> QED  BY <2>2, <2>3
<1>5. ASSUME NEW c \in Backends, Eject(c)
      PROVE  /\ backend[b].healthy /\ ~backend'[b].healthy => Eject(b)
             /\ ~(~backend[b].healthy /\ backend'[b].healthy)
  <2>1. backend' = [backend EXCEPT ![c] = SwapHealthy(backend[c], FALSE)]
    BY <1>5 DEF Eject
  <2>2. CASE c = b
    <3>0. PICK be \in BackendType : be = backend[b]
      BY <1>0
    <3>1. backend'[b] = SwapHealthy(be, FALSE)
      BY <1>0, <2>1, <2>2, <3>0
    <3>2. backend'[b].healthy = FALSE
      BY <3>1 DEF SwapHealthy, BackendType
    <3> QED  BY <1>5, <2>2, <3>2
  <2>3. CASE c # b
    BY <1>0, <2>1, <2>3
  <2> QED  BY <2>2, <2>3
<1>6. \/ UNCHANGED backend
      \/ Wipe
      \/ \E c \in Backends : Traffic(c) \/ Restore(c) \/ Eject(c)
  BY DEF Next, vars, Tick, Flip, Probe, RecordOk, RecordFail, ConfirmHealthy, NotYetRestored,
         NotEjected, SetGauge
<1> QED  BY <1>1, <1>2, <1>3, <1>4, <1>5, <1>6

\* Anti-flap: no step flips the bit of a backend unless it completes a streak of
\* failThreshold failures, or of passThreshold successes, of that backend.
THEOREM AntiFlap == Spec => FlipsNeedStreaks
<1> DEFINE A == \A b \in Backends :
        /\ backend[b].healthy /\ ~backend'[b].healthy => Streak(b, FailThreshold, "fail")'
        /\ ~backend[b].healthy /\ backend'[b].healthy => Streak(b, PassThreshold, "ok")'
<1>1. Inv /\ Inv' /\ [Next]_vars => A
  <2> SUFFICES ASSUME Inv, Inv', [Next]_vars, NEW b \in Backends
               PROVE  /\ backend[b].healthy /\ ~backend'[b].healthy => Streak(b, FailThreshold, "fail")'
                      /\ ~backend[b].healthy /\ backend'[b].healthy => Streak(b, PassThreshold, "ok")'
    OBVIOUS
  <2>1. FailThreshold \in 1..MaxCount /\ PassThreshold \in 1..MaxCount
    BY ThresholdAssumption
  <2>2. /\ fails'[b] >= FailThreshold <=> Streak(b, FailThreshold, "fail")'
        /\ passes'[b] >= PassThreshold <=> Streak(b, PassThreshold, "ok")'
    BY <2>1 DEF Inv, CountersAreStreaks
  <2>3. Eject(b) => fails'[b] >= FailThreshold
    BY DEF Eject
  <2>4. Restore(b) => passes'[b] >= PassThreshold
    BY DEF Restore
  <2> QED  BY <2>2, <2>3, <2>4, OnlyRecordFlips
<1>2. Inv /\ Inv' /\ [Next]_vars => [A]_vars
  BY <1>1
<1> QED  BY <1>2, Invariance, PTL DEF Spec, FlipsNeedStreaks

\* No step returns an impostor to the pool: no probe of it ever passes the TLS
\* handshake, so record never sees a success of it.
THEOREM ImpostorKeptOut == Spec => ImpostorStaysOut
<1> DEFINE A == \A b \in Backends \ Trusted : ~backend[b].healthy => ~backend'[b].healthy
<1>1. Inv /\ [Next]_vars => A
  <2> SUFFICES ASSUME Inv, [Next]_vars, NEW b \in Backends \ Trusted, ~backend[b].healthy
               PROVE  ~backend'[b].healthy
    OBVIOUS
  <2>1. probes[b]["ok"] = 0
    BY DEF Inv, ProbesSound
  <2>2. ~Restore(b)
    BY <2>1 DEF Restore, Take
  <2> QED  BY <2>2, OnlyRecordFlips
<1>2. Inv /\ [Next]_vars => [A]_vars
  BY <1>1
<1> QED  BY <1>2, Invariance, PTL DEF Spec, ImpostorStaysOut

\* Every step of the checker is, to the pool, one that SharedPool allows or none at all.
LEMMA PoolStep == Inv /\ [Next]_vars => [Shared!Next]_(Shared!vars)
<1> SUFFICES ASSUME Inv, [Next]_vars PROVE Shared!Next \/ UNCHANGED Shared!vars
  OBVIOUS
<1> USE NoneAssumption
<1> DEFINE W == IF pending # None /\ pending.wipe THEN pending.b ELSE None
<1>1. ASSUME NEW b \in Backends, Traffic(b) PROVE Shared!Sampled(b)
  BY <1>1 DEF Traffic, Shared!Sampled, Shared!RecordLatency, RecordLatency
<1>2. ASSUME NEW b \in Backends, Restore(b) PROVE Shared!Up(b)
  <2>1. W = None
    BY <1>2 DEF Restore, Take
  <2>2. W' = b
    <3>1. pending' = [b |-> b, wipe |-> TRUE, gauge |-> 1]
      BY <1>2 DEF Restore
    <3>2. pending' \in [b : Backends, wipe : BOOLEAN, gauge : {0, 1}] /\ pending'.wipe /\ pending'.b = b
      BY <3>1
    <3> QED  BY <3>2
  <2> QED  BY <1>2, <2>1, <2>2 DEF Restore, Shared!Up, Shared!SwapHealthy, SwapHealthy
<1>3. ASSUME NEW b \in Backends, Eject(b) PROVE Shared!Down(b)
  <2>1. W = None
    BY <1>3 DEF Eject, Take
  <2>2. W' = None
    <3>1. pending' = [b |-> b, wipe |-> FALSE, gauge |-> 0]
      BY <1>3 DEF Eject
    <3> QED  BY <3>1
  <2> QED  BY <1>3, <2>1, <2>2 DEF Eject, Shared!Down, Shared!SwapHealthy, SwapHealthy
<1>4. CASE Wipe
  <2>1. pending \in [b : Backends, wipe : BOOLEAN, gauge : {0, 1}] /\ pending # None /\ pending.wipe
    BY <1>4 DEF Wipe, Inv, TypeOK
  <2>2. W = pending.b /\ W # None
    BY <2>1
  <2>3. W' = None
    BY <1>4, <2>1 DEF Wipe
  <2>4. Shared!Wiped
    BY <1>4, <2>2, <2>3 DEF Wipe, Shared!Wiped, Shared!WipeStats, WipeStats
  <2> QED  BY <2>4 DEF Shared!Next
<1>5. ASSUME NEW b \in Backends, ConfirmHealthy(b) PROVE UNCHANGED Shared!vars
  <2>1. pending' = [b |-> b, wipe |-> FALSE, gauge |-> 1] /\ pending = None /\ UNCHANGED backend
    BY <1>5 DEF ConfirmHealthy, Take
  <2> QED  BY <2>1 DEF Shared!vars
<1>6. CASE SetGauge
  BY <1>6 DEF SetGauge, Shared!vars
<1>7. CASE UNCHANGED <<backend, pending>>
  BY <1>7 DEF Shared!vars
<1>8. \/ UNCHANGED <<backend, pending>>
      \/ Wipe \/ SetGauge
      \/ \E b \in Backends : Traffic(b) \/ Restore(b) \/ Eject(b) \/ ConfirmHealthy(b)
  BY DEF Next, vars, Tick, Flip, Probe, RecordOk, RecordFail, NotYetRestored, NotEjected
<1> QED  BY <1>1, <1>2, <1>3, <1>4, <1>5, <1>6, <1>7, <1>8 DEF Shared!Next

\* The health checker implements SharedPool for every pool, all thresholds and any overlap
\* of its probes: what Balancer assumes of it (SetHealthy under c.mu, checker.go:96-119).
THEOREM CheckerKeepsRules == Spec => KeepsPoolRules
<1>1. Init => Shared!Init
  BY DEF Init, Shared!Init, Shared!NewBackend, NewBackend
<1> QED  BY <1>1, PoolStep, Invariance, PTL DEF Spec, KeepsPoolRules, Shared!Spec
--------------------------------------------------------------------------------
(* Convergence. *)

Sent(b) == probes[b]["sent"] > 0
Passed(b) == probes[b]["ok"] > 0
Failed(b) == probes[b]["fail"] > 0

\* A probe in flight stays until it has a result, and a result until record takes it.
LEMMA ProbeSteps ==
  ASSUME Inv, [Next]_vars, NEW b \in Backends
  PROVE  /\ Sent(b) => Sent(b)' \/ Probe(b)
         /\ Passed(b) => Passed(b)' \/ RecordOk(b)
         /\ Failed(b) => Failed(b)' \/ RecordFail(b)
         /\ Probe(b) => IF ProbeOK(b) THEN Passed(b)' ELSE Failed(b)'
         /\ Tick => Sent(b)'
<1>0. probes \in [Backends -> [{"sent", "ok", "fail"} -> 0..MaxProbes]]
  BY DEF Inv, TypeOK
<1> USE ProbesAssumption DEF Sent, Passed, Failed
<1>1. ASSUME Tick
      PROVE  Sent(b)' /\ probes'[b]["ok"] = probes[b]["ok"] /\ probes'[b]["fail"] = probes[b]["fail"]
  BY <1>0, <1>1 DEF Tick
<1>2. ASSUME NEW c \in Backends, Probe(c)
      PROVE  /\ c # b => probes'[b] = probes[b]
             /\ c = b => /\ probes'[b]["ok"] >= probes[b]["ok"]
                         /\ probes'[b]["fail"] >= probes[b]["fail"]
                         /\ IF ProbeOK(b) THEN Passed(b)' ELSE Failed(b)'
  <2>1. CASE ProbeOK(c)
    <3>1. probes' = [probes EXCEPT ![c] = [probes[c] EXCEPT !["sent"] = @ - 1, !["ok"] = @ + 1]]
      BY <1>0, <1>2, <2>1 DEF Probe
    <3> QED  BY <1>0, <2>1, <3>1
  <2>2. CASE ~ProbeOK(c)
    <3>1. probes' = [probes EXCEPT ![c] = [probes[c] EXCEPT !["sent"] = @ - 1, !["fail"] = @ + 1]]
      BY <1>0, <1>2, <2>2 DEF Probe
    <3> QED  BY <1>0, <2>2, <3>1
  <2> QED  BY <2>1, <2>2
<1>3. ASSUME NEW c \in Backends, NEW res \in Results, Take(c, res)
      PROVE  /\ c # b => probes'[b] = probes[b]
             /\ \A s \in {"sent", "ok", "fail"} : s # res => probes'[b][s] = probes[b][s]
  <2>1. probes' = [probes EXCEPT ![c] = [probes[c] EXCEPT ![res] = @ - 1]]
    BY <1>0, <1>3 DEF Take, Results
  <2> QED  BY <1>0, <2>1 DEF Results
<1>4. ASSUME NEW c \in Backends, RecordOk(c) PROVE Take(c, "ok")
  BY <1>4, Zenon DEF RecordOk, Restore, ConfirmHealthy, NotYetRestored
<1>5. ASSUME NEW c \in Backends, RecordFail(c) PROVE Take(c, "fail")
  BY <1>5, Zenon DEF RecordFail, Eject, NotEjected
<1>6. ASSUME Probe(b)
      PROVE  IF ProbeOK(b) THEN Passed(b)' ELSE Failed(b)'
  BY <1>2, <1>6
<1>7. /\ Sent(b) => Sent(b)' \/ Probe(b)
      /\ Passed(b) => Passed(b)' \/ RecordOk(b)
      /\ Failed(b) => Failed(b)' \/ RecordFail(b)
  <2>1. CASE Tick BY <1>1, <2>1
  <2>2. ASSUME NEW c \in Backends, Probe(c)
        PROVE  /\ Sent(b) => Sent(b)' \/ Probe(b)
               /\ Passed(b) => Passed(b)'
               /\ Failed(b) => Failed(b)'
    <3>1. CASE c # b BY <1>2, <2>2, <3>1
    <3>2. CASE c = b
      <4>1. probes'[b]["ok"] >= probes[b]["ok"] /\ probes'[b]["fail"] >= probes[b]["fail"]
        BY <1>2, <2>2, <3>2
      <4>2. probes'[b]["ok"] \in Int /\ probes'[b]["fail"] \in Int
        <5>1. TypeOK' BY NextInv DEF Inv
        <5> QED  BY <5>1 DEF TypeOK
      <4>3. probes[b]["ok"] \in Int /\ probes[b]["fail"] \in Int
        BY <1>0
      <4> QED  BY <2>2, <3>2, <4>1, <4>2, <4>3
    <3> QED  BY <3>1, <3>2
  <2>3. ASSUME NEW c \in Backends, RecordOk(c)
        PROVE  /\ Sent(b) => Sent(b)'
               /\ Passed(b) => Passed(b)' \/ RecordOk(b)
               /\ Failed(b) => Failed(b)'
    <3>1. Take(c, "ok") /\ "ok" \in Results BY <1>4, <2>3 DEF Results
    <3>2. CASE c = b BY <1>3, <2>3, <3>1, <3>2
    <3>3. CASE c # b BY <1>3, <3>1, <3>3
    <3> QED  BY <3>2, <3>3
  <2>4. ASSUME NEW c \in Backends, RecordFail(c)
        PROVE  /\ Sent(b) => Sent(b)'
               /\ Passed(b) => Passed(b)'
               /\ Failed(b) => Failed(b)' \/ RecordFail(b)
    <3>1. Take(c, "fail") /\ "fail" \in Results BY <1>5, <2>4 DEF Results
    <3>2. CASE c = b BY <1>3, <2>4, <3>1, <3>2
    <3>3. CASE c # b BY <1>3, <3>1, <3>3
    <3> QED  BY <3>2, <3>3
  <2>5. CASE UNCHANGED probes BY <2>5
  <2> QED  BY <2>1, <2>2, <2>3, <2>4, <2>5, Zenon DEF Next, vars, Flip, Traffic, Wipe, SetGauge
<1> QED  BY <1>1, <1>6, <1>7

\* record gives c.mu up again: it wipes if it has to, and sets the gauge.
LEMMA HolderSteps ==
  ASSUME Inv, [Next]_vars
  PROVE  /\ pending # None /\ pending.wipe =>
              (pending # None /\ pending.wipe)' \/ (pending # None /\ ~pending.wipe)'
         /\ pending # None /\ ~pending.wipe =>
              (pending # None /\ ~pending.wipe)' \/ (pending = None)'
         /\ Wipe => (pending # None /\ ~pending.wipe)'
         /\ SetGauge => (pending = None)'
<1>1. ASSUME Wipe PROVE pending # None /\ pending.wipe /\ pending' # None /\ ~pending'.wipe
  <2>1. /\ pending \in [b : Backends, wipe : BOOLEAN, gauge : {0, 1}]
        /\ pending' = [pending EXCEPT !.wipe = FALSE] /\ pending # None /\ pending.wipe
    BY <1>1 DEF Wipe, Inv, TypeOK
  <2>2. pending' \in [b : Backends, wipe : BOOLEAN, gauge : {0, 1}] /\ ~pending'.wipe
    BY <2>1
  <2> QED  BY <2>1, <2>2, NoneAssumption
<1>2. ASSUME SetGauge PROVE pending # None /\ ~pending.wipe /\ pending' = None
  BY <1>2, Zenon DEF SetGauge
<1>3. pending = None \/ Wipe \/ SetGauge \/ UNCHANGED pending
  BY Zenon DEF Next, vars, Tick, Flip, Traffic, Probe, RecordOk, Restore, ConfirmHealthy,
     NotYetRestored, RecordFail, Eject, NotEjected, Take
<1> QED  BY <1>1, <1>2, <1>3

\* record counts: a counter that no longer changes although results come in is at its bound.
LEMMA CountSteps ==
  ASSUME Inv, NEW b \in Backends
  PROVE  /\ RecordOk(b) /\ passes'[b] = passes[b] => passes[b] = MaxCount
         /\ RecordFail(b) /\ fails'[b] = fails[b] => fails[b] = MaxCount
<1> USE ThresholdAssumption
<1>0. fails \in [Backends -> 0..MaxCount] /\ passes \in [Backends -> 0..MaxCount]
  BY DEF Inv, TypeOK
<1>1. ASSUME RecordOk(b), passes'[b] = passes[b] PROVE passes[b] = MaxCount
  <2>1. passes' = [passes EXCEPT ![b] = Bump(passes[b])]
    BY <1>1 DEF RecordOk, Restore, ConfirmHealthy, NotYetRestored, CountOk
  <2> QED  BY <1>0, <1>1, <2>1 DEF Bump
<1>2. ASSUME RecordFail(b), fails'[b] = fails[b] PROVE fails[b] = MaxCount
  <2>1. fails' = [fails EXCEPT ![b] = Bump(fails[b])]
    BY <1>2 DEF RecordFail, Eject, NotEjected, CountFail
  <2> QED  BY <1>0, <1>2, <2>1 DEF Bump
<1> QED  BY <1>1, <1>2

Scheduled(b) == WF_vars(Probe(b)) /\ SF_vars(RecordOk(b)) /\ SF_vars(RecordFail(b))

CanGoOn(b) ==
    /\ Sent(b) => ENABLED <<Probe(b)>>_vars
    /\ pending = None /\ Passed(b) => ENABLED <<RecordOk(b)>>_vars
    /\ pending = None /\ Failed(b) => ENABLED <<RecordFail(b)>>_vars

SettlesFor(b) ==
    /\ <>[]ProbeOK(b) => <>[][passes'[b] = passes[b]]_vars
    /\ <>[]~ProbeOK(b) => <>[][fails'[b] = fails[b]]_vars

ConvergesFor(b) ==
    /\ <>[]ProbeOK(b) => <>[]backend[b].healthy
    /\ <>[]~ProbeOK(b) => <>[]~backend[b].healthy

\* The fairness, the enabled actions and the goal, backend by backend.
LEMMA PerBackend ==
    /\ Fairness => \A b \in Backends : Scheduled(b)
    /\ GoesOn => \A b \in Backends : CanGoOn(b)
    /\ CountersSettle => \A b \in Backends : SettlesFor(b)
    /\ (\A b \in Backends : ConvergesFor(b)) => Converges
BY PTL DEF Fairness, Scheduled, GoesOn, CanGoOn, CountersSettle, SettlesFor, Converges, ConvergesFor,
   Sent, Passed, Failed

\* c.mu is free again and again.
LEMMA LockFree == Spec /\ []GoesOn => []<>(pending = None)
<1>1. Inv /\ [Next]_vars =>
        /\ pending # None /\ pending.wipe =>
             (pending # None /\ pending.wipe)' \/ (pending # None /\ ~pending.wipe)'
        /\ pending # None /\ ~pending.wipe =>
             (pending # None /\ ~pending.wipe)' \/ (pending = None)'
  BY HolderSteps
<1>2. Inv /\ [Next]_vars /\ <<Wipe>>_vars => (pending # None /\ ~pending.wipe)'
  BY HolderSteps
<1>3. Inv /\ [Next]_vars /\ <<SetGauge>>_vars => (pending = None)'
  BY HolderSteps
<1>4. pending # None <=> ~(pending = None)
  OBVIOUS
<1> QED  BY <1>1, <1>2, <1>3, <1>4, Invariance, PTL DEF Spec, Fairness, GoesOn

\* The healthy bit converges to what the probes find, for every pool, all thresholds and
\* any overlap of the probes, with stale results of before still to be recorded: every tick
\* sends a probe, which gets c.mu in the end although others compete for it (checker.go:96),
\* and a counter that is not set back reaches its threshold.
THEOREM BitConverges ==
  Spec /\ []GoesOn /\ KeepsTicking /\ CountersSettle => Converges
<1> SUFFICES ASSUME NEW b \in Backends
             PROVE  Spec /\ []GoesOn /\ KeepsTicking /\ CountersSettle => ConvergesFor(b)
  <2>1. Spec /\ []GoesOn /\ KeepsTicking /\ CountersSettle => \A b \in Backends : ConvergesFor(b)
    OBVIOUS
  <2> QED  BY <2>1, PerBackend
<1>1. /\ Fairness => Scheduled(b)
      /\ GoesOn => CanGoOn(b)
      /\ CountersSettle => SettlesFor(b)
  BY PerBackend
<1> DEFINE Ups == passes[b] = MaxCount
           Downs == fails[b] = MaxCount
<1>2. Inv /\ [Next]_vars /\ <<Tick>>_vars => Sent(b)'
  BY ProbeSteps
<1>3. Inv => (Ups => backend[b].healthy) /\ (Downs => ~backend[b].healthy)
  BY ThresholdAssumption DEF Inv, BitWithinThresholds
<1>4. Inv /\ [Next]_vars /\ ProbeOK(b) /\ [passes'[b] = passes[b]]_vars =>
        /\ Sent(b) => Sent(b)' \/ Passed(b)'
        /\ Passed(b) => Passed(b)' \/ Ups'
        /\ Ups => Ups'
  BY ProbeSteps, CountSteps DEF vars
<1>5. Inv /\ [Next]_vars /\ ProbeOK(b) /\ <<Probe(b)>>_vars => Passed(b)'
  BY ProbeSteps
<1>6. Inv /\ [passes'[b] = passes[b]]_vars /\ <<RecordOk(b)>>_vars => Ups'
  BY CountSteps DEF vars
<1>7. Inv /\ [Next]_vars /\ ~ProbeOK(b) /\ [fails'[b] = fails[b]]_vars =>
        /\ Sent(b) => Sent(b)' \/ Failed(b)'
        /\ Failed(b) => Failed(b)' \/ Downs'
        /\ Downs => Downs'
  BY ProbeSteps, CountSteps DEF vars
<1>8. Inv /\ [Next]_vars /\ ~ProbeOK(b) /\ <<Probe(b)>>_vars => Failed(b)'
  BY ProbeSteps
<1>9. Inv /\ [fails'[b] = fails[b]]_vars /\ <<RecordFail(b)>>_vars => Downs'
  BY CountSteps DEF vars
<1> HIDE DEF Ups, Downs
<1>10. Spec /\ []GoesOn /\ KeepsTicking /\ <>[]ProbeOK(b) /\ <>[][passes'[b] = passes[b]]_vars
         => <>[]Ups
  BY <1>1, <1>2, <1>4, <1>5, <1>6, LockFree, Invariance, PTL
  DEF Spec, Scheduled, CanGoOn, KeepsTicking
<1>11. Spec /\ []GoesOn /\ KeepsTicking /\ <>[]~ProbeOK(b) /\ <>[][fails'[b] = fails[b]]_vars
         => <>[]Downs
  BY <1>1, <1>2, <1>7, <1>8, <1>9, LockFree, Invariance, PTL
  DEF Spec, Scheduled, CanGoOn, KeepsTicking
<1> QED
  BY <1>1, <1>3, <1>10, <1>11, Invariance, PTL DEF SettlesFor, ConvergesFor
================================================================================
