----------------------------- MODULE HealthChecker -----------------------------
(***************************************************************************)
(* The active health checker of one pool (src/internal/health/checker.go): *)
(* the ticker starts a probe goroutine per backend, probes answer in any   *)
(* order, and record counts their results under c.mu. The checker owns     *)
(* the healthy bit and the gauge; request goroutines read the bit and feed *)
(* the latency statistics that a return to the pool wipes.                 *)
(***************************************************************************)
EXTENDS Pool

CONSTANTS
    Backends,
    Trusted,         \* backends whose certificate BackendTLS accepts
    FailThreshold,
    PassThreshold,
    MaxCount,        \* the counters stop counting here, above both thresholds
    MaxProbes,       \* bound on the probes of a backend in flight
    Latency,         \* the latency of a request, in ms
    None             \* the absence of a value

VARIABLES
    backend,         \* the pool: backend |-> Pool!BackendType
    answers,         \* whether a backend's health endpoint answers below 400
    probes,          \* backend |-> number of probes sent, and of those with a result
    fails, passes,   \* the counters of the checker
    pending,         \* what record, holding c.mu, still has to do; None when free
    gauge,           \* metrics.BackendHealthy; None while the series does not exist
    recent,          \* history: the last MaxCount results recorded, newest first
    fed              \* history: a latency was recorded since the bit last went up

vars == <<backend, answers, probes, fails, passes, pending, gauge, recent, fed>>

Results == {"ok", "fail"}

ASSUME ThresholdAssumption ==
    /\ FailThreshold \in Nat \ {0} /\ PassThreshold \in Nat \ {0}
    /\ MaxCount \in Nat /\ FailThreshold <= MaxCount /\ PassThreshold <= MaxCount
ASSUME ProbesAssumption == MaxProbes \in Nat \ {0} /\ Latency \in Nat
ASSUME NoneAssumption ==
    /\ None \notin {0, 1}
    /\ None \notin Results /\ None \notin Backends
    /\ None \notin [b : Backends, wipe : BOOLEAN, gauge : {0, 1}]
ASSUME TrustedAssumption == Trusted \subseteq Backends

TypeOK ==
    /\ backend \in [Backends -> BackendType]
    /\ answers \in [Backends -> BOOLEAN]
    /\ probes \in [Backends -> [{"sent", "ok", "fail"} -> 0..MaxProbes]]
    /\ fails \in [Backends -> 0..MaxCount]
    /\ passes \in [Backends -> 0..MaxCount]
    /\ pending \in {None} \cup [b : Backends, wipe : BOOLEAN, gauge : {0, 1}]
    /\ gauge \in [Backends -> {None, 0, 1}]
    /\ recent \in [Backends -> [1..MaxCount -> Results \cup {None}]]
    /\ fed \in [Backends -> BOOLEAN]

Init ==
    /\ backend = [b \in Backends |-> NewBackend]
    /\ answers \in [Backends -> BOOLEAN]
    /\ probes = [b \in Backends |-> [s \in {"sent", "ok", "fail"} |-> 0]]
    /\ fails = [b \in Backends |-> 0]
    /\ passes = [b \in Backends |-> 0]
    /\ pending = None
    /\ gauge = [b \in Backends |-> None]
    /\ recent = [b \in Backends |-> [i \in 1..MaxCount |-> None]]
    /\ fed = [b \in Backends |-> FALSE]

--------------------------------------------------------------------------------
(* The backends, and the request goroutines that share the pool.           *)

\* A backend breaks or recovers (/admin/break and /admin/recover of backend/app.py).
Flip(b) ==
    /\ answers' = [answers EXCEPT ![b] = ~@]
    /\ UNCHANGED <<backend, probes, fails, passes, pending, gauge, recent, fed>>

\* A request to b ends and records its latency.
Traffic(b) ==
    /\ backend' = [backend EXCEPT ![b] = RecordLatency(@, Latency)]
    /\ fed' = [fed EXCEPT ![b] = TRUE]
    /\ UNCHANGED <<answers, probes, fails, passes, pending, gauge, recent>>

--------------------------------------------------------------------------------
(* tick and probe.                                                         *)

InFlight(b) == probes[b]["sent"] + probes[b]["ok"] + probes[b]["fail"]

Tick ==
    /\ \A b \in Backends : InFlight(b) < MaxProbes
    /\ probes' = [b \in Backends |-> [probes[b] EXCEPT !["sent"] = @ + 1]]
    /\ UNCHANGED <<backend, answers, fails, passes, pending, gauge, recent, fed>>

\* Mutant: the probe does not verify the certificate.
ProbeSkipsTLS(b) == answers[b]

\* err == nil && status < 400, over the mTLS configuration of real traffic.
ProbeOK(b) == answers[b] /\ b \in Trusted

\* A probe gets its result; it has yet to take c.mu.
Probe(b) ==
    LET res == IF ProbeOK(b) THEN "ok" ELSE "fail"
    IN  /\ probes[b]["sent"] > 0
        /\ probes' = [probes EXCEPT ![b]["sent"] = @ - 1, ![b][res] = @ + 1]
        /\ UNCHANGED <<backend, answers, fails, passes, pending, gauge, recent, fed>>

--------------------------------------------------------------------------------
(* record, which holds c.mu from its first step to its last.               *)

Bump(n) == IF n < MaxCount THEN n + 1 ELSE n

Shift(b, res) ==
    recent' = [recent EXCEPT ![b] = [i \in 1..MaxCount |-> IF i = 1 THEN res ELSE @[i - 1]]]

Take(b, res) ==
    /\ pending = None
    /\ probes[b][res] > 0
    /\ probes' = [probes EXCEPT ![b][res] = @ - 1]
    /\ Shift(b, res)
    /\ UNCHANGED answers

\* Mutant: a pass does not interrupt a run of failures.
CountOkKeepsFails(b) == passes' = [passes EXCEPT ![b] = Bump(@)] /\ UNCHANGED fails

CountOk(b) ==
    /\ fails' = [fails EXCEPT ![b] = 0]
    /\ passes' = [passes EXCEPT ![b] = Bump(@)]

\* Mutant: every failure starts the count again.
CountFailRestarts(b) == fails' = [fails EXCEPT ![b] = 1] /\ passes' = [passes EXCEPT ![b] = 0]

CountFail(b) ==
    /\ passes' = [passes EXCEPT ![b] = 0]
    /\ fails' = [fails EXCEPT ![b] = Bump(@)]

\* Mutant: the statistics of before are kept.
RestoreKeepsStats(b) ==
    /\ Take(b, "ok") /\ CountOk(b)
    /\ ~backend[b].healthy /\ passes'[b] >= PassThreshold
    /\ backend' = [backend EXCEPT ![b] = SwapHealthy(@, TRUE)]
    /\ pending' = [b |-> b, wipe |-> FALSE, gauge |-> 1]
    /\ fed' = [fed EXCEPT ![b] = FALSE]
    /\ UNCHANGED gauge

\* SetHealthy(true): the bit is visible to Pick before the statistics are wiped.
Restore(b) ==
    /\ Take(b, "ok") /\ CountOk(b)
    /\ ~backend[b].healthy /\ passes'[b] >= PassThreshold
    /\ backend' = [backend EXCEPT ![b] = SwapHealthy(@, TRUE)]
    /\ pending' = [b |-> b, wipe |-> TRUE, gauge |-> 1]
    /\ fed' = [fed EXCEPT ![b] = FALSE]
    /\ UNCHANGED gauge

ConfirmHealthy(b) ==
    /\ Take(b, "ok") /\ CountOk(b)
    /\ backend[b].healthy
    /\ pending' = [b |-> b, wipe |-> FALSE, gauge |-> 1]
    /\ UNCHANGED <<backend, gauge, fed>>

NotYetRestored(b) ==
    /\ Take(b, "ok") /\ CountOk(b)
    /\ ~backend[b].healthy /\ passes'[b] < PassThreshold
    /\ UNCHANGED <<backend, pending, gauge, fed>>

\* SetHealthy(false).
Eject(b) ==
    /\ Take(b, "fail") /\ CountFail(b)
    /\ backend[b].healthy /\ fails'[b] >= FailThreshold
    /\ backend' = [backend EXCEPT ![b] = SwapHealthy(@, FALSE)]
    /\ pending' = [b |-> b, wipe |-> FALSE, gauge |-> 0]
    /\ UNCHANGED <<gauge, fed>>

NotEjected(b) ==
    /\ Take(b, "fail") /\ CountFail(b)
    /\ ~(backend[b].healthy /\ fails'[b] >= FailThreshold)
    /\ UNCHANGED <<backend, pending, gauge, fed>>

\* The second half of SetHealthy(true).
Wipe ==
    /\ pending # None /\ pending.wipe
    /\ backend' = [backend EXCEPT ![pending.b] = WipeStats(@)]
    /\ pending' = [pending EXCEPT !.wipe = FALSE]
    /\ UNCHANGED <<answers, probes, fails, passes, gauge, recent, fed>>

\* Mutant: the gauge only ever goes up.
SetGaugeUp ==
    /\ pending # None /\ ~pending.wipe
    /\ gauge' = [gauge EXCEPT ![pending.b] = 1]
    /\ pending' = None
    /\ UNCHANGED <<backend, answers, probes, fails, passes, recent, fed>>

\* The gauge is set and c.mu released.
SetGauge ==
    /\ pending # None /\ ~pending.wipe
    /\ gauge' = [gauge EXCEPT ![pending.b] = pending.gauge]
    /\ pending' = None
    /\ UNCHANGED <<backend, answers, probes, fails, passes, recent, fed>>

RecordOk(b) == Restore(b) \/ ConfirmHealthy(b) \/ NotYetRestored(b)
RecordFail(b) == Eject(b) \/ NotEjected(b)

Next ==
    \/ Tick
    \/ \E b \in Backends : Flip(b) \/ Traffic(b) \/ Probe(b) \/ RecordOk(b) \/ RecordFail(b)
    \/ Wipe
    \/ SetGauge

\* The ticker fires, the client's timeout ends every probe, and c.mu is a Go
\* mutex, which starves nobody.
Fairness ==
    /\ WF_vars(Tick) /\ WF_vars(Wipe) /\ WF_vars(SetGauge)
    /\ \A b \in Backends : WF_vars(Probe(b)) /\ SF_vars(RecordOk(b)) /\ SF_vars(RecordFail(b))

Spec == Init /\ [][Next]_vars /\ Fairness

--------------------------------------------------------------------------------
(* Properties.                                                             *)

\* The last n results recorded for b are all res.
Streak(b, n, res) == \A i \in 1..n : recent[b][i] = res

\* checker.go:7-8: failThreshold consecutive failures leave a backend unhealthy,
\* passThreshold consecutive successes leave it healthy, whatever came before and
\* however the probe goroutines overlap.
BitFollowsStreaks ==
    \A b \in Backends :
        /\ Streak(b, FailThreshold, "fail") => ~backend[b].healthy
        /\ Streak(b, PassThreshold, "ok") => backend[b].healthy

\* checker.go:10-12, anti-flap: nothing short of a full streak flips the bit. "A
\* single slow probe should not shift traffic, and a single lucky probe should
\* not restore a broken backend."
FlipsNeedStreaks ==
    [][\A b \in Backends :
        /\ backend[b].healthy /\ ~backend'[b].healthy => Streak(b, FailThreshold, "fail")'
        /\ ~backend[b].healthy /\ backend'[b].healthy => Streak(b, PassThreshold, "ok")']_vars

\* metrics.go:37, "1 if the backend is currently in the healthy pool, else 0":
\* whenever no record is under way the gauge agrees with the bit, and a series
\* that does not exist yet belongs to a backend that is in the pool.
GaugeAgrees ==
    pending = None =>
        \A b \in Backends : backend[b].healthy <=> gauge[b] \in {1, None}

\* pool.go:48-51: once SetHealthy(true) is over, a backend that no request has
\* used since its bit went up has no statistics left from before, neither the
\* average that score reads nor the flag that RecordLatency reads.
CleanReturn ==
    \A b \in Backends :
        backend[b].healthy /\ ~fed[b] /\ ~(pending # None /\ pending.b = b /\ pending.wipe)
            => backend[b].ewma = 0 /\ ~backend[b].hasStats

\* checker.go:14-17: a backend that cannot present a certificate of our CA does not
\* come back once it is out of the pool, whatever its endpoint answers.
ImpostorStaysOut ==
    [][\A b \in Backends \ Trusted : ~backend[b].healthy => ~backend'[b].healthy]_vars

\* To the request goroutines the checker does what SharedPool says and nothing else: however
\* the probes overlap, one bit flips at a time, only the other way, and its wipe comes before
\* the next flip (record holds c.mu over SetHealthy, checker.go:96).
Shared == INSTANCE SharedPool WITH
    Latencies <- {Latency},
    wiping <- IF pending # None /\ pending.wipe THEN pending.b ELSE None
KeepsPoolRules == Shared!Spec

\* A probe that was sent, a result that finds c.mu free and the holder of c.mu can go on.
GoesOn ==
    /\ pending # None /\ pending.wipe => ENABLED <<Wipe>>_vars
    /\ pending # None /\ ~pending.wipe => ENABLED <<SetGauge>>_vars
    /\ \A b \in Backends :
        /\ probes[b]["sent"] > 0 => ENABLED <<Probe(b)>>_vars
        /\ pending = None /\ probes[b]["ok"] > 0 => ENABLED <<RecordOk(b)>>_vars
        /\ pending = None /\ probes[b]["fail"] > 0 => ENABLED <<RecordFail(b)>>_vars

\* The ticker of Run fires again and again: tick starts the probes and waits for none.
KeepsTicking == []<><<Tick>>_vars

\* A counter that only goes up stops at its bound: once a backend no longer changes, the
\* results from before have been recorded at some time, and from then on nothing sets its
\* passes, or its fails, back to zero.
CountersSettle ==
    \A b \in Backends :
        /\ <>[]ProbeOK(b) => <>[][passes'[b] = passes[b]]_vars
        /\ <>[]~ProbeOK(b) => <>[][fails'[b] = fails[b]]_vars

\* The bit converges to the truth: a backend that answers from some time on is in
\* the pool from some time on, one that does not, or that is an impostor, is out.
Converges ==
    \A b \in Backends :
        /\ <>[]ProbeOK(b) => <>[]backend[b].healthy
        /\ <>[]~ProbeOK(b) => <>[]~backend[b].healthy
================================================================================
