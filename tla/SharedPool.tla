------------------------------ MODULE SharedPool -------------------------------
(***************************************************************************)
(* What the health checker and the request goroutines may do to the pool   *)
(* (src/internal/lb/pool.go) they share. HealthChecker has every step of   *)
(* the checker and the least of the requests, Balancer the other way       *)
(* round; each is shown to keep to these rules, on which the other relies. *)
(***************************************************************************)
EXTENDS Pool

CONSTANTS
    Backends,
    Latencies,     \* of an exchange, in ms
    None           \* the absence of a value

VARIABLES
    backend,       \* backend |-> Pool!BackendType
    wiping         \* the backend SetHealthy(true) has still to wipe, or None

vars == <<backend, wiping>>

\* Requests that have come and gone may have left statistics.
Init ==
    /\ backend \in [Backends -> {NewBackend} \cup {RecordLatency(NewBackend, ms) : ms \in Latencies}]
    /\ wiping = None

--------------------------------------------------------------------------------
(* The checker, under its lock: one return to the pool at a time.          *)

Down(b) ==
    /\ wiping = None
    /\ backend[b].healthy
    /\ backend' = [backend EXCEPT ![b] = SwapHealthy(@, FALSE)]
    /\ UNCHANGED wiping

Up(b) ==
    /\ wiping = None
    /\ ~backend[b].healthy
    /\ backend' = [backend EXCEPT ![b] = SwapHealthy(@, TRUE)]
    /\ wiping' = b

Wiped ==
    /\ wiping # None
    /\ backend' = [backend EXCEPT ![wiping] = WipeStats(@)]
    /\ wiping' = None

--------------------------------------------------------------------------------
(* A request goroutine: forward acquires, samples, and releases.           *)

Acquired(b) ==
    /\ backend' = [backend EXCEPT ![b] = Acquire(@)]
    /\ UNCHANGED wiping

Sampled(b) ==
    /\ \E ms \in Latencies : backend' = [backend EXCEPT ![b] = RecordLatency(@, ms)]
    /\ UNCHANGED wiping

Released(b) ==
    /\ backend[b].inflight > 0
    /\ backend' = [backend EXCEPT ![b] = Release(@)]
    /\ UNCHANGED wiping

--------------------------------------------------------------------------------
Next ==
    \/ \E b \in Backends : Down(b) \/ Up(b) \/ Acquired(b) \/ Sampled(b) \/ Released(b)
    \/ Wiped

Spec == Init /\ [][Next]_vars
================================================================================
