------------------------------ MODULE NonceCache -------------------------------
(***************************************************************************)
(* The in-memory NonceStore (src/internal/auth/nonce.go) with the two      *)
(* goroutines that share it: requests inside Verifier.Verify, which read   *)
(* the clock for the exp check and only later call CheckAndStore, and the  *)
(* sweeper, which reads the clock before it takes the lock.                *)
(*                                                                         *)
(* A token here is one that passes every check of Verify that depends      *)
(* neither on the clock nor on the store; module Verifier has those.       *)
(***************************************************************************)
EXTENDS Integers

CONSTANTS
    Requests,
    Tokens,      \* records [jti, exp]
    TTL,         \* the configured nonce_ttl
    MaxNow       \* bound on the clock

VARIABLES
    now,         \* wall clock; it never steps back in this model
    items,       \* the map jti |-> exp; Absent where the map has no entry
    pc,          \* where a request is in Verify
    token,       \* the token a request carries
    sweepNow,    \* the time the sweeper has read; Idle between two sweeps
    spent        \* history: exp of the token last let through with a jti

vars == <<now, items, pc, token, sweepNow, spent>>

Absent == -1
Idle == -1
Never == -1
ZeroTime == -2   \* time.Time{}; no Unix time of a token equals it
Jtis == {t.jti : t \in Tokens}

ASSUME TokensAssumption == \A t \in Tokens : t.exp \in Nat
ASSUME ClockAssumption == MaxNow \in Nat /\ TTL \in Nat

TypeOK ==
    /\ now \in Nat
    /\ items \in [Jtis -> {t.exp : t \in Tokens} \cup {Absent}]
    /\ pc \in [Requests -> {"arrived", "checked", "expired", "accepted", "replay"}]
    /\ token \in [Requests -> Tokens]
    /\ sweepNow \in Nat \cup {Idle}
    /\ spent \in [Jtis -> {t.exp : t \in Tokens} \cup {Never}]

Init ==
    /\ now = 0
    /\ items = [j \in Jtis |-> Absent]
    /\ pc = [r \in Requests |-> "arrived"]
    /\ token \in [Requests -> Tokens]
    /\ sweepNow = Idle
    /\ spent = [j \in Jtis |-> Never]

Tick ==
    /\ now < MaxNow
    /\ now' = now + 1
    /\ UNCHANGED <<items, pc, token, sweepNow, spent>>

--------------------------------------------------------------------------------
(* The request goroutine.                                                  *)

\* now.After(exp): a token is still good at the instant exp.
Expired(exp, t) == exp = 0 \/ t > exp

\* Verify reads the clock and checks exp against it.
CheckExp(r) ==
    /\ pc[r] = "arrived"
    /\ pc' = [pc EXCEPT ![r] = IF Expired(token[r].exp, now) THEN "expired" ELSE "checked"]
    /\ UNCHANGED <<now, items, token, sweepNow, spent>>

\* Mutant: every entry is kept for the configured ttl.
KeepForTTL(exp) == now + TTL

\* The exp an entry is stored with. Verify never passes the zero time.
StoredExp(exp) == IF exp = ZeroTime THEN now + TTL ELSE exp

Seen(jti) == items[jti] # Absent

\* CheckAndStore, whole under c.mu, and the outcome Verify makes of it.
CheckAndStore(r) ==
    LET jti == token[r].jti
        exp == token[r].exp
    IN  /\ pc[r] = "checked"
        /\ \/ /\ Seen(jti)
              /\ pc' = [pc EXCEPT ![r] = "replay"]
              /\ UNCHANGED <<items, spent>>
           \/ /\ ~Seen(jti)
              /\ pc' = [pc EXCEPT ![r] = "accepted"]
              /\ items' = [items EXCEPT ![jti] = StoredExp(exp)]
              /\ spent' = [spent EXCEPT ![jti] = exp]
        /\ UNCHANGED <<now, token, sweepNow>>

--------------------------------------------------------------------------------
(* The sweeper goroutine: a tick of its 30 s ticker may come at any time.  *)

SweepReadClock ==
    /\ sweepNow = Idle
    /\ sweepNow' = now
    /\ UNCHANGED <<now, items, pc, token, spent>>

\* Mutants: one sweep too early, and a sweep that waits for the ttl as well.
StaleInclusive(exp, t) == t >= exp
StaleAfterTTL(exp, t) == t > exp + TTL

Stale(exp, t) == t > exp

\* The loop over the map, under c.mu.
SweepDelete ==
    /\ sweepNow # Idle
    /\ items' = [j \in Jtis |-> IF items[j] # Absent /\ Stale(items[j], sweepNow)
                                THEN Absent ELSE items[j]]
    /\ sweepNow' = Idle
    /\ UNCHANGED <<now, pc, token, spent>>

--------------------------------------------------------------------------------
Next ==
    \/ Tick
    \/ \E r \in Requests : CheckExp(r) \/ CheckAndStore(r)
    \/ SweepReadClock
    \/ SweepDelete

\* Time passes, goroutines that can run do run, and the ticker keeps firing.
Fairness ==
    /\ WF_vars(Tick)
    /\ WF_vars(SweepReadClock)
    /\ WF_vars(SweepDelete)
    /\ \A r \in Requests : WF_vars(CheckAndStore(r))

Spec == Init /\ [][Next]_vars /\ Fairness

--------------------------------------------------------------------------------
(* Properties.                                                             *)

\* An entry is in the map for as long as the token that made it is good: the
\* sweeper (nonce.go:58-71), which works with a clock reading older than its
\* lock, never removes a jti whose token CheckExp would still let pass.
RememberedWhileGood ==
    \A j \in Jtis : spent[j] >= now => items[j] = spent[j]

\* The store and Verify together keep the promise of NonceWindow, exactly to
\* the tick and without refusing a jti that nobody has used, whatever the
\* interleaving of requests, clock and sweeper.
Window == INSTANCE NonceWindow WITH
    Slack <- 0,
    FailClosed <- FALSE,
    Forgetful <- FALSE,
    verdict <- [r \in Requests |-> CASE pc[r] = "accepted" -> "accepted"
                                     [] pc[r] = "replay"   -> "refused"
                                     [] OTHER              -> "open"]
ImplementsWindow == Window!Spec

\* Nothing the requests do keeps the sweeper from reading the clock, nor from its loop
\* over the map (nonce.go:58-71).
GoesOn ==
    /\ sweepNow = Idle => ENABLED <<SweepReadClock>>_vars
    /\ sweepNow # Idle => ENABLED <<SweepDelete>>_vars

\* "A background sweeper reclaims memory" (nonce.go:21): an entry whose exp the
\* clock gets past is removed in the end, so the map does not grow for ever.
Reclaimed ==
    \A j \in Jtis : (items[j] # Absent /\ items[j] < MaxNow) ~> items[j] = Absent

\* nonce.go:19-20 says that once the sweeper may drop an entry "the token is
\* already invalid on time grounds so a duplicate cannot be replayed anyway":
\* no token is let through twice.
AcceptedOnce ==
    \A r, s \in Requests :
        r # s /\ pc[r] = "accepted" /\ pc[s] = "accepted" => token[r] # token[s]
================================================================================
