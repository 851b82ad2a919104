------------------------------ MODULE RedisNonce -------------------------------
(***************************************************************************)
(* The NonceStore shared by several gateway replicas                       *)
(* (src/internal/auth/redis_nonce.go), each with a clock of its own, over  *)
(* a Redis server that may crash and a network that may lose a command or  *)
(* its reply. One tick is a millisecond, the unit of Redis' expiries.      *)
(***************************************************************************)
EXTENDS Integers

CONSTANTS
    Requests,
    Tokens,        \* records [jti, exp] that pass the other checks of Verify
    Replicas,
    MaxSkew,       \* how far a replica's clock may be off real time
    DefaultTTL,    \* the five minutes CheckAndStore falls back to
    MaxNow         \* bound on the clock

VARIABLES
    now,           \* real time
    skew,          \* replica |-> what its clock is ahead of real time
    home,          \* the replica that serves a request
    token,         \* the token a request carries
    pc,            \* where a request is in Verify
    ttl,           \* the ttl a request computes before it calls SetNX
    up,            \* Redis answers
    keys,          \* Redis' keys: jti |-> last millisecond of the key, or Absent
    spent          \* history: exp of the token last let through with a jti, since Redis lost its keys

vars == <<now, skew, home, token, pc, ttl, up, keys, spent>>
setting == <<skew, home, token>>

Absent == -1
Never == -1
Jtis == {t.jti : t \in Tokens}

ASSUME TokensAssumption == \A t \in Tokens : t.exp \in Nat
ASSUME TimesAssumption ==
    /\ MaxSkew \in Nat
    /\ DefaultTTL \in Nat \ {0}
    /\ MaxNow \in Nat

TypeOK ==
    /\ now \in Nat
    /\ skew \in [Replicas -> -MaxSkew..MaxSkew]
    /\ home \in [Requests -> Replicas]
    /\ token \in [Requests -> Tokens]
    /\ pc \in [Requests -> {"arrived", "expired", "checked", "sending", "accepted", "replay"}]
    /\ ttl \in [Requests -> Nat]
    /\ \A r \in Requests : pc[r] = "sending" => ttl[r] > 0
    /\ up \in BOOLEAN
    /\ keys \in [Jtis -> Nat \cup {Absent}]
    /\ spent \in [Jtis -> Nat \cup {Never}]

Init ==
    /\ now = 0
    /\ skew \in [Replicas -> -MaxSkew..MaxSkew]
    /\ home \in [Requests -> Replicas]
    /\ token \in [Requests -> Tokens]
    /\ pc = [r \in Requests |-> "arrived"]
    /\ ttl = [r \in Requests |-> 0]
    /\ up = TRUE                         \* NewRedisNonceStore has pinged it
    /\ keys = [j \in Jtis |-> Absent]
    /\ spent = [j \in Jtis |-> Never]

Tick ==
    /\ now < MaxNow
    /\ now' = now + 1
    /\ UNCHANGED <<setting, pc, ttl, up, keys, spent>>

--------------------------------------------------------------------------------
(* A request in a replica.                                                 *)

Clock(r) == now + skew[home[r]]

Expired(exp, t) == exp = 0 \/ t > exp

\* Verify checks exp against the clock of its replica.
CheckExp(r) ==
    /\ pc[r] = "arrived"
    /\ pc' = [pc EXCEPT ![r] = IF Expired(token[r].exp, Clock(r)) THEN "expired" ELSE "checked"]
    /\ UNCHANGED <<now, setting, ttl, up, keys, spent>>

\* Mutants: no fallback for a token at its exp; a ttl a millisecond short.
RemainingNoFallback(d) == IF d < 0 THEN 0 ELSE d
RemainingShort(d) == IF d <= 1 THEN DefaultTTL ELSE d - 1

Remaining(d) == IF d <= 0 THEN DefaultTTL ELSE d

\* CheckAndStore: time.Until(exp), a later reading of the same clock.
ComputeTTL(r) ==
    /\ pc[r] = "checked"
    /\ ttl' = [ttl EXCEPT ![r] = Remaining(token[r].exp - Clock(r))]
    /\ pc' = [pc EXCEPT ![r] = "sending"]
    /\ UNCHANGED <<now, setting, up, keys, spent>>

\* Redis drops a key in the millisecond after its last one.
Live(j) == keys[j] # Absent /\ now <= keys[j]

\* Redis runs SET key 1 PX ttl NX.
RunSetNX(r) ==
    LET j == token[r].jti
    IN  keys' = IF Live(j) THEN keys ELSE [keys EXCEPT ![j] = now + ttl[r]]

\* The command runs and its reply arrives.
SetNX(r) ==
    LET t == token[r]
    IN  /\ pc[r] = "sending" /\ up
        /\ RunSetNX(r)
        /\ \/ /\ Live(t.jti)
              /\ pc' = [pc EXCEPT ![r] = "replay"]
              /\ UNCHANGED spent
           \/ /\ ~Live(t.jti)
              /\ pc' = [pc EXCEPT ![r] = "accepted"]
              /\ spent' = [spent EXCEPT ![t.jti] = t.exp]
        /\ UNCHANGED <<now, setting, ttl, up>>

\* The command runs and its reply is lost: go-redis sends the command again.
ReplyLost(r) ==
    /\ pc[r] = "sending" /\ up
    /\ RunSetNX(r)
    /\ UNCHANGED <<now, setting, pc, ttl, up, spent>>

\* Mutants: an error lets the request pass; an error is retried for ever.
FailOpen(r) ==
    /\ pc[r] = "sending"
    /\ pc' = [pc EXCEPT ![r] = "accepted"]
    /\ spent' = [spent EXCEPT ![token[r].jti] = token[r].exp]
    /\ UNCHANGED <<now, setting, ttl, up, keys>>
FailWhenUp(r) ==
    /\ pc[r] = "sending" /\ up
    /\ pc' = [pc EXCEPT ![r] = "replay"]
    /\ UNCHANGED <<now, setting, ttl, up, keys, spent>>

\* SetNX returns an error (refused, timed out, retries used up): fail closed.
StoreError(r) ==
    /\ pc[r] = "sending"
    /\ pc' = [pc EXCEPT ![r] = "replay"]
    /\ UNCHANGED <<now, setting, ttl, up, keys, spent>>

--------------------------------------------------------------------------------
(* The Redis server.                                                       *)

RedisStops ==
    /\ up
    /\ up' = FALSE
    /\ UNCHANGED <<now, setting, pc, ttl, keys, spent>>

\* With its keys, or without them: the chart gives Redis no volume.
RedisStarts ==
    /\ ~up
    /\ up' = TRUE
    /\ \/ UNCHANGED <<keys, spent>>
       \/ keys' = [j \in Jtis |-> Absent] /\ spent' = [j \in Jtis |-> Never]
    /\ UNCHANGED <<now, setting, pc, ttl>>

--------------------------------------------------------------------------------
Next ==
    \/ Tick
    \/ \E r \in Requests :
        CheckExp(r) \/ ComputeTTL(r) \/ SetNX(r) \/ ReplyLost(r) \/ StoreError(r)
    \/ RedisStops
    \/ RedisStarts

\* A goroutine that can run does run, and go-redis' timeouts end every call.
Fairness ==
    \A r \in Requests : WF_vars(ComputeTTL(r)) /\ WF_vars(StoreError(r))

Spec == Init /\ [][Next]_vars /\ Fairness

--------------------------------------------------------------------------------
(* Properties.                                                             *)

\* Unless it loses all its keys, Redis remembers a jti until the exp of its token, less
\* what the clock of the replica that computed the ttl (redis_nonce.go:39-44) may
\* be ahead, however late the command runs.
RememberedLessSkew ==
    \A j \in Jtis : spent[j] - MaxSkew >= now => Live(j)

\* All replicas together keep the promise of NonceWindow, with the clock skew as
\* slack: of concurrent requests on several replicas one wins, a lost reply or an
\* error never lets a second one in, and only a Redis that comes back without its
\* keys does, README.md:80 ("a second use returns reason=replay") notwithstanding.
Window == INSTANCE NonceWindow WITH
    Slack <- MaxSkew,
    FailClosed <- TRUE,
    Forgetful <- TRUE,
    verdict <- [r \in Requests |-> CASE pc[r] = "accepted" -> "accepted"
                                     [] pc[r] = "replay"   -> "refused"
                                     [] OTHER              -> "open"]
ImplementsWindow == Window!Spec

\* Neither a lock nor the state of Redis keeps a request from computing its ttl
\* (redis_nonce.go:39-44), nor go-redis from giving up on its command.
GoesOn ==
    \A r \in Requests :
        /\ pc[r] = "checked" => ENABLED <<ComputeTTL(r)>>_vars
        /\ pc[r] = "sending" => ENABLED <<StoreError(r)>>_vars

\* A request that passed the exp check gets an answer even while Redis is down
\* ("Redis unreachable: 401", README.md:498): it never waits for Redis to return.
Answered ==
    \A r \in Requests : pc[r] = "checked" ~> pc[r] \in {"accepted", "replay"}
================================================================================
