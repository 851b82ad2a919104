------------------------------ MODULE NonceWindow ------------------------------
(***************************************************************************)
(* What a NonceStore (src/internal/auth/nonce.go) promises the Verifier,   *)
(* without saying how it remembers: a jti that has been let through is not *)
(* let through again before the exp of the token that used it has passed,  *)
(* and a jti nobody has used is not refused.                               *)
(*                                                                         *)
(* Slack is how much too early, in clock ticks, a store may forget a jti.  *)
(* FailClosed says that the store may refuse a fresh jti when it cannot    *)
(* reach its memory, Forgetful that it may lose the whole of it at once.   *)
(***************************************************************************)
EXTENDS Integers

CONSTANTS
    Requests,    \* calls of CheckAndStore
    Tokens,      \* records with (at least) the fields jti and exp
    Slack,
    FailClosed,
    Forgetful

VARIABLES
    now,         \* real time
    spent,       \* jti |-> exp of the token last let through with it and not forgotten
    verdict      \* request |-> "open", "accepted" or "refused"

vars == <<now, spent, verdict>>

Never == -1
Jtis == {t.jti : t \in Tokens}

Init ==
    /\ now = 0
    /\ spent = [j \in Jtis |-> Never]
    /\ verdict = [r \in Requests |-> "open"]

TimePasses ==
    /\ now' = now + 1
    /\ UNCHANGED <<spent, verdict>>

Accept(r, t) ==
    /\ verdict[r] = "open"
    /\ spent[t.jti] < now + Slack
    /\ spent' = [spent EXCEPT ![t.jti] = t.exp]
    /\ verdict' = [verdict EXCEPT ![r] = "accepted"]
    /\ UNCHANGED now

Refuse(r, t) ==
    /\ verdict[r] = "open"
    /\ spent[t.jti] # Never \/ FailClosed
    /\ verdict' = [verdict EXCEPT ![r] = "refused"]
    /\ UNCHANGED <<now, spent>>

Forget ==
    /\ Forgetful
    /\ spent' = [j \in Jtis |-> Never]
    /\ UNCHANGED <<now, verdict>>

Next ==
    \/ TimePasses \/ Forget
    \/ \E r \in Requests, t \in Tokens : Accept(r, t) \/ Refuse(r, t)

Spec == Init /\ [][Next]_vars
================================================================================
