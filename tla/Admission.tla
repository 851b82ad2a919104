------------------------------- MODULE Admission -------------------------------
(***************************************************************************)
(* What a request goes through, whoever looks at it: the process, which    *)
(* sees connections and a shutdown (Gateway), or the goroutine that serves *)
(* it (Handler). It is open until its token is judged. Then it is refused, *)
(* or it uses up its jti and is active until it is answered; the process,  *)
(* or a panic of its goroutine, may cut it off on the way.                 *)
(*                                                                         *)
(* Ends says that the process may end, and with it every request under     *)
(* way, and that the next one may find another memory of the jtis, or that *)
(* this one loses its memory as it runs.                                   *)
(***************************************************************************)

CONSTANTS
    Requests,
    Jtis,
    Ends

VARIABLES
    phase,       \* request |-> "none", "open", "active", "answered", "rejected" or "cut"
    carries,     \* request |-> the jti of its token, as a set: {} without a token
    used         \* the jtis the nonce store holds

vars == <<phase, carries, used>>

Init ==
    /\ phase = [r \in Requests |-> "none"]
    /\ carries = [r \in Requests |-> {}]
    /\ used = {}

Step(r, from, to) ==
    /\ phase[r] = from
    /\ phase' = [phase EXCEPT ![r] = to]

Open(r) ==
    /\ Step(r, "none", "open")
    /\ \E c \in {{}} \cup {{j} : j \in Jtis} : carries' = [carries EXCEPT ![r] = c]
    /\ UNCHANGED used

\* The token passes, and with it its jti has been used.
Admit(r) ==
    /\ Step(r, "open", "active")
    /\ carries[r] # {} /\ carries[r] \cap used = {}
    /\ used' = used \cup carries[r]
    /\ UNCHANGED carries

\* A request that is turned away, or whose goroutine panics, may have used up its jti.
Refuse(r) ==
    /\ Step(r, "open", "rejected") \/ Step(r, "open", "cut")
    /\ used' \in {used, used \cup carries[r]}
    /\ UNCHANGED carries

Answer(r) ==
    /\ Step(r, "active", "answered")
    /\ UNCHANGED <<carries, used>>

Underway == {r \in Requests : phase[r] \in {"open", "active"}}

\* The process ends.
End ==
    /\ Ends
    /\ phase' = [r \in Requests |-> IF r \in Underway THEN "cut" ELSE phase[r]]
    /\ used' = {}
    /\ UNCHANGED carries

\* The next process finds its store, and what it holds.
Recall ==
    /\ Ends /\ Underway = {} /\ used = {}
    /\ used' \in SUBSET Jtis
    /\ UNCHANGED <<phase, carries>>

\* The store loses what it held.
Forget ==
    /\ Ends
    /\ used' = {}
    /\ UNCHANGED <<phase, carries>>

Next ==
    \/ \E r \in Requests : Open(r) \/ Admit(r) \/ Refuse(r) \/ Answer(r)
    \/ End \/ Recall \/ Forget

Spec == Init /\ [][Next]_vars
================================================================================
