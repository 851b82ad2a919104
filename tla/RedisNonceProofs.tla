--------------------------- MODULE RedisNonceProofs ----------------------------
(***************************************************************************)
(* For every number of replicas and requests and every bound on the skew   *)
(* of their clocks: replicas that share a Redis implement NonceWindow with *)
(* the skew as slack, over every crash, lost keys, lost command and lost   *)
(* reply, and answer every request.                                        *)
(***************************************************************************)
EXTENDS RedisNonce, TLAPS

\* A ttl in flight covers its token up to the skew, and it covers it better the
\* later it is used; a jti that was let through has a key that covers it too.
Inv ==
    /\ TypeOK
    /\ \A r \in Requests : pc[r] = "sending" => now + ttl[r] >= token[r].exp - MaxSkew
    /\ \A j \in Jtis : spent[j] # Never => keys[j] # Absent /\ keys[j] >= spent[j] - MaxSkew

\* exp times are natural numbers, so no exp is confused with Absent or Never.
LEMMA ExpIsNat == \A t \in Tokens : t.jti \in Jtis /\ t.exp \in Nat
BY TokensAssumption DEF Jtis

\* A fresh Redis and idle replicas satisfy the invariant.
LEMMA InitInv == Init => Inv
<1> SUFFICES ASSUME Init PROVE Inv
  OBVIOUS
<1>1. TypeOK
  BY TimesAssumption DEF Init, TypeOK, Absent, Never
<1> QED  BY <1>1 DEF Init, Inv, TypeOK, Never

\* SET NX, whether or not its reply arrives, leaves the jti with a key that covers
\* the request's token, and shortens the life of no key.
LEMMA RunSetNXCovers ==
  ASSUME Inv, NEW r \in Requests, pc[r] = "sending", RunSetNX(r)
  PROVE  /\ keys' \in [Jtis -> Nat \cup {Absent}]
         /\ \A j \in Jtis : keys[j] # Absent => keys'[j] # Absent /\ keys'[j] >= keys[j]
         /\ ~Live(token[r].jti) =>
              /\ keys'[token[r].jti] \in Nat
              /\ keys'[token[r].jti] >= token[r].exp - MaxSkew
<1> DEFINE jti == token[r].jti
<1>1. jti \in Jtis /\ token[r].exp \in Nat /\ now \in Nat /\ ttl[r] \in Nat /\ MaxSkew \in Nat
  BY ExpIsNat, TimesAssumption DEF Inv, TypeOK
<1>2. keys \in [Jtis -> Nat \cup {Absent}]
  BY DEF Inv, TypeOK
<1>3. CASE Live(jti)
  BY <1>1, <1>2, <1>3 DEF RunSetNX, Absent
<1>4. CASE ~Live(jti)
  <2>1. keys' = [keys EXCEPT ![jti] = now + ttl[r]]
    BY <1>4 DEF RunSetNX
  <2>2. keys[jti] # Absent => now + ttl[r] >= keys[jti]
    BY <1>1, <1>2, <1>4 DEF Live, Absent
  <2>3. now + ttl[r] >= token[r].exp - MaxSkew
    BY DEF Inv
  <2> HIDE DEF jti
  <2>4. keys'[jti] = now + ttl[r] /\ \A j \in Jtis : j # jti => keys'[j] = keys[j]
    BY <1>1, <1>2, <2>1
  <2>5. keys' \in [Jtis -> Nat \cup {Absent}]
    BY <1>1, <1>2, <2>1
  <2>6. \A j \in Jtis : keys[j] # Absent => keys'[j] # Absent /\ keys'[j] >= keys[j]
    BY <1>1, <1>2, <2>2, <2>4 DEF Absent
  <2> QED  BY <1>1, <2>3, <2>4, <2>5, <2>6 DEF jti
<1> QED  BY <1>3, <1>4

\* Every step preserves the invariant; a Redis without its keys has nothing to remember.
LEMMA NextInv == Inv /\ [Next]_vars => Inv'
<1> SUFFICES ASSUME Inv, [Next]_vars PROVE Inv'
  OBVIOUS
<1> USE DEF Absent, Never, setting
<1>1. CASE Tick
  BY <1>1, ExpIsNat, TimesAssumption DEF Tick, Inv, TypeOK
<1>2. ASSUME NEW r \in Requests, CheckExp(r) PROVE Inv'
  BY <1>2 DEF CheckExp, Inv, TypeOK
<1>3. ASSUME NEW r \in Requests, ComputeTTL(r) PROVE Inv'
  <2> DEFINE d == token[r].exp - Clock(r)
  <2>1. /\ skew[home[r]] \in -MaxSkew..MaxSkew /\ MaxSkew \in Nat /\ DefaultTTL \in Nat \ {0}
        /\ token[r].exp \in Nat /\ now \in Nat
    BY ExpIsNat, TimesAssumption DEF Inv, TypeOK
  <2>2. Remaining(d) \in Nat \ {0} /\ now + Remaining(d) >= token[r].exp - MaxSkew
    BY <2>1 DEF Clock, Remaining
  <2>3. /\ ttl' = [ttl EXCEPT ![r] = Remaining(d)]
        /\ pc' = [pc EXCEPT ![r] = "sending"]
        /\ UNCHANGED <<now, setting, up, keys, spent>>
    BY <1>3 DEF ComputeTTL
  <2> HIDE DEF d
  <2>4. TypeOK'
    BY <2>2, <2>3 DEF Inv, TypeOK
  <2>5. (\A q \in Requests : pc[q] = "sending" => now + ttl[q] >= token[q].exp - MaxSkew)'
    BY <2>2, <2>3 DEF Inv, TypeOK
  <2> QED  BY <2>3, <2>4, <2>5 DEF Inv
<1>4. ASSUME NEW r \in Requests, SetNX(r) PROVE Inv'
  <2> DEFINE jti == token[r].jti
  <2>1. /\ keys' \in [Jtis -> Nat \cup {Absent}]
        /\ \A j \in Jtis : keys[j] # Absent => keys'[j] # Absent /\ keys'[j] >= keys[j]
        /\ ~Live(jti) => keys'[jti] \in Nat /\ keys'[jti] >= token[r].exp - MaxSkew
    BY <1>4, RunSetNXCovers DEF SetNX
  <2>2. jti \in Jtis /\ token[r].exp \in Nat /\ MaxSkew \in Nat
    BY ExpIsNat, TimesAssumption DEF Inv, TypeOK
  <2>3. /\ UNCHANGED <<now, setting, ttl, up>>
        /\ \/ pc' = [pc EXCEPT ![r] = "replay"] /\ UNCHANGED spent
           \/ /\ ~Live(jti)
              /\ pc' = [pc EXCEPT ![r] = "accepted"]
              /\ spent' = [spent EXCEPT ![jti] = token[r].exp]
    BY <1>4 DEF SetNX
  <2> HIDE DEF jti
  <2>4. TypeOK'
    BY <2>1, <2>2, <2>3 DEF Inv, TypeOK
  <2>5. (\A q \in Requests : pc[q] = "sending" => now + ttl[q] >= token[q].exp - MaxSkew)'
    BY <2>3 DEF Inv, TypeOK
  <2>6. ASSUME NEW j \in Jtis, spent'[j] # Never
        PROVE  keys'[j] # Absent /\ keys'[j] >= spent'[j] - MaxSkew
    <3>1. CASE spent'[j] = spent[j]
      BY <2>1, <2>2, <2>6, <3>1 DEF Inv, TypeOK
    <3>2. CASE spent'[j] # spent[j]
      BY <2>1, <2>2, <2>3, <3>2 DEF Inv, TypeOK
    <3> QED  BY <3>1, <3>2
  <2> QED  BY <2>4, <2>5, <2>6 DEF Inv
<1>5. ASSUME NEW r \in Requests, ReplyLost(r) PROVE Inv'
  <2>1. /\ keys' \in [Jtis -> Nat \cup {Absent}]
        /\ \A j \in Jtis : keys[j] # Absent => keys'[j] # Absent /\ keys'[j] >= keys[j]
    BY <1>5, RunSetNXCovers DEF ReplyLost
  <2>2. UNCHANGED <<now, setting, pc, ttl, up, spent>>
    BY <1>5 DEF ReplyLost
  <2>3. TypeOK'
    BY <2>1, <2>2 DEF Inv, TypeOK
  <2>4. ASSUME NEW j \in Jtis, spent'[j] # Never
        PROVE  keys'[j] # Absent /\ keys'[j] >= spent'[j] - MaxSkew
    BY <2>1, <2>2, <2>4, TimesAssumption DEF Inv, TypeOK
  <2> QED  BY <2>2, <2>3, <2>4 DEF Inv
<1>6. ASSUME NEW r \in Requests, StoreError(r) PROVE Inv'
  BY <1>6 DEF StoreError, Inv, TypeOK
<1>7. CASE RedisStops
  BY <1>7 DEF RedisStops, Inv, TypeOK
<1>8. CASE RedisStarts
  <2>1. CASE UNCHANGED <<keys, spent>>
    BY <1>8, <2>1 DEF RedisStarts, Inv, TypeOK
  <2>2. CASE keys' = [j \in Jtis |-> Absent] /\ spent' = [j \in Jtis |-> Never]
    BY <1>8, <2>2 DEF RedisStarts, Inv, TypeOK
  <2> QED  BY <1>8, <2>1, <2>2 DEF RedisStarts
<1>9. CASE UNCHANGED vars
  BY <1>9 DEF vars, Inv, TypeOK
<1> QED  BY <1>1, <1>2, <1>3, <1>4, <1>5, <1>6, <1>7, <1>8, <1>9 DEF Next

\* The inductive invariant holds in every behaviour.
THEOREM Invariance == Spec => []Inv
BY InitInv, NextInv, PTL DEF Spec

\* Type correctness of the store; in particular, no SET NX is sent with a ttl of zero,
\* which go-redis would take for "no expiry".
THEOREM TypeCorrect == Spec => []TypeOK
<1>1. Inv => TypeOK
  BY DEF Inv
<1> QED  BY <1>1, Invariance, PTL

\* A jti let through on one replica is remembered until its exp, less the skew of the
\* replicas' clocks, by a Redis that has not lost its keys since.
THEOREM Remembered == Spec => []RememberedLessSkew
<1>1. Inv => RememberedLessSkew
  BY TimesAssumption DEF Inv, TypeOK, RememberedLessSkew, Live, Never, Absent
<1> QED  BY <1>1, Invariance, PTL

\* A fresh Redis is an initial state of NonceWindow.
LEMMA InitWindow == Init => Window!Init
<1> SUFFICES ASSUME Init PROVE Window!Init
  OBVIOUS
<1>1. \A r \in Requests : pc[r] = "arrived"
  BY DEF Init
<1> QED  BY <1>1 DEF Init, Window!Init, Window!Jtis, Window!Never, Jtis, Never

\* A reply of SetNX is the Accept or the Refuse of NonceWindow, an error is a
\* Refuse, a loss of the keys a Forget, and whatever else Redis or the network does is
\* invisible to it.
LEMMA NextWindow == Inv /\ [Next]_vars => [Window!Next]_(Window!vars)
<1> SUFFICES ASSUME Inv, [Next]_vars PROVE [Window!Next]_(Window!vars)
  OBVIOUS
<1> DEFINE Verdict(p) == CASE p = "accepted" -> "accepted"
                           [] p = "replay"   -> "refused"
                           [] OTHER          -> "open"
           verdict == [r \in Requests |-> Verdict(pc[r])]
<1>0. /\ Verdict("arrived") = "open" /\ Verdict("checked") = "open" /\ Verdict("expired") = "open"
      /\ Verdict("sending") = "open"
      /\ Verdict("accepted") = "accepted" /\ Verdict("replay") = "refused"
  OBVIOUS
<1> HIDE DEF Verdict
<1>1. CASE Tick
  <2>1. Window!TimePasses
    BY <1>1 DEF Tick, Window!TimePasses
  <2> QED  BY <2>1 DEF Window!Next
<1>2. ASSUME NEW r \in Requests, CheckExp(r) \/ ComputeTTL(r) PROVE UNCHANGED Window!vars
  <2>1. \A q \in Requests : Verdict(pc'[q]) = Verdict(pc[q])
    BY <1>0, <1>2 DEF CheckExp, ComputeTTL, Inv, TypeOK
  <2>2. verdict' = verdict
    BY <2>1
  <2> QED  BY <1>2, <2>2 DEF CheckExp, ComputeTTL, Window!vars, Verdict
<1>3. ASSUME NEW r \in Requests, SetNX(r) PROVE Window!Next
  <2>0. PICK t \in Tokens : t = token[r]
    BY DEF Inv, TypeOK
  <2>1. t.jti \in Jtis
    BY ExpIsNat
  <2>2. CASE Live(t.jti)
    <3>1. pc' = [pc EXCEPT ![r] = "replay"] /\ UNCHANGED <<now, spent>>
      BY <1>3, <2>0, <2>2 DEF SetNX
    <3>2. verdict' = [verdict EXCEPT ![r] = "refused"] /\ verdict[r] = "open"
      BY <1>0, <1>3, <3>1 DEF SetNX, Inv, TypeOK
    <3>3. Window!Refuse(r, t)
      BY <3>1, <3>2 DEF Window!Refuse, Verdict
    <3> QED  BY <3>3 DEF Window!Next
  <2>3. CASE ~Live(t.jti)
    <3>1. /\ pc' = [pc EXCEPT ![r] = "accepted"]
          /\ spent' = [spent EXCEPT ![t.jti] = t.exp]
          /\ UNCHANGED now
      BY <1>3, <2>0, <2>3 DEF SetNX
    <3>2. verdict' = [verdict EXCEPT ![r] = "accepted"] /\ verdict[r] = "open"
      BY <1>0, <1>3, <3>1 DEF SetNX, Inv, TypeOK
    <3>3. spent[t.jti] < now + MaxSkew
      BY <2>1, <2>3, TimesAssumption DEF Live, Inv, TypeOK, Absent, Never
    <3>4. Window!Accept(r, t)
      BY <3>1, <3>2, <3>3 DEF Window!Accept, Verdict
    <3> QED  BY <3>4 DEF Window!Next
  <2> QED  BY <2>2, <2>3
<1>4. ASSUME NEW r \in Requests, StoreError(r) PROVE Window!Next
  <2>0. PICK t \in Tokens : t = token[r]
    BY DEF Inv, TypeOK
  <2>1. pc' = [pc EXCEPT ![r] = "replay"] /\ UNCHANGED <<now, spent>>
    BY <1>4 DEF StoreError
  <2>2. verdict' = [verdict EXCEPT ![r] = "refused"] /\ verdict[r] = "open"
    BY <1>0, <1>4, <2>1 DEF StoreError, Inv, TypeOK
  <2>3. Window!Refuse(r, t)
    BY <2>1, <2>2 DEF Window!Refuse, Verdict
  <2> QED  BY <2>3 DEF Window!Next
<1>5. ASSUME NEW r \in Requests, ReplyLost(r) PROVE UNCHANGED Window!vars
  BY <1>5 DEF ReplyLost, Window!vars
<1>6. CASE RedisStops
  BY <1>6 DEF RedisStops, Window!vars
<1>8. CASE RedisStarts
  <2>1. CASE UNCHANGED spent
    BY <1>8, <2>1 DEF RedisStarts, Window!vars
  <2>2. CASE spent' = [j \in Jtis |-> Never]
    <3>1. Window!Forget
      BY <1>8, <2>2 DEF RedisStarts, Window!Forget, Window!Jtis, Window!Never, Jtis, Never
    <3> QED  BY <3>1 DEF Window!Next
  <2> QED  BY <1>8, <2>1, <2>2 DEF RedisStarts
<1>7. CASE UNCHANGED vars
  BY <1>7 DEF vars, Window!vars
<1> QED  BY <1>1, <1>2, <1>3, <1>4, <1>5, <1>6, <1>7, <1>8 DEF Next

\* Replicas that share a Redis implement NonceWindow with the skew of their clocks as slack,
\* over every lost command and lost reply; a Redis that loses its keys is its Forget.
THEOREM Refinement == Spec => ImplementsWindow
BY InitWindow, NextWindow, Invariance, PTL DEF Spec, Window!Spec, ImplementsWindow
--------------------------------------------------------------------------------
(* Liveness. ENABLED is left to TLC, in GoesOn. *)

Scheduled(r) == WF_vars(ComputeTTL(r)) /\ WF_vars(StoreError(r))
CanGoOn(r) ==
    /\ pc[r] = "checked" => ENABLED <<ComputeTTL(r)>>_vars
    /\ pc[r] = "sending" => ENABLED <<StoreError(r)>>_vars
AnsweredFor(r) == pc[r] = "checked" ~> pc[r] \in {"accepted", "replay"}

\* The fairness, the enabled steps and the promise, request by request.
LEMMA PerRequest ==
  /\ Fairness => \A r \in Requests : Scheduled(r)
  /\ GoesOn => \A r \in Requests : CanGoOn(r)
  /\ (\A r \in Requests : AnsweredFor(r)) => Answered
BY PTL DEF Fairness, Scheduled, GoesOn, CanGoOn, Answered, AnsweredFor

\* No step but the request's own moves it on, and each of those leads to an answer.
LEMMA Onward ==
  ASSUME NEW r \in Requests, Inv, [Next]_vars
  PROVE  /\ pc[r] = "checked" => pc'[r] \in {"checked", "sending"}
         /\ pc[r] = "sending" => pc'[r] \in {"sending", "accepted", "replay"}
         /\ pc[r] = "checked" /\ <<ComputeTTL(r)>>_vars => pc'[r] = "sending"
         /\ pc[r] = "sending" /\ <<StoreError(r)>>_vars => pc'[r] = "replay"
<1>1. ASSUME NEW s \in Requests,
             CheckExp(s) \/ ComputeTTL(s) \/ SetNX(s) \/ ReplyLost(s) \/ StoreError(s)
      PROVE  /\ pc[r] = "checked" => pc'[r] \in {"checked", "sending"}
             /\ pc[r] = "sending" => pc'[r] \in {"sending", "accepted", "replay"}
  BY <1>1 DEF CheckExp, ComputeTTL, SetNX, ReplyLost, StoreError, Inv, TypeOK
<1>2. Tick \/ RedisStops \/ RedisStarts \/ UNCHANGED vars => pc' = pc
  BY DEF Tick, RedisStops, RedisStarts, vars
<1>3. /\ ComputeTTL(r) => pc'[r] = "sending"
      /\ StoreError(r) => pc'[r] = "replay"
  BY DEF ComputeTTL, StoreError, Inv, TypeOK
<1> QED  BY <1>1, <1>2, <1>3 DEF Next

\* A request that has passed the exp check is answered, whatever Redis, the network, the
\* clocks and the other requests do.
THEOREM AnsweredWithoutRedis == Spec /\ []GoesOn => Answered
<1> SUFFICES ASSUME NEW r \in Requests PROVE Spec /\ []GoesOn => AnsweredFor(r)
  <2>1. Spec /\ []GoesOn => \A r \in Requests : AnsweredFor(r)
    OBVIOUS
  <2> QED  BY <2>1, PerRequest
<1>1. (Fairness => Scheduled(r)) /\ (GoesOn => CanGoOn(r))
  BY PerRequest
<1>2. Inv /\ pc[r] = "checked" /\ [Next]_vars => (pc[r] = "checked")' \/ (pc[r] = "sending")'
  BY Onward
<1>3. Inv /\ pc[r] = "sending" /\ [Next]_vars
        => (pc[r] = "sending")' \/ (pc[r] \in {"accepted", "replay"})'
  BY Onward
<1>4. Inv /\ pc[r] = "checked" /\ [Next]_vars /\ <<ComputeTTL(r)>>_vars => (pc[r] = "sending")'
  BY Onward
<1>5. Inv /\ pc[r] = "sending" /\ [Next]_vars /\ <<StoreError(r)>>_vars
        => (pc[r] \in {"accepted", "replay"})'
  BY Onward
<1> QED
  BY <1>1, <1>2, <1>3, <1>4, <1>5, Invariance, PTL DEF Spec, Scheduled, CanGoOn, AnsweredFor
================================================================================
