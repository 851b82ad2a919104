--------------------------- MODULE NonceCacheProofs ----------------------------
(***************************************************************************)
(* For every set of requests and tokens, every ttl and every clock bound:  *)
(* the in-memory store is type correct, remembers a jti for as long as its *)
(* token is good, implements NonceWindow with no slack, and gives its      *)
(* memory back.                                                            *)
(***************************************************************************)
EXTENDS NonceCache, TLAPS

\* What RememberedWhileGood lacks to be inductive: the sweeper's reading of the
\* clock is never ahead of the clock, and an entry of the map is that of the
\* token last let through with its jti.
Inv ==
    /\ TypeOK
    /\ sweepNow <= now
    /\ \A j \in Jtis : items[j] # Absent => items[j] = spent[j]
    /\ \A j \in Jtis : items[j] = Absent => spent[j] < now

\* exp times are natural numbers, so no stored exp is confused with Absent or Never.
LEMMA ExpIsNat == \A t \in Tokens : t.jti \in Jtis /\ t.exp \in Nat
BY TokensAssumption DEF Jtis

\* NewInMemoryNonceStore's empty map satisfies the invariant.
LEMMA InitInv == Init => Inv
BY DEF Init, Inv, TypeOK, Absent, Idle, Never

\* Every step of a request, of the sweeper and of the clock preserves it.
LEMMA NextInv == Inv /\ [Next]_vars => Inv'
<1> USE DEF Absent, Idle, Never, ZeroTime
<1> SUFFICES ASSUME Inv, [Next]_vars PROVE Inv'
  OBVIOUS
<1>1. CASE Tick
  BY <1>1, ExpIsNat DEF Tick, Inv, TypeOK
<1>2. ASSUME NEW r \in Requests, CheckExp(r) PROVE Inv'
  BY <1>2 DEF CheckExp, Inv, TypeOK
<1>3. ASSUME NEW r \in Requests, CheckAndStore(r) PROVE Inv'
  <2> DEFINE jti == token[r].jti
             exp == token[r].exp
  <2>1. jti \in Jtis /\ exp \in Nat /\ exp \in {t.exp : t \in Tokens}
    BY ExpIsNat DEF Inv, TypeOK
  <2>2. CASE Seen(jti)
    BY <1>3, <2>2 DEF CheckAndStore, Inv, TypeOK
  <2>3. CASE ~Seen(jti)
    <3>1. /\ items' = [items EXCEPT ![jti] = exp]
          /\ spent' = [spent EXCEPT ![jti] = exp]
          /\ pc' = [pc EXCEPT ![r] = "accepted"]
          /\ UNCHANGED <<now, token, sweepNow>>
      BY <1>3, <2>1, <2>3 DEF CheckAndStore, StoredExp
    <3> HIDE DEF jti, exp
    <3>2. TypeOK'
      BY <3>1, <2>1 DEF Inv, TypeOK
    <3>3. (\A j \in Jtis : items[j] # Absent => items[j] = spent[j])'
      BY <3>1, <2>1 DEF Inv, TypeOK
    <3>4. (\A j \in Jtis : items[j] = Absent => spent[j] < now)'
      BY <3>1, <2>1 DEF Inv, TypeOK
    <3> QED  BY <3>1, <3>2, <3>3, <3>4 DEF Inv
  <2> QED  BY <2>2, <2>3
<1>4. CASE SweepReadClock
  BY <1>4 DEF SweepReadClock, Inv, TypeOK
<1>5. CASE SweepDelete
  <2>1. TypeOK'
    BY <1>5 DEF SweepDelete, Inv, TypeOK
  <2>2. ASSUME NEW j \in Jtis, items'[j] = Absent PROVE spent'[j] < now'
    <3>1. CASE items[j] = Absent
      BY <1>5, <3>1 DEF SweepDelete, Inv
    <3>2. CASE items[j] # Absent
      BY <1>5, <2>2, <3>2, ExpIsNat DEF SweepDelete, Stale, Inv, TypeOK
    <3> QED  BY <3>1, <3>2
  <2>3. ASSUME NEW j \in Jtis, items'[j] # Absent PROVE items'[j] = spent'[j]
    BY <1>5, <2>3 DEF SweepDelete, Inv
  <2>4. sweepNow' <= now'
    BY <1>5 DEF SweepDelete, Inv, TypeOK
  <2> QED  BY <2>1, <2>2, <2>3, <2>4 DEF Inv
<1>6. CASE UNCHANGED vars
  BY <1>6 DEF vars, Inv, TypeOK
<1> QED  BY <1>1, <1>2, <1>3, <1>4, <1>5, <1>6 DEF Next

\* The inductive invariant holds in every behaviour of the store.
THEOREM Invariance == Spec => []Inv
BY InitInv, NextInv, PTL DEF Spec

\* The state of the store, the requests and the sweeper is always well typed:
\* the map holds exps of tokens only.
THEOREM TypeCorrect == Spec => []TypeOK
<1>1. Inv => TypeOK
  BY DEF Inv
<1> QED  BY <1>1, Invariance, PTL

\* CheckAndStore and the sweeper never forget a jti whose token the exp check of
\* Verify would still let pass.
THEOREM Remembered == Spec => []RememberedWhileGood
<1>1. Inv => RememberedWhileGood
  BY ExpIsNat DEF Inv, TypeOK, RememberedWhileGood, Absent, Never
<1> QED  BY <1>1, Invariance, PTL

\* An empty store is an initial state of NonceWindow.
LEMMA InitWindow == Init => Window!Init
<1> SUFFICES ASSUME Init PROVE Window!Init
  OBVIOUS
<1>1. \A r \in Requests : pc[r] = "arrived"
  BY DEF Init
<1> QED  BY <1>1 DEF Init, Window!Init, Window!Jtis, Window!Never, Jtis, Never

\* CheckAndStore is the Accept or the Refuse of NonceWindow, a tick of the clock
\* lets its time pass, and nothing else that happens is visible to it.
LEMMA NextWindow == Inv /\ [Next]_vars => [Window!Next]_(Window!vars)
<1> SUFFICES ASSUME Inv, [Next]_vars PROVE [Window!Next]_(Window!vars)
  OBVIOUS
<1> DEFINE Verdict(p) == CASE p = "accepted" -> "accepted"
                           [] p = "replay"   -> "refused"
                           [] OTHER          -> "open"
           verdict == [r \in Requests |-> Verdict(pc[r])]
<1>0. /\ Verdict("arrived") = "open" /\ Verdict("checked") = "open" /\ Verdict("expired") = "open"
      /\ Verdict("accepted") = "accepted" /\ Verdict("replay") = "refused"
  OBVIOUS
<1> HIDE DEF Verdict
<1>1. CASE Tick
  <2>1. Window!TimePasses
    BY <1>1 DEF Tick, Window!TimePasses
  <2> QED  BY <2>1 DEF Window!Next
<1>2. ASSUME NEW r \in Requests, CheckExp(r) PROVE UNCHANGED Window!vars
  <2>1. \A q \in Requests : Verdict(pc'[q]) = Verdict(pc[q])
    BY <1>0, <1>2 DEF CheckExp, Inv, TypeOK
  <2>2. verdict' = verdict
    BY <2>1
  <2> QED  BY <1>2, <2>2 DEF CheckExp, Window!vars, Verdict
<1>3. ASSUME NEW r \in Requests, CheckAndStore(r) PROVE Window!Next
  <2>0. PICK t \in Tokens : t = token[r]
    BY DEF Inv, TypeOK
  <2>1. t.jti \in Jtis
    BY ExpIsNat
  <2>2. CASE Seen(t.jti)
    <3>1. pc' = [pc EXCEPT ![r] = "replay"] /\ UNCHANGED <<now, spent>>
      BY <1>3, <2>0, <2>2 DEF CheckAndStore
    <3>2. verdict' = [verdict EXCEPT ![r] = "refused"] /\ verdict[r] = "open"
      BY <1>0, <1>3, <3>1 DEF CheckAndStore, Inv, TypeOK
    <3>3. spent[t.jti] # -1
      BY <2>1, <2>2 DEF Seen, Inv, Absent
    <3>4. Window!Refuse(r, t)
      BY <3>1, <3>2, <3>3 DEF Window!Refuse, Window!Never, Verdict
    <3> QED  BY <3>4 DEF Window!Next
  <2>3. CASE ~Seen(t.jti)
    <3>1. /\ pc' = [pc EXCEPT ![r] = "accepted"]
          /\ spent' = [spent EXCEPT ![t.jti] = t.exp]
          /\ UNCHANGED now
      BY <1>3, <2>0, <2>3 DEF CheckAndStore
    <3>2. verdict' = [verdict EXCEPT ![r] = "accepted"] /\ verdict[r] = "open"
      BY <1>0, <1>3, <3>1 DEF CheckAndStore, Inv, TypeOK
    <3>3. spent[t.jti] < now + 0
      BY <2>1, <2>3, ExpIsNat DEF Seen, Inv, TypeOK, Absent, Never
    <3>4. Window!Accept(r, t)
      BY <3>1, <3>2, <3>3 DEF Window!Accept, Verdict
    <3> QED  BY <3>4 DEF Window!Next
  <2> QED  BY <2>2, <2>3
<1>4. CASE SweepReadClock
  BY <1>4 DEF SweepReadClock, Window!vars
<1>5. CASE SweepDelete
  BY <1>5 DEF SweepDelete, Window!vars
<1>6. CASE UNCHANGED vars
  BY <1>6 DEF vars, Window!vars
<1> QED  BY <1>1, <1>2, <1>3, <1>4, <1>5, <1>6 DEF Next

\* The in-memory store implements NonceWindow with no slack: whatever the
\* interleaving of requests, clock and sweeper, a jti is let through again only
\* when the clock is past the exp of the token that used it, and a jti nobody has
\* used is never refused as a replay.
THEOREM Refinement == Spec => ImplementsWindow
BY InitWindow, NextWindow, Invariance, PTL DEF Spec, Window!Spec, ImplementsWindow
--------------------------------------------------------------------------------
(* Liveness. ENABLED is left to TLC, in GoesOn, and so is the counting that takes the *)
(* fair clock from 0 to MaxNow.                                                       *)

Stored(j) == items[j] # Absent /\ items[j] < MaxNow
ReclaimedFor(j) == (items[j] # Absent /\ items[j] < MaxNow) ~> items[j] = Absent

\* Where the sweeper is once the clock has come to its last instant: with a reading made
\* before, between two sweeps, or with a reading that is past every exp below MaxNow.
Behind == sweepNow # Idle /\ sweepNow # MaxNow
Current == sweepNow # Idle /\ sweepNow = MaxNow
Resting == sweepNow = Idle

\* The promise, jti by jti.
LEMMA PerJti == (\A j \in Jtis : ReclaimedFor(j)) => Reclaimed
BY PTL DEF Reclaimed, ReclaimedFor

\* Nothing but the sweeper takes an entry away or changes it, and from the last instant on
\* each step of the sweeper brings the removal closer.
LEMMA SweeperSteps ==
  ASSUME NEW j \in Jtis, Inv, [Next]_vars
  PROVE  /\ Stored(j) => Stored(j)' \/ (items[j] = Absent)'
         /\ now = MaxNow =>
              /\ (now = MaxNow)'
              /\ Behind => Behind' \/ Resting'
              /\ Resting => Resting' \/ Current'
              /\ Current /\ Stored(j) => Current' \/ (items[j] = Absent)'
              /\ <<SweepReadClock>>_vars => Current'
              /\ <<SweepDelete>>_vars => Resting'
              /\ <<SweepDelete>>_vars /\ Current /\ Stored(j) => (items[j] = Absent)'
<1> USE DEF Absent, Idle, Behind, Current, Resting, Stored
<1>0. MaxNow \in Nat /\ now \in Nat
  BY ClockAssumption DEF Inv, TypeOK
<1>1. CASE SweepDelete
  <2>1. /\ items'[j] = IF items[j] # Absent /\ Stale(items[j], sweepNow)
                       THEN Absent ELSE items[j]
        /\ sweepNow' = Idle /\ now' = now
    BY <1>1 DEF SweepDelete
  <2>2. ~SweepReadClock
    BY <1>1 DEF SweepDelete, SweepReadClock
  <2> QED  BY <1>0, <2>1, <2>2 DEF Stale
<1>2. CASE SweepReadClock
  BY <1>0, <1>2 DEF SweepReadClock, SweepDelete
<1>3. CASE ~SweepDelete /\ ~SweepReadClock
  <2>1. UNCHANGED sweepNow
    BY <1>3 DEF Next, Tick, CheckExp, CheckAndStore, vars
  <2>2. now = MaxNow => now' = now
    BY <1>0, <1>3 DEF Next, Tick, CheckExp, CheckAndStore, vars
  <2>3. items[j] # Absent => items'[j] = items[j]
    <3>1. ASSUME NEW r \in Requests, CheckAndStore(r), items[j] # Absent
          PROVE  items'[j] = items[j]
      <4>1. CASE Seen(token[r].jti)
        BY <3>1, <4>1 DEF CheckAndStore
      <4>2. CASE ~Seen(token[r].jti)
        <5>1. j # token[r].jti
          BY <3>1, <4>2 DEF Seen
        <5>2. PICK e : items' = [items EXCEPT ![token[r].jti] = e]
          BY <3>1, <4>2, Zenon DEF CheckAndStore
        <5> QED  BY <5>1, <5>2 DEF Inv, TypeOK
      <4> QED  BY <4>1, <4>2
    <3>2. Tick \/ (\E r \in Requests : CheckExp(r)) \/ UNCHANGED vars => UNCHANGED items
      BY DEF Tick, CheckExp, vars
    <3> QED  BY <1>3, <3>1, <3>2 DEF Next
  <2> QED  BY <1>3, <2>1, <2>2, <2>3
<1> QED  BY <1>1, <1>2, <1>3

\* The background sweeper reclaims memory: once the clock has come past an exp its entry is
\* removed, even when the sweep under way works with an earlier reading of the clock.
THEOREM MemoryReclaimed == Spec /\ []GoesOn /\ <>(now = MaxNow) => Reclaimed
<1> SUFFICES ASSUME NEW j \in Jtis
             PROVE  Spec /\ []GoesOn /\ <>(now = MaxNow) => ReclaimedFor(j)
  <2>1. Spec /\ []GoesOn /\ <>(now = MaxNow) => \A j \in Jtis : ReclaimedFor(j)
    OBVIOUS
  <2> QED  BY <2>1, PerJti
<1>1. Inv /\ [Next]_vars =>
        /\ Stored(j) => Stored(j)' \/ (items[j] = Absent)'
        /\ now = MaxNow =>
             /\ (now = MaxNow)'
             /\ Behind => Behind' \/ Resting'
             /\ Resting => Resting' \/ Current'
             /\ Current /\ Stored(j) => Current' \/ (items[j] = Absent)'
             /\ <<SweepReadClock>>_vars => Current'
             /\ <<SweepDelete>>_vars => Resting'
             /\ <<SweepDelete>>_vars /\ Current /\ Stored(j) => (items[j] = Absent)'
  BY SweeperSteps
<1>2. (items[j] # Absent /\ items[j] < MaxNow) <=> Stored(j)
  BY DEF Stored
<1>3. /\ Behind \/ Current \/ Resting
      /\ Behind \/ Current => sweepNow # Idle
      /\ Resting => sweepNow = Idle
  BY DEF Behind, Current, Resting
<1> QED  BY <1>1, <1>2, <1>3, Invariance, PTL DEF Spec, Fairness, GoesOn, ReclaimedFor
================================================================================
