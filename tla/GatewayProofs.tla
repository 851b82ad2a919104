----------------------------- MODULE GatewayProofs -----------------------------
(***************************************************************************)
(* For any requests, configuration files, grace period and number of       *)
(* faults: a jti passes once per memory of the configured store, a         *)
(* shutdown that runs to its end has answered the quick requests, the      *)
(* process implements Admission as Handler does, a signal that finds its   *)
(* handler ends it, and after the last fault a usable gateway serves.      *)
(***************************************************************************)
EXTENDS Gateway, TLAPS

Underway == {"open", "active", "stalled"}

\* A process that has not started its servers, or has ended, has no connection, and one
\* without a store has let nothing through from memory.
Wired ==
    /\ pc \in {"load", "store", "verifier", "services", "dead"} =>
        \A r \in Requests : conn[r] \notin Underway
    /\ pc \in {"load", "store", "verifier", "services", "dead"} => srv = [s \in Servers |-> "off"]
    /\ store = None => passed["memory"] = {}

\* The store is the configured one, and each store has every jti that it let through.
Remembered ==
    /\ store # None => (store = "redis" <=> cfg.redis # "none")
    /\ \A r \in passed["redis"] : jti[r] \in keys
    /\ \A r \in passed["memory"] : jti[r] \in mem

\* A request that a shutdown found with enough time left still has enough, or is answered.
InTime ==
    /\ pc = "drain" => \A r \in promised :
        conn[r] = "answered" \/ (conn[r] = "active" /\ work[r] < left)
    /\ pc = "metrics" => \A r \in promised : conn[r] = "answered"

IInv == TypeOK /\ Wired /\ Remembered /\ OncePerMemory /\ InTime /\ QuickAnswered
--------------------------------------------------------------------------------
\* The types hold when the process is started for the first time.
LEMMA TypeInit == Init => TypeOK
  <1> SUFFICES ASSUME Init PROVE TypeOK OBVIOUS
  <1>1. /\ sig \in BOOLEAN /\ scrape \in BOOLEAN /\ certs \in BOOLEAN /\ redisUp \in BOOLEAN
        /\ file \in Files /\ jti \in Uses
    BY Zenon DEF Init
  <1>2. /\ conn = [r \in Requests |-> "none"] /\ work = [r \in Requests |-> 0]
        /\ passed = [s \in Stores |-> {}] /\ srv = [s \in Servers |-> "off"]
        /\ faults = MaxFaults /\ left = 0 /\ attempt = 1 /\ pools = 0
        /\ promised = {} /\ mem = {} /\ keys = {}
        /\ pc = "load" /\ code = None /\ cfg = None /\ store = None
    BY Zenon DEF Init
  <1> QED BY <1>1, <1>2, TimesAssumption, FaultsAssumption, NoneAssumption DEF TypeOK

\* The types after a step of main on its way to the servers.
LEMMA TypeStart ==
    ASSUME TypeOK,
           \/ Load \/ UseMemory \/ Connected \/ NotReady \/ NewVerifier
           \/ RegisterService \/ StartServers \/ Notify
    PROVE  TypeOK'
  <1> USE NoneAssumption, TimesAssumption DEF TypeOK, Goto, startup, stores, traffic, outside, Servers, Stores
  <1>1. CASE Load BY <1>1 DEF Load
  <1>2. CASE UseMemory BY <1>2 DEF UseMemory
  <1>3. CASE Connected BY <1>3 DEF Connected
  <1>4. CASE NotReady BY <1>4 DEF NotReady
  <1>5. CASE NewVerifier BY <1>5 DEF NewVerifier
  <1>6. CASE RegisterService BY <1>6 DEF RegisterService
  <1>7. CASE Notify BY <1>7 DEF Notify
  <1>8. CASE StartServers BY <1>8 DEF StartServers
  <1> QED BY <1>1, <1>2, <1>3, <1>4, <1>5, <1>6, <1>7, <1>8

\* What surrounds the process keeps its types through a fault.
Outside == file \in Files /\ certs \in BOOLEAN /\ redisUp \in BOOLEAN /\ faults \in 0..MaxFaults

\* A fault uses up some of the bound and changes nothing else outside the process.
LEMMA TypeFault == ASSUME TypeOK, Fault PROVE Outside'
  BY FaultsAssumption DEF TypeOK, Fault, Outside

\* The types after the end of the process, however it came about.
LEMMA TypeExit ==
    ASSUME TypeOK, Outside', NEW status \in {0, 1, 2}, Exit(status)
    PROVE  TypeOK'
  <1>1. /\ conn' \in [Requests -> {"none", "open", "active", "stalled", "answered", "rejected", "cut"}]
        /\ work' \in [Requests -> Nat]
        /\ srv' \in [Servers -> {"off", "starting", "up", "closed"}]
    BY DEF TypeOK, Exit
  <1>2. sig' \in BOOLEAN /\ scrape' \in BOOLEAN
    BY Zenon DEF Exit
  <1>3. /\ pc' = "dead" /\ code' = status /\ cfg' = None /\ attempt' = 1 /\ pools' = 0
        /\ store' = None /\ mem' = {} /\ left' = 0
        /\ passed' = [passed EXCEPT !["memory"] = {}]
        /\ keys' = keys /\ jti' = jti /\ promised' = promised
    BY Zenon DEF Exit
  <1>4. passed' \in [Stores -> SUBSET Requests]
    BY <1>3 DEF TypeOK
  <1> QED BY <1>1, <1>2, <1>3, <1>4, TimesAssumption, NoneAssumption DEF TypeOK, Outside

\* The types after a step of a request.
LEMMA TypeRequest ==
    ASSUME TypeOK, NEW r \in Requests,
           \/ Connect(r) \/ HeaderTimeout(r) \/ Admit(r) \/ Refuse(r)
           \/ Respond(r) \/ Stall(r) \/ Resume(r)
    PROVE  TypeOK'
  <1> USE DEF TypeOK, Step, startup, stores, traffic, outside
  <1>1. CASE Connect(r) BY <1>1 DEF Connect
  <1>2. CASE HeaderTimeout(r) BY <1>2 DEF HeaderTimeout
  <1>3. CASE Admit(r)
    <2>1. mem' \subseteq Jtis /\ keys' \subseteq Jtis
      BY <1>3, UsesAssumption DEF Admit, Remember
    <2>3. passed' \in [Stores -> SUBSET Requests]
      BY <1>3 DEF Admit, Stores
    <2>2. work' \in [Requests -> Nat]
      BY <1>3, TimesAssumption DEF Admit
    <2> QED BY <1>3, <2>1, <2>2, <2>3 DEF Admit
  <1>4. CASE Refuse(r)
    <2>1. Outside'
      BY <1>4, TypeFault DEF Refuse, Outside
    <2>2. mem' \subseteq Jtis /\ keys' \subseteq Jtis
      BY <1>4, UsesAssumption DEF Refuse, Remember
    <2> QED BY <1>4, <2>1, <2>2 DEF Refuse, Outside
  <1>5. CASE Respond(r) BY <1>5 DEF Respond
  <1>6. CASE Stall(r) BY <1>6 DEF Stall
  <1>7. CASE Resume(r) BY <1>7 DEF Resume
  <1> QED BY <1>1, <1>2, <1>3, <1>4, <1>5, <1>6, <1>7

\* Every step keeps the types.
LEMMA TypeStep == ASSUME TypeOK, [Next]_vars PROVE TypeOK'
  <1> USE DEF startup, stores, traffic, outside
  <1>1. CASE \/ Load \/ UseMemory \/ Connected \/ NotReady \/ NewVerifier
             \/ RegisterService \/ StartServers \/ Notify
    BY <1>1, TypeStart
  <1>2. CASE StartFails
    <2>1. Exit(1) /\ UNCHANGED outside
      BY <1>2, Zenon DEF StartFails
    <2> QED BY <2>1, TypeExit DEF Outside, TypeOK
  <1>3. CASE Shutdown
    <2>1. left' \in 0..Grace
      <3>1. left' = Grace BY <1>3 DEF Shutdown
      <3> QED BY <3>1, TimesAssumption
    <2>2. srv' \in [Servers -> {"off", "starting", "up", "closed"}]
      <3>1. srv' = [srv EXCEPT !["gateway"] = "closed"] BY <1>3 DEF Shutdown
      <3> QED BY <3>1 DEF TypeOK
    <2>3. sig' \in BOOLEAN /\ promised' \subseteq Requests
      BY <1>3, Zenon DEF Shutdown
    <2>4. /\ pc = "wait" /\ pc' = "drain"
          /\ UNCHANGED <<code, startup, stores, traffic, scrape, outside, passed>>
      BY <1>3, Zenon DEF Shutdown
    <2> QED BY <2>1, <2>2, <2>3, <2>4, NoneAssumption DEF TypeOK
  <1>4. CASE ShutdownMetrics
    BY <1>4, NoneAssumption DEF ShutdownMetrics, TypeOK, Servers
  <1>5. CASE Return
    BY <1>5, TypeExit DEF Return, Outside, TypeOK
  <1>6. CASE Restart
    BY <1>6, NoneAssumption DEF Restart, TypeOK
  <1>7. ASSUME NEW s \in Servers, Listen(s) PROVE TypeOK'
    BY <1>7 DEF Listen, TypeOK
  <1>8. ASSUME NEW s \in Servers, ServeFails(s) PROVE TypeOK'
    <2>1. Outside' BY <1>8, TypeFault DEF ServeFails, Outside, TypeOK
    <2> QED BY <1>8, <2>1, TypeExit DEF ServeFails
  <1>9. ASSUME NEW r \in Requests,
               \/ Connect(r) \/ HeaderTimeout(r) \/ Admit(r) \/ Refuse(r)
               \/ Respond(r) \/ Stall(r) \/ Resume(r)
        PROVE  TypeOK'
    BY <1>9, TypeRequest
  <1>10. CASE Scrape
    <2>1. scrape' \in BOOLEAN BY <1>10, Zenon DEF Scrape
    <2> QED BY <1>10, <2>1 DEF Scrape, TypeOK
  <1>11. CASE Signal
    <2>1. Outside' BY <1>11, TypeFault DEF Signal
    <2>2. CASE pc = "wait" \/ Stopping
      BY <1>11, <2>1, <2>2 DEF Signal, TypeOK, Outside
    <2>3. CASE ~(pc = "wait" \/ Stopping)
      BY <1>11, <2>1, <2>3, TypeExit DEF Signal
    <2> QED BY <2>2, <2>3
  <1>12. CASE Kill
    BY <1>12, TypeFault, TypeExit DEF Kill
  <1>13. CASE Tick
    <2>1. left' \in 0..Grace
      BY <1>13, TimesAssumption DEF Tick, TypeOK
    <2>2. work' \in [Requests -> Nat]
      BY <1>13 DEF Tick, TypeOK
    <2> QED BY <1>13, <2>1, <2>2 DEF Tick, TypeOK
  <1>14. CASE Outage
    <2>1. Outside'
      <3>1. file' \in Files /\ faults' \in 0..MaxFaults
        BY <1>14, FaultsAssumption DEF Outage, TypeOK
      <3>2. certs' \in BOOLEAN /\ redisUp' \in BOOLEAN
        BY <1>14, Zenon DEF Outage, TypeOK
      <3> QED BY <3>1, <3>2 DEF Outside
    <2> QED BY <1>14, <2>1 DEF Outage, TypeOK, Outside
  <1>15. CASE RedisStarts
    BY <1>15 DEF RedisStarts, TypeOK
  <1>16. CASE UNCHANGED vars
    BY <1>16 DEF vars, TypeOK
  <1> QED
    BY <1>1, <1>2, <1>3, <1>4, <1>5, <1>6, <1>7, <1>8, <1>9, <1>10, <1>11, <1>12, <1>13, <1>14,
       <1>15, <1>16
    DEF Next, Main

\* Type correctness of Gateway; beyond types it says when there is an exit status, a
\* configuration and a store.
THEOREM TypeCorrect == Spec => []TypeOK
  BY TypeInit, TypeStep, PTL DEF Spec
--------------------------------------------------------------------------------
(* The requests: the store of a life, and the time a shutdown gives. *)

\* A process that is still starting has let nothing through.
LEMMA InitInv == Init => IInv
  <1> SUFFICES ASSUME Init PROVE IInv OBVIOUS
  <1>1. TypeOK BY TypeInit
  <1> QED BY <1>1, NoneAssumption
      DEF Init, IInv, Wired, Remembered, OncePerMemory, InTime, QuickAnswered, Underway, Stores

\* A step of main on its way to the servers.
LEMMA StartInv ==
    ASSUME IInv, TypeOK',
           \/ Load \/ UseMemory \/ Connected \/ NotReady \/ NewVerifier
           \/ RegisterService \/ StartServers \/ Notify
    PROVE  IInv'
  <1> USE NoneAssumption DEF IInv, Goto, startup, stores, traffic, Wired, Underway
  <1>1. UNCHANGED <<code, mem, keys, jti, conn, work, passed, promised>>
    BY Zenon DEF Load, UseMemory, Connected, NotReady, NewVerifier, RegisterService, StartServers, Notify
  <1>2. /\ pc \in {"load", "store", "verifier", "services", "arm"}
        /\ pc' \in {"store", "verifier", "services", "arm", "wait"}
    BY DEF Load, UseMemory, Connected, NotReady, NewVerifier, RegisterService, StartServers, Notify
  <1>3. OncePerMemory' /\ InTime' /\ QuickAnswered'
    <2>1. OncePerMemory' BY <1>1 DEF OncePerMemory
    <2>2. InTime' /\ QuickAnswered' BY <1>2 DEF InTime, QuickAnswered
    <2> QED BY <2>1, <2>2
  <1>4. Wired'
    BY <1>1, <1>2 DEF Load, UseMemory, Connected, NotReady, NewVerifier, RegisterService, StartServers,
       Notify, TypeOK
  <1>5. Remembered'
    <2>1. CASE Load
      BY <1>1, <2>1 DEF Load, Remembered, TypeOK
    <2>2. CASE UseMemory \/ Connected
      BY <1>1, <2>2 DEF UseMemory, Connected, Remembered, TypeOK
    <2>3. CASE UNCHANGED <<cfg, store>>
      BY <1>1, <2>3 DEF Remembered
    <2> QED BY <2>1, <2>2, <2>3 DEF NotReady, NewVerifier, RegisterService, StartServers, Notify
  <1> QED BY <1>3, <1>4, <1>5

\* The end of the process: nothing is promised unless the shutdown has run to its end.
LEMMA ExitInv ==
    ASSUME IInv, TypeOK', NEW status \in {0, 1, 2}, Exit(status), status = 0 => pc = "metrics"
    PROVE  IInv'
  <1> USE NoneAssumption DEF IInv
  <1>1. /\ pc' = "dead" /\ code' = status /\ store' = None
        /\ passed'["memory"] = {} /\ passed'["redis"] = passed["redis"]
        /\ srv' = [s \in Servers |-> "off"]
        /\ UNCHANGED <<keys, jti, promised>>
        /\ \A r \in Requests : conn'[r] = IF conn[r] \in Underway THEN "cut" ELSE conn[r]
    BY DEF Exit, Underway, TypeOK, Stores
  <1>2. Wired' BY <1>1 DEF Wired, Underway
  <1>3. Remembered' BY <1>1 DEF Remembered
  <1>4. OncePerMemory' BY <1>1 DEF OncePerMemory, Stores
  <1>5. InTime' BY <1>1 DEF InTime
  <1>6. QuickAnswered'
    BY <1>1 DEF QuickAnswered, InTime, TypeOK, Underway
  <1> QED BY <1>2, <1>3, <1>4, <1>5, <1>6

\* A request that is not let through, or comes to its end.
LEMMA ConnInv ==
    ASSUME IInv, TypeOK', NEW r \in Requests,
           \/ Connect(r) \/ HeaderTimeout(r) \/ Refuse(r)
           \/ Respond(r) \/ Stall(r) \/ Resume(r)
    PROVE  IInv'
  <1> USE DEF IInv, Step, startup, stores
  <1>1. /\ UNCHANGED <<pc, code, cfg, store, srv, left, jti, passed>>
        /\ mem \subseteq mem' /\ keys \subseteq keys'
    BY DEF Connect, HeaderTimeout, Refuse, Respond, Stall, Resume, Remember
  <1>2. /\ \E c : conn' = [conn EXCEPT ![r] = c]
        /\ work' = work \/ work' = [work EXCEPT ![r] = 0]
        /\ promised' \subseteq promised
    BY DEF Connect, HeaderTimeout, Refuse, Respond, Stall, Resume
  <1>3. pc \notin {"load", "store", "verifier", "services", "dead"}
    BY DEF Wired, Underway, Connect, HeaderTimeout, Refuse, Respond, Stall, Resume, TypeOK, Servers
  <1>4. Wired' BY <1>1, <1>3 DEF Wired
  <1>5. Remembered' BY <1>1 DEF Remembered, TypeOK
  <1>6. OncePerMemory' BY <1>1 DEF OncePerMemory
  <1>7. QuickAnswered' BY <1>1, <1>3 DEF QuickAnswered
  <1>8. InTime'
    <2> SUFFICES ASSUME NEW q \in promised', pc \in {"drain", "metrics"}
                 PROVE  \/ conn'[q] = "answered"
                        \/ pc = "drain" /\ conn'[q] = "active" /\ work'[q] < left
      BY <1>1 DEF InTime
    <2>1. /\ q \in promised /\ q \in Requests
          /\ \/ conn[q] = "answered"
             \/ pc = "drain" /\ conn[q] = "active" /\ work[q] < left
      BY <1>2 DEF InTime, TypeOK
    <2>2. CASE q # r
      <3>1. conn'[q] = conn[q] BY <1>2, <2>1, <2>2 DEF TypeOK
      <3>2. work'[q] = work[q] BY <1>2, <2>1, <2>2 DEF TypeOK
      <3> QED BY <2>1, <3>1, <3>2
    <2>3. CASE q = r
      <3>1. CASE Connect(r) \/ HeaderTimeout(r) \/ Refuse(r) \/ Resume(r)
        BY <2>1, <2>3, <3>1 DEF Connect, HeaderTimeout, Refuse, Resume
      <3>2. CASE Respond(r)
        BY <2>3, <3>2 DEF Respond, TypeOK
      <3>3. CASE Stall(r)
        BY <2>3, <3>3 DEF Stall
      <3> QED BY <3>1, <3>2, <3>3
    <2> QED BY <2>2, <2>3
  <1> QED BY <1>4, <1>5, <1>6, <1>7, <1>8

\* A request that is let through: its jti is new to the store.
LEMMA AdmitInv ==
    ASSUME IInv, TypeOK', NEW r \in Requests, Admit(r)
    PROVE  IInv'
  <1> USE DEF IInv, Step, startup
  <1>1. /\ UNCHANGED <<pc, code, cfg, store, srv, left, jti, promised>>
        /\ conn[r] = "open" /\ conn' = [conn EXCEPT ![r] = "active"]
    BY DEF Admit
  <1>2. /\ pc \notin {"load", "store", "verifier", "services", "dead"}
        /\ store \in Stores
    BY <1>1 DEF Wired, Underway, TypeOK
  <1>3. passed' = [passed EXCEPT ![store] = @ \cup {r}]
    BY <1>2, NoneAssumption DEF Admit, Remembered, Stores
  <1>4. /\ passed'[store] = passed[store] \cup {r}
        /\ \A s \in Stores : s # store => passed'[s] = passed[s]
    BY <1>2, <1>3 DEF TypeOK
  <1>5. /\ store = "redis" => jti[r] \notin keys /\ keys' = keys \cup {jti[r]} /\ mem' = mem
        /\ store = "memory" => jti[r] \notin mem /\ mem' = mem \cup {jti[r]} /\ keys' = keys
    BY DEF Admit, Has, Remember
  <1>6. Wired' BY <1>1, <1>2, NoneAssumption DEF Wired
  <1>7. Remembered'
    <2>1. CASE store = "redis"
      BY <1>1, <1>4, <1>5, <2>1 DEF Remembered, Stores
    <2>2. CASE store = "memory"
      BY <1>1, <1>4, <1>5, <2>2 DEF Remembered, Stores
    <2> QED BY <1>2, <2>1, <2>2 DEF Stores
  <1>8. OncePerMemory'
    <2>1. \A q \in passed[store] : jti[q] # jti[r]
      BY <1>2, <1>5 DEF Remembered, Stores
    <2>2. \A p, q \in passed'[store] : p # q => jti[p] # jti[q]
      BY <1>2, <1>4, <2>1 DEF OncePerMemory
    <2> QED BY <1>1, <1>4, <2>2 DEF OncePerMemory
  <1>9. InTime'
    <2>1. ASSUME NEW q \in promised, Stopping
          PROVE  q # r /\ conn'[q] = conn[q] /\ work'[q] = work[q]
      <3>1. q # r
        BY <1>1, <2>1 DEF InTime, Stopping
      <3>2. q \in Requests BY DEF TypeOK
      <3>3. PICK w : work' = [work EXCEPT ![r] = w]
        BY DEF Admit
      <3> QED BY <1>1, <3>1, <3>2, <3>3 DEF TypeOK
    <2> QED BY <1>1, <2>1 DEF InTime, Stopping
  <1>10. QuickAnswered' BY <1>1, <1>2 DEF QuickAnswered
  <1> QED BY <1>6, <1>7, <1>8, <1>9, <1>10

\* The shutdown, and the time that passes in it.
LEMMA ShutdownInv ==
    ASSUME IInv, TypeOK', Shutdown \/ ShutdownMetrics \/ Tick
    PROVE  IInv'
  <1> USE DEF IInv, startup, stores, traffic
  <1>1. UNCHANGED <<code, cfg, store, mem, keys, jti, conn, passed>>
    BY DEF Shutdown, ShutdownMetrics, Tick
  <1>2. /\ pc' \in {"load", "store", "verifier", "services", "dead"} => pc' = pc /\ srv' = srv
        /\ pc' = "dead" => promised' = promised
    BY DEF Shutdown, ShutdownMetrics, Tick
  <1>3. Wired' BY <1>1, <1>2 DEF Wired
  <1>4. Remembered' BY <1>1 DEF Remembered
  <1>5. OncePerMemory' BY <1>1 DEF OncePerMemory
  <1>6. QuickAnswered' BY <1>1, <1>2 DEF QuickAnswered
  <1>7. InTime'
    <2>1. CASE Shutdown
      BY <2>1 DEF Shutdown, InTime
    <2>2. CASE ShutdownMetrics
      <3>1. /\ pc = "drain" /\ pc' = "metrics" /\ UNCHANGED <<conn, promised>>
            /\ Busy => left = 0
        BY <2>2 DEF ShutdownMetrics, Drained
      <3>2. ASSUME NEW q \in promised, conn[q] # "answered" PROVE FALSE
        <4>1. /\ q \in Requests /\ work[q] \in Nat /\ conn[q] = "active" /\ work[q] < left
          BY <3>1, <3>2 DEF InTime, TypeOK
        <4> QED BY <3>1, <4>1 DEF Busy
      <3> QED BY <3>1, <3>2 DEF InTime
    <2>3. CASE Tick
      <3>1. ASSUME NEW q \in promised, pc = "drain", conn[q] = "active", work[q] < left
            PROVE  work'[q] < left'
        <4>1. q \in Requests BY DEF TypeOK
        <4>2. work[q] \in Nat BY <4>1 DEF TypeOK
        <4>3. left \in Nat BY TimesAssumption DEF TypeOK
        <4>4. work'[q] = work[q] - 1
          BY <2>3, <3>1, <4>1 DEF Tick
        <4>5. left' = left - 1
          BY <2>3, <3>1 DEF Tick, Stopping
        <4> QED BY <3>1, <4>2, <4>3, <4>4, <4>5
      <3>2. UNCHANGED <<pc, conn, promised>>
        BY <2>3 DEF Tick
      <3> QED BY <3>1, <3>2 DEF InTime
    <2> QED BY <2>1, <2>2, <2>3
  <1> QED BY <1>3, <1>4, <1>5, <1>6, <1>7

\* What is left either ends the process or changes nothing the invariants speak of.
LEMMA Inductive == ASSUME IInv, [Next]_vars PROVE IInv'
  <1> USE DEF startup, stores, traffic
  <1>1. TypeOK /\ TypeOK'
    BY TypeStep DEF IInv
  <1>2. ASSUME UNCHANGED <<code, cfg, store, left, mem, keys, jti, conn, work, passed>>,
               promised' = promised, pc' = pc,
               pc \notin {"load", "store", "verifier", "services", "dead"} \/ srv' = srv
        PROVE  IInv'
    <2>1. Wired' /\ Remembered' BY <1>2 DEF IInv, Wired, Remembered
    <2>2. OncePerMemory' /\ InTime' /\ QuickAnswered'
      BY <1>2 DEF IInv, OncePerMemory, InTime, QuickAnswered
    <2> QED BY <1>1, <2>1, <2>2 DEF IInv
  <1>3. CASE \/ Load \/ UseMemory \/ Connected \/ NotReady \/ NewVerifier
             \/ RegisterService \/ StartServers \/ Notify
    BY <1>1, <1>3, StartInv
  <1>4. CASE Shutdown \/ ShutdownMetrics \/ Tick
    BY <1>1, <1>4, ShutdownInv
  <1>5. CASE StartFails
    <2>1. Exit(1) BY <1>5, Zenon DEF StartFails
    <2> QED BY <1>1, <2>1, ExitInv
  <1>6. CASE Return
    BY <1>1, <1>6, ExitInv DEF Return
  <1>7. CASE Kill
    BY <1>1, <1>7, ExitInv DEF Kill
  <1>8. ASSUME NEW s \in Servers, ServeFails(s) PROVE IInv'
    BY <1>1, <1>8, ExitInv DEF ServeFails
  <1>9. CASE Signal
    BY <1>1, <1>2, <1>9, ExitInv DEF Signal
  <1>10. ASSUME NEW s \in Servers, Listen(s) PROVE IInv'
    <2>1. pc \notin {"load", "store", "verifier", "services", "dead"}
      BY <1>10 DEF Listen, IInv, Wired
    <2> QED BY <1>2, <1>10, <2>1 DEF Listen
  <1>11. ASSUME NEW r \in Requests,
               \/ Connect(r) \/ HeaderTimeout(r) \/ Refuse(r)
               \/ Respond(r) \/ Stall(r) \/ Resume(r)
        PROVE  IInv'
    BY <1>1, <1>11, ConnInv
  <1>12. ASSUME NEW r \in Requests, Admit(r) PROVE IInv'
    BY <1>1, <1>12, AdmitInv
  <1>13. CASE Scrape \/ Outage
    BY <1>2, <1>13 DEF Scrape, Outage
  <1>16. CASE RedisStarts
    <2>1. /\ UNCHANGED <<pc, code, cfg, store, srv, left, mem, jti, conn, work, promised>>
          /\ passed'["memory"] = passed["memory"]
          /\ \/ UNCHANGED <<keys, passed>>
             \/ passed'["redis"] = {}
      BY <1>1, <1>16 DEF RedisStarts, TypeOK, Stores
    <2>2. Wired' /\ Remembered' BY <2>1 DEF IInv, Wired, Remembered
    <2>3. OncePerMemory' BY <2>1 DEF IInv, OncePerMemory, Stores
    <2>4. InTime' /\ QuickAnswered' BY <2>1 DEF IInv, InTime, QuickAnswered
    <2> QED BY <1>1, <2>2, <2>3, <2>4 DEF IInv
  <1>14. CASE Restart
    <2>1. /\ UNCHANGED <<cfg, store, mem, keys, jti, conn, passed, srv>>
          /\ pc = "dead" /\ pc' = "load"
      BY <1>14 DEF Restart
    <2>2. Wired' /\ Remembered' BY <2>1 DEF IInv, Wired, Remembered
    <2>3. OncePerMemory' /\ InTime' /\ QuickAnswered'
      BY <2>1 DEF IInv, OncePerMemory, InTime, QuickAnswered
    <2> QED BY <1>1, <2>2, <2>3 DEF IInv
  <1>15. CASE UNCHANGED vars
    BY <1>2, <1>15 DEF vars
  <1> QED
    BY <1>3, <1>4, <1>5, <1>6, <1>7, <1>8, <1>9, <1>10, <1>11, <1>12, <1>13, <1>14, <1>15, <1>16
    DEF Next, Main

\* The inductive invariant holds in every state.
LEMMA Invariant == Spec => []IInv
  BY InitInv, Inductive, PTL DEF Spec

\* Two requests with one jti are let through only if the store lost its memory in between,
\* however many signals, crashes and outages there are.
THEOREM OneUsePerMemory == Spec => []OncePerMemory
  BY Invariant, PTL DEF IInv

\* A shutdown that runs to its end has answered every request that needed less than the
\* grace period and whose client went on reading, for every grace period and workload.
THEOREM QuickOnesAnswered == Spec => []QuickAnswered
  BY Invariant, PTL DEF IInv
--------------------------------------------------------------------------------
(* What a request goes through, as Admission has it. *)

\* A step that leaves the connections and the store alone shows nothing of itself.
LEMMA OutOfSight ==
    ASSUME UNCHANGED <<conn, jti>>, Used' = Used
    PROVE  UNCHANGED Admission!vars
  <1>1. \A r \in Requests : PhaseOf(conn[r])' = PhaseOf(conn[r]) /\ Carries(r)' = Carries(r)
    BY DEF PhaseOf, Carries
  <1> QED BY <1>1 DEF Admission!vars

\* The end of the process cuts off what is under way, and nothing is remembered until the
\* next one has its store.
LEMMA ExitAdmission == ASSUME TypeOK, NEW status, Exit(status) PROVE Admission!End
  <1>1. /\ UNCHANGED jti /\ store' = None
        /\ \A r \in Requests : conn'[r] = IF conn[r] \in {"open", "active", "stalled"} THEN "cut" ELSE conn[r]
    BY DEF Exit
  <1>2. \A r \in Requests :
            /\ PhaseOf(conn[r])' = IF PhaseOf(conn[r]) \in {"open", "active"} THEN "cut" ELSE PhaseOf(conn[r])
            /\ Carries(r)' = Carries(r)
    BY <1>1 DEF PhaseOf, Carries
  <1>3. Used' = {}
    BY <1>1 DEF Used
  <1> QED BY <1>2, <1>3 DEF Admission!End, Admission!Underway

\* A new process that gets its store has no request under way, and finds in the store what
\* that holds.
LEMMA StoreAdmission ==
    ASSUME IInv, TypeOK', UseMemory \/ Connected
    PROVE  Admission!Recall
  <1>1. pc = "store" /\ UNCHANGED <<conn, jti, mem, keys>>
    BY DEF UseMemory, Connected, Goto, stores, traffic
  <1>2. store = None /\ \A r \in Requests : conn[r] \notin {"open", "active", "stalled"}
    BY <1>1 DEF IInv, TypeOK, Wired, Underway
  <1>3. \A r \in Requests :
            PhaseOf(conn[r]) \notin {"open", "active"} /\ PhaseOf(conn[r])' = PhaseOf(conn[r]) /\ Carries(r)' = Carries(r)
    BY <1>1, <1>2 DEF PhaseOf, Carries
  <1>4. Used = {} /\ Used' \in SUBSET Jtis
    BY <1>2 DEF Used, TypeOK
  <1> QED BY <1>3, <1>4 DEF Admission!Recall, Admission!Underway

\* What a step of one request does to its phase and its jti.
LEMMA Moves ==
    ASSUME TypeOK, NEW r \in Requests, NEW c, c # "none", Step(r, c)
    PROVE  /\ [q \in Requests |-> PhaseOf(conn[q])]' =
                [[q \in Requests |-> PhaseOf(conn[q])] EXCEPT ![r] = PhaseOf(c)]
           /\ [q \in Requests |-> Carries(q)]' =
                [[q \in Requests |-> Carries(q)] EXCEPT ![r] = {jti[r]}]
           /\ UNCHANGED store
  <1>1. /\ conn' = [conn EXCEPT ![r] = c] /\ UNCHANGED <<jti, store>>
        /\ DOMAIN conn = Requests
    BY DEF Step, startup, TypeOK
  <1>2. \A q \in Requests : q # r => conn'[q] = conn[q] /\ Carries(q)' = Carries(q)
    BY <1>1 DEF Carries
  <1>3. conn'[r] = c /\ Carries(r)' = {jti[r]}
    BY <1>1 DEF Carries
  <1> QED BY <1>1, <1>2, <1>3

\* A step of a request is one of Admission, unless its client stops reading.
LEMMA RequestAdmission ==
    ASSUME IInv, NEW r \in Requests,
           \/ Connect(r) \/ HeaderTimeout(r) \/ Admit(r) \/ Refuse(r)
           \/ Respond(r) \/ Stall(r) \/ Resume(r)
    PROVE  [Admission!Next]_Admission!vars
  <1> DEFINE P == [q \in Requests |-> PhaseOf(conn[q])]
             C == [q \in Requests |-> Carries(q)]
  <1>0. TypeOK /\ jti[r] \in Jtis
    BY UsesAssumption DEF IInv, TypeOK
  <1>1. P[r] = PhaseOf(conn[r]) /\ C[r] = Carries(r)
    OBVIOUS
  <1>2. CASE Connect(r)
    <2>1. Step(r, "open") /\ conn[r] = "none" /\ UNCHANGED stores
      BY <1>2, Zenon DEF Connect
    <2>2. P' = [P EXCEPT ![r] = "open"] /\ C' = [C EXCEPT ![r] = {jti[r]}] /\ UNCHANGED store
      <3>1. PhaseOf("open") = "open"
        BY DEF PhaseOf
      <3> QED BY <1>0, <2>1, <3>1, Moves
    <2>3. P[r] = "none" /\ Used' = Used
      BY <1>1, <2>1, <2>2 DEF PhaseOf, Used, stores
    <2>4. Admission!Open(r)
      BY <1>0, <2>2, <2>3 DEF Admission!Open, Admission!Step
    <2> QED BY <2>4 DEF Admission!Next
  <1>3. ASSUME conn[r] # "none"
        PROVE  C[r] = {jti[r]} /\ [C EXCEPT ![r] = {jti[r]}] = C
    BY <1>1, <1>3 DEF Carries
  <1>4. CASE HeaderTimeout(r) \/ Refuse(r)
    <2>1. /\ Step(r, "rejected") /\ conn[r] = "open"
          /\ UNCHANGED stores \/ (store = "redis" /\ Remember(jti[r]))
      BY <1>4, Zenon DEF HeaderTimeout, Refuse
    <2>2. P' = [P EXCEPT ![r] = "rejected"] /\ C' = [C EXCEPT ![r] = {jti[r]}] /\ UNCHANGED store
      <3>1. PhaseOf("rejected") = "rejected"
        BY DEF PhaseOf
      <3>2. Step(r, "rejected")
        BY <2>1, Zenon
      <3> QED BY <1>0, <3>1, <3>2, Moves
    <2>3. P[r] = "open" /\ C[r] = {jti[r]} /\ C' = C
      BY <1>1, <1>3, <2>1, <2>2 DEF PhaseOf
    <2>4. Used' \in {Used, Used \cup {jti[r]}}
      BY <2>1, <2>2, NoneAssumption DEF Used, Remember, stores, Stores
    <2>5. Admission!Refuse(r)
      BY <2>2, <2>3, <2>4 DEF Admission!Refuse, Admission!Step
    <2> QED BY <2>5 DEF Admission!Next
  <1>5. CASE Admit(r)
    <2>1. Step(r, "active") /\ conn[r] = "open" /\ ~Has(jti[r]) /\ Remember(jti[r])
      BY <1>5, Zenon DEF Admit
    <2>2. P' = [P EXCEPT ![r] = "active"] /\ C' = [C EXCEPT ![r] = {jti[r]}] /\ UNCHANGED store
      <3>1. PhaseOf("active") = "active"
        BY DEF PhaseOf
      <3> QED BY <1>0, <2>1, <3>1, Moves
    <2>3. P[r] = "open" /\ C[r] = {jti[r]} /\ C' = C
      BY <1>1, <1>3, <2>1, <2>2 DEF PhaseOf
    <2>4. store # None
      BY <2>1 DEF IInv, TypeOK, Wired, Underway
    <2>5. jti[r] \notin Used /\ Used' = Used \cup {jti[r]}
      BY <2>1, <2>2, <2>4 DEF Used, Has, Remember
    <2>6. Admission!Admit(r)
      BY <2>2, <2>3, <2>5 DEF Admission!Admit, Admission!Step
    <2> QED BY <2>6 DEF Admission!Next
  <1>6. CASE Respond(r) \/ Resume(r)
    <2>1. Step(r, "answered") /\ conn[r] \in {"active", "stalled"} /\ UNCHANGED stores
      BY <1>6, Zenon DEF Respond, Resume
    <2>2. P' = [P EXCEPT ![r] = "answered"] /\ C' = [C EXCEPT ![r] = {jti[r]}] /\ UNCHANGED store
      <3>1. PhaseOf("answered") = "answered"
        BY DEF PhaseOf
      <3> QED BY <1>0, <2>1, <3>1, Moves
    <2>3. P[r] = "active" /\ C' = C /\ Used' = Used
      BY <1>1, <1>3, <2>1, <2>2 DEF PhaseOf, Used, stores
    <2>4. Admission!Answer(r)
      BY <2>2, <2>3 DEF Admission!Answer, Admission!Step
    <2> QED BY <2>4 DEF Admission!Next
  <1>7. CASE Stall(r)
    <2>1. Step(r, "stalled") /\ conn[r] = "active" /\ UNCHANGED stores
      BY <1>7, Zenon DEF Stall
    <2>2. P' = [P EXCEPT ![r] = "active"] /\ C' = [C EXCEPT ![r] = {jti[r]}] /\ UNCHANGED store
      <3>1. PhaseOf("stalled") = "active"
        BY DEF PhaseOf
      <3> QED BY <1>0, <2>1, <3>1, Moves
    <2>3. P[r] = "active" /\ C' = C /\ Used' = Used
      BY <1>1, <1>3, <2>1, <2>2 DEF PhaseOf, Used, stores
    <2>4. P' = P
      BY <2>2, <2>3
    <2> QED BY <2>3, <2>4 DEF Admission!vars
  <1> QED BY <1>2, <1>4, <1>5, <1>6, <1>7

\* Every step of the process, of its requests and of what surrounds it is one of Admission
\* or shows nothing of itself.
LEMMA StepAdmission == ASSUME IInv, [Next]_vars PROVE [Admission!Next]_Admission!vars
  <1>0. TypeOK /\ TypeOK'
    BY TypeStep DEF IInv
  <1>1. CASE UseMemory \/ Connected
    BY <1>0, <1>1, StoreAdmission DEF Admission!Next
  <1>2. ASSUME NEW status, Exit(status) PROVE [Admission!Next]_Admission!vars
    BY <1>0, <1>2, ExitAdmission DEF Admission!Next
  <1>3. CASE StartFails \/ Return \/ Kill \/ \E s \in Servers : ServeFails(s)
    <2>1. Exit(0) \/ Exit(1) \/ Exit(2)
      BY <1>3, Zenon DEF StartFails, Return, Kill, ServeFails
    <2> QED BY <1>2, <2>1
  <1>4. CASE \E r \in Requests :
                \/ Connect(r) \/ HeaderTimeout(r) \/ Admit(r) \/ Refuse(r)
                \/ Respond(r) \/ Stall(r) \/ Resume(r)
    BY <1>4, RequestAdmission, Zenon
  <1>5. ASSUME UNCHANGED <<conn, jti, store, mem, keys>> PROVE [Admission!Next]_Admission!vars
    <2>1. UNCHANGED <<conn, jti>> /\ Used' = Used
      BY <1>5 DEF Used
    <2> QED BY <2>1, OutOfSight
  <1>6. CASE \/ Load \/ NotReady \/ NewVerifier \/ RegisterService \/ StartServers \/ Notify
             \/ Shutdown \/ ShutdownMetrics \/ Restart \/ \E s \in Servers : Listen(s)
    <2>1. UNCHANGED <<conn, jti, store, mem, keys>>
      BY <1>6 DEF Load, NotReady, NewVerifier, RegisterService, StartServers, Notify, Shutdown,
                  ShutdownMetrics, Restart, Listen, Goto, startup, stores, traffic
    <2> QED BY <1>5, <2>1
  <1>7. CASE Scrape \/ Tick \/ Outage \/ UNCHANGED vars
    <2>1. UNCHANGED <<conn, jti, store, mem, keys>>
      BY <1>7 DEF Scrape, Tick, Outage, vars, startup, stores, traffic
    <2> QED BY <1>5, <2>1
  <1>8. CASE Signal
    <2>1. Exit(2) \/ UNCHANGED <<startup, stores, traffic>>
      BY <1>8 DEF Signal, startup, stores, traffic
    <2>2. UNCHANGED <<startup, stores, traffic>> => UNCHANGED <<conn, jti, store, mem, keys>>
      BY DEF startup, stores, traffic
    <2> QED BY <1>2, <1>5, <2>1, <2>2
  <1>9. CASE RedisStarts
    <2>1. /\ UNCHANGED <<conn, jti, store, mem>>
          /\ keys' = keys \/ keys' = {}
      BY <1>9 DEF RedisStarts, startup, traffic
    <2>2. CASE keys' = keys
      BY <1>5, <2>1, <2>2
    <2>3. CASE keys' = {} /\ store = "redis" /\ store # None
      <3>1. Used' = {}
        BY <2>1, <2>3 DEF Used
      <3>2. \A r \in Requests : PhaseOf(conn[r])' = PhaseOf(conn[r]) /\ Carries(r)' = Carries(r)
        BY <2>1 DEF Carries
      <3>3. Admission!Forget
        BY <3>1, <3>2 DEF Admission!Forget
      <3> QED BY <3>3 DEF Admission!Next
    <2>4. CASE store # "redis" \/ store = None
      <3>1. Used' = Used /\ UNCHANGED <<conn, jti>>
        BY <2>1, <2>4 DEF Used
      <3> QED BY <3>1, OutOfSight
    <2> QED BY <2>1, <2>2, <2>3, <2>4
  <1> QED BY <1>1, <1>3, <1>4, <1>6, <1>7, <1>8, <1>9 DEF Next, Main

\* The process implements Admission, through signals, crashes, restarts and outages of Redis
\* at any moment: a request is refused once, or uses up its jti once and is answered or cut
\* off once, and what the store has of earlier requests is lost only with an end of the
\* process or of Redis, never while a request is let through.
THEOREM GatewayAdmits == Spec => KeepsAdmission
  <1>1. Init => Admission!Init
    <2> SUFFICES ASSUME Init PROVE Admission!Init OBVIOUS
    <2>1. (\A r \in Requests : conn[r] = "none") /\ store = None
      BY DEF Init
    <2>2. \A r \in Requests : PhaseOf(conn[r]) = "none" /\ Carries(r) = {}
      BY <2>1 DEF PhaseOf, Carries
    <2>3. Used = {}
      BY <2>1 DEF Used
    <2> QED BY <2>2, <2>3 DEF Admission!Init
  <1>2. IInv /\ [Next]_vars => [Admission!Next]_Admission!vars
    BY StepAdmission
  <1> QED BY <1>1, <1>2, Invariant, PTL DEF Spec, KeepsAdmission, Admission!Spec
--------------------------------------------------------------------------------
(* Liveness. What has to go on can (GoesOn), and the loops of main end (LoopsEnd). *)

\* A signal is kept only for main to read it; main has passed the checks of its start; and
\* it waits for signals with both servers started, one with a bad certificate in vain.
Started ==
    /\ sig => pc \in {"wait", "drain", "metrics"}
    /\ pc \in {"verifier", "services", "arm", "wait"} => cfg.redis # "bad"
    /\ pc \in {"services", "arm", "wait"} => KeysOK(cfg)
    /\ pc \in {"arm", "wait"} =>
        /\ \A s \in Servers : srv[s] \in {"starting", "up"}
        /\ cfg.listener = "bad" => srv["gateway"] = "starting"

\* The process ends; or a step leaves main, its configuration and its servers alone, and
\* takes no signal from it and adds one only as a fault.
Ends == pc' = "dead" /\ cfg' = None /\ ~sig'

Aside ==
    /\ UNCHANGED <<pc, cfg, srv>>
    /\ sig => sig'
    /\ sig' /\ ~sig => faults' # faults /\ (pc = "wait" \/ Stopping)
    /\ Stopping /\ left = 0 => left' = 0

\* The steps, as main sees them.
LEMMA Kinds ==
    ASSUME TypeOK, [Next]_vars
    PROVE  \/ Main \/ Restart
           \/ \E s \in Servers : Listen(s) \/ ServeFails(s)
           \/ Ends /\ faults' # faults
           \/ Aside
  <1> USE DEF startup, stores, traffic, outside
  <1>0. ASSUME Fault PROVE faults' # faults
    BY <1>0, FaultsAssumption DEF Fault, TypeOK
  <1>1. ASSUME NEW r \in Requests,
               \/ Connect(r) \/ HeaderTimeout(r) \/ Admit(r) \/ Refuse(r)
               \/ Respond(r) \/ Stall(r) \/ Resume(r)
        PROVE  Aside
    <2>1. UNCHANGED <<pc, cfg, srv, sig, left>>
      BY <1>1, Zenon DEF Connect, HeaderTimeout, Admit, Refuse, Respond, Stall, Resume, Step
    <2> QED BY <2>1, Zenon DEF Aside
  <1>2. CASE Scrape BY <1>2, Zenon DEF Scrape, Aside
  <1>3. CASE Tick
    <2>1. UNCHANGED <<pc, cfg, srv, sig>> BY <1>3, Zenon DEF Tick
    <2>2. ~(Stopping /\ left = 0) BY <1>3 DEF Tick
    <2> QED BY <2>1, <2>2, Zenon DEF Aside
  <1>4. CASE Outage BY <1>4, Zenon DEF Outage, Aside
  <1>5. CASE RedisStarts BY <1>5, Zenon DEF RedisStarts, Aside
  <1>6. CASE Kill
    <2>1. Exit(2) /\ faults' # faults BY <1>0, <1>6, Zenon DEF Kill
    <2> QED BY <2>1, Zenon DEF Exit, Ends
  <1>7. CASE Signal
    <2>1. faults' # faults BY <1>0, <1>7, Zenon DEF Signal
    <2>2. CASE pc = "wait" \/ Stopping
      BY <1>7, <2>1, <2>2, Zenon DEF Signal, Aside
    <2>3. CASE ~(pc = "wait" \/ Stopping)
      <3>1. Exit(2) BY <1>7, <2>3, Zenon DEF Signal
      <3> QED BY <2>1, <3>1, Zenon DEF Exit, Ends
    <2> QED BY <2>2, <2>3
  <1>8. CASE UNCHANGED vars BY <1>8, Zenon DEF vars, Aside
  <1> QED
    BY <1>1, <1>2, <1>3, <1>4, <1>5, <1>6, <1>7, <1>8, Zenon DEF Next

\* A server that fails ends the process.
LEMMA FailsEnds == ASSUME NEW s \in Servers, ServeFails(s) PROVE Ends
  BY Zenon DEF ServeFails, Exit, Ends

\* What each step of main finds and leaves.
LEMMA MainSteps ==
    ASSUME TypeOK, Main
    PROVE  \/ pc = "load" /\ pc' = "store" /\ cfg' = file /\ sig' = sig /\ LoadOK(file)
           \/ pc = "store" /\ pc' = "store" /\ cfg' = cfg /\ sig' = sig
           \/ pc = "store" /\ pc' = "verifier" /\ cfg' = cfg /\ sig' = sig /\ cfg.redis # "bad"
           \/ pc = "verifier" /\ pc' = "services" /\ cfg' = cfg /\ sig' = sig /\ KeysOK(cfg)
           \/ pc = "services" /\ pc' = "services" /\ cfg' = cfg /\ sig' = sig
           \/ pc = "services" /\ pc' = "arm" /\ cfg' = cfg /\ sig' = sig
              /\ srv' = [s \in Servers |-> "starting"]
           \/ pc = "arm" /\ pc' = "wait" /\ cfg' = cfg /\ sig' = sig /\ srv' = srv
           \/ pc = "wait" /\ sig /\ pc' = "drain" /\ ~sig' /\ cfg' = cfg
           \/ pc = "drain" /\ pc' = "metrics" /\ cfg' = cfg /\ sig' = sig /\ left' = left
           \/ pc \in {"load", "store", "verifier", "services"} /\ StartFails /\ Ends
           \/ pc = "metrics" /\ Ends
  <1> USE DEF startup, Goto
  <1>1. CASE Load BY <1>1, Zenon DEF Load
  <1>2. CASE UseMemory
    <2>1. cfg.redis # "bad" BY <1>2 DEF UseMemory
    <2> QED BY <1>2, <2>1, Zenon DEF UseMemory
  <1>3. CASE Connected
    <2>1. cfg.redis # "bad" BY <1>3 DEF Connected, NewRedisNonceStore
    <2> QED BY <1>3, <2>1, Zenon DEF Connected
  <1>4. CASE NotReady BY <1>4, Zenon DEF NotReady
  <1>5. CASE NewVerifier BY <1>5, Zenon DEF NewVerifier
  <1>6. CASE RegisterService BY <1>6, Zenon DEF RegisterService
  <1>7. CASE StartFails
    <2>1. Exit(1) BY <1>7, Zenon DEF StartFails
    <2>2. Ends BY <2>1, Zenon DEF Exit, Ends
    <2>3. pc \in {"load", "store", "verifier", "services"} BY <1>7, Zenon DEF StartFails
    <2> QED BY <1>7, <2>2, <2>3
  <1>8. CASE StartServers BY <1>8, Zenon DEF StartServers
  <1>9. CASE Notify BY <1>9, Zenon DEF Notify
  <1>10. CASE Shutdown BY <1>10, Zenon DEF Shutdown
  <1>11. CASE ShutdownMetrics BY <1>11, Zenon DEF ShutdownMetrics
  <1>12. CASE Return
    <2>1. Exit(0) /\ pc = "metrics" BY <1>12, Zenon DEF Return
    <2>2. Ends BY <2>1, Zenon DEF Exit, Ends
    <2> QED BY <2>1, <2>2
  <1> QED
    BY <1>1, <1>2, <1>3, <1>4, <1>5, <1>6, <1>7, <1>8, <1>9, <1>10, <1>11, <1>12, Zenon DEF Main

\* Every step keeps what main knows of its start.
LEMMA StartedStep == ASSUME IInv, Started, [Next]_vars PROVE Started'
  <1>0. TypeOK BY DEF IInv
  <1>1. CASE Ends
    BY <1>1 DEF Ends, Started
  <1>2. CASE Aside
    <2>1. UNCHANGED <<pc, cfg, srv>> BY <1>2 DEF Aside
    <2>2. sig' => sig \/ pc \in {"wait", "drain", "metrics"}
      BY <1>2 DEF Aside, Stopping
    <2> QED BY <2>1, <2>2 DEF Started
  <1>3. CASE Restart
    <2>1. pc = "dead" /\ pc' = "load" /\ sig' = sig BY <1>3, Zenon DEF Restart
    <2> QED BY <2>1 DEF Started
  <1>4. ASSUME NEW s \in Servers, Listen(s) PROVE Started'
    <2>1. /\ pc' = pc /\ cfg' = cfg /\ sig' = sig
          /\ srv' = [srv EXCEPT ![s] = "up"]
          /\ s = "gateway" => cfg.listener # "bad"
      BY <1>4, Zenon DEF Listen, startup
    <2>2. /\ \A q \in Servers : srv'[q] \in {srv[q], "up"}
          /\ cfg.listener = "bad" => srv'["gateway"] = srv["gateway"]
      BY <1>0, <2>1 DEF TypeOK, Servers
    <2> QED BY <2>1, <2>2 DEF Started, Servers
  <1>5. CASE Main
    <2>1. CASE pc' = "store"
      <3>1. pc \in {"load", "store"} /\ sig' = sig BY <1>0, <1>5, <2>1, MainSteps DEF Ends
      <3> QED BY <2>1, <3>1 DEF Started
    <2>2. CASE pc' = "verifier"
      <3>1. pc = "store" /\ sig' = sig /\ cfg' = cfg /\ cfg.redis # "bad"
        BY <1>0, <1>5, <2>2, MainSteps DEF Ends
      <3> QED BY <2>2, <3>1 DEF Started
    <2>3. CASE pc' = "services"
      <3>1. pc \in {"verifier", "services"} /\ sig' = sig /\ cfg' = cfg /\ KeysOK(cfg)
        BY <1>0, <1>5, <2>3, MainSteps DEF Ends, Started
      <3> QED BY <2>3, <3>1 DEF Started
    <2>4. CASE pc' = "arm"
      <3>1. /\ pc = "services" /\ cfg' = cfg /\ sig' = sig
            /\ srv' = [s \in Servers |-> "starting"]
        BY <1>0, <1>5, <2>4, MainSteps DEF Ends
      <3> QED BY <2>4, <3>1 DEF Started, Servers
    <2>5. CASE pc' = "wait"
      <3>1. pc = "arm" /\ sig' = sig /\ cfg' = cfg /\ srv' = srv
        BY <1>0, <1>5, <2>5, MainSteps DEF Ends
      <3> QED BY <2>5, <3>1 DEF Started
    <2>6. CASE pc' \in {"drain", "metrics"} BY <1>0, <1>5, <2>6, MainSteps DEF Started
    <2>7. CASE pc' = "dead" BY <1>0, <1>5, <2>7, MainSteps DEF Started, Ends
    <2> QED BY <1>0, <1>5, <2>1, <2>2, <2>3, <2>4, <2>5, <2>6, <2>7, MainSteps DEF Ends
  <1> QED BY <1>0, <1>1, <1>2, <1>3, <1>4, <1>5, Kinds, FailsEnds

\* main never has more of its start behind it than it has checked.
LEMMA AlwaysStarted == Spec => []Started
  <1>1. Init => Started BY DEF Init, Started
  <1> QED BY <1>1, StartedStep, Invariant, PTL DEF Spec

\* The way of main through its life, one place at a time; it may end at each of them.
LEMMA Onward ==
    ASSUME TypeOK, [Next]_vars
    PROVE  /\ pc = "load" => pc' \in {"load", "store", "dead"}
           /\ pc = "store" => pc' \in {"store", "verifier", "dead"}
           /\ pc = "verifier" => pc' \in {"verifier", "services", "dead"}
           /\ pc = "services" => pc' \in {"services", "arm", "dead"}
           /\ pc = "arm" => pc' \in {"arm", "wait", "dead"}
           /\ pc = "wait" => pc' \in {"wait", "drain", "dead"}
           /\ pc = "drain" => pc' \in {"drain", "metrics", "dead"}
           /\ pc = "metrics" => pc' \in {"metrics", "dead"}
           /\ pc = "dead" => pc' \in {"dead", "load"}
           /\ Main => pc' # pc \/ pc \in {"store", "services"}
  <1>1. CASE Ends
    <2>1. pc' = "dead" BY <1>1 DEF Ends
    <2>2. ~(Main /\ pc = "dead") BY MainSteps
    <2> QED BY <2>1, <2>2 DEF TypeOK
  <1>2. CASE UNCHANGED pc /\ ~Main BY <1>2
  <1>3. CASE Restart
    <2>1. pc = "dead" /\ pc' = "load" BY <1>3, Zenon DEF Restart
    <2> QED BY <2>1
  <1>4. CASE Main BY <1>4, MainSteps DEF Ends
  <1> QED BY <1>1, <1>2, <1>3, <1>4, Kinds, FailsEnds DEF Aside, Listen

\* A shutdown whose context has expired goes on with it expired; a signal that is there
\* stays until main reads it.
LEMMA ShutdownSteps ==
    ASSUME TypeOK, [Next]_vars
    PROVE  /\ pc = "wait" /\ sig /\ pc' = "wait" => sig'
           /\ Stopping /\ left = 0 /\ pc' # "dead" => left' = 0
  <1>1. CASE Ends BY <1>1 DEF Ends
  <1>2. CASE Aside BY <1>2, Zenon DEF Aside
  <1>3. CASE Restart
    <2>1. pc = "dead" BY <1>3, Zenon DEF Restart
    <2> QED BY <2>1 DEF Stopping
  <1>4. CASE Main BY <1>4, MainSteps DEF Ends, Stopping
  <1>5. ASSUME NEW s \in Servers, Listen(s) PROVE left' = left /\ sig' = sig
    BY <1>5, Zenon DEF Listen
  <1> QED BY <1>1, <1>2, <1>3, <1>4, <1>5, Kinds, FailsEnds

\* Every loop by itself is left.
LoopsLeft ==
    /\ pc = "store" ~> pc # "store"
    /\ pc = "services" ~> pc # "services"
    /\ Stopping ~> (left = 0 \/ ~Stopping)

\* It is, when main leaves whichever loop it is in.
LEMMA EachLoopEnds == LoopsEnd => LoopsLeft
  <1>1. ~Looping => pc # "store" /\ pc # "services" /\ (left = 0 \/ ~Stopping)
    BY DEF Looping
  <1> QED BY <1>1, PTL DEF LoopsEnd, LoopsLeft

\* A shutdown comes to its end once its context has expired, at the latest.
LEMMA ShutdownEnds == Spec /\ []GoesOn /\ LoopsEnd => (Stopping ~> pc = "dead")
  <1>1. TypeOK /\ [Next]_vars =>
          /\ Stopping => Stopping' \/ (pc = "dead")'
          /\ pc = "drain" /\ left = 0 =>
               (pc = "drain" /\ left = 0)' \/ (pc = "metrics" /\ left = 0)' \/ (pc = "dead")'
          /\ pc = "metrics" /\ left = 0 => (pc = "metrics" /\ left = 0)' \/ (pc = "dead")'
    BY Onward, ShutdownSteps DEF Stopping
  <1>2. TypeOK /\ [Next]_vars /\ <<Main>>_vars =>
          /\ pc = "drain" => ~(pc = "drain")'
          /\ pc = "metrics" => ~(pc = "metrics")'
    BY Onward
  <1>3. /\ Stopping <=> pc = "drain" \/ pc = "metrics"
        /\ pc = "drain" /\ left = 0 => Due
        /\ pc = "metrics" /\ left = 0 => Due
    BY DEF Stopping, Due, Drained
  <1> QED BY <1>1, <1>2, <1>3, TypeCorrect, EachLoopEnds, PTL
    DEF Spec, Fairness, GoesOn, LoopsLeft

\* A signal that finds its handler ends the process, whatever the requests, the clients and
\* the scrapes do, provided that the seconds of the shutdown's context pass.
THEOREM SignalStops == Spec /\ []GoesOn /\ LoopsEnd => Stops
  <1>1. TypeOK /\ [Next]_vars =>
          (pc = "wait" /\ sig => (pc = "wait" /\ sig)' \/ Stopping' \/ (pc = "dead")')
    BY Onward, ShutdownSteps DEF Stopping
  <1>2. TypeOK /\ [Next]_vars /\ <<Main>>_vars => (pc = "wait" => ~(pc = "wait")')
    BY Onward
  <1>3. pc = "wait" /\ sig => Due
    BY DEF Due
  <1> QED BY <1>1, <1>2, <1>3, TypeCorrect, ShutdownEnds, PTL DEF Spec, Fairness, GoesOn, Stops
--------------------------------------------------------------------------------
(* Recovery, after the last fault. *)

\* Nothing stands in the way of a start: the file is good, and Redis answers.
Ready == Startable /\ redisUp

\* The process is starting or serving with a configuration that lets it, and no signal.
Sound ==
    /\ pc \in {"load", "store", "verifier", "services", "arm", "wait"} /\ ~sig
    /\ pc # "load" => KeysOK(cfg) /\ cfg.redis # "bad" /\ cfg.listener # "bad"

\* The process waits for a signal, and its listener cannot be opened.
Deaf == pc = "wait" /\ ~sig /\ cfg.listener = "bad"

Up(s) == srv[s] = "up"

\* Without a fault the file, the certificates and a Redis that answers stay.
LEMMA QuietOutside ==
    ASSUME TypeOK, [Next]_vars, faults' = faults
    PROVE  UNCHANGED <<file, certs>> /\ (redisUp => redisUp')
  <1> USE DEF outside
  <1>1. ASSUME Fault PROVE FALSE
    BY <1>1, FaultsAssumption DEF Fault, TypeOK
  <1>2. ASSUME Main PROVE UNCHANGED <<file, certs, redisUp>>
    <2>1. CASE Load \/ UseMemory \/ Connected \/ NotReady \/ NewVerifier \/ RegisterService \/ Notify
      BY <2>1, Zenon
      DEF Goto, Load, UseMemory, Connected, NotReady, NewVerifier, RegisterService, Notify
    <2>2. CASE StartFails \/ StartServers \/ Return
      BY <2>2, Zenon DEF StartFails, StartServers, Return
    <2>3. CASE Shutdown \/ ShutdownMetrics
      BY <2>3, Zenon DEF Shutdown, ShutdownMetrics
    <2> QED BY <1>2, <2>1, <2>2, <2>3, Zenon DEF Main
  <1>3. ASSUME NEW s \in Servers, Listen(s) \/ ServeFails(s)
        PROVE  UNCHANGED <<file, certs, redisUp>>
    BY <1>1, <1>3, Zenon DEF Listen, ServeFails
  <1>4. ASSUME NEW r \in Requests,
               \/ Connect(r) \/ HeaderTimeout(r) \/ Admit(r) \/ Refuse(r)
               \/ Respond(r) \/ Stall(r) \/ Resume(r)
        PROVE  UNCHANGED <<file, certs, redisUp>>
    BY <1>1, <1>4, Zenon DEF Connect, HeaderTimeout, Admit, Refuse, Respond, Stall, Resume
  <1>5. ASSUME Restart \/ Scrape \/ Tick PROVE UNCHANGED <<file, certs, redisUp>>
    BY <1>5, Zenon DEF Restart, Scrape, Tick
  <1>6. CASE Outage
    <2>1. faults' = faults - 1 BY <1>6, Zenon DEF Outage
    <2>2. faults \in Int BY FaultsAssumption DEF TypeOK
    <2> QED BY <2>1, <2>2
  <1>7. CASE RedisStarts BY <1>7, Zenon DEF RedisStarts
  <1>8. CASE Signal \/ Kill BY <1>1, <1>8, Zenon DEF Signal, Kill
  <1>9. ASSUME UNCHANGED vars PROVE UNCHANGED <<file, certs, redisUp>>
    BY <1>9, Zenon DEF vars
  <1>10. CASE UNCHANGED <<file, certs, redisUp>> BY <1>10
  <1> QED
    BY <1>2, <1>3, <1>4, <1>5, <1>6, <1>7, <1>8, <1>9, <1>10, Zenon DEF Next

\* With a good configuration and Redis there no step of the start fails.
LEMMA SoundStart == ASSUME TypeOK, Ready, Sound PROVE ~StartFails
  <1> SUFFICES ASSUME StartFails PROVE FALSE OBVIOUS
  <1>1. CASE pc = "load"
    BY <1>1 DEF StartFails, Ready, Startable
  <1>2. CASE pc = "store"
    <2>1. cfg.redis \in Choices /\ cfg.redis # "bad"
      BY <1>2, FilesAssumption DEF TypeOK, Config, Sound
    <2>2. cfg.redis # "none" /\ ~NewRedisNonceStore
      BY <1>2 DEF StartFails
    <2> QED BY <2>1, <2>2 DEF NewRedisNonceStore, Ready, Choices
  <1>3. CASE pc = "verifier"
    BY <1>3 DEF StartFails, Sound
  <1>4. CASE pc = "services"
    BY <1>4 DEF StartFails, Ready, Startable
  <1> QED BY <1>1, <1>2, <1>3, <1>4 DEF StartFails

\* A start with a good configuration goes through, and a gateway that serves goes on to.
LEMMA SoundStep ==
    ASSUME IInv, [Next]_vars, faults' = faults, Ready, Sound
    PROVE  /\ Sound'
           /\ \A s \in Servers : pc = "wait" /\ Up(s) => Up(s)'
  <1>0. TypeOK BY DEF IInv
  <1>1. CASE Main
    <2>1. ~StartFails BY <1>0, SoundStart
    <2>2. CASE pc = "load"
      <3>1. pc' = "store" /\ cfg' = file /\ sig' = sig
        BY <1>0, <1>1, <2>1, <2>2, MainSteps
      <3>2. KeysOK(file) /\ file.redis # "bad" /\ file.listener # "bad"
        BY DEF Ready, Startable
      <3> QED BY <2>2, <3>1, <3>2 DEF Sound
    <2>3. CASE pc # "load"
      <3>1. /\ pc' \in {"store", "verifier", "services", "arm", "wait"}
            /\ cfg' = cfg /\ sig' = sig /\ pc # "wait"
        BY <1>0, <1>1, <2>1, <2>3, MainSteps DEF Sound
      <3> QED BY <2>3, <3>1 DEF Sound
    <2> QED BY <2>2, <2>3
  <1>2. CASE Restart
    <2>1. pc = "dead" BY <1>2, Zenon DEF Restart
    <2> QED BY <2>1 DEF Sound
  <1>3. ASSUME NEW s \in Servers, ServeFails(s) PROVE FALSE
    <2>1. ~Fault BY <1>0, FaultsAssumption DEF Fault, TypeOK
    <2>2. s = "gateway" /\ cfg.listener = "bad" /\ srv[s] = "starting"
      BY <1>3, <2>1, Zenon DEF ServeFails
    <2>3. pc # "load" BY <2>2 DEF IInv, Wired
    <2> QED BY <2>2, <2>3 DEF Sound
  <1>4. ASSUME NEW s \in Servers, Listen(s)
        PROVE  Sound' /\ \A q \in Servers : Up(q) => Up(q)'
    <2>1. pc' = pc /\ cfg' = cfg /\ sig' = sig /\ srv' = [srv EXCEPT ![s] = "up"]
      BY <1>4, Zenon DEF Listen, startup
    <2>2. Sound' BY <2>1 DEF Sound
    <2>3. \A q \in Servers : Up(q) => Up(q)' BY <1>0, <2>1 DEF TypeOK, Up
    <2> QED BY <2>2, <2>3
  <1>5. CASE Aside
    <2>1. pc' = pc /\ cfg' = cfg /\ srv' = srv /\ (sig' => sig) BY <1>5, Zenon DEF Aside
    <2>2. Sound' BY <2>1 DEF Sound
    <2> QED BY <2>1, <2>2 DEF Up
  <1> QED BY <1>0, <1>1, <1>2, <1>3, <1>4, <1>5, Kinds

\* A gateway whose listener cannot be opened waits until that ends it.
LEMMA DeafStep ==
    ASSUME TypeOK, Started, [Next]_vars, faults' = faults, Deaf
    PROVE  Deaf' \/ pc' = "dead"
  <1>1. ~Main BY MainSteps DEF Deaf
  <1>2. ~Restart
    <2>1. pc # "dead" BY DEF Deaf
    <2> QED BY <2>1, Zenon DEF Restart
  <1>3. ASSUME NEW s \in Servers, Listen(s) PROVE Deaf'
    BY <1>3, Zenon DEF Listen, startup, Deaf
  <1>4. CASE Aside
    <2>1. pc' = pc /\ cfg' = cfg /\ (sig' => sig) BY <1>4, Zenon DEF Aside
    <2> QED BY <2>1 DEF Deaf
  <1> QED BY <1>1, <1>2, <1>3, <1>4, Kinds, FailsEnds DEF Ends

Quiet == IInv /\ Started /\ [Next]_vars /\ [UNCHANGED faults]_vars /\ Ready

\* What the steps of a quiet system do, place by place.
LEMMA QuietSteps ==
    /\ Quiet => /\ Sound => Sound'
                /\ Deaf => Deaf' \/ (pc = "dead")'
                /\ pc = "load" => (pc = "load")' \/ (pc = "store")' \/ (pc = "dead")'
                /\ pc = "store" => (pc = "store")' \/ (pc = "verifier")' \/ (pc = "dead")'
                /\ pc = "verifier" => (pc = "verifier")' \/ (pc = "services")' \/ (pc = "dead")'
                /\ pc = "services" => (pc = "services")' \/ (pc = "arm")' \/ (pc = "dead")'
                /\ pc = "arm" => (pc = "arm")' \/ (pc = "wait")' \/ (pc = "dead")'
                /\ pc = "wait" => (pc = "wait")' \/ Stopping' \/ (pc = "dead")'
                /\ pc = "dead" => (pc = "dead")' \/ (pc = "load")'
    /\ Quiet /\ <<Main>>_vars =>
                /\ pc = "load" => ~(pc = "load")'
                /\ pc = "verifier" => ~(pc = "verifier")'
                /\ pc = "arm" => ~(pc = "arm")'
    /\ Quiet /\ <<Restart>>_vars => (pc = "load")'
    /\ Quiet /\ <<ServeFails("gateway")>>_vars => (pc = "dead")'
  <1>1. ASSUME Quiet PROVE TypeOK /\ faults' = faults
    BY <1>1 DEF Quiet, IInv, vars, outside
  <1>2. ASSUME Quiet
        PROVE  /\ Sound => Sound'
               /\ Deaf => Deaf' \/ (pc = "dead")'
    BY <1>1, <1>2, SoundStep, DeafStep DEF Quiet
  <1>3. ASSUME Quiet, Restart PROVE (pc = "load")' BY <1>3, Zenon DEF Restart
  <1>4. ASSUME Quiet, ServeFails("gateway") PROVE (pc = "dead")'
    <2>1. "gateway" \in Servers BY DEF Servers
    <2> QED BY <1>4, <2>1, FailsEnds DEF Ends
  <1> QED BY <1>1, <1>2, <1>3, <1>4, Onward DEF Quiet, Stopping

\* Where main can be.
LEMMA Places ==
    /\ IInv /\ Started =>
        \/ Sound \/ Deaf \/ Stopping \/ pc = "dead" \/ (pc = "wait" /\ sig)
        \/ pc = "store" \/ pc = "verifier" \/ pc = "services" \/ pc = "arm"
    /\ IInv /\ Started /\ pc = "load" => Sound
    /\ IInv /\ Started /\ pc = "wait" => Sound \/ Deaf \/ sig
    /\ Sound => /\ ~(pc = "dead") /\ ~Stopping
                /\ \/ pc = "load" \/ pc = "store" \/ pc = "verifier"
                   \/ pc = "services" \/ pc = "arm" \/ pc = "wait"
    /\ pc = "load" => Due
    /\ pc = "verifier" => Due
    /\ pc = "arm" => Due
    /\ pc # "store" <=> ~(pc = "store")
    /\ pc # "services" <=> ~(pc = "services")
  BY DEF IInv, TypeOK, Started, Sound, Deaf, Stopping, Due

\* A server is looked after: it is opened, or its error is noticed.
Tended(s) == WF_vars(Listen(s)) /\ WF_vars(ServeFails(s))

CanOpen(s) ==
    srv[s] = "starting" =>
        IF s = "gateway" /\ cfg.listener = "bad"
        THEN ENABLED <<ServeFails(s)>>_vars
        ELSE ENABLED <<Listen(s)>>_vars

\* The fairness and the enabled actions, server by server.
LEMMA PerServer ==
    /\ Fairness => \A s \in Servers : Tended(s)
    /\ GoesOn => \A s \in Servers : CanOpen(s)
  BY PTL DEF Fairness, Tended, GoesOn, CanOpen

\* The end of the faults, with a good configuration and Redis there.
Calm ==
    /\ []IInv /\ []Started /\ [][Next]_vars /\ [][UNCHANGED faults]_vars /\ []Ready
    /\ WF_vars(Main) /\ WF_vars(Restart) /\ Tended("gateway") /\ Tended("metrics")
    /\ []GoesOn /\ LoopsLeft
    /\ (Stopping ~> pc = "dead") /\ Stops

\* A gateway that cannot open its listener ends.
LEMMA DeafEnds == Calm => (Deaf ~> pc = "dead")
  <1>1. "gateway" \in Servers BY DEF Servers
  <1>2. GoesOn => CanOpen("gateway")
    BY <1>1, PerServer
  <1>3. Started /\ Deaf /\ CanOpen("gateway") => ENABLED <<ServeFails("gateway")>>_vars
    BY Zenon DEF Started, Deaf, CanOpen
  <1>4. IInv /\ Started /\ [Next]_vars /\ [UNCHANGED faults]_vars /\ Ready => Quiet
    BY DEF Quiet
  <1> QED BY <1>2, <1>3, <1>4, QuietSteps, PTL DEF Calm, Tended

\* Calm lasts.
LEMMA CalmStays == Calm => []Calm
  BY PTL DEF Calm, Tended, LoopsLeft, Stops

\* A life that is not a sound one ends, and the next one is.
LEMMA BecomesSound == Calm => <>[]Sound
  <1>1. IInv /\ Started /\ [Next]_vars /\ [UNCHANGED faults]_vars /\ Ready => Quiet
    BY DEF Quiet
  <1>2. Calm => (pc = "arm" ~> pc = "dead" \/ Sound)
    BY <1>1, Places, QuietSteps, DeafEnds, PTL DEF Calm, GoesOn, LoopsLeft, Stops
  <1>3. Calm => (pc = "services" ~> pc = "dead" \/ Sound)
    BY <1>1, <1>2, Places, QuietSteps, PTL DEF Calm, LoopsLeft
  <1>4. Calm => (pc = "verifier" ~> pc = "dead" \/ Sound)
    BY <1>1, <1>3, Places, QuietSteps, PTL DEF Calm, GoesOn
  <1>5. Calm => (pc = "store" ~> pc = "dead" \/ Sound)
    BY <1>1, <1>4, Places, QuietSteps, PTL DEF Calm, LoopsLeft
  <1>6. Calm => (pc = "dead" ~> Sound)
    BY <1>1, Places, QuietSteps, PTL DEF Calm, GoesOn
  <1>7. Calm => <>Sound
    BY <1>2, <1>3, <1>4, <1>5, <1>6, Places, DeafEnds, PTL DEF Calm, Stops
  <1>8. Quiet => (Sound => Sound') BY QuietSteps
  <1> QED BY <1>1, <1>7, <1>8, PTL DEF Calm

\* A sound life comes to where it waits for signals, and stays there.
LEMMA ComesToWait == Calm /\ []Sound => <>[](pc = "wait")
  <1>1. IInv /\ Started /\ [Next]_vars /\ [UNCHANGED faults]_vars /\ Ready => Quiet
    BY DEF Quiet
  <1>2. Calm /\ []Sound => (pc = "services" ~> pc = "wait")
    BY <1>1, Places, QuietSteps, PTL DEF Calm, GoesOn, LoopsLeft
  <1>3. Calm /\ []Sound => (pc = "store" ~> pc = "services")
    BY <1>1, Places, QuietSteps, PTL DEF Calm, GoesOn, LoopsLeft
  <1>4. Calm /\ []Sound => (pc = "load" ~> pc = "store")
    BY <1>1, Places, QuietSteps, PTL DEF Calm, GoesOn
  <1>5. Calm /\ []Sound => (pc = "verifier" ~> pc = "services") /\ (pc = "arm" ~> pc = "wait")
    BY <1>1, Places, QuietSteps, PTL DEF Calm, GoesOn
  <1>6. Calm /\ []Sound => <>(pc = "wait")
    BY <1>2, <1>3, <1>4, <1>5, Places, PTL
  <1> QED BY <1>1, <1>6, Places, QuietSteps, PTL DEF Calm

OpensFor(s) == Calm /\ Tended(s) /\ []Sound /\ [](pc = "wait") => <>[]Up(s)

\* There both servers are opened, and stay open.
LEMMA ServerUp == ASSUME NEW s \in Servers PROVE OpensFor(s)
  <1>1. IInv /\ Started /\ [Next]_vars /\ [UNCHANGED faults]_vars /\ Ready /\ Sound /\ pc = "wait"
          => (Up(s) => Up(s)')
    BY SoundStep DEF IInv, vars, outside
  <1>2. IInv /\ <<Listen(s)>>_vars => Up(s)'
    BY DEF Listen, Up, IInv, TypeOK
  <1>3. GoesOn => CanOpen(s) BY PerServer
  <1>4. Started /\ Sound /\ pc = "wait" /\ CanOpen(s) => Up(s) \/ ENABLED <<Listen(s)>>_vars
    <2>1. ASSUME Started, Sound, pc = "wait" PROVE Up(s) \/ srv[s] = "starting"
      BY <2>1 DEF Started, Up
    <2>2. ASSUME Sound, pc = "wait" PROVE cfg.listener # "bad"
      BY <2>2 DEF Sound
    <2> QED BY <2>1, <2>2, Zenon DEF CanOpen
  <1> QED BY <1>1, <1>2, <1>3, <1>4, PTL DEF Calm, Tended, OpensFor

\* After the last fault a gateway with a usable configuration serves, and goes on to,
\* wherever the last fault found it: waiting for Redis or giving up on it, half way through
\* a start with an older configuration, unable to open its listener, or shutting down.
THEOREM GatewayRecovers ==
    Spec /\ []GoesOn /\ LoopsEnd /\ <>[][UNCHANGED faults]_vars => Recovers
  <1>1. TypeOK /\ [Next]_vars /\ [UNCHANGED faults]_vars => (redisUp => redisUp')
    BY QuietOutside DEF vars, outside
  <1>2. <<RedisStarts>>_vars => redisUp'
    BY Zenon DEF RedisStarts
  <1>3. "gateway" \in Servers /\ "metrics" \in Servers BY DEF Servers
  <1>4. Fairness => Tended("gateway") /\ Tended("metrics") BY <1>3, PerServer
  <1>5. Ready <=> Startable /\ redisUp BY DEF Ready
  <1>6. Spec /\ []GoesOn /\ <>[][UNCHANGED faults]_vars => <>[]redisUp
    BY <1>1, <1>2, TypeCorrect, PTL DEF Spec, Fairness, GoesOn
  <1>7. Spec /\ []GoesOn /\ LoopsEnd /\ <>[][UNCHANGED faults]_vars /\ <>[]Startable => <>Calm
    BY <1>4, <1>5, <1>6, Invariant, AlwaysStarted, ShutdownEnds, SignalStops, EachLoopEnds, PTL
    DEF Spec, Fairness, Calm, Tended, LoopsLeft, Stops
  <1>8. Calm => <>[](pc = "wait") /\ <>[]Up("gateway") /\ <>[]Up("metrics")
    <2>1. OpensFor("gateway") /\ OpensFor("metrics") BY <1>3, ServerUp
    <2>2. Calm /\ []Sound /\ [](pc = "wait") => <>[]Up("gateway") /\ <>[]Up("metrics")
      BY <2>1, PTL DEF OpensFor, Calm
    <2> QED BY <2>2, CalmStays, BecomesSound, ComesToWait, PTL
  <1>9. IInv /\ pc = "wait" /\ Up("gateway") /\ Up("metrics")
          => pc = "wait" /\ srv = [s \in Servers |-> "up"]
    BY DEF IInv, TypeOK, Up, Servers
  <1> QED BY <1>7, <1>8, <1>9, Invariant, PTL DEF Recovers
================================================================================
