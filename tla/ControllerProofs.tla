--------------------------- MODULE ControllerProofs ----------------------------
(***************************************************************************)
(* For every set of resources and Secrets and any number of edits, failing *)
(* calls and crashes: the controller is type correct, never puts into the  *)
(* ConfigMap what would need a Certificate it could not write, and never   *)
(* writes an annotation before the ConfigMap it is the hash of, whichever  *)
(* writes happen late. Once edits, failures and late writes have ended,    *)
(* ConfigMap, annotation and NetworkPolicy, where the charts have          *)
(* installed them, come to say what the resource says.                     *)
(***************************************************************************)
EXTENDS Controller, TLAPS

KeyLists == UNION {SetToSeqs(k) : k \in Secrets}

\* The steps of reconcile at which it has a resource, its keys, a configuration.
HasCR == {"keys", "redis", "cert", "cm", "policy", "deploy"}
HasKeys == {"redis", "cert", "cm", "policy", "deploy"}
HasConfig == {"cert", "cm", "policy", "deploy"}

\* What reconcile holds at each of its steps.
Holds ==
    /\ got \in [cr : Resources \cup {None}, keys : KeyLists \cup {None}, config : Configs \cup {None}]
    /\ pc \in HasCR => got.cr \in Resources
    /\ pc \in HasKeys => got.keys \in KeyLists
    /\ pc \in HasConfig => \E redis \in BOOLEAN : got.config = Render(got.cr, got.keys, redis)
    /\ pc \notin HasConfig => got.config = None

\* What it has done by then: past the Certificate it needs none, and the ConfigMap has held
\* the configuration, but a late write may have replaced it already.
Done ==
    /\ pc \in {"cm", "policy", "deploy"} => got.cr.tls # "issuer"
    /\ pc \in {"policy", "deploy"} => Meaning(got.config) \in held

\* The ConfigMap is the chart's, or that of a resource that needs no Certificate.
Origin == source \in Resources \cup {None} /\ NoConfigWithoutCertificate

\* A late write was due when it was made, and nothing since has changed that.
Due(w) ==
    /\ w \in [no : 1..MaxFaults, to : {"cm", "policy", "deploy"}, cr : Resources, config : Configs]
    /\ w.to = "cm" => w.cr.tls # "issuer"
    /\ w.to = "deploy" => Meaning(w.config) \in held
AllDue == \A w \in late : Due(w)

\* The history has configurations only, among them the annotation's.
History ==
    /\ held \subseteq {Meaning(config) : config \in Configs}
    /\ RolloutAfterConfig

\* The watch has its first event and one for every edit made since.
EventsBounded == events + edits <= MaxEdits + 1

\* The variables that reconcile does not write.
Outside ==
    /\ cr \in Resources \cup {None} /\ secret \in Secrets \cup {None}
    /\ watch \in BOOLEAN
    /\ events \in Nat /\ edits \in 0..MaxEdits
    /\ EventsBounded

\* The objects of the cluster.
Objects ==
    /\ policy \in Nat \cup {None}
    /\ cm \in Configs \cup {Chart, None} /\ rollout \in Configs \cup {None}
    /\ pc \in {"idle", "cr", "keys", "redis", "cert", "cm", "policy", "deploy"}
    /\ faults \in 0..MaxFaults

Inv == Objects /\ Outside /\ Holds /\ Done /\ Origin /\ AllDue /\ History
--------------------------------------------------------------------------------
\* The controller starts with nothing read and nothing written.
LEMMA InitInv == Init => Inv
<1> SUFFICES ASSUME Init PROVE Inv
  OBVIOUS
<1>6. watch = FALSE
  BY DEF Init
<1>1. watch \in BOOLEAN
  BY <1>6, Zenon
<1>2. Objects
  BY BoundsAssumption DEF Init, Objects
<1>5. Outside
  BY <1>1, BoundsAssumption DEF Init, Outside, EventsBounded
<1>3. Holds /\ Done /\ Origin
  BY DEF Init, Holds, Done, Origin, NoConfigWithoutCertificate, Nothing, HasCR, HasKeys, HasConfig
<1>4. AllDue /\ History
  BY DEF Init, AllDue, History, RolloutAfterConfig
<1> QED  BY <1>2, <1>3, <1>4, <1>5 DEF Inv

\* The configuration reconcile holds is one of Configs.
LEMMA HeldConfig == ASSUME Inv, pc \in HasConfig PROVE got.config \in Configs
<1>1. PICK redis \in BOOLEAN : got.config = Render(got.cr, got.keys, redis)
  BY DEF Inv, Holds
<1>2. got.cr \in Resources /\ got.keys \in KeyLists
  BY DEF Inv, Holds, HasConfig, HasCR, HasKeys
<1> QED  BY <1>1, <1>2 DEF Configs, KeyLists

\* A ConfigMap for a resource without an issuer, and one that stays, keep Origin.
LEMMA ConfigOrigin ==
  ASSUME Inv, NEW res \in Resources \cup {None}, res = None \/ res.tls # "issuer",
         source' = res \/ source' = source
  PROVE  Origin'
BY DEF Inv, Origin, NoConfigWithoutCertificate

\* Late writes stay due while nothing is undone.
LEMMA SameDue == ASSUME Inv, late' \subseteq late, held \subseteq held' PROVE AllDue'
<1> SUFFICES ASSUME NEW w \in late PROVE Due(w)'
  BY DEF AllDue
<1> QED  BY DEF Inv, AllDue, Due

\* The port of a NetworkPolicy is a number, and so is what a call leaves of it.
LEMMA PolicyType ==
  ASSUME Inv, NEW res \in Resources
  PROVE  PolicyPort(res) \in Nat /\ PolicyWritten(res) \in Nat \cup {None}
<1>1. PolicyPort(res) \in Nat
  BY ResourcesAssumption DEF IsResource, PolicyPort
<1> QED  BY <1>1 DEF PolicyWritten, Inv, Objects

\* The history stays what it is unless the ConfigMap or the annotation is written.
LEMMA SameHistory == ASSUME Inv, UNCHANGED <<rollout, held>> PROVE History'
BY DEF Inv, History, RolloutAfterConfig

\* The write that reconcile is at is due, should it happen late.
LEMMA LateDue == ASSUME Inv, MayLand, held' = held PROVE AllDue'
<1> SUFFICES ASSUME NEW w \in late' PROVE Due(w)'
  BY DEF AllDue
<1>1. CASE w \in late
  BY <1>1 DEF Inv, AllDue, Due
<1>2. CASE w \notin late
  <2>1. Writing /\ w = Write
    BY <1>2 DEF MayLand
  <2>2. pc \in HasConfig
    BY <2>1 DEF Writing, HasConfig
  <2>3. got.config \in Configs /\ got.cr \in Resources /\ got.keys \in KeyLists
    BY <2>2, HeldConfig DEF Inv, Holds, HasConfig, HasCR, HasKeys
  <2>4. faults \in 1..MaxFaults
    BY BoundsAssumption DEF MayLand, Fault, Inv, Objects
  <2>5. w.no = faults /\ w.to = pc /\ w.cr = got.cr /\ w.config = got.config
    BY <2>1 DEF Write
  <2>6. w \in [no : 1..MaxFaults, to : {"cm", "policy", "deploy"}, cr : Resources, config : Configs]
    BY <2>1, <2>3, <2>4 DEF Write, Writing
  <2>7. /\ w.to = "cm" => w.cr.tls # "issuer"
        /\ w.to = "deploy" => Meaning(w.config) \in held'
    BY <2>5 DEF Inv, Done
  <2> QED  BY <2>6, <2>7 DEF Due
<1> QED  BY <1>1, <1>2

\* Reconcile gives up, or begins again: it holds nothing.
LEMMA ForgetHolds ==
  ASSUME pc' \in {"idle", "cr"}, got' = Nothing PROVE Holds' /\ Done'
BY DEF Holds, Done, Nothing, HasCR, HasKeys, HasConfig

\* Reconcile, and whatever leaves the users and the watch alone, keeps Outside.
LEMMA SameOutside == ASSUME Inv, UNCHANGED <<user, watch, events>> PROVE Outside'
BY DEF Inv, Outside, EventsBounded, user

\* A fault is one less of those that are left.
LEMMA FaultBound == ASSUME Inv, Fault PROVE faults' \in 0..MaxFaults
BY BoundsAssumption DEF Inv, Objects, Fault
--------------------------------------------------------------------------------
\* Reading the resource, the Secrets and rendering: no object changes.
LEMMA ReadInv ==
  ASSUME Inv, FetchCR \/ FetchClientKeys \/ FetchFails \/ DiscoverRedis PROVE Inv'
<1>1. /\ UNCHANGED <<cm, policy, rollout, held, source, late>>
      /\ UNCHANGED <<user, watch, events>>
  BY DEF FetchCR, FetchClientKeys, FetchFails, DiscoverRedis, objects, cluster, user
<1>2. Outside' /\ Origin' /\ AllDue' /\ History'
  BY <1>1, SameOutside, ConfigOrigin, SameDue, SameHistory
<1>3. faults' \in 0..MaxFaults
  BY FaultBound DEF FetchCR, FetchClientKeys, FetchFails, DiscoverRedis, Inv, Objects
<1>4. pc' \in {"idle", "keys", "redis", "cert"}
  BY DEF FetchCR, FetchClientKeys, FetchFails, DiscoverRedis, Rendered, Abort, Goto
<1>5. Objects'
  BY <1>1, <1>3, <1>4 DEF Inv, Objects
<1>6. Holds' /\ Done'
  <2>1. CASE FetchCR
    <3>1. cr \in Resources /\ got' = [got EXCEPT !.cr = cr] /\ pc = "cr" /\ pc' = "keys"
      BY <2>1 DEF FetchCR, Goto, Inv, Outside
    <3> QED  BY <3>1 DEF Inv, Holds, Done, HasCR, HasKeys, HasConfig
  <2>2. CASE FetchClientKeys
    <3>1. PICK keys \in SetToSeqs(secret) : got' = [got EXCEPT !.keys = keys]
      BY <2>2 DEF FetchClientKeys
    <3>2. keys \in KeyLists /\ pc = "keys" /\ pc' = "redis"
      BY <2>2 DEF FetchClientKeys, Goto, KeyLists, Inv, Outside
    <3> QED  BY <3>1, <3>2 DEF Inv, Holds, Done, HasCR, HasKeys, HasConfig
  <2>3. CASE FetchFails
    BY <2>3, ForgetHolds DEF FetchFails, Abort
  <2>4. CASE DiscoverRedis
    <3>1. pc = "redis" /\ pc' = "cert" /\ \E redis \in BOOLEAN : Rendered(redis)
      BY <2>4, RedisAssumption DEF DiscoverRedis, Rendered, Goto
    <3>2. PICK redis \in BOOLEAN : got' = [got EXCEPT !.config = Render(got.cr, got.keys, redis)]
      BY <3>1 DEF Rendered
    <3>3. got.cr \in Resources /\ got.keys \in KeyLists
      BY <3>1 DEF Inv, Holds, HasCR, HasKeys
    <3>4. PICK config : config = Render(got.cr, got.keys, redis) /\ config \in Configs
      BY <3>3 DEF Configs, KeyLists
    <3>5. /\ got'.cr = got.cr /\ got'.keys = got.keys /\ got'.config = config
          /\ got' \in [cr : Resources \cup {None}, keys : KeyLists \cup {None},
                       config : Configs \cup {None}]
      BY <3>2, <3>4 DEF Inv, Holds
    <3> QED  BY <3>1, <3>3, <3>4, <3>5 DEF Holds, Done, HasCR, HasKeys, HasConfig
  <2> QED  BY <2>1, <2>2, <2>3, <2>4
<1> QED  BY <1>2, <1>5, <1>6 DEF Inv

\* Without the Certificate that is needed, reconcile ends ...
LEMMA CertificateInv == ASSUME Inv, SkipCertificate \/ ReconcileCertificate PROVE Inv'
<1>1. /\ UNCHANGED <<cm, policy, rollout, held, source, late, faults>>
      /\ UNCHANGED <<user, watch, events>>
      /\ pc = "cert" /\ pc' \in {"cm", "idle"}
  BY DEF SkipCertificate, ReconcileCertificate, objects, cluster, user, Goto, Abort
<1>2. Outside' /\ Origin' /\ AllDue' /\ History'
  BY <1>1, SameOutside, ConfigOrigin, SameDue, SameHistory
<1>3. Objects'
  BY <1>1 DEF Inv, Objects
<1>4. CASE SkipCertificate
  <2>1. got' = got /\ pc' = "cm" /\ got.cr.tls # "issuer"
    BY <1>4 DEF SkipCertificate, Goto
  <2>2. Holds' /\ Done'
    BY <1>1, <2>1 DEF Inv, Holds, Done, HasCR, HasKeys, HasConfig
  <2> QED  BY <1>2, <1>3, <2>2 DEF Inv
<1>5. CASE ReconcileCertificate
  BY <1>2, <1>3, <1>5, ForgetHolds DEF ReconcileCertificate, Abort, Inv
<1> QED  BY <1>4, <1>5

\* ... then the ConfigMap ...
LEMMA ConfigMapInv == ASSUME Inv, PatchConfigMap \/ ConfigMapFails PROVE Inv'
<1>1. /\ UNCHANGED <<policy, rollout>>
      /\ UNCHANGED <<user, watch, events>>
      /\ pc = "cm" /\ cm' \in {cm, got.config}
      /\ held' = held \/ (held' = held \cup {Meaning(got.config)} /\ late' = late)
      /\ source' = source \/ source' = got.cr
      /\ late' = late \/ MayLand
      /\ faults' = faults \/ Fault
  BY DEF PatchConfigMap, ConfigMapFails, ConfigWritten, MayLand, objects, user
<1>2. got.config \in Configs /\ got.cr \in Resources /\ got.cr.tls # "issuer"
  BY <1>1, HeldConfig DEF HasConfig, HasCR, Inv, Holds, Done
<1>3. AllDue'
  BY <1>1, SameDue, LateDue
<1>4. History'
  BY <1>1, <1>2 DEF Inv, History, RolloutAfterConfig
<1>5. Outside' /\ Origin'
  BY <1>1, <1>2, SameOutside, ConfigOrigin
<1>6. faults' \in 0..MaxFaults /\ pc' \in {"policy", "idle"}
  BY <1>1, FaultBound DEF PatchConfigMap, ConfigMapFails, Goto, Abort, Inv, Objects
<1>7. Objects'
  BY <1>1, <1>2, <1>6 DEF Inv, Objects
<1>8. CASE PatchConfigMap
  <2>1. got' = got /\ pc' = "policy" /\ Meaning(got.config) \in held'
    BY <1>8 DEF PatchConfigMap, ConfigWritten, Goto
  <2>2. Holds' /\ Done'
    BY <1>1, <2>1 DEF Inv, Holds, Done, HasCR, HasKeys, HasConfig
  <2> QED  BY <1>3, <1>4, <1>5, <1>7, <2>2 DEF Inv
<1>9. CASE ConfigMapFails
  BY <1>3, <1>4, <1>5, <1>7, <1>9, ForgetHolds DEF ConfigMapFails, Abort, Inv
<1> QED  BY <1>8, <1>9

\* ... then the NetworkPolicy ...
LEMMA PolicyInv ==
  ASSUME Inv, SkipPolicy \/ ReconcilePolicy \/ PolicyFails \/ PolicyRefused \/ DeletePolicy
  PROVE  Inv'
<1>1. /\ UNCHANGED <<cm, rollout, held, source>>
      /\ UNCHANGED <<user, watch, events>>
      /\ pc = "policy"
      /\ policy' \in {policy, PolicyWritten(got.cr)}
  BY DEF SkipPolicy, ReconcilePolicy, PolicyFails, PolicyRefused, DeletePolicy, objects, cluster,
         user
<1>2. policy' \in Nat \cup {None}
  <2>1. got.cr \in Resources
    BY <1>1 DEF Inv, Holds, HasCR
  <2> QED  BY <1>1, <2>1, PolicyType DEF Inv, Objects
<1>7. (late' = late \/ MayLand) /\ (faults' = faults \/ Fault)
  BY DEF SkipPolicy, ReconcilePolicy, PolicyFails, PolicyRefused, DeletePolicy, MayLand, cluster
<1>3. Outside' /\ Origin' /\ AllDue' /\ History'
  BY <1>1, <1>7, SameOutside, ConfigOrigin, SameDue, LateDue, SameHistory
<1>4. \/ pc' = "deploy" /\ got' = got
      \/ pc' = "idle" /\ got' = Nothing
  <2>1. CASE SkipPolicy
    BY <2>1 DEF SkipPolicy, Goto
  <2>2. CASE ReconcilePolicy
    BY <2>2 DEF ReconcilePolicy, Goto
  <2>3. CASE PolicyFails
    BY <2>3 DEF PolicyFails, Abort
  <2>4. CASE PolicyRefused
    BY <2>4 DEF PolicyRefused, Goto
  <2>5. CASE DeletePolicy
    BY <2>5 DEF DeletePolicy, Goto
  <2> QED  BY <2>1, <2>2, <2>3, <2>4, <2>5
<1>5. Objects'
  BY <1>1, <1>2, <1>4, <1>7, FaultBound DEF Inv, Objects
<1>6. Holds' /\ Done'
  BY <1>1, <1>4, ForgetHolds DEF Inv, Holds, Done, HasCR, HasKeys, HasConfig
<1> QED  BY <1>3, <1>5, <1>6 DEF Inv

\* ... and the annotation is last.
LEMMA DeploymentInv == ASSUME Inv, PatchDeployment \/ DeploymentFails PROVE Inv'
<1>1. /\ UNCHANGED <<cm, policy, held, source>>
      /\ UNCHANGED <<user, watch, events>>
      /\ pc = "deploy" /\ pc' = "idle" /\ got' = Nothing
      /\ rollout' \in {rollout, got.config}
      /\ late' = late \/ MayLand
  BY DEF PatchDeployment, DeploymentFails, Abort, objects, user
<1>2. got.config \in Configs
  BY <1>1, HeldConfig DEF HasConfig
<1>3. faults' \in 0..MaxFaults
  BY FaultBound DEF PatchDeployment, DeploymentFails, MayLand, Inv, Objects
<1>4. Objects'
  BY <1>1, <1>2, <1>3 DEF Inv, Objects
<1>5. History'
  BY <1>1 DEF Inv, Done, History, RolloutAfterConfig
<1>6. AllDue'
  BY <1>1, SameDue, LateDue
<1> QED  BY <1>1, <1>4, <1>5, <1>6, SameOutside, ConfigOrigin, ForgetHolds DEF Inv

\* A late write takes effect: a ConfigMap needs no Certificate, an annotation has its ConfigMap.
LEMMA LandsInv == ASSUME Inv, Lands PROVE Inv'
<1>1. PICK w \in late : Land(w)
  BY DEF Lands
<1>2. Due(w)
  BY DEF Inv, AllDue
<1>3. /\ UNCHANGED <<pc, got, faults>>
      /\ UNCHANGED <<user, watch, events>>
      /\ late' \subseteq late /\ held \subseteq held'
  BY <1>1 DEF Land, ConfigWritten, user
<1>4. /\ cm' = cm \/ (w.to = "cm" /\ cm' = w.config)
      /\ held' = held \/ (w.to = "cm" /\ held' = held \cup {Meaning(w.config)})
      /\ source' = source \/ (w.to = "cm" /\ source' = w.cr)
      /\ rollout' = rollout \/ (w.to = "deploy" /\ rollout' = w.config)
      /\ policy' \in {policy, PolicyWritten(w.cr)}
  BY <1>1 DEF Land, ConfigWritten
<1>5. /\ w.config \in Configs /\ w.cr \in Resources
      /\ w.to = "cm" => w.cr.tls # "issuer"
      /\ w.to = "deploy" => Meaning(w.config) \in held
  BY <1>2 DEF Due
<1>6. policy' \in Nat \cup {None}
  BY <1>4, <1>5, PolicyType DEF Inv, Objects
<1>7. Objects'
  BY <1>3, <1>4, <1>5, <1>6 DEF Inv, Objects
<1>8. Holds' /\ Done'
  BY <1>3 DEF Inv, Holds, Done
<1>9. Origin'
  BY <1>4, <1>5, ConfigOrigin DEF Inv, Origin, NoConfigWithoutCertificate
<1>10. History'
  BY <1>3, <1>4, <1>5 DEF Inv, History, RolloutAfterConfig
<1>11. AllDue'
  BY <1>3, SameDue
<1> QED  BY <1>3, <1>7, <1>8, <1>9, <1>10, <1>11, SameOutside DEF Inv

\* The watch and a crash leave what was written alone.
LEMMA LoopInv == ASSUME Inv, OpenWatch \/ TakeEvent \/ StreamEnds \/ Crash PROVE Inv'
<1>1. /\ UNCHANGED <<cm, policy, rollout, held, source, cr, secret, edits>>
      /\ late' = late \/ MayLand
  BY DEF OpenWatch, TakeEvent, StreamEnds, Crash, objects, cluster, user
<1>2. watch' \in BOOLEAN
  BY Zenon DEF OpenWatch, TakeEvent, StreamEnds, Crash, Inv, Outside
<1>3. events' \in Nat /\ EventsBounded'
  BY <1>1, BoundsAssumption
     DEF OpenWatch, TakeEvent, StreamEnds, Crash, Inv, Outside, EventsBounded
<1>4. Outside'
  BY <1>1, <1>2, <1>3 DEF Inv, Outside
<1>5. /\ faults' \in 0..MaxFaults
      /\ \/ pc' = pc /\ got' = got
         \/ pc = "idle" /\ pc' = "cr" /\ got' = got
         \/ pc' = "cr" /\ got' = Nothing
  BY FaultBound DEF OpenWatch, TakeEvent, StreamEnds, Crash, MayLand, Goto, Inv, Objects
<1>6. Objects'
  BY <1>1, <1>5 DEF Inv, Objects
<1>7. Holds' /\ Done'
  BY <1>1, <1>5, ForgetHolds DEF Inv, Holds, Done, HasCR, HasKeys, HasConfig
<1>8. AllDue' /\ History'
  BY <1>1, SameDue, LateDue, SameHistory
<1> QED  BY <1>1, <1>4, <1>6, <1>7, <1>8, ConfigOrigin DEF Inv

\* Users edit and charts are upgraded: reconcile does not notice before it reads again.
LEMMA EnvironmentInv ==
  ASSUME Inv, EditCR \/ EditSecret \/ EditConfigMap \/ EditPolicy PROVE Inv'
<1>1. /\ UNCHANGED <<rollout, held, late, pc, got, watch, faults>>
      /\ source' \in {source, None}
  BY DEF EditCR, EditSecret, EditConfigMap, EditPolicy, objects, cluster
<1>2. /\ cr' \in Resources \cup {None} /\ secret' \in Secrets \cup {None}
      /\ cm' \in {cm, Chart, None} /\ policy' \in {policy, 8443, None}
  BY DEF EditCR, EditSecret, EditConfigMap, EditPolicy, objects, cluster, Inv, Outside
<1>3. events' \in Nat /\ edits' \in 0..MaxEdits /\ EventsBounded'
  BY BoundsAssumption
     DEF EditCR, EditSecret, EditConfigMap, EditPolicy, Edit, Inv, Outside, EventsBounded
<1>4. Objects' /\ Outside'
  BY <1>1, <1>2, <1>3 DEF Inv, Objects, Outside
<1>5. Holds' /\ Done'
  BY <1>1 DEF Inv, Holds, Done
<1>6. Origin' /\ AllDue' /\ History'
  BY <1>1, ConfigOrigin, SameDue, SameHistory
<1> QED  BY <1>4, <1>5, <1>6 DEF Inv

\* Every step of the controller, of its users and of the cluster preserves Inv.
LEMMA NextInv == Inv /\ [Next]_vars => Inv'
<1> SUFFICES ASSUME Inv, [Next]_vars PROVE Inv'
  OBVIOUS
<1>1. CASE Reconcile
  BY <1>1, ReadInv, CertificateInv, ConfigMapInv, PolicyInv, DeploymentInv DEF Reconcile
<1>2. CASE UNCHANGED vars
  <2>1. UNCHANGED <<cm, policy, rollout, held, source, late, pc, got, faults>>
    BY <1>2 DEF vars, objects, cluster
  <2>2. UNCHANGED <<user, watch, events>>
    BY <1>2 DEF vars
  <2>3. Objects' /\ Holds' /\ Done'
    BY <2>1 DEF Inv, Objects, Holds, Done
  <2> QED  BY <2>1, <2>2, <2>3, SameOutside, ConfigOrigin, SameDue, SameHistory DEF Inv
<1> QED  BY <1>1, <1>2, LoopInv, LandsInv, EnvironmentInv DEF Next
--------------------------------------------------------------------------------
\* The inductive invariant holds throughout.
THEOREM Invariance == Spec => []Inv
BY InitInv, NextInv, PTL DEF Spec

\* Type correctness of the controller and of the objects it writes: in particular,
\* reconcile holds a configuration exactly while it is writing one.
THEOREM TypeCorrect == Spec => []TypeOK
<1>1. Inv => TypeOK
  <2> SUFFICES ASSUME Inv PROVE TypeOK
    OBVIOUS
  <2>1. got.config # None <=> pc \in HasConfig
    BY HeldConfig, NoneAssumption DEF Inv, Holds
  <2>2. events \in 0..MaxEdits + 1
    BY BoundsAssumption DEF Inv, Outside, EventsBounded
  <2>3. late \subseteq [no : 1..MaxFaults, to : {"cm", "policy", "deploy"},
                      cr : Resources, config : Configs]
    BY DEF Inv, AllDue, Due
  <2> QED  BY <2>1, <2>2, <2>3 DEF Inv, Objects, Outside, Origin, History, TypeOK, HasConfig
<1> QED  BY <1>1, Invariance, PTL

\* A ConfigMap that makes the listener use an issuer's certificate is never written: the
\* Certificate it needs is not taken, and reconcile (main.go:128-153) ends before it.
THEOREM CertificateFirst == Spec => []NoConfigWithoutCertificate
<1>1. Inv => NoConfigWithoutCertificate
  BY DEF Inv, Origin
<1> QED  BY <1>1, Invariance, PTL

\* The annotation that restarts the gateway (main.go:173) is always the hash of a
\* configuration that the ConfigMap has held, whichever calls took effect late.
THEOREM RolloutFollows == Spec => []RolloutAfterConfig
<1>1. Inv => RolloutAfterConfig
  BY DEF Inv, History
<1> QED  BY <1>1, Invariance, PTL
--------------------------------------------------------------------------------
(* Convergence. ENABLED is left to TLC, in GoesOn, and so is the counting that ends the *)
(* edits, the faults and the late writes; Settles takes them to have ended.             *)

Settles == <>[][UNCHANGED <<edits, faults>>]_vars /\ <>[](late = {})

\* A step of the time when users and the API server leave the controller alone.
Quiet == Inv /\ [Next]_vars /\ [UNCHANGED <<edits, faults>>]_vars /\ late = {}

\* What reconcile holds is what the cluster has.
Current ==
    /\ pc \in HasCR => got.cr = cr
    /\ pc \in HasKeys => got.keys \in SetToSeqs(secret)
    /\ pc \in HasConfig => got.config = Render(cr, got.keys, RedisInstalled)

GoodPolicy ==
    Applicable /\ cr.home =>
        /\ cr.np = "disabled" => policy = None
        /\ cr.np = "enabled" => policy \in {None, PolicyPort(cr)}

\* Where reconcile goes from each of its steps when nothing fails.
After(p) ==
    CASE p = "cr" -> "keys" [] p = "keys" -> "redis" [] p = "redis" -> "cert"
      [] p = "cert" -> "cm" [] p = "cm" -> "policy" [] p = "policy" -> "deploy"
      [] OTHER -> "idle"

\* It may also end at the Certificate and at the NetworkPolicy.
Ends(p) == p \in {"cert", "policy"}

\* Nothing but reconcile and the watch moves any more.
LEMMA QuietActions ==
  ASSUME Quiet
  PROVE  /\ Reconcile \/ OpenWatch \/ TakeEvent \/ StreamEnds \/ UNCHANGED vars
         /\ UNCHANGED <<cr, secret, faults>>
         /\ ~Fault /\ ~MayLand
<1>1. UNCHANGED <<edits, faults>>
  BY DEF Quiet, vars, user
<1>2. faults \in Nat /\ edits \in Nat
  BY BoundsAssumption DEF Quiet, Inv, Objects, Outside
<1>3. ~Fault /\ ~Edit
  BY <1>1, <1>2 DEF Fault, Edit
<1>4. ~Crash /\ ~Lands /\ ~EditCR /\ ~EditSecret /\ ~EditConfigMap /\ ~EditPolicy /\ ~MayLand
  BY <1>3 DEF Quiet, Crash, MayLand, Lands, EditCR, EditSecret, EditConfigMap, EditPolicy
<1>5. Reconcile \/ OpenWatch \/ TakeEvent \/ StreamEnds \/ UNCHANGED vars
  BY <1>4 DEF Quiet, Next
<1>6. Reconcile => UNCHANGED user
  BY DEF Reconcile, FetchCR, FetchClientKeys, FetchFails, DiscoverRedis, SkipCertificate,
         ReconcileCertificate, PatchConfigMap, ConfigMapFails, SkipPolicy, ReconcilePolicy,
         PolicyFails, PolicyRefused, DeletePolicy, PatchDeployment, DeploymentFails
<1>7. OpenWatch \/ TakeEvent \/ StreamEnds \/ UNCHANGED vars => UNCHANGED user
  BY DEF OpenWatch, TakeEvent, StreamEnds, vars
<1> QED  BY <1>1, <1>3, <1>4, <1>5, <1>6, <1>7 DEF user

\* Reconcile then takes one step after the other.
LEMMA ReconcileQuiet ==
  ASSUME Quiet, Reconcile, Applicable
  PROVE  \/ FetchCR \/ FetchClientKeys \/ DiscoverRedis
         \/ SkipCertificate \/ ReconcileCertificate \/ PatchConfigMap
         \/ SkipPolicy \/ ReconcilePolicy \/ DeletePolicy \/ PolicyFails \/ PolicyRefused
         \/ PatchDeployment
<1>1. ~Fault /\ ~MayLand
  BY QuietActions
<1>2. ~FetchFails /\ ~ConfigMapFails /\ ~DeploymentFails
  BY <1>1 DEF Applicable, FetchFails, ConfigMapFails, DeploymentFails
<1> QED  BY <1>2 DEF Reconcile

\* The call for the NetworkPolicy finds it missing, or itself in another namespace.
LEMMA PolicyMissing ==
  ASSUME Quiet
  PROVE  /\ PolicyFails => got.cr.np = "enabled" /\ got.cr.home /\ policy = None
         /\ PolicyRefused => ~got.cr.home
         /\ DeletePolicy => policy' = PolicyWritten(got.cr)
<1>1. ~Fault /\ ~MayLand
  BY QuietActions
<1> QED  BY <1>1 DEF PolicyFails, PolicyRefused, DeletePolicy

\* Each step of reconcile leads to the next, or ends it, and leaves the watch alone.
LEMMA ReconcileMoves ==
  ASSUME Quiet, Applicable, Reconcile
  PROVE  /\ pc # "idle"
         /\ pc' = After(pc) \/ (Ends(pc) /\ pc' = "idle")
         /\ UNCHANGED <<watch, events>>
<1>1. CASE FetchCR \/ FetchClientKeys \/ DiscoverRedis
  BY <1>1 DEF FetchCR, FetchClientKeys, DiscoverRedis, Rendered, Goto, After
<1>2. CASE SkipCertificate \/ ReconcileCertificate \/ PatchConfigMap
  BY <1>2 DEF SkipCertificate, ReconcileCertificate, PatchConfigMap, Goto, Abort, After, Ends
<1>3. CASE SkipPolicy \/ ReconcilePolicy \/ DeletePolicy \/ PolicyFails \/ PolicyRefused
  BY <1>3 DEF SkipPolicy, ReconcilePolicy, DeletePolicy, PolicyFails, PolicyRefused, Goto, Abort,
              After, Ends
<1>4. CASE PatchDeployment
  BY <1>4 DEF PatchDeployment, After
<1> QED  BY <1>1, <1>2, <1>3, <1>4, ReconcileQuiet

\* With what is current, it does not end early unless a NetworkPolicy is missing.
LEMMA ReconcileGoesOn ==
  ASSUME Quiet, Applicable, Current, Reconcile
  PROVE  pc # "policy" \/ Passable => pc' = After(pc)
<1>1. pc \in HasCR => got.cr = cr
  BY DEF Current
<1>2. CASE pc = "cert"
  <2>1. ~ReconcileCertificate
    BY <1>1, <1>2 DEF ReconcileCertificate, Applicable, HasCR
  <2>2. SkipCertificate
    BY <1>2, <2>1, ReconcileQuiet DEF FetchCR, FetchClientKeys, DiscoverRedis, PatchConfigMap,
       SkipPolicy, ReconcilePolicy, DeletePolicy, PolicyFails, PolicyRefused, PatchDeployment
  <2> QED  BY <1>2, <2>2 DEF SkipCertificate, Goto, After
<1>3. CASE pc = "policy" /\ Passable
  <2>1. ~PolicyFails
    BY <1>1, <1>3, PolicyMissing DEF Passable, HasCR
  <2>2. SkipPolicy \/ ReconcilePolicy \/ DeletePolicy \/ PolicyRefused
    BY <1>3, <2>1, ReconcileQuiet DEF FetchCR, FetchClientKeys, DiscoverRedis, SkipCertificate,
       ReconcileCertificate, PatchConfigMap, PatchDeployment
  <2> QED  BY <1>3, <2>2 DEF SkipPolicy, ReconcilePolicy, DeletePolicy, PolicyRefused, Goto, After
<1> QED  BY <1>2, <1>3, ReconcileMoves DEF Ends

\* What reconcile reads and renders is current from the first read on.
LEMMA ReconcileCurrent ==
  ASSUME Quiet, Applicable, Current, Reconcile
  PROVE  Current'
<1>0. UNCHANGED <<cr, secret>> /\ ~Fault
  BY QuietActions
<1>1. CASE FetchCR
  <2>1. got'.cr = cr /\ pc' = "keys"
    BY <1>1 DEF FetchCR, Goto, Quiet, Inv, Holds
  <2> QED  BY <1>0, <2>1 DEF Current, HasCR, HasKeys, HasConfig
<1>2. CASE FetchClientKeys
  <2>1. PICK keys \in SetToSeqs(secret) : got' = [got EXCEPT !.keys = keys]
    BY <1>2 DEF FetchClientKeys
  <2>2. got'.cr = got.cr /\ got'.keys = keys /\ pc = "keys" /\ pc' = "redis"
    BY <1>2, <2>1 DEF FetchClientKeys, Goto, Quiet, Inv, Holds
  <2> QED  BY <1>0, <2>2 DEF Current, HasCR, HasKeys, HasConfig
<1>3. CASE DiscoverRedis
  <2>1. pc = "redis" /\ pc' = "cert"
        /\ got' = [got EXCEPT !.config = Render(got.cr, got.keys, RedisInstalled)]
    BY <1>0, <1>3 DEF DiscoverRedis, Rendered, Goto
  <2>2. got.cr = cr /\ got.keys \in SetToSeqs(secret)
    BY <2>1 DEF Current, HasCR, HasKeys
  <2>3. got'.cr = got.cr /\ got'.keys = got.keys
        /\ got'.config = Render(got.cr, got.keys, RedisInstalled)
    BY <2>1 DEF Quiet, Inv, Holds
  <2> QED  BY <1>0, <2>1, <2>2, <2>3 DEF Current
<1>4. CASE pc' = "idle"
  BY <1>4 DEF Current, HasCR, HasKeys, HasConfig
<1>5. CASE pc' # "idle" /\ ~FetchCR /\ ~FetchClientKeys /\ ~DiscoverRedis
  <2>1. got' = got /\ pc \in HasConfig
    BY <1>5, ReconcileQuiet
       DEF SkipCertificate, ReconcileCertificate, PatchConfigMap, SkipPolicy, ReconcilePolicy,
           DeletePolicy, PolicyFails, PolicyRefused, PatchDeployment, Abort, HasConfig
  <2>2. pc \in HasCR /\ pc \in HasKeys
    BY <2>1 DEF HasCR, HasKeys, HasConfig
  <2> QED  BY <1>0, <2>1, <2>2 DEF Current
<1> QED  BY <1>1, <1>2, <1>3, <1>4, <1>5

\* The configuration reconcile has rendered from what is current is up to date.
LEMMA RenderedUpToDate ==
  ASSUME Inv, Current, pc \in HasConfig
  PROVE  UpToDate(got.config)
<1>1. got.config # None
  BY HeldConfig, NoneAssumption
<1>2. got.keys \in SetToSeqs(secret) /\ got.config = Render(cr, got.keys, RedisInstalled)
  BY DEF Current, HasConfig, HasKeys
<1> QED  BY <1>1, <1>2 DEF UpToDate

\* It takes a ConfigMap to write one, and it stays.
LEMMA ConfigMapStays == ASSUME Quiet PROVE cm = None <=> cm' = None
<1>1. CASE PatchConfigMap
  <2>1. pc \in HasConfig /\ cm # None /\ cm' = got.config
    BY <1>1 DEF PatchConfigMap, ConfigWritten, HasConfig
  <2> QED  BY <2>1, HeldConfig, NoneAssumption DEF Quiet
<1>2. CASE ~PatchConfigMap
  <2>1. Reconcile => cm' = cm
    BY <1>2 DEF Reconcile, FetchCR, FetchClientKeys, FetchFails, DiscoverRedis, SkipCertificate,
       ReconcileCertificate, ConfigMapFails, SkipPolicy, ReconcilePolicy, PolicyFails,
       PolicyRefused, DeletePolicy, PatchDeployment, DeploymentFails, cluster, objects
  <2>2. OpenWatch \/ TakeEvent \/ StreamEnds \/ UNCHANGED vars => cm' = cm
    BY DEF OpenWatch, TakeEvent, StreamEnds, vars, cluster, objects
  <2> QED  BY <2>1, <2>2, QuietActions
<1> QED  BY <1>1, <1>2

\* What reconcile writes is right, and what is right it leaves so: the ConfigMap and the
\* annotation ...
LEMMA ReconcileWrites ==
  ASSUME Quiet, Applicable, Current, Reconcile
  PROVE  /\ pc = "cm" \/ UpToDate(cm) => UpToDate(cm)'
         /\ pc = "deploy" \/ UpToDate(rollout) => UpToDate(rollout)'
<1>0. Inv /\ UNCHANGED <<cr, secret>>
  BY QuietActions DEF Quiet
<1>1. pc = "cm" \/ UpToDate(cm) => UpToDate(cm)'
  <2>1. CASE PatchConfigMap
    <3>1. pc \in HasConfig /\ cm' = got.config
      BY <2>1 DEF PatchConfigMap, ConfigWritten, HasConfig
    <3> QED  BY <1>0, <3>1, RenderedUpToDate DEF UpToDate
  <2>2. CASE ~PatchConfigMap
    <3>1. cm' = cm /\ pc # "cm"
      BY <2>2, ReconcileQuiet DEF FetchCR, FetchClientKeys, DiscoverRedis, SkipCertificate,
         ReconcileCertificate, SkipPolicy, ReconcilePolicy, DeletePolicy, PolicyFails,
         PolicyRefused, PatchDeployment, cluster, objects
    <3> QED  BY <1>0, <3>1 DEF UpToDate
  <2> QED  BY <2>1, <2>2
<1>2. pc = "deploy" \/ UpToDate(rollout) => UpToDate(rollout)'
  <2>1. CASE PatchDeployment
    <3>1. pc \in HasConfig /\ rollout' = got.config
      BY <2>1 DEF PatchDeployment, HasConfig
    <3> QED  BY <1>0, <3>1, RenderedUpToDate DEF UpToDate
  <2>2. CASE ~PatchDeployment
    <3>1. rollout' = rollout /\ pc # "deploy"
      BY <2>2, ReconcileQuiet DEF FetchCR, FetchClientKeys, DiscoverRedis, SkipCertificate,
         ReconcileCertificate, PatchConfigMap, SkipPolicy, ReconcilePolicy, DeletePolicy,
         PolicyFails, PolicyRefused, cluster, objects
    <3> QED  BY <1>0, <3>1 DEF UpToDate
  <2> QED  BY <2>1, <2>2
<1> QED  BY <1>1, <1>2

\* ... and the NetworkPolicy, which is neither created nor, if it is to be kept, removed.
LEMMA ReconcilePolicyWrites ==
  ASSUME Quiet, Applicable, Current, Reconcile
  PROVE  /\ pc = "policy" \/ GoodPolicy => GoodPolicy'
         /\ Passable <=> Passable'
<1>0. Inv /\ UNCHANGED <<cr, secret>> /\ (Applicable <=> Applicable')
  BY QuietActions, ConfigMapStays DEF Quiet, Applicable
<1>1. pc = "policy" => got.cr = cr /\ cr \in Resources
  BY <1>0 DEF Current, HasCR, Inv, Holds
<1>2. CASE SkipPolicy
  <2>1. pc = "policy" /\ got.cr.np = "none" /\ policy' = policy
    BY <1>2 DEF SkipPolicy, cluster, objects
  <2> QED  BY <1>0, <1>1, <2>1 DEF GoodPolicy, Passable
<1>3. CASE ReconcilePolicy
  <2>1. /\ pc = "policy" /\ got.cr.np = "enabled" /\ got.cr.home
        /\ policy # None /\ policy' = PolicyPort(got.cr)
    BY <1>3 DEF ReconcilePolicy, PolicyWritten
  <2>2. policy' # None
    BY <1>0, <1>1, <2>1, PolicyType, NoneAssumption
  <2>3. policy' = PolicyPort(cr)' /\ cr'.np = "enabled"
    BY <1>0, <1>1, <2>1 DEF PolicyPort
  <2> QED  BY <1>0, <1>1, <2>1, <2>2, <2>3 DEF GoodPolicy, Passable
<1>4. CASE DeletePolicy
  <2>1. pc = "policy" /\ got.cr.np = "disabled" /\ policy' = PolicyWritten(got.cr)
    BY <1>4, PolicyMissing DEF DeletePolicy
  <2>2. cr'.np = "disabled" /\ (cr'.home => policy' = None)
    BY <1>0, <1>1, <2>1 DEF PolicyWritten
  <2> QED  BY <1>0, <2>2 DEF GoodPolicy, Passable
<1>5. CASE PolicyFails
  <2>1. pc = "policy" /\ got.cr.np = "enabled" /\ policy = None /\ policy' = policy
    BY <1>5, PolicyMissing DEF PolicyFails, objects
  <2> QED  BY <1>0, <1>1, <2>1 DEF GoodPolicy, Passable
<1>6. CASE PolicyRefused
  <2>1. pc = "policy" /\ ~got.cr.home /\ policy' = policy
    BY <1>6, PolicyMissing DEF PolicyRefused, cluster, objects
  <2> QED  BY <1>0, <1>1, <2>1 DEF GoodPolicy, Passable
<1>7. CASE ~SkipPolicy /\ ~ReconcilePolicy /\ ~DeletePolicy /\ ~PolicyFails /\ ~PolicyRefused
  <2>1. policy' = policy /\ pc # "policy"
    BY <1>7, ReconcileQuiet DEF FetchCR, FetchClientKeys, DiscoverRedis, SkipCertificate,
       ReconcileCertificate, PatchConfigMap, PatchDeployment, cluster, objects
  <2> QED  BY <1>0, <2>1 DEF GoodPolicy, Passable, PolicyPort
<1> QED  BY <1>2, <1>3, <1>4, <1>5, <1>6, <1>7

\* The watch leaves reconcile and what it has written alone.
LEMMA OtherSteps ==
  ASSUME Quiet, ~Reconcile
  PROVE  /\ pc' = pc \/ (TakeEvent /\ pc = "idle" /\ pc' = "cr")
         /\ UNCHANGED <<got, cm, policy, rollout, cr, secret>>
<1>1. OpenWatch \/ TakeEvent \/ StreamEnds \/ UNCHANGED vars
  BY QuietActions
<1>2. UNCHANGED cluster /\ UNCHANGED user /\ UNCHANGED got
  BY <1>1 DEF OpenWatch, TakeEvent, StreamEnds, vars
<1>3. pc' = pc \/ (TakeEvent /\ pc = "idle" /\ pc' = "cr")
  BY <1>1 DEF OpenWatch, TakeEvent, StreamEnds, vars, Goto
<1> QED  BY <1>2, <1>3 DEF cluster, objects, user

\* What a quiet step does: to the watch ...
LEMMA WatchSteps ==
  ASSUME Quiet, Applicable
  PROVE  /\ ~watch => ~watch' \/ (pc = "idle" /\ pc' = "idle" /\ watch' /\ events' > 0)
         /\ OpenWatch => pc' = "idle" /\ watch' /\ events' > 0
         /\ StreamEnds => ~watch'
         /\ TakeEvent => pc' = "cr"
<1>1. OpenWatch => pc = "idle" /\ pc' = "idle" /\ watch' /\ events' > 0
  BY DEF OpenWatch, Applicable
<1>2. ASSUME ~watch, ~OpenWatch PROVE ~watch'
  <2>1. Reconcile => UNCHANGED watch
    BY ReconcileMoves
  <2>2. ~StreamEnds /\ ~TakeEvent
    BY <1>2 DEF StreamEnds, TakeEvent
  <2>3. UNCHANGED vars => UNCHANGED watch
    BY DEF vars
  <2> QED  BY <1>2, <2>1, <2>2, <2>3, QuietActions
<1>3. StreamEnds => ~watch'
  BY DEF StreamEnds
<1>4. TakeEvent => pc' = "cr"
  BY DEF TakeEvent, Goto
<1> QED  BY <1>1, <1>2, <1>3, <1>4

\* ... and to reconcile and what it writes.
LEMMA QuietSteps ==
  ASSUME Quiet
  PROVE  /\ Applicable <=> Applicable'
         /\ Applicable /\ Reconcile => pc' = After(pc) \/ (Ends(pc) /\ pc' = "idle")
         /\ Applicable /\ pc # "idle" => pc' \in {pc, After(pc)} \/ (Ends(pc) /\ pc' = "idle")
         /\ pc = "idle" /\ Applicable => pc' \in {"idle", "cr"}
         /\ Applicable /\ Current =>
              /\ Current' /\ (Passable <=> Passable')
              /\ pc # "idle" /\ (pc # "policy" \/ Passable) => pc' \in {pc, After(pc)}
              /\ Reconcile /\ (pc # "policy" \/ Passable) => pc' = After(pc)
              /\ UpToDate(cm) => UpToDate(cm)'
              /\ GoodPolicy => GoodPolicy'
              /\ UpToDate(rollout) => UpToDate(rollout)'
              /\ pc = "cm" => pc' = "cm" \/ UpToDate(cm)'
              /\ pc = "policy" => pc' = "policy" \/ GoodPolicy'
              /\ pc = "deploy" => pc' = "deploy" \/ UpToDate(rollout)'
<1>1. UNCHANGED <<cr, secret>>
  BY QuietActions
<1>2. Applicable <=> Applicable'
  BY <1>1, ConfigMapStays DEF Applicable
<1>3. CASE ~Applicable
  BY <1>2, <1>3
<1>4. CASE Applicable /\ Reconcile
  BY <1>2, <1>4, ReconcileMoves, ReconcileGoesOn, ReconcileCurrent, ReconcileWrites,
     ReconcilePolicyWrites
<1>5. CASE Applicable /\ ~Reconcile
  <2>1. /\ pc' = pc \/ (pc = "idle" /\ pc' = "cr")
        /\ UNCHANGED <<got, cm, policy, rollout>>
    BY <1>5, OtherSteps
  <2>2. Current => Current'
    BY <1>1, <2>1 DEF Current, HasCR, HasKeys, HasConfig
  <2>3. (UpToDate(cm) => UpToDate(cm)') /\ (UpToDate(rollout) => UpToDate(rollout)')
    BY <1>1, <2>1 DEF UpToDate
  <2>4. (GoodPolicy => GoodPolicy') /\ (Passable <=> Passable')
    BY <1>1, <1>2, <2>1 DEF GoodPolicy, Passable, PolicyPort
  <2> QED  BY <1>2, <1>5, <2>1, <2>2, <2>3, <2>4
<1> QED  BY <1>3, <1>4, <1>5

\* Each of reconcile's steps in turn, for the temporal reasoning.
LEMMA Chain ==
  /\ Quiet /\ Applicable =>
       /\ pc = "idle" => (pc = "idle")' \/ (pc = "cr")'
       /\ pc = "cr" => (pc = "cr")' \/ (pc = "keys")'
       /\ pc = "keys" => (pc = "keys")' \/ (pc = "redis")'
       /\ pc = "redis" => (pc = "redis")' \/ (pc = "cert")'
       /\ pc = "cert" => (pc = "cert")' \/ (pc = "cm")' \/ (pc = "idle")'
       /\ pc = "cm" => (pc = "cm")' \/ (pc = "policy")'
       /\ pc = "policy" => (pc = "policy")' \/ (pc = "deploy")' \/ (pc = "idle")'
       /\ pc = "deploy" => (pc = "deploy")' \/ (pc = "idle")'
  /\ Quiet /\ Applicable /\ <<Reconcile>>_vars =>
       /\ pc = "cr" => (pc = "keys")'
       /\ pc = "keys" => (pc = "redis")'
       /\ pc = "redis" => (pc = "cert")'
       /\ pc = "cert" => (pc = "cm")' \/ (pc = "idle")'
       /\ pc = "cm" => (pc = "policy")'
       /\ pc = "policy" => (pc = "deploy")' \/ (pc = "idle")'
       /\ pc = "deploy" => (pc = "idle")'
  /\ Quiet /\ Applicable /\ Current =>
       /\ pc = "cert" => (pc = "cert")' \/ (pc = "cm")'
       /\ pc = "policy" /\ Passable => (pc = "policy")' \/ (pc = "deploy")'
  /\ Quiet /\ Applicable /\ Current /\ <<Reconcile>>_vars =>
       /\ pc = "cert" => (pc = "cm")'
       /\ pc = "policy" /\ Passable => (pc = "deploy")'
  /\ Inv => \/ pc = "idle" \/ pc = "cr" \/ pc = "keys" \/ pc = "redis"
            \/ pc = "cert" \/ pc = "cm" \/ pc = "policy" \/ pc = "deploy"
  /\ pc = "cr" \/ pc = "keys" \/ pc = "redis" \/ pc = "cert" \/ pc = "cm" \/ pc = "policy"
       \/ pc = "deploy" => pc # "idle"
<1>1. ASSUME Quiet, Applicable, pc # "idle"
      PROVE  pc' \in {pc, After(pc)} \/ (Ends(pc) /\ pc' = "idle")
  BY <1>1, QuietSteps
<1>2. ASSUME Quiet, Applicable, pc = "idle" PROVE pc' \in {"idle", "cr"}
  BY <1>2, QuietSteps
<1>3. ASSUME Quiet, Applicable, <<Reconcile>>_vars
      PROVE  pc' = After(pc) \/ (Ends(pc) /\ pc' = "idle")
  BY <1>3, QuietSteps
<1>4. ASSUME Quiet, Applicable, Current, pc # "idle", pc # "policy" \/ Passable
      PROVE  pc' \in {pc, After(pc)} /\ (Reconcile => pc' = After(pc))
  BY <1>4, QuietSteps
<1>5. Inv => \/ pc = "idle" \/ pc = "cr" \/ pc = "keys" \/ pc = "redis"
             \/ pc = "cert" \/ pc = "cm" \/ pc = "policy" \/ pc = "deploy"
  BY DEF Inv, Objects
<1>6. /\ After("cr") = "keys" /\ After("keys") = "redis" /\ After("redis") = "cert"
      /\ After("cert") = "cm" /\ After("cm") = "policy" /\ After("policy") = "deploy"
      /\ After("deploy") = "idle"
      /\ ~Ends("cr") /\ ~Ends("keys") /\ ~Ends("redis") /\ ~Ends("cm")
  BY DEF After, Ends
<1> QED  BY <1>1, <1>2, <1>3, <1>4, <1>5, <1>6

\* The time after everything has settled, with what reconcile needs in place.
Calm ==
    /\ []Inv /\ [][Next]_vars /\ [][UNCHANGED <<edits, faults>>]_vars /\ [](late = {})
    /\ []Applicable /\ Fairness /\ []GoesOn

\* Every reconcile comes to its end ...
LEMMA ComesToEnd == Calm => (TRUE ~> pc = "idle")
<1>1. Inv /\ [Next]_vars /\ [UNCHANGED <<edits, faults>>]_vars /\ late = {} => Quiet
  BY DEF Quiet
<1> QED  BY <1>1, Chain, PTL DEF Calm, Fairness, GoesOn

\* ... and another begins: every watch ends, and the next one begins with an event.
LEMMA BeginsAgain == Calm => (TRUE ~> pc = "cr")
<1>1. Inv /\ [Next]_vars /\ [UNCHANGED <<edits, faults>>]_vars /\ late = {} => Quiet
  BY DEF Quiet
<1> DEFINE Ready == pc = "idle" /\ watch /\ events > 0
<1>2. Quiet /\ Applicable => (~watch => (~watch)' \/ Ready')
  BY WatchSteps
<1>3. /\ Quiet /\ Applicable /\ <<OpenWatch>>_vars => Ready'
      /\ Quiet /\ Applicable /\ <<StreamEnds>>_vars => (~watch)'
      /\ Quiet /\ Applicable /\ <<TakeEvent>>_vars => (pc = "cr")'
  BY WatchSteps
<1>4. Ready => pc = "idle" /\ watch /\ events > 0
  OBVIOUS
<1> HIDE DEF Ready
<1> QED  BY <1>1, <1>2, <1>3, <1>4, Chain, ComesToEnd, PTL DEF Calm, Fairness, GoesOn

\* So reconcile works with what is current from then on ...
LEMMA BecomesCurrent == Calm => <>[]Current
<1>1. Inv /\ [Next]_vars /\ [UNCHANGED <<edits, faults>>]_vars /\ late = {} => Quiet
  BY DEF Quiet
<1>2. pc = "cr" => Current
  BY DEF Current, HasCR, HasKeys, HasConfig
<1>3. Quiet /\ Applicable /\ Current => Current'
  BY QuietSteps
<1> QED  BY <1>1, <1>2, <1>3, BeginsAgain, PTL DEF Calm

\* ... and puts everything right, for good; the annotation if there is nothing missing.
LEMMA PutsRight ==
  Calm => <>[](UpToDate(cm) /\ (Passable => UpToDate(rollout))) /\ <>[]GoodPolicy
<1>1. Inv /\ [Next]_vars /\ [UNCHANGED <<edits, faults>>]_vars /\ late = {} => Quiet
  BY DEF Quiet
<1>2. Quiet /\ Applicable /\ Current =>
        /\ UpToDate(cm) => UpToDate(cm)'
        /\ GoodPolicy => GoodPolicy'
        /\ UpToDate(rollout) => UpToDate(rollout)'
        /\ pc = "cm" => (pc = "cm")' \/ UpToDate(cm)'
        /\ pc = "policy" => (pc = "policy")' \/ GoodPolicy'
        /\ pc = "deploy" => (pc = "deploy")' \/ UpToDate(rollout)'
        /\ Passable => Passable'
        /\ ~Passable => (~Passable)'
  BY QuietSteps
<1>3. Calm /\ []Current => <>(pc = "cm") /\ <>(pc = "policy")
  BY <1>1, Chain, BeginsAgain, PTL DEF Calm, Fairness, GoesOn
<1>9. Calm /\ []Current /\ []Passable => <>(pc = "deploy")
  BY <1>1, <1>3, Chain, PTL DEF Calm, Fairness, GoesOn
<1>4. Calm => []Calm
  BY PTL DEF Calm, Fairness
<1>5. /\ pc = "cm" => ~(pc = "idle")
      /\ pc = "policy" => ~(pc = "idle")
      /\ pc = "deploy" => ~(pc = "idle")
  OBVIOUS
<1>6. Calm /\ []Current => <>[]UpToDate(cm)
  BY <1>1, <1>2, <1>3, <1>4, <1>5, ComesToEnd, PTL DEF Calm
<1>7. Calm /\ []Current => <>[]GoodPolicy
  BY <1>1, <1>2, <1>3, <1>4, <1>5, ComesToEnd, PTL DEF Calm
<1>8. Calm /\ []Current /\ []Passable => <>[]UpToDate(rollout)
  BY <1>1, <1>2, <1>9, <1>4, <1>5, ComesToEnd, PTL DEF Calm
<1>10. Calm /\ []Current => []Passable \/ []~Passable
  BY <1>1, <1>2, PTL DEF Calm
<1>11. Calm /\ []Current => <>[](UpToDate(cm) /\ (Passable => UpToDate(rollout)))
  BY <1>6, <1>8, <1>10, PTL
<1> QED  BY <1>4, <1>7, <1>11, BecomesCurrent, PTL

\* Once things have settled, what reconcile needs is in place for good, or it is not.
LEMMA CalmOrNot == Spec /\ []GoesOn /\ Settles => <>Calm \/ <>[]~Applicable
<1>1. Inv /\ [Next]_vars /\ [UNCHANGED <<edits, faults>>]_vars /\ late = {}
        => (Applicable => Applicable') /\ (~Applicable => (~Applicable)')
  BY QuietSteps DEF Quiet
<1> DEFINE Still == []Inv /\ [][Next]_vars /\ [][UNCHANGED <<edits, faults>>]_vars /\ [](late = {})
<1>2. Spec /\ Settles => <>Still /\ []Fairness
  BY Invariance, PTL DEF Spec, Settles, Fairness
<1>3. Still => []Applicable \/ []~Applicable
  BY <1>1, PTL
<1>4. Still /\ []Applicable /\ Fairness /\ []GoesOn => Calm
  BY DEF Calm
<1> HIDE DEF Still
<1> QED  BY <1>2, <1>3, <1>4, PTL

\* The ConfigMap that the chart has installed, and the annotation unless a NetworkPolicy is
\* missing, end up with the configuration of a resource that needs no Certificate, once users
\* and the API server leave the controller alone: whichever calls failed before, whichever
\* events were lost with their watch, and whatever took effect late.
THEOREM ConfigurationConverges == Spec /\ []GoesOn /\ Settles => ConfigConverges
BY CalmOrNot, PutsRight, PTL DEF ConfigConverges

\* So does the NetworkPolicy that the chart has installed, although the errors of its
\* deletion are ignored and a refusal passes for success.
THEOREM NetworkPolicyConverges == Spec /\ []GoesOn /\ Settles => PolicyConverges
<1>1. ~Applicable => GoodPolicy
  BY DEF GoodPolicy
<1>2. GoodPolicy => (Applicable /\ cr.home =>
                       /\ cr.np = "disabled" => policy = None
                       /\ cr.np = "enabled" => policy \in {None, PolicyPort(cr)})
  BY DEF GoodPolicy
<1> QED  BY <1>1, <1>2, CalmOrNot, PutsRight, PTL DEF PolicyConverges
================================================================================
