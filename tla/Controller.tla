------------------------------- MODULE Controller ------------------------------
(***************************************************************************)
(* The controller (src/cmd/controller/main.go): a single goroutine that    *)
(* reconciles once at start and then on every ADDED or MODIFIED event of   *)
(* a watch. A reconcile reads the custom resource and two Secrets, renders *)
(* the gateway's configuration, and writes a Certificate, the ConfigMap, a *)
(* NetworkPolicy and the annotation that restarts the gateway, each with a *)
(* call of the API server. A call that fails for the controller (an error, *)
(* or nothing within 30 seconds) may have no effect, or one that is late:  *)
(* at any time after, also amid or after later reconciles.                 *)
(*                                                                         *)
(* Every call with a body says that it is a strategic merge patch          *)
(* (main.go:404). The API server takes that for the PATCH of an object of  *)
(* a built-in kind that exists, and answers 415 to a POST and to the PATCH *)
(* of a custom resource. So the controller creates nothing, and writes no  *)
(* Certificate: the ConfigMap and the NetworkPolicy it keeps are those     *)
(* that the Helm charts have installed.                                    *)
(***************************************************************************)
EXTENDS Integers, Sequences, FiniteSets, SequencesExt

CONSTANTS
    Resources,        \* what users may write into the custom resource
    Secrets,          \* what they may write into the client-keys Secret: sets of keys
    Chart,            \* the configuration in the ConfigMap of the gateway's Helm chart
    RedisInstalled,   \* whether the redis-credentials Secret exists
    MaxEdits,         \* bound on what users change
    MaxFaults,        \* bound on the calls that fail and the crashes
    None              \* the absence of a value

ASSUME BoundsAssumption == MaxEdits \in Nat /\ MaxFaults \in Nat
ASSUME RedisAssumption == RedisInstalled \in BOOLEAN

\* A SecureServiceGateway as far as reconcile looks into it: an issuerRef goes before a
\* secretRef, a networkPolicy is absent, enabled or not, a port that is not given is 0. Its
\* backends are in the namespace in which the chart lets the controller write NetworkPolicies
\* (home) or elsewhere. The issuer, audience, backends and routes are copied into the
\* configuration as they are.
IsResource(r) ==
    /\ DOMAIN r = {"tls", "np", "npPort", "home", "ports", "rest"}
    /\ r.tls \in {"none", "issuer", "secret"}
    /\ r.np \in {"none", "enabled", "disabled"} /\ r.npPort \in Nat
    /\ r.home \in BOOLEAN
    /\ r.ports \in Seq(Nat)

ASSUME ResourcesAssumption == \A r \in Resources : IsResource(r)

VARIABLES
    cr, secret,       \* the custom resource and the client-keys Secret, None if deleted
    cm,               \* the ConfigMap: a configuration, None if there is no such object
    policy,           \* the NetworkPolicy at home: the port it opens, None likewise
    rollout,          \* the annotation on the Deployment: a hash
    late,             \* writes the controller has given up on that are still to take effect
    held,             \* history: what the controller has put into the ConfigMap, up to the
                      \* order of the keys
    source,           \* history: the resource the ConfigMap is rendered from, if it is
    pc,               \* where reconcile is; "idle" outside it
    got,              \* what this reconcile has read and rendered
    watch, events,    \* the watch: whether it is open, the events not yet decoded
    edits, faults     \* how much of the bounds is left

objects == <<cm, policy, rollout, held, source>>
cluster == <<objects, late>>
user == <<cr, secret, edits>>
vars == <<cluster, user, pc, got, watch, events, faults>>

Nothing == [cr |-> None, keys |-> None, config |-> None]

Init ==
    /\ cr \in Resources /\ secret \in Secrets
    /\ cm = Chart /\ policy \in {None, 8443}
    /\ rollout = None
    /\ late = {} /\ held = {} /\ source = None
    /\ pc = "cr" /\ got = Nothing
    /\ watch = FALSE /\ events = 0
    /\ edits = MaxEdits /\ faults = MaxFaults
--------------------------------------------------------------------------------
(* renderConfig. *)

\* The port variable is declared outside the loop over the services.
Ports(given) ==
    LET port[i \in 0..Len(given)] ==
            IF i = 0 THEN 8443 ELSE IF given[i] > 0 THEN given[i] ELSE port[i - 1]
    IN  [i \in DOMAIN given |-> port[i]]

\* The configuration, of which the hash is as good a name as itself.
Render(res, keys, redis) ==
    [rest |-> res.rest, tls |-> res.tls # "none", ports |-> Ports(res.ports),
     keys |-> keys, redis |-> redis]

\* The same configuration with the keys in any order.
Meaning(config) == [config EXCEPT !.keys = Range(@)]
--------------------------------------------------------------------------------
(* reconcile, one call of the API server after the other. *)

Goto(where) == pc' = where

\* The error is logged, and reconcile is over until the next event.
Abort == pc' = "idle" /\ got' = Nothing

Fault == faults > 0 /\ faults' = faults - 1

\* The write reconcile is at, if it makes one there, under a number of its own.
Writing ==
    \/ pc = "policy" /\ got.cr.np # "none"
    \/ pc \in {"cm", "deploy"}
Write == [no |-> faults, to |-> pc, cr |-> got.cr, config |-> got.config]

\* The controller does not wait for the answer any longer; the write may still happen.
MayLand ==
    /\ Fault
    /\ \/ UNCHANGED late
       \/ Writing /\ late' = late \cup {Write}

FetchCR ==
    /\ pc = "cr" /\ cr # None
    /\ got' = [got EXCEPT !.cr = cr]
    /\ Goto("keys")
    /\ UNCHANGED <<cluster, user, watch, events, faults>>

\* The Secret is a Go map: its entries come in any order.
FetchClientKeys ==
    /\ pc = "keys" /\ secret # None
    /\ \E keys \in SetToSeqs(secret) : got' = [got EXCEPT !.keys = keys]
    /\ Goto("redis")
    /\ UNCHANGED <<cluster, user, watch, events, faults>>

\* A read that fails, or that finds nothing, ends reconcile.
FetchFails ==
    /\ \/ pc = "cr" /\ cr = None /\ UNCHANGED faults
       \/ pc = "keys" /\ secret = None /\ UNCHANGED faults
       \/ pc \in {"cr", "keys"} /\ Fault
    /\ Abort
    /\ UNCHANGED <<cluster, user, watch, events>>

\* The configuration is complete but for the calls that write it.
Rendered(redis) ==
    /\ got' = [got EXCEPT !.config = Render(got.cr, got.keys, redis)]
    /\ Goto("cert")

\* The redis_url, if the read succeeds; any error means that there is none.
DiscoverRedis ==
    /\ pc = "redis"
    /\ \/ Rendered(RedisInstalled) /\ UNCHANGED faults
       \/ Rendered(FALSE) /\ Fault
    /\ UNCHANGED <<cluster, user, watch, events>>

SkipCertificate ==
    /\ pc = "cert" /\ got.cr.tls # "issuer"
    /\ Goto("cm")
    /\ UNCHANGED <<cluster, user, got, watch, events, faults>>

\* Mutant: the error is logged and reconcile goes on.
CertificateErrorIgnored ==
    /\ pc = "cert" /\ got.cr.tls = "issuer"
    /\ Goto("cm")
    /\ UNCHANGED <<cluster, user, got, watch, events, faults>>

\* Neither the PATCH nor the POST of a Certificate is taken, and reconcile ends.
ReconcileCertificate ==
    /\ pc = "cert" /\ got.cr.tls = "issuer"
    /\ Abort
    /\ UNCHANGED <<cluster, user, watch, events, faults>>

\* External: a PATCH changes a ConfigMap that exists.
ConfigWritten(res, config) ==
    IF cm = None THEN UNCHANGED <<cm, held, source>>
    ELSE cm' = config /\ held' = held \cup {Meaning(config)} /\ source' = res

PatchConfigMap ==
    /\ pc = "cm" /\ cm # None
    /\ ConfigWritten(got.cr, got.config)
    /\ Goto("policy")
    /\ UNCHANGED <<policy, rollout, late, user, got, watch, events, faults>>

\* Mutant: the error is logged and reconcile goes on.
ConfigMapErrorIgnored ==
    /\ pc = "cm"
    /\ \/ cm = None /\ UNCHANGED <<late, faults>>
       \/ MayLand
    /\ Goto("policy")
    /\ UNCHANGED <<objects, user, got, watch, events>>

\* The PATCH fails, or finds no ConfigMap; the POST after it is not taken.
ConfigMapFails ==
    /\ pc = "cm"
    /\ \/ cm = None /\ UNCHANGED <<late, faults>>
       \/ MayLand
    /\ Abort
    /\ UNCHANGED <<objects, user, watch, events>>

SkipPolicy ==
    /\ pc = "policy" /\ got.cr.np = "none"
    /\ Goto("deploy")
    /\ UNCHANGED <<cluster, user, got, watch, events, faults>>

PolicyPort(res) == IF res.npPort = 0 THEN 8443 ELSE res.npPort

\* External: the NetworkPolicy after the call made for a resource. A PATCH changes one that
\* exists, and no call is allowed in another namespace.
PolicyWritten(res) ==
    IF ~res.home THEN policy
    ELSE IF res.np = "disabled" \/ policy = None THEN None
    ELSE PolicyPort(res)

ReconcilePolicy ==
    /\ pc = "policy" /\ got.cr.np = "enabled"
    /\ got.cr.home /\ policy # None
    /\ policy' = PolicyWritten(got.cr)
    /\ Goto("deploy")
    /\ UNCHANGED <<cm, rollout, held, source, late, user, got, watch, events, faults>>

\* Only a transport error, or a POST that fails, is an error: there is no policy (404), and
\* the POST is not taken ...
PolicyFails ==
    /\ pc = "policy" /\ got.cr.np = "enabled"
    /\ \/ got.cr.home /\ policy = None /\ UNCHANGED <<late, faults>>
       \/ MayLand
    /\ Abort
    /\ UNCHANGED <<objects, user, watch, events>>

\* ... any other status of the PATCH passes for success, as does 403 in another namespace.
PolicyRefused ==
    /\ pc = "policy" /\ got.cr.np = "enabled"
    /\ \/ ~got.cr.home /\ UNCHANGED faults
       \/ Fault
    /\ Goto("deploy")
    /\ UNCHANGED <<cluster, user, got, watch, events>>

\* Mutant: an explicit false is taken for a field that is not given.
DisabledSkipped ==
    /\ pc = "policy" /\ got.cr.np = "disabled"
    /\ Goto("deploy")
    /\ UNCHANGED <<cluster, user, got, watch, events, faults>>

\* Errors of the deletion are ignored.
DeletePolicy ==
    /\ pc = "policy" /\ got.cr.np = "disabled"
    /\ \/ policy' = PolicyWritten(got.cr) /\ UNCHANGED <<late, faults>>
       \/ MayLand /\ UNCHANGED policy
    /\ Goto("deploy")
    /\ UNCHANGED <<cm, rollout, held, source, user, got, watch, events>>

PatchDeployment ==
    /\ pc = "deploy"
    /\ rollout' = got.config
    /\ pc' = "idle" /\ got' = Nothing
    /\ UNCHANGED <<cm, policy, held, source, late, user, watch, events, faults>>

DeploymentFails ==
    /\ pc = "deploy"
    /\ MayLand
    /\ Abort
    /\ UNCHANGED <<objects, user, watch, events>>
--------------------------------------------------------------------------------
(* The loop around it: main and watchAndReconcile. *)

\* Mutant: the watch resumes where the last one ended.
OpenWatchResumes ==
    /\ pc = "idle" /\ ~watch
    /\ watch' = TRUE
    /\ UNCHANGED <<cluster, user, pc, got, events, faults>>

\* A watch without a resource version begins with an ADDED for what exists.
OpenWatch ==
    /\ pc = "idle" /\ ~watch
    /\ watch' = TRUE
    /\ events' = IF cr = None THEN 0 ELSE 1
    /\ UNCHANGED <<cluster, user, pc, got, faults>>

\* An ADDED or MODIFIED is decoded; the resource itself is read again.
TakeEvent ==
    /\ pc = "idle" /\ watch /\ events > 0
    /\ events' = events - 1
    /\ Goto("cr")
    /\ UNCHANGED <<cluster, user, got, watch, faults>>

\* The stream ends, and what it had not delivered is lost. Decode notices between two
\* reconciles; ten seconds later main opens another one.
StreamEnds ==
    /\ watch
    /\ watch' = FALSE /\ events' = 0
    /\ UNCHANGED <<cluster, user, pc, got, faults>>

\* The controller's pod dies, and its successor begins with a reconcile.
Crash ==
    /\ MayLand
    /\ pc' = "cr" /\ got' = Nothing
    /\ watch' = FALSE /\ events' = 0
    /\ UNCHANGED <<objects, user>>
--------------------------------------------------------------------------------
(* The API server and the users. *)

\* External: a write takes effect that the controller has given up on.
Land(w) ==
    /\ late' = late \ {w}
    /\ IF w.to = "cm" THEN ConfigWritten(w.cr, w.config) ELSE UNCHANGED <<cm, held, source>>
    /\ policy' = IF w.to = "policy" THEN PolicyWritten(w.cr) ELSE policy
    /\ rollout' = IF w.to = "deploy" THEN w.config ELSE rollout
    /\ UNCHANGED <<user, pc, got, watch, events, faults>>
Lands == \E w \in late : Land(w)

Edit == edits > 0 /\ edits' = edits - 1

\* The watch has an event for a change of the resource; DELETED is not acted on.
EditCR ==
    /\ Edit
    /\ cr' \in (Resources \cup {None}) \ {cr}
    /\ events' = IF watch /\ cr' # None THEN events + 1 ELSE events
    /\ UNCHANGED <<cluster, secret, pc, got, watch, faults>>

\* Nothing watches the Secret.
EditSecret ==
    /\ Edit
    /\ secret' \in (Secrets \cup {None}) \ {secret}
    /\ UNCHANGED <<cluster, cr, pc, got, watch, events, faults>>

\* External: an upgrade of the gateway's chart restores its ConfigMap, or someone deletes it ...
EditConfigMap ==
    /\ Edit
    /\ cm' \in {None, Chart} \ {cm} /\ source' = None
    /\ UNCHANGED <<policy, rollout, held, late, cr, secret, pc, got, watch, events, faults>>

\* ... and the backends' chart installs or removes its NetworkPolicy.
EditPolicy ==
    /\ Edit
    /\ policy' \in {None, 8443} \ {policy}
    /\ UNCHANGED <<cm, rollout, held, source, late, cr, secret, pc, got, watch, events, faults>>

--------------------------------------------------------------------------------
Reconcile ==
    \/ FetchCR \/ FetchClientKeys \/ FetchFails \/ DiscoverRedis
    \/ SkipCertificate \/ ReconcileCertificate
    \/ PatchConfigMap \/ ConfigMapFails
    \/ SkipPolicy \/ ReconcilePolicy \/ PolicyFails \/ PolicyRefused \/ DeletePolicy
    \/ PatchDeployment \/ DeploymentFails

Next ==
    \/ Reconcile \/ OpenWatch \/ TakeEvent \/ StreamEnds \/ Crash
    \/ Lands \/ EditCR \/ EditSecret \/ EditConfigMap \/ EditPolicy

\* The controller's goroutine is scheduled and its calls have a timeout. External: the API
\* server ends every watch within the hour, but not each of them before its first event, and
\* gives up its own work on a call after a minute.
Fairness ==
    /\ WF_vars(Reconcile) /\ WF_vars(OpenWatch) /\ SF_vars(TakeEvent)
    /\ WF_vars(StreamEnds) /\ WF_vars(Lands)

Spec == Init /\ [][Next]_vars /\ Fairness
--------------------------------------------------------------------------------
Configs ==
    {Render(res, keys, redis) : res \in Resources, keys \in UNION {SetToSeqs(k) : k \in Secrets},
                                redis \in BOOLEAN}

ASSUME NoneAssumption ==
    None \notin Configs \cup {Chart} /\ None \notin Resources /\ None \notin Secrets /\ None \notin Nat

TypeOK ==
    /\ cr \in Resources \cup {None} /\ secret \in Secrets \cup {None}
    /\ cm \in Configs \cup {Chart, None} /\ rollout \in Configs \cup {None}
    /\ policy \in Nat \cup {None} /\ source \in Resources \cup {None} /\ watch \in BOOLEAN
    /\ held \subseteq {Meaning(config) : config \in Configs}
    /\ late \subseteq [no : 1..MaxFaults, to : {"cm", "policy", "deploy"},
                      cr : Resources, config : Configs]
    /\ pc \in {"idle", "cr", "keys", "redis", "cert", "cm", "policy", "deploy"}
    /\ got.config # None <=> pc \in {"cert", "cm", "policy", "deploy"}
    /\ events \in 0..MaxEdits + 1
    /\ edits \in 0..MaxEdits /\ faults \in 0..MaxFaults

\* The gateway is never told to restart for a configuration it could not have read: the
\* annotation is the hash of one the ConfigMap has held, also when calls of reconcile fail and
\* take effect late, in any order.
RolloutAfterConfig == rollout # None => Meaning(rollout) \in held

\* A ConfigMap that makes the listener use the certificate of an issuer comes after the
\* Certificate. As the API server takes none, there is never such a ConfigMap, also when the
\* controller dies before it could log that or a write happens late.
NoConfigWithoutCertificate == source # None => source.tls # "issuer"

\* config is that of the resource and its Secret, up to the order of the keys.
UpToDate(config) ==
    /\ config # None
    /\ \E keys \in SetToSeqs(secret) : Meaning(config) = Meaning(Render(cr, keys, RedisInstalled))

\* There is a resource with its Secret, it needs no Certificate of the controller, and a
\* ConfigMap has been installed.
Applicable == cr # None /\ secret # None /\ cr.tls # "issuer" /\ cm # None

\* reconcile gets to the annotation: a NetworkPolicy it is to keep has been installed.
Passable == cr.np = "enabled" /\ cr.home => policy # None

\* The loop can always go on: reconcile has a next call at every step, between two
\* reconciles a watch can be opened or an event of it taken, and a watch can end.
GoesOn ==
    /\ pc # "idle" => ENABLED <<Reconcile>>_vars
    /\ pc = "idle" /\ ~watch => ENABLED <<OpenWatch>>_vars
    /\ pc = "idle" /\ watch /\ events > 0 => ENABLED <<TakeEvent>>_vars
    /\ watch => ENABLED <<StreamEnds>>_vars

\* Once users and the API server leave the controller alone, the ConfigMap, if there is one,
\* ends up with the configuration of the resource, and so does the annotation unless a
\* NetworkPolicy is missing: whichever calls failed before and whichever events were lost,
\* the next watch begins with an event.
ConfigConverges == <>[](Applicable => UpToDate(cm) /\ (Passable => UpToDate(rollout)))

\* And the NetworkPolicy at home ends up as the resource has it, whichever deletion failed
\* unnoticed (main.go:168), whichever refusal passed for success (main.go:235) and whatever
\* took effect late or was installed: one that is disabled is gone, and one that is enabled
\* has its port, unless it is gone.
PolicyConverges ==
    <>[](Applicable /\ cr.home =>
           /\ cr.np = "disabled" => policy = None
           /\ cr.np = "enabled" => policy \in {None, PolicyPort(cr)})

--------------------------------------------------------------------------------
(* What the comments say, and the code does not do. *)

\* "Annotate the Deployment to trigger a rolling restart if config changed": the order of
\* the keys is that of a Go map, and the hash changes with it.
RestartsForChanges ==
    [][rollout # None /\ rollout' # rollout => Meaning(rollout') # Meaning(rollout)]_vars
================================================================================
