------------------------------- MODULE Artifacts -------------------------------
(***************************************************************************)
(* The generator of certificates, client keys and the gateway's            *)
(* configuration (src/cmd/gen-artifacts/main.go), and the processes that   *)
(* read its files when they start. Every `make up` runs the generator      *)
(* again: each run has keys of its own and overwrites the files one by     *)
(* one, in place, under processes that are running or starting. A run may  *)
(* panic or be killed anywhere.                                            *)
(*                                                                         *)
(* A file is <<name, extension>>. What is in it depends on the run that    *)
(* wrote it alone, so the disk has, for each file, the number of that run, *)
(* and a process has the numbers of the files it has read. Two keys are    *)
(* equal when they are those of the same name and the same run.            *)
(***************************************************************************)
EXTENDS Integers, Sequences, Functions

CONSTANTS
    services,        \* the table of services: <<[Name |-> ..., Backends |-> {...}], ...>>
    clients,         \* the table of clients, by Sub
    Impostor,        \* the backend that is listed and is not legitimate: llm-4
    MaxRuns,         \* bound on the runs of the generator
    MaxStops         \* bound on the processes that are stopped

ASSUME TablesAssumption ==
    /\ services \in Seq([Name : STRING, Backends : SUBSET STRING])
    /\ clients \in Seq(STRING)
ASSUME BoundsAssumption == MaxRuns \in Nat /\ MaxStops \in Nat

Absent == 0          \* a file no run has written
Empty == -1          \* a file that has been truncated and not been written
--------------------------------------------------------------------------------
(* What a run writes, in the order in which it does. *)

Pair(name) == << <<name, "crt">>, <<name, "key">> >>

Own == << <<"ca", "crt">>, <<"ca", "key">>, <<"gateway", "crt">>, <<"gateway", "key">>,
          <<"gateway-listener", "crt">>, <<"gateway-listener", "key">> >>
ServicePairs ==
    [n \in 1 .. 2 * Len(services) |-> Pair(services[(n + 1) \div 2].Name)[2 - (n % 2)]]
Rogue == << <<"rogue-ca", "crt">>, <<"rogue-llm", "crt">>, <<"rogue-llm", "key">> >>
ClientKeys == [n \in 1 .. Len(clients) |-> <<clients[n], "json">>]
Config == << <<"gateway", "yaml">> >>

\* Mutant: the configuration is written before the certificates.
OutputConfigFirst == Config \o Own \o ServicePairs \o Rogue \o ClientKeys

Output == Own \o ServicePairs \o Rogue \o ClientKeys \o Config

Artifact == Range(Output)

\* The authority that signs a leaf: that of the same run.
Signer(leaf) == IF leaf = "rogue-llm" THEN "rogue-ca" ELSE "ca"

Hosts(leaf) == UNION {services[i].Backends : i \in {j \in DOMAIN services : services[j].Name = leaf}}

\* Mutant: a service's certificate has the names of its replicas only.
SansOfReplicas(leaf) ==
    CASE leaf = "gateway" -> {}
      [] leaf = "gateway-listener" -> {"gateway", "localhost", "127.0.0.1"}
      [] leaf = "rogue-llm" -> {"llm", Impostor, "rogue-llm", "localhost"}
      [] OTHER -> Hosts(leaf) \ {Impostor}

Sans(leaf) ==
    CASE leaf = "gateway" -> {}
      [] leaf = "gateway-listener" -> {"gateway", "localhost", "127.0.0.1"}
      [] leaf = "rogue-llm" -> {"llm", Impostor, "rogue-llm", "localhost"}
      [] OTHER -> {leaf, "localhost"} \cup (Hosts(leaf) \ {Impostor})

KeyUsages(leaf) ==
    CASE leaf = "gateway" -> {"client"}
      [] leaf = "gateway-listener" -> {"server"}
      [] OTHER -> {"server", "client"}
--------------------------------------------------------------------------------
(* What the processes read when they start, as docker-compose.yaml mounts it. *)

Replicas == UNION {services[i].Backends : i \in DOMAIN services}
Procs == {"gateway"} \cup Replicas \cup Range(clients)

ServiceOf(b) == CHOOSE s \in Range(services) : b \in s.Backends
Leaf(b) == IF b = Impostor THEN "rogue-llm" ELSE ServiceOf(b).Name
Authority(b) == IF b = Impostor THEN "rogue-ca" ELSE "ca"

\* The configuration, then BackendTLS's three files once for each service,
\* then the listener's pair.
Transport == << <<"ca", "crt">>, <<"gateway", "crt">>, <<"gateway", "key">> >>
Transports ==
    [n \in 1 .. 3 * Len(services) |-> Transport[1 + ((n - 1) % 3)]]
GatewayReads == Config \o Transports \o Pair("gateway-listener")

Reads == [p \in Procs |->
    CASE p = "gateway" -> GatewayReads
      [] p \in Replicas -> << <<Leaf(p), "crt">>, <<Leaf(p), "key">>, <<Authority(p), "crt">> >>
      [] OTHER -> << <<p, "json">>, <<"ca", "crt">> >>]

\* No two files, and no two processes, have the same name.
ASSUME NamesAssumption ==
    /\ IsInjective(Output)
    /\ \A i \in DOMAIN services : services[i].Name \notin {"gateway", "gateway-listener", "rogue-llm"}
    /\ \A i, j \in DOMAIN services : i # j => services[i].Backends \cap services[j].Backends = {}
    /\ "gateway" \notin Replicas \cup Range(clients)
    /\ Replicas \cap Range(clients) = {}

VARIABLES
    run,             \* the number of the latest run
    at,              \* the place in Output it has come to, 0 when it is over
    disk,            \* file |-> the run that wrote it, Absent or Empty
    has,             \* process |-> the runs of the files it has read since it started
    stops,           \* how many processes may still be stopped
    complete         \* history: the latest run, if it has come to its end, or 0

vars == <<run, at, disk, has, stops, complete>>

Init ==
    /\ run = 0 /\ at = 0 /\ complete = 0
    /\ disk = [f \in Artifact |-> Absent]
    /\ has = [p \in Procs |-> <<>>]
    /\ stops = MaxStops
--------------------------------------------------------------------------------
(* The generator. os.WriteFile truncates the file, then writes it. *)

Begin ==
    /\ at = 0 /\ run < MaxRuns
    /\ run' = run + 1 /\ at' = 1
    /\ complete' = 0
    /\ UNCHANGED <<disk, has, stops>>

Writing == at \in DOMAIN Output

\* Mutant: a key that is there already is kept.
TruncateNoKey ==
    /\ Writing /\ disk[Output[at]] # Empty
    /\ IF Output[at][2] = "key" /\ disk[Output[at]] # Absent
       THEN at' = at + 1 /\ disk' = disk
       ELSE at' = at /\ disk' = [disk EXCEPT ![Output[at]] = Empty]
    /\ UNCHANGED <<run, has, stops, complete>>

Truncate ==
    /\ Writing /\ disk[Output[at]] # Empty
    /\ disk' = [disk EXCEPT ![Output[at]] = Empty]
    /\ UNCHANGED <<run, at, has, stops, complete>>

Write ==
    /\ Writing /\ disk[Output[at]] = Empty
    /\ disk' = [disk EXCEPT ![Output[at]] = run]
    /\ at' = at + 1
    /\ UNCHANGED <<run, has, stops, complete>>

\* Mutant: an error is reported and the next file is written.
PanicIgnored == Writing /\ at' = at + 1 /\ UNCHANGED <<run, disk, has, stops, complete>>

\* must panics: a key, a certificate or a write has failed. A kill ends the run likewise.
Panic == Writing /\ at' = 0 /\ UNCHANGED <<run, disk, has, stops, complete>>

Finish ==
    /\ at = Len(Output) + 1
    /\ at' = 0 /\ complete' = run
    /\ UNCHANGED <<run, disk, has, stops>>
--------------------------------------------------------------------------------
(* The processes. *)

Up(p) == Len(has[p]) = Len(Reads[p])

\* A file that can be read and, if it is a key, is that of the certificate read before it.
Good(p, f) ==
    /\ disk[f] \notin {Absent, Empty}
    /\ f[2] = "key" => has[p][Len(has[p])] = disk[f]

\* A process reads its next file, or exits. Docker starts a backend again, and
\* `make up` the gateway.
Load(p) ==
    /\ ~Up(p)
    /\ LET f == Reads[p][Len(has[p]) + 1] IN
       has' = [has EXCEPT ![p] = IF Good(p, f) THEN Append(@, disk[f]) ELSE <<>>]
    /\ UNCHANGED <<run, at, disk, stops, complete>>

\* External: a process ends, and is started again.
Stop(p) ==
    /\ stops > 0 /\ stops' = stops - 1
    /\ has[p] # <<>>
    /\ has' = [has EXCEPT ![p] = <<>>]
    /\ UNCHANGED <<run, at, disk, complete>>

Next ==
    \/ Begin \/ Truncate \/ Write \/ Panic \/ Finish
    \/ \E p \in Procs : Load(p) \/ Stop(p)

Fairness == \A b \in Replicas : WF_vars(Load(b))

Spec == Init /\ [][Next]_vars /\ Fairness
--------------------------------------------------------------------------------
(* What two processes make of each other's files. *)

\* The holder of an authority's certificate of run h trusts a leaf of run g for a use.
Trusts(ca, h, leaf, g, use) == Signer(leaf) = ca /\ g = h /\ use \in KeyUsages(leaf)

\* The transport of service i, made by BackendTLS, has the i-th triple the gateway has read.
RootCA(i) == has["gateway"][3 * i - 1]
ClientCert(i) == has["gateway"][3 * i]
ListenerCert == has["gateway"][Len(has["gateway"])]

\* The gateway takes b for a backend of service i.
Verifies(i, b) ==
    /\ Trusts("ca", RootCA(i), Leaf(b), has[b][1], "server")
    /\ services[i].Name \in Sans(Leaf(b))

\* b lets the gateway connect.
Admits(i, b) == Trusts(Authority(b), has[b][3], "gateway", ClientCert(i), "client")

\* The client c trusts the gateway's listener (requests.request).
Connects(c) ==
    /\ Trusts("ca", has[c][2], "gateway-listener", ListenerCert, "server")
    /\ "gateway" \in Sans("gateway-listener")

\* The public key registered for c is that of the private key c signs its tokens with.
Registered(c) == has[c][1] = has["gateway"][1]
--------------------------------------------------------------------------------
(* Properties. *)

\* The places and runs are in their ranges: the generator's progress through its
\* files, the files themselves, and what each process has read (main, os.WriteFile).
TypeOK ==
    /\ run \in 0 .. MaxRuns /\ at \in 0 .. Len(Output) + 1 /\ stops \in 0 .. MaxStops
    /\ disk \in [Artifact -> Empty .. run]
    /\ has \in [Procs -> Seq(1 .. run)]
    /\ \A p \in Procs : Len(has[p]) <= Len(Reads[p])
    /\ complete \in {0, run}

\* A run that has come to its end has replaced every file, whatever the runs
\* before it left behind: must lets no error pass.
OneGeneration == complete # 0 => \A f \in Artifact : disk[f] = complete

\* No file a process has read is older than the one it read first: the generator
\* writes the configuration last and the gateway reads it first, and a backend's
\* certificate and a client's key come after the authority they need, which is
\* read after them. So it is through runs that fail and runs that follow.
NotOlder == \A p \in Procs : \A k \in DOMAIN has[p] : has[p][k] >= has[p][1]

\* Processes work together as soon as the first file of each is the latest run's,
\* be that run under way, over or given up: the gateway takes exactly the
\* legitimate backends for its services' and is let in by them, every client
\* trusts its listener, and it the tokens of every client. The impostor it takes
\* for a backend in no case: "the TLS handshake fails, and it is never admitted".
Agree ==
    LET Latest(p) == Up(p) /\ has[p][1] = run IN
    /\ \A i \in DOMAIN services : \A b \in services[i].Backends :
           /\ b = Impostor /\ Up("gateway") /\ Up(b) => ~Verifies(i, b)
           /\ b # Impostor /\ Latest("gateway") /\ Latest(b) => Verifies(i, b) /\ Admits(i, b)
    /\ \A c \in Range(clients) : Latest("gateway") /\ Latest(c) => Connects(c) /\ Registered(c)

\* Once a run has come to its end, a backend that is not up has a step to take: the next
\* file is there, or does not go with the last one and the backend exits.
GoesOn == \A b \in Replicas : complete # 0 /\ ~Up(b) => ENABLED <<Load(b)>>_vars

\* Once a run has come to its end and no other begins, every backend that
\* restarts until its files are good gets to its end (restart: unless-stopped).
Starts == \A b \in Replicas : <>[](complete # 0) => <>[]Up(b)
================================================================================
