---------------------------- MODULE ArtifactsProofs ----------------------------
(***************************************************************************)
(* For every table of services and clients and any number of runs: a run   *)
(* that has come to its end has replaced every file, no process has a file *)
(* older than the first one it read, processes whose first files are the   *)
(* latest run's work together, and in the end every backend starts.        *)
(*                                                                         *)
(* The argument: an earlier file of Output is never older than a later one *)
(* (Ordered), so what is written before a process's first file is, from    *)
(* the moment that has been read, at least as recent (Ahead).              *)
(***************************************************************************)
EXTENDS Artifacts, TLAPS

\* The files a run has passed are its own.
Passed == at # 0 => \A i \in 1 .. at - 1 : i \in DOMAIN Output => disk[Output[i]] = run

\* A run that has come to its end is over.
Over == complete # 0 => at = 0

\* A file is not older than those a run writes after it, unless it is being written.
Ordered ==
    \A i, j \in DOMAIN Output :
        i < j => disk[Output[i]] = Empty \/ disk[Output[i]] >= disk[Output[j]]

\* What is written before a process's first file, once it has that file.
Ahead ==
    \A p \in Procs : has[p] # <<>> =>
        \A i, j \in DOMAIN Output :
            i < j /\ Output[j] = Reads[p][1] =>
                disk[Output[i]] = Empty \/ disk[Output[i]] >= has[p][1]

IInv == TypeOK /\ Passed /\ Over /\ OneGeneration /\ Ordered /\ Ahead /\ NotOlder

\* The names a file may have.
Names ==
    {"ca", "gateway", "gateway-listener", "rogue-ca", "rogue-llm"}
    \cup {services[i].Name : i \in DOMAIN services} \cup {clients[i] : i \in DOMAIN clients}
File == Names \X {"crt", "key", "json", "yaml"}

\* A process's k-th file is written before its first one.
Earlier(p, k) ==
    \E i, j \in DOMAIN Output : i < j /\ Output[i] = Reads[p][k] /\ Output[j] = Reads[p][1]
--------------------------------------------------------------------------------
\* Where the elements of two sequences are in their concatenation.
LEMMA Joined ==
    ASSUME NEW S, NEW s \in Seq(S), NEW t \in Seq(S)
    PROVE  /\ s \o t \in Seq(S) /\ Len(s \o t) = Len(s) + Len(t)
           /\ \A i \in 1 .. Len(s) : (s \o t)[i] = s[i]
           /\ \A i \in 1 .. Len(t) : (s \o t)[Len(s) + i] = t[i]
PROOF OBVIOUS

\* And those of five sequences, as many as Output is made of.
IsJoin(o, a, b, c, d, e, S) ==
    /\ o \in Seq(S) /\ Len(o) = Len(a) + Len(b) + Len(c) + Len(d) + Len(e)
    /\ \A i \in 1 .. Len(a) : o[i] = a[i]
    /\ \A i \in 1 .. Len(b) : o[Len(a) + i] = b[i]
    /\ \A i \in 1 .. Len(c) : o[Len(a) + Len(b) + i] = c[i]
    /\ \A i \in 1 .. Len(d) : o[Len(a) + Len(b) + Len(c) + i] = d[i]
    /\ \A i \in 1 .. Len(e) : o[Len(a) + Len(b) + Len(c) + Len(d) + i] = e[i]

\* The concatenation of five sequences is a join of them.
LEMMA FiveJoined ==
    ASSUME NEW S, NEW a \in Seq(S), NEW b \in Seq(S), NEW c \in Seq(S), NEW d \in Seq(S),
           NEW e \in Seq(S)
    PROVE  IsJoin(a \o b \o c \o d \o e, a, b, c, d, e, S)
PROOF
<1> DEFINE ab == a \o b
           abc == ab \o c
           abcd == abc \o d
           o == abcd \o e
<1>1. /\ ab \in Seq(S) /\ Len(ab) = Len(a) + Len(b)
      /\ \A i \in 1 .. Len(a) : ab[i] = a[i]
      /\ \A i \in 1 .. Len(b) : ab[Len(a) + i] = b[i]
  BY Joined
<1>2. /\ abc \in Seq(S) /\ Len(abc) = Len(ab) + Len(c)
      /\ \A i \in 1 .. Len(ab) : abc[i] = ab[i]
      /\ \A i \in 1 .. Len(c) : abc[Len(ab) + i] = c[i]
  <2>1. ab \in Seq(S) BY <1>1
  <2> HIDE DEF ab
  <2>2. QED BY <2>1, Joined
<1>3. /\ abcd \in Seq(S) /\ Len(abcd) = Len(abc) + Len(d)
      /\ \A i \in 1 .. Len(abc) : abcd[i] = abc[i]
      /\ \A i \in 1 .. Len(d) : abcd[Len(abc) + i] = d[i]
  <2>1. abc \in Seq(S) BY <1>2
  <2> HIDE DEF abc
  <2>2. QED BY <2>1, Joined
<1>4. /\ o \in Seq(S) /\ Len(o) = Len(abcd) + Len(e)
      /\ \A i \in 1 .. Len(abcd) : o[i] = abcd[i]
      /\ \A i \in 1 .. Len(e) : o[Len(abcd) + i] = e[i]
  <2>1. abcd \in Seq(S) BY <1>3
  <2> HIDE DEF abcd
  <2>2. QED BY <2>1, Joined
<1>5. Len(a) \in Nat /\ Len(b) \in Nat /\ Len(c) \in Nat /\ Len(d) \in Nat /\ Len(e) \in Nat OBVIOUS
<1> HIDE DEF ab, abc, abcd, o
<1>6. \A i \in 1 .. Len(a) : o[i] = a[i]
  <2> TAKE i \in 1 .. Len(a)
  <2>1. ab[i] = a[i] BY <1>1
  <2>2. abc[i] = ab[i] BY <1>1, <1>2, <1>5
  <2>3. abcd[i] = abc[i] BY <1>1, <1>2, <1>3, <1>5
  <2>4. o[i] = abcd[i] BY <1>1, <1>2, <1>3, <1>4, <1>5
  <2>5. QED BY <2>1, <2>2, <2>3, <2>4
<1>7. \A i \in 1 .. Len(b) : o[Len(a) + i] = b[i]
  <2> TAKE i \in 1 .. Len(b)
  <2>1. ab[Len(a) + i] = b[i] BY <1>1
  <2>2. abc[Len(a) + i] = ab[Len(a) + i] BY <1>1, <1>2, <1>5
  <2>3. abcd[Len(a) + i] = abc[Len(a) + i] BY <1>1, <1>2, <1>3, <1>5
  <2>4. o[Len(a) + i] = abcd[Len(a) + i] BY <1>1, <1>2, <1>3, <1>4, <1>5
  <2>5. QED BY <2>1, <2>2, <2>3, <2>4
<1>8. \A i \in 1 .. Len(c) : o[Len(a) + Len(b) + i] = c[i]
  <2> TAKE i \in 1 .. Len(c)
  <2>1. abc[Len(a) + Len(b) + i] = c[i] BY <1>1, <1>2
  <2>2. abcd[Len(a) + Len(b) + i] = abc[Len(a) + Len(b) + i] BY <1>1, <1>2, <1>3, <1>5
  <2>3. o[Len(a) + Len(b) + i] = abcd[Len(a) + Len(b) + i] BY <1>1, <1>2, <1>3, <1>4, <1>5
  <2>4. QED BY <2>1, <2>2, <2>3
<1>9. \A i \in 1 .. Len(d) : o[Len(a) + Len(b) + Len(c) + i] = d[i]
  <2> TAKE i \in 1 .. Len(d)
  <2>1. abcd[Len(a) + Len(b) + Len(c) + i] = d[i] BY <1>1, <1>2, <1>3
  <2>2. o[Len(a) + Len(b) + Len(c) + i] = abcd[Len(a) + Len(b) + Len(c) + i]
    BY <1>1, <1>2, <1>3, <1>4, <1>5
  <2>3. QED BY <2>1, <2>2
<1>10. \A i \in 1 .. Len(e) : o[Len(a) + Len(b) + Len(c) + Len(d) + i] = e[i]
  BY <1>1, <1>2, <1>3, <1>4, <1>5
<1>11. Len(o) = Len(a) + Len(b) + Len(c) + Len(d) + Len(e) BY <1>1, <1>2, <1>3, <1>4, <1>5
<1>12. o = a \o b \o c \o d \o e BY DEF o, abcd, abc, ab
<1>13. IsJoin(o, a, b, c, d, e, S) BY <1>4, <1>6, <1>7, <1>8, <1>9, <1>10, <1>11, Zenon DEF IsJoin
<1>14. QED BY <1>12, <1>13, Zenon

\* The elements of a sequence of two.
LEMMA Two ==
    ASSUME NEW S, NEW a \in S, NEW b \in S
    PROVE  <<a, b>> \in Seq(S) /\ Len(<<a, b>>) = 2 /\ <<a, b>>[1] = a /\ <<a, b>>[2] = b
PROOF OBVIOUS

\* A sequence that is not empty has a first element, and what Append adds to it.
LEMMA Nonempty ==
    ASSUME NEW S, NEW s \in Seq(S), s # <<>>
    PROVE  Len(s) \in Nat /\ Len(s) >= 1 /\ s[1] \in S
PROOF OBVIOUS

\* What Append makes of a sequence.
LEMMA Appended ==
    ASSUME NEW S, NEW s \in Seq(S), NEW x \in S
    PROVE  /\ Append(s, x) \in Seq(S) /\ Append(s, x) # <<>> /\ Len(Append(s, x)) = Len(s) + 1
           /\ DOMAIN Append(s, x) = 1 .. Len(s) + 1 /\ DOMAIN s = 1 .. Len(s)
           /\ \A i \in 1 .. Len(s) : Append(s, x)[i] = s[i]
           /\ Append(s, x)[Len(s) + 1] = x
PROOF OBVIOUS

\* Halves, and remainders, are in range.
LEMMA Half == ASSUME NEW k \in Nat, NEW n \in 1 .. 2 * k PROVE (n + 1) \div 2 \in 1 .. k
PROOF OBVIOUS

\* ServicePairs takes the certificate and the key of a service by turns ...
LEMMA Parity == ASSUME NEW n \in Nat PROVE 2 - (n % 2) \in {1, 2}
PROOF OBVIOUS

\* ... and Transports the three files of BackendTLS.
LEMMA Thirds == ASSUME NEW n \in Nat, n > 0 PROVE 1 + ((n - 1) % 3) \in {1, 2, 3}
PROOF OBVIOUS

\* The tables have lengths, and the parts of Output are sequences of files.
LEMMA Lengths == Len(services) \in Nat /\ Len(clients) \in Nat
PROOF BY TablesAssumption

\* The authority's files, the gateway's and the listener's: six, in this order.
LEMMA OwnFiles ==
    /\ Own \in Seq(File) /\ Len(Own) = 6 /\ Own[1] = <<"ca", "crt">>
    /\ Own[3] = <<"gateway", "crt">> /\ Own[4] = <<"gateway", "key">>
    /\ Own[5] = <<"gateway-listener", "crt">> /\ Own[6] = <<"gateway-listener", "key">>
PROOF
<1>1. \A n \in {"ca", "gateway", "gateway-listener"}, e \in {"crt", "key"} : <<n, e>> \in File
  BY DEF File, Names
<1>2. QED BY <1>1 DEF Own

\* The impostor's three files.
LEMMA RogueFiles ==
    /\ Rogue \in Seq(File) /\ Len(Rogue) = 3 /\ Rogue[1] = <<"rogue-ca", "crt">>
    /\ Rogue[2] = <<"rogue-llm", "crt">> /\ Rogue[3] = <<"rogue-llm", "key">>
PROOF
<1>1. \A n \in {"rogue-ca", "rogue-llm"}, e \in {"crt", "key"} : <<n, e>> \in File
  BY DEF File, Names
<1>2. QED BY <1>1 DEF Rogue

\* The configuration is one file.
LEMMA ConfigFile ==
    Config \in Seq(File) /\ Len(Config) = 1 /\ Config[1] = <<"gateway", "yaml">>
PROOF
<1>1. <<"gateway", "yaml">> \in File BY DEF File, Names
<1>2. QED BY <1>1 DEF Config

\* One key file for each client, in the order of the table.
LEMMA ClientFiles ==
    /\ ClientKeys \in Seq(File) /\ Len(ClientKeys) = Len(clients)
    /\ \A n \in 1 .. Len(clients) : ClientKeys[n] = <<clients[n], "json">>
PROOF
<1> DEFINE m == Len(clients)
           e(n) == <<clients[n], "json">>
<1>1. m \in Nat BY Lengths
<1>2. ASSUME NEW n \in 1 .. m PROVE e(n) \in File
  <2>1. clients[n] \in Names BY TablesAssumption DEF Names
  <2>2. QED BY <2>1 DEF File
<1>3. ClientKeys = [n \in 1 .. m |-> e(n)] BY DEF ClientKeys
<1> HIDE DEF e, m
<1>4. ClientKeys \in Seq(File) /\ Len(ClientKeys) = m BY <1>1, <1>2, <1>3
<1>5. \A n \in 1 .. m : ClientKeys[n] = e(n) BY <1>3
<1>6. QED BY <1>4, <1>5 DEF e, m

\* Two files for each service, the certificate first.
LEMMA ServiceFiles ==
    /\ ServicePairs \in Seq(File) /\ Len(ServicePairs) = 2 * Len(services)
    /\ \A i \in 1 .. Len(services) :
           /\ ServicePairs[2 * i - 1] = <<services[i].Name, "crt">>
           /\ ServicePairs[2 * i] = <<services[i].Name, "key">>
PROOF
<1> DEFINE k == Len(services)
           m == 2 * k
           e(n) == Pair(services[(n + 1) \div 2].Name)[2 - (n % 2)]
<1>1. k \in Nat /\ m \in Nat BY Lengths
<1>2. ASSUME NEW n \in 1 .. m PROVE e(n) \in File
  <2> DEFINE h == (n + 1) \div 2
             x == 2 - (n % 2)
  <2>1. h \in 1 .. k BY <1>1, Half
  <2>2. x \in {1, 2} BY <1>1, Parity
  <2> HIDE DEF h, x
  <2>3. services[h].Name \in Names BY <2>1, TablesAssumption DEF Names
  <2>4. <<services[h].Name, "crt">> \in File /\ <<services[h].Name, "key">> \in File
    BY <2>3 DEF File
  <2>5. Pair(services[h].Name)[x] \in File BY <2>2, <2>4 DEF Pair
  <2>6. QED BY <2>5 DEF h, x
<1>3. ServicePairs = [n \in 1 .. m |-> e(n)] BY DEF ServicePairs
<1>4. ASSUME NEW i \in 1 .. k
      PROVE  /\ 2 * i - 1 \in 1 .. m /\ e(2 * i - 1) = <<services[i].Name, "crt">>
             /\ 2 * i \in 1 .. m /\ e(2 * i) = <<services[i].Name, "key">>
  <2>1. /\ 2 * i - 1 \in 1 .. m /\ ((2 * i - 1) + 1) \div 2 = i /\ 2 - ((2 * i - 1) % 2) = 1
        /\ 2 * i \in 1 .. m /\ (2 * i + 1) \div 2 = i /\ 2 - ((2 * i) % 2) = 2
    BY <1>1
  <2>2. e(2 * i - 1) = Pair(services[i].Name)[1] /\ e(2 * i) = Pair(services[i].Name)[2]
    BY <2>1
  <2>3. QED BY <2>1, <2>2 DEF Pair
<1> HIDE DEF e, m
<1>5. ServicePairs \in Seq(File) /\ Len(ServicePairs) = m BY <1>1, <1>2, <1>3
<1>6. \A n \in 1 .. m : ServicePairs[n] = e(n) BY <1>3
<1>7. QED BY <1>1, <1>4, <1>5, <1>6 DEF m

\* Where the parts are in Output.
LEMMA Places ==
    LET n == 2 * Len(services) IN
    /\ Output \in Seq(File) /\ Len(Output) = 10 + n + Len(clients)
    /\ \A i \in 1 .. 6 : Output[i] = Own[i]
    /\ \A i \in 1 .. n : Output[6 + i] = ServicePairs[i]
    /\ \A i \in 1 .. 3 : Output[6 + n + i] = Rogue[i]
    /\ \A i \in 1 .. Len(clients) : Output[9 + n + i] = ClientKeys[i]
    /\ Output[Len(Output)] = <<"gateway", "yaml">>
PROOF
<1> DEFINE n == 2 * Len(services)
           c == Len(clients)
<1>1. n \in Nat /\ c \in Nat BY Lengths
<1>2. /\ Len(Own) = 6 /\ Len(ServicePairs) = n /\ Len(Rogue) = 3 /\ Len(ClientKeys) = c
      /\ Len(Config) = 1 /\ Config[1] = <<"gateway", "yaml">>
  BY OwnFiles, ServiceFiles, RogueFiles, ClientFiles, ConfigFile
<1>3. /\ Output \in Seq(File)
      /\ Len(Output) = Len(Own) + Len(ServicePairs) + Len(Rogue) + Len(ClientKeys) + Len(Config)
      /\ \A i \in 1 .. Len(Own) : Output[i] = Own[i]
      /\ \A i \in 1 .. Len(ServicePairs) : Output[Len(Own) + i] = ServicePairs[i]
      /\ \A i \in 1 .. Len(Rogue) : Output[Len(Own) + Len(ServicePairs) + i] = Rogue[i]
      /\ \A i \in 1 .. Len(ClientKeys) :
             Output[Len(Own) + Len(ServicePairs) + Len(Rogue) + i] = ClientKeys[i]
      /\ \A i \in 1 .. Len(Config) :
             Output[Len(Own) + Len(ServicePairs) + Len(Rogue) + Len(ClientKeys) + i] = Config[i]
  <2>1. /\ Own \in Seq(File) /\ ServicePairs \in Seq(File) /\ Rogue \in Seq(File)
        /\ ClientKeys \in Seq(File) /\ Config \in Seq(File)
    BY OwnFiles, ServiceFiles, RogueFiles, ClientFiles, ConfigFile
  <2>2. IsJoin(Output, Own, ServicePairs, Rogue, ClientKeys, Config, File)
    BY <2>1, FiveJoined, Zenon DEF Output
  <2>3. QED BY <2>2, Zenon DEF IsJoin
<1> HIDE DEF n, c
<1>4. /\ Len(Output) = 6 + n + 3 + c + 1
      /\ \A i \in 1 .. n : Output[6 + i] = ServicePairs[i]
      /\ \A i \in 1 .. 3 : Output[6 + n + i] = Rogue[i]
      /\ \A i \in 1 .. c : Output[6 + n + 3 + i] = ClientKeys[i]
      /\ \A i \in 1 .. 1 : Output[6 + n + 3 + c + i] = Config[i]
      /\ \A i \in 1 .. 6 : Output[i] = Own[i]
  BY <1>2, <1>3
<1>5. Len(Output) = 10 + n + c BY <1>1, <1>4
<1>6. ASSUME NEW i \in 1 .. c PROVE Output[9 + n + i] = ClientKeys[i]
  <2>1. 6 + n + 3 + i = 9 + n + i BY <1>1
  <2>2. QED BY <1>4, <2>1
<1>7. Output[Len(Output)] = <<"gateway", "yaml">>
  <2>1. 6 + n + 3 + c + 1 = 10 + n + c /\ 1 \in 1 .. 1 BY <1>1
  <2>2. Output[6 + n + 3 + c + 1] = Config[1] BY <1>4, <2>1
  <2>3. QED BY <1>2, <1>5, <2>1, <2>2
<1>8. QED BY <1>3, <1>4, <1>5, <1>6, <1>7 DEF n, c

\* What the gateway reads: its configuration, and then files of its own.
LEMMA GatewayFiles ==
    /\ GatewayReads \in Seq(File) /\ Len(GatewayReads) = 3 + 3 * Len(services)
    /\ GatewayReads[1] = <<"gateway", "yaml">>
    /\ \A k \in 2 .. 3 + 3 * Len(services) : \E i \in 1 .. 6 : GatewayReads[k] = Own[i]
PROOF
<1> DEFINE m == 3 * Len(services)
           e(n) == Transport[1 + ((n - 1) % 3)]
           l == Pair("gateway-listener")
           ct == Config \o Transports
<1>1. m \in Nat BY Lengths
<1>2. ASSUME NEW n \in 1 .. m PROVE \E i \in 1 .. 6 : e(n) = Own[i]
  <2> DEFINE x == 1 + ((n - 1) % 3)
  <2>1. x \in {1, 2, 3} BY <1>1, Thirds
  <2> HIDE DEF x
  <2>2. Transport[1] = Own[1] /\ Transport[2] = Own[3] /\ Transport[3] = Own[4]
    BY OwnFiles DEF Transport
  <2>3. 1 \in 1 .. 6 /\ 3 \in 1 .. 6 /\ 4 \in 1 .. 6 OBVIOUS
  <2>4. \E i \in 1 .. 6 : Transport[x] = Own[i] BY <2>1, <2>2, <2>3, Zenon
  <2>5. QED BY <2>4 DEF x
<1>3. Transports = [n \in 1 .. m |-> e(n)] BY DEF Transports
<1>4. \A i \in 1 .. 6 : Own[i] \in File
  <2>1. Own \in Seq(File) BY OwnFiles
  <2>2. \A i \in 1 .. Len(Own) : Own[i] \in File BY <2>1
  <2>3. Len(Own) = 6 BY OwnFiles
  <2>4. QED BY <2>2, <2>3, Zenon
<1> HIDE DEF e, m
<1>5. /\ Transports \in Seq(File) /\ Len(Transports) = m
      /\ \A n \in 1 .. m : \E i \in 1 .. 6 : Transports[n] = Own[i]
  BY <1>1, <1>2, <1>3, <1>4
<1>6. l[1] = Own[5] /\ l[2] = Own[6] /\ l \in Seq(File) /\ Len(l) = 2
  <2>1. l = <<Own[5], Own[6]>> BY OwnFiles DEF Pair
  <2>2. Own[5] \in File /\ Own[6] \in File BY <1>4
  <2> HIDE DEF l
  <2>3. QED BY <2>1, <2>2, Two
<1>7. Config \in Seq(File) /\ Len(Config) = 1 /\ Config[1] = <<"gateway", "yaml">> BY ConfigFile
<1>8. GatewayReads = ct \o l BY DEF GatewayReads
<1> HIDE DEF l
<1>9. /\ ct \in Seq(File) /\ Len(ct) = Len(Config) + Len(Transports)
      /\ \A i \in 1 .. Len(Config) : ct[i] = Config[i]
      /\ \A i \in 1 .. Len(Transports) : ct[Len(Config) + i] = Transports[i]
  <2>1. Config \in Seq(File) /\ Transports \in Seq(File) BY <1>5, <1>7
  <2>2. QED BY <2>1, Joined
<1>10. /\ ct \o l \in Seq(File) /\ Len(ct \o l) = Len(ct) + Len(l)
       /\ \A i \in 1 .. Len(ct) : (ct \o l)[i] = ct[i]
       /\ \A i \in 1 .. Len(l) : (ct \o l)[Len(ct) + i] = l[i]
  <2>1. ct \in Seq(File) /\ l \in Seq(File) BY <1>6, <1>9
  <2> HIDE DEF ct
  <2>2. QED BY <2>1, Joined
<1> HIDE DEF ct
<1>11. Len(ct) = 1 + m /\ ct[1] = Config[1] /\ \A i \in 1 .. m : ct[1 + i] = Transports[i]
  BY <1>1, <1>5, <1>7, <1>9
<1>12. /\ GatewayReads \in Seq(File) /\ Len(GatewayReads) = 3 + m
       /\ \A i \in 1 .. 1 + m : GatewayReads[i] = ct[i]
       /\ \A i \in 1 .. 2 : GatewayReads[1 + m + i] = l[i]
  BY <1>1, <1>6, <1>8, <1>10, <1>11
<1>13. GatewayReads[1] = <<"gateway", "yaml">> BY <1>1, <1>7, <1>11, <1>12
<1>14. ASSUME NEW k \in 2 .. 3 + m PROVE \E i \in 1 .. 6 : GatewayReads[k] = Own[i]
  <2>1. CASE k <= 1 + m
    <3>1. k - 1 \in 1 .. m /\ k = 1 + (k - 1) BY <1>1, <2>1
    <3>2. ct[1 + (k - 1)] = Transports[k - 1] BY <1>11, <3>1
    <3>3. GatewayReads[k] = ct[k] BY <1>1, <1>12, <2>1
    <3>4. GatewayReads[k] = Transports[k - 1] BY <3>1, <3>2, <3>3
    <3>5. QED BY <1>5, <3>1, <3>4
  <2>2. CASE k = 1 + m + 1
    <3>1. GatewayReads[1 + m + 1] = l[1] BY <1>12
    <3>2. QED BY <1>6, <2>2, <3>1
  <2>3. CASE k = 1 + m + 2
    <3>1. GatewayReads[1 + m + 2] = l[2] BY <1>12
    <3>2. QED BY <1>6, <2>3, <3>1
  <2>4. QED BY <1>1, <2>1, <2>2, <2>3
<1>15. QED BY <1>12, <1>13, <1>14 DEF m

\* Output's places are numbers, and what is there is a file it writes.
LEMMA Written ==
    /\ DOMAIN Output = 1 .. Len(Output) /\ Len(Output) \in Nat /\ Len(Output) >= 10
    /\ \A i \in DOMAIN Output : Output[i] \in Artifact
    /\ \A i, j \in DOMAIN Output : Output[i] = Output[j] => i = j
PROOF
<1>1. DOMAIN Output = 1 .. Len(Output) /\ Len(Output) \in Nat BY Places
<1>2. Len(Output) >= 10 BY Places, Lengths
<1>3. \A i \in DOMAIN Output : Output[i] \in Artifact BY DEF Artifact, Range
<1>4. \A i, j \in DOMAIN Output : Output[i] = Output[j] => i = j BY NamesAssumption DEF IsInjective
<1>5. QED BY <1>1, <1>2, <1>3, <1>4

\* What each kind of process reads.
LEMMA WhatIsRead ==
    /\ "gateway" \in Procs /\ Reads["gateway"] = GatewayReads
    /\ \A b \in Replicas : b \in Procs /\ b # "gateway"
           /\ Reads[b] = << <<Leaf(b), "crt">>, <<Leaf(b), "key">>, <<Authority(b), "crt">> >>
    /\ \A c \in Range(clients) : c \in Procs /\ c # "gateway"
           /\ Reads[c] = << <<c, "json">>, <<"ca", "crt">> >>
    /\ DOMAIN Reads = Procs
PROOF BY NamesAssumption DEF Procs, Reads

\* Every file a process reads is one the generator writes, and all but the first
\* are written before the first, or are the key that goes with it.
LEMMA ReadsKnown ==
    ASSUME NEW p \in Procs
    PROVE  /\ Len(Reads[p]) \in Nat \ {0}
           /\ \A k \in 1 .. Len(Reads[p]) : Reads[p][k] \in Artifact
           /\ \A k \in 2 .. Len(Reads[p]) : Earlier(p, k) \/ (k = 2 /\ Reads[p][k][2] = "key")
PROOF
<1> DEFINE n == 2 * Len(services)
<1>1. n \in Nat /\ Len(services) \in Nat /\ Len(clients) \in Nat BY Lengths
<1>2. 1 \in DOMAIN Output /\ Output[1] = <<"ca", "crt">> BY Written, Places, OwnFiles
<1>3. CASE p = "gateway"
  <2>1. Reads[p] = GatewayReads BY <1>3, WhatIsRead
  <2>2. /\ Len(Output) \in DOMAIN Output /\ Output[Len(Output)] = GatewayReads[1]
        /\ Len(Output) >= 10
    BY Written, Places, GatewayFiles
  <2>3. Len(GatewayReads) = 3 + 3 * Len(services) BY GatewayFiles
  <2>4. ASSUME NEW k \in 2 .. 3 + 3 * Len(services)
        PROVE  Earlier(p, k) /\ GatewayReads[k] \in Artifact
    <3>1. PICK i \in 1 .. 6 : GatewayReads[k] = Own[i] BY GatewayFiles
    <3>2. i \in DOMAIN Output /\ Output[i] = Own[i] BY Written, Places
    <3>3. i < Len(Output) BY <2>2, Written
    <3>4. QED BY <2>1, <2>2, <3>1, <3>2, <3>3, Written DEF Earlier
  <2>5. GatewayReads[1] \in Artifact BY <2>2, Written
  <2>6. QED BY <1>1, <2>1, <2>3, <2>4, <2>5
<1>4. CASE p \in Replicas
  <2>1. Reads[p] = << <<Leaf(p), "crt">>, <<Leaf(p), "key">>, <<Authority(p), "crt">> >>
    BY <1>4, WhatIsRead
  <2>2. \E i, j, k \in DOMAIN Output :
           /\ Output[i] = <<Authority(p), "crt">> /\ i < j
           /\ Output[j] = <<Leaf(p), "crt">> /\ Output[k] = <<Leaf(p), "key">>
    <3>1. CASE p = Impostor
      <4>1. 1 \in 1 .. 3 /\ 2 \in 1 .. 3 /\ 3 \in 1 .. 3 OBVIOUS
      <4>2. /\ Output[6 + n + 1] = Rogue[1] /\ Output[6 + n + 2] = Rogue[2]
            /\ Output[6 + n + 3] = Rogue[3] /\ Len(Output) = 10 + n + Len(clients)
        BY <4>1, Places
      <4>3. /\ 6 + n + 1 \in DOMAIN Output /\ 6 + n + 2 \in DOMAIN Output
            /\ 6 + n + 3 \in DOMAIN Output /\ 6 + n + 1 < 6 + n + 2
        BY <1>1, <4>2, Written
      <4>4. QED BY <3>1, <4>2, <4>3, RogueFiles DEF Leaf, Authority
    <3>2. CASE p # Impostor
      <4>1. PICK s \in 1 .. Len(services) : Leaf(p) = services[s].Name
        <5>1. \E s \in Range(services) : p \in s.Backends
          BY <1>4, TablesAssumption DEF Replicas, Range
        <5>2. ServiceOf(p) \in Range(services) BY <5>1 DEF ServiceOf
        <5>3. QED BY <3>2, <5>2, TablesAssumption DEF Leaf, Range
      <4>2. 2 * s - 1 \in 1 .. n /\ 2 * s \in 1 .. n BY <1>1
      <4>3. /\ Output[6 + (2 * s - 1)] = ServicePairs[2 * s - 1]
            /\ Output[6 + 2 * s] = ServicePairs[2 * s]
            /\ Len(Output) = 10 + n + Len(clients)
        BY <4>2, Places
      <4>4. /\ 6 + (2 * s - 1) \in DOMAIN Output /\ 6 + 2 * s \in DOMAIN Output
            /\ 1 < 6 + (2 * s - 1)
        BY <1>1, <4>2, <4>3, Written
      <4>5. /\ ServicePairs[2 * s - 1] = <<Leaf(p), "crt">>
            /\ ServicePairs[2 * s] = <<Leaf(p), "key">> /\ Authority(p) = "ca"
        BY <3>2, <4>1, ServiceFiles DEF Authority
      <4>6. QED BY <1>2, <4>3, <4>4, <4>5
    <3>3. QED BY <3>1, <3>2
  <2>3. PICK i, j, k \in DOMAIN Output :
           /\ Output[i] = <<Authority(p), "crt">> /\ i < j
           /\ Output[j] = <<Leaf(p), "crt">> /\ Output[k] = <<Leaf(p), "key">>
    BY <2>2
  <2>4. /\ Len(Reads[p]) = 3 /\ Reads[p][1] = <<Leaf(p), "crt">>
        /\ Reads[p][2] = <<Leaf(p), "key">> /\ Reads[p][3] = <<Authority(p), "crt">>
    BY <2>1
  <2>5. Reads[p][1] \in Artifact /\ Reads[p][2] \in Artifact /\ Reads[p][3] \in Artifact
    BY <2>3, <2>4, Written
  <2>6. Earlier(p, 3) /\ Reads[p][2][2] = "key" BY <2>3, <2>4 DEF Earlier
  <2>7. 1 .. 3 = {1, 2, 3} /\ 2 .. 3 = {2, 3} OBVIOUS
  <2>8. QED BY <2>4, <2>5, <2>6, <2>7
<1>5. CASE p \in Range(clients)
  <2>1. Reads[p] = << <<p, "json">>, <<"ca", "crt">> >> BY <1>5, WhatIsRead
  <2>2. PICK c \in 1 .. Len(clients) : p = clients[c] BY <1>5, TablesAssumption DEF Range
  <2>3. Output[9 + n + c] = ClientKeys[c] /\ Len(Output) = 10 + n + Len(clients) BY Places
  <2>4. 9 + n + c \in DOMAIN Output /\ 1 < 9 + n + c BY <1>1, <2>3, Written
  <2>5. Output[9 + n + c] = <<p, "json">> BY <2>2, <2>3, ClientFiles
  <2>6. Len(Reads[p]) = 2 /\ Reads[p][1] = <<p, "json">> /\ Reads[p][2] = <<"ca", "crt">>
    BY <2>1
  <2>7. Reads[p][1] \in Artifact /\ Reads[p][2] \in Artifact
    BY <1>2, <2>4, <2>5, <2>6, Written
  <2>8. Earlier(p, 2) BY <1>2, <2>4, <2>5, <2>6 DEF Earlier
  <2>9. 1 .. 2 = {1, 2} /\ 2 .. 2 = {2} OBVIOUS
  <2>10. QED BY <2>6, <2>7, <2>8, <2>9
<1>6. QED BY <1>3, <1>4, <1>5 DEF Procs
--------------------------------------------------------------------------------
\* Initially nothing has been written or read.
LEMMA InitIInv == Init => IInv
PROOF
<1> SUFFICES ASSUME Init PROVE IInv OBVIOUS
<1>1. TypeOK
  <2>1. has \in [Procs -> Seq(1 .. run)] /\ \A p \in Procs : Len(has[p]) = 0 BY DEF Init
  <2>2. \A p \in Procs : 0 <= Len(Reads[p]) BY ReadsKnown
  <2>3. at \in 0 .. Len(Output) + 1 BY Written DEF Init
  <2>4. QED BY <2>1, <2>2, <2>3, BoundsAssumption DEF Init, TypeOK, Empty, Absent
<1>2. Passed /\ Over /\ OneGeneration BY DEF Init, Passed, Over, OneGeneration
<1>3. Ordered BY Written DEF Init, Ordered, Absent
<1>4. Ahead /\ NotOlder BY DEF Init, Ahead, NotOlder
<1>5. QED BY <1>1, <1>2, <1>3, <1>4 DEF IInv

\* The types of the generator's variables, apart from those of the processes'.
LEMMA Types ==
    ASSUME TypeOK
    PROVE  /\ run \in Nat /\ at \in Nat /\ at <= Len(Output) + 1
           /\ disk \in [Artifact -> Empty .. run]
           /\ \A i \in DOMAIN Output : disk[Output[i]] \in Int /\ Empty <= disk[Output[i]]
                                       /\ disk[Output[i]] <= run
           /\ \A p \in Procs : has[p] \in Seq(1 .. run)
           /\ \A p \in Procs : has[p] # <<>> => has[p][1] \in Nat /\ has[p][1] <= run
PROOF
<1>1. run \in Nat /\ at \in Nat /\ at <= Len(Output) + 1 BY Written DEF TypeOK
<1>2. disk \in [Artifact -> Empty .. run] BY DEF TypeOK
<1>3. \A i \in DOMAIN Output : disk[Output[i]] \in Empty .. run BY <1>2, Written
<1>4. ASSUME NEW p \in Procs PROVE has[p] \in Seq(1 .. run) BY DEF TypeOK
<1>5. ASSUME NEW p \in Procs, has[p] # <<>> PROVE has[p][1] \in Nat /\ has[p][1] <= run
  <2>1. has[p] \in Seq(1 .. run) BY <1>4
  <2>2. has[p][1] \in 1 .. run BY <1>5, <2>1, Nonempty
  <2>3. QED BY <1>1, <2>2
<1>6. QED BY <1>1, <1>2, <1>3, <1>4, <1>5 DEF Empty

\* A step that writes one file, at, with v, leaves the others.
LEMMA OneFile ==
    ASSUME TypeOK, Writing, NEW v, disk' = [disk EXCEPT ![Output[at]] = v]
    PROVE  /\ at \in DOMAIN Output /\ disk'[Output[at]] = v
           /\ \A i \in DOMAIN Output : i # at => disk'[Output[i]] = disk[Output[i]]
           /\ \A f \in Artifact : disk'[f] = disk[f] \/ disk'[f] = v
           /\ DOMAIN disk' = Artifact
PROOF
<1>1. at \in DOMAIN Output /\ Output[at] \in Artifact BY Written DEF Writing
<1>2. DOMAIN disk = Artifact BY Types
<1>3. \A i \in DOMAIN Output : i # at => Output[i] # Output[at] BY <1>1, Written
<1>4. QED BY <1>1, <1>2, <1>3, Written

\* A run begins: nothing it has passed yet.
LEMMA BeginIInv == ASSUME IInv, Begin PROVE IInv'
PROOF
<1>1. run' = run + 1 /\ at = 0 /\ at' = 1 /\ complete' = 0 /\ run < MaxRuns /\ UNCHANGED <<disk, has, stops>>
  BY DEF Begin
<1>2. TypeOK /\ run \in Nat BY Types DEF IInv
<1>3. TypeOK'
  <2>1. 1 .. run \subseteq 1 .. run' /\ Empty .. run \subseteq Empty .. run' /\ run' \in 0 .. MaxRuns
    BY <1>1, <1>2, BoundsAssumption DEF Empty
  <2>2. has' \in [Procs -> Seq(1 .. run')]
    <3>1. \A p \in Procs : has[p] \in Seq(1 .. run') BY <1>2, <2>1, Types
    <3>2. has \in [Procs -> Seq(1 .. run)] BY <1>2 DEF TypeOK
    <3>3. QED BY <1>1, <3>1, <3>2
  <2>3. disk' \in [Artifact -> Empty .. run'] BY <1>1, <1>2, <2>1, Types
  <2>4. at' \in 0 .. Len(Output) + 1 BY <1>1, Written
  <2>5. QED BY <1>1, <1>2, <2>1, <2>2, <2>3, <2>4 DEF TypeOK
<1>4. Passed' BY <1>1 DEF Passed
<1>5. Over' /\ OneGeneration' BY <1>1 DEF Over, OneGeneration
<1>6. Ordered' /\ Ahead' /\ NotOlder' BY <1>1 DEF IInv, Ordered, Ahead, NotOlder
<1>7. QED BY <1>3, <1>4, <1>5, <1>6 DEF IInv

\* A file is truncated: an empty file is before and after any other.
LEMMA TruncateIInv == ASSUME IInv, Truncate PROVE IInv'
PROOF
<1>1. /\ Writing /\ disk' = [disk EXCEPT ![Output[at]] = Empty]
      /\ UNCHANGED <<run, at, has, stops, complete>>
  BY DEF Truncate
<1>2. TypeOK /\ at # 0 BY Written, <1>1 DEF IInv, Writing
<1>3. /\ at \in DOMAIN Output /\ disk'[Output[at]] = Empty
      /\ \A i \in DOMAIN Output : i # at => disk'[Output[i]] = disk[Output[i]]
      /\ \A f \in Artifact : disk'[f] = disk[f] \/ disk'[f] = Empty
      /\ DOMAIN disk' = Artifact
  BY <1>1, <1>2, OneFile
<1>4. TypeOK'
  <2>1. Empty \in Empty .. run BY <1>2, Types DEF Empty
  <2>2. disk' \in [Artifact -> Empty .. run] BY <1>1, <1>2, <2>1, Types
  <2>3. QED BY <1>1, <1>2, <2>2 DEF TypeOK
<1>5. Passed' BY <1>1, <1>2, <1>3, Types DEF IInv, Passed
<1>6. Over' /\ OneGeneration' BY <1>1, <1>2 DEF IInv, Over, OneGeneration
<1>7. Ordered' BY <1>2, <1>3, Types DEF IInv, Ordered
<1>8. Ahead'
  <2> SUFFICES ASSUME NEW p \in Procs, has[p] # <<>>, NEW i \in DOMAIN Output, NEW j \in DOMAIN Output,
                      i < j, Output[j] = Reads[p][1]
               PROVE  disk'[Output[i]] = Empty \/ disk'[Output[i]] >= has[p][1]
    BY <1>1 DEF Ahead
  <2>1. disk[Output[i]] = Empty \/ disk[Output[i]] >= has[p][1] BY DEF IInv, Ahead
  <2>2. QED BY <1>3, <2>1
<1>9. NotOlder' BY <1>1 DEF IInv, NotOlder
<1>10. QED BY <1>4, <1>5, <1>6, <1>7, <1>8, <1>9 DEF IInv

\* A file is written: it is as recent as any, and those before it are the run's too.
LEMMA WriteIInv == ASSUME IInv, Write PROVE IInv'
PROOF
<1>1. /\ Writing /\ disk' = [disk EXCEPT ![Output[at]] = run]
      /\ at' = at + 1 /\ UNCHANGED <<run, has, stops, complete>>
  BY DEF Write
<1>2. TypeOK /\ at # 0 BY Written, <1>1 DEF IInv, Writing
<1>3. /\ at \in DOMAIN Output /\ disk'[Output[at]] = run
      /\ \A i \in DOMAIN Output : i # at => disk'[Output[i]] = disk[Output[i]]
      /\ \A f \in Artifact : disk'[f] = disk[f] \/ disk'[f] = run
      /\ DOMAIN disk' = Artifact
  BY <1>1, <1>2, OneFile
<1>4. TypeOK'
  <2>1. run \in Empty .. run BY <1>2, Types DEF Empty
  <2>2. disk' \in [Artifact -> Empty .. run] BY <1>1, <1>2, <2>1, Types
  <2>3. at' \in 0 .. Len(Output) + 1 BY <1>1, <1>2, <1>3, Written, Types
  <2>4. QED BY <1>1, <1>2, <2>2, <2>3 DEF TypeOK
<1>5. \A i \in DOMAIN Output : i < at => disk[Output[i]] = run
  BY <1>2, Types, Written DEF IInv, Passed
<1>6. Passed'
  <2> SUFFICES ASSUME NEW i \in 1 .. at, i \in DOMAIN Output PROVE disk'[Output[i]] = run
    BY <1>1, <1>2, Types DEF Passed
  <2>1. i = at \/ i < at BY <1>2, Types
  <2>2. QED BY <1>2, <1>3, <1>5, <2>1, Types
<1>7. Over' /\ OneGeneration' BY <1>1, <1>2 DEF IInv, Over, OneGeneration
<1>8. Ordered'
  <2> SUFFICES ASSUME NEW i \in DOMAIN Output, NEW j \in DOMAIN Output, i < j
               PROVE  disk'[Output[i]] = Empty \/ disk'[Output[i]] >= disk'[Output[j]]
    BY DEF Ordered
  <2>1. CASE i = at BY <1>2, <1>3, <2>1, Types, Written
  <2>2. CASE j = at
    <3>1. i # at /\ disk'[Output[i]] = run BY <1>2, <1>3, <1>5, <2>2, Types, Written
    <3>2. QED BY <1>2, <1>3, <2>2, <3>1, Types
  <2>3. CASE i # at /\ j # at BY <1>3, <2>3 DEF IInv, Ordered
  <2>4. QED BY <2>1, <2>2, <2>3
<1>9. Ahead'
  <2> SUFFICES ASSUME NEW p \in Procs, has[p] # <<>>, NEW i \in DOMAIN Output, NEW j \in DOMAIN Output,
                      i < j, Output[j] = Reads[p][1]
               PROVE  disk'[Output[i]] = Empty \/ disk'[Output[i]] >= has[p][1]
    BY <1>1 DEF Ahead
  <2>1. disk[Output[i]] = Empty \/ disk[Output[i]] >= has[p][1] BY DEF IInv, Ahead
  <2>2. run \in Nat /\ has[p][1] \in Nat /\ has[p][1] <= run BY <1>2, Types
  <2>3. QED BY <1>3, <2>1, <2>2
<1>10. NotOlder' BY <1>1 DEF IInv, NotOlder
<1>11. QED BY <1>4, <1>6, <1>7, <1>8, <1>9, <1>10 DEF IInv

\* A run ends: by a panic it is given up; at its end it has passed every file.
LEMMA EndIInv == ASSUME IInv, Panic \/ Finish PROVE IInv'
PROOF
<1>1. UNCHANGED <<run, disk, has, stops>> /\ at' = 0 BY DEF Panic, Finish
<1>2. TypeOK BY DEF IInv
<1>3. Passed' BY <1>1 DEF Passed
<1>4. Over' BY <1>1 DEF Over
<1>5. Ordered' /\ Ahead' /\ NotOlder' BY <1>1 DEF IInv, Ordered, Ahead, NotOlder
<1>6. TypeOK' /\ OneGeneration'
  <2>1. at' \in 0 .. Len(Output) + 1 BY <1>1, Written
  <2>2. CASE Panic
    <3>1. complete' = complete BY <2>2 DEF Panic
    <3>2. QED BY <1>1, <1>2, <2>1, <3>1 DEF IInv, TypeOK, OneGeneration
  <2>3. CASE Finish
    <3>1. complete' = run /\ at = Len(Output) + 1 BY <2>3 DEF Finish
    <3>2. TypeOK' BY <1>1, <1>2, <2>1, <3>1 DEF TypeOK
    <3>3. ASSUME NEW f \in Artifact PROVE disk[f] = run
      <4>1. PICK i \in DOMAIN Output : f = Output[i] BY DEF Artifact, Range
      <4>2. i \in 1 .. at - 1 /\ at # 0 BY <3>1, Written
      <4>3. QED BY <4>1, <4>2 DEF IInv, Passed
    <3>4. QED BY <1>1, <3>1, <3>2, <3>3 DEF OneGeneration
  <2>4. QED BY <2>2, <2>3
<1>7. QED BY <1>3, <1>4, <1>5, <1>6 DEF IInv

\* A process reads a file or exits.
LEMMA LoadIInv == ASSUME IInv, NEW p \in Procs, Load(p) PROVE IInv'
PROOF
<1> DEFINE n == Len(has[p]) + 1
           f == Reads[p][n]
<1>1. /\ Len(has[p]) # Len(Reads[p]) /\ UNCHANGED <<run, at, disk, stops, complete>>
      /\ has' = [has EXCEPT ![p] = IF Good(p, f) THEN Append(has[p], disk[f]) ELSE <<>>]
  BY DEF Load, Up
<1>2. TypeOK BY DEF IInv
<1>3. /\ has \in [Procs -> Seq(1 .. run)] /\ has[p] \in Seq(1 .. run) /\ Len(has[p]) \in Nat
      /\ run \in Nat /\ Len(Reads[p]) \in Nat
  <2>1. has \in [Procs -> Seq(1 .. run)] BY <1>2 DEF TypeOK
  <2>2. QED BY <1>2, <2>1, Types, ReadsKnown
<1>4. n \in 1 .. Len(Reads[p])
  <2>1. Len(has[p]) <= Len(Reads[p]) BY <1>2 DEF TypeOK
  <2>2. QED BY <1>1, <1>3, <2>1
<1>5. f \in Artifact BY <1>4, ReadsKnown
<1>6. disk[f] \in Empty .. run BY <1>2, <1>5, Types
<1>7. \A q \in Procs : q # p => has'[q] = has[q] BY <1>1, <1>3
<1>8. CASE ~Good(p, f)
  <2>1. has'[p] = <<>> BY <1>1, <1>3, <1>8
  <2>2. has' \in [Procs -> Seq(1 .. run)] BY <1>1, <1>3, <1>8
  <2>3. TypeOK'
    <3>1. ASSUME NEW q \in Procs PROVE Len(has'[q]) <= Len(Reads[q])
      <4>1. Len(has[q]) <= Len(Reads[q]) BY <1>2 DEF TypeOK
      <4>2. Len(has'[p]) = 0 BY <2>1
      <4>3. CASE q = p BY <1>3, <4>2, <4>3
      <4>4. CASE q # p BY <1>7, <4>1, <4>4
      <4>5. QED BY <4>3, <4>4
    <3>2. QED BY <1>1, <1>2, <2>2, <3>1 DEF TypeOK
  <2>4. Ahead' BY <1>1, <1>7, <2>1 DEF IInv, Ahead
  <2>5. NotOlder'
    <3>1. DOMAIN has'[p] = {} BY <2>1
    <3>2. QED BY <1>7, <3>1 DEF IInv, NotOlder
  <2>6. (Passed /\ Over /\ OneGeneration /\ Ordered)'
    BY <1>1 DEF IInv, Passed, Over, OneGeneration, Ordered
  <2>7. QED BY <2>3, <2>4, <2>5, <2>6 DEF IInv
<1>9. CASE Good(p, f)
  <2>1. disk[f] \in 1 .. run
    <3>1. disk[f] # Absent /\ disk[f] # Empty BY <1>9 DEF Good
    <3> HIDE DEF f
    <3> DEFINE v == disk[f]
    <3>2. v \in Empty .. run /\ v # Absent /\ v # Empty /\ run \in Nat BY <1>3, <1>6, <3>1
    <3> HIDE DEF v
    <3>3. v \in 1 .. run BY <3>2 DEF Absent, Empty
    <3>4. QED BY <3>3 DEF v
  <2>2. has'[p] = Append(has[p], disk[f]) BY <1>1, <1>3, <1>9
  <2>3. /\ has'[p] \in Seq(1 .. run) /\ has'[p] # <<>> /\ Len(has'[p]) = n
        /\ DOMAIN has'[p] = 1 .. n /\ DOMAIN has[p] = 1 .. Len(has[p])
        /\ \A i \in 1 .. Len(has[p]) : has'[p][i] = has[p][i]
        /\ has'[p][n] = disk[f]
    <3> HIDE DEF f
    <3> DEFINE x == disk[f]
               s == has[p]
               S == 1 .. run
    <3>1. s \in Seq(S) /\ x \in S BY <1>3, <2>1
    <3> HIDE DEF x, s, S
    <3>2. /\ Append(s, x) \in Seq(S) /\ Append(s, x) # <<>> /\ Len(Append(s, x)) = Len(s) + 1
          /\ DOMAIN Append(s, x) = 1 .. Len(s) + 1 /\ DOMAIN s = 1 .. Len(s)
          /\ \A i \in 1 .. Len(s) : Append(s, x)[i] = s[i]
          /\ Append(s, x)[Len(s) + 1] = x
      BY <3>1, Appended
    <3>3. has'[p] = Append(s, x) BY <2>2 DEF s, x
    <3>4. QED BY <3>2, <3>3, Zenon DEF s, x, S
  <2> HIDE DEF f, n
  <2>4. TypeOK'
    <3>1. has' \in [Procs -> Seq(1 .. run)] BY <1>1, <1>3, <1>7, <2>3
    <3>2. ASSUME NEW q \in Procs PROVE Len(has'[q]) <= Len(Reads[q])
      <4>1. Len(has[q]) <= Len(Reads[q]) BY <1>2 DEF TypeOK
      <4>2. Len(has'[p]) = n /\ n <= Len(Reads[p]) BY <1>3, <1>4, <2>3
      <4>3. CASE q = p BY <4>2, <4>3
      <4>4. CASE q # p BY <1>7, <4>1, <4>4
      <4>5. QED BY <4>3, <4>4
    <3>3. QED BY <1>1, <1>2, <3>1, <3>2 DEF TypeOK
  <2>5. /\ has'[p][1] \in 1 .. run
        /\ \A i, j \in DOMAIN Output : i < j /\ Output[j] = Reads[p][1] =>
               disk[Output[i]] = Empty \/ disk[Output[i]] >= has'[p][1]
    <3>1. CASE has[p] = <<>>
      <4>1. n = 1 BY <3>1 DEF n
      <4>2. has'[p][1] = disk[Reads[p][1]] BY <2>3, <4>1 DEF f
      <4>3. QED BY <2>1, <4>1, <4>2 DEF IInv, Ordered, f
    <3>2. CASE has[p] # <<>>
      <4>1. Len(has[p]) >= 1 /\ has[p][1] \in 1 .. run BY <1>3, <3>2, Nonempty
      <4>2. has'[p][1] = has[p][1] BY <1>3, <2>3, <4>1
      <4>3. QED BY <3>2, <4>1, <4>2 DEF IInv, Ahead
    <3>3. QED BY <3>1, <3>2
  <2>6. Ahead'
    <3> SUFFICES ASSUME NEW q \in Procs, has'[q] # <<>>, NEW i \in DOMAIN Output,
                        NEW j \in DOMAIN Output, i < j, Output[j] = Reads[q][1]
                 PROVE  disk[Output[i]] = Empty \/ disk[Output[i]] >= has'[q][1]
      BY <1>1 DEF Ahead
    <3>1. CASE q = p BY <2>5, <3>1
    <3>2. CASE q # p
      <4>1. has'[q] = has[q] BY <1>7, <3>2
      <4>2. QED BY <4>1 DEF IInv, Ahead
    <3>3. QED BY <3>1, <3>2
  <2>7. disk[f] >= has'[p][1]
    <3>1. CASE has[p] = <<>>
      <4>1. n = 1 BY <3>1 DEF n
      <4>2. QED BY <2>1, <2>3, <4>1
    <3>2. CASE has[p] # <<>>
      <4>1. Len(has[p]) \in Nat /\ Len(has[p]) >= 1 /\ has[p][1] \in 1 .. run
        BY <1>3, <3>2, Nonempty
      <4>2. has'[p][1] = has[p][1] /\ n \in 2 .. Len(Reads[p])
        <5>1. 1 \in 1 .. Len(has[p]) BY <4>1
        <5>2. n >= 2 BY <4>1 DEF n
        <5>3. has'[p][1] = has[p][1] BY <2>3, <5>1, Zenon
        <5>4. n \in 2 .. Len(Reads[p]) BY <1>3, <1>4, <5>2
        <5>5. QED BY <5>3, <5>4
      <4>3. CASE Earlier(p, n)
        <5>1. PICK i, j \in DOMAIN Output :
                 i < j /\ Output[i] = Reads[p][n] /\ Output[j] = Reads[p][1]
          BY <4>3 DEF Earlier
        <5>2. disk[f] # Empty BY <2>1 DEF Empty
        <5>3. QED BY <2>5, <5>1, <5>2 DEF f
      <4>4. CASE n = 2 /\ Reads[p][n][2] = "key"
        <5> DEFINE len == Len(has[p])
        <5>1. n = len + 1 /\ len \in Nat BY <1>3 DEF n
        <5>2. n = 2 BY <4>4
        <5>3. has[p][len] = disk[f] BY <1>9, <4>4 DEF Good, f
        <5> HIDE DEF len
        <5>4. len = 1 BY <5>1, <5>2
        <5>5. has'[p][1] = disk[f] BY <4>2, <5>3, <5>4
        <5>6. QED BY <2>1, <5>5
      <4>5. QED BY <4>2, <4>3, <4>4, ReadsKnown
    <3>3. QED BY <3>1, <3>2
  <2>8. NotOlder'
    <3> SUFFICES ASSUME NEW q \in Procs, NEW k \in DOMAIN has'[q] PROVE has'[q][k] >= has'[q][1]
      BY DEF NotOlder
    <3>1. CASE q # p
      <4>1. has'[q] = has[q] BY <1>7, <3>1
      <4>2. QED BY <4>1 DEF IInv, NotOlder
    <3>2. CASE q = p /\ k = n BY <2>3, <2>7, <3>2
    <3>3. CASE q = p /\ k # n
      <4>1. k \in 1 .. Len(has[p]) BY <1>3, <2>3, <3>3 DEF n
      <4>2. has[p][k] >= has[p][1] BY <2>3, <4>1 DEF IInv, NotOlder
      <4>3. 1 \in 1 .. Len(has[p]) BY <1>3, <4>1
      <4>4. QED BY <2>3, <3>3, <4>1, <4>2, <4>3
    <3>4. QED BY <3>1, <3>2, <3>3
  <2>9. (Passed /\ Over /\ OneGeneration /\ Ordered)'
    BY <1>1 DEF IInv, Passed, Over, OneGeneration, Ordered
  <2>10. QED BY <2>4, <2>6, <2>8, <2>9 DEF IInv
<1>10. QED BY <1>8, <1>9

\* A process that ends has read nothing.
LEMMA StopIInv == ASSUME IInv, NEW p \in Procs, Stop(p) PROVE IInv'
PROOF
<1>1. /\ UNCHANGED <<run, at, disk, complete>> /\ has' = [has EXCEPT ![p] = <<>>]
      /\ stops' = stops - 1 /\ stops > 0
  BY DEF Stop
<1>2. TypeOK /\ has \in [Procs -> Seq(1 .. run)] BY DEF IInv, TypeOK
<1>3. has'[p] = <<>> /\ \A q \in Procs : q # p => has'[q] = has[q] BY <1>1, <1>2
<1>4. has' \in [Procs -> Seq(1 .. run)] BY <1>1, <1>2
<1>5. TypeOK'
  <2>1. ASSUME NEW q \in Procs PROVE Len(has'[q]) <= Len(Reads[q])
    <3>1. Len(has[q]) <= Len(Reads[q]) BY <1>2 DEF TypeOK
    <3>2. Len(has'[p]) = 0 /\ Len(Reads[p]) >= 0 BY <1>3, ReadsKnown
    <3>3. CASE q = p BY <3>2, <3>3
    <3>4. CASE q # p BY <1>3, <3>1, <3>4
    <3>5. QED BY <3>3, <3>4
  <2>2. stops' \in 0 .. MaxStops BY <1>1, <1>2, BoundsAssumption DEF TypeOK
  <2>3. QED BY <1>1, <1>2, <1>4, <2>1, <2>2 DEF TypeOK
<1>6. Ahead' BY <1>1, <1>3 DEF IInv, Ahead
<1>7. NotOlder'
  <2>1. DOMAIN has'[p] = {} BY <1>3
  <2>2. QED BY <1>3, <2>1 DEF IInv, NotOlder
<1>8. (Passed /\ Over /\ OneGeneration /\ Ordered)'
  BY <1>1 DEF IInv, Passed, Over, OneGeneration, Ordered
<1>9. QED BY <1>5, <1>6, <1>7, <1>8 DEF IInv

\* IInv is an invariant: every action preserves it.
THEOREM Invariance == Spec => []IInv
PROOF
<1>1. IInv /\ UNCHANGED vars => IInv'
  BY DEF vars, IInv, TypeOK, Passed, Over, OneGeneration, Ordered, Ahead, NotOlder
<1>2. IInv /\ Next => IInv'
  BY BeginIInv, TruncateIInv, WriteIInv, EndIInv, LoadIInv, StopIInv DEF Next
<1>3. QED BY <1>1, <1>2, InitIInv, PTL DEF Spec

\* The type invariant, for every table and any number of runs.
THEOREM TypeCorrect == Spec => []TypeOK
PROOF
<1>1. IInv => TypeOK BY DEF IInv
<1>2. QED BY <1>1, Invariance, PTL

\* A run of the generator that has come to its end has replaced every file,
\* whatever earlier runs left: must lets no error pass.
THEOREM RunsReplaceAll == Spec => []OneGeneration
PROOF
<1>1. IInv => OneGeneration BY DEF IInv
<1>2. QED BY <1>1, Invariance, PTL

\* No process has a file older than the one it read first, although files are
\* replaced one by one while it reads them.
THEOREM NothingOlder == Spec => []NotOlder
PROOF
<1>1. IInv => NotOlder BY DEF IInv
<1>2. QED BY <1>1, Invariance, PTL
--------------------------------------------------------------------------------
\* A process that is up and whose first file is the latest run's has only such files.
LEMMA AllLatest ==
    ASSUME IInv, NEW p \in Procs, Up(p), has[p][1] = run
    PROVE  \A k \in 1 .. Len(Reads[p]) : has[p][k] = run
PROOF
<1>1. has[p] \in Seq(1 .. run) /\ run \in Nat BY Types DEF IInv
<1>2. Len(has[p]) = Len(Reads[p]) BY DEF Up
<1>3. ASSUME NEW k \in 1 .. Len(has[p]) PROVE has[p][k] = run
  <2>1. has[p][k] \in 1 .. run BY <1>1
  <2>2. k \in DOMAIN has[p] BY <1>1
  <2>3. has[p][k] >= has[p][1] BY <2>2 DEF IInv, NotOlder
  <2>4. QED BY <1>1, <2>1, <2>3
<1>4. QED BY <1>2, <1>3

\* The leaf of a legitimate backend is its service's.
LEMMA LegitimateLeaf ==
    ASSUME NEW i \in DOMAIN services, NEW b \in services[i].Backends, b # Impostor
    PROVE  /\ b \in Replicas /\ Leaf(b) = services[i].Name /\ Authority(b) = "ca"
           /\ Signer(Leaf(b)) = "ca" /\ services[i].Name \in Sans(Leaf(b))
           /\ KeyUsages(Leaf(b)) = {"server", "client"}
PROOF
<1>1. b \in Replicas /\ Authority(b) = "ca" BY DEF Replicas, Authority
<1>2. services[i] \in Range(services) BY DEF Range
<1>3. ASSUME NEW s \in Range(services), b \in s.Backends PROVE s = services[i]
  <2>1. PICK j \in DOMAIN services : s = services[j] BY DEF Range
  <2>2. i = j BY <1>3, <2>1, NamesAssumption
  <2>3. QED BY <2>1, <2>2
<1>4. ServiceOf(b) = services[i] BY <1>2, <1>3 DEF ServiceOf
<1>5. Leaf(b) = services[i].Name BY <1>4 DEF Leaf
<1>6. services[i].Name \notin {"gateway", "gateway-listener", "rogue-llm"} BY NamesAssumption
<1>7. QED BY <1>1, <1>5, <1>6 DEF Signer, Sans, KeyUsages

\* What the gateway, a replica and a client have when they are up.
LEMMA WhatIsHad ==
    ASSUME IInv
    PROVE  /\ Up("gateway") => ListenerCert = has["gateway"][3 + 3 * Len(services)]
           /\ Len(Reads["gateway"]) = 3 + 3 * Len(services)
           /\ \A b \in Replicas : Len(Reads[b]) = 3
           /\ \A c \in Range(clients) : Len(Reads[c]) = 2
PROOF
<1>1. Len(Reads["gateway"]) = 3 + 3 * Len(services) BY WhatIsRead, GatewayFiles
<1>2. Up("gateway") => ListenerCert = has["gateway"][3 + 3 * Len(services)]
  BY <1>1 DEF Up, ListenerCert
<1>3. ASSUME NEW b \in Replicas PROVE Len(Reads[b]) = 3
  <2>1. Reads[b] = << <<Leaf(b), "crt">>, <<Leaf(b), "key">>, <<Authority(b), "crt">> >> BY WhatIsRead
  <2>2. QED BY <2>1
<1>4. ASSUME NEW c \in Range(clients) PROVE Len(Reads[c]) = 2
  <2>1. Reads[c] = << <<c, "json">>, <<"ca", "crt">> >> BY WhatIsRead
  <2>2. QED BY <2>1
<1>5. QED BY <1>1, <1>2, <1>3, <1>4

\* Processes whose first files are the latest run's work together, and the
\* impostor is taken for a backend in no case.
THEOREM LatestAgree == Spec => []Agree
PROOF
<1>1. ASSUME IInv PROVE Agree
  <2> DEFINE m == Len(services)
  <2>1. m \in Nat /\ DOMAIN services = 1 .. m BY TablesAssumption
  <2>2. ASSUME NEW i \in DOMAIN services, NEW b \in services[i].Backends, b = Impostor
        PROVE  ~Verifies(i, b)
    <3>1. Leaf(b) = "rogue-llm" BY <2>2 DEF Leaf
    <3>2. QED BY <3>1 DEF Verifies, Trusts, Signer
  <2>3. ASSUME Up("gateway"), has["gateway"][1] = run
        PROVE  \A k \in 1 .. 3 + 3 * m : has["gateway"][k] = run
    BY <1>1, <2>3, AllLatest, WhatIsHad, WhatIsRead
  <2>4. ASSUME Up("gateway"), has["gateway"][1] = run,
               NEW i \in DOMAIN services, NEW b \in services[i].Backends, b # Impostor,
               Up(b), has[b][1] = run
        PROVE  Verifies(i, b) /\ Admits(i, b)
    <3>1. /\ b \in Replicas /\ Leaf(b) = services[i].Name /\ Authority(b) = "ca"
          /\ Signer(Leaf(b)) = "ca" /\ services[i].Name \in Sans(Leaf(b))
          /\ KeyUsages(Leaf(b)) = {"server", "client"}
      BY <2>4, LegitimateLeaf
    <3>2. b \in Procs /\ Len(Reads[b]) = 3 BY <1>1, <3>1, WhatIsRead, WhatIsHad
    <3>3. \A k \in 1 .. Len(Reads[b]) : has[b][k] = run BY <1>1, <2>4, <3>2, AllLatest
    <3>4. 3 \in 1 .. Len(Reads[b]) BY <3>2
    <3>5. has[b][3] = run BY <3>3, <3>4
    <3>6. 3 * i - 1 \in 1 .. 3 + 3 * m /\ 3 * i \in 1 .. 3 + 3 * m BY <2>1
    <3>7. RootCA(i) = run /\ ClientCert(i) = run BY <2>3, <2>4, <3>6 DEF RootCA, ClientCert
    <3>8. Verifies(i, b) BY <2>4, <3>1, <3>7 DEF Verifies, Trusts
    <3>9. Signer("gateway") = "ca" /\ "client" \in KeyUsages("gateway") BY DEF Signer, KeyUsages
    <3>10. Admits(i, b) BY <3>1, <3>5, <3>7, <3>9 DEF Admits, Trusts
    <3>11. QED BY <3>8, <3>10
  <2>5. ASSUME Up("gateway"), has["gateway"][1] = run,
               NEW c \in Range(clients), Up(c), has[c][1] = run
        PROVE  Connects(c) /\ Registered(c)
    <3>1. c \in Procs /\ Len(Reads[c]) = 2 BY <1>1, WhatIsRead, WhatIsHad
    <3>2. \A k \in 1 .. Len(Reads[c]) : has[c][k] = run BY <1>1, <2>5, <3>1, AllLatest
    <3>3. 2 \in 1 .. Len(Reads[c]) BY <3>1
    <3>4. has[c][2] = run BY <3>2, <3>3
    <3>5. ListenerCert = run
      <4>1. 3 + 3 * m \in 1 .. 3 + 3 * m BY <2>1
      <4>2. QED BY <1>1, <2>3, <2>5, <4>1, WhatIsHad
    <3>6. /\ Signer("gateway-listener") = "ca" /\ "server" \in KeyUsages("gateway-listener")
          /\ "gateway" \in Sans("gateway-listener")
      BY DEF Signer, KeyUsages, Sans
    <3>7. QED BY <2>5, <3>4, <3>5, <3>6 DEF Connects, Registered, Trusts
  <2>6. QED BY <2>2, <2>4, <2>5 DEF Agree
<1>2. QED BY <1>1, Invariance, PTL
--------------------------------------------------------------------------------
(* Liveness. ENABLED is left to TLC, in GoesOn, and so is that stops runs out. *)

Scheduled(b) == WF_vars(Load(b))
CanGoOn(b) == complete # 0 /\ ~Up(b) => ENABLED <<Load(b)>>_vars
StartsFor(b) == <>[](complete # 0) => <>[]Up(b)

\* How far a backend has come: nothing read, a certificate of an earlier run or of the
\* latest one, its key as well.
Nothing(b) == has[b] = <<>>
OldCert(b) == Len(has[b]) = 1 /\ has[b][1] # run
NewCert(b) == Len(has[b]) = 1 /\ has[b][1] = run
CertAndKey(b) == Len(has[b]) = 2

\* The fairness, the enabled steps and the promise, backend by backend.
LEMMA PerReplica ==
    /\ Fairness => \A b \in Replicas : Scheduled(b)
    /\ GoesOn => \A b \in Replicas : CanGoOn(b)
    /\ (\A b \in Replicas : StartsFor(b)) => Starts
PROOF BY PTL DEF Fairness, Scheduled, GoesOn, CanGoOn, Starts, StartsFor

\* What a backend's three files are.
LEMMA ReplicaFiles ==
    ASSUME NEW b \in Replicas
    PROVE  /\ b \in Procs /\ Len(Reads[b]) = 3
           /\ Reads[b][1] \in Artifact /\ Reads[b][1][2] = "crt"
           /\ Reads[b][2] \in Artifact /\ Reads[b][2][2] = "key"
           /\ Reads[b][3] \in Artifact /\ Reads[b][3][2] = "crt"
PROOF
<1>1. /\ b \in Procs
      /\ Reads[b] = << <<Leaf(b), "crt">>, <<Leaf(b), "key">>, <<Authority(b), "crt">> >>
  BY WhatIsRead
<1>2. /\ Len(Reads[b]) = 3 /\ Reads[b][1][2] = "crt" /\ Reads[b][2][2] = "key"
      /\ Reads[b][3][2] = "crt"
  BY <1>1
<1>3. 1 \in 1 .. 3 /\ 2 \in 1 .. 3 /\ 3 \in 1 .. 3 OBVIOUS
<1>4. QED BY <1>1, <1>2, <1>3, ReadsKnown

\* A backend is always at one of these places.
LEMMA Somewhere ==
    ASSUME IInv, NEW b \in Replicas
    PROVE  Nothing(b) \/ OldCert(b) \/ NewCert(b) \/ CertAndKey(b) \/ Up(b)
PROOF
<1> DEFINE n == Len(has[b])
           m == Len(Reads[b])
<1>1. b \in Procs /\ m = 3 BY ReplicaFiles
<1>2. n \in Nat /\ n <= m /\ has[b] \in Seq(1 .. run)
  <2>1. TypeOK BY DEF IInv
  <2>2. n <= m BY <1>1, <2>1, Zenon DEF TypeOK
  <2>3. QED BY <1>1, <2>1, <2>2, Types
<1> HIDE DEF n, m
<1>3. n = 0 \/ n = 1 \/ n = 2 \/ n = 3 BY <1>1, <1>2
<1>4. n = 0 => Nothing(b)
  <2>1. has[b] # <<>> => Len(has[b]) >= 1 BY <1>2, Nonempty
  <2>2. QED BY <2>1 DEF Nothing, n
<1>5. n = 1 => OldCert(b) \/ NewCert(b) BY Zenon DEF OldCert, NewCert, n
<1>6. n = 2 => CertAndKey(b) BY Zenon DEF CertAndKey, n
<1>7. n = 3 => Up(b) BY <1>1, Zenon DEF Up, n, m
<1>8. QED BY <1>3, <1>4, <1>5, <1>6, <1>7

\* When the latest run is complete, every file can be read, and a key goes with a
\* certificate of that run and no other.
LEMMA LoadSteps ==
    ASSUME IInv, complete # 0, NEW b \in Replicas, Load(b)
    PROVE  /\ Nothing(b) => NewCert(b)'
           /\ OldCert(b) => Nothing(b)'
           /\ NewCert(b) => CertAndKey(b)'
           /\ CertAndKey(b) => Up(b)'
           /\ ~Up(b)
PROOF
<1> DEFINE n == Len(has[b])
           f == Reads[b][n + 1]
<1>1. /\ b \in Procs /\ Len(Reads[b]) = 3 /\ has[b] \in Seq(1 .. run) /\ n \in Nat
      /\ run \in Nat /\ complete = run /\ has \in [Procs -> Seq(1 .. run)]
      /\ has'[b] = IF Good(b, f) THEN Append(has[b], disk[f]) ELSE <<>>
      /\ UNCHANGED run
  <2>1. b \in Procs /\ Len(Reads[b]) = 3 BY ReplicaFiles
  <2>2. TypeOK BY DEF IInv
  <2>3. has \in [Procs -> Seq(1 .. run)] /\ complete = run BY <2>2 DEF TypeOK
  <2>4. has[b] \in Seq(1 .. run) /\ n \in Nat /\ run \in Nat BY <2>1, <2>2, Types
  <2>5. QED BY <2>1, <2>3, <2>4 DEF Load
<1>2. ASSUME f \in Artifact
      PROVE  disk[f] = run /\ (Good(b, f) <=> (f[2] = "key" => has[b][n] = run))
  <2>1. disk[f] = run BY <1>1, <1>2 DEF IInv, OneGeneration
  <2>2. run # Absent /\ run # Empty BY <1>1 DEF Absent, Empty
  <2>3. QED BY <2>1, <2>2, Zenon DEF Good
<1>3. ~Up(b) BY DEF Load
<1>4. Nothing(b) => NewCert(b)'
  <2> SUFFICES ASSUME Nothing(b) PROVE NewCert(b)' OBVIOUS
  <2>1. n = 0 /\ n + 1 = 1 BY DEF Nothing
  <2>2. f \in Artifact /\ f[2] = "crt" BY <2>1, ReplicaFiles
  <2>3. Good(b, f) /\ disk[f] = run BY <1>2, <2>2
  <2>4. has'[b] = <<run>>
    <3>1. has'[b] = Append(<<>>, run) BY <1>1, <2>3 DEF Nothing
    <3>2. QED BY <3>1
  <2>5. Len(has'[b]) = 1 /\ has'[b][1] = run BY <2>4
  <2>6. QED BY <1>1, <2>5 DEF NewCert
<1>5. OldCert(b) => Nothing(b)'
  <2> SUFFICES ASSUME OldCert(b) PROVE Nothing(b)' OBVIOUS
  <2>1. n = 1 /\ n + 1 = 2 BY DEF OldCert
  <2>2. f \in Artifact /\ f[2] = "key" BY <2>1, ReplicaFiles
  <2>3. ~Good(b, f) BY <1>2, <2>1, <2>2 DEF OldCert
  <2>4. QED BY <1>1, <2>3 DEF Nothing
<1>6. NewCert(b) => CertAndKey(b)'
  <2> SUFFICES ASSUME NewCert(b) PROVE CertAndKey(b)' OBVIOUS
  <2>1. n = 1 /\ n + 1 = 2 BY DEF NewCert
  <2>2. f \in Artifact /\ f[2] = "key" BY <2>1, ReplicaFiles
  <2>3. Good(b, f) BY <1>2, <2>1, <2>2 DEF NewCert
  <2>4. Len(has'[b]) = n + 1 BY <1>1, <2>3
  <2>5. QED BY <2>1, <2>4, Zenon DEF CertAndKey
<1>7. CertAndKey(b) => Up(b)'
  <2> SUFFICES ASSUME CertAndKey(b) PROVE Up(b)' OBVIOUS
  <2>1. n = 2 /\ n + 1 = 3 BY DEF CertAndKey
  <2>2. f \in Artifact /\ f[2] = "crt" BY <2>1, ReplicaFiles
  <2>3. Good(b, f) BY <1>2, <2>2
  <2>4. Len(has'[b]) = n + 1 BY <1>1, <2>3
  <2>5. QED BY <1>1, <2>1, <2>4, Zenon DEF Up
<1>8. QED BY <1>3, <1>4, <1>5, <1>6, <1>7

\* From then on nothing happens but processes that read files, unless one is stopped.
LEMMA QuietSteps ==
    ASSUME IInv, [Next]_vars, [UNCHANGED stops]_vars, complete # 0, complete' # 0,
           NEW b \in Replicas
    PROVE  Load(b) \/ (has'[b] = has[b] /\ run' = run)
PROOF
<1>1. at = 0 /\ DOMAIN Output = 1 .. Len(Output) /\ Len(Output) \in Nat
  BY Written DEF IInv, Over
<1>2. ~Begin /\ ~Truncate /\ ~Write /\ ~Panic /\ ~Finish
  BY <1>1 DEF Begin, Truncate, Write, Panic, Finish, Writing
<1>3. ASSUME NEW p \in Procs PROVE ~Stop(p)
  <2> SUFFICES ASSUME Stop(p) PROVE FALSE OBVIOUS
  <2>1. stops \in Nat /\ stops' = stops - 1 BY BoundsAssumption DEF IInv, TypeOK, Stop
  <2>2. stops' = stops BY DEF vars
  <2>3. QED BY <2>1, <2>2
<1>4. ASSUME NEW p \in Procs, Load(p), p # b PROVE has'[b] = has[b] /\ run' = run
  BY <1>4, WhatIsRead DEF Load, IInv, TypeOK
<1>5. UNCHANGED vars => has'[b] = has[b] /\ run' = run BY DEF vars
<1>6. QED BY <1>2, <1>3, <1>4, <1>5, WhatIsRead DEF Next

\* Once a run has come to its end and no other begins, every backend that is started again
\* until its files are good gets to its end, whatever was on the disk when it began to
\* read: a certificate of an earlier run is given up at its key.
THEOREM BackendsStart == Spec /\ []GoesOn /\ <>[][UNCHANGED stops]_vars => Starts
PROOF
<1> SUFFICES ASSUME NEW b \in Replicas
             PROVE  Spec /\ []GoesOn /\ <>[][UNCHANGED stops]_vars => StartsFor(b)
  <2>1. Spec /\ []GoesOn /\ <>[][UNCHANGED stops]_vars => \A b \in Replicas : StartsFor(b)
    OBVIOUS
  <2>2. QED BY <2>1, PerReplica
<1>1. (Fairness => Scheduled(b)) /\ (GoesOn => CanGoOn(b)) BY PerReplica
<1> DEFINE Quiet == /\ IInv /\ [Next]_vars /\ [UNCHANGED stops]_vars
                    /\ complete # 0 /\ (complete # 0)'
<1>2. Quiet => /\ Nothing(b) => Nothing(b)' \/ NewCert(b)'
               /\ OldCert(b) => OldCert(b)' \/ Nothing(b)'
               /\ NewCert(b) => NewCert(b)' \/ CertAndKey(b)'
               /\ CertAndKey(b) => CertAndKey(b)' \/ Up(b)'
               /\ Up(b) => Up(b)'
  <2> SUFFICES ASSUME Quiet
               PROVE  /\ Nothing(b) => Nothing(b)' \/ NewCert(b)'
                      /\ OldCert(b) => OldCert(b)' \/ Nothing(b)'
                      /\ NewCert(b) => NewCert(b)' \/ CertAndKey(b)'
                      /\ CertAndKey(b) => CertAndKey(b)' \/ Up(b)'
                      /\ Up(b) => Up(b)'
    OBVIOUS
  <2>1. CASE Load(b) BY <2>1, LoadSteps
  <2>2. CASE has'[b] = has[b] /\ run' = run
    BY <2>2, Zenon DEF Nothing, OldCert, NewCert, CertAndKey, Up
  <2>3. QED BY <2>1, <2>2, QuietSteps
<1>3. Quiet /\ <<Load(b)>>_vars => /\ Nothing(b) => NewCert(b)'
                                   /\ OldCert(b) => Nothing(b)'
                                   /\ NewCert(b) => CertAndKey(b)'
                                   /\ CertAndKey(b) => Up(b)'
  BY LoadSteps
<1>4. IInv => Nothing(b) \/ OldCert(b) \/ NewCert(b) \/ CertAndKey(b) \/ Up(b)
  BY Somewhere
<1>5. QED
  BY <1>1, <1>2, <1>3, <1>4, Invariance, PTL DEF Spec, Scheduled, CanGoOn, StartsFor
================================================================================
