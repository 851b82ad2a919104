------------------------------- MODULE MCHandler -------------------------------
(***************************************************************************)
(* An instance of Handler. MCTokens has a good token and, for every check  *)
(* of Verify, one that only fails that check; a second good token and one  *)
(* without the scope share its jti. Route 1 is shadowed by nothing and     *)
(* route 2, with the longer prefix, by route 1; route 3 names a service    *)
(* that has no pool, route 4 one whose pool is empty. The backend of the   *)
(* second service is not trusted.                                          *)
(***************************************************************************)
EXTENDS Handler, TLC

Good == [header |-> TRUE, alg |-> "EdDSA", kid |-> "alice", sig |-> "alice", payload |-> TRUE,
         iss |-> "issuer", aud |-> "gw", iat |-> 1, exp |-> 5, jti |-> "j1", scope |-> {"llm"}]

MCTokens == {Good,
    [Good EXCEPT !.kid = "bob", !.sig = "bob"],
    [Good EXCEPT !.scope = {"embed"}],
    [Good EXCEPT !.jti = "j2", !.exp = 3, !.iat = 4],
    [Good EXCEPT !.header = FALSE],
    [Good EXCEPT !.alg = "none"],
    [Good EXCEPT !.kid = "mallory", !.sig = "mallory"],
    [Good EXCEPT !.sig = Garbled],
    [Good EXCEPT !.sig = "bob"],
    [Good EXCEPT !.payload = FALSE],
    [Good EXCEPT !.iss = "other"],
    [Good EXCEPT !.aud = "other"],
    [Good EXCEPT !.exp = 0],
    [Good EXCEPT !.exp = 2],
    [Good EXCEPT !.iat = 5],
    [Good EXCEPT !.jti = ""]}

MCRoutes == <<[service |-> "llm", scope |-> "llm"], [service |-> "embed", scope |-> "embed"],
              [service |-> "ghost", scope |-> ""], [service |-> "audio", scope |-> ""]>>

MCMatches == ("/llm" :> {1}) @@ ("/llm/embed" :> {1, 2}) @@ ("/embed" :> {2}) @@ ("/llmx" :> {1})
             @@ ("/ghost" :> {3}) @@ ("/audio" :> {4}) @@ ("/" :> {})

MCBadTargets == {"/llmx"}

\* For authentication: every token on a plain path, every path with a few.
AuthInputs ==
    [path : {"/llm"}, token : MCTokens \cup {None}, body : {"none"}] \cup
    [path : {"/embed", "/llm/embed", "/llmx", "/ghost", "/"},
     token : {Good, [Good EXCEPT !.scope = {"embed"}]}, body : {"none"}] \cup
    [path : {"/audio"}, token : {Good}, body : {"none"}]

\* For forwarding: requests with a body, with the same jti or not.
ForwardInputs ==
    [path : {"/llm"}, token : {Good, [Good EXCEPT !.jti = "j2"]}, body : {"http1", "http2"}]

MCInputs == AuthInputs \cup ForwardInputs

CONSTANTS b1, b2, b3

MCPools == [llm |-> {b1, b2}, embed |-> {b3}, audio |-> {}]
================================================================================
