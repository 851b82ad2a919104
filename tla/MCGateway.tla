------------------------------- MODULE MCGateway -------------------------------
(* Two requests that share a jti or do not, and a file for every way to fail.  *)
EXTENDS Gateway

CONSTANTS r1, r2, j1, j2

MCRequests == {r1, r2}

MCUses == {[r \in MCRequests |-> j1], [r \in MCRequests |-> IF r = r1 THEN j1 ELSE j2]}

Good == [parses |-> TRUE, routes |-> 1, services |-> 2, keys |-> {"good"},
         redis |-> "good", listener |-> "good"]

MCFiles == {Good, [Good EXCEPT !.redis = "none", !.listener = "none"],
    [Good EXCEPT !.parses = FALSE], [Good EXCEPT !.keys = {"good", "bad"}],
    [Good EXCEPT !.redis = "bad"], [Good EXCEPT !.listener = "bad"]}
================================================================================
