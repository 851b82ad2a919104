----------------------------- MODULE MCRedisNonce ------------------------------
(* Two requests over two replicas; one jti, used by tokens with two lifetimes. *)
EXTENDS RedisNonce

MCTokens == {[jti |-> 1, exp |-> 1], [jti |-> 1, exp |-> 3]}
================================================================================
