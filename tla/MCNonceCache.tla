----------------------------- MODULE MCNonceCache ------------------------------
(* Three requests over two jtis; jti 1 is used by tokens with two lifetimes. *)
EXTENDS NonceCache

MCTokens == {[jti |-> 1, exp |-> 1], [jti |-> 1, exp |-> 2], [jti |-> 2, exp |-> 0]}
================================================================================
