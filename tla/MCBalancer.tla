------------------------------ MODULE MCBalancer -------------------------------
(* Two backends, the smallest pool in which Pick compares. *)
EXTENDS Balancer

CONSTANTS b1, b2

TwoBackends == <<b1, b2>>
================================================================================
