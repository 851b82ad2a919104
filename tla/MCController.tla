----------------------------- MODULE MCController ------------------------------
(* Resources that differ in every part reconcile treats differently. *)
EXTENDS Controller

CONSTANTS k1, k2

MCResources == {
    [tls |-> "issuer", np |-> "none", npPort |-> 0, home |-> TRUE, ports |-> <<0>>, rest |-> 1],
    [tls |-> "none", np |-> "enabled", npPort |-> 9443, home |-> TRUE, ports |-> <<9000, 0>>, rest |-> 2],
    [tls |-> "secret", np |-> "disabled", npPort |-> 0, home |-> TRUE, ports |-> <<0>>, rest |-> 2],
    [tls |-> "none", np |-> "enabled", npPort |-> 0, home |-> FALSE, ports |-> <<0>>, rest |-> 3],
    [tls |-> "none", np |-> "none", npPort |-> 0, home |-> TRUE, ports |-> <<0>>, rest |-> 3]}

MCChart == [rest |-> 0, tls |-> FALSE, ports |-> <<8443>>, keys |-> <<>>, redis |-> FALSE]

MCSecrets == {{k1}, {k1, k2}}
================================================================================
