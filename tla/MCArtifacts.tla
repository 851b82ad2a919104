------------------------------ MODULE MCArtifacts ------------------------------
(* Two services, the impostor alone in the first and a backend in the second, and one
   client. *)
EXTENDS Artifacts

MCservices == <<[Name |-> "llm", Backends |-> {"llm-4"}], [Name |-> "embed", Backends |-> {"embed-1"}]>>
MCclients == <<"chatbot">>
================================================================================
