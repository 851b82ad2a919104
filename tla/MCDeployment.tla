------------------------------ MODULE MCDeployment ------------------------------
(* The instance of MCController, with the Deployment beside it. *)
EXTENDS MCController, Deployment
================================================================================
