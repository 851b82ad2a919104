------------------------------- MODULE Deployment -------------------------------
(***************************************************************************)
(* What the annotation is for: the Deployment of the gateway beside the    *)
(* controller. A gateway reads its configuration once, when its pod        *)
(* starts, from the ConfigMap as it is then.                               *)
(***************************************************************************)
EXTENDS Controller

VARIABLE pods      \* the gateway's pods: [template, config], what they were started with

allVars == <<vars, pods>>

DInit == Init /\ pods = [template |-> None, config |-> cm]

\* External: a changed annotation makes the Deployment replace the pods.
RollOut ==
    /\ cm # None /\ pods.template # rollout
    /\ pods' = [template |-> rollout, config |-> cm]
    /\ UNCHANGED vars

\* External: a pod is replaced for a reason of its own.
PodRestarts ==
    /\ cm # None /\ pods.config # cm
    /\ pods' = [pods EXCEPT !.config = cm]
    /\ UNCHANGED vars

DNext == (Next /\ UNCHANGED pods) \/ RollOut \/ PodRestarts

\* External: the Deployment acts on its annotation.
DSpec == DInit /\ [][DNext]_allVars /\ Fairness /\ WF_allVars(RollOut)
--------------------------------------------------------------------------------
\* "Annotate the Deployment to trigger a rolling restart if config changed" (main.go:172):
\* the pods need not end up with that configuration, even if there is nothing to keep
\* reconcile from its end and the Deployment has always acted on the annotation by the time
\* of the next reconcile. A pod that starts between a change of the ConfigMap and the
\* annotation for it has read the change; if the change is taken back, the annotation is
\* what it was, the Deployment sees nothing new, and the pod keeps what it read.
PodsConverge ==
    [](pc = "cr" => pods.template = rollout) /\ <>[](Applicable /\ Passable)
        => <>[]UpToDate(pods.config)
================================================================================
