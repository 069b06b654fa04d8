----------------------------- MODULE MCObservation -----------------------------
(* The two tools that watch a workflow, called once each.                      *)
EXTENDS EventWatch, WaitWorkflow

bothVars == <<vars, waitVars>>

\* The wait is refused for both of its arguments.
WaitRefused == duration > MaxDuration /\ interval > MaxInterval

ObservationInit == Init /\ WaitInit

\* The calls share nothing, so only one of them goes past its first check: the event
\* stream is opened only beside a wait that is refused.
ObservationNext ==
    \/ Next /\ (WaitRefused \/ reader' = "unstarted") /\ UNCHANGED waitVars
    \/ WaitNext /\ UNCHANGED vars

ObservationSpec ==
    /\ ObservationInit /\ [][ObservationNext]_bothVars
    /\ Fairness /\ WaitFairness
================================================================================
