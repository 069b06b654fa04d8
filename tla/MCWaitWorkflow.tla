----------------------------- MODULE MCWaitWorkflow -----------------------------
(* A small instance of WaitWorkflow for TLC. *)
EXTENDS WaitWorkflow
===============================================================================
