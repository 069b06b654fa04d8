---------------------------- MODULE MCConfirmation ----------------------------
(* A small instance of Confirmation for TLC. *)
EXTENDS Confirmation
===============================================================================
