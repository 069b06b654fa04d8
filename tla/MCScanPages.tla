------------------------------ MODULE MCScanPages ------------------------------
(* Small instances of ScanPages for TLC. *)
EXTENDS ScanPages

\* Limits of a refused, a default and two explicit pages.
MCLimits == {-1, 0, 2}
===============================================================================
