------------------------------- MODULE MCVMM -------------------------------
(* Instances of VMM for TLC: two user tasks, tables of two pages. *)
EXTENDS VMM
=============================================================================
