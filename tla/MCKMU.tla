------------------------------- MODULE MCKMU -------------------------------
(***************************************************************************)
(* Instances of KMU for TLC: every constant is a number or a string of the *)
(* configuration.                                                          *)
(***************************************************************************)
EXTENDS KMU
=============================================================================
