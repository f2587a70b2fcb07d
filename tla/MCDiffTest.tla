----------------------------- MODULE MCDiffTest -----------------------------
(***************************************************************************)
(* Instances of DiffTest for TLC: every constant is given by the           *)
(* configuration.                                                          *)
(***************************************************************************)
EXTENDS DiffTest
=============================================================================
