------------------------------- MODULE MCLane -------------------------------
(***************************************************************************)
(* Instances of Lane for TLC, with bytes of two bits.                      *)
(***************************************************************************)
EXTENDS Lane

\* Words with a sign bit and without, and whose bytes are all different.
MCValues == {27, 170, 228}
=============================================================================
