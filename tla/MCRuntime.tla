----------------------------- MODULE MCRuntime -----------------------------
(***************************************************************************)
(* Instances of Runtime for TLC.                                           *)
(***************************************************************************)
EXTENDS Runtime

Ask(x, y, z, block, a) == [grid |-> [x |-> x, y |-> y, z |-> z], block |-> block, args |-> a]

\* One block that ends, a grid that outlasts a failed launch, one without
\* arguments, and requests that gpu_launch refuses: no block, too large a block,
\* too large a product.
MCRequests == {Ask(1, 1, 1, 1, FALSE), Ask(3, 1, 1, 1, TRUE),
               Ask(0, 1, 1, 1, TRUE), Ask(1, 1, 1, 3, TRUE), Ask(2, 2, 2, 2, TRUE)}
=============================================================================
