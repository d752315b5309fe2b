------------------------------ MODULE MCMxfeTx ------------------------------
(***************************************************************************)
(* MxfeTx for TLC: buffers and senders are model values.                   *)
(***************************************************************************)
EXTENDS MxfeTx, TLC

Symmetry == Permutations(Bufs) \cup Permutations(Senders)
=============================================================================
