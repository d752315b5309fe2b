------------------------------ MODULE MCAfeMac ------------------------------
(***************************************************************************)
(* AfeMac for TLC: buffers and senders are model values.                   *)
(***************************************************************************)
EXTENDS AfeMac, TLC

Symmetry == Permutations(Bufs) \cup Permutations(Senders)
=============================================================================
