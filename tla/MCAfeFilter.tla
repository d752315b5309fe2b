---------------------------- MODULE MCAfeFilter -----------------------------
(***************************************************************************)
(* AfeFilter for TLC: two addresses, two buckets of the hash.              *)
(***************************************************************************)
EXTENDS AfeFilter

\* "changed" reads as it should, as changed whatever happens, as unchanged.
MCGarbage == {0, 1, -1}
=============================================================================
