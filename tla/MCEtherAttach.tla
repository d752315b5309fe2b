---------------------------- MODULE MCEtherAttach ---------------------------
(* EtherAttach for TLC: the buffers are model values. *)
EXTENDS EtherAttach, TLC
=============================================================================
