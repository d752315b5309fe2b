------------------------------ MODULE BufPool -------------------------------
(***************************************************************************)
(* What the stack of DMA buffers of the driver promises its callers: a     *)
(* pool, a set of buffers from which any may be taken and to which a       *)
(* buffer that was taken may be given back.                                *)
(***************************************************************************)
EXTENDS Naturals

CONSTANT Bufs

VARIABLES free,   \* the buffers of the pool
          taken   \* those its callers hold

poolVars == <<free, taken>>

PoolInit == free = {} /\ taken = {}

Take(b) == b \in free /\ free' = free \ {b} /\ taken' = taken \cup {b}
Give(b) == b \in taken /\ free' = free \cup {b} /\ taken' = taken \ {b}

\* The device is attached, or detached with every buffer back in the pool.
Open  == free = {} /\ taken = {} /\ free' \in SUBSET Bufs /\ UNCHANGED taken
Close == taken = {} /\ free' = {} /\ UNCHANGED taken

PoolNext == (\E b \in Bufs : Take(b) \/ Give(b)) \/ Open \/ Close

PoolSpec == PoolInit /\ [][PoolNext]_poolVars
=============================================================================
