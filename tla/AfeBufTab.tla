----------------------------- MODULE AfeBufTab ------------------------------
(***************************************************************************)
(* The stack of DMA buffers of the afe driver: afe_buftab and afe_topbuf.  *)
(* afe_allocrings fills it when the device is attached, afe_getbuf and     *)
(* afe_freebuf pop and push it under afe_buflock, and afe_freerings gives  *)
(* the memory back.  AfeMac uses it as a set, which TabImplementsPool in   *)
(* AfeBufTab_proofs justifies.                                             *)
(***************************************************************************)
EXTENDS Integers, FiniteSets

CONSTANTS Bufs,     \* the DMA buffers the system can allocate
          NoBuf,    \* a NULL entry
          NumBufs,  \* AFE_NUMBUFS
          Reserve   \* AFE_RSVDBUFS

ASSUME TabAssumption == NumBufs \in Nat /\ Reserve \in Nat /\ NoBuf \notin Bufs

Slots == 0 .. NumBufs - 1

VARIABLES phase,    \* how far attach and detach are
          buftab, topbuf,
          dma,      \* external: the buffers whose DMA memory is allocated
          out       \* the buffers in the hands of callers of afe_getbuf

tabVars == <<phase, buftab, topbuf, dma, out>>

\* Types: afe_topbuf stays between 0 and the size of afe_buftab.
TabTypeOK ==
    /\ phase \in {"detached", "allocating", "attached"}
    /\ buftab \in [Slots -> Bufs \cup {NoBuf}]
    /\ topbuf \in 0 .. NumBufs
    /\ dma \in SUBSET Bufs /\ out \in SUBSET Bufs

\* No device structure: the table is the zeroed one the next attach gets.
Zeroed == buftab = [i \in Slots |-> NoBuf] /\ topbuf = 0

TabInit == phase = "detached" /\ Zeroed /\ dma = {} /\ out = {}

-----------------------------------------------------------------------------
(***************************************************************************)
(* The loop of allocrings over the table and its DMA memory.  A turn       *)
(* allocates one buffer, or fails and leaves the table as it was; attach   *)
(* then calls freerings.  The structure that mxfe_allocrings forgets in    *)
(* such a turn is in no table: EtherAttach has it (Failures).              *)
(***************************************************************************)
Allocate ==
    /\ phase = "detached"
    /\ phase' = "allocating"
    /\ UNCHANGED <<buftab, topbuf, dma, out>>

AllocBuf(i) ==
    /\ phase = "allocating"
    /\ buftab[i] = NoBuf /\ \A j \in 0 .. i - 1 : buftab[j] # NoBuf
    /\ \E b \in Bufs \ dma : dma' = dma \cup {b} /\ buftab' = [buftab EXCEPT ![i] = b]
    /\ UNCHANGED <<phase, topbuf, out>>

AllocDone ==
    /\ phase = "allocating" /\ \A i \in Slots : buftab[i] # NoBuf
    /\ topbuf' = NumBufs /\ phase' = "attached"
    /\ UNCHANGED <<buftab, dma, out>>

\* Mutant: only the entries below afe_topbuf are freed.
FreeRingsToTop ==
    /\ dma' = dma \ {buftab[i] : i \in 0 .. topbuf - 1}
    /\ phase' = "detached"
    /\ buftab' = [i \in Slots |-> NoBuf] /\ topbuf' = 0

\* afe_freerings: the buffers in the table are freed, and the structure.
FreeRings ==
    /\ dma' = dma \ {buftab[i] : i \in Slots}
    /\ phase' = "detached"
    /\ buftab' = [i \in Slots |-> NoBuf] /\ topbuf' = 0

AllocFails ==
    /\ phase = "allocating" /\ FreeRings /\ UNCHANGED out

\* afe_detach, after gld_unregister: no thread is inside the driver and the
\* rings' buffers have been given back with FreeBuf.
Detach ==
    /\ phase = "attached" /\ out = {} /\ FreeRings /\ UNCHANGED out

-----------------------------------------------------------------------------
(***************************************************************************)
(* afe_getbuf and afe_freebuf, each one region under afe_buflock.  A       *)
(* refused afe_getbuf changes nothing.                                     *)
(***************************************************************************)
\* Mutant: the entry that is popped keeps its buffer.
GetBufKeep(pri) ==
    /\ phase = "attached"
    /\ ~ (topbuf = 0 \/ (pri = 0 /\ topbuf < Reserve))
    /\ out' = out \cup {buftab[topbuf - 1]}
    /\ topbuf' = topbuf - 1
    /\ UNCHANGED <<phase, buftab, dma>>

GetBuf(pri) ==
    /\ phase = "attached"
    /\ ~ (topbuf = 0 \/ (pri = 0 /\ topbuf < Reserve))
    /\ out' = out \cup {buftab[topbuf - 1]}
    /\ buftab' = [buftab EXCEPT ![topbuf - 1] = NoBuf]
    /\ topbuf' = topbuf - 1
    /\ UNCHANGED <<phase, dma>>

\* Mutant: afe_topbuf is advanced first.
FreeBufPreIncrement(b) ==
    /\ phase = "attached" /\ b \in out
    /\ out' = out \ {b}
    /\ buftab' = [buftab EXCEPT ![topbuf + 1] = b]
    /\ topbuf' = topbuf + 1
    /\ UNCHANGED <<phase, dma>>

FreeBuf(b) ==
    /\ phase = "attached" /\ b \in out
    /\ out' = out \ {b}
    /\ buftab' = [buftab EXCEPT ![topbuf] = b]
    /\ topbuf' = topbuf + 1
    /\ UNCHANGED <<phase, dma>>

TabNext ==
    \/ Allocate \/ AllocDone \/ AllocFails \/ Detach
    \/ \E i \in Slots : AllocBuf(i)
    \/ \E pri \in 0 .. 1 : GetBuf(pri)
    \/ \E b \in out : FreeBuf(b)

TabSpec == TabInit /\ [][TabNext]_tabVars

-----------------------------------------------------------------------------
\* The stack is what its users and afe_freerings take it for: no entry at or
\* above afe_topbuf, a different buffer in every entry below it, none of them
\* in anybody's hands, and never more buffers than the table can take back.
Stack ==
    /\ \A i \in Slots : topbuf <= i <=> buftab[i] = NoBuf
    /\ \A i, j \in Slots : buftab[i] = buftab[j] => i = j \/ buftab[i] = NoBuf
    /\ \A i \in Slots : buftab[i] \notin out
    /\ topbuf + Cardinality(out) = NumBufs

StackOK == phase = "attached" => Stack

\* No DMA memory is leaked: what is allocated is in the table or in a
\* caller's hands, also when afe_allocrings fails halfway, so that
\* afe_freerings frees all of it.
NoDmaLeak == dma = ({buftab[i] : i \in Slots} \ {NoBuf}) \cup out

Pool == INSTANCE BufPool WITH
    free  <- {buftab[i] : i \in 0 .. topbuf - 1},
    taken <- out

\* The stack is a pool.
IsPool == Pool!PoolSpec
=============================================================================
