-------------------------- MODULE AfeBufTab_proofs --------------------------
(***************************************************************************)
(* Proofs about AfeBufTab, for a table of any size.                        *)
(***************************************************************************)
EXTENDS AfeBufTab, FiniteSetTheorems, TLAPS

USE TabAssumption

\* The table types; outside "attached" the stack is empty and nobody holds
\* a buffer.
TabInv ==
    /\ TabTypeOK
    /\ IsFiniteSet(out)
    /\ phase # "attached" => topbuf = 0 /\ out = {}
    /\ phase = "detached" => dma = {} /\ Zeroed
    /\ NoDmaLeak
    /\ \A i, j \in Slots : buftab[i] = buftab[j] => i = j \/ buftab[i] = NoBuf
    /\ StackOK

\* afe_getbuf takes the buffer at the top, of which there is one.
LEMMA GetBufKeeps ==
    ASSUME TabInv, NEW pri, GetBuf(pri)
    PROVE  /\ TabInv'
           /\ buftab[topbuf - 1] \in Bufs \ out
<1> DEFINE top == topbuf - 1
           b == buftab[top]
<1>1. top \in Slots /\ top \in Nat /\ topbuf = top + 1 /\ phase = "attached"
  BY DEF TabInv, TabTypeOK, GetBuf, Slots
<1>2. b \in Bufs /\ b \notin out
  BY <1>1 DEF TabInv, TabTypeOK, StackOK, Stack, Slots
<1>3. IsFiniteSet(out') /\ Cardinality(out') = Cardinality(out) + 1
  BY <1>2, FS_AddElement DEF TabInv, GetBuf
<1>4. TabTypeOK'
  BY <1>1, <1>2 DEF TabInv, TabTypeOK, GetBuf
<1>5. Cardinality(out) \in Nat
  BY FS_CardinalityType DEF TabInv
<1>6. topbuf' + Cardinality(out') = NumBufs
  BY <1>1, <1>3, <1>5 DEF TabInv, TabTypeOK, StackOK, Stack, GetBuf
<1>7. \A i \in Slots : buftab'[i] = IF i = top THEN NoBuf ELSE buftab[i]
  BY <1>1 DEF TabInv, TabTypeOK, GetBuf
<1>8. NoDmaLeak'
  <2>1. dma' = dma /\ out' = out \cup {b}
    BY DEF GetBuf
  <2>2. {buftab'[i] : i \in Slots} \ {NoBuf} = ({buftab[i] : i \in Slots} \ {NoBuf}) \ {b}
    BY <1>1, <1>2, <1>7 DEF TabInv
  <2>3. b \in {buftab[i] : i \in Slots} \ {NoBuf}
    BY <1>1, <1>2
  <2>4. QED
    BY <1>2, <2>1, <2>2, <2>3 DEF TabInv, NoDmaLeak
<1>9. \A i \in Slots : topbuf' <= i <=> buftab'[i] = NoBuf
  BY <1>1, <1>7 DEF TabInv, TabTypeOK, StackOK, Stack, Slots, GetBuf
<1>10. \A i, j \in Slots : buftab'[i] = buftab'[j] => i = j \/ buftab'[i] = NoBuf
  BY <1>7 DEF TabInv
<1>11. \A i \in Slots : buftab'[i] \notin out'
  BY <1>1, <1>2, <1>7 DEF TabInv, TabTypeOK, StackOK, Stack, GetBuf
<1>12. phase' = "attached"
  BY <1>1 DEF GetBuf
<1>13. QED
  BY <1>2, <1>3, <1>4, <1>6, <1>8, <1>9, <1>10, <1>11, <1>12
     DEF TabInv, StackOK, Stack

\* afe_freebuf pushes a buffer its caller held: the table has room for it.
LEMMA FreeBufKeeps ==
    ASSUME TabInv, NEW b \in out, FreeBuf(b)
    PROVE  /\ TabInv'
           /\ topbuf \in Slots
<1>1. phase = "attached" /\ b \in Bufs /\ Cardinality(out) \in Nat
  BY FS_CardinalityType DEF TabInv, TabTypeOK, FreeBuf
<1>2. IsFiniteSet(out') /\ Cardinality(out') = Cardinality(out) - 1
  BY FS_RemoveElement DEF TabInv, FreeBuf
<1>3. Cardinality(out') \in Nat
  BY <1>2, FS_CardinalityType
<1>4. topbuf + Cardinality(out) = NumBufs
  BY <1>1 DEF TabInv, StackOK, Stack
<1>5. topbuf \in Slots /\ topbuf' = topbuf + 1
  BY <1>1, <1>2, <1>3, <1>4 DEF TabInv, TabTypeOK, Slots, FreeBuf
<1>6. \A i \in Slots : buftab'[i] = IF i = topbuf THEN b ELSE buftab[i]
  BY <1>5 DEF TabInv, TabTypeOK, FreeBuf
<1>7. TabTypeOK'
  BY <1>1, <1>5 DEF TabInv, TabTypeOK, FreeBuf, Slots
<1>8. topbuf' + Cardinality(out') = NumBufs
  BY <1>1, <1>2, <1>4, <1>5 DEF TabInv, TabTypeOK
<1>9. buftab[topbuf] = NoBuf /\ \A i \in Slots : buftab[i] # b
  BY <1>1, <1>5 DEF TabInv, TabTypeOK, StackOK, Stack, Slots
<1>10. NoDmaLeak'
  <2>1. dma' = dma /\ out' = out \ {b}
    BY DEF FreeBuf
  <2>2. {buftab'[i] : i \in Slots} \ {NoBuf} = ({buftab[i] : i \in Slots} \ {NoBuf}) \cup {b}
    BY <1>1, <1>5, <1>6, <1>9
  <2>3. QED
    BY <2>1, <2>2, <1>9 DEF TabInv, NoDmaLeak
<1>11. \A i \in Slots : topbuf' <= i <=> buftab'[i] = NoBuf
  BY <1>1, <1>5, <1>6 DEF TabInv, TabTypeOK, StackOK, Stack, Slots
<1>12. \A i, j \in Slots : buftab'[i] = buftab'[j] => i = j \/ buftab'[i] = NoBuf
  BY <1>6, <1>9 DEF TabInv
<1>13. \A i \in Slots : buftab'[i] \notin out'
  BY <1>1, <1>6 DEF TabInv, StackOK, Stack, FreeBuf
<1>14. phase' = "attached"
  BY DEF FreeBuf
<1>15. QED
  BY <1>2, <1>5, <1>7, <1>8, <1>10, <1>11, <1>12, <1>13, <1>14
     DEF TabInv, StackOK, Stack

\* afe_freerings frees everything when no caller holds a buffer.
LEMMA FreeRingsKeeps ==
    ASSUME TabInv, out = {}, FreeRings, UNCHANGED out
    PROVE  TabInv'
<1>1. dma' = {}
  BY DEF TabInv, NoDmaLeak, FreeRings
<1>2. Zeroed' /\ phase' = "detached" /\ out' = {}
  BY DEF FreeRings, Zeroed
<1>3. TabTypeOK'
  BY <1>1, <1>2 DEF Zeroed, TabTypeOK
<1>4. NoDmaLeak'
  BY <1>1, <1>2 DEF Zeroed, NoDmaLeak
<1>5. QED
  BY <1>1, <1>2, <1>3, <1>4, FS_EmptySet DEF Zeroed, TabInv, StackOK

\* One turn of the loop of afe_allocrings puts a new buffer in the table.
LEMMA AllocBufKeeps ==
    ASSUME TabInv, NEW i \in Slots, AllocBuf(i)
    PROVE  TabInv'
<1>1. PICK b \in Bufs \ dma : dma' = dma \cup {b} /\ buftab' = [buftab EXCEPT ![i] = b]
  BY DEF AllocBuf
<1>2. /\ phase = "allocating" /\ phase' = phase /\ topbuf' = topbuf /\ out' = out
      /\ buftab[i] = NoBuf
  BY DEF AllocBuf
<1>3. \A j \in Slots : buftab'[j] = IF j = i THEN b ELSE buftab[j]
  BY <1>1 DEF TabInv, TabTypeOK
<1>4. \A j \in Slots : buftab[j] # b
  BY <1>1 DEF TabInv, NoDmaLeak
<1>5. {buftab'[j] : j \in Slots} \ {NoBuf} = ({buftab[j] : j \in Slots} \ {NoBuf}) \cup {b}
  BY <1>1, <1>2, <1>3
<1>6. NoDmaLeak'
  BY <1>1, <1>2, <1>5 DEF TabInv, NoDmaLeak
<1>7. TabTypeOK'
  BY <1>1, <1>2 DEF TabInv, TabTypeOK
<1>8. \A j, k \in Slots : buftab'[j] = buftab'[k] => j = k \/ buftab'[j] = NoBuf
  BY <1>3, <1>4 DEF TabInv
<1>9. QED
  BY <1>2, <1>6, <1>7, <1>8 DEF TabInv, StackOK

\* The table starts out right.
LEMMA TabInitInv == TabInit => TabInv
BY FS_EmptySet DEF TabInit, TabInv, TabTypeOK, Zeroed, NoDmaLeak, StackOK

\* Every step keeps the invariant of the table.
LEMMA TabNextKeeps == TabInv /\ [TabNext]_tabVars => TabInv'
<1> SUFFICES ASSUME TabInv, [TabNext]_tabVars PROVE TabInv'
  OBVIOUS
<1>1. CASE Allocate
  BY <1>1 DEF Allocate, TabInv, TabTypeOK, NoDmaLeak, StackOK
<1>2. CASE AllocDone
  <2>1. out = {} /\ Cardinality(out) = 0
    BY <1>2, FS_EmptySet DEF AllocDone, TabInv
  <2>2. Stack'
    BY <1>2, <2>1 DEF AllocDone, TabInv, TabTypeOK, Stack, Slots
  <2>3. QED
    BY <1>2, <2>2 DEF AllocDone, TabInv, TabTypeOK, NoDmaLeak, StackOK
<1>3. CASE AllocFails
  BY <1>3, FreeRingsKeeps DEF AllocFails, TabInv
<1>4. CASE Detach
  BY <1>4, FreeRingsKeeps DEF Detach
<1>5. ASSUME NEW i \in Slots, AllocBuf(i) PROVE TabInv'
  BY <1>5, AllocBufKeeps
<1>6. ASSUME NEW pri \in 0 .. 1, GetBuf(pri) PROVE TabInv'
  BY <1>6, GetBufKeeps
<1>7. ASSUME NEW b \in out, FreeBuf(b) PROVE TabInv'
  BY <1>7, FreeBufKeeps
<1>8. CASE UNCHANGED tabVars
  BY <1>8 DEF tabVars, TabInv, TabTypeOK, Zeroed, NoDmaLeak, StackOK, Stack
<1>9. QED
  BY <1>1, <1>2, <1>3, <1>4, <1>5, <1>6, <1>7, <1>8 DEF TabNext

\* The invariant of the table, from attach to detach.
THEOREM TabInvariant == TabSpec => []TabInv
<1>1. QED  BY TabInitInv, TabNextKeeps, PTL DEF TabSpec

\* Every variable of the buffer table keeps its type.
THEOREM TabTypeCorrect == TabSpec => []TabTypeOK
<1>1. TabInv => TabTypeOK  BY DEF TabInv
<1>2. QED  BY <1>1, TabInvariant, PTL

\* afe_buftab and afe_topbuf are a stack in every state between attach and
\* detach; afe_freebuf never writes past the end of the table.
THEOREM StackCorrect == TabSpec => []StackOK
<1>1. TabInv => StackOK  BY DEF TabInv
<1>2. QED  BY <1>1, TabInvariant, PTL

\* The DMA memory allocated is that of the buffers in the table and in the
\* hands of the driver, whatever fails in afe_allocrings.
THEOREM NothingLeaks == TabSpec => []NoDmaLeak
<1>1. TabInv => NoDmaLeak  BY DEF TabInv
<1>2. QED  BY <1>1, TabInvariant, PTL

\* The pool's buffers, as the refinement mapping has them.
poolFree == {buftab[i] : i \in 0 .. topbuf - 1}

\* The stack implements the pool: AfeMac may keep the buffers in a set.
THEOREM TabImplementsPool == TabSpec => IsPool
<1>1. TabInit => Pool!PoolInit
  BY DEF TabInit, Zeroed, Pool!PoolInit
<1>2. TabInv /\ TabInv' /\ [TabNext]_tabVars => [Pool!PoolNext]_(Pool!poolVars)
  <2> SUFFICES ASSUME TabInv, TabInv', [TabNext]_tabVars
               PROVE  [Pool!PoolNext]_(Pool!poolVars)
    OBVIOUS
  <2>a. 0 .. topbuf - 1 \subseteq Slots
    BY DEF TabInv, TabTypeOK, Slots
  <2>b. topbuf = 0 => poolFree = {}
    BY DEF poolFree
  <2>1. CASE Allocate
    BY <2>1 DEF Allocate, Pool!poolVars
  <2>2. CASE AllocDone
    <3>1. poolFree = {} /\ out = {} /\ out' = out
      BY <2>2, <2>b DEF AllocDone, TabInv
    <3>2. poolFree' \in SUBSET Bufs
      BY <2>2 DEF AllocDone, TabInv, TabTypeOK, Slots, poolFree
    <3>3. QED
      BY <3>1, <3>2 DEF Pool!PoolNext, Pool!Open, poolFree
  <2>3. CASE AllocFails \/ Detach
    <3>1. out = {} /\ out' = out /\ poolFree' = {}
      BY <2>3 DEF AllocFails, Detach, FreeRings, TabInv, poolFree
    <3>2. QED
      BY <3>1 DEF Pool!PoolNext, Pool!Close, poolFree
  <2>5. ASSUME NEW i \in Slots, AllocBuf(i)
        PROVE  [Pool!PoolNext]_(Pool!poolVars)
    <3>1. topbuf = 0 /\ topbuf' = 0 /\ out' = out
      BY <2>5 DEF AllocBuf, TabInv
    <3>2. poolFree = {} /\ poolFree' = {}
      BY <3>1 DEF poolFree
    <3>3. QED
      BY <3>1, <3>2 DEF Pool!poolVars, poolFree
  <2>6. ASSUME NEW pri \in 0 .. 1, GetBuf(pri)
        PROVE  [Pool!PoolNext]_(Pool!poolVars)
    <3> DEFINE b == buftab[topbuf - 1]
    <3>1. b \in Bufs \ out /\ out' = out \cup {b}
      BY <2>6, GetBufKeeps DEF GetBuf
    <3>2. topbuf - 1 \in 0 .. topbuf - 1 /\ topbuf' = topbuf - 1
      BY <2>6 DEF GetBuf, TabInv, TabTypeOK
    <3>3. b \in poolFree
      BY <3>2 DEF poolFree
    <3>4. poolFree' = poolFree \ {b}
      <4>1. \A i \in 0 .. topbuf - 2 : buftab'[i] = buftab[i] /\ buftab[i] # b
        BY <2>6, <2>a, <3>1, <3>2 DEF GetBuf, TabInv, TabTypeOK
      <4>2. QED
        BY <4>1, <3>2 DEF poolFree, TabInv, TabTypeOK
    <3>5. QED
      BY <3>1, <3>3, <3>4 DEF Pool!PoolNext, Pool!Take, poolFree
  <2>7. ASSUME NEW b \in out, FreeBuf(b)
        PROVE  [Pool!PoolNext]_(Pool!poolVars)
    <3>1. b \in Bufs /\ out' = out \ {b} /\ topbuf' = topbuf + 1 /\ topbuf \in Slots
      BY <2>7, FreeBufKeeps DEF FreeBuf, TabInv, TabTypeOK
    <3>2. poolFree' = poolFree \cup {b}
      <4>1. /\ \A i \in 0 .. topbuf - 1 : buftab'[i] = buftab[i]
            /\ buftab'[topbuf] = b
        BY <2>7, <2>a, <3>1 DEF FreeBuf, TabInv, TabTypeOK
      <4>2. QED
        BY <4>1, <3>1 DEF poolFree, Slots
    <3>3. QED
      BY <3>1, <3>2 DEF Pool!PoolNext, Pool!Give, poolFree
  <2>8. CASE UNCHANGED tabVars
    BY <2>8 DEF tabVars, Pool!poolVars
  <2>9. QED
    BY <2>1, <2>2, <2>3, <2>5, <2>6, <2>7, <2>8 DEF TabNext
<1>3. QED  BY <1>1, <1>2, TabInvariant, PTL DEF TabSpec, IsPool, Pool!PoolSpec
=============================================================================
