--------------------------- MODULE MxfeTx_proofs ---------------------------
(***************************************************************************)
(* Theorems about the transmit side of the mxfe driver.                    *)
(***************************************************************************)
EXTENDS MxfeTx, SeqFuns, WellFoundedInduction, TLAPS

-----------------------------------------------------------------------------
(***************************************************************************)
(* Positions in the ring, and what mxfe_reclaim finds.                     *)
(***************************************************************************)

\* A position reduced modulo the ring is in the ring.
LEMMA SlotInRing ==
    ASSUME NEW i \in Nat, NEW n \in Nat PROVE Slot(i, n) \in TxSlots
  BY MxfeAssumption DEF Slot, TxSlots

\* A property that some number has, a least number has.
LEMMA Least ==
    ASSUME NEW S \in SUBSET Nat, S # {} PROVE \E m \in S : \A n \in S : m <= n
<1>1. IsWellFoundedOn(OpToRel(<, Nat), Nat)
  BY NatLessThanWellFounded
<1>2. PICK m \in S : \A n \in S : ~ (<<n, m>> \in OpToRel(<, Nat))
  BY <1>1, WFMin
<1>3. \A n \in S : ~ (n < m)
  BY <1>2 DEF OpToRel
<1> QED BY <1>3

\* Every variable has its type and no more descriptors are free than there are.
TypeInv == MxfeTypeOK /\ txavail <= TxRing

\* No more descriptors are in use than there are.
LEMMA UsedRange == TypeInv => Used \in 0 .. TxRing
  BY MxfeAssumption DEF TypeInv, MxfeTypeOK, Used

\* Every slot of the ring is a slot of mxfe_txbufs.
LEMMA SlotsOfRing ==
    ASSUME TypeInv
    PROVE  /\ TxSlots \subseteq 0 .. TxRing /\ 0 \in TxSlots
           /\ \A n \in Nat : Slot(txreclaim, n) \in TxSlots /\ Slot(pos, n) \in TxSlots
           /\ \A n \in 0 .. TxRing : Reclaimed(n) \in SUBSET TxSlots
<1>1. TxSlots \subseteq 0 .. TxRing /\ 0 \in TxSlots /\ TxSlots \subseteq Nat
  BY MxfeAssumption DEF TxSlots
<1>2. \A n \in Nat : Slot(txreclaim, n) \in TxSlots /\ Slot(pos, n) \in TxSlots
  BY <1>1, SlotInRing DEF TypeInv, MxfeTypeOK
<1>3. \A n \in 0 .. TxRing : Reclaimed(n) \in SUBSET TxSlots
  BY <1>2, MxfeAssumption DEF Reclaimed
<1> QED BY <1>1, <1>2, <1>3

\* There is a first descriptor that the chip still owns, or it owns none.
LEMMA CompletedIs ==
    ASSUME TypeInv
    PROVE  /\ Completed \in 0 .. Used
           /\ \A k \in 0 .. Completed - 1 : Slot(txreclaim, k) \notin own
           /\ Completed = Used \/ Slot(txreclaim, Completed) \in own
<1> DEFINE Stop == {n \in 0 .. Used : n = Used \/ Slot(txreclaim, n) \in own}
<1>1. Used \in Nat
  BY UsedRange, MxfeAssumption
<1>2. Stop \in SUBSET Nat /\ Used \in Stop
  BY <1>1
<1>3. PICK m \in Stop : \A n \in Stop : m <= n
  BY <1>2, Least
<1>4. \A k \in 0 .. m - 1 : k \in 0 .. Used /\ k \notin Stop
  BY <1>1, <1>3
<1>5. \E n \in 0 .. Used : /\ \A k \in 0 .. n - 1 : Slot(txreclaim, k) \notin own
                           /\ n = Used \/ Slot(txreclaim, n) \in own
  BY <1>1, <1>3, <1>4
<1> QED BY <1>5 DEF Completed

\* mxfe_reclaim takes no more than what is in use.
LEMMA ReclaimableRange ==
    ASSUME TypeInv
    PROVE  /\ Reclaimable \in 0 .. Used /\ Reclaimable \in Nat /\ Reclaimable \in 0 .. TxRing
           /\ Gained \in 0 .. Used /\ Gained \in Nat /\ Gained \in 0 .. TxRing
<1>1. Reclaimable \in 0 .. Used /\ Gained \in 0 .. Used /\ Used \in 0 .. TxRing
  BY CompletedIs, UsedRange, MxfeAssumption DEF Reclaimable, Gained
<1> QED BY <1>1, MxfeAssumption

-----------------------------------------------------------------------------
(***************************************************************************)
(* Types.                                                                  *)
(***************************************************************************)

\* Types after mxfe_attach.
LEMMA TypeInit == MxfeInit => TypeInv
<1> SUFFICES ASSUME MxfeInit PROVE TypeInv
  OBVIOUS
<1>1. /\ txbufs \in [0 .. TxRing -> Bufs \cup {NoBuf}] /\ own \in SUBSET (0 .. TxRing)
      /\ txsend \in 0 .. TxRing /\ txreclaim \in TxSlots /\ txavail \in Nat
      /\ txavail <= TxRing /\ pos \in TxSlots
  BY MxfeAssumption DEF MxfeInit, TxSlots
<1>2. mccount \in [Hashes -> 0 .. MaxCount]
  BY MxfeAssumption DEF MxfeInit
<1>3. /\ spc \in [Senders -> {"idle", "enter", "nobuf", "setier", "copy", "wait", "ready"}]
      /\ sbuf \in [Senders -> Bufs \cup {NoBuf}]
      /\ sier \in [Senders -> SUBSET IerBits]
  BY DEF MxfeInit
<1> QED BY <1>1, <1>2, <1>3 DEF MxfeInit, TypeInv, MxfeTypeOK

\* Types across the ring's part of mxfe_startmac.
LEMMA EmptyRingTypes ==
    TypeInv /\ EmptyRing =>
        /\ free' \in SUBSET Bufs
        /\ txbufs' \in [0 .. TxRing -> Bufs \cup {NoBuf}]
        /\ own' \in SUBSET (0 .. TxRing)
        /\ txsend' \in 0 .. TxRing /\ txreclaim' \in TxSlots
        /\ txavail' \in Nat /\ txavail' <= TxRing
        /\ pos' \in TxSlots /\ tdb' \in {"ring", "setup"}
  BY MxfeAssumption DEF TypeInv, MxfeTypeOK, EmptyRing, TxSlots

\* Types across mxfe_startmac.
LEMMA StartMacTypes ==
    TypeInv /\ StartMac =>
        /\ nar' \in SUBSET NarBits /\ ier' \in SUBSET IerBits /\ poll' \in BOOLEAN
        /\ undone' \in BOOLEAN
  BY DEF StartMac, NarBits, IerBits

\* mxfe_setrxfilt keeps the types, of every variable it touches.
LEMMA SetRxFiltTypes ==
    TypeInv /\ SetRxFilt =>
        /\ txbufs' \in [0 .. TxRing -> Bufs \cup {NoBuf}]
        /\ own' \in SUBSET (0 .. TxRing)
        /\ txsend' \in 0 .. TxRing /\ txreclaim' \in TxSlots
        /\ nar' \in SUBSET NarBits /\ ier' \in SUBSET IerBits /\ poll' \in BOOLEAN
        /\ fpc' \in {"idle", "stopped", "loading"}
        /\ fnar' \in SUBSET NarBits /\ fier' \in SUBSET IerBits
<1> SUFFICES ASSUME TypeInv, SetRxFilt, "suspended" \notin flags
             PROVE  /\ txbufs' \in [0 .. TxRing -> Bufs \cup {NoBuf}]
                    /\ own' \in SUBSET (0 .. TxRing)
                    /\ txsend' \in 0 .. TxRing /\ txreclaim' \in TxSlots
                    /\ nar' \in SUBSET NarBits /\ ier' \in SUBSET IerBits
                    /\ poll' \in BOOLEAN
                    /\ fpc' \in {"idle", "stopped", "loading"}
                    /\ fnar' \in SUBSET NarBits /\ fier' \in SUBSET IerBits
  BY DEF SetRxFilt, TypeInv, MxfeTypeOK
<1>1. \A i \in 0 .. TxRing : i < Used => Slot(txreclaim, i) \in 0 .. TxRing
  BY SlotsOfRing
<1>2. /\ txbufs' \in [0 .. TxRing -> Bufs \cup {NoBuf}]
  BY <1>1 DEF SetRxFilt, TxReorder, TypeInv, MxfeTypeOK
<1>3. own' \in SUBSET (0 .. TxRing) /\ txsend' \in 0 .. TxRing /\ txreclaim' \in TxSlots
  <2>1. Used \in 0 .. TxRing /\ 0 .. Used - 1 \subseteq 0 .. TxRing
    BY UsedRange, MxfeAssumption
  <2> QED BY <2>1, SlotsOfRing DEF SetRxFilt, TxReorder, TypeInv, MxfeTypeOK
<1> QED BY <1>2, <1>3 DEF SetRxFilt, TypeInv, MxfeTypeOK

\* Types across the steps of mxfe_send.
LEMMA SendTypes ==
    ASSUME TypeInv, NEW s \in Senders,
           \/ SendEnter(s) \/ SendGetBuf(s) \/ SendReadIer(s) \/ SendSetIer(s)
           \/ SendQueued(s) \/ SendRefused(s) \/ SendFreeBuf(s),
           asked' \in SUBSET Senders
    PROVE  TypeInv'
<1> USE DEF TypeInv, MxfeTypeOK, ringVars, chipVars, intrVars, filtVars
<1>1. CASE SendEnter(s)
  BY <1>1 DEF SendEnter
<1>2. CASE SendGetBuf(s)
  BY <1>2 DEF SendGetBuf
<1>3. CASE SendReadIer(s)
  BY <1>3 DEF SendReadIer
<1>4. CASE SendSetIer(s)
  BY <1>4 DEF SendSetIer, IerBits
<1>5. CASE SendQueued(s)
  <2>1. Gained \in 0 .. Used /\ Used \in 0 .. TxRing
    BY ReclaimableRange, UsedRange
  <2>2. txavail' \in Nat /\ txavail' <= TxRing
    BY <1>5, <2>1, MxfeAssumption DEF SendQueued, RoomAfter, Used
  <2>3. Slot(txreclaim, Gained) \in TxSlots /\ (txsend + 1) % TxRing \in 0 .. TxRing
    <3>1. Slot(txreclaim, Gained) \in TxSlots
      BY ReclaimableRange, SlotsOfRing
    <3>2. (txsend + 1) % TxRing \in 0 .. TxRing
      BY MxfeAssumption
    <3> QED BY <3>1, <3>2
  <2>4. ier' \in SUBSET IerBits
    BY <1>5 DEF SendQueued, IerReclaimed
  <2>5. free' \in SUBSET Bufs
    <3>1. \A i \in Reclaimed(Gained) : i \in 0 .. TxRing
      BY ReclaimableRange, SlotsOfRing
    <3> QED BY <1>5, <3>1 DEF SendQueued
  <2>6. txbufs' \in [0 .. TxRing -> Bufs \cup {NoBuf}]
    BY <1>5 DEF SendQueued
  <2> QED BY <1>5, <2>2, <2>3, <2>4, <2>5, <2>6 DEF SendQueued
<1>6. CASE SendRefused(s)
  BY <1>6 DEF SendRefused, IerBits
<1>7. CASE SendFreeBuf(s)
  BY <1>7 DEF SendFreeBuf
<1> QED BY <1>1, <1>2, <1>3, <1>4, <1>5, <1>6, <1>7

\* Types across start, stop, reset, suspend and resume.
LEMMA CtlTypes ==
    ASSUME TypeInv, CtlNext, asked' \in SUBSET Senders PROVE TypeInv'
<1> USE DEF TypeInv, MxfeTypeOK, ringVars, chipVars, intrVars, sendVars, filtVars
<1>1. CASE CtlStart
  BY <1>1, EmptyRingTypes, StartMacTypes DEF CtlStart, StartMac
<1>2. CASE CtlStop
  BY <1>2 DEF CtlStop, StopMac
<1>3. CASE CtlReset
  BY <1>3 DEF CtlReset, StopMac
<1>4. CASE CtlSuspend
  BY <1>4 DEF CtlSuspend, StopMac
<1>5. CASE CtlResume
  BY <1>5, EmptyRingTypes, StartMacTypes DEF CtlResume, StartMac, NoFilter
<1> QED BY <1>1, <1>2, <1>3, <1>4, <1>5 DEF CtlNext

\* Types across the change of a filter.
LEMMA FilterTypes ==
    ASSUME TypeInv, FiltNext \/ SetNext, asked' \in SUBSET Senders PROVE TypeInv'
<1> USE DEF TypeInv, MxfeTypeOK, ringVars, chipVars, intrVars, sendVars, filtVars
<1>1. CASE FiltSend
  BY <1>1 DEF FiltSend, NarBits
<1>2. CASE FiltEnd
  BY <1>2, MxfeAssumption DEF FiltEnd, TxSlots
<1>3. CASE SetPromiscOrAddr
  BY <1>3, SetRxFiltTypes DEF SetPromiscOrAddr
<1>4. ASSUME NEW h \in Hashes, SetMulticast(h) PROVE TypeInv'
  <2>1. mccount' \in [Hashes -> 0 .. MaxCount] /\ setupbuf' \in SUBSET Hashes
    BY <1>4, MxfeAssumption DEF SetMulticast, McAdd, McDelete
  <2>2. UNCHANGED <<flags, free, txavail, sr, pos, tdb, setupown, loaded, intrVars, sendVars>>
    BY <1>4 DEF SetMulticast
  <2>3. CASE SetRxFilt
    BY <2>1, <2>2, <2>3, SetRxFiltTypes
  <2>4. CASE ~ SetRxFilt
    <3>1. UNCHANGED <<ringVars, nar, ier, poll, fpc, fnar, fier>>
      BY <1>4, <2>4 DEF SetMulticast
    <3> QED BY <2>1, <2>2, <3>1
  <2> QED BY <2>3, <2>4
<1> QED BY <1>1, <1>2, <1>3, <1>4 DEF FiltNext, SetNext

\* Types across the steps of mxfe_intr.
LEMMA IntrTypes ==
    ASSUME TypeInv, IntrRead \/ IntrGo, asked' \in SUBSET Senders PROVE TypeInv'
<1> USE DEF TypeInv, MxfeTypeOK, ringVars, chipVars, intrVars, sendVars, filtVars
<1>0. \A p : IntrGoto(p) => ipc' = p /\ istat' \in SUBSET SrBits
  BY DEF IntrGoto
<1>1. CASE IntrRead
  BY <1>1 DEF IntrRead
<1>2. CASE IntrAck
  BY <1>0, <1>2 DEF IntrAck
<1>3. CASE IntrWork
  BY <1>0, <1>3 DEF IntrWork, AfterUnlock, AfterTx
<1>4. CASE IntrRestart
  BY <1>0, <1>4 DEF IntrRestart, AfterUnlock, AfterTx, NarBits
<1>5. CASE IntrReclaim
  <2>1. Reclaimable \in 0 .. Used /\ Used \in 0 .. TxRing /\ Reclaimable \in Nat
    BY ReclaimableRange, UsedRange
  <2>2. txavail' \in Nat /\ txavail' <= TxRing
    BY <1>5, <2>1, MxfeAssumption DEF IntrReclaim, Used
  <2>3. Slot(txreclaim, Reclaimable) \in TxSlots
    BY <2>1, SlotsOfRing
  <2>4. ier' \in SUBSET IerBits
    BY <1>5 DEF IntrReclaim, IerReclaimed
  <2>5. free' \in SUBSET Bufs
    <3>1. \A i \in Reclaimed(Reclaimable) : i \in 0 .. TxRing
      BY ReclaimableRange, SlotsOfRing
    <3> QED BY <1>5, <3>1 DEF IntrReclaim
  <2>6. txbufs' \in [0 .. TxRing -> Bufs \cup {NoBuf}]
    BY <1>5 DEF IntrReclaim
  <2> QED BY <1>0, <1>5, <2>2, <2>3, <2>4, <2>5, <2>6 DEF IntrReclaim
<1>6. CASE IntrSched
  BY <1>0, <1>6 DEF IntrSched, Wake, AfterTx
<1>7. CASE IntrReset
  BY <1>0, <1>7, EmptyRingTypes, StartMacTypes DEF IntrReset, StartMac, NoFilter
<1> QED BY <1>1, <1>2, <1>3, <1>4, <1>5, <1>6, <1>7 DEF IntrGo

\* Types across the chip's steps.
LEMMA ChipTypes ==
    ASSUME TypeInv, ChipNext, asked' \in SUBSET Senders
    PROVE  TypeInv'
<1> USE DEF TypeInv, MxfeTypeOK, ringVars, chipVars, intrVars, sendVars, filtVars
<1>1. CASE ChipTx
  BY <1>1, SlotsOfRing DEF ChipTx
<1>2. CASE ChipSetup
  BY <1>2 DEF ChipSetup
<1>3. CASE ChipIdle
  BY <1>3 DEF ChipIdle, SrBits
<1>4. ASSUME NEW bit \in ChipBits, ChipRaise(bit) PROVE TypeInv'
  BY <1>4, MxfeAssumption DEF ChipRaise, SrBits
<1> QED BY <1>1, <1>2, <1>3, <1>4 DEF ChipNext

\* Types, and no more descriptors free than there are.
THEOREM TypeInvariant == MxfeSpec => []TypeInv
<1>1. TypeInv /\ [MxfeNext]_mxfeVars => TypeInv'
  <2> SUFFICES ASSUME TypeInv, [MxfeNext]_mxfeVars PROVE TypeInv'
    OBVIOUS
  <2>1. CASE MxfeNext
    <3>1. asked' \in SUBSET Senders
      BY <2>1 DEF MxfeNext, Asked
    <3> QED BY <2>1, <3>1, SendTypes, CtlTypes, FilterTypes, IntrTypes, ChipTypes
            DEF MxfeNext, SendNext
  <2>2. CASE UNCHANGED mxfeVars
    BY <2>2 DEF mxfeVars, stepVars, ringVars, chipVars, intrVars, sendVars,
                filtVars, TypeInv, MxfeTypeOK
  <2> QED BY <2>1, <2>2
<1> QED BY <1>1, TypeInit, PTL DEF MxfeSpec

\* Every variable of the transmit side keeps its type.
THEOREM MxfeTypeCorrect == MxfeSpec => []MxfeTypeOK
<1>1. TypeInv => MxfeTypeOK
  BY DEF TypeInv
<1> QED BY <1>1, TypeInvariant, PTL
-----------------------------------------------------------------------------
(***************************************************************************)
(* The filter and the engines.                                             *)
(***************************************************************************)

\* The hash bits are those of the addresses, and they are in the chip unless
\* the setup frame is still to be made or to be taken: mxfe_setrxfilt has
\* been called for every change of them but those of a suspended device.
FilterInv ==
    /\ HashBits
    /\ "suspended" \notin flags /\ fpc # "stopped" /\ ~ setupown
           => loaded \in {setupbuf, NoFilter}

\* The transmitter of a running MAC is on, or to be turned on again by
\* mxfe_setrxfilt.
EngineInv ==
    flags = {"running"} /\ ~ undone
        => IF XmtFree THEN "tx" \in nar ELSE "tx" \in fnar

\* What the two invariants are about, but for the engines.
setVars == <<flags, mccount, setupbuf, fpc, setupown, loaded>>
engineVars == <<flags, undone, fpc, nar, fnar>>

\* The steps that touch neither the filter nor the engines.
Aside ==
    \/ SendNext \/ ChipTx \/ ChipIdle \/ \E bit \in ChipBits : ChipRaise(bit)
    \/ IntrRead \/ IntrAck \/ IntrWork \/ IntrReclaim \/ IntrSched

\* Sending, and most of the handler, touch neither the filter nor the engines.
LEMMA AsideTouchesNeither == Aside => UNCHANGED setVars /\ UNCHANGED engineVars
<1> USE DEF setVars, engineVars, chipVars, intrVars, filtVars
<1>1. SendNext => UNCHANGED setVars /\ UNCHANGED engineVars
  BY DEF SendNext, SendEnter, SendGetBuf, SendReadIer, SendSetIer, SendQueued,
         SendRefused, SendFreeBuf
<1>2. ChipTx \/ ChipIdle \/ (\E bit \in ChipBits : ChipRaise(bit))
          => UNCHANGED setVars /\ UNCHANGED engineVars
  BY DEF ChipTx, ChipIdle, ChipRaise
<1>3. IntrRead \/ IntrAck \/ IntrWork \/ IntrReclaim \/ IntrSched
          => UNCHANGED setVars /\ UNCHANGED engineVars
  BY DEF IntrRead, IntrAck, IntrWork, IntrReclaim, IntrSched
<1> QED BY <1>1, <1>2, <1>3 DEF Aside

\* The other steps, one by one.
LEMMA NextByCases ==
    ASSUME [MxfeNext]_mxfeVars
    PROVE  \/ Aside \/ CtlNext \/ FiltSend \/ FiltEnd \/ SetPromiscOrAddr
           \/ (\E h \in Hashes : SetMulticast(h)) \/ IntrRestart \/ IntrReset
           \/ ChipSetup \/ UNCHANGED mxfeVars
  BY DEF MxfeNext, Aside, FiltNext, SetNext, IntrGo, ChipNext

\* The filter: the hash bits are those of the counts, and the chip's filter is
\* the last one set, is on its way, or is none.
THEOREM FilterInvariant == MxfeSpec => []FilterInv
<1>1. MxfeInit => FilterInv
  <2> SUFFICES ASSUME MxfeInit PROVE FilterInv
    OBVIOUS
  <2>1. HashBits
    BY DEF MxfeInit, HashBits
  <2> QED BY <2>1 DEF MxfeInit, FilterInv
<1>2. TypeInv /\ FilterInv /\ [MxfeNext]_mxfeVars => FilterInv'
  <2> SUFFICES ASSUME TypeInv, FilterInv, [MxfeNext]_mxfeVars PROVE FilterInv'
    OBVIOUS
  <2>0. ASSUME UNCHANGED <<mccount, setupbuf>> PROVE HashBits'
    BY <2>0 DEF FilterInv, HashBits
  <2>1. ASSUME UNCHANGED setVars PROVE FilterInv'
    BY <2>0, <2>1 DEF FilterInv, setVars
  <2>2. CASE Aside
    BY <2>1, <2>2, AsideTouchesNeither
  <2>3. CASE CtlNext
    BY <2>0, <2>3 DEF CtlNext, CtlStart, CtlStop, CtlReset, CtlSuspend, CtlResume,
       FilterInv, filtVars, chipVars
  <2>4. CASE FiltSend
    BY <2>0, <2>4 DEF FiltSend, FilterInv
  <2>5. CASE FiltEnd
    BY <2>0, <2>5 DEF FiltEnd, FilterInv
  <2>6. CASE SetPromiscOrAddr
    BY <2>0, <2>6 DEF SetPromiscOrAddr, SetRxFilt, FilterInv, XmtFree
  <2>7. ASSUME NEW h \in Hashes, SetMulticast(h) PROVE FilterInv'
    <3>1. HashBits'
      <4>1. CASE McAdd(h)
        BY <4>1, MxfeAssumption DEF McAdd, FilterInv, HashBits, TypeInv, MxfeTypeOK
      <4>2. CASE McDelete(h)
        BY <4>2, MxfeAssumption DEF McDelete, FilterInv, HashBits, TypeInv, MxfeTypeOK
      <4> QED BY <2>7, <4>1, <4>2 DEF SetMulticast
    <3>2. CASE Changed
      BY <2>7, <3>1, <3>2 DEF SetMulticast, SetRxFilt, FilterInv
    <3>3. CASE ~ Changed
      BY <2>7, <3>1, <3>3 DEF SetMulticast, Changed, FilterInv
    <3> QED BY <3>2, <3>3
  <2>8. CASE IntrRestart
    BY <2>1, <2>8 DEF IntrRestart, setVars, filtVars
  <2>9. CASE IntrReset
    BY <2>0, <2>9 DEF IntrReset, FilterInv, filtVars
  <2>10. CASE ChipSetup
    BY <2>0, <2>10 DEF ChipSetup, FilterInv, filtVars
  <2>11. CASE UNCHANGED mxfeVars
    BY <2>1, <2>11 DEF mxfeVars, stepVars, setVars, filtVars, chipVars
  <2> QED BY NextByCases, <2>2, <2>3, <2>4, <2>5, <2>6, <2>7, <2>8, <2>9, <2>10, <2>11
<1> QED BY <1>1, <1>2, TypeInvariant, PTL DEF MxfeSpec

\* The filter in the chip is the last one set, or none since a reset, however
\* the calls of GLD, the setup frames, the interrupts and the restarts fall.
THEOREM FilterIsCurrent == MxfeSpec => []FilterCurrent
<1>1. FilterInv => FilterCurrent
  BY DEF FilterInv, FilterCurrent, XmtFree
<1> QED BY <1>1, FilterInvariant, PTL

\* Two addresses that fall in one bucket of the hash do not take its bit from
\* each other.
THEOREM HashBitsCorrect == MxfeSpec => []HashBits
<1>1. FilterInv => HashBits
  BY DEF FilterInv
<1> QED BY <1>1, FilterInvariant, PTL

\* The transmitter of a running MAC is on, or will be put on again.
THEOREM EngineInvariant == MxfeSpec => []EngineInv
<1>1. MxfeInit => EngineInv
  BY DEF MxfeInit, EngineInv
<1>2. TypeInv /\ EngineInv /\ [MxfeNext]_mxfeVars => EngineInv'
  <2> SUFFICES ASSUME TypeInv, EngineInv, [MxfeNext]_mxfeVars PROVE EngineInv'
    OBVIOUS
  <2> USE DEF EngineInv, XmtFree
  <2>1. ASSUME UNCHANGED engineVars PROVE EngineInv'
    BY <2>1 DEF engineVars
  <2>2. CASE Aside
    BY <2>1, <2>2, AsideTouchesNeither
  <2>3. CASE CtlNext
    <3>1. CASE CtlStart
      BY <3>1 DEF CtlStart, StartMac, filtVars
    <3>2. CASE CtlStop \/ CtlReset
      BY <3>2 DEF CtlStop, CtlReset
    <3>3. ASSUME "suspended" \in flags' PROVE EngineInv'
      BY <3>3
    <3> QED BY <2>3, <3>1, <3>2, <3>3 DEF CtlNext, CtlSuspend, CtlResume
  <2>4. CASE FiltSend
    BY <2>4 DEF FiltSend, intrVars
  <2>5. CASE FiltEnd
    BY <2>5 DEF FiltEnd, intrVars
  <2>6. CASE SetPromiscOrAddr
    BY <2>6 DEF SetPromiscOrAddr, SetRxFilt, intrVars
  <2>7. ASSUME NEW h \in Hashes, SetMulticast(h) PROVE EngineInv'
    BY <2>7 DEF SetMulticast, SetRxFilt, intrVars
  <2>8. CASE IntrRestart
    BY <2>8 DEF IntrRestart, filtVars, TypeInv, MxfeTypeOK
  <2>9. CASE IntrReset
    BY <2>9 DEF IntrReset, StartMac, filtVars
  <2>10. CASE ChipSetup
    BY <2>1, <2>10 DEF ChipSetup, engineVars, filtVars, intrVars
  <2>11. CASE UNCHANGED mxfeVars
    BY <2>1, <2>11 DEF mxfeVars, stepVars, engineVars, filtVars, intrVars
  <2> QED BY NextByCases, <2>2, <2>3, <2>4, <2>5, <2>6, <2>7, <2>8, <2>9, <2>10, <2>11
<1> QED BY <1>1, <1>2, TypeInvariant, PTL DEF MxfeSpec

\* No change of the filter, of any order of calls, leaves the transmitter of a
\* running MAC off, but for the write of the handler that TxStaysOn excepts.
THEOREM TransmitterStaysOn == MxfeSpec => []TxStaysOn
<1>1. EngineInv => TxStaysOn
  BY DEF EngineInv, TxStaysOn
<1> QED BY <1>1, EngineInvariant, PTL
-----------------------------------------------------------------------------
(***************************************************************************)
(* The ring as a circle: how far a slot is ahead of another, and the slots *)
(* in use as those less than Used ahead of mxfe_txreclaim.                 *)
(***************************************************************************)
Ahead(r, i) == IF i >= r THEN i - r ELSE i - r + TxRing

\* The slot n ahead of r, without the remainder.
LEMMA SlotIs ==
    ASSUME NEW r \in TxSlots, NEW n \in 0 .. TxRing
    PROVE  Slot(r, n) = IF r + n < TxRing THEN r + n ELSE r + n - TxRing
<1>1. \A a \in Nat : /\ a < TxRing => a % TxRing = a
                     /\ a >= TxRing /\ a < 2 * TxRing => a % TxRing = a - TxRing
  BY MxfeAssumption
<1>2. r + n \in Nat /\ r + n < 2 * TxRing
  BY MxfeAssumption DEF TxSlots
<1>3. CASE r + n < TxRing
  BY <1>1, <1>2, <1>3 DEF Slot
<1>4. CASE ~ (r + n < TxRing)
  <2>1. r + n >= TxRing
    BY <1>2, <1>4, MxfeAssumption
  <2>2. (r + n) % TxRing = (r + n) - TxRing
    BY <1>1, <1>2, <2>1
  <2> QED BY <1>4, <2>2, MxfeAssumption DEF Slot, TxSlots
<1> QED BY <1>3, <1>4

\* How far ahead of r a slot is, and back.
LEMMA AheadIs ==
    ASSUME NEW r \in TxSlots, NEW i \in TxSlots
    PROVE  /\ Ahead(r, i) \in 0 .. TxRing - 1
           /\ Slot(r, Ahead(r, i)) = i
           /\ \A n \in 0 .. TxRing - 1 : Slot(r, n) = i => n = Ahead(r, i)
           /\ \A j \in TxSlots : Ahead(r, j) = Ahead(r, i) => i = j
<1>1. Ahead(r, i) \in 0 .. TxRing - 1
  BY MxfeAssumption DEF Ahead, TxSlots
<1>2. \A n \in 0 .. TxRing - 1 :
         Slot(r, n) = IF r + n < TxRing THEN r + n ELSE r + n - TxRing
  BY SlotIs, MxfeAssumption
<1>3. Slot(r, Ahead(r, i)) = i
  BY <1>1, <1>2, MxfeAssumption DEF Ahead, TxSlots
<1>4. \A n \in 0 .. TxRing - 1 : Slot(r, n) = i => n = Ahead(r, i)
  BY <1>2, MxfeAssumption DEF Ahead, TxSlots
<1>5. \A j \in TxSlots : Ahead(r, j) = Ahead(r, i) => i = j
  BY MxfeAssumption DEF Ahead, TxSlots
<1> QED BY <1>1, <1>3, <1>4, <1>5

\* The n slots from slot r on are those less than n ahead of it.
Arc(r, n) == {Slot(r, k) : k \in 0 .. n - 1}

\* The arc of n slots from r holds those less than n ahead.
LEMMA ArcIs ==
    ASSUME NEW r \in TxSlots, NEW n \in 0 .. TxRing
    PROVE  /\ Arc(r, n) \subseteq TxSlots
           /\ \A i \in TxSlots : i \in Arc(r, n) <=> Ahead(r, i) < n
<1>1. \A k \in 0 .. n - 1 : k \in 0 .. TxRing - 1 /\ k \in Nat
  BY MxfeAssumption
<1>2. Arc(r, n) \subseteq TxSlots
  <2>1. r \in Nat
    BY MxfeAssumption DEF TxSlots
  <2> QED BY <1>1, <2>1, SlotInRing DEF Arc
<1>3. ASSUME NEW i \in TxSlots, i \in Arc(r, n) PROVE Ahead(r, i) < n
  <2>1. PICK k \in 0 .. n - 1 : Slot(r, k) = i
    BY <1>3 DEF Arc
  <2>2. k = Ahead(r, i)
    BY <1>1, <2>1, AheadIs
  <2> QED BY <2>2, MxfeAssumption
<1>4. ASSUME NEW i \in TxSlots, Ahead(r, i) < n PROVE i \in Arc(r, n)
  <2>1. Ahead(r, i) \in 0 .. n - 1 /\ Slot(r, Ahead(r, i)) = i
    BY <1>4, AheadIs, MxfeAssumption
  <2> QED BY <2>1 DEF Arc
<1> QED BY <1>2, <1>3, <1>4

\* Moving the start of the window by g.
LEMMA AheadMoves ==
    ASSUME NEW r \in TxSlots, NEW i \in TxSlots, NEW g \in 0 .. TxRing
    PROVE  /\ Slot(r, g) \in TxSlots
           /\ Ahead(Slot(r, g), i) = IF Ahead(r, i) >= g THEN Ahead(r, i) - g
                                     ELSE Ahead(r, i) - g + TxRing
<1>1. Slot(r, g) = IF r + g < TxRing THEN r + g ELSE r + g - TxRing
  BY SlotIs
<1>2. CASE r + g < TxRing
  BY <1>1, <1>2, MxfeAssumption DEF Ahead, TxSlots
<1>3. CASE ~ (r + g < TxRing)
  BY <1>1, <1>3, MxfeAssumption DEF Ahead, TxSlots
<1> QED BY <1>2, <1>3

\* Counting on from a slot of the ring.
LEMMA SlotMoves ==
    ASSUME NEW r \in TxSlots, NEW g \in 0 .. TxRing, NEW k \in 0 .. TxRing - g
    PROVE  Slot(Slot(r, g), k) = Slot(r, g + k)
<1>1. g + k \in 0 .. TxRing /\ k \in 0 .. TxRing
  BY MxfeAssumption
<1>2. Slot(r, g) = IF r + g < TxRing THEN r + g ELSE r + g - TxRing
  BY SlotIs
<1>3. Slot(r, g) \in TxSlots
  BY <1>2, MxfeAssumption DEF TxSlots
<1>4. Slot(r, g + k) = IF r + (g + k) < TxRing THEN r + (g + k) ELSE r + (g + k) - TxRing
  BY <1>1, SlotIs
<1>5. Slot(Slot(r, g), k) = IF Slot(r, g) + k < TxRing THEN Slot(r, g) + k
                            ELSE Slot(r, g) + k - TxRing
  BY <1>1, <1>3, SlotIs
<1> QED BY <1>2, <1>4, <1>5, MxfeAssumption DEF TxSlots

\* What is left of an arc without its first g slots.
LEMMA ArcMoves ==
    ASSUME NEW r \in TxSlots, NEW u \in 0 .. TxRing, NEW g \in 0 .. u, NEW i \in TxSlots
    PROVE  i \in Arc(Slot(r, g), u - g) <=> i \in Arc(r, u) /\ i \notin Arc(r, g)
<1>1. g \in 0 .. TxRing /\ u - g \in 0 .. TxRing
  BY MxfeAssumption
<1>2. Slot(r, g) \in TxSlots
  BY <1>1, AheadMoves
<1>3. i \in Arc(Slot(r, g), u - g) <=> Ahead(Slot(r, g), i) < u - g
  BY <1>1, <1>2, ArcIs
<1>4. i \in Arc(r, u) <=> Ahead(r, i) < u
  BY ArcIs
<1>5. i \in Arc(r, g) <=> Ahead(r, i) < g
  BY <1>1, ArcIs
<1>6. Ahead(Slot(r, g), i) = IF Ahead(r, i) >= g THEN Ahead(r, i) - g
                             ELSE Ahead(r, i) - g + TxRing
  BY <1>1, AheadMoves
<1>7. Ahead(r, i) \in 0 .. TxRing - 1
  BY AheadIs
<1> QED BY <1>3, <1>4, <1>5, <1>6, <1>7, MxfeAssumption

\* An arc grows by the slot behind it.
LEMMA ArcGrows ==
    ASSUME NEW r \in TxSlots, NEW n \in 0 .. TxRing - 1, NEW i \in TxSlots
    PROVE  i \in Arc(r, n + 1) <=> i \in Arc(r, n) \/ i = Slot(r, n)
<1>1. n \in 0 .. TxRing /\ n + 1 \in 0 .. TxRing
  BY MxfeAssumption
<1>2. i \in Arc(r, n + 1) <=> Ahead(r, i) < n + 1
  BY <1>1, ArcIs
<1>3. i \in Arc(r, n) <=> Ahead(r, i) < n
  BY <1>1, ArcIs
<1>4. i = Slot(r, n) <=> Ahead(r, i) = n
  BY AheadIs
<1>5. Ahead(r, i) \in 0 .. TxRing - 1
  BY AheadIs
<1> QED BY <1>2, <1>3, <1>4, <1>5, MxfeAssumption

-----------------------------------------------------------------------------
(***************************************************************************)
(* The window.  The frames are in the Used slots from mxfe_txreclaim on,   *)
(* the next goes behind them, and no descriptor outside the ring is given  *)
(* to the chip: this holds whatever the handler does to the engines, but   *)
(* not once the filter is changed while the ring is full.                  *)
(***************************************************************************)
Window ==
    /\ \A i \in 0 .. TxRing : txbufs[i] # NoBuf <=> i \in Arc(txreclaim, Used)
    /\ txsend = Slot(txreclaim, Used)
    /\ TxRing \notin own

\* mxfe_startmac leaves an empty window.
LEMMA EmptyRingWindow ==
    ASSUME TypeInv, Window, EmptyRing PROVE Window'
<1>1. Used' = 0 /\ txreclaim' = 0 /\ txsend' = 0
  BY MxfeAssumption DEF EmptyRing, Used
<1>2. Arc(0, 0) = {} /\ Slot(0, 0) = 0
  BY MxfeAssumption DEF Arc, Slot
<1>3. txbufs[TxRing] = NoBuf
  BY UsedRange, ArcIs, MxfeAssumption DEF Window, TypeInv, MxfeTypeOK, TxSlots
<1>4. \A i \in 0 .. TxRing : txbufs'[i] = NoBuf
  BY <1>3, MxfeAssumption DEF EmptyRing, TxSlots
<1> QED BY <1>1, <1>2, <1>4 DEF Window, EmptyRing

\* mxfe_txreorder puts the window at the front of the ring.
LEMMA ReorderWindow ==
    ASSUME TypeInv, Window, TxReorder, txavail' = txavail, Used < TxRing
    PROVE  Window'
<1>1. Used' = Used /\ Used \in 0 .. TxRing /\ txreclaim' = 0 /\ txsend' = Used
  BY UsedRange DEF TxReorder, Used
<1>2. Slot(0, Used) = Used
  BY <1>1, SlotIs, MxfeAssumption DEF TxSlots
<1>3. ASSUME NEW i \in 0 .. TxRing PROVE i \in Arc(0, Used) <=> i < Used
  BY <1>1, ArcIs, MxfeAssumption DEF TxSlots, Ahead
<1>4. ASSUME NEW i \in 0 .. TxRing PROVE txbufs'[i] # NoBuf <=> i < Used
  <2>1. CASE i < Used
    <3>1. Slot(txreclaim, i) \in Arc(txreclaim, Used)
      BY <2>1, UsedRange, MxfeAssumption DEF Arc
    <3>2. Slot(txreclaim, i) \in 0 .. TxRing
      BY SlotsOfRing, MxfeAssumption
    <3> QED BY <2>1, <3>1, <3>2 DEF TxReorder, Window
  <2>2. CASE ~ (i < Used)
    BY <2>2 DEF TxReorder, Window, Reclaimed, Arc
  <2> QED BY <2>1, <2>2
<1>5. TxRing \notin own'
  BY <1>1, MxfeAssumption DEF TxReorder, Window
<1> QED BY <1>1, <1>2, <1>3, <1>4, <1>5 DEF Window

\* mxfe_reclaim takes g frames from the front.
LEMMA ReclaimWindow ==
    ASSUME TypeInv, Window, NEW g \in 0 .. Used,
           txbufs' = [i \in 0 .. TxRing |-> IF i \in Reclaimed(g) THEN NoBuf ELSE txbufs[i]],
           txreclaim' = Slot(txreclaim, g), txavail' = txavail + g,
           txsend' = txsend, own' = own
    PROVE  Window'
<1>1. /\ Used' = Used - g /\ Used \in 0 .. TxRing /\ g \in 0 .. TxRing
      /\ Used - g \in 0 .. TxRing /\ txreclaim \in TxSlots
  BY UsedRange, MxfeAssumption DEF Used, TypeInv, MxfeTypeOK
<1>2. Slot(Slot(txreclaim, g), Used - g) = Slot(txreclaim, Used)
  BY <1>1, SlotMoves, MxfeAssumption
<1>3. \A i \in TxSlots : i \in Arc(txreclaim', Used - g)
                             <=> i \in Arc(txreclaim, Used) /\ i \notin Arc(txreclaim, g)
  BY <1>1, ArcMoves
<1>4. TxRing \notin TxSlots /\ \A i \in 0 .. TxRing : i = TxRing \/ i \in TxSlots
  BY MxfeAssumption DEF TxSlots
<1>5. Arc(txreclaim', Used - g) \subseteq TxSlots /\ Arc(txreclaim, Used) \subseteq TxSlots
  BY <1>1, AheadMoves, ArcIs
<1>6. \A i \in 0 .. TxRing : txbufs'[i] # NoBuf <=> i \in Arc(txreclaim', Used - g)
  BY <1>3, <1>4, <1>5 DEF Window, Reclaimed, Arc
<1> QED BY <1>1, <1>2, <1>6 DEF Window
\* What a thread inside gldm_send has of buffers.
SendInv == \A s \in Senders : /\ spc[s] = "copy" => sbuf[s] # NoBuf
                              /\ spc[s] = "enter" => sbuf[s] = NoBuf

\* mxfe_send puts its frame behind the others when some have been reclaimed.
LEMMA QueueWindow ==
    ASSUME TypeInv, Window, SendInv, NEW s \in Senders, SendQueued(s) PROVE Window'
<1> DEFINE r == Slot(txreclaim, Gained)  n == Used - Gained
<1>1. /\ Gained \in 0 .. Used /\ Used \in 0 .. TxRing /\ Gained \in 0 .. TxRing
      /\ txreclaim \in TxSlots
  BY ReclaimableRange, UsedRange DEF TypeInv, MxfeTypeOK
<1>2. n \in 0 .. TxRing - 1 /\ Used' = n + 1
  BY <1>1, MxfeAssumption DEF SendQueued, RoomAfter, Used, TypeInv, MxfeTypeOK
<1>3. txreclaim' = r /\ r \in TxSlots
  BY <1>1, AheadMoves DEF SendQueued
<1>4. txsend = Slot(r, n) /\ txsend \in TxSlots
  <2>1. Slot(r, n) = Slot(txreclaim, Gained + n)
    BY <1>1, <1>2, SlotMoves, MxfeAssumption
  <2>2. Gained + n = Used
    BY <1>1, MxfeAssumption
  <2> QED BY <2>1, <2>2, <1>1, SlotsOfRing, MxfeAssumption DEF Window
<1>5. txsend' = Slot(r, n + 1)
  <2>1. txsend' = Slot(txsend, 1)
    BY DEF SendQueued, Slot
  <2> QED BY <1>2, <1>3, <1>4, <2>1, SlotMoves, MxfeAssumption
<1>6. \A i \in TxSlots : i \in Arc(r, n + 1)
          <=> (i \in Arc(txreclaim, Used) /\ i \notin Arc(txreclaim, Gained)) \/ i = txsend
  BY <1>1, <1>2, <1>3, <1>4, ArcGrows, ArcMoves
<1>7. sbuf[s] # NoBuf
  BY DEF SendInv, SendQueued
<1>8. \A i \in TxSlots : txbufs'[i] # NoBuf <=> i \in Arc(r, n + 1)
  BY <1>6, <1>7, SlotsOfRing DEF SendQueued, Window, Reclaimed, Arc
<1>9. TxRing \notin TxSlots /\ \A i \in 0 .. TxRing : i = TxRing \/ i \in TxSlots
  BY MxfeAssumption DEF TxSlots
<1>10. Arc(r, n + 1) \subseteq TxSlots /\ Arc(txreclaim, Used) \subseteq TxSlots
  BY <1>1, <1>2, <1>3, ArcIs, MxfeAssumption
<1>11. txbufs'[TxRing] = NoBuf
  BY <1>4, <1>9, <1>10, MxfeAssumption DEF SendQueued, Window
<1>12. TxRing \notin own'
  BY <1>4, <1>9 DEF SendQueued, Window
<1> QED BY <1>2, <1>3, <1>5, <1>8, <1>9, <1>10, <1>11, <1>12 DEF Window

\* The steps that leave the ring, but for descriptors the chip gives back.
LEMMA WindowStays ==
    ASSUME Window, UNCHANGED <<txbufs, txsend, txreclaim, txavail>>, own' \subseteq own
    PROVE  Window'
  BY DEF Window, Used

NoFull == "full" \notin Coincidences

\* mxfe_setrxfilt keeps the window.
LEMMA SetRxFiltWindow ==
    ASSUME NoFull, TypeInv, Window, MayReorder, SetRxFilt, txavail' = txavail
    PROVE  Window'
<1>1. CASE "suspended" \in flags
  BY <1>1, WindowStays DEF SetRxFilt
<1>2. CASE "suspended" \notin flags
  BY <1>2, ReorderWindow DEF SetRxFilt, MayReorder, NoFull
<1> QED BY <1>1, <1>2

\* What the threads in gldm_send have of buffers is kept by every step.
LEMMA SendInvKept ==
    ASSUME TypeInv, SendInv, [MxfeNext]_mxfeVars PROVE SendInv'
<1> USE DEF SendInv, TypeInv, MxfeTypeOK, sendVars
<1>1. CASE SendNext
  BY <1>1, MxfeAssumption DEF SendNext, SendEnter, SendGetBuf, SendReadIer, SendSetIer,
     SendQueued, SendRefused, SendFreeBuf
<1>2. CASE CtlNext
  BY <1>2 DEF CtlNext, CtlStart, CtlStop, CtlReset, CtlSuspend, CtlResume
<1>3. CASE FiltNext \/ SetNext
  BY <1>3 DEF FiltNext, SetNext, FiltSend, FiltEnd, SetPromiscOrAddr, SetMulticast
<1>4. CASE IntrRead \/ IntrGo
  BY <1>4 DEF IntrGo, IntrRead, IntrAck, IntrWork, IntrRestart, IntrReclaim, IntrSched,
     Wake, IntrReset
<1>5. CASE ChipNext
  BY <1>5 DEF ChipNext, ChipTx, ChipSetup, ChipIdle, ChipRaise
<1>6. CASE UNCHANGED mxfeVars
  BY <1>6 DEF mxfeVars, stepVars
<1> QED BY <1>1, <1>2, <1>3, <1>4, <1>5, <1>6 DEF MxfeNext

\* Every step keeps the window.
LEMMA WindowKept ==
    ASSUME NoFull, TypeInv, SendInv, Window, [MxfeNext]_mxfeVars PROVE Window'
<1> USE DEF ringVars
<1>1. ASSUME NEW s \in Senders, SendQueued(s) PROVE Window'
  BY <1>1, QueueWindow
<1>2. ASSUME NEW s \in Senders,
             \/ SendEnter(s) \/ SendGetBuf(s) \/ SendReadIer(s) \/ SendSetIer(s)
             \/ SendRefused(s) \/ SendFreeBuf(s)
      PROVE  Window'
  BY <1>2, WindowStays DEF SendEnter, SendGetBuf, SendReadIer, SendSetIer, SendRefused,
     SendFreeBuf
<1>3. CASE CtlStart
  BY <1>3, EmptyRingWindow DEF CtlStart, StartMac
<1>4. CASE CtlStop \/ CtlReset \/ CtlSuspend
  BY <1>4, WindowStays DEF CtlStop, CtlReset, CtlSuspend
<1>5. CASE CtlResume
  BY <1>5, WindowStays, EmptyRingWindow DEF CtlResume, StartMac
<1>6. CASE FiltSend \/ FiltEnd
  BY <1>6, WindowStays DEF FiltSend, FiltEnd
<1>7. CASE SetPromiscOrAddr
  BY <1>7, SetRxFiltWindow DEF SetPromiscOrAddr
<1>8. ASSUME NEW h \in Hashes, SetMulticast(h) PROVE Window'
  BY <1>8, SetRxFiltWindow, WindowStays DEF SetMulticast
<1>9. CASE IntrRead \/ IntrAck \/ IntrWork \/ IntrRestart \/ IntrSched
  BY <1>9, WindowStays DEF IntrRead, IntrAck, IntrWork, IntrRestart, IntrSched
<1>10. CASE IntrReclaim
  BY <1>10, ReclaimWindow, ReclaimableRange DEF IntrReclaim
<1>11. CASE IntrReset
  BY <1>11, WindowStays, EmptyRingWindow DEF IntrReset, StartMac
<1>12. CASE ChipTx
  BY <1>12, WindowStays DEF ChipTx
<1>13. CASE ChipSetup \/ ChipIdle \/ \E bit \in ChipBits : ChipRaise(bit)
  BY <1>13, WindowStays DEF ChipSetup, ChipIdle, ChipRaise
<1>14. CASE UNCHANGED mxfeVars
  BY <1>14, WindowStays DEF mxfeVars, stepVars
<1> QED BY <1>1, <1>2, <1>3, <1>4, <1>5, <1>6, <1>7, <1>8, <1>9, <1>10, <1>11, <1>12,
           <1>13, <1>14
        DEF MxfeNext, SendNext, CtlNext, FiltNext, SetNext, IntrGo, ChipNext

WinInv == TypeInv /\ SendInv /\ Window

\* The window, for a filter that does not change while the ring is full.
THEOREM WindowInvariant == ASSUME NoFull PROVE MxfeSpec => []WinInv
<1>1. MxfeInit => SendInv /\ Window
  <2> SUFFICES ASSUME MxfeInit PROVE SendInv /\ Window
    OBVIOUS
  <2>1. Used = 0 /\ Arc(0, 0) = {} /\ Slot(0, 0) = 0
    BY MxfeAssumption DEF MxfeInit, Used, Arc, Slot
  <2> QED BY <2>1 DEF MxfeInit, SendInv, Window
<1>2. TypeInv /\ SendInv /\ Window /\ [MxfeNext]_mxfeVars => SendInv' /\ Window'
  BY SendInvKept, WindowKept
<1> QED BY <1>1, <1>2, TypeInvariant, PTL DEF MxfeSpec, WinInv
-----------------------------------------------------------------------------
(***************************************************************************)
(* Buffers.                                                                *)
(***************************************************************************)

\* A step that moves no buffer.
LEMMA OwnStays ==
    ASSUME BufferOwnership, UNCHANGED <<free, txbufs, sbuf>> PROVE BufferOwnership'
  BY DEF BufferOwnership, NoneLost, NoneShared

\* mxfe_startmac frees what is in the ring.
LEMMA OwnEmptyRing ==
    ASSUME WinInv, BufferOwnership, EmptyRing, UNCHANGED sbuf PROVE BufferOwnership'
<1> USE DEF WinInv, TypeInv, MxfeTypeOK, BufferOwnership
<1>1. txbufs[TxRing] = NoBuf /\ \A i \in 0 .. TxRing : i = TxRing \/ i \in TxSlots
  BY UsedRange, ArcIs, MxfeAssumption DEF Window, TxSlots
<1>2. \A i \in 0 .. TxRing : txbufs'[i] = NoBuf
  BY <1>1 DEF EmptyRing
<1>3. TxSlots \subseteq 0 .. TxRing
  BY SlotsOfRing
<1>4. NoneLost'
  BY <1>1, <1>2, MxfeAssumption DEF EmptyRing, NoneLost
<1>5. NoneShared'
  BY <1>2, <1>3, MxfeAssumption DEF EmptyRing, NoneShared
<1> QED BY <1>4, <1>5

\* A frame moves, its buffer does not: the new places are a permutation.
LEMMA OwnReorder ==
    ASSUME WinInv, BufferOwnership, TxReorder, UNCHANGED <<free, sbuf>>
    PROVE  BufferOwnership'
<1> USE DEF WinInv, TypeInv, MxfeTypeOK, BufferOwnership
<1>1. Used \in 0 .. TxRing /\ txreclaim \in TxSlots
  BY UsedRange
<1>2. \A i \in 0 .. TxRing : i < Used =>
          /\ txbufs'[i] = txbufs[Slot(txreclaim, i)]
          /\ Slot(txreclaim, i) \in 0 .. TxRing /\ Slot(txreclaim, i) \in TxSlots
          /\ i = Ahead(txreclaim, Slot(txreclaim, i))
  <2> SUFFICES ASSUME NEW i \in 0 .. TxRing, i < Used
               PROVE  /\ txbufs'[i] = txbufs[Slot(txreclaim, i)]
                      /\ Slot(txreclaim, i) \in 0 .. TxRing /\ Slot(txreclaim, i) \in TxSlots
                      /\ i = Ahead(txreclaim, Slot(txreclaim, i))
    OBVIOUS
  <2>1. Slot(txreclaim, i) \in 0 .. TxRing /\ Slot(txreclaim, i) \in TxSlots
    BY SlotsOfRing, MxfeAssumption
  <2>2. i \in 0 .. TxRing - 1
    BY <1>1, MxfeAssumption
  <2>3. i = Ahead(txreclaim, Slot(txreclaim, i))
    BY <1>1, <2>1, <2>2, AheadIs
  <2> QED BY <2>1, <2>3 DEF TxReorder
<1>3. \A i \in 0 .. TxRing : ~ (i < Used) => txbufs'[i] = NoBuf
  BY DEF TxReorder, Window, Reclaimed, Arc
<1>4. ASSUME NEW j \in 0 .. TxRing, txbufs[j] # NoBuf
      PROVE  \E i \in 0 .. TxRing : txbufs'[i] = txbufs[j]
  <2>1. j \in Arc(txreclaim, Used)
    BY <1>4 DEF Window
  <2>2. PICK k \in 0 .. Used - 1 : Slot(txreclaim, k) = j
    BY <2>1 DEF Arc
  <2>3. k \in 0 .. TxRing /\ k < Used
    BY <1>1, MxfeAssumption
  <2> QED BY <1>2, <2>2, <2>3
<1>5. NoneLost'
  BY <1>4, MxfeAssumption DEF NoneLost
<1>6. NoneShared'
  <2>1. ASSUME NEW i \in 0 .. TxRing
        PROVE  /\ txbufs'[i] \notin free
               /\ \A s \in Senders : txbufs'[i] = sbuf[s] => txbufs'[i] = NoBuf
    BY <1>2, <1>3, MxfeAssumption DEF NoneShared
  <2>2. ASSUME NEW i \in 0 .. TxRing, NEW j \in 0 .. TxRing, txbufs'[i] = txbufs'[j],
               txbufs'[i] # NoBuf
        PROVE  i = j
    <3>1. i < Used /\ j < Used
      BY <1>3, <2>2
    <3>2. Slot(txreclaim, i) = Slot(txreclaim, j)
      BY <1>2, <2>2, <3>1 DEF NoneShared
    <3> QED BY <1>2, <3>1, <3>2
  <2>3. \A s \in Senders : /\ sbuf[s] \notin free
                           /\ \A t \in Senders : sbuf[s] = sbuf[t] => s = t \/ sbuf[s] = NoBuf
    BY DEF NoneShared
  <2> QED BY <2>1, <2>2, <2>3 DEF NoneShared
<1> QED BY <1>5, <1>6

\* mxfe_reclaim frees what it clears.
LEMMA OwnReclaim ==
    ASSUME WinInv, BufferOwnership, NEW R, R \subseteq 0 .. TxRing,
           free' = free \cup ({txbufs[i] : i \in R} \ {NoBuf}),
           txbufs' = [i \in 0 .. TxRing |-> IF i \in R THEN NoBuf ELSE txbufs[i]],
           UNCHANGED sbuf
    PROVE  BufferOwnership'
<1> USE DEF WinInv, TypeInv, MxfeTypeOK, BufferOwnership
<1>1. NoneLost'
  BY MxfeAssumption DEF NoneLost
<1>2. NoneShared'
  BY MxfeAssumption DEF NoneShared
<1> QED BY <1>1, <1>2

\* mxfe_send moves its buffer into a slot that has none.
LEMMA OwnQueue ==
    ASSUME WinInv, BufferOwnership, NEW s \in Senders, SendQueued(s) PROVE BufferOwnership'
<1> USE DEF WinInv, TypeInv, MxfeTypeOK, BufferOwnership
<1> DEFINE R == Reclaimed(Gained)
<1>1. R \subseteq 0 .. TxRing
  BY ReclaimableRange, SlotsOfRing
<1>2. txsend \in R \/ txbufs[txsend] = NoBuf
  <2>1. /\ Gained \in 0 .. Used /\ Used \in 0 .. TxRing /\ Gained \in 0 .. TxRing
        /\ Used - Gained \in 0 .. TxRing - 1
    <3>1. Gained \in 0 .. Used /\ Used \in 0 .. TxRing /\ Gained \in 0 .. TxRing
      BY ReclaimableRange, UsedRange
    <3>2. txavail + Gained > 0
      BY DEF SendQueued, RoomAfter
    <3> QED BY <3>1, <3>2, MxfeAssumption DEF Used
  <2>2. txsend = Slot(txreclaim, Used) /\ txsend \in TxSlots
    BY <2>1, SlotsOfRing, MxfeAssumption DEF Window
  <2>3. CASE Used < TxRing
    <3>1. Used \in 0 .. TxRing - 1
      BY <2>1, <2>3, MxfeAssumption
    <3>2. Ahead(txreclaim, txsend) = Used
      BY <2>2, <3>1, AheadIs
    <3>3. txsend \notin Arc(txreclaim, Used)
      BY <2>1, <2>2, <3>2, ArcIs
    <3> QED BY <3>3 DEF Window
  <2>4. CASE ~ (Used < TxRing)
    <3>1. Used = TxRing /\ Gained > 0
      BY <2>1, <2>4, MxfeAssumption
    <3>2. txsend = txreclaim
      BY <2>1, <2>2, <3>1, SlotIs, MxfeAssumption DEF TxSlots
    <3>3. Ahead(txreclaim, txsend) = 0
      BY <2>2, <3>2, MxfeAssumption DEF Ahead, TxSlots
    <3>4. txsend \in Arc(txreclaim, Gained)
      BY <2>1, <2>2, <3>1, <3>3, ArcIs
    <3> QED BY <3>4 DEF Reclaimed, Arc
  <2> QED BY <2>3, <2>4
<1>3. /\ sbuf[s] # NoBuf /\ sbuf[s] \in Bufs
      /\ free' = free \cup ({txbufs[i] : i \in R} \ {NoBuf})
      /\ txbufs' = [i \in 0 .. TxRing |-> IF i = txsend THEN sbuf[s]
                                          ELSE IF i \in R THEN NoBuf ELSE txbufs[i]]
      /\ sbuf' = [sbuf EXCEPT ![s] = NoBuf]
  BY DEF SendQueued, SendInv
<1> HIDE DEF R
<1>4. NoneLost'
  BY <1>1, <1>2, <1>3, MxfeAssumption DEF NoneLost
<1>5. NoneShared'
  BY <1>1, <1>2, <1>3, MxfeAssumption DEF NoneShared
<1> QED BY <1>4, <1>5

\* Every step keeps the buffers apart.
LEMMA OwnKept ==
    ASSUME WinInv, BufferOwnership, [MxfeNext]_mxfeVars PROVE BufferOwnership'
<1> USE DEF ringVars, sendVars
<1>1. ASSUME NEW s \in Senders, SendGetBuf(s) PROVE BufferOwnership'
  <2>1. CASE UNCHANGED <<free, sbuf>>
    BY <1>1, <2>1, OwnStays DEF SendGetBuf
  <2>2. ASSUME NEW b \in free, free' = free \ {b}, sbuf' = [sbuf EXCEPT ![s] = b]
        PROVE  BufferOwnership'
    <3>1. sbuf[s] = NoBuf /\ txbufs' = txbufs
      BY <1>1 DEF SendGetBuf, WinInv, SendInv
    <3>2. NoneLost'
      BY <2>2, <3>1, MxfeAssumption DEF BufferOwnership, NoneLost, WinInv, TypeInv, MxfeTypeOK
    <3>3. NoneShared'
      BY <2>2, <3>1, MxfeAssumption DEF BufferOwnership, NoneShared, WinInv, TypeInv, MxfeTypeOK
    <3> QED BY <3>2, <3>3 DEF BufferOwnership
  <2> QED BY <1>1, <2>1, <2>2 DEF SendGetBuf
<1>2. ASSUME NEW s \in Senders, SendFreeBuf(s) PROVE BufferOwnership'
  <2>1. NoneLost'
    BY <1>2, MxfeAssumption
       DEF SendFreeBuf, BufferOwnership, NoneLost, WinInv, TypeInv, MxfeTypeOK
  <2>2. NoneShared'
    BY <1>2, MxfeAssumption
       DEF SendFreeBuf, BufferOwnership, NoneShared, WinInv, TypeInv, MxfeTypeOK
  <2> QED BY <2>1, <2>2 DEF BufferOwnership
<1>3. ASSUME NEW s \in Senders, SendQueued(s) PROVE BufferOwnership'
  BY <1>3, OwnQueue
<1>4. ASSUME NEW s \in Senders,
             SendEnter(s) \/ SendReadIer(s) \/ SendSetIer(s) \/ SendRefused(s)
      PROVE  BufferOwnership'
  BY <1>4, OwnStays DEF SendEnter, SendReadIer, SendSetIer, SendRefused
<1>5. CASE CtlStart
  BY <1>5, OwnEmptyRing DEF CtlStart, StartMac
<1>6. CASE CtlStop \/ CtlReset \/ CtlSuspend
  BY <1>6, OwnStays DEF CtlStop, CtlReset, CtlSuspend
<1>7. CASE CtlResume
  BY <1>7, OwnStays, OwnEmptyRing DEF CtlResume, StartMac
<1>8. CASE FiltSend \/ FiltEnd
  BY <1>8, OwnStays DEF FiltSend, FiltEnd
<1>9. CASE SetPromiscOrAddr
  BY <1>9, OwnStays, OwnReorder DEF SetPromiscOrAddr, SetRxFilt
<1>10. ASSUME NEW h \in Hashes, SetMulticast(h) PROVE BufferOwnership'
  BY <1>10, OwnStays, OwnReorder DEF SetMulticast, SetRxFilt
<1>11. CASE IntrRead \/ IntrAck \/ IntrWork \/ IntrRestart \/ IntrSched
  BY <1>11, OwnStays DEF IntrRead, IntrAck, IntrWork, IntrRestart, IntrSched
<1>12. CASE IntrReclaim
  <2>1. Reclaimed(Reclaimable) \subseteq 0 .. TxRing
    BY ReclaimableRange, SlotsOfRing DEF WinInv
  <2> QED BY <1>12, <2>1, OwnReclaim DEF IntrReclaim
<1>13. CASE IntrReset
  BY <1>13, OwnStays, OwnEmptyRing DEF IntrReset, StartMac
<1>14. CASE ChipNext
  BY <1>14, OwnStays DEF ChipNext, ChipTx, ChipSetup, ChipIdle, ChipRaise
<1>15. CASE UNCHANGED mxfeVars
  BY <1>15, OwnStays DEF mxfeVars, stepVars
<1> QED BY <1>1, <1>2, <1>3, <1>4, <1>5, <1>6, <1>7, <1>8, <1>9, <1>10, <1>11, <1>12,
           <1>13, <1>14, <1>15
        DEF MxfeNext, SendNext, CtlNext, FiltNext, SetNext, IntrGo

\* No buffer is lost or in two places, for a ring of any size and any number
\* of threads in gldm_send, whatever filter changes, restarts and interrupts
\* fall between, provided the filter does not change while the ring is full.
THEOREM BuffersAreOwned ==
    ASSUME NoFull PROVE MxfeSpec => []BufferOwnership
<1>1. MxfeInit => BufferOwnership
  BY MxfeAssumption DEF MxfeInit, BufferOwnership, NoneLost, NoneShared
<1>2. WinInv /\ BufferOwnership /\ [MxfeNext]_mxfeVars => BufferOwnership'
  BY OwnKept
<1> QED BY <1>1, <1>2, WindowInvariant, PTL DEF MxfeSpec
-----------------------------------------------------------------------------
(***************************************************************************)
(* Where the chip stands.  It is done with the first c frames and stands   *)
(* at the next; during a change of the filter it owns every frame, and     *)
(* will be put at the front of the ring.  All this is lost when the        *)
(* handler starts the engines in the middle of such a change.              *)
(***************************************************************************)
StandsAt(c) ==
    /\ own = Arc(txreclaim, Used) \ Arc(txreclaim, c)
    /\ IF XmtFree THEN pos = Slot(txreclaim, c) ELSE c = 0 /\ txreclaim = 0

Standing == ~ undone =>
    /\ fpc = "stopped" => "tx" \notin nar
    /\ \E c \in 0 .. Used : StandsAt(c)
    /\ XmtFree /\ "tx" \in nar /\ own # {} => poll

AtRing == tdb = "setup" <=> fpc = "loading"

\* A slot of the window is the chip's if it is c ahead or more.
LEMMA OwnedIs ==
    ASSUME WinInv, NEW c \in 0 .. Used, own = Arc(txreclaim, Used) \ Arc(txreclaim, c),
           NEW k \in 0 .. Used - 1
    PROVE  Slot(txreclaim, k) \in own <=> k >= c
<1>1. /\ Used \in 0 .. TxRing /\ txreclaim \in TxSlots /\ c \in 0 .. TxRing
      /\ k \in 0 .. TxRing - 1 /\ k \in Nat
  BY UsedRange, MxfeAssumption DEF WinInv, TypeInv, MxfeTypeOK
<1>2. Slot(txreclaim, k) \in TxSlots
  BY <1>1, SlotsOfRing DEF WinInv
<1>3. Ahead(txreclaim, Slot(txreclaim, k)) = k
  BY <1>1, <1>2, AheadIs
<1>4. Slot(txreclaim, k) \in Arc(txreclaim, Used) <=> k < Used
  BY <1>1, <1>2, <1>3, ArcIs
<1>5. Slot(txreclaim, k) \in Arc(txreclaim, c) <=> k < c
  BY <1>1, <1>2, <1>3, ArcIs
<1> QED BY <1>1, <1>4, <1>5, MxfeAssumption

\* mxfe_reclaim stops where the chip stands.
LEMMA CompletedIsWhereItStands ==
    ASSUME WinInv, NEW c \in 0 .. Used, own = Arc(txreclaim, Used) \ Arc(txreclaim, c)
    PROVE  Completed = c
<1>1. /\ Completed \in 0 .. Used
      /\ \A k \in 0 .. Completed - 1 : Slot(txreclaim, k) \notin own
      /\ Completed = Used \/ Slot(txreclaim, Completed) \in own
  BY CompletedIs DEF WinInv
<1>2. Used \in Nat
  BY UsedRange, MxfeAssumption DEF WinInv
<1>3. CASE Completed < c
  <2>1. Completed \in 0 .. Used - 1
    BY <1>1, <1>2, <1>3
  <2>2. Slot(txreclaim, Completed) \notin own
    BY <1>3, <2>1, <1>2, OwnedIs
  <2> QED BY <1>1, <1>2, <2>1, <2>2
<1>4. CASE Completed > c
  <2>1. c \in 0 .. Used - 1 /\ c \in 0 .. Completed - 1
    BY <1>1, <1>2, <1>4
  <2>2. Slot(txreclaim, c) \in own
    BY <1>2, <2>1, OwnedIs
  <2> QED BY <1>1, <2>1, <2>2
<1> QED BY <1>1, <1>2, <1>3, <1>4

\* What mxfe_reclaim leaves, the chip stands in as before.
LEMMA StandReclaim ==
    ASSUME WinInv, NEW c \in 0 .. Used, own = Arc(txreclaim, Used) \ Arc(txreclaim, c),
           NEW g \in 0 .. c
    PROVE  /\ own = Arc(Slot(txreclaim, g), Used - g) \ Arc(Slot(txreclaim, g), c - g)
           /\ Slot(txreclaim, c) = Slot(Slot(txreclaim, g), c - g)
<1> DEFINE r == Slot(txreclaim, g)
<1>1. /\ Used \in 0 .. TxRing /\ txreclaim \in TxSlots /\ c \in 0 .. TxRing
      /\ g \in 0 .. TxRing /\ g \in 0 .. Used /\ c - g \in 0 .. TxRing - g
      /\ Used - g \in 0 .. TxRing /\ c - g \in 0 .. TxRing /\ g + (c - g) = c
  BY UsedRange, MxfeAssumption DEF WinInv, TypeInv, MxfeTypeOK
<1>2. r \in TxSlots
  BY <1>1, AheadMoves
<1>3. Slot(r, c - g) = Slot(txreclaim, c)
  BY <1>1, SlotMoves
<1>4. \A i \in TxSlots : i \in Arc(r, Used - g) <=> i \in Arc(txreclaim, Used) /\ i \notin Arc(txreclaim, g)
  BY <1>1, ArcMoves
<1>5. \A i \in TxSlots : i \in Arc(r, c - g) <=> i \in Arc(txreclaim, c) /\ i \notin Arc(txreclaim, g)
  BY <1>1, ArcMoves
<1>6. \A i \in TxSlots : i \in Arc(txreclaim, g) => i \in Arc(txreclaim, c)
  <2> SUFFICES ASSUME NEW i \in TxSlots, i \in Arc(txreclaim, g) PROVE i \in Arc(txreclaim, c)
    OBVIOUS
  <2>1. Ahead(txreclaim, i) < g
    BY <1>1, ArcIs
  <2>2. Ahead(txreclaim, i) < c
    BY <1>1, <2>1, AheadIs, MxfeAssumption
  <2> QED BY <1>1, <2>2, ArcIs
<1>7. Arc(r, Used - g) \subseteq TxSlots /\ Arc(txreclaim, Used) \subseteq TxSlots
  BY <1>1, <1>2, ArcIs
<1> QED BY <1>3, <1>4, <1>5, <1>6, <1>7

\* mxfe_send reclaims no further than the chip stands, and puts its frame
\* behind the others.
LEMMA StandQueue ==
    ASSUME WinInv, NEW c \in 0 .. Used, StandsAt(c), NEW s \in Senders, SendQueued(s)
    PROVE  Gained \in 0 .. c /\ \E d \in 0 .. Used' : d = c - Gained /\ StandsAt(d)'
<1> DEFINE r == Slot(txreclaim, Gained)  n == Used - Gained
<1>2. XmtFree /\ pos = Slot(txreclaim, c) /\ own = Arc(txreclaim, Used) \ Arc(txreclaim, c)
  BY DEF StandsAt, SendQueued
<1>3. Gained \in 0 .. c
  <2>1. Completed = c
    BY <1>2, CompletedIsWhereItStands
  <2>2. c \in Nat
    BY UsedRange, MxfeAssumption DEF WinInv
  <2> QED BY <2>1, <2>2 DEF Gained, Reclaimable
<1>4. /\ Used \in 0 .. TxRing /\ txreclaim \in TxSlots /\ Gained \in 0 .. TxRing
      /\ c - Gained \in 0 .. n /\ n \in 0 .. TxRing - 1 /\ n \in 0 .. TxRing
      /\ n + 1 \in 0 .. TxRing /\ c - Gained \in 0 .. TxRing
  <2>1. Used \in 0 .. TxRing /\ txreclaim \in TxSlots
    BY UsedRange DEF WinInv, TypeInv, MxfeTypeOK
  <2>2. txavail + Gained > 0 /\ txavail \in Nat
    BY DEF SendQueued, RoomAfter, WinInv, TypeInv, MxfeTypeOK
  <2> QED BY <1>3, <2>1, <2>2, MxfeAssumption DEF Used
<1>5. r \in TxSlots /\ txreclaim' = r /\ Used' = n + 1
  <2>1. r \in TxSlots
    BY <1>4, AheadMoves
  <2>2. txreclaim' = r /\ txavail' = txavail + Gained - 1
    BY DEF SendQueued
  <2>3. txavail \in Nat
    BY DEF WinInv, TypeInv, MxfeTypeOK
  <2> QED BY <1>4, <2>1, <2>2, <2>3, MxfeAssumption DEF Used
<1>6. own = Arc(r, n) \ Arc(r, c - Gained) /\ pos = Slot(r, c - Gained)
  BY <1>2, <1>3, StandReclaim
<1>7. txsend = Slot(r, n) /\ txsend \in TxSlots
  <2>1. n \in 0 .. TxRing - Gained /\ Gained + n = Used
    BY <1>3, <1>4, MxfeAssumption
  <2>2. Slot(r, n) = Slot(txreclaim, Used)
    BY <1>4, <2>1, SlotMoves
  <2>3. Slot(r, n) \in TxSlots
    BY <1>4, <1>5, AheadMoves
  <2> QED BY <2>2, <2>3 DEF WinInv, Window
<1>8. Arc(r, n + 1) \subseteq TxSlots /\ Arc(r, n) \subseteq TxSlots
  BY <1>4, <1>5, ArcIs
<1>9. \A i \in TxSlots : i \in Arc(r, n + 1) <=> i \in Arc(r, n) \/ i = txsend
  BY <1>4, <1>5, <1>7, ArcGrows
<1>10. txsend \notin Arc(r, c - Gained)
  <2>1. Ahead(r, txsend) = n
    BY <1>4, <1>5, <1>7, AheadIs
  <2>2. ~ (n < c - Gained)
    BY <1>4, MxfeAssumption
  <2> QED BY <1>4, <1>5, <1>7, <2>1, <2>2, ArcIs
<1>11. own' = Arc(r, n + 1) \ Arc(r, c - Gained)
  BY <1>6, <1>7, <1>8, <1>9, <1>10 DEF SendQueued
<1>12. pos' = pos /\ XmtFree'
  BY <1>2 DEF SendQueued, XmtFree, filtVars
<1>13. PICK d \in 0 .. TxRing : d = c - Gained
  BY <1>4
<1>14. d \in 0 .. Used'
  BY <1>4, <1>5, <1>13, MxfeAssumption
<1>15. own' = Arc(txreclaim', Used') \ Arc(txreclaim', d) /\ pos' = Slot(txreclaim', d)
  BY <1>5, <1>6, <1>11, <1>12, <1>13
<1>16. StandsAt(d)'
  BY <1>12, <1>15 DEF StandsAt, Arc, Slot
<1> QED BY <1>3, <1>13, <1>14, <1>16

\* The handler reclaims no further than the chip stands.
LEMMA StandIntrReclaim ==
    ASSUME WinInv, NEW c \in 0 .. Used, StandsAt(c), IntrReclaim
    PROVE  Reclaimable \in 0 .. c /\ \E d \in 0 .. Used' : d = c - Reclaimable /\ StandsAt(d)'
<1> DEFINE g == Reclaimable
<1>2. XmtFree /\ pos = Slot(txreclaim, c) /\ own = Arc(txreclaim, Used) \ Arc(txreclaim, c)
  BY DEF StandsAt, IntrReclaim
<1>3. Reclaimable \in 0 .. c /\ Used \in 0 .. TxRing
  <2>1. Completed = c
    BY <1>2, CompletedIsWhereItStands
  <2>2. c \in Nat /\ Used \in 0 .. TxRing
    BY UsedRange, MxfeAssumption DEF WinInv
  <2> QED BY <2>1, <2>2 DEF Reclaimable
<1>4. own = Arc(Slot(txreclaim, g), Used - g) \ Arc(Slot(txreclaim, g), c - g)
      /\ pos = Slot(Slot(txreclaim, g), c - g)
  BY <1>2, <1>3, StandReclaim
<1>5. txreclaim' = Slot(txreclaim, g) /\ Used' = Used - g /\ c - g \in 0 .. Used'
  BY <1>3, MxfeAssumption DEF IntrReclaim, Used, WinInv, TypeInv, MxfeTypeOK
<1>6. own' = own /\ pos' = pos /\ XmtFree'
  BY <1>2 DEF IntrReclaim, XmtFree, filtVars, chipVars
<1>7. PICK d \in 0 .. TxRing : d = c - g
  BY <1>3, MxfeAssumption
<1>8. own' = Arc(txreclaim', Used') \ Arc(txreclaim', d) /\ pos' = Slot(txreclaim', d)
  BY <1>4, <1>5, <1>6, <1>7
<1>9. StandsAt(d)'
  BY <1>6, <1>8 DEF StandsAt, Arc, Slot
<1> QED BY <1>3, <1>5, <1>7, <1>9

\* The chip takes the frame it stands at, which is the first it owns.
LEMMA StandChipTx ==
    ASSUME WinInv, NEW c \in 0 .. Used, StandsAt(c), XmtFree, ChipTx
    PROVE  c < Used /\ \E d \in 0 .. Used' : d = c + 1 /\ StandsAt(d)'
<1>2. pos = Slot(txreclaim, c) /\ own = Arc(txreclaim, Used) \ Arc(txreclaim, c)
  BY DEF StandsAt
<1>3. Used \in 0 .. TxRing /\ txreclaim \in TxSlots /\ c \in Nat /\ c \in 0 .. TxRing
  BY UsedRange, MxfeAssumption DEF WinInv, TypeInv, MxfeTypeOK
<1>4. c < Used
  BY <1>2, <1>3, MxfeAssumption DEF ChipTx
<1>5. c \in 0 .. TxRing - 1 /\ c + 1 \in 0 .. TxRing /\ 1 \in 0 .. TxRing - c
      /\ c + 1 \in 0 .. Used
  BY <1>3, <1>4, MxfeAssumption
<1>6. \A i \in TxSlots : i \in Arc(txreclaim, c + 1) <=> i \in Arc(txreclaim, c) \/ i = pos
  BY <1>2, <1>3, <1>5, ArcGrows
<1>7. Slot(pos, 1) = Slot(txreclaim, c + 1)
  BY <1>2, <1>3, <1>5, SlotMoves
<1>8. Arc(txreclaim, Used) \subseteq TxSlots
  BY <1>3, ArcIs
<1>9. own' = Arc(txreclaim, Used) \ Arc(txreclaim, c + 1)
  BY <1>2, <1>6, <1>8 DEF ChipTx
<1>10. pos' = Slot(txreclaim, c + 1) /\ txreclaim' = txreclaim /\ Used' = Used /\ XmtFree'
  BY <1>7 DEF ChipTx, Used, XmtFree, filtVars
<1>11. StandsAt(c + 1)'
  BY <1>9, <1>10 DEF StandsAt
<1> QED BY <1>4, <1>5, <1>10, <1>11

\* The chip finds no frame only when there is none left.
LEMMA IdleWhenDone ==
    ASSUME WinInv, Standing, XmtFree, ~ undone, pos \notin own PROVE own = {}
<1>1. PICK c \in 0 .. Used : StandsAt(c)
  BY DEF Standing
<1>2. pos = Slot(txreclaim, c) /\ own = Arc(txreclaim, Used) \ Arc(txreclaim, c)
  BY <1>1 DEF StandsAt
<1>3. Used \in Nat
  BY UsedRange, MxfeAssumption DEF WinInv
<1>4. CASE c < Used
  <2>1. c \in 0 .. Used - 1
    BY <1>3, <1>4
  <2> QED BY <1>2, <1>3, <2>1, OwnedIs
<1>5. CASE c = Used
  BY <1>2, <1>5
<1> QED BY <1>3, <1>4, <1>5

\* mxfe_startmac: nothing is left in the ring, and the chip is at its front.
LEMMA StandEmpty ==
    ASSUME WinInv, EmptyRing, XmtFree' PROVE own' = {} /\ \E d \in 0 .. Used' : StandsAt(d)'
<1>1. own' = {} /\ Used' = 0 /\ txreclaim' = 0 /\ pos' = 0
  BY MxfeAssumption DEF WinInv, Window, TypeInv, MxfeTypeOK, EmptyRing, TxSlots, Used
<1>2. Arc(0, 0) = {} /\ Slot(0, 0) = 0
  BY MxfeAssumption DEF Arc, Slot
<1>3. StandsAt(0)'
  BY <1>1, <1>2 DEF StandsAt
<1> QED BY <1>1, <1>3

\* mxfe_txreorder: the chip will find every frame its own, from the front on.
LEMMA StandReorder ==
    ASSUME WinInv, Standing, TxReorder, txavail' = txavail, ~ XmtFree', ~ undone
    PROVE  \E d \in 0 .. Used' : StandsAt(d)'
<1>1. PICK c \in 0 .. Used : StandsAt(c)
  BY DEF Standing
<1>2. own \subseteq Arc(txreclaim, Used)
  BY <1>1 DEF StandsAt
<1>3. Used \in 0 .. TxRing /\ Used' = Used /\ txreclaim' = 0
  BY UsedRange DEF WinInv, TxReorder, Used
<1>4. own' = 0 .. Used - 1
  BY <1>2 DEF TxReorder, Reclaimed, Arc
<1>5. 0 \in TxSlots /\ 0 .. Used - 1 \subseteq TxSlots
  BY <1>3, MxfeAssumption DEF TxSlots
<1>6. \A i \in TxSlots : i \in Arc(0, Used) <=> i \in 0 .. Used - 1
  <2> SUFFICES ASSUME NEW i \in TxSlots PROVE i \in Arc(0, Used) <=> i \in 0 .. Used - 1
    OBVIOUS
  <2>1. i \in Arc(0, Used) <=> Ahead(0, i) < Used
    BY <1>3, <1>5, ArcIs
  <2> QED BY <1>3, <2>1, MxfeAssumption DEF Ahead, TxSlots
<1>7. Arc(0, Used) \subseteq TxSlots /\ Arc(0, 0) = {}
  BY <1>3, <1>5, ArcIs, MxfeAssumption DEF Arc
<1>8. own' = Arc(0, Used) \ Arc(0, 0)
  BY <1>4, <1>5, <1>6, <1>7
<1>9. StandsAt(0)'
  BY <1>3, <1>8 DEF StandsAt
<1> QED BY <1>3, <1>9, MxfeAssumption

standVars == <<txreclaim, txavail, own, pos, fpc, poll, undone, tdb, nar>>

\* A step that touches neither ring, chip nor engines.
LEMMA StandStays ==
    ASSUME Standing, AtRing, UNCHANGED standVars PROVE Standing' /\ AtRing'
<1>1. Used' = Used /\ XmtFree' = XmtFree
  BY DEF standVars, Used, XmtFree
<1>2. \A c : StandsAt(c)' <=> StandsAt(c)
  BY <1>1 DEF standVars, StandsAt, Arc, Slot
<1> QED BY <1>1, <1>2 DEF standVars, Standing, AtRing

\* The chip and the driver start at the front.
LEMMA StandStartMac ==
    ASSUME WinInv, StartMac, XmtFree' PROVE Standing' /\ AtRing'
<1>1. own' = {} /\ \E d \in 0 .. Used' : StandsAt(d)'
  BY StandEmpty DEF StartMac
<1>2. tdb' = "ring" /\ fpc' = "idle"
  BY DEF StartMac, EmptyRing, XmtFree
<1> QED BY <1>1, <1>2 DEF Standing, AtRing

\* The engines are off: only the place matters.
LEMMA StandStopped ==
    ASSUME Standing, AtRing, nar' = {},
           UNCHANGED <<txreclaim, txavail, own, pos, fpc, undone, tdb>>
    PROVE  Standing' /\ AtRing'
<1>1. Used' = Used /\ XmtFree' = XmtFree
  BY DEF Used, XmtFree
<1>2. \A c : StandsAt(c)' <=> StandsAt(c)
  BY <1>1 DEF StandsAt, Arc, Slot
<1> QED BY <1>1, <1>2 DEF Standing, AtRing

\* mxfe_setrxfilt stops the transmitter before it moves the frames.
LEMMA StandSetRxFilt ==
    ASSUME WinInv, Standing, AtRing, XmtFree, SetRxFilt,
           UNCHANGED <<txavail, pos, tdb, undone>>
    PROVE  Standing' /\ AtRing'
<1>1. CASE "suspended" \in flags
  BY <1>1, StandStays DEF SetRxFilt, standVars
<1>2. CASE "suspended" \notin flags
  <2>1. fpc' = "stopped" /\ nar' = {} /\ TxReorder /\ fpc = "idle"
    BY <1>2 DEF SetRxFilt, XmtFree
  <2>2. ~ undone => \E d \in 0 .. Used' : StandsAt(d)'
    BY <2>1, StandReorder DEF XmtFree
  <2> QED BY <2>1, <2>2 DEF Standing, AtRing, XmtFree
<1> QED BY <1>1, <1>2

\* The end of a change: the chip is put at the front, where the frames are.
LEMMA StandFilter ==
    ASSUME WinInv, Standing, AtRing, FiltSend \/ FiltEnd PROVE Standing' /\ AtRing'
<1>1. Used' = Used /\ UNCHANGED <<own, txreclaim, undone>> /\ ~ XmtFree
  BY DEF FiltSend, FiltEnd, ringVars, intrVars, Used, XmtFree
<1>2. ASSUME ~ undone
      PROVE  0 \in 0 .. Used /\ own = Arc(txreclaim, Used) \ Arc(txreclaim, 0) /\ txreclaim = 0
  BY <1>1, <1>2, UsedRange DEF Standing, StandsAt, WinInv
<1>3. Slot(0, 0) = 0
  BY MxfeAssumption DEF Slot
<1>4. CASE FiltSend
  <2>1. fpc' = "loading" /\ tdb' = "setup" /\ ~ XmtFree'
    BY <1>4 DEF FiltSend, XmtFree
  <2>2. ~ undone => StandsAt(0)'
    BY <1>1, <1>2, <2>1 DEF StandsAt, Arc, Slot
  <2> QED BY <1>1, <1>2, <2>1, <2>2 DEF Standing, AtRing
<1>5. CASE FiltEnd
  <2>1. fpc' = "idle" /\ tdb' = "ring" /\ pos' = 0 /\ nar' = fnar /\ poll' = ("tx" \in fnar)
    BY <1>5 DEF FiltEnd
  <2>2. ~ undone => StandsAt(0)'
    BY <1>1, <1>2, <1>3, <2>1 DEF StandsAt, Arc, Slot, XmtFree
  <2> QED BY <1>1, <1>2, <2>1, <2>2 DEF Standing, AtRing
<1> QED BY <1>4, <1>5

\* The chip takes the next frame, or sleeps when there is none.
LEMMA StandChip ==
    ASSUME WinInv, Standing, AtRing, ChipTx \/ ChipIdle PROVE Standing' /\ AtRing'
<1> USE DEF intrVars, filtVars
<1>1. CASE ChipTx
  <2>1. ~ undone => XmtFree
    BY <1>1 DEF ChipTx, ChipOn, Standing, AtRing, XmtFree, WinInv, TypeInv, MxfeTypeOK
  <2>2. ~ undone => \E d \in 0 .. Used' : StandsAt(d)'
    BY <1>1, <2>1, StandChipTx DEF Standing
  <2>3. UNCHANGED <<undone, fpc, nar, poll, tdb>> /\ own' \subseteq own
    BY <1>1 DEF ChipTx
  <2> QED BY <2>2, <2>3 DEF Standing, AtRing, XmtFree
<1>2. CASE ChipIdle
  <2>1. UNCHANGED <<txreclaim, txavail, own, pos, fpc, undone, tdb, nar>>
    BY <1>2 DEF ChipIdle, ringVars
  <2>2. Used' = Used /\ XmtFree' = XmtFree /\ \A c : StandsAt(c)' <=> StandsAt(c)
    BY <2>1 DEF Used, XmtFree, StandsAt, Arc, Slot
  <2>3. XmtFree /\ ~ undone => own = {}
    <3>1. XmtFree => pos \notin own
      BY <1>2 DEF ChipIdle, AtRing, XmtFree, WinInv, TypeInv, MxfeTypeOK
    <3> QED BY <3>1, IdleWhenDone
  <2> QED BY <2>1, <2>2, <2>3 DEF Standing, AtRing
<1> QED BY <1>1, <1>2

\* The handler's restart of the receiver, if NAR has not changed since.
LEMMA StandIntrRestart ==
    ASSUME Standing, AtRing, IntrRestart PROVE Standing' /\ AtRing'
<1>1. UNCHANGED <<txreclaim, txavail, own, pos, fpc, tdb>>
  BY DEF IntrRestart, ringVars, filtVars
<1>2. Used' = Used /\ XmtFree' = XmtFree /\ \A c : StandsAt(c)' <=> StandsAt(c)
  BY <1>1 DEF Used, XmtFree, StandsAt, Arc, Slot
<1>3. ~ undone' => ~ undone /\ ("tx" \in nar' <=> "tx" \in nar)
  BY DEF IntrRestart
<1>4. ~ undone' /\ "tx" \in nar' /\ poll => poll'
  BY DEF IntrRestart
<1> QED BY <1>1, <1>2, <1>3, <1>4 DEF Standing, AtRing

\* Every step keeps the chip's place and the driver's view of it in accord.
LEMMA StandingKept ==
    ASSUME WinInv, Standing, AtRing, [MxfeNext]_mxfeVars PROVE Standing' /\ AtRing'
<1> USE DEF ringVars, chipVars, intrVars, filtVars
<1>1. ASSUME NEW s \in Senders, SendQueued(s) PROVE Standing' /\ AtRing'
  <2>1. ~ undone => \E d \in 0 .. Used' : StandsAt(d)'
    BY <1>1, StandQueue DEF Standing
  <2>2. UNCHANGED <<undone, fpc, nar, tdb>> /\ poll'
    BY <1>1 DEF SendQueued
  <2> QED BY <2>1, <2>2 DEF Standing, AtRing
<1>2. ASSUME NEW s \in Senders,
             \/ SendEnter(s) \/ SendGetBuf(s) \/ SendReadIer(s) \/ SendSetIer(s)
             \/ SendRefused(s) \/ SendFreeBuf(s)
      PROVE  Standing' /\ AtRing'
  BY <1>2, StandStays DEF SendEnter, SendGetBuf, SendReadIer, SendSetIer, SendRefused,
     SendFreeBuf, standVars
<1>3. CASE CtlStart
  BY <1>3, StandStartMac DEF CtlStart, XmtFree
<1>4. CASE CtlStop \/ CtlReset \/ CtlSuspend
  BY <1>4, StandStopped DEF CtlStop, CtlReset, CtlSuspend, StopMac
<1>5. CASE CtlResume
  <2>1. CASE StartMac
    BY <1>5, <2>1, StandStartMac DEF CtlResume, XmtFree
  <2>2. CASE "running" \notin flags
    BY <1>5, <2>2, StandStopped DEF CtlResume
  <2> QED BY <1>5, <2>1, <2>2 DEF CtlResume
<1>6. CASE FiltSend \/ FiltEnd
  BY <1>6, StandFilter
<1>7. CASE SetPromiscOrAddr
  BY <1>7, StandSetRxFilt DEF SetPromiscOrAddr
<1>8. ASSUME NEW h \in Hashes, SetMulticast(h) PROVE Standing' /\ AtRing'
  <2>1. CASE SetRxFilt
    BY <1>8, <2>1, StandSetRxFilt DEF SetMulticast
  <2>2. CASE ~ SetRxFilt
    BY <1>8, <2>2, StandStays DEF SetMulticast, standVars
  <2> QED BY <2>1, <2>2
<1>9. CASE IntrRead \/ IntrAck \/ IntrWork \/ IntrSched
  BY <1>9, StandStays DEF IntrRead, IntrAck, IntrWork, IntrSched, standVars
<1>10. CASE IntrRestart
  BY <1>10, StandIntrRestart
<1>11. CASE IntrReclaim
  <2>1. ~ undone => \E d \in 0 .. Used' : StandsAt(d)'
    BY <1>11, StandIntrReclaim DEF Standing
  <2>2. UNCHANGED <<undone, fpc, nar, tdb, poll, own>>
    BY <1>11 DEF IntrReclaim
  <2> QED BY <2>1, <2>2 DEF Standing, AtRing, XmtFree
<1>12. CASE IntrReset
  <2>1. CASE "running" \in flags
    BY <1>12, <2>1, StandStartMac DEF IntrReset, XmtFree
  <2>2. CASE "running" \notin flags
    BY <1>12, <2>2, StandStays DEF IntrReset, standVars
  <2> QED BY <2>1, <2>2
<1>13. CASE ChipTx \/ ChipIdle
  BY <1>13, StandChip
<1>14. CASE ChipSetup \/ \E bit \in ChipBits : ChipRaise(bit)
  BY <1>14, StandStays DEF ChipSetup, ChipRaise, standVars
<1>15. CASE UNCHANGED mxfeVars
  BY <1>15, StandStays DEF mxfeVars, stepVars, standVars
<1> QED BY <1>1, <1>2, <1>3, <1>4, <1>5, <1>6, <1>7, <1>8, <1>9, <1>10, <1>11, <1>12,
           <1>13, <1>14, <1>15
        DEF MxfeNext, SendNext, CtlNext, FiltNext, SetNext, IntrGo, ChipNext

\* The chip stands where the driver's window says, from the first step on.
THEOREM StandInvariant ==
    ASSUME NoFull PROVE MxfeSpec => [](WinInv /\ Standing /\ AtRing)
<1>1. MxfeInit => Standing /\ AtRing
  <2> SUFFICES ASSUME MxfeInit PROVE Standing /\ AtRing
    OBVIOUS
  <2>1. Used = 0 /\ Arc(0, 0) = {} /\ Slot(0, 0) = 0
    BY MxfeAssumption DEF MxfeInit, Used, Arc, Slot
  <2> QED BY <2>1 DEF MxfeInit, Standing, StandsAt, AtRing, XmtFree
<1>2. WinInv /\ Standing /\ AtRing /\ [MxfeNext]_mxfeVars => Standing' /\ AtRing'
  BY StandingKept
<1> QED BY <1>1, <1>2, WindowInvariant, PTL DEF MxfeSpec

\* No frame is overwritten, passed over or put where the chip does not look,
\* for a ring of any size: mxfe_send, mxfe_reclaim, mxfe_txreorder and the chip
\* agree on which descriptors are whose, provided the filter does not change
\* while the ring is full.
THEOREM WindowAgrees ==
    ASSUME NoFull PROVE MxfeSpec => []TxWindowOK
<1>1. WinInv /\ Standing => TxWindowOK
  BY DEF WinInv, Window, Standing, StandsAt, TxWindowOK, Reclaimed, Arc
<1> QED BY <1>1, StandInvariant, PTL

\* While the transmitter runs and no filter is being loaded it looks at the
\* ring, and it has not gone to sleep over a frame.
THEOREM TransmitterNeverStalls ==
    ASSUME NoFull PROVE MxfeSpec => []NeverStalled
<1>1. WinInv /\ Standing /\ AtRing => NeverStalled
  BY DEF WinInv, TypeInv, MxfeTypeOK, Standing, AtRing, NeverStalled, XmtFree
<1> QED BY <1>1, StandInvariant, PTL
-----------------------------------------------------------------------------
(***************************************************************************)
(* The refinement of TxRewind: the window read as a sequence.              *)
(***************************************************************************)

\* The frames in the ring, oldest first.
Held == [j \in 1 .. Used |-> txbufs[Slot(txreclaim, j - 1)]]

\* What the mapping reads, for a chip that is done with the first c frames.
Reading == WinInv =>
    /\ Held \in [1 .. Used -> Bufs \cup {NoBuf}]
    /\ \A c \in 0 .. Used : StandsAt(c) => Completed = c
    /\ Completed \in 0 .. Used

\* The mapping reads the window, before a step.
LEMMA ReadingHere == Reading
<1> SUFFICES ASSUME WinInv
             PROVE  /\ Held \in [1 .. Used -> Bufs \cup {NoBuf}]
                    /\ \A c \in 0 .. Used : StandsAt(c) => Completed = c
                    /\ Completed \in 0 .. Used
  BY DEF Reading
<1>1. \A j \in 1 .. Used : Slot(txreclaim, j - 1) \in 0 .. TxRing
  BY UsedRange, SlotsOfRing, MxfeAssumption DEF WinInv
<1>2. Held \in [1 .. Used -> Bufs \cup {NoBuf}]
  BY <1>1 DEF Held, WinInv, TypeInv, MxfeTypeOK
<1>3. \A c \in 0 .. Used : StandsAt(c) => Completed = c
  BY CompletedIsWhereItStands DEF StandsAt
<1>4. Completed \in 0 .. Used
  BY CompletedIs DEF WinInv
<1> QED BY <1>2, <1>3, <1>4

\* And after it.
LEMMA ReadingNext == Reading'
  BY ReadingHere, PTL

\* The frames left when the first g are reclaimed, and where they are.
LEMMA HeldLeft ==
    ASSUME WinInv, NEW g \in 0 .. Used
    PROVE  /\ Slot(txreclaim, g) \in TxSlots
           /\ \A j \in 1 .. Used - g :
                LET i == Slot(txreclaim, g + j - 1) IN
                /\ Slot(Slot(txreclaim, g), j - 1) = i
                /\ i \in TxSlots /\ i \in 0 .. TxRing /\ i \notin Reclaimed(g)
                /\ Ahead(Slot(txreclaim, g), i) = j - 1
                /\ Held[g + j] = txbufs[i]
<1> DEFINE r == Slot(txreclaim, g)
<1>1. Used \in 0 .. TxRing /\ g \in 0 .. TxRing /\ txreclaim \in TxSlots
  BY UsedRange, MxfeAssumption DEF WinInv, TypeInv, MxfeTypeOK
<1>2. r \in TxSlots
  BY <1>1, AheadMoves
<1> SUFFICES ASSUME NEW j \in 1 .. Used - g
             PROVE  /\ Slot(r, j - 1) = Slot(txreclaim, g + j - 1)
                    /\ Slot(txreclaim, g + j - 1) \in TxSlots
                    /\ Slot(txreclaim, g + j - 1) \in 0 .. TxRing
                    /\ Slot(txreclaim, g + j - 1) \notin Reclaimed(g)
                    /\ Ahead(r, Slot(txreclaim, g + j - 1)) = j - 1
                    /\ Held[g + j] = txbufs[Slot(txreclaim, g + j - 1)]
  BY <1>2
<1>3. /\ j - 1 \in 0 .. TxRing - g /\ g + (j - 1) = g + j - 1 /\ g + j - 1 \in Nat
      /\ j - 1 \in 0 .. TxRing - 1 /\ g + j - 1 \in 0 .. TxRing - 1 /\ g + j \in 1 .. Used
  BY <1>1, MxfeAssumption
<1>4. Slot(r, j - 1) = Slot(txreclaim, g + j - 1)
  BY <1>1, <1>3, SlotMoves
<1>5. Slot(txreclaim, g + j - 1) \in TxSlots /\ Slot(txreclaim, g + j - 1) \in 0 .. TxRing
  BY <1>3, SlotsOfRing DEF WinInv
<1>6. Ahead(txreclaim, Slot(txreclaim, g + j - 1)) = g + j - 1
  BY <1>1, <1>3, <1>5, AheadIs
<1>7. Slot(txreclaim, g + j - 1) \notin Arc(txreclaim, g)
  <2>1. ~ (g + j - 1 < g)
    BY <1>1, MxfeAssumption
  <2> QED BY <1>1, <1>5, <1>6, <2>1, ArcIs
<1>8. Ahead(r, Slot(txreclaim, g + j - 1)) = j - 1
  BY <1>2, <1>3, <1>4, <1>5, AheadIs
<1>9. Held[g + j] = txbufs[Slot(txreclaim, g + j - 1)]
  BY <1>3 DEF Held
<1> QED BY <1>4, <1>5, <1>7, <1>8, <1>9 DEF Reclaimed, Arc

\* mxfe_send gives back what it reclaims and accepts its frame behind the rest.
LEMMA QueueAccepts ==
    ASSUME WinInv, WinInv', NEW c \in 0 .. Used, StandsAt(c),
           NEW s \in Senders, SendQueued(s)
    PROVE  Queue!RewindNext
<1> DEFINE V == Bufs \cup {NoBuf}
<1>1. Gained \in 0 .. c /\ \E d \in 0 .. Used' : d = c - Gained /\ StandsAt(d)'
  BY StandQueue
<1>2. PICK d \in 0 .. Used' : d = c - Gained /\ StandsAt(d)'
  BY <1>1
<1>3. PICK u \in 0 .. TxRing, g \in 0 .. TxRing : u = Used /\ g = Gained
  BY UsedRange, ReclaimableRange DEF WinInv
<1>4. /\ c \in Nat /\ g <= c /\ c <= u /\ d = c - g /\ g \in 0 .. Used
      /\ u - g \in Nat /\ u - g < TxRing /\ Used' = u - g + 1
  <2>1. /\ txavail + g > 0 /\ txavail' = txavail + g - 1
        /\ u = TxRing - txavail /\ Used' = TxRing - txavail'
    BY <1>3 DEF SendQueued, RoomAfter, Used
  <2>2. txavail \in Nat /\ txavail <= TxRing
    BY DEF WinInv, TypeInv, MxfeTypeOK
  <2>3. c \in Nat /\ c <= u /\ g \in 0 .. c /\ d = c - g
    BY <1>1, <1>2, <1>3, MxfeAssumption
  <2> QED BY <1>3, <2>1, <2>2, <2>3, MxfeAssumption
<1>5. Completed = c /\ Completed' = c - g
  BY <1>2, <1>4, ReadingHere, ReadingNext DEF Reading
<1>6. Held \in [1 .. u -> V] /\ Held' \in [1 .. u - g + 1 -> V]
  BY <1>3, <1>4, ReadingHere, ReadingNext DEF Reading
<1>7. /\ txreclaim' = Slot(txreclaim, g)
      /\ txbufs' = [i \in 0 .. TxRing |-> IF i = txsend THEN sbuf[s]
                                          ELSE IF i \in Reclaimed(g) THEN NoBuf
                                          ELSE txbufs[i]]
  BY <1>3 DEF SendQueued
<1>8. /\ Slot(txreclaim, g) \in TxSlots /\ txsend \in TxSlots
      /\ Slot(Slot(txreclaim, g), u - g) = txsend
      /\ Ahead(Slot(txreclaim, g), txsend) = u - g
  <2>1. txreclaim \in TxSlots /\ u - g \in 0 .. TxRing - g /\ g + (u - g) = u
        /\ u - g \in 0 .. TxRing - 1
    BY <1>4, MxfeAssumption DEF WinInv, TypeInv, MxfeTypeOK
  <2>2. Slot(txreclaim, g) \in TxSlots
    BY <1>4, HeldLeft
  <2>3. Slot(Slot(txreclaim, g), u - g) = Slot(txreclaim, u)
    BY <2>1, SlotMoves
  <2>4. txsend = Slot(txreclaim, u)
    BY <1>3 DEF WinInv, Window
  <2>5. txsend \in TxSlots
    BY <2>1, <2>4, <1>3, SlotsOfRing, MxfeAssumption DEF WinInv
  <2> QED BY <2>1, <2>2, <2>3, <2>4, <2>5, AheadIs
<1>9. \A j \in 1 .. u - g : Held'[j] = Held[g + j]
  <2> SUFFICES ASSUME NEW j \in 1 .. u - g PROVE Held'[j] = Held[g + j]
    OBVIOUS
  <2>1. PICK i \in 0 .. TxRing : i = Slot(txreclaim, g + j - 1)
    BY <1>3, <1>4, HeldLeft
  <2>2. /\ Slot(Slot(txreclaim, g), j - 1) = i /\ i \notin Reclaimed(g)
        /\ Ahead(Slot(txreclaim, g), i) = j - 1 /\ Held[g + j] = txbufs[i]
    BY <1>3, <1>4, <2>1, HeldLeft
  <2>3. i # txsend
    BY <1>4, <1>8, <2>2, MxfeAssumption
  <2>4. Held'[j] = txbufs'[i]
    <3>1. j \in 1 .. Used'
      BY <1>4
    <3>2. Held'[j] = txbufs'[Slot(txreclaim, j - 1)']
      BY <3>1 DEF Held
    <3> QED BY <1>7, <2>2, <3>2 DEF Slot
  <2> QED BY <1>7, <2>2, <2>3, <2>4
<1>10. Held'[u - g + 1] = sbuf[s]
  <2>1. u - g + 1 \in 1 .. Used' /\ u - g + 1 - 1 = u - g
    BY <1>4
  <2>2. Held'[u - g + 1] = txbufs'[Slot(txreclaim, u - g)']
    BY <2>1 DEF Held
  <2>3. Slot(txreclaim, u - g)' = txsend
    BY <1>7, <1>8 DEF Slot
  <2>4. txsend \in 0 .. TxRing
    BY <1>8, MxfeAssumption DEF TxSlots
  <2> QED BY <1>7, <2>2, <2>3, <2>4
<1>11. PICK q \in [1 .. u -> V], h \in [1 .. u - g + 1 -> V] : q = Held /\ h = Held'
  BY <1>6
<1>12. PICK m \in [1 .. u - g -> V] : m = [j \in 1 .. u - g |-> q[g + j]]
  <2>1. \A j \in 1 .. u - g : g + j \in 1 .. u
    BY <1>4
  <2> QED BY <1>11, <2>1
<1>13. m = SubSeq(q, g + 1, Len(q)) /\ Len(q) = u
  <2>1. u \in Nat /\ g \in 0 .. u /\ \A j \in 1 .. u - g : m[j] = q[g + j]
    BY <1>4, <1>12
  <2> HIDE DEF V
  <2> QED BY <2>1, SubSeqFun
<1>14. h = Append(m, sbuf[s])
  <2>1. \A j \in 1 .. u - g : h[j] = m[j]
    BY <1>9, <1>11, <1>12
  <2> HIDE DEF V
  <2>2. h = Append(m, h[u - g + 1])
    BY <1>4, <2>1, AppendFun
  <2> QED BY <1>10, <1>11, <2>2
<1>15. sbuf[s] \in Bufs
  BY DEF SendQueued, WinInv, SendInv, TypeInv, MxfeTypeOK
<1>16. CASE g = 0
  <2>1. m = q
    <3>1. \A j \in 1 .. u : m[j] = q[j]
      BY <1>4, <1>12, <1>16
    <3> QED BY <1>4, <1>16, <3>1
  <2>2. Held' = Append(Held, sbuf[s]) /\ Len(Held) < TxRing /\ Completed' = Completed
    BY <1>4, <1>5, <1>11, <1>13, <1>14, <1>16, <2>1
  <2>3. Queue!Accept(sbuf[s])
    BY <2>2 DEF Queue!Accept, Held
  <2> QED BY <1>15, <2>3 DEF Queue!RewindNext
<1>17. CASE g # 0
  <2>1. g \in 1 .. TxRing
    BY <1>17, MxfeAssumption
  <2>2. /\ Held' = Append(SubSeq(Held, g + 1, Len(Held)), sbuf[s])
        /\ g <= Completed /\ Completed' = Completed - g
    BY <1>4, <1>5, <1>11, <1>13, <1>14
  <2>3. Queue!GiveBackAndAccept(g, sbuf[s])
    BY <2>2 DEF Queue!GiveBackAndAccept, Held
  <2> QED BY <1>15, <2>1, <2>3 DEF Queue!RewindNext
<1> QED BY <1>16, <1>17

\* The handler gives back what it reclaims, or does nothing.
LEMMA ReclaimGivesBack ==
    ASSUME WinInv, WinInv', NEW c \in 0 .. Used, StandsAt(c), IntrReclaim
    PROVE  Queue!RewindNext \/ UNCHANGED Queue!rewindVars
<1> DEFINE V == Bufs \cup {NoBuf}
<1>1. Reclaimable \in 0 .. c /\ \E d \in 0 .. Used' : d = c - Reclaimable /\ StandsAt(d)'
  BY StandIntrReclaim
<1>2. PICK d \in 0 .. Used' : d = c - Reclaimable /\ StandsAt(d)'
  BY <1>1
<1>3. PICK u \in 0 .. TxRing, g \in 0 .. TxRing : u = Used /\ g = Reclaimable
  BY UsedRange, ReclaimableRange DEF WinInv
<1>4. /\ c \in Nat /\ g <= c /\ c <= u /\ d = c - g /\ g \in 0 .. Used
      /\ u - g \in Nat /\ Used' = u - g
  <2>1. txavail' = txavail + g /\ u = TxRing - txavail /\ Used' = TxRing - txavail'
    BY <1>3 DEF IntrReclaim, Used
  <2>2. txavail \in Nat /\ txavail <= TxRing
    BY DEF WinInv, TypeInv, MxfeTypeOK
  <2>3. c \in Nat /\ c <= u /\ g \in 0 .. c /\ d = c - g
    BY <1>1, <1>2, <1>3, MxfeAssumption
  <2> QED BY <1>3, <2>1, <2>2, <2>3, MxfeAssumption
<1>5. Completed = c /\ Completed' = c - g
  BY <1>2, <1>4, ReadingHere, ReadingNext DEF Reading
<1>6. Held \in [1 .. u -> V] /\ Held' \in [1 .. u - g -> V]
  BY <1>3, <1>4, ReadingHere, ReadingNext DEF Reading
<1>7. /\ txreclaim' = Slot(txreclaim, g)
      /\ txbufs' = [i \in 0 .. TxRing |-> IF i \in Reclaimed(g) THEN NoBuf ELSE txbufs[i]]
  BY <1>3 DEF IntrReclaim
<1>8. \A j \in 1 .. u - g : Held'[j] = Held[g + j]
  <2> SUFFICES ASSUME NEW j \in 1 .. u - g PROVE Held'[j] = Held[g + j]
    OBVIOUS
  <2>1. PICK i \in 0 .. TxRing : i = Slot(txreclaim, g + j - 1)
    BY <1>3, <1>4, HeldLeft
  <2>2. /\ Slot(Slot(txreclaim, g), j - 1) = i /\ i \notin Reclaimed(g)
        /\ Held[g + j] = txbufs[i]
    BY <1>3, <1>4, <2>1, HeldLeft
  <2>3. Held'[j] = txbufs'[Slot(txreclaim, j - 1)']
    BY <1>4 DEF Held
  <2> QED BY <1>7, <2>2, <2>3 DEF Slot
<1>9. PICK q \in [1 .. u -> V], h \in [1 .. u - g -> V] : q = Held /\ h = Held'
  BY <1>6
<1>10. h = SubSeq(q, g + 1, Len(q)) /\ Len(q) = u
  <2>1. u \in Nat /\ g \in 0 .. u /\ \A j \in 1 .. u - g : h[j] = q[g + j]
    BY <1>4, <1>8, <1>9
  <2> HIDE DEF V
  <2> QED BY <2>1, SubSeqFun
<1>11. CASE g = 0
  <2>1. h = q
    <3>1. \A j \in 1 .. u : h[j] = q[j]
      BY <1>4, <1>8, <1>9, <1>11
    <3> QED BY <1>4, <1>11, <3>1
  <2>2. Held' = Held /\ Completed' = Completed
    BY <1>4, <1>5, <1>9, <1>11, <2>1
  <2> QED BY <2>2 DEF Queue!rewindVars, Held
<1>12. CASE g # 0
  <2>1. g \in 1 .. TxRing
    BY <1>12, MxfeAssumption
  <2>2. /\ Held' = SubSeq(Held, g + 1, Len(Held))
        /\ g <= Completed /\ Completed' = Completed - g
    BY <1>4, <1>5, <1>9, <1>10
  <2>3. Queue!GiveBack(g)
    BY <2>2 DEF Queue!GiveBack, Held
  <2> QED BY <2>1, <2>3 DEF Queue!RewindNext
<1> QED BY <1>11, <1>12

\* The chip sends the next frame.
LEMMA ChipTransmits ==
    ASSUME WinInv, WinInv', NEW c \in 0 .. Used, StandsAt(c), XmtFree, ChipTx
    PROVE  Queue!RewindNext
<1>1. c < Used /\ \E d \in 0 .. Used' : d = c + 1 /\ StandsAt(d)'
  BY StandChipTx
<1>2. Completed = c /\ Completed' = c + 1
  BY <1>1, ReadingHere, ReadingNext DEF Reading
<1>3. Held' = Held
  BY DEF ChipTx, Held, Slot, Used
<1>4. Len(Held) = Used
  BY ReadingHere, UsedRange, MxfeAssumption DEF Reading, WinInv
<1>5. Queue!Transmit
  BY <1>1, <1>2, <1>3, <1>4 DEF Queue!Transmit, Held
<1> QED BY <1>5 DEF Queue!RewindNext

\* mxfe_startmac drops every frame.
LEMMA EmptyingDrops ==
    ASSUME WinInv', EmptyRing
    PROVE  Queue!RewindNext
<1>1. Used' = 0
  BY MxfeAssumption DEF EmptyRing, Used
<1>2. Held' = <<>>
  BY <1>1 DEF Held
<1>3. Completed' = 0
  <2>1. Completed' \in 0 .. Used'
    BY ReadingNext DEF Reading
  <2> QED BY <1>1, <2>1
<1>4. Queue!DropAll
  BY <1>2, <1>3 DEF Queue!DropAll, Held
<1> QED BY <1>4 DEF Queue!RewindNext

\* mxfe_txreorder takes the chip back to the oldest frame.
LEMMA ReorderRewinds ==
    ASSUME WinInv, WinInv', Standing, TxReorder, txavail' = txavail,
           ~ XmtFree', ~ undone, Used < TxRing
    PROVE  Queue!RewindNext
<1>1. \E d \in 0 .. Used' : StandsAt(d)'
  BY StandReorder
<1>2. Completed' = 0
  BY <1>1, ReadingNext DEF Reading, StandsAt
<1>3. Used' = Used /\ txreclaim' = 0 /\ Used \in 0 .. TxRing
  BY UsedRange DEF TxReorder, Used, WinInv
<1>4. Held' = Held
  <2>1. \A j \in 1 .. Used : txbufs'[Slot(0, j - 1)] = txbufs[Slot(txreclaim, j - 1)]
    <3> SUFFICES ASSUME NEW j \in 1 .. Used
                 PROVE  txbufs'[Slot(0, j - 1)] = txbufs[Slot(txreclaim, j - 1)]
      OBVIOUS
    <3>1. j - 1 \in 0 .. TxRing /\ j - 1 < TxRing /\ j - 1 < Used /\ 0 \in TxSlots
      BY <1>3, MxfeAssumption DEF TxSlots
    <3>2. Slot(0, j - 1) = j - 1
      BY <3>1, SlotIs, MxfeAssumption
    <3> QED BY <3>1, <3>2 DEF TxReorder
  <2>2. Held' = [j \in 1 .. Used' |-> txbufs'[Slot(txreclaim, j - 1)']]
    BY DEF Held
  <2>3. Held' = [j \in 1 .. Used |-> txbufs'[Slot(0, j - 1)]]
    BY <1>3, <2>2 DEF Slot
  <2> QED BY <2>1, <2>3 DEF Held
<1>5. Queue!Rewind
  BY <1>2, <1>4 DEF Queue!Rewind, Held
<1> QED BY <1>5 DEF Queue!RewindNext

\* What the mapping reads of the state.
queueRead == <<txbufs, own, txreclaim, txavail>>

\* A step that leaves those alone is none of TxRewind's.
LEMMA QueueUnread ==
    ASSUME UNCHANGED queueRead PROVE UNCHANGED Queue!rewindVars
  BY DEF queueRead, Queue!rewindVars, Completed, Used, Slot

\* The steps of the mxfe transmit side, by what they do to the ring.
LEMMA RingSteps ==
    ASSUME NoFull, WinInv, [MxfeNext]_mxfeVars
    PROVE  \/ \E s \in Senders : SendQueued(s)
           \/ IntrReclaim \/ ChipTx \/ EmptyRing
           \/ TxReorder /\ txavail' = txavail /\ ~ XmtFree' /\ Used < TxRing
           \/ UNCHANGED queueRead
<1> USE DEF queueRead, ringVars
<1>1. ASSUME NEW s \in Senders,
             \/ SendEnter(s) \/ SendGetBuf(s) \/ SendReadIer(s) \/ SendSetIer(s)
             \/ SendRefused(s) \/ SendFreeBuf(s)
      PROVE  UNCHANGED queueRead
  BY <1>1 DEF SendEnter, SendGetBuf, SendReadIer, SendSetIer, SendRefused, SendFreeBuf
<1>2. CASE CtlNext
  BY <1>2 DEF CtlNext, CtlStart, CtlStop, CtlReset, CtlSuspend, CtlResume, StartMac
<1>3. CASE FiltNext
  BY <1>3 DEF FiltNext, FiltSend, FiltEnd
<1>4. CASE SetNext
  <2>1. /\ MayReorder /\ txavail' = txavail
        /\ SetRxFilt \/ UNCHANGED <<txbufs, own, txsend, txreclaim>>
    BY <1>4 DEF SetNext, SetPromiscOrAddr, SetMulticast
  <2>2. CASE SetRxFilt
    BY <2>1, <2>2 DEF SetRxFilt, MayReorder, NoFull, XmtFree
  <2> QED BY <2>1, <2>2
<1>5. CASE IntrRead \/ IntrAck \/ IntrWork \/ IntrRestart \/ IntrSched
  BY <1>5 DEF IntrRead, IntrAck, IntrWork, IntrRestart, IntrSched
<1>6. CASE IntrReset
  BY <1>6 DEF IntrReset, StartMac
<1>7. CASE ChipSetup \/ ChipIdle \/ \E bit \in ChipBits : ChipRaise(bit)
  BY <1>7 DEF ChipSetup, ChipIdle, ChipRaise
<1>8. CASE UNCHANGED mxfeVars
  BY <1>8 DEF mxfeVars, stepVars
<1> QED BY <1>1, <1>2, <1>3, <1>4, <1>5, <1>6, <1>7, <1>8
        DEF MxfeNext, SendNext, IntrGo, ChipNext

\* Frames leave in the order in which mxfe_send accepted them, none is passed
\* over and no buffer comes back before its frame has been sent, for a ring of
\* any size and any number of senders, whatever changes of the filter rewind
\* the ring, provided it is not full then.
THEOREM RingImplementsRewind ==
    ASSUME NoFull PROVE MxfeSpec => SendsInOrder
<1>1. MxfeInit => Queue!RewindInit
  <2> SUFFICES ASSUME MxfeInit PROVE Queue!RewindInit
    OBVIOUS
  <2>1. TypeInv
    BY TypeInit
  <2>2. Used = 0
    BY MxfeAssumption DEF MxfeInit, Used
  <2>3. Completed = 0
    BY <2>1, <2>2, CompletedIs
  <2> QED BY <2>2, <2>3 DEF Queue!RewindInit
<1>2. WinInv /\ WinInv' /\ Standing /\ AtRing /\ [MxfeNext]_mxfeVars
          => [undone \/ Queue!RewindNext]_(Queue!rewindVars)
  <2> SUFFICES ASSUME WinInv, WinInv', Standing, AtRing, [MxfeNext]_mxfeVars, ~ undone
               PROVE  Queue!RewindNext \/ UNCHANGED Queue!rewindVars
    OBVIOUS
  <2>1. PICK c \in 0 .. Used : StandsAt(c)
    BY DEF Standing
  <2>2. ASSUME NEW s \in Senders, SendQueued(s) PROVE Queue!RewindNext
    BY <2>1, <2>2, QueueAccepts
  <2>3. CASE IntrReclaim
    BY <2>1, <2>3, ReclaimGivesBack
  <2>4. CASE ChipTx
    <3>1. XmtFree
      BY <2>4 DEF ChipTx, ChipOn, Standing, AtRing, XmtFree, WinInv, TypeInv, MxfeTypeOK
    <3> QED BY <2>1, <2>4, <3>1, ChipTransmits
  <2>5. CASE EmptyRing
    BY <2>5, EmptyingDrops
  <2>6. CASE TxReorder /\ txavail' = txavail /\ ~ XmtFree' /\ Used < TxRing
    BY <2>6, ReorderRewinds
  <2>7. CASE UNCHANGED queueRead
    BY <2>7, QueueUnread
  <2> QED BY <2>2, <2>3, <2>4, <2>5, <2>6, <2>7, RingSteps
<1> QED BY <1>1, <1>2, WindowInvariant, StandInvariant, PTL DEF MxfeSpec, SendsInOrder
=============================================================================
