--------------------------- MODULE AfeMac_proofs ---------------------------
(***************************************************************************)
(* Proofs about AfeMac, for any number of buffers, ring slots, senders and *)
(* threshold entries.  One inductive invariant in six parts, each proved   *)
(* from the ones before it:                                                *)
(*   TypeInv   types, and which senders hold a buffer                      *)
(*   CtlInv    who holds afe_intrlock and afe_xmtlock where                *)
(*   QuietInv  when the engines and the interrupts may be on               *)
(*   TxInv     the transmit ring is a window, empty during afe_startmac    *)
(*   OwnInv    no buffer lost or shared; unfilled receive slots are NULL   *)
(*   RxInv     the receive ring is a window, armed in order                *)
(* and last the refinement of TxFifo, for which the window of TxInv is     *)
(* read as two sequences of frames.                                        *)
(***************************************************************************)
EXTENDS AfeMac, FiniteSetTheorems, SeqFuns, TLAPS

USE RingAssumption, BufAssumption, SenderAssumption, ThreshAssumption

(***************************************************************************)
(* Lemmas about the ring arithmetic.                                       *)
(***************************************************************************)

\* Advancing a ring pointer stays on the ring, and wraps only at its end.
LEMMA SuccRing ==
    ASSUME NEW n \in Nat \ {0}, NEW i \in 0 .. n - 1
    PROVE  Succ(i, n) = (IF i + 1 = n THEN 0 ELSE i + 1) /\ Succ(i, n) \in 0 .. n - 1
<1>1. CASE i + 1 = n  BY <1>1 DEF Succ
<1>2. CASE i + 1 < n  BY <1>2 DEF Succ
<1>3. QED  BY <1>1, <1>2

\* Slot 0, where both rings start, is a slot.
LEMMA ZeroSlot == 0 \in TxSlots /\ 0 \in RxSlots
BY DEF TxSlots, RxSlots

\* The transmit and receive pointers stay on their rings.
LEMMA SuccTx == ASSUME NEW i \in TxSlots PROVE Succ(i, TxRing) \in TxSlots
BY SuccRing DEF TxSlots

\* Likewise for afe_rxcurrent and the chip's receive position.
LEMMA SuccRx == ASSUME NEW i \in RxSlots PROVE Succ(i, RxRing) \in RxSlots
BY SuccRing DEF RxSlots
-----------------------------------------------------------------------------
(***************************************************************************)
(* Type correctness.                                                       *)
(***************************************************************************)
\* A sender that has not yet had its turn under afe_xmtlock holds a buffer,
\* and one that is outside afe_send holds none; needed for the ring and the
\* pool, which take the buffer over.
SenderHolds ==
    \A s \in Senders : /\ spc[s] = "copy" => sbuf[s] # NoBuf
                       /\ spc[s] = "idle" => sbuf[s] = NoBuf

TypeInv == FieldTypes /\ SenderHolds

\* Every variable keeps its type, and afe_send never queues a NULL buffer.
THEOREM TypeInvariant == Spec => []TypeInv
<1> USE DEF flagVars, lockVars, txVars, rxVars, regVars, posVars, intrVars, sendVars, ctlVars
<1>1. Init => TypeInv
  BY ZeroSlot DEF Init, TypeInv, FieldTypes, SenderHolds
<1>2. TypeInv /\ [Next]_vars => TypeInv'
  <2> SUFFICES ASSUME TypeInv, [Next]_vars PROVE TypeInv'
    OBVIOUS
  <2> USE DEF TypeInv, FieldTypes, SenderHolds
  <2>1. ASSUME NEW s \in Senders, SendGetBuf(s) PROVE TypeInv'
    BY <2>1 DEF SendGetBuf
  <2>2. ASSUME NEW s \in Senders, SendRefused(s) PROVE TypeInv'
    BY <2>2 DEF SendRefused
  <2>30. ASSUME NEW s \in Senders, SendFreeBuf(s) PROVE TypeInv'
    BY <2>30 DEF SendFreeBuf
  <2>3. ASSUME NEW s \in Senders, SendQueued(s) PROVE TypeInv'
    BY <2>3, SuccTx DEF SendQueued
  <2>4. CASE FillRxSlot
    <3>1. fill + 1 \in 0 .. RxRing /\ fill \in RxSlots
      BY <2>4 DEF FillRxSlot, RxSlots
    <3>2. QED
      BY <2>4, <3>1 DEF FillRxSlot
  <2>5. CASE StartMacFails
    BY <2>5 DEF StartMacFails, LeaveStartMac
  <2>6. CASE StartMacDone
    BY <2>6 DEF StartMacDone, LeaveStartMac
  <2>7. CASE IntrRead
    BY <2>7 DEF IntrRead
  <2>8. CASE IntrAck
    <3>1. sr2 \ istat \in SUBSET Bits
      OBVIOUS
    <3>2. QED
      BY <2>8, <3>1 DEF IntrAck, Acknowledge, Continue
  <2>9. CASE IntrRxFrame
    BY <2>9, SuccRx DEF IntrRxFrame
  <2>10. CASE IntrRxDone
    BY <2>10 DEF IntrRxDone, Adjusted, Continue, AfterReceive, AfterReclaim
  <2>11. CASE IntrReclaim
    BY <2>11, SuccTx DEF IntrReclaim, Completed
  <2>12. CASE IntrReclaimDone
    BY <2>12 DEF IntrReclaimDone, Completed
  <2>13. CASE IntrSched
    BY <2>13 DEF IntrSched, Wake, Continue, AfterReclaim
  <2>14. CASE IntrLink
    BY <2>14 DEF IntrLink, Continue, AfterReclaim
  <2>15. CASE IntrLockI
    BY <2>15 DEF IntrLockI
  <2>16. CASE IntrReset
    BY <2>16, ZeroSlot DEF IntrReset, ResetWanted, EmptyRings, ReturnBufs, ResetPointers, StopMac
  <2>17. CASE IntrNoReset
    BY <2>17 DEF IntrNoReset, ResetWanted
  <2>18. ASSUME NEW op \in {"start", "stop", "suspend", "resume", "reset"}, CtlEnter(op)
         PROVE  TypeInv'
    BY <2>18 DEF CtlEnter
  <2>19. CASE CtlStart
    BY <2>19, ZeroSlot DEF CtlStart, EmptyRings, ReturnBufs, ResetPointers
  <2>20. CASE CtlStop
    BY <2>20 DEF CtlStop, StopMac, CtlLeave
  <2>21. CASE CtlReset
    BY <2>21 DEF CtlReset, ResetChip, CtlLeave
  <2>22. CASE CtlSuspend
    BY <2>22 DEF CtlSuspend, StopMac, CtlLeave
  <2>23. CASE CtlResumeFails
    BY <2>23 DEF CtlResumeFails, CtlLeave
  <2>24. CASE CtlResume
    BY <2>24, ZeroSlot DEF CtlResume, ResetChip, CtlLeave, EmptyRings, ReturnBufs, ResetPointers
  <2>25. ASSUME NEW bit \in TxBits, ChipTx(bit) PROVE TypeInv'
    BY <2>25, SuccTx DEF ChipTx, TxBits, Bits
  <2>26. CASE ChipRx
    BY <2>26, SuccRx DEF ChipRx, RxBits, Bits
  <2>27. ASSUME NEW bit \in {"rxnobuf", "berr", "link"}, ChipRaise(bit) PROVE TypeInv'
    BY <2>27 DEF ChipRaise, RxBits, ResetBits, Bits
  <2>28. CASE UNCHANGED vars
    BY <2>28 DEF vars
  <2>29. QED
    BY <2>1, <2>2, <2>3, <2>4, <2>5, <2>6, <2>7, <2>8, <2>9, <2>10, <2>11,
       <2>12, <2>13, <2>14, <2>15, <2>16, <2>17, <2>18, <2>19, <2>20, <2>21,
       <2>22, <2>23, <2>24, <2>25, <2>26, <2>27, <2>28, <2>30
       DEF Next, SendNext, StartMacNext, IntrNext, IntrWork, CtlNext, CtlWork, ChipNext
<1>3. QED  BY <1>1, <1>2, PTL DEF Spec
-----------------------------------------------------------------------------
(***************************************************************************)
(* Who holds which lock where, and what is then known of the flags.        *)
(***************************************************************************)
CtlInv ==
    /\ lockI = "ctl" <=> cpc # "idle"
    /\ lockI = "intr" <=> ipc \in {"ack", "rx", "lockX", "fill"}
    /\ lockX = "ctl" <=> cpc \in {"fillstart", "fillresume"}
    /\ lockX = "intr" => ipc \in {"reclaim", "fill"}
    /\ ipc = "fill" => lockX = "intr"
    /\ ipc \in {"rx", "fill"} => "running" \in flags
    /\ cpc = "fillresume" => "running" \in flags
    /\ gld = "stopped" => "running" \notin flags
    /\ cpc \in {"start", "fillstart", "reset"} => gld = "stopped"

\* afe_intrlock and afe_xmtlock are held where the code says, and inside
\* afe_startmac the flags and GLD's view of the MAC are known.
THEOREM CtlInvariant == Spec => []CtlInv
<1> USE DEF flagVars, lockVars, txVars, rxVars, regVars, posVars, intrVars, sendVars, ctlVars
<1>1. Init => CtlInv
  BY DEF Init, CtlInv
<1>2. TypeInv /\ CtlInv /\ [Next]_vars => CtlInv'
  <2> SUFFICES ASSUME TypeInv, CtlInv, [Next]_vars PROVE CtlInv'
    OBVIOUS
  <2> USE DEF TypeInv, FieldTypes, CtlInv
  <2>1. ASSUME NEW s \in Senders, SendGetBuf(s) PROVE CtlInv'
    BY <2>1 DEF SendGetBuf
  <2>2. ASSUME NEW s \in Senders, SendRefused(s) PROVE CtlInv'
    BY <2>2 DEF SendRefused
  <2>30. ASSUME NEW s \in Senders, SendFreeBuf(s) PROVE CtlInv'
    BY <2>30 DEF SendFreeBuf
  <2>3. ASSUME NEW s \in Senders, SendQueued(s) PROVE CtlInv'
    BY <2>3 DEF SendQueued
  <2>4. CASE FillRxSlot
    BY <2>4 DEF FillRxSlot, InStartMac
  <2>5. CASE StartMacFails
    BY <2>5 DEF StartMacFails, LeaveStartMac, InStartMac
  <2>6. CASE StartMacDone
    BY <2>6 DEF StartMacDone, LeaveStartMac, InStartMac
  <2>7. CASE IntrRead
    BY <2>7 DEF IntrRead
  <2>8. CASE IntrAck
    BY <2>8 DEF IntrAck, Acknowledge, Continue
  <2>9. CASE IntrRxFrame
    BY <2>9 DEF IntrRxFrame
  <2>10. CASE IntrRxDone
    BY <2>10 DEF IntrRxDone, Adjusted, Continue, AfterReceive, AfterReclaim
  <2>11. CASE IntrReclaim
    BY <2>11 DEF IntrReclaim, Completed
  <2>12. CASE IntrReclaimDone
    BY <2>12 DEF IntrReclaimDone, Completed
  <2>13. CASE IntrSched
    BY <2>13 DEF IntrSched, Wake, Continue, AfterReclaim
  <2>14. CASE IntrLink
    BY <2>14 DEF IntrLink, Continue, AfterReclaim
  <2>15. CASE IntrLockI
    BY <2>15 DEF IntrLockI
  <2>16. CASE IntrReset
    BY <2>16 DEF IntrReset, ResetWanted, EmptyRings, ReturnBufs, ResetPointers, StopMac
  <2>17. CASE IntrNoReset
    BY <2>17 DEF IntrNoReset, ResetWanted
  <2>18. ASSUME NEW op \in {"start", "stop", "suspend", "resume", "reset"}, CtlEnter(op) PROVE CtlInv'
    BY <2>18 DEF CtlEnter
  <2>19. CASE CtlStart
    BY <2>19 DEF CtlStart, EmptyRings, ReturnBufs, ResetPointers
  <2>20. CASE CtlStop
    BY <2>20 DEF CtlStop, StopMac, CtlLeave
  <2>21. CASE CtlReset
    BY <2>21 DEF CtlReset, ResetChip, CtlLeave
  <2>22. CASE CtlSuspend
    BY <2>22 DEF CtlSuspend, StopMac, CtlLeave
  <2>23. CASE CtlResumeFails
    BY <2>23 DEF CtlResumeFails, CtlLeave
  <2>24. CASE CtlResume
    BY <2>24 DEF CtlResume, ResetChip, CtlLeave, EmptyRings, ReturnBufs, ResetPointers
  <2>25. ASSUME NEW bit \in TxBits, ChipTx(bit) PROVE CtlInv'
    BY <2>25 DEF ChipTx
  <2>26. CASE ChipRx
    BY <2>26 DEF ChipRx
  <2>27. ASSUME NEW bit \in {"rxnobuf", "berr", "link"}, ChipRaise(bit) PROVE CtlInv'
    BY <2>27 DEF ChipRaise
  <2>28. CASE UNCHANGED vars
    BY <2>28 DEF vars
  <2>29. QED
    BY <2>1, <2>2, <2>3, <2>4, <2>5, <2>6, <2>7, <2>8, <2>9, <2>10,
       <2>11, <2>12, <2>13, <2>14, <2>15, <2>16, <2>17, <2>18, <2>19,
       <2>20, <2>21, <2>22, <2>23, <2>24, <2>25, <2>26, <2>27, <2>28, <2>30
       DEF Next, SendNext, StartMacNext, IntrNext, IntrWork, CtlNext, CtlWork, ChipNext
<1>3. QED  BY <1>1, <1>2, TypeInvariant, PTL DEF Spec

(***************************************************************************)
(* A MAC that is not running is silent.                                    *)
(***************************************************************************)
QuietInv ==
    /\ StoppedQuiet
    /\ InStartMac => nar = {}
    /\ "rxnobuf" \in sr2 => "rx" \in nar
    /\ "rxnobuf" \in istat /\ ipc \in {"ack", "rx"} => "rx" \in nar

\* The engines are off while afe_startmac fills the rings and while the MAC
\* is not running; a pending "no receive buffer" is that of a receiver that
\* is on, so restarting it starts nothing that was stopped.
THEOREM QuietInvariant == Spec => []QuietInv
<1> USE DEF flagVars, lockVars, txVars, rxVars, regVars, posVars, intrVars, sendVars, ctlVars
<1>1. Init => QuietInv
  BY DEF Init, QuietInv, StoppedQuiet, InStartMac
<1>2. TypeInv /\ CtlInv /\ QuietInv /\ [Next]_vars => QuietInv'
  <2> SUFFICES ASSUME TypeInv, CtlInv, QuietInv, [Next]_vars PROVE QuietInv'
    OBVIOUS
  <2> USE DEF TypeInv, FieldTypes, CtlInv, QuietInv, StoppedQuiet, InStartMac
  <2>1. ASSUME NEW s \in Senders, SendGetBuf(s) PROVE QuietInv'
    BY <2>1 DEF SendGetBuf
  <2>2. ASSUME NEW s \in Senders, SendRefused(s) PROVE QuietInv'
    BY <2>2 DEF SendRefused
  <2>30. ASSUME NEW s \in Senders, SendFreeBuf(s) PROVE QuietInv'
    BY <2>30 DEF SendFreeBuf
  <2>3. ASSUME NEW s \in Senders, SendQueued(s) PROVE QuietInv'
    BY <2>3 DEF SendQueued
  <2>4. CASE FillRxSlot
    BY <2>4 DEF FillRxSlot
  <2>5. CASE StartMacFails
    BY <2>5 DEF StartMacFails, LeaveStartMac
  <2>6. CASE StartMacDone
    BY <2>6 DEF StartMacDone, LeaveStartMac
  <2>7. CASE IntrRead
    BY <2>7 DEF IntrRead
  <2>8. CASE IntrAck
    BY <2>8 DEF IntrAck, Acknowledge, Continue
  <2>9. CASE IntrRxFrame
    BY <2>9 DEF IntrRxFrame
  <2>10. CASE IntrRxDone
    BY <2>10 DEF IntrRxDone, Adjusted, Continue, AfterReceive, AfterReclaim
  <2>11. CASE IntrReclaim
    BY <2>11 DEF IntrReclaim, Completed
  <2>12. CASE IntrReclaimDone
    BY <2>12 DEF IntrReclaimDone, Completed
  <2>13. CASE IntrSched
    BY <2>13 DEF IntrSched, Wake, Continue, AfterReclaim
  <2>14. CASE IntrLink
    BY <2>14 DEF IntrLink, Continue, AfterReclaim
  <2>15. CASE IntrLockI
    BY <2>15 DEF IntrLockI
  <2>16. CASE IntrReset
    BY <2>16 DEF IntrReset, ResetWanted, EmptyRings, ReturnBufs, ResetPointers, StopMac
  <2>17. CASE IntrNoReset
    BY <2>17 DEF IntrNoReset, ResetWanted
  <2>18. ASSUME NEW op \in {"start", "stop", "suspend", "resume", "reset"}, CtlEnter(op) PROVE QuietInv'
    BY <2>18 DEF CtlEnter
  <2>19. CASE CtlStart
    BY <2>19 DEF CtlStart, EmptyRings, ReturnBufs, ResetPointers
  <2>20. CASE CtlStop
    BY <2>20 DEF CtlStop, StopMac, CtlLeave
  <2>21. CASE CtlReset
    BY <2>21 DEF CtlReset, ResetChip, CtlLeave
  <2>22. CASE CtlSuspend
    BY <2>22 DEF CtlSuspend, StopMac, CtlLeave
  <2>23. CASE CtlResumeFails
    BY <2>23 DEF CtlResumeFails, CtlLeave
  <2>24. CASE CtlResume
    BY <2>24 DEF CtlResume, ResetChip, CtlLeave, EmptyRings, ReturnBufs, ResetPointers
  <2>25. ASSUME NEW bit \in TxBits, ChipTx(bit) PROVE QuietInv'
    BY <2>25 DEF ChipTx, TxBits
  <2>26. CASE ChipRx
    BY <2>26 DEF ChipRx
  <2>27. ASSUME NEW bit \in {"rxnobuf", "berr", "link"}, ChipRaise(bit) PROVE QuietInv'
    BY <2>27 DEF ChipRaise
  <2>28. CASE UNCHANGED vars
    BY <2>28 DEF vars
  <2>29. QED
    BY <2>1, <2>2, <2>3, <2>4, <2>5, <2>6, <2>7, <2>8, <2>9, <2>10,
       <2>11, <2>12, <2>13, <2>14, <2>15, <2>16, <2>17, <2>18, <2>19,
       <2>20, <2>21, <2>22, <2>23, <2>24, <2>25, <2>26, <2>27, <2>28, <2>30
       DEF Next, SendNext, StartMacNext, IntrNext, IntrWork, CtlNext, CtlWork, ChipNext
<1>3. QED  BY <1>1, <1>2, TypeInvariant, CtlInvariant, PTL DEF Spec
-----------------------------------------------------------------------------
(***************************************************************************)
(* The transmit ring is a window.  Emptying the rings makes it the empty   *)
(* window; sending, completing and reclaiming move one of its ends.        *)
(***************************************************************************)
TxInv == TxRingOK /\ (InStartMac => txavail = TxRing)

\* After the first part of afe_startmac the ring is the empty window.
LEMMA EmptyTxWindow ==
    ASSUME EmptyRings PROVE TxRingOK' /\ txavail' = TxRing
<1>1. /\ txavail' = TxRing /\ txreclaim' = 0 /\ txsend' = 0 /\ chiptx' = 0
      /\ txown' = {} /\ \A i \in TxSlots : txbufs'[i] = NoBuf
  BY DEF EmptyRings, ReturnBufs, ResetPointers
<1>2. TxWindowAt(0)'
  BY <1>1 DEF TxWindowAt, Dist, TxSlots
<1>3. 0 \in 0 .. TxRing - txavail'
  BY <1>1
<1>4. QED
  BY <1>1, <1>2, <1>3 DEF TxRingOK

\* afe_send extends the window at afe_txsend.
LEMMA SendMovesWindow ==
    ASSUME TypeInv, NEW c \in 0 .. TxRing - txavail, TxWindowAt(c),
           NEW s \in Senders, SendQueued(s)
    PROVE  c \in 0 .. TxRing - txavail' /\ TxWindowAt(c)'
<1>1. Succ(txsend, TxRing) = IF txsend + 1 = TxRing THEN 0 ELSE txsend + 1
  BY SuccRing DEF TypeInv, FieldTypes, TxSlots
<1>2. sbuf[s] # NoBuf
  <2>1. spc[s] = "copy"
    BY DEF SendQueued
  <2>2. QED
    BY <2>1 DEF TypeInv, SenderHolds
<1>3. TxWindowAt(c)'
  BY <1>1, <1>2 DEF TypeInv, FieldTypes, SendQueued, TxWindowAt, Dist, TxSlots, rxVars, posVars
<1>4. c \in 0 .. TxRing - txavail'
  BY DEF TypeInv, FieldTypes, SendQueued
<1>5. QED
  BY <1>3, <1>4

\* The chip moves the boundary between done and owned slots.
LEMMA ChipMovesWindow ==
    ASSUME TypeInv, NEW c \in 0 .. TxRing - txavail, TxWindowAt(c),
           NEW bit, ChipTx(bit)
    PROVE  c + 1 \in 0 .. TxRing - txavail' /\ TxWindowAt(c + 1)'
<1>1. Succ(chiptx, TxRing) = IF chiptx + 1 = TxRing THEN 0 ELSE chiptx + 1
  BY SuccRing DEF TypeInv, FieldTypes, TxSlots
<1>2. c + 1 \in 0 .. TxRing - txavail'
  BY DEF TypeInv, FieldTypes, ChipTx, TxWindowAt, Dist, TxSlots
<1>3. TxWindowAt(c + 1)'
  BY <1>1, <1>2 DEF TypeInv, FieldTypes, ChipTx, TxWindowAt, Dist, TxSlots
<1>4. QED
  BY <1>2, <1>3

\* afe_reclaim shortens the window at afe_txreclaim.
LEMMA ReclaimMovesWindow ==
    ASSUME TypeInv, NEW c \in 0 .. TxRing - txavail, TxWindowAt(c), IntrReclaim
    PROVE  c >= 1 /\ c - 1 \in 0 .. TxRing - txavail' /\ TxWindowAt(c - 1)'
<1>1. Succ(txreclaim, TxRing) = IF txreclaim + 1 = TxRing THEN 0 ELSE txreclaim + 1
  BY SuccRing DEF TypeInv, FieldTypes, TxSlots
<1>2. c >= 1 /\ c - 1 \in 0 .. TxRing - txavail'
  BY DEF TypeInv, FieldTypes, IntrReclaim, Completed, TxWindowAt, Dist, TxSlots
<1>3. TxWindowAt(c - 1)'
  BY <1>1, <1>2 DEF TypeInv, FieldTypes, IntrReclaim, Completed, TxWindowAt, Dist, TxSlots, posVars
<1>4. QED
  BY <1>2, <1>3

\* The transmit ring is a window in every state, and empty throughout
\* afe_startmac.
THEOREM TxInvariant == Spec => []TxInv
<1> USE DEF flagVars, lockVars, txVars, rxVars, regVars, posVars, intrVars, sendVars, ctlVars
<1>1. Init => TxInv
  <2>1. Init => TxWindowAt(0) /\ 0 \in 0 .. TxRing - txavail
    BY DEF Init, TxWindowAt, Dist, TxSlots
  <2>2. QED
    BY <2>1 DEF Init, TxInv, TxRingOK, InStartMac
<1>2. TypeInv /\ CtlInv /\ QuietInv /\ TxInv /\ [Next]_vars => TxInv'
  <2> SUFFICES ASSUME TypeInv, CtlInv, QuietInv, TxInv, [Next]_vars PROVE TxInv'
    OBVIOUS
  <2>1. ASSUME NEW s \in Senders, SendGetBuf(s) PROVE TxInv'
    BY <2>1 DEF SendGetBuf, TxInv, TxRingOK, TxWindowAt, InStartMac
  <2>2. ASSUME NEW s \in Senders, SendRefused(s) PROVE TxInv'
    BY <2>2 DEF SendRefused, TxInv, TxRingOK, TxWindowAt, InStartMac
  <2>30. ASSUME NEW s \in Senders, SendFreeBuf(s) PROVE TxInv'
    BY <2>30 DEF SendFreeBuf, TxInv, TxRingOK, TxWindowAt, InStartMac
  <2>3. ASSUME NEW s \in Senders, SendQueued(s) PROVE TxInv'
    <3>1. ~InStartMac' /\ TxRingOK
      BY <2>3 DEF SendQueued, CtlInv, TxInv, TxRingOK, InStartMac
    <3>2. PICK c \in 0 .. TxRing - txavail : TxWindowAt(c)
      BY <3>1 DEF TxRingOK
    <3>3. QED
      BY <3>1, <3>2, <2>3, SendMovesWindow DEF TxInv, TxRingOK
  <2>4. CASE FillRxSlot
    BY <2>4 DEF FillRxSlot, TxInv, TxRingOK, TxWindowAt, InStartMac
  <2>5. CASE StartMacFails
    BY <2>5 DEF StartMacFails, LeaveStartMac, TxInv, TxRingOK, TxWindowAt, InStartMac
  <2>6. CASE StartMacDone
    BY <2>6 DEF StartMacDone, LeaveStartMac, TxInv, TxRingOK, TxWindowAt, InStartMac
  <2>7. CASE IntrRead
    BY <2>7 DEF IntrRead, TxInv, TxRingOK, TxWindowAt, InStartMac
  <2>8. CASE IntrAck
    BY <2>8 DEF IntrAck, Acknowledge, Continue, TxInv, TxRingOK, TxWindowAt, InStartMac
  <2>9. CASE IntrRxFrame
    BY <2>9 DEF IntrRxFrame, TxInv, TxRingOK, TxWindowAt, InStartMac
  <2>10. CASE IntrRxDone
    BY <2>10 DEF IntrRxDone, Adjusted, Continue, AfterReceive, AfterReclaim, TxInv, TxRingOK, TxWindowAt, InStartMac
  <2>11. CASE IntrReclaim
    <3>1. ~InStartMac' /\ TxRingOK
      BY <2>11 DEF IntrReclaim, Completed, TypeInv, FieldTypes, CtlInv, TxInv, TxRingOK, InStartMac
    <3>2. PICK c \in 0 .. TxRing - txavail : TxWindowAt(c)
      BY <3>1 DEF TxRingOK
    <3>3. QED
      BY <3>1, <3>2, <2>11, ReclaimMovesWindow DEF TxInv, TxRingOK
  <2>12. CASE IntrReclaimDone
    BY <2>12 DEF IntrReclaimDone, Completed, TxInv, TxRingOK, TxWindowAt, InStartMac
  <2>13. CASE IntrSched
    BY <2>13 DEF IntrSched, Wake, Continue, AfterReclaim, TxInv, TxRingOK, TxWindowAt, InStartMac
  <2>14. CASE IntrLink
    BY <2>14 DEF IntrLink, Continue, AfterReclaim, TxInv, TxRingOK, TxWindowAt, InStartMac
  <2>15. CASE IntrLockI
    BY <2>15 DEF IntrLockI, TxInv, TxRingOK, TxWindowAt, InStartMac
  <2>16. CASE IntrReset
    BY <2>16, EmptyTxWindow DEF IntrReset, ResetWanted, TxInv, TxRingOK
  <2>17. CASE IntrNoReset
    BY <2>17 DEF IntrNoReset, ResetWanted, TxInv, TxRingOK, TxWindowAt, InStartMac
  <2>18. ASSUME NEW op \in {"start", "stop", "suspend", "resume", "reset"}, CtlEnter(op) PROVE TxInv'
    BY <2>18 DEF CtlEnter, TxInv, TxRingOK, TxWindowAt, InStartMac
  <2>19. CASE CtlStart
    BY <2>19, EmptyTxWindow DEF CtlStart, TxInv, TxRingOK
  <2>20. CASE CtlStop
    BY <2>20 DEF CtlStop, StopMac, CtlLeave, TxInv, TxRingOK, TxWindowAt, InStartMac
  <2>21. CASE CtlReset
    BY <2>21 DEF CtlReset, ResetChip, CtlLeave, TxInv, TxRingOK, TxWindowAt, InStartMac
  <2>22. CASE CtlSuspend
    BY <2>22 DEF CtlSuspend, StopMac, CtlLeave, TxInv, TxRingOK, TxWindowAt, InStartMac
  <2>23. CASE CtlResumeFails
    BY <2>23 DEF CtlResumeFails, CtlLeave, TxInv, TxRingOK, TxWindowAt, InStartMac
  <2>24. CASE CtlResume
    <3>1. CASE "running" \in flags
      BY <3>1, <2>24, EmptyTxWindow DEF CtlResume, TxInv, TxRingOK
    <3>2. CASE "running" \notin flags
      BY <3>2, <2>24 DEF CtlResume, ResetChip, CtlLeave, EmptyRings, ReturnBufs, ResetPointers, TxInv, TxRingOK, TxWindowAt, InStartMac
    <3>3. QED
      BY <3>1, <3>2
  <2>25. ASSUME NEW bit \in TxBits, ChipTx(bit) PROVE TxInv'
    <3>1. ~InStartMac' /\ TxRingOK
      BY <2>25 DEF ChipTx, QuietInv, TxInv, TxRingOK, InStartMac
    <3>2. PICK c \in 0 .. TxRing - txavail : TxWindowAt(c)
      BY <3>1 DEF TxRingOK
    <3>3. QED
      BY <3>1, <3>2, <2>25, ChipMovesWindow DEF TxInv, TxRingOK
  <2>26. CASE ChipRx
    BY <2>26 DEF ChipRx, TxInv, TxRingOK, TxWindowAt, InStartMac
  <2>27. ASSUME NEW bit \in {"rxnobuf", "berr", "link"}, ChipRaise(bit) PROVE TxInv'
    BY <2>27 DEF ChipRaise, TxInv, TxRingOK, TxWindowAt, InStartMac
  <2>28. CASE UNCHANGED vars
    BY <2>28 DEF vars, TxInv, TxRingOK, TxWindowAt, InStartMac
  <2>29. QED
    BY <2>1, <2>2, <2>3, <2>4, <2>5, <2>6, <2>7, <2>8, <2>9, <2>10,
       <2>11, <2>12, <2>13, <2>14, <2>15, <2>16, <2>17, <2>18, <2>19,
       <2>20, <2>21, <2>22, <2>23, <2>24, <2>25, <2>26, <2>27, <2>28, <2>30
       DEF Next, SendNext, StartMacNext, IntrNext, IntrWork, CtlNext, CtlWork, ChipNext
<1>3. QED
  BY <1>1, <1>2, TypeInvariant, CtlInvariant, QuietInvariant, PTL DEF Spec
-----------------------------------------------------------------------------
(***************************************************************************)
(* Buffers.  A slot is NULL when a buffer is put in it: the send pointer   *)
(* by the window, the receive slots by the order they are filled in.       *)
(***************************************************************************)
OwnInv ==
    /\ BufferOwnership
    /\ InStartMac => \A j \in RxSlots : j >= fill => rxbufs[j] = NoBuf

\* afe_startmac gives every ring buffer back to the pool exactly once.
LEMMA EmptyingKeepsAll ==
    ASSUME TypeInv, OwnInv, EmptyRings, sbuf' = sbuf
    PROVE  OwnInv'
<1>1. /\ \A i \in TxSlots : txbufs'[i] = NoBuf
      /\ \A i \in RxSlots : rxbufs'[i] = NoBuf
  BY DEF EmptyRings, ReturnBufs, ResetPointers
<1>2. \A b \in Bufs : b \in free' <=> ~ \E s \in Senders : sbuf[s] = b
  BY DEF EmptyRings, ReturnBufs, ResetPointers, TypeInv, FieldTypes, OwnInv, BufferOwnership, NoneLost, NoneShared
<1>3. NoBuf \notin free'
  BY DEF EmptyRings, ReturnBufs, ResetPointers, TypeInv, FieldTypes
<1>4. QED
  BY <1>1, <1>2, <1>3
     DEF TypeInv, FieldTypes, OwnInv, BufferOwnership, NoneLost, NoneShared

\* Every buffer is in exactly one place, and the slots afe_startmac has yet
\* to fill hold none.
THEOREM OwnInvariant == Spec => []OwnInv
<1> USE DEF flagVars, lockVars, txVars, rxVars, regVars, posVars, intrVars, sendVars, ctlVars
<1>1. Init => OwnInv
  BY DEF Init, OwnInv, BufferOwnership, NoneLost, NoneShared, InStartMac
<1>2. TypeInv /\ CtlInv /\ TxInv /\ OwnInv /\ [Next]_vars => OwnInv'
  <2> SUFFICES ASSUME TypeInv, CtlInv, TxInv, OwnInv, [Next]_vars PROVE OwnInv'
    OBVIOUS
  <2>1. ASSUME NEW s \in Senders, SendGetBuf(s) PROVE OwnInv'
    <3>1. NoneLost'
      BY <2>1 DEF SendGetBuf, OwnInv, BufferOwnership, NoneLost, TypeInv, FieldTypes, SenderHolds
    <3>2. NoneShared'
      BY <2>1 DEF SendGetBuf, OwnInv, BufferOwnership, NoneShared, TypeInv, FieldTypes, SenderHolds
    <3>3. InStartMac' => \A j \in RxSlots : j >= fill' => rxbufs'[j] = NoBuf
      BY <2>1 DEF SendGetBuf, OwnInv, InStartMac, TypeInv, FieldTypes, CtlInv
    <3>4. QED
      BY <3>1, <3>2, <3>3 DEF OwnInv, BufferOwnership
  <2>2. ASSUME NEW s \in Senders, SendRefused(s) PROVE OwnInv'
    <3>1. NoneLost'
      BY <2>2 DEF SendRefused, OwnInv, BufferOwnership, NoneLost, TypeInv, FieldTypes, SenderHolds
    <3>2. NoneShared'
      BY <2>2 DEF SendRefused, OwnInv, BufferOwnership, NoneShared, TypeInv, FieldTypes, SenderHolds
    <3>3. InStartMac' => \A j \in RxSlots : j >= fill' => rxbufs'[j] = NoBuf
      BY <2>2 DEF SendRefused, OwnInv, InStartMac, TypeInv, FieldTypes, CtlInv
    <3>4. QED
      BY <3>1, <3>2, <3>3 DEF OwnInv, BufferOwnership
  <2>30. ASSUME NEW s \in Senders, SendFreeBuf(s) PROVE OwnInv'
    <3>1. NoneLost'
      BY <2>30 DEF SendFreeBuf, OwnInv, BufferOwnership, NoneLost, TypeInv, FieldTypes, SenderHolds
    <3>2. NoneShared'
      BY <2>30 DEF SendFreeBuf, OwnInv, BufferOwnership, NoneShared, TypeInv, FieldTypes, SenderHolds
    <3>3. InStartMac' => \A j \in RxSlots : j >= fill' => rxbufs'[j] = NoBuf
      BY <2>30 DEF SendFreeBuf, OwnInv, InStartMac, TypeInv, FieldTypes, CtlInv
    <3>4. QED
      BY <3>1, <3>2, <3>3 DEF OwnInv, BufferOwnership
  <2>3. ASSUME NEW s \in Senders, SendQueued(s) PROVE OwnInv'
    <3> txbufs[txsend] = NoBuf
      BY <2>3 DEF SendQueued, TxInv, TxRingOK, TxWindowAt, Dist, TxSlots, TypeInv, FieldTypes
    <3>1. NoneLost'
      BY <2>3 DEF SendQueued, OwnInv, BufferOwnership, NoneLost, TypeInv, FieldTypes, SenderHolds
    <3>2. NoneShared'
      BY <2>3 DEF SendQueued, OwnInv, BufferOwnership, NoneShared, TypeInv, FieldTypes, SenderHolds
    <3>3. InStartMac' => \A j \in RxSlots : j >= fill' => rxbufs'[j] = NoBuf
      BY <2>3 DEF SendQueued, OwnInv, InStartMac, TypeInv, FieldTypes, CtlInv
    <3>4. QED
      BY <3>1, <3>2, <3>3 DEF OwnInv, BufferOwnership
  <2>4. CASE FillRxSlot
    <3> rxbufs[fill] = NoBuf /\ fill \in RxSlots
      BY <2>4 DEF FillRxSlot, OwnInv, RxSlots, TypeInv, FieldTypes
    <3>1. NoneLost'
      BY <2>4 DEF FillRxSlot, OwnInv, BufferOwnership, NoneLost, TypeInv, FieldTypes, SenderHolds
    <3>2. NoneShared'
      BY <2>4 DEF FillRxSlot, OwnInv, BufferOwnership, NoneShared, TypeInv, FieldTypes, SenderHolds
    <3>3. InStartMac' => \A j \in RxSlots : j >= fill' => rxbufs'[j] = NoBuf
      BY <2>4 DEF FillRxSlot, OwnInv, InStartMac, TypeInv, FieldTypes, RxSlots
    <3>4. QED
      BY <3>1, <3>2, <3>3 DEF OwnInv, BufferOwnership
  <2>5. CASE StartMacFails
    BY <2>5 DEF StartMacFails, LeaveStartMac, OwnInv, BufferOwnership, NoneLost, NoneShared, InStartMac
  <2>6. CASE StartMacDone
    BY <2>6 DEF StartMacDone, LeaveStartMac, OwnInv, BufferOwnership, NoneLost, NoneShared, InStartMac
  <2>7. CASE IntrRead
    BY <2>7 DEF IntrRead, OwnInv, BufferOwnership, NoneLost, NoneShared, InStartMac
  <2>8. CASE IntrAck
    BY <2>8 DEF IntrAck, Acknowledge, Continue, OwnInv, BufferOwnership, NoneLost, NoneShared, InStartMac
  <2>9. CASE IntrRxFrame
    BY <2>9 DEF IntrRxFrame, OwnInv, BufferOwnership, NoneLost, NoneShared, InStartMac
  <2>10. CASE IntrRxDone
    BY <2>10 DEF IntrRxDone, Adjusted, Continue, AfterReceive, AfterReclaim, OwnInv, BufferOwnership, NoneLost, NoneShared, InStartMac
  <2>11. CASE IntrReclaim
    <3>1. NoneLost'
      BY <2>11 DEF IntrReclaim, Completed, OwnInv, BufferOwnership, NoneLost, TypeInv, FieldTypes, SenderHolds
    <3>2. NoneShared'
      BY <2>11 DEF IntrReclaim, Completed, OwnInv, BufferOwnership, NoneShared, TypeInv, FieldTypes, SenderHolds
    <3>3. InStartMac' => \A j \in RxSlots : j >= fill' => rxbufs'[j] = NoBuf
      BY <2>11 DEF IntrReclaim, Completed, OwnInv, InStartMac, TypeInv, FieldTypes, CtlInv
    <3>4. QED
      BY <3>1, <3>2, <3>3 DEF OwnInv, BufferOwnership
  <2>12. CASE IntrReclaimDone
    BY <2>12 DEF IntrReclaimDone, Completed, OwnInv, BufferOwnership, NoneLost, NoneShared, InStartMac
  <2>13. CASE IntrSched
    BY <2>13 DEF IntrSched, Wake, Continue, AfterReclaim, OwnInv, BufferOwnership, NoneLost, NoneShared, InStartMac
  <2>14. CASE IntrLink
    BY <2>14 DEF IntrLink, Continue, AfterReclaim, OwnInv, BufferOwnership, NoneLost, NoneShared, InStartMac
  <2>15. CASE IntrLockI
    BY <2>15 DEF IntrLockI, OwnInv, BufferOwnership, NoneLost, NoneShared, InStartMac
  <2>16. CASE IntrReset
    BY <2>16, EmptyingKeepsAll DEF IntrReset, ResetWanted
  <2>17. CASE IntrNoReset
    BY <2>17 DEF IntrNoReset, ResetWanted, OwnInv, BufferOwnership, NoneLost, NoneShared, InStartMac
  <2>18. ASSUME NEW op \in {"start", "stop", "suspend", "resume", "reset"}, CtlEnter(op) PROVE OwnInv'
    BY <2>18 DEF CtlEnter, OwnInv, BufferOwnership, NoneLost, NoneShared, InStartMac
  <2>19. CASE CtlStart
    BY <2>19, EmptyingKeepsAll DEF CtlStart
  <2>20. CASE CtlStop
    BY <2>20 DEF CtlStop, StopMac, CtlLeave, OwnInv, BufferOwnership, NoneLost, NoneShared, InStartMac
  <2>21. CASE CtlReset
    BY <2>21 DEF CtlReset, ResetChip, CtlLeave, OwnInv, BufferOwnership, NoneLost, NoneShared, InStartMac
  <2>22. CASE CtlSuspend
    BY <2>22 DEF CtlSuspend, StopMac, CtlLeave, OwnInv, BufferOwnership, NoneLost, NoneShared, InStartMac
  <2>23. CASE CtlResumeFails
    BY <2>23 DEF CtlResumeFails, CtlLeave, OwnInv, BufferOwnership, NoneLost, NoneShared, InStartMac
  <2>24. CASE CtlResume
    <3>1. CASE "running" \in flags
      BY <3>1, <2>24, EmptyingKeepsAll DEF CtlResume
    <3>2. CASE "running" \notin flags
      BY <3>2, <2>24 DEF CtlResume, ResetChip, CtlLeave, EmptyRings, ReturnBufs, ResetPointers, CtlInv, OwnInv, BufferOwnership, NoneLost, NoneShared, InStartMac
    <3>3. QED
      BY <3>1, <3>2
  <2>25. ASSUME NEW bit \in TxBits, ChipTx(bit) PROVE OwnInv'
    BY <2>25 DEF ChipTx, OwnInv, BufferOwnership, NoneLost, NoneShared, InStartMac
  <2>26. CASE ChipRx
    BY <2>26 DEF ChipRx, OwnInv, BufferOwnership, NoneLost, NoneShared, InStartMac
  <2>27. ASSUME NEW bit \in {"rxnobuf", "berr", "link"}, ChipRaise(bit) PROVE OwnInv'
    BY <2>27 DEF ChipRaise, OwnInv, BufferOwnership, NoneLost, NoneShared, InStartMac
  <2>28. CASE UNCHANGED vars
    BY <2>28 DEF vars, OwnInv, BufferOwnership, NoneLost, NoneShared, InStartMac
  <2>29. QED
    BY <2>1, <2>2, <2>3, <2>4, <2>5, <2>6, <2>7, <2>8, <2>9, <2>10,
       <2>11, <2>12, <2>13, <2>14, <2>15, <2>16, <2>17, <2>18, <2>19,
       <2>20, <2>21, <2>22, <2>23, <2>24, <2>25, <2>26, <2>27, <2>28, <2>30
       DEF Next, SendNext, StartMacNext, IntrNext, IntrWork, CtlNext, CtlWork, ChipNext
<1>3. QED
  BY <1>1, <1>2, TypeInvariant, CtlInvariant, TxInvariant, PTL DEF Spec
-----------------------------------------------------------------------------
(***************************************************************************)
(* The receive ring.  afe_startmac arms its slots in order; the engine     *)
(* runs only once all are armed.                                           *)
(***************************************************************************)
RxInv ==
    /\ RxRingOK
    /\ InStartMac => /\ rxcurrent = 0 /\ chiprx = 0
                     /\ \A j \in RxSlots : j < fill =>
                           j \in rxown /\ rxbufs[j] # NoBuf /\ rxaddr[j] = rxbufs[j]

\* The receive ring is consistent whenever the engine is on, and afe_startmac
\* has armed the slots below "fill".
THEOREM RxInvariant == Spec => []RxInv
<1> USE DEF flagVars, lockVars, txVars, rxVars, regVars, posVars, intrVars, sendVars, ctlVars
<1>1. Init => RxInv
  BY DEF Init, RxInv, RxRingOK, InStartMac
<1>2. TypeInv /\ CtlInv /\ QuietInv /\ RxInv /\ [Next]_vars => RxInv'
  <2> SUFFICES ASSUME TypeInv, CtlInv, QuietInv, RxInv, [Next]_vars PROVE RxInv'
    OBVIOUS
  <2>1. ASSUME NEW s \in Senders, SendGetBuf(s) PROVE RxInv'
    BY <2>1 DEF SendGetBuf, RxInv, RxRingOK, RxWindowAt, InStartMac
  <2>2. ASSUME NEW s \in Senders, SendRefused(s) PROVE RxInv'
    BY <2>2 DEF SendRefused, RxInv, RxRingOK, RxWindowAt, InStartMac
  <2>30. ASSUME NEW s \in Senders, SendFreeBuf(s) PROVE RxInv'
    BY <2>30 DEF SendFreeBuf, RxInv, RxRingOK, RxWindowAt, InStartMac
  <2>3. ASSUME NEW s \in Senders, SendQueued(s) PROVE RxInv'
    BY <2>3 DEF SendQueued, RxInv, RxRingOK, RxWindowAt, InStartMac
  <2>4. CASE FillRxSlot
    BY <2>4 DEF FillRxSlot, RxInv, RxRingOK, RxWindowAt, InStartMac, QuietInv, TypeInv, FieldTypes, RxSlots
  <2>5. CASE StartMacFails
    BY <2>5 DEF StartMacFails, LeaveStartMac, RxInv, RxRingOK, RxWindowAt, InStartMac, QuietInv, CtlInv
  <2>6. CASE StartMacDone
    <3>1. RxWindowAt(0)
      BY <2>6 DEF StartMacDone, RxInv, RxWindowAt, Dist, RxSlots, TypeInv, FieldTypes
    <3>2. ~InStartMac'
      BY <2>6 DEF StartMacDone, LeaveStartMac, InStartMac, CtlInv
    <3>3. \A i \in RxSlots : rxbufs[i] # NoBuf /\ rxaddr[i] = rxbufs[i]
      BY <2>6 DEF StartMacDone, RxInv, RxSlots, TypeInv, FieldTypes
    <3>4. RxWindowAt(0)' /\ 0 \in 0 .. RxRing
      BY <3>1, <2>6 DEF StartMacDone, LeaveStartMac, RxWindowAt
    <3>5. QED
      BY <3>2, <3>3, <3>4, <2>6 DEF StartMacDone, LeaveStartMac, RxInv, RxRingOK
  <2>7. CASE IntrRead
    BY <2>7 DEF IntrRead, RxInv, RxRingOK, RxWindowAt, InStartMac
  <2>8. CASE IntrAck
    BY <2>8 DEF IntrAck, Acknowledge, Continue, RxInv, RxRingOK, RxWindowAt, InStartMac
  <2>9. CASE IntrRxFrame
    <3>1. ~InStartMac /\ ~InStartMac'
      BY <2>9 DEF IntrRxFrame, InStartMac, CtlInv, QuietInv, TypeInv, FieldTypes
    <3>2. CASE "rx" \in nar
      <4>1. PICK c \in 0 .. RxRing : RxWindowAt(c)
        BY <3>2 DEF RxInv, RxRingOK
      <4>2. Succ(rxcurrent, RxRing) = IF rxcurrent + 1 = RxRing THEN 0 ELSE rxcurrent + 1
        BY SuccRing DEF TypeInv, FieldTypes, RxSlots
      <4>3. c - 1 \in 0 .. RxRing
        BY <4>1, <2>9 DEF IntrRxFrame, RxWindowAt, Dist, RxSlots, TypeInv, FieldTypes
      <4>4. RxWindowAt(c - 1)'
        BY <4>1, <4>2, <4>3, <2>9 DEF IntrRxFrame, RxWindowAt, Dist, RxSlots, TypeInv, FieldTypes
      <4>5. QED
        BY <3>1, <3>2, <4>3, <4>4, <2>9 DEF IntrRxFrame, RxInv, RxRingOK
    <3>3. CASE "rx" \notin nar
      BY <3>1, <3>3, <2>9 DEF IntrRxFrame, RxInv, RxRingOK
    <3>4. QED
      BY <3>2, <3>3
  <2>10. CASE IntrRxDone
    BY <2>10 DEF IntrRxDone, Adjusted, Continue, AfterReceive, AfterReclaim, RxInv, RxRingOK, RxWindowAt, InStartMac, QuietInv, CtlInv, TypeInv, FieldTypes
  <2>11. CASE IntrReclaim
    BY <2>11 DEF IntrReclaim, Completed, RxInv, RxRingOK, RxWindowAt, InStartMac
  <2>12. CASE IntrReclaimDone
    BY <2>12 DEF IntrReclaimDone, Completed, RxInv, RxRingOK, RxWindowAt, InStartMac
  <2>13. CASE IntrSched
    BY <2>13 DEF IntrSched, Wake, Continue, AfterReclaim, RxInv, RxRingOK, RxWindowAt, InStartMac
  <2>14. CASE IntrLink
    BY <2>14 DEF IntrLink, Continue, AfterReclaim, RxInv, RxRingOK, RxWindowAt, InStartMac
  <2>15. CASE IntrLockI
    BY <2>15 DEF IntrLockI, RxInv, RxRingOK, RxWindowAt, InStartMac
  <2>16. CASE IntrReset
    BY <2>16, ZeroSlot DEF IntrReset, ResetWanted, EmptyRings, ReturnBufs, ResetPointers, StopMac, RxInv, RxRingOK, RxWindowAt, InStartMac, TypeInv, FieldTypes, RxSlots
  <2>17. CASE IntrNoReset
    BY <2>17 DEF IntrNoReset, ResetWanted, RxInv, RxRingOK, RxWindowAt, InStartMac
  <2>18. ASSUME NEW op \in {"start", "stop", "suspend", "resume", "reset"}, CtlEnter(op) PROVE RxInv'
    BY <2>18 DEF CtlEnter, RxInv, RxRingOK, RxWindowAt, InStartMac
  <2>19. CASE CtlStart
    BY <2>19, ZeroSlot DEF CtlStart, EmptyRings, ReturnBufs, ResetPointers, RxInv, RxRingOK, RxWindowAt, InStartMac, TypeInv, FieldTypes, RxSlots, StopMac
  <2>20. CASE CtlStop
    BY <2>20 DEF CtlStop, StopMac, CtlLeave, RxInv, RxRingOK, RxWindowAt, InStartMac
  <2>21. CASE CtlReset
    BY <2>21 DEF CtlReset, ResetChip, CtlLeave, RxInv, RxRingOK, RxWindowAt, InStartMac
  <2>22. CASE CtlSuspend
    BY <2>22 DEF CtlSuspend, StopMac, CtlLeave, RxInv, RxRingOK, RxWindowAt, InStartMac
  <2>23. CASE CtlResumeFails
    BY <2>23 DEF CtlResumeFails, CtlLeave, RxInv, RxRingOK, RxWindowAt, InStartMac
  <2>24. CASE CtlResume
    BY <2>24, ZeroSlot DEF CtlResume, ResetChip, CtlLeave, EmptyRings, ReturnBufs, ResetPointers, RxInv, RxRingOK, RxWindowAt, InStartMac, TypeInv, FieldTypes, RxSlots
  <2>25. ASSUME NEW bit \in TxBits, ChipTx(bit) PROVE RxInv'
    BY <2>25 DEF ChipTx, RxInv, RxRingOK, RxWindowAt, InStartMac
  <2>26. CASE ChipRx
    <3>1. ~InStartMac /\ ~InStartMac'
      BY <2>26 DEF ChipRx, InStartMac, CtlInv, QuietInv, TypeInv, FieldTypes
    <3>2. CASE "rx" \in nar
      <4>1. PICK c \in 0 .. RxRing : RxWindowAt(c)
        BY <3>2 DEF RxInv, RxRingOK
      <4>2. Succ(chiprx, RxRing) = IF chiprx + 1 = RxRing THEN 0 ELSE chiprx + 1
        BY SuccRing DEF TypeInv, FieldTypes, RxSlots
      <4>3. c + 1 \in 0 .. RxRing
        BY <4>1, <2>26 DEF ChipRx, RxWindowAt, Dist, RxSlots, TypeInv, FieldTypes
      <4>4. RxWindowAt(c + 1)'
        BY <4>1, <4>2, <4>3, <2>26 DEF ChipRx, RxWindowAt, Dist, RxSlots, TypeInv, FieldTypes
      <4>5. QED
        BY <3>1, <3>2, <4>3, <4>4, <2>26 DEF ChipRx, RxInv, RxRingOK
    <3>3. CASE "rx" \notin nar
      BY <3>1, <3>3, <2>26 DEF ChipRx, RxInv, RxRingOK
    <3>4. QED
      BY <3>2, <3>3
  <2>27. ASSUME NEW bit \in {"rxnobuf", "berr", "link"}, ChipRaise(bit) PROVE RxInv'
    BY <2>27 DEF ChipRaise, RxInv, RxRingOK, RxWindowAt, InStartMac
  <2>28. CASE UNCHANGED vars
    BY <2>28 DEF vars, RxInv, RxRingOK, RxWindowAt, InStartMac
  <2>29. QED
    BY <2>1, <2>2, <2>3, <2>4, <2>5, <2>6, <2>7, <2>8, <2>9, <2>10,
       <2>11, <2>12, <2>13, <2>14, <2>15, <2>16, <2>17, <2>18, <2>19,
       <2>20, <2>21, <2>22, <2>23, <2>24, <2>25, <2>26, <2>27, <2>28, <2>30
       DEF Next, SendNext, StartMacNext, IntrNext, IntrWork, CtlNext, CtlWork, ChipNext
<1>3. QED
  BY <1>1, <1>2, TypeInvariant, CtlInvariant, QuietInvariant, PTL DEF Spec

-----------------------------------------------------------------------------
(***************************************************************************)
(* No completion is lost: what the handler acknowledges it also reclaims,  *)
(* and afe_reclaim stops only where nothing is left to reclaim.            *)
(***************************************************************************)

\* A transmitted buffer always has its status bit pending, or a reclaim still
\* to come in the handler.
THEOREM NoCompletionIsLost == Spec => []NoLostCompletion
<1> USE DEF flagVars, lockVars, txVars, rxVars, regVars, posVars, intrVars, sendVars, ctlVars
<1>1. Init => NoLostCompletion
  BY DEF Init, NoLostCompletion, Completed
<1>2. TypeInv /\ CtlInv /\ QuietInv /\ TxInv /\ NoLostCompletion /\ [Next]_vars
      => NoLostCompletion'
  <2> SUFFICES ASSUME TypeInv, CtlInv, QuietInv, TxInv, NoLostCompletion, [Next]_vars
               PROVE  NoLostCompletion'
    OBVIOUS
  <2>1. ASSUME NEW s \in Senders, SendGetBuf(s) PROVE NoLostCompletion'
    BY <2>1 DEF SendGetBuf, NoLostCompletion, Completed
  <2>2. ASSUME NEW s \in Senders, SendRefused(s) PROVE NoLostCompletion'
    BY <2>2 DEF SendRefused, NoLostCompletion, Completed
  <2>30. ASSUME NEW s \in Senders, SendFreeBuf(s) PROVE NoLostCompletion'
    BY <2>30 DEF SendFreeBuf, NoLostCompletion, Completed
  <2>3. ASSUME NEW s \in Senders, SendQueued(s) PROVE NoLostCompletion'
    BY <2>3 DEF SendQueued, NoLostCompletion, Completed, TypeInv, FieldTypes
  <2>4. CASE FillRxSlot
    BY <2>4 DEF FillRxSlot, NoLostCompletion, Completed
  <2>5. CASE StartMacFails
    BY <2>5 DEF StartMacFails, LeaveStartMac, NoLostCompletion, Completed
  <2>6. CASE StartMacDone
    <3>1. \A i \in TxSlots : txbufs[i] = NoBuf
      BY <2>6 DEF StartMacDone, TxInv, TxRingOK, TxWindowAt, Dist, TxSlots, TypeInv, FieldTypes
    <3>2. QED
      BY <3>1, <2>6 DEF StartMacDone, LeaveStartMac, NoLostCompletion, Completed
  <2>7. CASE IntrRead
    BY <2>7 DEF IntrRead, NoLostCompletion, Completed
  <2>8. CASE IntrAck
    BY <2>8 DEF IntrAck, Acknowledge, Continue, NoLostCompletion, Completed, QuietInv, StoppedQuiet
  <2>9. CASE IntrRxFrame
    BY <2>9 DEF IntrRxFrame, NoLostCompletion, Completed
  <2>10. CASE IntrRxDone
    BY <2>10 DEF IntrRxDone, Adjusted, Continue, AfterReceive, AfterReclaim, NoLostCompletion, Completed, QuietInv, CtlInv
  <2>11. CASE IntrReclaim
    BY <2>11 DEF IntrReclaim, NoLostCompletion, Completed, TypeInv, FieldTypes
  <2>12. CASE IntrReclaimDone
    <3>1. CASE "running" \notin flags
      BY <3>1, <2>12 DEF IntrReclaimDone, NoLostCompletion, Completed, QuietInv, StoppedQuiet
    <3>2. CASE txbufs[txreclaim] = NoBuf \/ txreclaim \in txown
      <4>1. \A i \in TxSlots : txbufs[i] # NoBuf => i \in txown
        BY <3>2 DEF TxInv, TxRingOK, TxWindowAt, Dist, TxSlots, TypeInv, FieldTypes
      <4>2. QED
        BY <4>1, <2>12 DEF IntrReclaimDone, NoLostCompletion, Completed
    <3>3. QED
      BY <3>1, <3>2, <2>12 DEF IntrReclaimDone, Completed
  <2>13. CASE IntrSched
    BY <2>13 DEF IntrSched, Wake, Continue, AfterReclaim, NoLostCompletion, Completed
  <2>14. CASE IntrLink
    BY <2>14 DEF IntrLink, Continue, AfterReclaim, NoLostCompletion, Completed
  <2>15. CASE IntrLockI
    BY <2>15 DEF IntrLockI, NoLostCompletion, Completed
  <2>16. CASE IntrReset
    BY <2>16 DEF IntrReset, ResetWanted, EmptyRings, ReturnBufs, ResetPointers, StopMac, NoLostCompletion, Completed
  <2>17. CASE IntrNoReset
    BY <2>17 DEF IntrNoReset, ResetWanted, NoLostCompletion, Completed
  <2>18. ASSUME NEW op \in {"start", "stop", "suspend", "resume", "reset"}, CtlEnter(op) PROVE NoLostCompletion'
    BY <2>18 DEF CtlEnter, NoLostCompletion, Completed
  <2>19. CASE CtlStart
    BY <2>19 DEF CtlStart, EmptyRings, ReturnBufs, ResetPointers, NoLostCompletion, Completed
  <2>20. CASE CtlStop
    BY <2>20 DEF CtlStop, StopMac, CtlLeave, NoLostCompletion, Completed
  <2>21. CASE CtlReset
    BY <2>21 DEF CtlReset, ResetChip, CtlLeave, NoLostCompletion, Completed
  <2>22. CASE CtlSuspend
    BY <2>22 DEF CtlSuspend, StopMac, CtlLeave, NoLostCompletion, Completed
  <2>23. CASE CtlResumeFails
    BY <2>23 DEF CtlResumeFails, CtlLeave, NoLostCompletion, Completed
  <2>24. CASE CtlResume
    BY <2>24 DEF CtlResume, ResetChip, CtlLeave, EmptyRings, ReturnBufs, ResetPointers, NoLostCompletion, Completed
  <2>25. ASSUME NEW bit \in TxBits, ChipTx(bit) PROVE NoLostCompletion'
    BY <2>25 DEF ChipTx, NoLostCompletion, Completed
  <2>26. CASE ChipRx
    BY <2>26 DEF ChipRx, NoLostCompletion, Completed
  <2>27. ASSUME NEW bit \in {"rxnobuf", "berr", "link"}, ChipRaise(bit) PROVE NoLostCompletion'
    BY <2>27 DEF ChipRaise, NoLostCompletion, Completed
  <2>28. CASE UNCHANGED vars
    BY <2>28 DEF vars, NoLostCompletion, Completed
  <2>29. QED
    BY <2>1, <2>2, <2>3, <2>4, <2>5, <2>6, <2>7, <2>8, <2>9, <2>10,
       <2>11, <2>12, <2>13, <2>14, <2>15, <2>16, <2>17, <2>18, <2>19,
       <2>20, <2>21, <2>22, <2>23, <2>24, <2>25, <2>26, <2>27, <2>28, <2>30
       DEF Next, SendNext, StartMacNext, IntrNext, IntrWork, CtlNext, CtlWork, ChipNext
<1>3. QED
  BY <1>1, <1>2, TypeInvariant, CtlInvariant, QuietInvariant, TxInvariant, PTL
     DEF Spec
-----------------------------------------------------------------------------
(***************************************************************************)
(* afe_startmac cannot run out of buffers when the pool is at least the    *)
(* receive ring and one buffer for each thread that can be in gldm_send:   *)
(* the buffers that are not free are then in the slots already filled or   *)
(* in the hands of those threads.                                          *)
(***************************************************************************)
\* A table indexed by S names no more buffers than S has elements.
LEMMA ImageBound ==
    ASSUME NEW S, IsFiniteSet(S), NEW f
    PROVE  /\ IsFiniteSet({f[x] : x \in S})
           /\ Cardinality({f[x] : x \in S}) <= Cardinality(S)
<1> DEFINE T == {f[x] : x \in S}
           g == [x \in S |-> f[x]]
<1>1. g \in Surjection(S, T)
  BY DEF Surjection
<1>2. QED
  BY <1>1, FS_Surjection

\* With a buffer for each receive slot and each thread inside gldm_send,
\* "this should never happen!" does not: afe_getbuf in afe_startmac succeeds.
THEOREM StartMacAlwaysSucceeds ==
    ASSUME Cardinality(Bufs) >= RxRing + Cardinality(Senders)
    PROVE  Spec => []StartMacSucceeds
<1>1. TypeInv /\ TxInv /\ OwnInv => StartMacSucceeds
  <2> SUFFICES ASSUME TypeInv, TxInv, OwnInv, InStartMac, fill < RxRing, free = {}
               PROVE  FALSE
    BY DEF StartMacSucceeds
  <2> DEFINE R == {rxbufs[j] : j \in 0 .. fill - 1}
             S == {sbuf[s] : s \in Senders}
  <2>1. \A i \in TxSlots : txbufs[i] = NoBuf
    BY DEF TxInv, TxRingOK, TxWindowAt, Dist, TxSlots, TypeInv, FieldTypes
  <2>2. Bufs \subseteq R \cup S
    <3> SUFFICES ASSUME NEW b \in Bufs, b \notin S PROVE b \in R
      OBVIOUS
    <3>1. PICK i \in RxSlots : rxbufs[i] = b
      BY <2>1, BufAssumption DEF OwnInv, BufferOwnership, NoneLost
    <3>2. i \in 0 .. fill - 1
      BY <3>1, BufAssumption DEF OwnInv, RxSlots, TypeInv, FieldTypes
    <3>3. QED
      BY <3>1, <3>2
  <2>3. IsFiniteSet(R) /\ Cardinality(R) <= fill
    <3> DEFINE m == fill - 1
    <3>a. fill \in Nat /\ m \in Int /\ fill = m + 1
      BY DEF TypeInv, FieldTypes
    <3> HIDE DEF m
    <3>b. IsFiniteSet(0 .. m) /\ Cardinality(0 .. m) = (IF 0 > m THEN 0 ELSE m - 0 + 1)
      BY <3>a, FS_Interval
    <3>c. IsFiniteSet(0 .. m) /\ Cardinality(0 .. m) = fill
      BY <3>a, <3>b
    <3>1. IsFiniteSet(0 .. fill - 1) /\ Cardinality(0 .. fill - 1) = fill
      BY <3>c DEF m
    <3>2. QED
      BY <3>1, ImageBound
  <2>4. IsFiniteSet(S) /\ Cardinality(S) <= Cardinality(Senders)
    BY SenderAssumption, ImageBound
  <2>5. IsFiniteSet(R \cup S) /\ Cardinality(R \cup S) <= Cardinality(R) + Cardinality(S)
    <3>1. Cardinality(R \cap S) \in Nat /\ Cardinality(R) \in Nat /\ Cardinality(S) \in Nat
      BY <2>3, <2>4, FS_Subset, FS_CardinalityType
    <3>2. /\ IsFiniteSet(R \cup S)
          /\ Cardinality(R \cup S)
               = Cardinality(R) + Cardinality(S) - Cardinality(R \cap S)
      <4> HIDE DEF R, S
      <4>1. QED
        BY <2>3, <2>4, FS_Union
    <3>3. QED
      BY <3>1, <3>2
  <2>6. Cardinality(Bufs) <= Cardinality(R \cup S)
    BY <2>2, <2>5, FS_Subset
  <2>7. /\ Cardinality(Bufs) \in Nat /\ Cardinality(Senders) \in Nat
        /\ Cardinality(R) \in Nat /\ Cardinality(S) \in Nat
        /\ Cardinality(R \cup S) \in Nat
    BY <2>3, <2>4, <2>5, BufAssumption, SenderAssumption, FS_CardinalityType
  <2>8. QED
    BY <2>3, <2>4, <2>5, <2>6, <2>7 DEF TypeInv, FieldTypes
<1>2. QED
  BY <1>1, TypeInvariant, TxInvariant, OwnInvariant, PTL
-----------------------------------------------------------------------------
(***************************************************************************)
(* The properties of AfeMac, each a conjunct of the invariant.             *)
(***************************************************************************)

\* Every variable of the MAC core keeps its type: ring pointers on their
\* rings, no more descriptors available than there are, and afe_txthresh at
\* most one past its table.
THEOREM TypeCorrect == Spec => []TypeOK
<1>1. TypeInv /\ TxInv => TypeOK
  BY DEF TypeInv, FieldTypes, TxInv, TxRingOK, TypeOK
<1>2. QED  BY <1>1, TypeInvariant, TxInvariant, PTL

\* afe_getbuf and afe_freebuf are paired on every path: no buffer is lost
\* and none is in two places.
THEOREM BuffersAreOwned == Spec => []BufferOwnership
<1>1. OwnInv => BufferOwnership  BY DEF OwnInv
<1>2. QED  BY <1>1, OwnInvariant, PTL

\* afe_send, the chip and afe_reclaim agree on the transmit ring.
THEOREM TxRingCorrect == Spec => []TxRingOK
<1>1. TxInv => TxRingOK  BY DEF TxInv
<1>2. QED  BY <1>1, TxInvariant, PTL

\* The chip and the handler agree on the receive ring while it is on.
THEOREM RxRingCorrect == Spec => []RxRingOK
<1>1. RxInv => RxRingOK  BY DEF RxInv
<1>2. QED  BY <1>1, RxInvariant, PTL

\* A MAC that is not running has its engines and its interrupts off.
THEOREM StoppedIsQuiet == Spec => []StoppedQuiet
<1>1. QuietInv => StoppedQuiet  BY DEF QuietInv
<1>2. QED  BY <1>1, QuietInvariant, PTL
-----------------------------------------------------------------------------
(***************************************************************************)
(* The transmit ring implements TxFifo: each step of the MAC is a step of  *)
(* the two sequences of frames in the window, or none.                     *)
(***************************************************************************)

\* The slot k places after txreclaim.
Ahead(k) == IF txreclaim + k < TxRing THEN txreclaim + k ELSE txreclaim + k - TxRing

\* The slots in use, the frames in them, and those of the first n slots.
Used == TxRing - txavail
Frames(first, n) == [j \in 1 .. n |-> txbufs[Ahead(first + j - 1)]]

\* What the refinement mapping gives TxFifo.
FifoQueued == TxFrom(Cardinality(DoneSlots), Cardinality(txown))
FifoDone   == TxFrom(0, Cardinality(DoneSlots))

(***************************************************************************)
(* Lemmas about the window.                                                *)
(***************************************************************************)

\* The remainder of TxFrom is one turn of the ring at most.
LEMMA AheadRing ==
    ASSUME txreclaim \in TxSlots, NEW k \in 0 .. TxRing - 1
    PROVE  /\ (txreclaim + k) % TxRing = Ahead(k)
           /\ Ahead(k) \in TxSlots
           /\ Dist(txreclaim, Ahead(k), TxRing) = k
<1>1. CASE txreclaim + k < TxRing
  BY <1>1 DEF Ahead, TxSlots, Dist
<1>2. CASE txreclaim + k >= TxRing
  <2>1. /\ txreclaim + k \in Nat /\ txreclaim + k - TxRing \in 0 .. TxRing - 1
        /\ txreclaim + k = TxRing * 1 + (txreclaim + k - TxRing)
    BY <1>2 DEF TxSlots
  <2>2. (txreclaim + k) % TxRing = txreclaim + k - TxRing
    BY <2>1
  <2>3. QED
    BY <1>2, <2>2 DEF Ahead, TxSlots, Dist
<1>3. QED
  BY <1>1, <1>2 DEF TxSlots

\* A slot is its distance ahead of txreclaim.
LEMMA AheadOfDist ==
    ASSUME txreclaim \in TxSlots, NEW i \in TxSlots
    PROVE  /\ Dist(txreclaim, i, TxRing) \in 0 .. TxRing - 1
           /\ Ahead(Dist(txreclaim, i, TxRing)) = i
BY DEF Ahead, Dist, TxSlots

\* As many slots as the distances they are at.
LEMMA WindowSize ==
    ASSUME txreclaim \in TxSlots,
           NEW m \in Nat, NEW n \in 0 .. TxRing, m <= n,
           NEW S \in SUBSET TxSlots,
           \A i \in TxSlots : i \in S <=> /\ Dist(txreclaim, i, TxRing) >= m
                                          /\ Dist(txreclaim, i, TxRing) < n
    PROVE  Cardinality(S) = n - m
<1> DEFINE f == [j \in 1 .. n - m |-> Ahead(m + j - 1)]
<1>1. \A j \in 1 .. n - m : /\ m + j - 1 \in 0 .. TxRing - 1
                            /\ m + j - 1 >= m /\ m + j - 1 < n
  OBVIOUS
<1>2. \A j \in 1 .. n - m : /\ f[j] \in TxSlots
                            /\ Dist(txreclaim, f[j], TxRing) = m + j - 1
  BY <1>1, AheadRing
<1>3. f \in [1 .. n - m -> S]
  BY <1>1, <1>2
<1>4. \A j, k \in 1 .. n - m : f[j] = f[k] => j = k
  <2> SUFFICES ASSUME NEW j \in 1 .. n - m, NEW k \in 1 .. n - m, f[j] = f[k]
               PROVE  j = k
    OBVIOUS
  <2>1. m + j - 1 = m + k - 1
    BY <1>2
  <2>2. QED
    BY <2>1
<1>5. \A i \in S : \E j \in 1 .. n - m : f[j] = i
  <2> SUFFICES ASSUME NEW i \in S PROVE \E j \in 1 .. n - m : f[j] = i
    OBVIOUS
  <2>1. /\ Dist(txreclaim, i, TxRing) \in 0 .. TxRing - 1
        /\ Ahead(Dist(txreclaim, i, TxRing)) = i
        /\ Dist(txreclaim, i, TxRing) >= m /\ Dist(txreclaim, i, TxRing) < n
    BY AheadOfDist
  <2> DEFINE d == Dist(txreclaim, i, TxRing)
  <2>2. d - m + 1 \in 1 .. n - m /\ m + (d - m + 1) - 1 = d
    BY <2>1
  <2>3. f[d - m + 1] = Ahead(d)
    BY <2>2
  <2>4. QED
    BY <2>1, <2>2, <2>3
<1>6. f \in Bijection(1 .. n - m, S)
  BY <1>3, <1>4, <1>5 DEF Bijection, Injection, Surjection, IsInjective
<1>7. n - m \in Nat
  OBVIOUS
<1>8. QED
  BY <1>6, <1>7, FS_CountingElements DEF ExistsBijection

\* The sequences of the refinement mapping are the two parts of the window.
LEMMA WindowFrames ==
    ASSUME TypeInv, NEW c \in 0 .. Used, TxWindowAt(c)
    PROVE  /\ Used \in 0 .. TxRing
           /\ FifoDone = Frames(0, c)
           /\ FifoQueued = Frames(c, Used - c)
<1>1. Used \in 0 .. TxRing /\ txreclaim \in TxSlots /\ txown \in SUBSET TxSlots
  <2>1. 0 <= TxRing - txavail
    BY DEF Used, TypeInv, FieldTypes
  <2>2. QED
    BY <2>1 DEF TypeInv, FieldTypes, Used
<1>2. Cardinality(DoneSlots) = c
  <2>1. \A i \in TxSlots : i \in DoneSlots <=> /\ Dist(txreclaim, i, TxRing) >= 0
                                               /\ Dist(txreclaim, i, TxRing) < c
    BY <1>1, AheadOfDist DEF TxWindowAt, DoneSlots, Used
  <2>2. DoneSlots \in SUBSET TxSlots
    BY DEF DoneSlots
  <2>3. Cardinality(DoneSlots) = c - 0
    BY <1>1, <2>1, <2>2, WindowSize
  <2>4. QED
    BY <2>3
<1>3. Cardinality(txown) = Used - c
  <2>1. \A i \in TxSlots : i \in txown <=> /\ Dist(txreclaim, i, TxRing) >= c
                                           /\ Dist(txreclaim, i, TxRing) < Used
    BY DEF TxWindowAt, Used
  <2>2. QED
    BY <1>1, <2>1, WindowSize
<1>4. ASSUME NEW m \in 0 .. TxRing, NEW n \in 0 .. TxRing - m
      PROVE  TxFrom(m, n) = Frames(m, n)
  <2>1. \A j \in 1 .. n : /\ m + j - 1 \in 0 .. TxRing - 1
                          /\ txreclaim + m + j - 1 = txreclaim + (m + j - 1)
    BY <1>1 DEF TxSlots
  <2>2. \A j \in 1 .. n : (txreclaim + m + j - 1) % TxRing = Ahead(m + j - 1)
    BY <1>1, <2>1, AheadRing
  <2>3. QED
    BY <2>2 DEF TxFrom, Frames
<1>5. QED
  BY <1>1, <1>2, <1>3, <1>4 DEF FifoDone, FifoQueued

\* The same, and what the frames are, in the form in which it holds of the
\* next state too.
WindowRead ==
    TypeInv =>
      /\ \A c \in Nat : c <= TxRing - txavail /\ TxWindowAt(c) =>
             /\ FifoDone = Frames(0, c)
             /\ FifoQueued = Frames(c, TxRing - txavail - c)
      /\ \A m, n \in Nat : m + n <= TxRing =>
             Frames(m, n) \in [1 .. n -> Bufs \cup {NoBuf}]

\* It holds of every state with the types of TypeInv.
LEMMA WindowReadHere == WindowRead
<1> SUFFICES ASSUME TypeInv
             PROVE  WindowRead
  BY DEF WindowRead
<1>1. ASSUME NEW c \in Nat, c <= TxRing - txavail, TxWindowAt(c)
      PROVE  /\ FifoDone = Frames(0, c)
             /\ FifoQueued = Frames(c, TxRing - txavail - c)
  BY <1>1, WindowFrames DEF Used, TypeInv, FieldTypes
<1>2. ASSUME NEW m \in Nat, NEW n \in Nat, m + n <= TxRing
      PROVE  Frames(m, n) \in [1 .. n -> Bufs \cup {NoBuf}]
  <2>1. \A j \in 1 .. n : m + j - 1 \in 0 .. TxRing - 1
    BY <1>2
  <2>2. \A j \in 1 .. n : Ahead(m + j - 1) \in TxSlots
    BY <2>1, AheadRing DEF TypeInv, FieldTypes
  <2>3. QED
    BY <2>2 DEF Frames, TypeInv, FieldTypes
<1>3. QED
  BY <1>1, <1>2 DEF WindowRead

\* And so of the next state of a step.
LEMMA WindowReadNext == WindowRead'
BY WindowReadHere, PTL

-----------------------------------------------------------------------------
(***************************************************************************)
(* The steps.                                                              *)
(***************************************************************************)

\* A frame afe_send queues is accepted behind the others.
LEMMA QueueAccepts ==
    ASSUME TypeInv, TypeInv', OwnInv,
           NEW c \in 0 .. TxRing - txavail, TxWindowAt(c),
           NEW s \in Senders, SendQueued(s)
    PROVE  Fifo!Accept(sbuf[s]) /\ sbuf[s] \in Bufs
<1> DEFINE V == Bufs \cup {NoBuf}
<1>0. PICK u \in Nat : u = TxRing - txavail
  BY DEF TypeInv, FieldTypes
<1>1. /\ c \in Nat /\ c <= u /\ u < TxRing
      /\ TxRing - txavail = u /\ TxRing - txavail' = u + 1 /\ txreclaim' = txreclaim
      /\ txreclaim \in TxSlots /\ txsend \in TxSlots
      /\ txbufs' = [txbufs EXCEPT ![txsend] = sbuf[s]]
      /\ txbufs \in [TxSlots -> V]
  BY <1>0 DEF SendQueued, TypeInv, FieldTypes
<1>2. sbuf[s] # NoBuf /\ sbuf[s] \in Bufs
  <2>1. spc[s] = "copy"
    BY DEF SendQueued
  <2>2. QED
    BY <2>1 DEF TypeInv, FieldTypes, SenderHolds
<1>3. TxWindowAt(c)'
  BY SendMovesWindow
<1>4. txsend = Ahead(u)
  BY <1>1, AheadOfDist DEF TxWindowAt, Dist, TxSlots
<1>5. \A k \in 0 .. u - 1 : /\ Ahead(k)' = Ahead(k)
                            /\ Ahead(k) \in TxSlots
                            /\ txbufs'[Ahead(k)] = txbufs[Ahead(k)]
  <2> SUFFICES ASSUME NEW k \in 0 .. u - 1
               PROVE  /\ Ahead(k)' = Ahead(k)
                      /\ Ahead(k) \in TxSlots
                      /\ txbufs'[Ahead(k)] = txbufs[Ahead(k)]
    OBVIOUS
  <2>1. Ahead(k)' = Ahead(k)
    BY <1>1 DEF Ahead
  <2>2. /\ Ahead(k) \in TxSlots /\ Dist(txreclaim, Ahead(k), TxRing) = k
        /\ Dist(txreclaim, Ahead(u), TxRing) = u
    BY <1>1, AheadRing
  <2>3. Ahead(k) # txsend
    BY <1>1, <1>4, <2>2
  <2>4. QED
    BY <1>1, <2>1, <2>2, <2>3
<1>6. Ahead(u)' = txsend /\ txbufs'[txsend] = sbuf[s]
  BY <1>1, <1>4 DEF Ahead
<1>a. /\ u - c \in Nat /\ u + 1 - c \in Nat
      /\ 0 + c <= TxRing /\ c + (u - c) <= TxRing /\ c + (u + 1 - c) <= TxRing
  BY <1>1
<1>7. /\ FifoDone = Frames(0, c) /\ FifoQueued = Frames(c, u - c)
      /\ Frames(0, c) \in [1 .. c -> V] /\ Frames(c, u - c) \in [1 .. u - c -> V]
  BY <1>1, <1>a, WindowReadHere DEF WindowRead
<1>8. /\ FifoDone' = Frames(0, c)' /\ FifoQueued' = Frames(c, u + 1 - c)'
      /\ Frames(0, c)' \in [1 .. c -> V]
      /\ Frames(c, u + 1 - c)' \in [1 .. u + 1 - c -> V]
  <2>1. FifoDone' = Frames(0, c)' /\ FifoQueued' = Frames(c, TxRing - txavail - c)'
    BY <1>1, <1>3, WindowReadNext DEF WindowRead
  <2>2. TxRing - txavail' - c = u + 1 - c
    BY <1>1
  <2>3. Frames(0, c)' \in [1 .. c -> V]
    BY <1>1, <1>a, WindowReadNext DEF WindowRead
  <2>4. Frames(c, u + 1 - c)' \in [1 .. u + 1 - c -> V]
    BY <1>1, <1>a, WindowReadNext DEF WindowRead
  <2>5. QED
    BY <2>1, <2>2, <2>3, <2>4
<1>9. FifoDone' = FifoDone
  <2>1. \A j \in 1 .. c : Frames(0, c)'[j] = Frames(0, c)[j]
    BY <1>1, <1>5 DEF Frames
  <2>2. QED
    BY <1>7, <1>8, <2>1
<1>10. /\ FifoQueued' = Append(FifoQueued, sbuf[s])
       /\ Len(FifoQueued) = u - c
  <2> DEFINE q == Frames(c, u - c)
             r == Frames(c, u + 1 - c)'
             n == u - c
  <2>1. \A j \in 1 .. n : r[j] = q[j]
    BY <1>1, <1>5 DEF Frames
  <2>2. r[n + 1] = sbuf[s]
    BY <1>1, <1>6 DEF Frames
  <2>3. n \in Nat /\ q \in [1 .. n -> V] /\ r \in [1 .. n + 1 -> V]
    BY <1>1, <1>7, <1>8
  <2>4. r = Append(q, r[n + 1]) /\ Len(q) = n
    <3> HIDE DEF q, r, n, V
    <3>1. QED
      BY <2>1, <2>3, AppendFun
  <2>5. QED
    BY <1>7, <1>8, <2>2, <2>4
<1>11. Len(FifoDone) = c
  BY <1>1, <1>7
<1>12. sbuf[s] \notin Fifo!Held(FifoQueued) \cup Fifo!Held(FifoDone)
  <2>1. \A i \in TxSlots : txbufs[i] # sbuf[s]
    BY <1>2 DEF OwnInv, BufferOwnership, NoneShared
  <2>2. \A j \in 1 .. u - c : Frames(c, u - c)[j] # sbuf[s]
    BY <1>1, <1>5, <2>1 DEF Frames
  <2>3. \A j \in 1 .. c : Frames(0, c)[j] # sbuf[s]
    BY <1>1, <1>5, <2>1 DEF Frames
  <2>4. QED
    BY <1>7, <2>2, <2>3 DEF Fifo!Held
<1>13. Len(FifoQueued) + Len(FifoDone) < TxRing
  BY <1>1, <1>10, <1>11
<1>14. QED
  BY <1>2, <1>9, <1>10, <1>12, <1>13 DEF Fifo!Accept, FifoQueued, FifoDone

\* A frame the chip is done with is the oldest of those it owned.
LEMMA ChipTransmits ==
    ASSUME TypeInv, TypeInv',
           NEW c \in 0 .. TxRing - txavail, TxWindowAt(c),
           NEW bit, ChipTx(bit)
    PROVE  Fifo!Transmit
<1> DEFINE V == Bufs \cup {NoBuf}
<1>0. PICK u \in Nat : u = TxRing - txavail
  BY DEF TypeInv, FieldTypes
<1>1. /\ c \in Nat /\ c <= u /\ u <= TxRing
      /\ TxRing - txavail = u /\ TxRing - txavail' = u
      /\ txavail' = txavail /\ txreclaim' = txreclaim /\ txbufs' = txbufs
  BY <1>0 DEF ChipTx, TypeInv, FieldTypes
<1>2. TxWindowAt(c + 1)' /\ c + 1 <= u
  BY <1>1, ChipMovesWindow DEF TypeInv, FieldTypes
<1>3. \A m, n \in Nat : Frames(m, n)' = Frames(m, n)
  BY <1>1 DEF Frames, Ahead
<1>4. /\ FifoDone = Frames(0, c) /\ FifoQueued = Frames(c, u - c)
      /\ \A m, n \in Nat : m + n <= TxRing => Frames(m, n) \in [1 .. n -> V]
  BY <1>1, WindowReadHere DEF WindowRead
<1>5. FifoDone' = Frames(0, c + 1)' /\ FifoQueued' = Frames(c + 1, u - (c + 1))'
  BY <1>1, <1>2, WindowReadNext DEF WindowRead
<1>6. FifoDone' = Frames(0, c + 1) /\ FifoQueued' = Frames(c + 1, u - c - 1)
  BY <1>1, <1>2, <1>3, <1>5
<1>7. FifoQueued' = Tail(FifoQueued) /\ FifoQueued # <<>> /\ Head(FifoQueued) = txbufs[Ahead(c)]
  <2> DEFINE n == u - c - 1
             q == Frames(c, u - c)
             r == Frames(c + 1, u - c - 1)
  <2>1. n \in Nat /\ q \in [1 .. n + 1 -> V] /\ r \in [1 .. n -> V]
    <3>1. /\ n \in Nat /\ u - c \in Nat /\ u - c = n + 1 /\ c + 1 \in Nat
          /\ c + (u - c) <= TxRing /\ (c + 1) + (u - c - 1) <= TxRing
      BY <1>1, <1>2
    <3>2. q \in [1 .. u - c -> V] /\ r \in [1 .. u - c - 1 -> V]
      BY <1>1, <1>4, <3>1
    <3>3. QED
      BY <3>1, <3>2
  <2>2. \A j \in 1 .. n : r[j] = q[j + 1]
    BY <1>1, <1>2 DEF Frames
  <2>3. r = Tail(q) /\ Head(q) = q[1] /\ q # <<>>
    <3> HIDE DEF n, q, r, V
    <3>1. QED
      BY <2>1, <2>2, TailFun
  <2>4. q[1] = txbufs[Ahead(c)]
    BY <1>1, <1>2 DEF Frames
  <2>5. QED
    BY <1>4, <1>6, <2>3, <2>4
<1>8. FifoDone' = Append(FifoDone, txbufs[Ahead(c)])
  <2> DEFINE q == Frames(0, c)
             r == Frames(0, c + 1)
  <2>1. q \in [1 .. c -> V] /\ r \in [1 .. c + 1 -> V]
    <3>1. c + 1 \in Nat /\ 0 + c <= TxRing /\ 0 + (c + 1) <= TxRing
      BY <1>1, <1>2
    <3>2. QED
      BY <1>1, <1>4, <3>1
  <2>2. \A j \in 1 .. c : r[j] = q[j]
    BY <1>1 DEF Frames
  <2>3. r[c + 1] = txbufs[Ahead(c)]
    BY <1>1 DEF Frames
  <2>4. r = Append(q, r[c + 1])
    <3> HIDE DEF q, r, V
    <3>1. QED
      BY <1>1, <2>1, <2>2, AppendFun
  <2>5. QED
    BY <1>4, <1>6, <2>3, <2>4
<1>9. QED
  BY <1>7, <1>8 DEF Fifo!Transmit, FifoQueued, FifoDone

\* A buffer afe_reclaim frees is that of the oldest frame sent.
LEMMA ReclaimGivesBack ==
    ASSUME TypeInv, TypeInv',
           NEW c \in 0 .. TxRing - txavail, TxWindowAt(c), IntrReclaim
    PROVE  Fifo!GiveBack
<1> DEFINE V == Bufs \cup {NoBuf}
<1>0. PICK u \in Nat : u = TxRing - txavail
  BY DEF TypeInv, FieldTypes
<1>1. /\ c \in Nat /\ c <= u /\ u <= TxRing
      /\ TxRing - txavail = u /\ TxRing - txavail' = u - 1
      /\ txreclaim \in TxSlots /\ txbufs \in [TxSlots -> V]
      /\ txbufs' = [txbufs EXCEPT ![txreclaim] = NoBuf]
      /\ txreclaim' = Succ(txreclaim, TxRing)
  BY <1>0 DEF IntrReclaim, TypeInv, FieldTypes
<1>2. c >= 1 /\ TxWindowAt(c - 1)'
  BY ReclaimMovesWindow
<1>a. /\ u - c \in Nat /\ c - 1 \in Nat /\ c - 1 <= u - 1
      /\ 0 + c <= TxRing /\ c + (u - c) <= TxRing
      /\ 0 + (c - 1) <= TxRing /\ (c - 1) + (u - c) <= TxRing
  BY <1>1, <1>2
<1>3. \A k \in 0 .. u - 2 : /\ Ahead(k)' = Ahead(k + 1)
                            /\ txbufs'[Ahead(k + 1)] = txbufs[Ahead(k + 1)]
  <2> SUFFICES ASSUME NEW k \in 0 .. u - 2
               PROVE  /\ Ahead(k)' = Ahead(k + 1)
                      /\ txbufs'[Ahead(k + 1)] = txbufs[Ahead(k + 1)]
    OBVIOUS
  <2>1. txreclaim' = IF txreclaim + 1 = TxRing THEN 0 ELSE txreclaim + 1
    BY <1>1, SuccRing DEF TxSlots
  <2>2. Ahead(k)' = Ahead(k + 1)
    BY <1>1, <2>1 DEF Ahead, TxSlots
  <2>3. /\ k + 1 \in 0 .. TxRing - 1 /\ k + 1 # 0
        /\ Ahead(k + 1) \in TxSlots /\ Dist(txreclaim, Ahead(k + 1), TxRing) = k + 1
    BY <1>1, AheadRing
  <2>4. Dist(txreclaim, txreclaim, TxRing) = 0
    BY <1>1 DEF Dist, TxSlots
  <2>5. Ahead(k + 1) # txreclaim
    BY <2>3, <2>4
  <2>6. QED
    BY <1>1, <2>2, <2>3, <2>5
<1>4. /\ FifoDone = Frames(0, c) /\ FifoQueued = Frames(c, u - c)
      /\ Frames(0, c) \in [1 .. c -> V] /\ Frames(c, u - c) \in [1 .. u - c -> V]
  BY <1>1, <1>a, WindowReadHere DEF WindowRead
<1>5. /\ FifoDone' = Frames(0, c - 1)' /\ FifoQueued' = Frames(c - 1, u - c)'
      /\ Frames(0, c - 1)' \in [1 .. c - 1 -> V]
      /\ Frames(c - 1, u - c)' \in [1 .. u - c -> V]
  <2>1. /\ FifoDone' = Frames(0, c - 1)'
        /\ FifoQueued' = Frames(c - 1, TxRing - txavail - (c - 1))'
    BY <1>1, <1>2, <1>a, WindowReadNext DEF WindowRead
  <2>2. TxRing - txavail' - (c - 1) = u - c
    BY <1>1
  <2>3. Frames(0, c - 1)' \in [1 .. c - 1 -> V]
    BY <1>1, <1>a, WindowReadNext DEF WindowRead
  <2>4. Frames(c - 1, u - c)' \in [1 .. u - c -> V]
    BY <1>1, <1>a, WindowReadNext DEF WindowRead
  <2>5. QED
    BY <2>1, <2>2, <2>3, <2>4
<1>6. FifoDone' = Tail(FifoDone) /\ FifoDone # <<>>
  <2> DEFINE n == c - 1
             q == Frames(0, c)
             r == Frames(0, c - 1)'
  <2>1. n \in Nat /\ q \in [1 .. n + 1 -> V] /\ r \in [1 .. n -> V]
    BY <1>1, <1>a, <1>4, <1>5
  <2>2. \A j \in 1 .. n : r[j] = q[j + 1]
    <3> SUFFICES ASSUME NEW j \in 1 .. n PROVE r[j] = q[j + 1]
      OBVIOUS
    <3>1. r[j] = txbufs'[Ahead(0 + j - 1)'] /\ q[j + 1] = txbufs[Ahead(0 + (j + 1) - 1)]
      BY <1>1, <1>a DEF Frames
    <3>2. /\ j - 1 \in 0 .. u - 2 /\ 0 + j - 1 = j - 1 /\ 0 + (j + 1) - 1 = (j - 1) + 1
      BY <1>1
    <3>3. QED
      BY <1>3, <3>1, <3>2
  <2>3. r = Tail(q) /\ q # <<>>
    <3> HIDE DEF n, q, r, V
    <3>1. QED
      BY <2>1, <2>2, TailFun
  <2>4. QED
    BY <1>4, <1>5, <2>3
<1>7. FifoQueued' = FifoQueued
  <2>1. ASSUME NEW j \in 1 .. u - c
        PROVE  Frames(c - 1, u - c)'[j] = Frames(c, u - c)[j]
    <3>1. /\ Frames(c - 1, u - c)'[j] = txbufs'[Ahead(c - 1 + j - 1)']
          /\ Frames(c, u - c)[j] = txbufs[Ahead(c + j - 1)]
      BY <1>1 DEF Frames
    <3>2. c - 1 + j - 1 \in 0 .. u - 2 /\ c + j - 1 = (c - 1 + j - 1) + 1
      BY <1>1, <1>2
    <3>3. QED
      BY <1>3, <3>1, <3>2
  <2>2. QED
    BY <1>4, <1>5, <2>1
<1>8. QED
  BY <1>6, <1>7 DEF Fifo!GiveBack, FifoQueued, FifoDone

\* Emptying the rings drops every frame.
LEMMA EmptyingDrops ==
    ASSUME TypeInv', EmptyRings
    PROVE  Fifo!DropAll
<1>1. TxRingOK' /\ txavail' = TxRing
  BY EmptyTxWindow
<1>2. TxWindowAt(0)'
  BY <1>1 DEF TxRingOK
<1>3. FifoDone' = Frames(0, 0)' /\ FifoQueued' = Frames(0, TxRing - txavail - 0)'
  BY <1>1, <1>2, WindowReadNext DEF WindowRead
<1>4. TxRing - txavail' - 0 = 0
  BY <1>1
<1>5. \A n \in Nat : n = 0 => Frames(0, n)' = <<>>
  BY DEF Frames
<1>6. FifoDone' = <<>> /\ FifoQueued' = <<>>
  BY <1>3, <1>4, <1>5
<1>7. QED
  BY <1>6 DEF Fifo!DropAll, FifoQueued, FifoDone

\* What the mapping reads of the state.
ringRead == <<txbufs, txown, txreclaim>>

\* A step that leaves those alone is none of TxFifo's.
LEMMA RingUnread ==
    ASSUME UNCHANGED ringRead
    PROVE  UNCHANGED Fifo!fifoVars
BY DEF ringRead, Fifo!fifoVars, TxFrom, DoneSlots

\* Steps that touch neither the transmit ring nor what the chip has of it.
LEMMA OtherSteps ==
    ASSUME [Next]_vars
    PROVE  \/ \E s \in Senders : SendQueued(s)
           \/ \E bit \in TxBits : ChipTx(bit)
           \/ IntrReclaim
           \/ EmptyRings
           \/ UNCHANGED ringRead
<1> USE DEF ringRead, txVars, flagVars, lockVars, rxVars, regVars, posVars, intrVars, sendVars, ctlVars
<1>1. ASSUME NEW s \in Senders, SendGetBuf(s) \/ SendRefused(s) \/ SendFreeBuf(s)
      PROVE  UNCHANGED ringRead
  BY <1>1 DEF SendGetBuf, SendRefused, SendFreeBuf
<1>2. CASE StartMacNext
  BY <1>2 DEF StartMacNext, FillRxSlot, StartMacFails, StartMacDone, LeaveStartMac
<1>3. CASE IntrRead \/ IntrAck \/ IntrRxFrame \/ IntrRxDone
  BY <1>3 DEF IntrRead, IntrAck, Acknowledge, IntrRxFrame, IntrRxDone, Continue
<1>4. CASE IntrReclaimDone \/ IntrSched \/ IntrLink \/ IntrLockI \/ IntrNoReset
  BY <1>4 DEF IntrReclaimDone, IntrSched, IntrLink, IntrLockI, IntrNoReset, Continue, Wake
<1>5. CASE IntrReset
  BY <1>5 DEF IntrReset
<1>6. CASE CtlStart
  BY <1>6 DEF CtlStart
<1>7. CASE CtlStop \/ CtlReset \/ CtlSuspend \/ CtlResumeFails
  BY <1>7 DEF CtlStop, CtlReset, CtlSuspend, CtlResumeFails
<1>8. CASE CtlResume
  BY <1>8 DEF CtlResume
<1>9. ASSUME NEW op, CtlEnter(op) PROVE UNCHANGED ringRead
  BY <1>9 DEF CtlEnter
<1>10. CASE ChipRx
  BY <1>10 DEF ChipRx
<1>11. ASSUME NEW bit, ChipRaise(bit) PROVE UNCHANGED ringRead
  BY <1>11 DEF ChipRaise
<1>12. CASE UNCHANGED vars
  BY <1>12 DEF vars
<1>13. QED
  BY <1>1, <1>2, <1>3, <1>4, <1>5, <1>6, <1>7, <1>8, <1>9, <1>10, <1>11, <1>12
     DEF Next, SendNext, IntrNext, IntrWork, CtlNext, CtlWork, ChipNext

\* Frames leave in the order in which afe_send accepted them, once each, and
\* none is dropped but by a restart: the transmit ring implements TxFifo.
THEOREM RingImplementsFifo == Spec => TransmitsInOrder
<1>1. Init => Fifo!FifoInit
  <2> SUFFICES ASSUME Init PROVE Fifo!FifoInit
    OBVIOUS
  <2>1. DoneSlots = {} /\ txown = {} /\ Cardinality({}) = 0
    BY FS_EmptySet DEF Init, DoneSlots
  <2>2. \A m \in Nat : TxFrom(m, 0) = <<>>
    BY DEF TxFrom
  <2>3. QED
    BY <2>1, <2>2 DEF Fifo!FifoInit
<1>2. TypeInv /\ TypeInv' /\ TxInv /\ OwnInv /\ [Next]_vars
          => [Fifo!FifoNext]_(Fifo!fifoVars)
  <2> SUFFICES ASSUME TypeInv, TypeInv', TxInv, OwnInv, [Next]_vars
               PROVE  [Fifo!FifoNext]_(Fifo!fifoVars)
    OBVIOUS
  <2>1. PICK c \in 0 .. TxRing - txavail : TxWindowAt(c)
    BY DEF TxInv, TxRingOK
  <2>2. ASSUME NEW s \in Senders, SendQueued(s) PROVE Fifo!FifoNext
    BY <2>1, <2>2, QueueAccepts DEF Fifo!FifoNext
  <2>3. ASSUME NEW bit \in TxBits, ChipTx(bit) PROVE Fifo!FifoNext
    BY <2>1, <2>3, ChipTransmits DEF Fifo!FifoNext
  <2>4. CASE IntrReclaim
    BY <2>1, <2>4, ReclaimGivesBack DEF Fifo!FifoNext
  <2>5. CASE EmptyRings
    BY <2>5, EmptyingDrops DEF Fifo!FifoNext
  <2>6. CASE UNCHANGED ringRead
    BY <2>6, RingUnread
  <2>7. QED
    BY <2>2, <2>3, <2>4, <2>5, <2>6, OtherSteps
<1>3. QED
  BY <1>1, <1>2, TypeInvariant, TxInvariant, OwnInvariant, PTL
     DEF Spec, TransmitsInOrder, Fifo!FifoSpec
=============================================================================
