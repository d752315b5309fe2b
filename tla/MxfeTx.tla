------------------------------- MODULE MxfeTx -------------------------------
(***************************************************************************)
(* The transmit side of the mxfe driver (drv/mxfe/mxfe.c): gldm_send on    *)
(* several threads, the transmit ring, the setup frame that carries the    *)
(* multicast filter and goes out through the same engine, the interrupt    *)
(* handler, and start, stop, suspend, resume and reset.                    *)
(*                                                                         *)
(* A region under mxfe_xmtlock is one step; only mxfe_setrxfilt, which     *)
(* polls the chip for up to 100 ms, is three.  CSRs IER and NAR are also   *)
(* written without that lock, by a read, then a write: two steps.          *)
(*                                                                         *)
(* The receive ring keeps its own buffers (mxfe_read copies each frame)    *)
(* and is left out, as is the link, which is in EtherLink.                 *)
(***************************************************************************)
EXTENDS Integers, FiniteSets

CONSTANTS
    Bufs,        \* the DMA buffers that are not in the receive ring
    NoBuf,       \* a NULL buffer pointer
    TxRing,      \* MXFE_TXRING
    LowWater,    \* MXFE_RECLAIM
    Senders,     \* the threads that may be inside gldm_send at once
    Hashes,      \* the buckets of the multicast hash, without that of the
                 \* broadcast address, whose bit mxfe_attach sets for good
    MaxCount,    \* bound: how many addresses GLD enables in one bucket
    ChipBits,    \* bound: "rxnobuf" and "error", what the chip may raise
    Coincidences \* bound: "full", the filter may change while the ring is
                 \* full

ASSUME MxfeAssumption ==
    /\ IsFiniteSet(Bufs) /\ NoBuf \notin Bufs
    /\ TxRing \in Nat \ {0} /\ LowWater \in Nat /\ MaxCount \in Nat \ {0}
    /\ ChipBits \subseteq {"rxnobuf", "error"}

TxSlots == 0 .. TxRing - 1

VARIABLES
    flags,            \* mxfe_flags: MXFE_RUNNING and MXFE_SUSPENDED
    free,             \* the buffers of mxfe_buftab below mxfe_topbuf
    txbufs, own,      \* mxfe_txbufs; the descriptors with MXFE_TXSTAT_OWN
    txsend, txreclaim, txavail,
    nar,              \* CSR NAR: MXFE_TX_ENABLE and MXFE_RX_ENABLE
    ier,              \* CSR IER: "wanted", MXFE_INT_WANTED, and "txnobuf"
    sr,               \* CSR SR: "txnobuf", "rxnobuf" and "error"
    pos, poll,        \* the chip's place in the ring, and is it looking
    tdb,              \* CSR TDB: the "ring" or the "setup" descriptor
    setupown,         \* MXFE_TXSTAT_OWN of the setup descriptor
    mccount, setupbuf,\* mxfe_mccount; the hash bits in mxfe_setup_buf
    loaded,           \* external: the filter the chip has loaded
    ipc, istat, inar, \* the interrupt thread: place, status, NAR as read
    spc, sbuf, sier,  \* each sender: place, buffer, IER as read
    fpc, fnar, fier,  \* mxfe_setrxfilt: place, and the NAR and IER it saved
    undone,           \* history: the handler has written NAR back over a
                      \* change of mxfe_setrxfilt since the last mxfe_startmac
    asked             \* history: the waiting threads that are owed a wake-up

ringVars == <<txbufs, own, txsend, txreclaim, txavail>>
chipVars == <<pos, poll, tdb, setupown, loaded>>
intrVars == <<ipc, istat, inar, undone>>
sendVars == <<spc, sbuf, sier>>
filtVars == <<mccount, setupbuf, fpc, fnar, fier>>
stepVars == <<flags, free, ringVars, nar, ier, sr, chipVars, intrVars,
              sendVars, filtVars>>
mxfeVars == <<stepVars, asked>>

NarBits == {"tx", "rx"}
IerBits == {"wanted", "txnobuf"}
SrBits  == {"txnobuf", "rxnobuf", "error"}
NoFilter == {"none"}

\* mxfe_txsend may come to stand one past the ring, where the next frame is
\* put outside the descriptors: that is slot TxRing.
MxfeTypeOK ==
    /\ flags \in SUBSET {"running", "suspended"}
    /\ free \in SUBSET Bufs
    /\ txbufs \in [0 .. TxRing -> Bufs \cup {NoBuf}]
    /\ own \in SUBSET (0 .. TxRing)
    /\ txsend \in 0 .. TxRing /\ txreclaim \in TxSlots /\ txavail \in Nat
    /\ nar \in SUBSET NarBits /\ ier \in SUBSET IerBits /\ sr \in SUBSET SrBits
    /\ pos \in TxSlots /\ poll \in BOOLEAN /\ tdb \in {"ring", "setup"}
    /\ setupown \in BOOLEAN
    /\ mccount \in [Hashes -> 0 .. MaxCount] /\ setupbuf \in SUBSET Hashes
    /\ loaded \in (SUBSET Hashes) \cup {NoFilter}
    /\ ipc \in {"idle", "ack", "work", "restart", "reclaim", "sched", "reset"}
    /\ istat \in SUBSET SrBits /\ inar \in SUBSET NarBits
    /\ undone \in BOOLEAN
    /\ spc \in [Senders -> {"idle", "enter", "nobuf", "setier", "copy",
                            "wait", "ready"}]
    /\ sbuf \in [Senders -> Bufs \cup {NoBuf}]
    /\ sier \in [Senders -> SUBSET IerBits]
    /\ fpc \in {"idle", "stopped", "loading"}
    /\ fnar \in SUBSET NarBits /\ fier \in SUBSET IerBits
    /\ asked \in SUBSET Senders

\* After a successful mxfe_attach, whose mxfe_set_multicast has loaded a
\* filter with the broadcast address only.
MxfeInit ==
    /\ flags = {} /\ free = Bufs
    /\ txbufs = [i \in 0 .. TxRing |-> NoBuf] /\ own = {}
    /\ txsend = 0 /\ txreclaim = 0 /\ txavail = TxRing
    /\ nar = {} /\ ier = {} /\ sr = {}
    /\ pos = 0 /\ poll = FALSE /\ tdb = "ring" /\ setupown = FALSE
    /\ mccount = [h \in Hashes |-> 0] /\ setupbuf = {} /\ loaded = {}
    /\ ipc = "idle" /\ istat = {} /\ inar = {} /\ undone = FALSE
    /\ spc = [s \in Senders |-> "idle"] /\ sbuf = [s \in Senders |-> NoBuf]
    /\ sier = [s \in Senders |-> {}]
    /\ fpc = "idle" /\ fnar = {} /\ fier = {}
    /\ asked = {}

XmtFree  == fpc = "idle"
IntrFree == ipc \notin {"ack", "work", "restart"}

-----------------------------------------------------------------------------
(***************************************************************************)
(* mxfe_reclaim, under mxfe_xmtlock.                                       *)
(***************************************************************************)

\* Mutant: mxfe_txreclaim runs past the end of the ring.
SlotNoWrap(i, n) == i + n

\* The slot n places after slot i: the positions advance by ++ and %=.
Slot(i, n) == (i + n) % TxRing
Used == TxRing - txavail

\* How many frames from mxfe_txreclaim on the chip is done with.
Completed ==
    CHOOSE n \in 0 .. Used :
        /\ \A k \in 0 .. n - 1 : Slot(txreclaim, k) \notin own
        /\ n = Used \/ Slot(txreclaim, n) \in own

\* What one call reclaims: nothing when not running.
Reclaimable == IF "running" \in flags THEN Completed ELSE 0
Reclaimed(n) == {Slot(txreclaim, k) : k \in 0 .. n - 1}

\* An emptied ring: "we don't need to know about it again".
IerReclaimed(n) ==
    IF "running" \in flags /\ n = Used THEN ier \ {"txnobuf"} ELSE ier

-----------------------------------------------------------------------------
(***************************************************************************)
(* mxfe_send, on the thread of sender s.  External: GLD calls it while the *)
(* MAC is running, and again after gld_sched for a refused message.        *)
(***************************************************************************)
SendEnter(s) ==
    /\ spc[s] \in {"idle", "ready"} /\ sbuf[s] = NoBuf
    /\ "running" \in flags
    /\ spc' = [spc EXCEPT ![s] = "enter"]
    /\ UNCHANGED <<flags, free, ringVars, nar, ier, sr, chipVars, intrVars,
                   sbuf, sier, filtVars>>

\* The unlocked test of MXFE_RUNNING, and mxfe_getbuf.
SendGetBuf(s) ==
    /\ spc[s] = "enter"
    /\ IF "running" \in flags /\ free # {}
       THEN \E b \in free : /\ free' = free \ {b}
                            /\ sbuf' = [sbuf EXCEPT ![s] = b]
                            /\ spc' = [spc EXCEPT ![s] = "copy"]
       ELSE /\ spc' = [spc EXCEPT ![s] = IF "running" \in flags THEN "nobuf"
                                         ELSE "wait"]
            /\ UNCHANGED <<free, sbuf>>
    /\ UNCHANGED <<flags, ringVars, nar, ier, sr, chipVars, intrVars, sier,
                   filtVars>>

\* No buffer: SETBIT of TXNOBUF in IER, with no lock.
SendReadIer(s) ==
    /\ spc[s] = "nobuf"
    /\ spc' = [spc EXCEPT ![s] = "setier"]
    /\ sier' = [sier EXCEPT ![s] = ier]
    /\ UNCHANGED <<flags, free, ringVars, nar, ier, sr, chipVars, intrVars,
                   sbuf, filtVars>>

SendSetIer(s) ==
    /\ spc[s] = "setier"
    /\ ier' = sier[s] \cup {"txnobuf"}
    /\ spc' = [spc EXCEPT ![s] = "wait"]
    /\ sier' = [sier EXCEPT ![s] = {}]
    /\ UNCHANGED <<flags, free, ringVars, nar, sr, chipVars, intrVars, sbuf,
                   filtVars>>

\* Under mxfe_xmtlock: what was sent is reclaimed when descriptors are low;
\* then the frame takes the descriptor at mxfe_txsend, and the chip is woken.
Gained == IF txavail < LowWater THEN Reclaimable ELSE 0

RoomAfter == txavail + Gained > 0

SendQueued(s) ==
    /\ spc[s] = "copy" /\ XmtFree /\ RoomAfter
    /\ LET slots == Reclaimed(Gained) IN
       /\ free' = free \cup ({txbufs[i] : i \in slots} \ {NoBuf})
       /\ txbufs' = [i \in 0 .. TxRing |-> IF i = txsend THEN sbuf[s]
                                           ELSE IF i \in slots THEN NoBuf
                                           ELSE txbufs[i]]
    /\ own' = own \cup {txsend}
    /\ txreclaim' = Slot(txreclaim, Gained)
    /\ txsend' = (txsend + 1) % TxRing
    /\ txavail' = txavail + Gained - 1
    /\ ier' = IF txavail < LowWater THEN IerReclaimed(Gained) ELSE ier
    /\ poll' = TRUE
    /\ sbuf' = [sbuf EXCEPT ![s] = NoBuf]
    /\ spc' = [spc EXCEPT ![s] = "idle"]
    /\ UNCHANGED <<flags, nar, sr, pos, tdb, setupown, loaded, intrVars, sier,
                   filtVars>>

\* "no more tmds".
SendRefused(s) ==
    /\ spc[s] = "copy" /\ XmtFree /\ ~ RoomAfter
    /\ ier' = ier \cup {"txnobuf"}
    /\ spc' = [spc EXCEPT ![s] = "wait"]
    /\ UNCHANGED <<flags, free, ringVars, nar, sr, chipVars, intrVars, sbuf,
                   sier, filtVars>>

\* mxfe_freebuf of the refused frame, the lock dropped.
SendFreeBuf(s) ==
    /\ spc[s] \in {"wait", "ready"} /\ sbuf[s] # NoBuf
    /\ free' = free \cup {sbuf[s]}
    /\ sbuf' = [sbuf EXCEPT ![s] = NoBuf]
    /\ UNCHANGED <<flags, ringVars, nar, ier, sr, chipVars, intrVars, spc,
                   sier, filtVars>>

-----------------------------------------------------------------------------
(***************************************************************************)
(* The chip stopped, reset and started: mxfe_stopmac, mxfe_resetmac and    *)
(* mxfe_startmac, with both locks held.                                    *)
(***************************************************************************)

\* Both engines off, interrupts masked and acknowledged.
StopMac == nar' = {} /\ ier' = {} /\ sr' = {} /\ poll' = FALSE

\* Mutant: the ring pointers are kept.
EmptyRingPointersKept ==
    /\ free' = free \cup ({txbufs[i] : i \in TxSlots} \ {NoBuf})
    /\ txbufs' = [i \in 0 .. TxRing |-> IF i \in TxSlots THEN NoBuf ELSE txbufs[i]]
    /\ own' = own \ TxSlots
    /\ pos' = 0 /\ tdb' = "ring"
    /\ UNCHANGED <<txsend, txreclaim, txavail>>

\* Mutant: the buffers of queued frames are not freed.
EmptyRingLeak ==
    /\ free' = free
    /\ txbufs' = [i \in 0 .. TxRing |-> IF i \in TxSlots THEN NoBuf ELSE txbufs[i]]
    /\ own' = own \ TxSlots
    /\ txsend' = 0 /\ txreclaim' = 0 /\ txavail' = TxRing
    /\ pos' = 0 /\ tdb' = "ring"

\* "free any pending buffers", pointers and descriptors reset.
EmptyRing ==
    /\ free' = free \cup ({txbufs[i] : i \in TxSlots} \ {NoBuf})
    /\ txbufs' = [i \in 0 .. TxRing |-> IF i \in TxSlots THEN NoBuf ELSE txbufs[i]]
    /\ own' = own \ TxSlots
    /\ txsend' = 0 /\ txreclaim' = 0 /\ txavail' = TxRing
    /\ pos' = 0 /\ tdb' = "ring"

\* mxfe_startmac: mxfe_enableinterrupts does not unmask TXNOBUF.
StartMac ==
    /\ EmptyRing
    /\ nar' = {"tx", "rx"} /\ ier' = {"wanted"} /\ poll' = TRUE
    /\ undone' = FALSE

\* External: GLD starts and resets a stopped MAC and stops a running one, and
\* does neither once the device has been suspended.
CtlStart ==
    /\ XmtFree /\ IntrFree /\ flags = {}
    /\ StartMac
    /\ flags' = {"running"}
    /\ UNCHANGED <<sr, setupown, loaded, ipc, istat, inar, sendVars, filtVars>>

CtlStop ==
    /\ XmtFree /\ IntrFree /\ flags = {"running"}
    /\ StopMac
    /\ flags' = {}
    /\ UNCHANGED <<free, ringVars, pos, tdb, setupown, loaded, intrVars,
                   sendVars, filtVars>>

\* The software reset: the registers are cleared, the filter is forgotten.
CtlReset ==
    /\ XmtFree /\ IntrFree /\ flags = {}
    /\ StopMac
    /\ loaded' = NoFilter
    /\ UNCHANGED <<flags, free, ringVars, pos, tdb, setupown, intrVars,
                   sendVars, filtVars>>

\* DDI_SUSPEND in mxfe_detach.
CtlSuspend ==
    /\ XmtFree /\ IntrFree /\ "suspended" \notin flags
    /\ StopMac
    /\ flags' = flags \cup {"suspended"}
    /\ UNCHANGED <<free, ringVars, pos, tdb, setupown, loaded, intrVars,
                   sendVars, filtVars>>

\* mxfe_resume: MXFE_SUSPENDED is never cleared, so that mxfe_setrxfilt
\* returns at once.  (When the reset fails nothing changes.)
CtlResume ==
    /\ XmtFree /\ IntrFree /\ "suspended" \in flags
    /\ loaded' = NoFilter /\ sr' = {}
    /\ IF "running" \in flags THEN StartMac
       ELSE /\ nar' = {} /\ ier' = {} /\ poll' = FALSE
            /\ UNCHANGED <<free, ringVars, pos, tdb, undone>>
    /\ UNCHANGED <<flags, setupown, ipc, istat, inar, sendVars, filtVars>>

-----------------------------------------------------------------------------
(***************************************************************************)
(* mxfe_setrxfilt, and the entry points that call it under mxfe_xmtlock.   *)
(***************************************************************************)

\* Mutant: only the frames still to be sent move to the front.
TxReorderUnsent ==
    LET from == Completed  num == Used - Completed IN
    /\ txbufs' = [i \in 0 .. TxRing |->
                    IF i < num THEN txbufs[Slot(txreclaim, from + i)]
                    ELSE IF i \in TxSlots THEN NoBuf ELSE txbufs[i]]
    /\ own' = 0 .. num - 1
    /\ txsend' = num /\ txreclaim' = 0

\* mxfe_txreorder: every frame in the ring moves to the front, and is given
\* to the chip, sent already or not.  mxfe_txsend is not reduced modulo the
\* size of the ring.
TxReorder ==
    /\ txbufs' = [i \in 0 .. TxRing |->
                    IF i < Used THEN txbufs[Slot(txreclaim, i)]
                    ELSE IF i \in Reclaimed(Used) THEN NoBuf ELSE txbufs[i]]
    /\ own' = (own \ Reclaimed(Used)) \cup (0 .. Used - 1)
    /\ txsend' = Used /\ txreclaim' = 0

MayReorder ==
    Used < TxRing \/ "full" \in Coincidences \/ "suspended" \in flags

\* "don't touch a suspended interface"; else the transmitter and receiver
\* stop and the ring is reordered.  The promiscuous bits set in NAR here are
\* lost: the value saved before is written back over them.
SetRxFilt ==
    IF "suspended" \in flags
    THEN UNCHANGED <<txbufs, own, txsend, txreclaim, nar, ier, poll, fpc, fnar, fier>>
    ELSE /\ fnar' = nar /\ nar' = {} /\ poll' = FALSE
         /\ fier' = ier /\ ier' = ier \ {"txnobuf"}
         /\ TxReorder
         /\ fpc' = "stopped"

\* mxfe_mcadd of an address of bucket h.
McAdd(h) ==
    /\ mccount[h] < MaxCount
    /\ mccount' = [mccount EXCEPT ![h] = @ + 1]
    /\ setupbuf' = setupbuf \cup {h}

\* Mutant: the bit goes with the first address of the bucket.
McDeleteAny(h) ==
    /\ mccount[h] > 0
    /\ mccount' = [mccount EXCEPT ![h] = @ - 1]
    /\ setupbuf' = setupbuf \ {h}

\* mxfe_mcdelete.  External: GLD disables what it has enabled.
McDelete(h) ==
    /\ mccount[h] > 0
    /\ mccount' = [mccount EXCEPT ![h] = @ - 1]
    /\ setupbuf' = IF mccount[h] = 1 THEN setupbuf \ {h} ELSE setupbuf

\* Mutant: a bucket that is emptied is no change.
BucketAdded == setupbuf' \ setupbuf # {}

\* What mxfe_mcadd and mxfe_mcdelete return.
Changed == setupbuf' # setupbuf

SetMulticast(h) ==
    /\ XmtFree /\ MayReorder
    /\ McAdd(h) \/ McDelete(h)
    /\ IF Changed THEN SetRxFilt
       ELSE UNCHANGED <<txbufs, own, txsend, txreclaim, nar, ier, poll, fpc,
                        fnar, fier>>
    /\ UNCHANGED <<flags, free, txavail, sr, pos, tdb, setupown, loaded,
                   intrVars, sendVars>>

\* mxfe_set_promiscuous and mxfe_set_mac_addr: the hash bits do not change.
SetPromiscOrAddr ==
    /\ XmtFree /\ MayReorder
    /\ SetRxFilt
    /\ UNCHANGED <<flags, free, txavail, sr, pos, tdb, setupown, loaded,
                   mccount, setupbuf, intrVars, sendVars>>

\* The setup descriptor is given to the chip and the transmitter started.
FiltSend ==
    /\ fpc = "stopped"
    /\ setupown' = TRUE /\ tdb' = "setup"
    /\ nar' = {"tx"} /\ poll' = TRUE
    /\ fpc' = "loading"
    /\ UNCHANGED <<flags, free, ringVars, ier, sr, pos, loaded, intrVars,
                   sendVars, mccount, setupbuf, fnar, fier>>

\* Mutant: the transmitter is left at the setup descriptor.
FiltEndNoRing ==
    /\ fpc = "loading"
    /\ nar' = fnar /\ poll' = ("tx" \in fnar)
    /\ ier' = fier
    /\ fpc' = "idle" /\ fnar' = {} /\ fier' = {}
    /\ UNCHANGED <<flags, free, ringVars, sr, pos, tdb, setupown, loaded,
                   intrVars, sendVars, mccount, setupbuf>>

\* Mutant: the engines are not enabled again.
FiltEndStopped ==
    /\ fpc = "loading"
    /\ nar' = {} /\ poll' = FALSE
    /\ tdb' = "ring" /\ pos' = 0
    /\ ier' = fier
    /\ fpc' = "idle" /\ fnar' = {} /\ fier' = {}
    /\ UNCHANGED <<flags, free, ringVars, sr, setupown, loaded, intrVars,
                   sendVars, mccount, setupbuf>>

\* The frame has been loaded, or 100 ms have passed: nobody looks which.
FiltEnd ==
    /\ fpc = "loading"
    /\ nar' = fnar /\ poll' = ("tx" \in fnar)
    /\ tdb' = "ring" /\ pos' = 0
    /\ ier' = fier
    /\ fpc' = "idle" /\ fnar' = {} /\ fier' = {}
    /\ UNCHANGED <<flags, free, ringVars, sr, setupown, loaded, intrVars,
                   sendVars, mccount, setupbuf>>

-----------------------------------------------------------------------------
(***************************************************************************)
(* mxfe_intr.  A call that finds the interface suspended or no status bit  *)
(* set returns DDI_INTR_UNCLAIMED and changes nothing.                     *)
(***************************************************************************)
\* On to place p, with the status bits that are looked at from there on.
IntrGoto(p) ==
    /\ ipc' = p
    /\ istat' = istat \cap (CASE p \in {"work", "restart"}   -> SrBits
                              [] p \in {"reclaim", "sched"} -> {"error"}
                              [] OTHER                      -> {})

AfterTx == IF "error" \in istat THEN "reset" ELSE "idle"

\* Where the handler goes when it has dropped mxfe_intrlock: wantw is set
\* by TXNOBUF and not initialised otherwise.
AfterUnlock == IF "txnobuf" \in istat THEN {"reclaim"} ELSE {"reclaim", AfterTx}

IntrRead ==
    /\ ipc = "idle" /\ "suspended" \notin flags /\ sr # {}
    /\ istat' = sr /\ ipc' = "ack"
    /\ UNCHANGED <<flags, free, ringVars, nar, ier, sr, chipVars, inar,
                   undone, sendVars, filtVars>>

IntrAck ==
    /\ ipc = "ack"
    /\ sr' = sr \ istat
    /\ IntrGoto(IF "running" \in flags THEN "work" ELSE "idle")
    /\ UNCHANGED <<flags, free, ringVars, nar, ier, chipVars, inar, undone,
                   sendVars, filtVars>>

\* The region under mxfe_intrlock; the receiver is restarted by a SETBIT.
IntrWork ==
    /\ ipc = "work"
    /\ IF "rxnobuf" \in istat
       THEN inar' = nar /\ IntrGoto("restart")
       ELSE /\ \E p \in AfterUnlock : IntrGoto(p)
            /\ UNCHANGED inar
    /\ UNCHANGED <<flags, free, ringVars, nar, ier, sr, chipVars, undone,
                   sendVars, filtVars>>

IntrRestart ==
    /\ ipc = "restart"
    /\ nar' = inar \cup {"rx"}
    /\ poll' = (("tx" \in inar) /\ (poll \/ "tx" \notin nar))
    /\ inar' = {} /\ undone' = (undone \/ nar # inar)
    /\ \E p \in AfterUnlock : IntrGoto(p)
    /\ UNCHANGED <<flags, free, ringVars, ier, sr, pos, tdb, setupown, loaded,
                   sendVars, filtVars>>

IntrReclaim ==
    /\ ipc = "reclaim" /\ XmtFree
    /\ LET slots == Reclaimed(Reclaimable) IN
       /\ free' = free \cup ({txbufs[i] : i \in slots} \ {NoBuf})
       /\ txbufs' = [i \in 0 .. TxRing |-> IF i \in slots THEN NoBuf ELSE txbufs[i]]
    /\ txreclaim' = Slot(txreclaim, Reclaimable)
    /\ txavail' = txavail + Reclaimable
    /\ ier' = IerReclaimed(Reclaimable)
    /\ IntrGoto("sched")
    /\ UNCHANGED <<flags, own, txsend, nar, sr, chipVars, inar, undone,
                   sendVars, filtVars>>

\* Mutant: gld_sched is not called.
WakeNone == UNCHANGED spc

\* gld_sched.
Wake == spc' = [s \in Senders |-> IF spc[s] = "wait" THEN "ready" ELSE spc[s]]

IntrSched ==
    /\ ipc = "sched"
    /\ Wake
    /\ IntrGoto(AfterTx)
    /\ UNCHANGED <<flags, free, ringVars, nar, ier, sr, chipVars, inar, undone,
                   sbuf, sier, filtVars>>

\* The reset after an error: nobody loads the filter again.
IntrReset ==
    /\ ipc = "reset" /\ XmtFree
    /\ IF "running" \in flags
       THEN StartMac /\ sr' = {} /\ loaded' = NoFilter
       ELSE UNCHANGED <<free, ringVars, nar, ier, sr, pos, poll, tdb, loaded,
                        undone>>
    /\ IntrGoto("idle")
    /\ UNCHANGED <<flags, setupown, inar, sendVars, filtVars>>

-----------------------------------------------------------------------------
(***************************************************************************)
(* The chip (external).  It looks for a descriptor of its own when the     *)
(* transmitter is started and when CSR TDR is written, goes on while it    *)
(* finds one, and raises TXNOBUF when it does not.                         *)
(***************************************************************************)
ChipOn == "tx" \in nar /\ poll

ChipTx ==
    /\ ChipOn /\ tdb = "ring" /\ pos \in own
    /\ own' = own \ {pos} /\ pos' = Slot(pos, 1)
    /\ UNCHANGED <<flags, free, txbufs, txsend, txreclaim, txavail, nar, ier,
                   sr, poll, tdb, setupown, loaded, intrVars, sendVars,
                   filtVars>>

ChipSetup ==
    /\ ChipOn /\ tdb = "setup" /\ setupown
    /\ setupown' = FALSE /\ loaded' = setupbuf
    /\ UNCHANGED <<flags, free, ringVars, nar, ier, sr, pos, poll, tdb,
                   intrVars, sendVars, filtVars>>

ChipIdle ==
    /\ ChipOn /\ IF tdb = "ring" THEN pos \notin own ELSE ~ setupown
    /\ poll' = FALSE /\ sr' = sr \cup {"txnobuf"}
    /\ UNCHANGED <<flags, free, ringVars, nar, ier, pos, tdb, setupown, loaded,
                   intrVars, sendVars, filtVars>>

\* No receive descriptor left, or a bus error, underflow or jabber.
ChipRaise(bit) ==
    /\ IF bit = "rxnobuf" THEN "rx" \in nar ELSE nar # {}
    /\ sr' = sr \cup {bit}
    /\ UNCHANGED <<flags, free, ringVars, nar, ier, chipVars, intrVars,
                   sendVars, filtVars>>

-----------------------------------------------------------------------------
SendNext == \E s \in Senders :
    \/ SendEnter(s) \/ SendGetBuf(s) \/ SendReadIer(s) \/ SendSetIer(s)
    \/ SendQueued(s) \/ SendRefused(s) \/ SendFreeBuf(s)

FiltNext == FiltSend \/ FiltEnd
SetNext  == SetPromiscOrAddr \/ \E h \in Hashes : SetMulticast(h)

IntrGo == IntrAck \/ IntrWork \/ IntrRestart \/ IntrReclaim \/ IntrSched \/ IntrReset

CtlNext  == CtlStart \/ CtlStop \/ CtlReset \/ CtlSuspend \/ CtlResume

ChipNext == ChipTx \/ ChipSetup \/ ChipIdle \/ \E bit \in ChipBits : ChipRaise(bit)

\* TXNOBUF masked by another than the handler's own reclaim, which goes on to
\* gld_sched, and than mxfe_setrxfilt, which puts it back.
MaskLost == /\ "txnobuf" \in ier \ ier' /\ fpc' = "idle"
            /\ ~ (ipc = "reclaim" /\ ipc' = "sched")

\* History: the waiting threads whose request for TXNOBUF still stands.
Asked == asked' = {s \in Senders : /\ spc'[s] = "wait" /\ ~ MaskLost
                                   /\ spc[s] # "wait" => "txnobuf" \in ier'
                                   /\ spc[s] = "wait" => s \in asked}

MxfeNext ==
    /\ SendNext \/ FiltNext \/ SetNext \/ IntrRead \/ IntrGo \/ CtlNext \/ ChipNext
    /\ Asked

MxfeSpec == MxfeInit /\ [][MxfeNext]_mxfeVars

\* An unmasked interrupt is delivered and handled, the chip goes on, and a
\* thread that has entered the driver leaves it.
Unmasked == \/ "txnobuf" \in ier \cap sr
            \/ "wanted" \in ier /\ sr \cap {"rxnobuf", "error"} # {}

MxfeFairness ==
    /\ WF_stepVars(Unmasked /\ IntrRead) /\ WF_stepVars(IntrGo)
    /\ WF_stepVars(ChipTx) /\ WF_stepVars(ChipIdle)
    /\ WF_stepVars(FiltNext)
    /\ \A s \in Senders : /\ WF_stepVars(SendGetBuf(s)) /\ WF_stepVars(SendReadIer(s))
                          /\ WF_stepVars(SendSetIer(s)) /\ WF_stepVars(SendFreeBuf(s))
                          /\ WF_stepVars(SendQueued(s) \/ SendRefused(s))
                          /\ WF_stepVars(spc[s] = "ready" /\ SendEnter(s))

MxfeFairSpec == MxfeSpec /\ MxfeFairness

-----------------------------------------------------------------------------
(***************************************************************************)
(* Properties.                                                             *)
(***************************************************************************)

\* mxfe_getbuf, mxfe_freebuf, the ring and its reordering share out the
\* buffers between them: none is lost and none is in two places.
NoneLost ==
    \A b \in Bufs : \/ b \in free
                    \/ \E i \in 0 .. TxRing : txbufs[i] = b
                    \/ \E s \in Senders : sbuf[s] = b

NoneShared ==
    /\ \A i \in 0 .. TxRing :
         /\ txbufs[i] \notin free
         /\ \A j \in 0 .. TxRing : txbufs[i] = txbufs[j] => i = j \/ txbufs[i] = NoBuf
         /\ \A s \in Senders : txbufs[i] = sbuf[s] => txbufs[i] = NoBuf
    /\ \A s \in Senders :
         /\ sbuf[s] \notin free
         /\ \A t \in Senders : sbuf[s] = sbuf[t] => s = t \/ sbuf[s] = NoBuf

BufferOwnership == NoneLost /\ NoneShared

\* The Used slots from mxfe_txreclaim on hold the frames, the chip is done
\* with the first of them and owns the others, the next frame goes behind
\* them, and the chip stands at the first it owns: no frame is overwritten,
\* passed over or put where the chip does not look, also across a filter
\* change, unless the handler has started the engines in the middle of one.
TxWindowOK == ~ undone =>
    /\ \A i \in 0 .. TxRing : txbufs[i] # NoBuf <=> i \in Reclaimed(Used)
    /\ \E c \in 0 .. Used :
         /\ own = Reclaimed(Used) \ Reclaimed(c)
         /\ XmtFree => pos = Slot(txreclaim, c)
    /\ txsend = Slot(txreclaim, Used)

\* A descriptor is never outside the ring: "to ensure that when we restart we
\* are able to continue transmitting packets without dropping any".
NoneDropped == txbufs[TxRing] = NoBuf

\* The chip looks at the ring whenever the transmitter runs and no filter is
\* being loaded: no setup frame stalls it.
NeverStalled ==
    "tx" \in nar /\ XmtFree => tdb = "ring" /\ (own # {} /\ ~ undone => poll)

\* The filter in the chip is the last one set, or none at all since a reset,
\* if the chip took the setup frame in time.
FilterCurrent ==
    XmtFree /\ ~ setupown /\ "suspended" \notin flags => loaded \in {setupbuf, NoFilter}

\* The hash bits in the setup frame are those of the addresses enabled.
HashBits == \A h \in Hashes : h \in setupbuf <=> mccount[h] > 0

\* No change of the filter leaves the transmitter of a running MAC off, unless
\* the handler has written back a NAR that it read while one was under way.
TxStaysOn == flags = {"running"} /\ XmtFree /\ ~ undone => "tx" \in nar

\* A message mxfe_send refused while frames are in the ring is tried again
\* when they have left it, unless its request for TXNOBUF has been masked
\* under it or the transmitter stops.
WaitersRescheduled ==
    \A s \in Senders :
        s \in asked /\ Used > 0
            ~> s \notin asked \/ "tx" \notin nar \/ "suspended" \in flags

\* "restore rx filter": a filter that was in force when the device was
\* suspended is in force when mxfe_resume has returned.
ResumeRestores ==
    [][CtlResume /\ loaded = setupbuf => loaded' = setupbuf]_mxfeVars

\* The ring implements TxRewind.
Queue == INSTANCE TxRewind WITH
    Frames <- Bufs, Depth <- TxRing,
    held <- [j \in 1 .. Used |-> txbufs[Slot(txreclaim, j - 1)]],
    sent <- Completed

\* Frames leave in the order of acceptance, and their buffers come back only
\* when they have been sent, unless the handler has started the engines in the
\* middle of a change of the filter.
SendsInOrder == Queue!RewindInit /\ [][undone \/ Queue!RewindNext]_(Queue!rewindVars)
=============================================================================
