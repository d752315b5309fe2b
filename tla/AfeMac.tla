------------------------------- MODULE AfeMac -------------------------------
(***************************************************************************)
(* The MAC core of the afe driver (drv/afe/afe.c): the DMA buffer pool,    *)
(* the transmit and receive descriptor rings, gldm_send on several         *)
(* threads, the interrupt handler, and the entry points that start, stop,  *)
(* suspend, resume and reset the chip, all running concurrently with the   *)
(* chip's own DMA engines.                                                 *)
(*                                                                         *)
(* A region the driver runs under a mutex is one step unless the pool      *)
(* (guarded only by afe_buflock) or the chip can be seen halfway through   *)
(* it; afe_intrlock and afe_xmtlock are variables because several steps of *)
(* one thread may run while it holds them.                                 *)
(***************************************************************************)
EXTENDS Integers, FiniteSets

CONSTANTS
    Bufs,        \* the DMA buffers of afe_buftab (AFE_NUMBUFS of them)
    NoBuf,       \* a NULL buffer pointer
    TxRing,      \* AFE_TXRING
    RxRing,      \* AFE_RXRING
    Senders,     \* the threads that may be inside gldm_send at once
    NumThresh,   \* the number of entries of the afe_txthresh table
    ChipBits     \* bound: the status bits the chip may raise

ASSUME RingAssumption == TxRing \in Nat \ {0} /\ RxRing \in Nat \ {0}
ASSUME BufAssumption == IsFiniteSet(Bufs) /\ NoBuf \notin Bufs
ASSUME SenderAssumption == IsFiniteSet(Senders)
ASSUME ThreshAssumption == NumThresh \in Nat \ {0}

TxSlots == 0 .. TxRing - 1
RxSlots == 0 .. RxRing - 1

(***************************************************************************)
(* The bits of CSR SR2 the handler acts on.  "berr" stands for             *)
(* AFE_INT_BUSERR and AFE_INT_RXJABBER, which are handled alike: a reset   *)
(* with no transmit work; "rxnobuf" for AFE_INT_RXNOBUF and the            *)
(* AFE_INT_RXIDLE that comes with it.                                      *)
(***************************************************************************)
TxBits    == {"txok", "txunf", "txjab"}
RxBits    == {"rxok", "rxnobuf"}
ResetBits == {"txunf", "txjab", "berr"}
Bits      == TxBits \cup RxBits \cup ResetBits \cup {"link"}

VARIABLES
    flags,               \* afe_flags: AFE_RUNNING and AFE_SUSPENDED
    linkup,              \* afe_linkup
    thresh,              \* afe_txthresh, the index into the table
    gld,                 \* external: GLD has the MAC "started" or "stopped"
    lockI, lockX,        \* owners of afe_intrlock and afe_xmtlock
    free,                \* the buffers in afe_buftab below afe_topbuf
    txbufs, txown,       \* afe_txbufs; the descriptors with AFE_TXSTAT_OWN
    txsend, txreclaim, txavail,
    rxbufs, rxaddr, rxown, \* afe_rxbufs; desc_buffer1; AFE_RXSTAT_OWN set
    rxcurrent,
    nar,                 \* CSR NAR: AFE_TX_ENABLE and AFE_RX_ENABLE
    ier,                 \* CSR IER2: AFE_INT_NONE or AFE_INT_WANTED
    sr2,                 \* the pending bits of CSR SR2
    chiptx, chiprx,      \* the chip's own positions in the two rings
    ipc, istat, linkchk, \* the interrupt thread: place, status, linkcheck
    spc, sbuf,           \* each sender: place, and the buffer it holds
    cpc,                 \* the thread in start/stop/suspend/resume/reset
    fill                 \* the receive slot afe_startmac fills next

flagVars == <<flags, linkup, gld>>
lockVars == <<lockI, lockX>>
txVars   == <<txbufs, txown, txsend, txreclaim, txavail>>
rxVars   == <<rxbufs, rxaddr, rxown, rxcurrent>>
regVars  == <<nar, ier, sr2>>
posVars  == <<chiptx, chiprx>>
intrVars == <<ipc, istat, linkchk>>
sendVars == <<spc, sbuf>>
ctlVars  == <<cpc, fill>>
vars == <<flagVars, thresh, lockVars, free, txVars, rxVars, regVars, posVars,
          intrVars, sendVars, ctlVars>>

\* The type of each variable, and its range where that does not depend on
\* another one.
FieldTypes ==
    /\ flags \in SUBSET {"running", "suspended"} /\ linkup \in 0 .. 1
    /\ gld \in {"stopped", "started"}
    /\ thresh \in 0 .. NumThresh
    /\ lockI \in {"none", "intr", "ctl"} /\ lockX \in {"none", "intr", "ctl"}
    /\ free \in SUBSET Bufs
    /\ txbufs \in [TxSlots -> Bufs \cup {NoBuf}]
    /\ txown \in SUBSET TxSlots
    /\ txsend \in TxSlots /\ txreclaim \in TxSlots /\ txavail \in Nat
    /\ rxbufs \in [RxSlots -> Bufs \cup {NoBuf}]
    /\ rxaddr \in [RxSlots -> Bufs \cup {NoBuf}]
    /\ rxown \in SUBSET RxSlots /\ rxcurrent \in RxSlots
    /\ nar \in SUBSET {"tx", "rx"} /\ ier \in {"none", "wanted"}
    /\ sr2 \in SUBSET Bits
    /\ chiptx \in TxSlots /\ chiprx \in RxSlots
    /\ ipc \in {"idle", "ack", "rx", "reclaim", "sched", "link", "lockI",
                "lockX", "fill"}
    /\ istat \in SUBSET Bits /\ linkchk \in 0 .. 1
    /\ spc \in [Senders -> {"idle", "ready", "copy", "wait"}]
    /\ sbuf \in [Senders -> Bufs \cup {NoBuf}]
    /\ cpc \in {"idle", "start", "stop", "suspend", "resume", "reset",
                "fillstart", "fillresume"}
    /\ fill \in 0 .. RxRing

\* Types: afe_txavail never exceeds the ring and the ring positions stay on
\* it, in every interleaving of afe_send, afe_intr and the GLD entry points.
\* The threshold does not stay in range: afe_txthresh has NumThresh entries,
\* "increasing values 0-4" says afeimpl.h of the index, and the handler lets it
\* grow to NumThresh, where afe_startmac reads past the end of the table.
\* That is as far as it gets.
TypeOK == FieldTypes /\ txavail <= TxRing

(***************************************************************************)
(* After a successful afe_attach: every buffer is in the pool and the      *)
(* rings are empty (afe_allocrings), and the chip has been reset.          *)
(***************************************************************************)
Init ==
    /\ flags = {} /\ linkup = 0 /\ gld = "stopped"
    /\ thresh = 0
    /\ lockI = "none" /\ lockX = "none"
    /\ free = Bufs
    /\ txbufs = [i \in TxSlots |-> NoBuf] /\ txown = {}
    /\ txsend = 0 /\ txreclaim = 0 /\ txavail = TxRing
    /\ rxbufs = [i \in RxSlots |-> NoBuf] /\ rxaddr = [i \in RxSlots |-> NoBuf]
    /\ rxown = {} /\ rxcurrent = 0
    /\ nar = {} /\ ier = "none" /\ sr2 = {}
    /\ chiptx = 0 /\ chiprx = 0
    /\ ipc = "idle" /\ istat = {} /\ linkchk = 0
    /\ spc = [s \in Senders |-> "idle"] /\ sbuf = [s \in Senders |-> NoBuf]
    /\ cpc = "idle" /\ fill = 0

\* The ring pointers advance by ++ and %=.
Succ(i, n) == (i + 1) % n

-----------------------------------------------------------------------------
(***************************************************************************)
(* afe_send, on the thread of sender s.  GLD calls it only after           *)
(* gldm_start; a message afe_send refuses with GLD_NORESOURCES waits on    *)
(* its stream's queue until gld_sched ("wait", then "ready"), and GLD       *)
(* marks it as waiting no later than the refusal.                          *)
(***************************************************************************)

\* afe_getbuf(afep, 1), before the transmit lock is taken.
SendGetBuf(s) ==
    /\ gld = "started" /\ spc[s] \in {"idle", "ready"} /\ sbuf[s] = NoBuf
    /\ \/ \E b \in free :
            /\ free' = free \ {b}
            /\ sbuf' = [sbuf EXCEPT ![s] = b]
            /\ spc' = [spc EXCEPT ![s] = "copy"]
       \/ /\ free = {}
          /\ spc' = [spc EXCEPT ![s] = "wait"]
          /\ UNCHANGED <<free, sbuf>>
    /\ UNCHANGED <<flagVars, thresh, lockVars, txVars, rxVars, regVars,
                   posVars, intrVars, ctlVars>>

\* Under afe_xmtlock: suspended, or out of descriptors.
SendRefused(s) ==
    /\ spc[s] = "copy" /\ lockX = "none"
    /\ "suspended" \in flags \/ txavail = 0
    /\ spc' = [spc EXCEPT ![s] = "wait"]
    /\ UNCHANGED <<flagVars, thresh, lockVars, free, txVars, rxVars, regVars,
                   posVars, intrVars, sbuf, ctlVars>>

\* Mutant: a refused frame's buffer is not given back.
SendFreeBufForgotten(s) ==
    /\ spc[s] \in {"wait", "ready"} /\ sbuf[s] # NoBuf
    /\ sbuf' = [sbuf EXCEPT ![s] = NoBuf]
    /\ UNCHANGED <<flagVars, thresh, lockVars, free, txVars, rxVars, regVars,
                   posVars, intrVars, spc, ctlVars>>

\* afe_freebuf, when the lock has been dropped, and the return to GLD.
SendFreeBuf(s) ==
    /\ spc[s] \in {"wait", "ready"} /\ sbuf[s] # NoBuf
    /\ free' = free \cup {sbuf[s]}
    /\ sbuf' = [sbuf EXCEPT ![s] = NoBuf]
    /\ UNCHANGED <<flagVars, thresh, lockVars, txVars, rxVars, regVars,
                   posVars, intrVars, spc, ctlVars>>

\* Under afe_xmtlock: the frame takes the descriptor at afe_txsend.
SendQueued(s) ==
    /\ spc[s] = "copy" /\ lockX = "none"
    /\ "suspended" \notin flags /\ txavail # 0
    /\ txavail' = txavail - 1
    /\ txbufs' = [txbufs EXCEPT ![txsend] = sbuf[s]]
    /\ txown' = txown \cup {txsend}
    /\ txsend' = Succ(txsend, TxRing)
    /\ sbuf' = [sbuf EXCEPT ![s] = NoBuf]
    /\ spc' = [spc EXCEPT ![s] = "idle"]
    /\ UNCHANGED <<flagVars, thresh, lockVars, free, txreclaim, rxVars,
                   regVars, posVars, intrVars, ctlVars>>

-----------------------------------------------------------------------------
(***************************************************************************)
(* afe_stopmac and afe_startmac, called with both locks held.              *)
(***************************************************************************)

\* Both engines off, interrupts masked, everything acknowledged, link down.
StopMac ==
    /\ nar' = {} /\ ier' = "none" /\ sr2' = {}
    /\ linkup' = 0

\* The software reset of afe_resetmac: the command registers are cleared.
ResetChip == nar' = {} /\ ier' = "none" /\ sr2' = {}

\* Mutant: the buffers of frames still queued are not freed.
ReturnRxBufsOnly ==
    /\ free' = free \cup ({rxbufs[i] : i \in RxSlots} \ {NoBuf})
    /\ txbufs' = [i \in TxSlots |-> NoBuf]
    /\ rxbufs' = [i \in RxSlots |-> NoBuf]

\* "free any pending buffers".
ReturnBufs ==
    /\ free' = free \cup ({txbufs[i] : i \in TxSlots} \ {NoBuf})
                    \cup ({rxbufs[i] : i \in RxSlots} \ {NoBuf})
    /\ txbufs' = [i \in TxSlots |-> NoBuf]
    /\ rxbufs' = [i \in RxSlots |-> NoBuf]

\* Mutant: afe_rxcurrent is not reset.
ResetPointersNotRx ==
    /\ txsend' = 0 /\ txreclaim' = 0 /\ txavail' = TxRing
    /\ chiptx' = 0 /\ chiprx' = 0 /\ UNCHANGED rxcurrent

\* Mutant: afe_txsend is not reset.
ResetPointersNotSend ==
    /\ txreclaim' = 0 /\ txavail' = TxRing
    /\ rxcurrent' = 0 /\ chiptx' = 0 /\ chiprx' = 0 /\ UNCHANGED txsend

\* Both sides restart at slot 0: the ring pointers are reset and the chip is
\* pointed at the descriptor rings.
ResetPointers ==
    /\ txsend' = 0 /\ txreclaim' = 0 /\ txavail' = TxRing
    /\ rxcurrent' = 0 /\ chiptx' = 0 /\ chiprx' = 0

\* The first part of afe_startmac, up to the transmit descriptors.  The
\* receive descriptors still hold what they held.
EmptyRings ==
    /\ ReturnBufs /\ ResetPointers
    /\ txown' = {}
    /\ fill' = 0
    /\ UNCHANGED <<rxaddr, rxown>>

\* Is a thread in the loop of afe_startmac that fills the receive ring?
InStartMac == ipc = "fill" \/ cpc \in {"fillstart", "fillresume"}

\* afe_getbuf for one receive slot; senders take buffers meanwhile.
FillRxSlot ==
    /\ InStartMac /\ fill < RxRing
    /\ \E b \in free :
         /\ free' = free \ {b}
         /\ rxbufs' = [rxbufs EXCEPT ![fill] = b]
         /\ rxaddr' = [rxaddr EXCEPT ![fill] = b]
    /\ rxown' = rxown \cup {fill}
    /\ fill' = fill + 1
    /\ UNCHANGED <<flagVars, thresh, lockVars, txVars, rxcurrent, regVars,
                   posVars, intrVars, sendVars, cpc>>

\* Both locks are dropped; gldm_start reports success in either case.
LeaveStartMac ==
    /\ lockI' = "none" /\ lockX' = "none" /\ fill' = 0
    /\ ipc' = IF ipc = "fill" THEN "idle" ELSE ipc
    /\ cpc' = "idle"
    /\ gld' = IF cpc = "fillstart" THEN "started" ELSE gld
    /\ UNCHANGED <<linkup, thresh, free, txVars, rxVars, sr2, posVars, istat,
                   linkchk, sendVars>>

\* "this should never happen!": afe_intr ignores it, afe_start leaves
\* AFE_RUNNING clear, afe_resume suspends the interface again.
StartMacFails ==
    /\ InStartMac /\ fill < RxRing /\ free = {}
    /\ flags' = IF cpc = "fillresume" THEN flags \cup {"suspended"} ELSE flags
    /\ UNCHANGED <<nar, ier>>
    /\ LeaveStartMac

\* Threshold programmed, interrupts enabled, both engines started.
StartMacDone ==
    /\ InStartMac /\ fill = RxRing
    /\ flags' = IF cpc = "fillstart" THEN flags \cup {"running"} ELSE flags
    /\ nar' = {"tx", "rx"} /\ ier' = "wanted"
    /\ LeaveStartMac

-----------------------------------------------------------------------------
(***************************************************************************)
(* afe_intr.  The line may be shared, so the handler can be called at any  *)
(* time; a call that finds the interface suspended or no status bit set    *)
(* returns DDI_INTR_UNCLAIMED and changes nothing, which is a stutter.     *)
(***************************************************************************)

\* Where the handler goes when the work for the bits st and the link flag
\* lc that precedes "from" is done, in the order of the code.
AfterReclaim(st, lc) ==
    IF lc # 0 THEN "link" ELSE IF st \cap ResetBits # {} THEN "lockI" ELSE "idle"
AfterReceive(st, lc) ==
    IF st \cap TxBits # {} THEN "reclaim" ELSE AfterReclaim(st, lc)

\* The thread moves to place p; what it no longer needs is forgotten.
Continue(p, lc) ==
    /\ ipc' = p
    /\ istat' = IF p \in {"idle", "lockI"} THEN {} ELSE istat
    /\ linkchk' = IF p \in {"idle", "lockI"} THEN 0 ELSE lc

IntrRead ==
    /\ ipc = "idle" /\ lockI = "none"
    /\ "suspended" \notin flags /\ sr2 # {}
    /\ lockI' = "intr" /\ istat' = sr2 /\ ipc' = "ack"
    /\ UNCHANGED <<flagVars, thresh, lockX, free, txVars, rxVars, regVars,
                   posVars, linkchk, sendVars, ctlVars>>

\* Mutant: every bit is acknowledged, read or not.
AcknowledgeAll == sr2' = {}

\* The write to SR2 clears the bits that were read.
Acknowledge == sr2' = sr2 \ istat

\* Not running: "don't touch anything".
IntrAck ==
    /\ ipc = "ack"
    /\ Acknowledge
    /\ IF "running" \in flags
       THEN Continue("rx", IF "link" \in istat THEN 1 ELSE 0) /\ UNCHANGED lockI
       ELSE Continue("idle", 0) /\ lockI' = "none"
    /\ UNCHANGED <<flagVars, thresh, lockX, free, txVars, rxVars, nar, ier,
                   posVars, sendVars, ctlVars>>

\* One turn of the receive loop: the frame is copied, the descriptor goes
\* back to the chip.
IntrRxFrame ==
    /\ ipc = "rx" /\ istat \cap RxBits # {} /\ rxcurrent \notin rxown
    /\ rxown' = rxown \cup {rxcurrent}
    /\ rxcurrent' = Succ(rxcurrent, RxRing)
    /\ UNCHANGED <<flagVars, thresh, lockVars, free, txVars, rxbufs, rxaddr,
                   regVars, posVars, intrVars, sendVars, ctlVars>>

\* Mutant: no test of AFE_MAX_TXTHRESH.
AdjustedPastMax(t) == t + 1

\* The transmit threshold after an underflow.
Adjusted(t) == IF t < NumThresh THEN t + 1 ELSE t

\* The rest of the region under afe_intrlock.
IntrRxDone ==
    /\ ipc = "rx" /\ (istat \cap RxBits # {} => rxcurrent \in rxown)
    /\ LET lc == IF istat \cap RxBits # {} /\ linkup = 0 THEN 1 ELSE linkchk
       IN  Continue(AfterReceive(istat, lc), lc)
    /\ nar' = IF "rxnobuf" \in istat THEN nar \cup {"rx"} ELSE nar
    /\ thresh' = IF "txunf" \in istat THEN Adjusted(thresh) ELSE thresh
    /\ lockI' = "none"
    /\ UNCHANGED <<flagVars, lockX, free, txVars, rxVars, ier, sr2, posVars,
                   sendVars, ctlVars>>

\* Mutant: AFE_TXSTAT_OWN is not tested.
QueuedIn(i) == txbufs[i] # NoBuf

\* Mutant: the ring is taken to be empty where afe_txreclaim has met
\* afe_txsend, which a full ring looks like too.
CompletedUnlessMet(i) ==
    txbufs[i] # NoBuf /\ i \notin txown /\ txreclaim # txsend

\* A frame was queued in slot i and the chip is done with it.
Completed(i) == txbufs[i] # NoBuf /\ i \notin txown

\* One turn of the loop of afe_reclaim, under afe_xmtlock.  The status may
\* say the carrier was lost, and then afe_checklink may change linkup.
IntrReclaim ==
    /\ ipc = "reclaim" /\ lockX \in {"none", "intr"}
    /\ "running" \in flags
    /\ Completed(txreclaim)
    /\ lockX' = "intr"
    /\ free' = free \cup {txbufs[txreclaim]}
    /\ txbufs' = [txbufs EXCEPT ![txreclaim] = NoBuf]
    /\ txavail' = txavail + 1
    /\ txreclaim' = Succ(txreclaim, TxRing)
    /\ linkup' \in 0 .. 1
    /\ UNCHANGED <<flags, gld, thresh, lockI, txown, txsend,
                   rxVars, regVars, posVars, intrVars, sendVars, ctlVars>>

\* afe_reclaim returns: not running, ring empty, or the chip owns the next.
IntrReclaimDone ==
    /\ ipc = "reclaim" /\ lockX \in {"none", "intr"}
    /\ "running" \notin flags \/ ~ Completed(txreclaim)
    /\ lockX' = "none" /\ ipc' = "sched"
    /\ UNCHANGED <<flagVars, thresh, lockI, free, txVars, rxVars, regVars,
                   posVars, istat, linkchk, sendVars, ctlVars>>

\* Mutant: gld_sched is not called.
WakeNone == UNCHANGED spc

\* gld_sched: the streams with a message on their queue run again.
Wake == spc' = [s \in Senders |-> IF spc[s] = "wait" THEN "ready" ELSE spc[s]]

IntrSched ==
    /\ ipc = "sched"
    /\ Wake
    /\ Continue(AfterReclaim(istat, linkchk), linkchk)
    /\ UNCHANGED <<flagVars, thresh, lockVars, free, txVars, rxVars, regVars,
                   posVars, sbuf, ctlVars>>

\* afe_checklink under afe_xmtlock, as far as the MAC sees it.
IntrLink ==
    /\ ipc = "link" /\ lockX = "none"
    /\ linkup' \in (IF "running" \in flags THEN 0 .. 1 ELSE {linkup})
    /\ Continue(AfterReclaim(istat, 0), 0)
    /\ UNCHANGED <<flags, gld, thresh, lockVars, free, txVars,
                   rxVars, regVars, posVars, sendVars, ctlVars>>

IntrLockI ==
    /\ ipc = "lockI" /\ lockI = "none"
    /\ lockI' = "intr" /\ ipc' = "lockX"
    /\ UNCHANGED <<flagVars, thresh, lockX, free, txVars, rxVars, regVars,
                   posVars, istat, linkchk, sendVars, ctlVars>>

\* Mutant: no test of AFE_RUNNING.
ResetAlways == TRUE

\* "we only reset the chip if we think it should be running".
ResetWanted == "running" \in flags

\* afe_stopmac, afe_resetmac (its result is ignored) and afe_startmac up to the first
\* afe_getbuf.
IntrReset ==
    /\ ipc = "lockX" /\ lockX = "none" /\ ResetWanted
    /\ lockX' = "intr" /\ ipc' = "fill"
    /\ StopMac
    /\ EmptyRings
    /\ UNCHANGED <<flags, gld, thresh, lockI, istat, linkchk,
                   sendVars, cpc>>

IntrNoReset ==
    /\ ipc = "lockX" /\ lockX = "none" /\ ~ ResetWanted
    /\ lockI' = "none" /\ ipc' = "idle"
    /\ UNCHANGED <<flagVars, thresh, lockX, free, txVars, rxVars, regVars,
                   posVars, istat, linkchk, sendVars, ctlVars>>
-----------------------------------------------------------------------------
(***************************************************************************)
(* afe_start, afe_stop, afe_reset, DDI_SUSPEND in afe_detach, afe_resume.  *)
(* All take afe_intrlock and then afe_xmtlock for their whole length, so   *)
(* one thread stands for their callers.  External: GLD starts a stopped    *)
(* MAC, stops a started one and resets a stopped one, and user threads are *)
(* frozen before the device is suspended.                                  *)
(***************************************************************************)
CtlEnter(op) ==
    /\ cpc = "idle" /\ lockI = "none"
    /\ \/ op \in {"start", "reset"} /\ gld = "stopped" /\ "suspended" \notin flags
       \/ op = "stop" /\ gld = "started" /\ "suspended" \notin flags
       \/ op = "suspend" /\ "suspended" \notin flags
       \/ op = "resume" /\ "suspended" \in flags
    /\ lockI' = "ctl" /\ cpc' = op
    /\ UNCHANGED <<flagVars, thresh, lockX, free, txVars, rxVars, regVars,
                   posVars, intrVars, sendVars, fill>>

\* Both locks are held, the work is done and both are released.
CtlLeave == cpc' = "idle" /\ lockI' = "none" /\ UNCHANGED lockX

CtlStart ==
    /\ cpc = "start" /\ lockX = "none"
    /\ lockX' = "ctl" /\ cpc' = "fillstart"
    /\ nar' = {}
    /\ EmptyRings
    /\ UNCHANGED <<flagVars, thresh, lockI, ier, sr2, intrVars, sendVars>>

CtlStop ==
    /\ cpc = "stop" /\ lockX = "none"
    /\ StopMac
    /\ flags' = flags \ {"running"} /\ gld' = "stopped"
    /\ CtlLeave
    /\ UNCHANGED <<thresh, free, txVars, rxVars, posVars, intrVars,
                   sendVars, fill>>

CtlReset ==
    /\ cpc = "reset" /\ lockX = "none"
    /\ ResetChip
    /\ CtlLeave
    /\ UNCHANGED <<flagVars, thresh, free, txVars, rxVars, posVars, intrVars,
                   sendVars, fill>>

CtlSuspend ==
    /\ cpc = "suspend" /\ lockX = "none"
    /\ flags' = flags \cup {"suspended"}
    /\ StopMac
    /\ CtlLeave
    /\ UNCHANGED <<gld, thresh, free, txVars, rxVars, posVars,
                   intrVars, sendVars, fill>>

\* The reset times out: the interface is suspended again.
CtlResumeFails ==
    /\ cpc = "resume" /\ lockX = "none"
    /\ flags' = flags \cup {"suspended"}
    /\ CtlLeave
    /\ UNCHANGED <<linkup, gld, thresh, free, txVars, rxVars, regVars, posVars,
                   intrVars, sendVars, fill>>

CtlResume ==
    /\ cpc = "resume" /\ lockX = "none"
    /\ flags' = flags \ {"suspended"}
    /\ ResetChip
    /\ IF "running" \in flags
       THEN EmptyRings /\ cpc' = "fillresume" /\ lockX' = "ctl" /\ UNCHANGED lockI
       ELSE CtlLeave /\ UNCHANGED <<free, txVars, rxVars, posVars, fill>>
    /\ UNCHANGED <<linkup, gld, thresh, intrVars, sendVars>>
-----------------------------------------------------------------------------
(***************************************************************************)
(* The chip (external): what the driver relies on it to do.                *)
(***************************************************************************)

\* A frame leaves, or is aborted by an underflow or a jabber timeout: the
\* descriptor is the driver's again and bit is raised.
ChipTx(bit) ==
    /\ "tx" \in nar /\ chiptx \in txown
    /\ txown' = txown \ {chiptx}
    /\ chiptx' = Succ(chiptx, TxRing)
    /\ sr2' = sr2 \cup {bit}
    /\ UNCHANGED <<flagVars, thresh, lockVars, free, txbufs, txsend, txreclaim,
                   txavail, rxVars, nar, ier, chiprx, intrVars,
                   sendVars, ctlVars>>

\* A frame arrives and its descriptor is the driver's.
ChipRx ==
    /\ "rxok" \in ChipBits /\ "rx" \in nar /\ chiprx \in rxown
    /\ rxown' = rxown \ {chiprx}
    /\ chiprx' = Succ(chiprx, RxRing)
    /\ sr2' = sr2 \cup {"rxok"}
    /\ UNCHANGED <<flagVars, thresh, lockVars, free, txVars, rxbufs, rxaddr,
                   rxcurrent, nar, ier, chiptx, intrVars, sendVars,
                   ctlVars>>

\* A bit with no descriptor behind it: no receive descriptor left, a bus
\* error or receive jabber, a link change.
ChipRaise(bit) ==
    /\ bit = "rxnobuf" => "rx" \in nar /\ chiprx \notin rxown
    /\ bit = "berr" => nar # {}
    /\ sr2' = sr2 \cup {bit}
    /\ UNCHANGED <<flagVars, thresh, lockVars, free, txVars, rxVars, nar, ier,
                   posVars, intrVars, sendVars, ctlVars>>
-----------------------------------------------------------------------------
SendNext == \E s \in Senders : \/ SendGetBuf(s) \/ SendRefused(s)
                               \/ SendFreeBuf(s) \/ SendQueued(s)

StartMacNext == FillRxSlot \/ StartMacFails \/ StartMacDone

IntrWork ==
    \/ IntrAck \/ IntrRxFrame \/ IntrRxDone
    \/ IntrReclaim \/ IntrReclaimDone \/ IntrSched \/ IntrLink
    \/ IntrLockI \/ IntrReset \/ IntrNoReset

IntrNext == IntrRead \/ IntrWork

CtlWork == \/ CtlStart \/ CtlStop \/ CtlReset \/ CtlSuspend
           \/ CtlResumeFails \/ CtlResume

CtlNext ==
    \/ \E op \in {"start", "stop", "suspend", "resume", "reset"} : CtlEnter(op)
    \/ CtlWork

ChipNext ==
    \/ \E bit \in TxBits \cap ChipBits : ChipTx(bit)
    \/ ChipRx
    \/ \E bit \in {"rxnobuf", "berr", "link"} \cap ChipBits : ChipRaise(bit)

Next == SendNext \/ StartMacNext \/ IntrNext \/ CtlNext \/ ChipNext

Spec == Init /\ [][Next]_vars

\* Fairness.  An unmasked interrupt is delivered, its thread runs, an entry
\* point that has begun goes on, a sender that is inside gldm_send or was
\* rescheduled goes on, and the chip sends what it owns.  Nothing makes
\* anyone call an entry point, send a frame, or receive one.
Fairness ==
    /\ WF_vars(ier = "wanted" /\ IntrRead) /\ WF_vars(IntrWork)
    /\ WF_vars(StartMacNext) /\ WF_vars(CtlWork)
    /\ \A s \in Senders : /\ WF_vars(SendRefused(s) \/ SendQueued(s))
                          /\ WF_vars(SendFreeBuf(s))
                          /\ WF_vars(spc[s] = "ready" /\ SendGetBuf(s))
    /\ WF_vars(ChipTx("txok"))

FairSpec == Spec /\ Fairness

-----------------------------------------------------------------------------
(***************************************************************************)
(* Properties.                                                             *)
(***************************************************************************)

\* How many steps of Succ lead from slot a to slot i of a ring of n.
Dist(a, i, n) == IF a <= i THEN i - a ELSE n - a + i

NoneLost ==
    \A b \in Bufs : \/ b \in free
                    \/ \E i \in TxSlots : txbufs[i] = b
                    \/ \E i \in RxSlots : rxbufs[i] = b
                    \/ \E s \in Senders : sbuf[s] = b

NoneShared ==
    /\ \A i \in TxSlots : /\ txbufs[i] \notin free
                          /\ \A j \in TxSlots : txbufs[i] = txbufs[j] =>
                                                i = j \/ txbufs[i] = NoBuf
                          /\ \A j \in RxSlots : txbufs[i] = rxbufs[j] =>
                                                txbufs[i] = NoBuf
                          /\ \A s \in Senders : txbufs[i] = sbuf[s] =>
                                                txbufs[i] = NoBuf
    /\ \A i \in RxSlots : /\ rxbufs[i] \notin free
                          /\ \A j \in RxSlots : rxbufs[i] = rxbufs[j] =>
                                                i = j \/ rxbufs[i] = NoBuf
                          /\ \A s \in Senders : rxbufs[i] = sbuf[s] =>
                                                rxbufs[i] = NoBuf
    /\ \A s \in Senders : /\ sbuf[s] \notin free
                          /\ \A r \in Senders : sbuf[s] = sbuf[r] =>
                                                s = r \/ sbuf[s] = NoBuf

\* No buffer is lost and none is in two places: afe_getbuf, afe_freebuf and
\* the three tables they feed share out afe_buftab between them, whatever
\* the interleaving of senders, interrupts and resets.
BufferOwnership == NoneLost /\ NoneShared

\* The slots of the transmit ring in use are the TxRing - txavail slots from
\* txreclaim up to txsend; the first c of them the chip is done with, the
\* others it owns, and it stands at the first of those.
TxWindowAt(c) ==
    LET used == TxRing - txavail
    IN  /\ \A i \in TxSlots :
              /\ txbufs[i] # NoBuf <=> Dist(txreclaim, i, TxRing) < used
              /\ i \in txown <=> /\ Dist(txreclaim, i, TxRing) >= c
                                 /\ Dist(txreclaim, i, TxRing) < used
        /\ Dist(txreclaim, txsend, TxRing) \in {used, used - TxRing}
        /\ Dist(txreclaim, chiptx, TxRing) \in {c, c - TxRing}

\* afe_send, the chip and afe_reclaim agree on the transmit ring: no
\* descriptor is used twice or skipped, whatever restarts it in between.
TxRingOK == \E c \in 0 .. TxRing - txavail : TxWindowAt(c)

\* While the receiver is on, every descriptor names the buffer the driver
\* holds for it, so the chip never writes into a buffer of the pool or of a
\* frame being sent; and the descriptors with a frame are the c from
\* rxcurrent up to the chip's position, so frames are read as they arrived.
RxWindowAt(c) ==
    /\ \A i \in RxSlots : i \in rxown <=> Dist(rxcurrent, i, RxRing) >= c
    /\ Dist(rxcurrent, chiprx, RxRing) \in {c, c - RxRing}

RxRingOK ==
    "rx" \in nar =>
        /\ \A i \in RxSlots : rxbufs[i] # NoBuf /\ rxaddr[i] = rxbufs[i]
        /\ \E c \in 0 .. RxRing : RxWindowAt(c)

\* A MAC that is not running is silent, whatever an interrupt in progress
\* when gldm_stop ran still does: the race the test of AFE_RUNNING before
\* the reset is there to close.
StoppedQuiet ==
    "running" \notin flags => nar = {} /\ ier = "none" /\ linkup = 0

\* "don't touch a suspended interface": between DDI_SUSPEND and DDI_RESUME
\* the engines are off and interrupts are masked.
SuspendedQuiet == "suspended" \in flags => nar = {} /\ ier = "none"

\* A transmit completion is never forgotten: while the MAC runs, a buffer
\* the chip is done with has its bit pending or the handler still has its
\* reclaim to do.
NoLostCompletion ==
    "tx" \in nar /\ (\E i \in TxSlots : Completed(i)) =>
        \/ sr2 \cap TxBits # {}
        \/ ipc \in {"ack", "rx", "reclaim"} /\ istat \cap TxBits # {}

\* afe_startmac finds a buffer for every receive slot: "this should never
\* happen!" never does.
StartMacSucceeds == ~ (InStartMac /\ fill < RxRing /\ free = {})

\* A buffer the chip is done with is reclaimed, unless the transmitter stops
\* first: the handler does not overlook a completion.
CompletionsReclaimed ==
    \A i \in TxSlots :
        "tx" \in nar /\ txbufs[i] # NoBuf /\ i \notin txown
            ~> txbufs[i] = NoBuf \/ "tx" \notin nar

\* A message afe_send refused, for want of a buffer or of a descriptor, is
\* tried again when frames that are in the transmit ring have left it,
\* unless the transmitter stops first.
WaitersRescheduled ==
    \A s \in Senders :
        spc[s] = "wait" /\ txavail < TxRing
            ~> spc[s] # "wait" \/ "tx" \notin nar

-----------------------------------------------------------------------------
(***************************************************************************)
(* The transmit ring implements TxFifo: the frames sent and not yet given  *)
(* back are those of the done slots from txreclaim on, and the frames to   *)
(* be sent those of the slots after them.                                  *)
(***************************************************************************)
TxFrom(first, n) ==
    [j \in 1 .. n |-> txbufs[(txreclaim + first + j - 1) % TxRing]]
DoneSlots == {i \in TxSlots : txbufs[i] # NoBuf} \ txown

Fifo == INSTANCE TxFifo WITH
    Frames <- Bufs, Depth <- TxRing,
    queued <- TxFrom(Cardinality(DoneSlots), Cardinality(txown)),
    done   <- TxFrom(0, Cardinality(DoneSlots))

\* Frames leave in order, once each, and none is dropped but by a restart.
TransmitsInOrder == Fifo!FifoSpec
=============================================================================
