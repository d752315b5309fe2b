----------------------------- MODULE AfeFilter ------------------------------
(***************************************************************************)
(* The receive filter of the afe driver: promiscuous mode, the station     *)
(* address and the multicast hash table, which gldm_set_promiscuous,       *)
(* gldm_set_mac_addr and gldm_set_multicast keep in the device structure   *)
(* and afe_setrxfilt programs into the chip under afe_xmtlock, while the   *)
(* interrupt handler, under afe_intrlock, restarts the receiver.           *)
(*                                                                         *)
(* SETBIT and CLRBIT are a read of the register and a write of it, with    *)
(* nothing to stop another thread in between; every access to CSR NAR is   *)
(* a step of its own here.                                                 *)
(***************************************************************************)
EXTENDS Integers, Sequences

CONSTANTS
    Addrs,     \* station addresses
    Factory,   \* the address the chip has after a reset
    NoAddr,    \* afe_curraddr before GLD has set it
    Hashes,    \* the buckets of the multicast hash
    Broadcast, \* the bucket of the broadcast address
    MaxCount,  \* bound: how many addresses GLD enables in one bucket
    Garbage,   \* bound: the values an uninitialised int may have
    Events     \* bound: "rxnobuf" and "reset", what interrupts are for

ASSUME FilterAssumption ==
    /\ Factory \in Addrs /\ NoAddr \notin Addrs
    /\ Broadcast \in Hashes /\ MaxCount \in Nat \ {0} /\ Garbage \subseteq Int

VARIABLES
    flags,              \* afe_flags
    promisc, curraddr,  \* afe_promisc, afe_curraddr
    mccount, mctab,     \* afe_mccount; the bits set in afe_mctab
    nar,                \* CSR NAR: "rx" AFE_RX_ENABLE, "prom" and "multi"
    par, mar,           \* CSRs PAR0/1 and MAR0/1
    addrset,            \* external: GLD set the address since it reset the chip
    todo,               \* what afe_setrxfilt has still to do, under xmtlock
    temp,               \* the value of NAR it has read, if it has
    itemp,              \* the value of NAR the handler has read
    reset,              \* the handler's reset: it has dropped its lock to
                        \* take both
    touched,            \* history: the handler has undone a change of NAR or
                        \* reset the chip since the filter was last programmed
    unseen              \* history: buckets entered in afe_mctab since then,
                        \* with afe_mcadd saying that nothing has changed

softVars == <<promisc, curraddr, mccount, mctab>>
chipVars == <<nar, par, mar>>
intrVars == <<itemp, reset>>
pastVars == <<touched, unseen>>
filterVars == <<flags, softVars, chipVars, addrset, todo, temp, intrVars, pastVars>>

NarBits == {"rx", "prom", "multi"}
NoRead  == {"unread"}

\* An access to a register: NAR with some bits cleared and some set, or a
\* filter register written.
Nar(clr, set) == [reg |-> "NAR", clr |-> clr, set |-> set]
Put(r) == [reg |-> r, clr |-> {}, set |-> {}]
Accesses == [reg : {"NAR", "PAR", "MAR"}, clr : SUBSET NarBits, set : SUBSET NarBits]

\* Types: the counters of afe_mccount stay within what GLD has enabled, whatever
\* calls of the entry points and accesses to the chip fall together.
FilterTypeOK ==
    /\ flags \in SUBSET {"running", "suspended"}
    /\ promisc \in {"none", "multi", "phys"}
    /\ curraddr \in Addrs \cup {NoAddr}
    /\ mccount \in [Hashes -> 0 .. MaxCount] /\ mctab \in SUBSET Hashes
    /\ nar \in SUBSET NarBits
    /\ par \in Addrs \cup {NoAddr} /\ mar \in SUBSET Hashes
    /\ todo \in Seq(Accesses)
    /\ temp \in (SUBSET NarBits) \cup {NoRead}
    /\ itemp \in (SUBSET NarBits) \cup {NoRead}
    /\ addrset \in BOOLEAN /\ reset \in BOOLEAN
    /\ touched \in BOOLEAN /\ unseen \in SUBSET Hashes

\* After afe_attach: the broadcast address has been added to the table, and
\* then the chip reset.
FilterInit ==
    /\ flags = {}
    /\ promisc = "none" /\ curraddr = NoAddr
    /\ mccount = [h \in Hashes |-> IF h = Broadcast THEN 1 ELSE 0]
    /\ mctab = {Broadcast}
    /\ nar = {} /\ par = Factory /\ mar = {}
    /\ addrset = FALSE /\ todo = <<>> /\ temp = NoRead
    /\ itemp = NoRead /\ reset = FALSE
    /\ touched = FALSE /\ unseen = {}

\* afe_xmtlock and afe_intrlock are free.
XmtFree  == todo = <<>>
IntrFree == itemp = NoRead

-----------------------------------------------------------------------------
(***************************************************************************)
(* afe_setrxfilt.                                                          *)
(***************************************************************************)

\* The accesses for promiscuous mode p.
PromiscAccesses(p) ==
    IF p = "phys" THEN <<Nar({"multi"}, {}), Nar({}, {"prom"})>>
    ELSE IF p = "multi" THEN <<Nar({"prom"}, {}), Nar({}, {"multi"})>>
    ELSE <<Nar({"prom", "multi"}, {})>>

\* Mutant: the receiver is started also where it was not running.
AccessesAlwaysStart(rxen, p) ==
    (IF rxen THEN <<Nar({"rx"}, {})>> ELSE <<>>)
    \o PromiscAccesses(p) \o <<Put("PAR"), Put("MAR"), Nar({}, {"rx"})>>

\* The accesses in order; rxen: the receiver was on.
FilterAccesses(rxen, p) ==
    IF rxen
    THEN <<Nar({"rx"}, {})>> \o PromiscAccesses(p)
         \o <<Put("PAR"), Nar({}, {"rx"}), Put("MAR"), Nar({}, {"rx"})>>
    ELSE PromiscAccesses(p) \o <<Put("PAR"), Put("MAR")>>

\* "don't touch a suspended interface".  p is the mode just saved.
SetRxFilt(p) ==
    IF "suspended" \in flags THEN UNCHANGED <<todo, pastVars>>
    ELSE /\ todo' = FilterAccesses("rx" \in nar, p)
         /\ touched' = FALSE /\ unseen' = {}

\* GETCSR of a SETBIT or CLRBIT, and the PUTCSR that follows.
FiltRead ==
    /\ todo # <<>> /\ Head(todo).reg = "NAR" /\ temp = NoRead
    /\ temp' = nar
    /\ UNCHANGED <<flags, softVars, chipVars, addrset, todo, intrVars, pastVars>>

FiltWrite ==
    /\ temp # NoRead
    /\ nar' = (temp \ Head(todo).clr) \cup Head(todo).set
    /\ temp' = NoRead /\ todo' = Tail(todo)
    /\ UNCHANGED <<flags, softVars, par, mar, addrset, intrVars, pastVars>>

FiltPut ==
    /\ todo # <<>> /\ Head(todo).reg \in {"PAR", "MAR"}
    /\ par' = IF Head(todo).reg = "PAR" THEN curraddr ELSE par
    /\ mar' = IF Head(todo).reg = "MAR" THEN mctab ELSE mar
    /\ todo' = Tail(todo)
    /\ UNCHANGED <<flags, softVars, nar, addrset, temp, intrVars, pastVars>>

-----------------------------------------------------------------------------
(***************************************************************************)
(* The GLD entry points, each under afe_xmtlock until todo is done.        *)
(***************************************************************************)
SetPromiscuous(p) ==
    /\ XmtFree
    /\ promisc' = p /\ SetRxFilt(p)
    /\ UNCHANGED <<flags, curraddr, mccount, mctab, chipVars, addrset, temp, intrVars>>

SetMacAddr(a) ==
    /\ XmtFree
    /\ curraddr' = a /\ SetRxFilt(promisc)
    /\ addrset' = TRUE
    /\ UNCHANGED <<flags, promisc, mccount, mctab, chipVars, temp, intrVars>>

\* The filter is programmed if afe_mcadd or afe_mcdelete says it changed.
IfChanged(changed) ==
    IF changed # 0 THEN SetRxFilt(promisc)
    ELSE UNCHANGED <<todo, touched>> /\ unseen' = unseen \cup (mctab' \ mctab)

\* "changed" of afe_mcadd starts as whatever the stack holds: a new bucket may
\* read as unchanged, an old one as changed.
McAdd(h) ==
    /\ XmtFree /\ mccount[h] < MaxCount
    /\ mctab' = IF mccount[h] = 0 THEN mctab \cup {h} ELSE mctab
    /\ mccount' = [mccount EXCEPT ![h] = @ + 1]
    /\ \E g \in Garbage : IfChanged(IF mccount[h] = 0 THEN g + 1 ELSE g)
    /\ UNCHANGED <<flags, promisc, curraddr, chipVars, addrset, temp, intrVars>>

\* Mutant: the count is also decremented where the bit is cleared.
McDeleteTwice(h) ==
    /\ XmtFree /\ mccount[h] > 0
    /\ mctab' = IF mccount[h] = 1 THEN mctab \ {h} ELSE mctab
    /\ mccount' = [mccount EXCEPT ![h] = IF @ = 1 THEN -1 ELSE @ - 1]
    /\ IfChanged(IF mccount[h] = 1 THEN 1 ELSE 0)
    /\ UNCHANGED <<flags, promisc, curraddr, chipVars, addrset, temp, intrVars>>

\* Mutant: the bit is cleared though another address still has it.
McDeleteShared(h) ==
    /\ XmtFree /\ mccount[h] > 0
    /\ mctab' = mctab \ {h}
    /\ mccount' = [mccount EXCEPT ![h] = @ - 1]
    /\ IfChanged(1)
    /\ UNCHANGED <<flags, promisc, curraddr, chipVars, addrset, temp, intrVars>>

\* External: GLD disables an address it has enabled.
McDelete(h) ==
    /\ XmtFree /\ mccount[h] > 0
    /\ mctab' = IF mccount[h] = 1 THEN mctab \ {h} ELSE mctab
    /\ mccount' = [mccount EXCEPT ![h] = @ - 1]
    /\ IfChanged(IF mccount[h] = 1 THEN 1 ELSE 0)
    /\ UNCHANGED <<flags, promisc, curraddr, chipVars, addrset, temp, intrVars>>

-----------------------------------------------------------------------------
(***************************************************************************)
(* What happens to the filter elsewhere.  afe_start, afe_stop, DDI_SUSPEND *)
(* and afe_resume hold both locks, so nobody sees them halfway; that       *)
(* afe_startmac succeeds is StartMacAlwaysSucceeds of AfeMac_proofs.       *)
(***************************************************************************)
BothLocks == XmtFree /\ IntrFree

\* A reset of the chip, and the engine bits set afterwards.  External: it may
\* clear the filter, as afe_resume expects it to, or leave it alone.
ChipReset(on) ==
    \/ nar' = on /\ par' = Factory /\ mar' = {}
    \/ nar' = (nar \ {"rx"}) \cup on /\ UNCHANGED <<par, mar>>

\* gldm_reset.  External: GLD resets a stopped MAC, and then sets the address
\* before it starts it.
Reset ==
    /\ BothLocks /\ flags = {}
    /\ ChipReset({}) /\ addrset' = FALSE
    /\ UNCHANGED <<flags, softVars, todo, temp, intrVars, pastVars>>

Start ==
    /\ BothLocks /\ flags = {} /\ addrset
    /\ nar' = nar \cup {"rx"} /\ flags' = {"running"}
    /\ UNCHANGED <<softVars, par, mar, addrset, todo, temp, intrVars, pastVars>>

Stop ==
    /\ BothLocks /\ flags = {"running"}
    /\ nar' = nar \ {"rx"} /\ flags' = {}
    /\ UNCHANGED <<softVars, par, mar, addrset, todo, temp, intrVars, pastVars>>

Suspend ==
    /\ BothLocks /\ "suspended" \notin flags
    /\ nar' = nar \ {"rx"} /\ flags' = flags \cup {"suspended"}
    /\ UNCHANGED <<softVars, par, mar, addrset, todo, temp, intrVars, pastVars>>

\* External: while suspended the chip may lose power.
PowerOff ==
    /\ "suspended" \in flags
    /\ nar' = {} /\ par' = Factory /\ mar' = {}
    /\ UNCHANGED <<flags, softVars, addrset, todo, temp, intrVars, pastVars>>

\* The filter bits of NAR that stand for promiscuous mode p.
ModeBits(p) == IF p = "phys" THEN {"prom"} ELSE IF p = "multi" THEN {"multi"} ELSE {}

\* Mutant: the station address is not restored.
ReplayNotAddr == par' = Factory /\ mar' = mctab

\* afe_setrxfilt in afe_resume, with the receiver off.
Replay == par' = curraddr /\ mar' = mctab

Resume ==
    /\ BothLocks /\ "suspended" \in flags
    /\ flags' = flags \ {"suspended"}
    /\ Replay
    /\ nar' = ModeBits(promisc) \cup (IF "running" \in flags THEN {"rx"} ELSE {})
    /\ touched' = FALSE /\ unseen' = {}
    /\ UNCHANGED <<softVars, addrset, todo, temp, intrVars>>

\* afe_intr, AFE_INT_RXNOBUF: SETBIT(AFE_RX_ENABLE), under afe_intrlock only.
\* The interrupt is that of a receiver that was on.
IntrRead ==
    /\ "rxnobuf" \in Events
    /\ IntrFree /\ ~ reset /\ flags = {"running"}
    /\ itemp' = nar
    /\ UNCHANGED <<flags, softVars, chipVars, addrset, todo, temp, reset, pastVars>>

IntrWrite ==
    /\ itemp # NoRead
    /\ nar' = itemp \cup {"rx"} /\ itemp' = NoRead
    /\ touched' = (touched \/ nar # itemp)
    /\ UNCHANGED <<flags, softVars, par, mar, addrset, todo, temp, reset, unseen>>

\* afe_intr finds an error and drops afe_intrlock ...
IntrError ==
    /\ "reset" \in Events
    /\ IntrFree /\ ~ reset /\ flags = {"running"}
    /\ reset' = TRUE
    /\ UNCHANGED <<flags, softVars, chipVars, addrset, todo, temp, itemp, pastVars>>

\* ... and then takes both locks: afe_stopmac, afe_resetmac, afe_startmac.
IntrReset ==
    /\ reset /\ BothLocks
    /\ IF "running" \in flags THEN ChipReset({"rx"}) ELSE UNCHANGED chipVars
    /\ reset' = FALSE /\ touched' = (touched \/ "running" \in flags)
    /\ UNCHANGED <<flags, softVars, addrset, todo, temp, itemp, unseen>>

-----------------------------------------------------------------------------
GldNext ==
    \/ \E p \in {"none", "multi", "phys"} : SetPromiscuous(p)
    \/ \E a \in Addrs : SetMacAddr(a)
    \/ \E h \in Hashes : McAdd(h) \/ McDelete(h)
    \/ FiltRead \/ FiltWrite \/ FiltPut

FilterNext ==
    \/ GldNext
    \/ Reset \/ Start \/ Stop \/ Suspend \/ PowerOff \/ Resume
    \/ IntrRead \/ IntrWrite \/ IntrError \/ IntrReset

FilterSpec == FilterInit /\ [][FilterNext]_filterVars
-----------------------------------------------------------------------------
\* The hash table and the counts of addresses per bucket agree: deleting an
\* address does not take away the bit of another one of the same bucket.
McTable == mctab = {h \in Hashes : mccount[h] > 0}

\* Between the entry points a running MAC receives exactly what GLD asked for
\* last, also after suspend, power loss and resume: the address, the mode and
\* the multicast table in the chip are those of the device structure.  The
\* table in the chip lacks the buckets, and only those, that afe_mcadd took
\* for unchanged, until the filter is next programmed.  Beside that there are
\* two exceptions: the interrupt handler wrote back a value of NAR that
\* afe_setrxfilt had changed, or reset the chip, since it was programmed.
FilterInForce ==
    XmtFree /\ flags = {"running"} /\ ~ touched =>
        /\ nar \cap {"prom", "multi"} = ModeBits(promisc)
        /\ par = curraddr /\ mar = mctab \ unseen

\* Reprogramming the filter and restarting the receiver never leave it on in
\* a MAC that is stopped, nor off in one that is running, though they change
\* the same register under different locks.  (What the reset does to a
\* suspended MAC is SuspendedQuiet of AfeMac.)
RxFollowsRunning ==
    XmtFree /\ "suspended" \notin flags =>
        ("rx" \in nar <=> "running" \in flags)
=============================================================================
