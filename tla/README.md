# A TLA+ development of the sol-enet drivers

`sol-enet` holds two Ethernet drivers for Solaris, `afe` (ADMtek Centaur and
Comet) and `mxfe` (Macronix and Lite-On), both written against GLD, the generic
LAN driver. GLD calls a driver through a table of entry points, on any number of
threads; the interrupt handler runs concurrently with them; the chip runs
concurrently with both, over descriptor rings in shared memory; and the
transceiver and the partner at the other end of the cable change the link when
they like. What the drivers must get right lies between these.

This directory models that: TLA+ modules that follow the source region by
region, TLC runs over small instances, and TLAPS proofs for every size of ring,
pool and number of threads. Paths below are relative to `src/`.

## 1. The system

| Component | Code | State | Operations | Module |
|---|---|---|---|---|
| MAC core of afe | `drv/afe/afe.c` 895-1018, 1907-2073, 2289-2693 | rings (`afe_txbufs`, `afe_rxbufs`, descriptors), positions, `afe_flags`, `afe_txthresh`, CSRs NAR, IER2, SR2 | `afe_send`, `afe_intr`, `afe_reclaim`, `afe_start`, `afe_stop`, `afe_reset`, suspend, `afe_resume` | `AfeMac` |
| Receive filter of afe | 736-896 | `afe_promisc`, `afe_curraddr`, `afe_mccount`, `afe_mctab`, CSRs NAR, PAR, MAR | `afe_set_promiscuous`, `afe_set_mac_addr`, `afe_set_multicast`, `afe_setrxfilt` | `AfeFilter` |
| Transmit side of mxfe | `drv/mxfe/mxfe.c` 731-950, 1859-2153, 2468-2939 | ring, setup frame, `mxfe_flags`, CSRs NAR, IER, SR, TDB | `mxfe_send`, `mxfe_intr`, `mxfe_reclaim`, `mxfe_txreorder`, `mxfe_setrxfilt`, start to resume | `MxfeTx` |
| Link of both | afe 1167-1657, mxfe 1091-1688 | `adv_*`, `linkup`, `ifspeed`, `duplex`, `mxfe_linkstate`, PHY registers | `phyinit`, `checklink*`, `mxfe_startnway`, `reportlink`, `afe_ndsetadv` | `EtherLink`, `EtherPhy` |
| Attach and detach of both | afe 335-713, mxfe 331-706 | the resources taken | `attach`, `detach`, `allocrings`, `freerings`, `allocsetup`, `freesetup` | `EtherAttach` |
| DMA buffers of both | afe 2078-2284, mxfe 2158-2463 | `afe_buftab`, `afe_topbuf` | `getbuf`, `freebuf` | `AfeBufTab` |
| MII and EEPROM of both | afe 1037-1162, 1692-1846; mxfe 956-1089, 1723-1843 | bits of CSR SPR | `miiread`, `miiwrite`, `sromwidth`, `readsromword`, `getfactaddr` | `SerialBits` |
| Parameters (NDD) of both | afe 715-734, 2880-3329; mxfe 709-729, 3128-3509 | list of parameters | `ioctl`, `ndget`, `ndset` | `afe_ndsetadv` only, in `EtherLink` |
| Receive copy, statistics | afe 2695-2799, mxfe 2941-3123 | counters | `read`, `get_stats` | none |
| etherdiag | `cmd/etherdiag/etherdiag.c` | - | a command a person runs to exercise a driver | none |

How they interact. Three mutexes per driver: `intrlock`, taken before `xmtlock`,
and `buflock`, a leaf. The entry points that stop or start the chip hold the
first two. `send` and the filter calls hold only `xmtlock`; the receive half of
the handler holds only `intrlock`, its reclaim and its link check only
`xmtlock`, and between these regions it holds nothing. Buffers move between the
pool, a sender, the rings and the chip under different locks. CSRs NAR and IER
are changed by read-modify-write under either lock, or under none. In mxfe the
multicast filter goes to the chip as a frame, through the transmitter, which
has to be stopped, pointed at another descriptor and pointed back.

What is hard: entry points between two regions of one interrupt; status bits
raised between their read and their acknowledgement; rings restarted or
reordered while frames are in flight; a pool shared by senders and restarts; a
register read and written back under two locks; state replayed after power is
lost; link checks overtaken by a stop; waiters that nobody wakes; what a failed
attach leaves behind. `PROJECT.json` lists each of these at its line with the
properties that are about it.

## 2. The modules

| Module | Models |
|---|---|
| `AfeMac` | the MAC core of afe |
| `TxFifo` | what the transmit ring of afe promises (abstract) |
| `AfeFilter` | the receive filter of afe, one register access at a time |
| `MxfeTx` | the transmit side of mxfe |
| `TxRewind` | what a ring promises that may be rewound for a setup frame (abstract) |
| `EtherPhy` | a transceiver, its partner and the cable (external) |
| `EtherLink` | the link of either driver, composed with `EtherPhy` |
| `AfeBufTab` | the table of DMA buffers |
| `BufPool` | what the table promises (abstract) |
| `EtherAttach` | attach and detach of either driver, composed with `AfeBufTab` |
| `SerialBits` | the serial protocols of either driver |
| `MC*` | the instances TLC checks |
| `*_proofs` | the theorems of `AfeMac`, `AfeFilter`, `MxfeTx`, `EtherLink`, `AfeBufTab`, `EtherAttach`, `SerialBits` |
| `SeqFuns` | lemmas about sequences, for the two refinements of rings |

In every module what the driver does under a mutex is one step, except where
another actor can see it halfway. Operators after a comment "Mutant" are wrong
variants of the definition below them; nothing uses them, they document what
each property tells apart (`PROJECT.json`, `mutants`).

### AfeMac

The loop of `afe_startmac` that takes buffers from the pool (guarded by
`afe_buflock` alone, so senders interleave with it), the receive and reclaim
loops (the chip advances meanwhile) and `afe_send` (which takes its buffer before
the lock and gives it back after it) are several steps. `lockI` and `lockX` are
variables because some threads hold a lock across several steps.

| Action | Code |
|---|---|
| `SendGetBuf`, `SendQueued`, `SendRefused`, `SendFreeBuf` | `afe_send`: the buffer, the region under `afe_xmtlock`, the refusal, the return of the buffer |
| `IntrRead`, `IntrAck` | read of SR2; acknowledgement and the test of AFE_RUNNING |
| `IntrRxFrame`, `IntrRxDone` | the receive loop; the rest of the region under `afe_intrlock` |
| `IntrReclaim`, `IntrReclaimDone`, `IntrSched` | `afe_reclaim` slot by slot; `gld_sched` |
| `IntrLink` | `afe_checklink` |
| `IntrLockI`, `IntrReset`, `IntrNoReset` | the reset at the end of the handler |
| `CtlEnter`, `CtlStart`, `CtlStop`, `CtlReset`, `CtlSuspend`, `CtlResume`, `CtlResumeFails` | the entry points |
| `FillRxSlot`, `StartMacFails`, `StartMacDone` | the loop and the ends of `afe_startmac`, for whichever thread is in it |
| `ChipTx`, `ChipRx`, `ChipRaise` | external: the chip |

Environment, from how the code and its comments use it: GLD starts a stopped
MAC, stops a started one, resets a stopped one, and calls `gldm_send` only after
`gldm_start`; a refused message is marked as waiting no later than the refusal
and retried at `gld_sched`; the system freezes user threads before DDI_SUSPEND,
so start, stop and reset do not come in between; interrupts of one device are
not nested; an engine whose enable bit is cleared stops at once. The handler can
be called at any time, since the line may be shared.

### AfeFilter

`afe_setrxfilt` runs under `afe_xmtlock` but SETBIT and CLRBIT are a read and a
write, and `afe_intr` changes the same register under `afe_intrlock`. So each
access is a step: `SetRxFilt` computes the list of accesses of one call and
`FiltRead`, `FiltWrite` and `FiltPut` perform it. The hash is a set of buckets
with reference counts. `Garbage` is what the uninitialised `changed` of
`afe_mcadd` may hold, any integer: with -1 a changed table reads as unchanged,
and `unseen` remembers the buckets that are missing from the chip for that
reason, until the table is next written (section 6). External: GLD sets the address
between a reset and a start; a chip reset may or may not clear the filter; a
suspended device may lose power. `Resume` holds both locks, and the chip was
just reset, so its accesses are one step. `touched` remembers that the handler
wrote back a stale NAR, or reset the chip, since the filter was programmed:
`FilterInForce` does not hold then (section 6).

### MxfeTx

A region under `mxfe_xmtlock` is one step, but `mxfe_setrxfilt`, which gives the
setup frame to the chip and polls for up to 100 ms, is three (`SetRxFilt`,
`FiltSend`, `FiltEnd`; `fpc` is its place, `fnar` and `fier` what it saved). The
accesses without that lock are two steps each, a read and a write: IER in
`mxfe_send` when there is no buffer (`SendReadIer`, `SendSetIer`), NAR in the
handler when the receiver is restarted (`IntrWork`, `IntrRestart`).
The handler's other places are `IntrRead`, `IntrAck`, `IntrReclaim`, `IntrSched`
and `IntrReset`; the uninitialised `wantw` is a choice (`AfterUnlock`). One past
the last descriptor is a slot of its own, slot `TxRing`, which `mxfe_txreorder`
can reach. `Coincidences` is `{}` in all runs but `MxfeTxFull`: with `"full"` the
filter may change while every descriptor holds a frame. `undone` remembers that
the handler's restart of the receiver wrote NAR back in the middle of a filter
change, which starts or stops the engines behind its back; the window, the
stall, and the order are not claimed from then to the next `mxfe_startmac`
(section 6). The hash buckets are those beside the broadcast address's, whose
bit `mxfe_attach` sets for good. The receive ring and the link are not in this
module.

### EtherPhy, EtherLink

A card has a model (Comet, Centaur, Centaur with an external transceiver,
98713A, 98715), modes it is able to do, an MII address and the "fiber" property;
a partner negotiates or does not, and has modes and a medium. `EtherPhy` moves
between no link and the mode both can meet in (IEEE 802.3 clause 28 and annex
28B), raising the status bits the model has. `EtherLink` has `phyinit` of each
driver and kind of card (`AfePhyInit`, `MxfePhyInitMii`, `MxfePhyInitNway` with
`StartNway`), each link check, `ReportLink`, the handler in two steps
(`IntrEnter` up to the release of `intrlock`, `LinkCheck` under `xmtlock`), the
link check of `reclaim`, and start, stop, reset, suspend, power loss, resume and
`ndd`. The reset of a transceiver completes and drops the link.

### AfeBufTab, EtherAttach

The table entry by entry: `allocrings` fills it one buffer at a time;
`freerings` empties it; `getbuf` pops and `freebuf` pushes. `AfeMac` and `MxfeTx`
use a set of buffers in its place: `TabImplementsPool` is the reason they may.
`EtherAttach` takes the resources of either driver in the order of the code.
Each may fail. `Failures` are the ways the failing function itself ends: what it
leaves taken, what it releases without having taken it, and whether the fields
of the setup frame stay set, by which `mxfe_freesetup` goes when it is called
again. `Undo` is what the path back then releases, held or not. `Unload` starts
detach. `cause` and `wrong` are history: what the releases under way are for, and
what they released that was not held. Handlers may be inside the driver while the
interrupt is installed, GLD calls while the device is registered; `Release` waits
for them where the kernel does (`ddi_remove_intr`, `gld_unregister`).

`AfeBufTab` only says that a buffer is outside the table (`out`). `EtherAttach`
says where: in the hand of a thread (`hands`) or in a ring (`Rings`). `afe_send`,
`afe_read` and the handler move them between hands, rings and the table
(`UseBufs`) and leave with none in hand. So that no buffer is outside when
`afe_freerings` frees the table, which `AfeBufTab` asks for in `Detach`, follows
from the loops of detach over the rings, from the order of the releases, and from
nobody being inside; it is not a condition on the step. The table and its DMA
memory are those of `AfeBufTab`; the `mxfe_buf_t` that a failing `mxfe_allocrings`
forgets, which has no DMA memory and is in no table, is the resource `"buf"`.

### SerialBits

An exchange is the sequence of bits the driver clocks out; what the EEPROM or
the PHY answers is a function of that sequence, modelled from the protocol
(external). The drivers' functions compute these sequences and assemble the
answers, on a host of either byte order. The code of mxfe is the same but for
where the address is and one more swap.

## 3. The runs

| Run | Result | What it shows |
|---|---|---|
| `AfeMacRings` | holds | two slots in each ring, one sender, receive, no-buffer, underflow and every entry point: the rings stay consistent with the chip's positions, a stopped MAC is silent, no completion is forgotten, and `afe_startmac` finds its buffers; frames leave in order (`TransmitsInOrder` is the refinement of `TxFifo`) |
| `AfeMacLive` | holds | three senders and fewer buffers than `afe_startmac` may need: buffers are never lost or shared, and under fairness completions are reclaimed and refused messages tried again, unless the transmitter stops |
| `AfeFilter` | holds | the filter in a running chip is the one GLD set last (without the buckets whose addition read as no change), through start, stop, reset, suspend, power loss and resume, and the receiver is on exactly when the MAC runs, though two locks guard one register |
| `MxfeTxSafe` | holds | setup frames and reorderings interleave with sends, interrupts and entry points without losing a buffer, a frame, the order (`SendsInOrder` is the refinement of `TxRewind`), the chip's place or the filter |
| `MxfeTxLive` | holds | under fairness a refused message is tried again, unless its request for the interrupt was masked under it or the transmitter stops |
| `SerialBits` | holds | the factory address read is the one stored, for three sizes of EEPROM and both byte orders; a PHY access reaches the register it names |
| `EtherLink` | holds | seven cards, six partners: the transceiver has the selected modes (a 98715 offers 10 Mbps full duplex, selected or not), the driver knows whether the link is up, says the speed and duplex it has, and announced it truly |
| `EtherAttach` | holds | nothing is released that something still uses, whatever fails; what is left behind, and what is released without having been taken, is what section 6 lists for each path and no more; no buffer is in a ring or a hand when the table goes (`TabSpec`); the buffers are a stack that implements a pool (`IsPool`) |
| `AfeMacSuspend` | violated | the reset in the handler of afe restarts a suspended chip |
| `MxfeTxFull` | violated | a filter change with a full ring puts the next frame outside the ring |
| `MxfeTxResume` | violated | `mxfe_resume` does not restore the filter |
| `EtherLinkPhy` | violated | `mxfe_phyinitmii` programs the PHY at address 0 whichever it found |

Each run that is violated is one disagreement between the code and its own
comment, quoted in `PROJECT.json` under `findings`.

Bounds, and why they are enough. Two slots make a ring that wraps, can be empty,
half full and full, and has a next descriptor that is the same or another one;
one slot is enough where only emptiness matters, as for a waiter (`MxfeTxLive`).
Two senders are the fewest that race; where one is enough to meet the handler
and the chip, the states go into the rings instead. `AfeMacRings` has a buffer
for each slot, one more than `StartMacAlwaysSucceeds` asks for, so that its sender
meets an empty pool when both rings are full; `AfeMacLive` has fewer than that
theorem asks for, so that its three senders empty the pool and `afe_startmac`
fails, and one transmit slot, so that a sender can hold a buffer and find no
descriptor. `NumThresh` is 1: the index passes
the end of the table after as many underflows as it has entries, and stops
there, one past the values 0-4 the header gives it; `TypeOK` allows that value
and says so (section 6). `ChipBits` names the status bits the chip may
raise in a run: bits handled
alike share one, and each occurs in some run. `AfeMacLive` has only the
completion bit: that buffers survive the handler's own reset when there are too
few of them is shown by the theorem `BuffersAreOwned`, not by a run. Two addresses
in a bucket
(`MaxCount` 2) are the fewest that share it. The cards of `EtherLink` are one of
each kind and, where the code looks at what a card is able to do, one that lacks
modes; the partners are none, one for every common mode, one that meets a card
in its slower modes only, one without negotiation, one whose best mode the code
ranks otherwise, and one on the fiber. Two of the six `ndd` parameters are
toggled. Four entries and five buffers make a table that is empty, partly
reserved and full, with a buffer that is not in it. Buffers and senders are
symmetric in the large runs of invariants; the runs of liveness use no symmetry.

Fairness. A thread that can take its next step does (a kernel thread that holds
or can get its mutex is scheduled); an unmasked pending interrupt is delivered;
the chip sends what it owns; the wait of `mxfe_setrxfilt` ends, by its own
timeout; a sender `gld_sched` woke tries again. Nothing forces GLD to call an
entry point, a frame to arrive, or a cable to be plugged in. Strong fairness is
not assumed. `AfeMacLive` has no reception: the receive loop runs as long as the
chip delivers frames, and the code promises nothing under an endless flood.

What the properties leave out on purpose, each because the code does not keep it
(section 6): a suspended MAC in `RxFollowsRunning`; `touched` and `unseen` in
`FilterInForce`;
`undone` in the properties of `MxfeTx`; masked requests and resets in
`WaitersRescheduled`; a link check that a suspend overtook, and forced links of a
Comet, in `LinkTracked`; 100BaseT4 on offer and an unselected 10BaseT full duplex
in `LinkTruth`; the probe of the fiber port, and what `mxfe_startnway` offers
unasked (`Unasked`), in `Programmed`; what each path of attach and detach forgets
(`Abandoned`) in `NothingLeft`, and what it releases without having taken it
(`Untaken`) in `OnlyTaken`. These are stated as the value they have rather than
as "anything may happen", so that a further slip on the same path is caught.

## 4. The proofs

Every theorem holds for all values of the constants that satisfy the named
assumptions of the modules, and what a theorem assumes beside them is in its
statement. The properties are seldom inductive; each invariant is built in
layers, each proved from the ones before, with one lemma per operation.

`AfeMac_proofs` (rings of at least one slot, a finite pool, a NULL that is no
buffer):

1. `TypeInvariant`: types of the fields, and which places of `afe_send` hold a buffer.
2. `CtlInvariant`: who owns which lock at which place, so at most one thread is
   in `afe_startmac`; and what `afe_flags` and GLD's view are there.
3. `QuietInvariant`: engines and interrupts off during `afe_startmac` and while
   not running. The subtle part is the "no receive buffer" bit, which makes the
   handler turn the receiver on: it must be that of a receiver still on.
4. `TxInvariant`: the ring is a window: done slots, then owned slots, then free
   ones, between `afe_txreclaim` and `afe_txsend`, empty in `afe_startmac`.
5. `OwnInvariant`: every buffer is in exactly one place. It needs that the slots
   not yet filled by `afe_startmac` hold none, or filling would lose one.
6. `RxInvariant`: the receive window while the engine is on, and the slots
   `afe_startmac` has armed so far.
7. `NoCompletionIsLost`: a completed slot has its bit in SR2, or in the status
   the handler has read and not yet acted on.
8. `StartMacAlwaysSucceeds`, under the assumption that there is a buffer for each
   receive slot and each sender: a counting argument over `OwnInvariant`.
9. `RingImplementsFifo`: the window of step 4, read from
   `afe_txreclaim` on, is two sequences, the frames sent and those to send. That
   their lengths are those of the sets of done and owned slots is a bijection
   between slots and distances; then each step appends to one sequence, moves
   its head, drops it, empties both, or leaves what the mapping reads alone.

`AfeBufTab_proofs`: `TabInvariant`, from which `StackCorrect` (no push past the
end, no pop of an empty entry), `NothingLeaks` and the refinement
`TabImplementsPool`. `EtherAttach_proofs` shows that attach, its failures and
detach are steps of `AfeBufTab` (`AttachImplementsTab`), so these hold for either
driver from attach to detach (`AttachKeepsTab`). The step that has to be earned is
the one that frees the table: `HandsInv` says that who is outside has nothing in
hand and that what is in a hand is out of the table, `TableGoesWhole` that the
rings are empty as well when the release of the table comes up.

`AfeFilter_proofs`: `LockInv` says what is on the way in each place of
`afe_setrxfilt` and of the handler; `RxInv` follows the receiver bit through the
value read and the accesses to come; `ForceInv` follows each mode bit, the
address and the table in the same way, so that what is in the chip plus what is
still to be written is what GLD asked for. `FilterIsInForce` has no
assumption about the uninitialised `changed`: `ForceInv` counts the buckets in
`unseen` among those that are not to be in the chip.

`MxfeTx_proofs`: `FilterInv` and `EngineInv` say what the setup descriptor, the
saved NAR and the loaded filter are at each step of a filter change. `Window`
says that the frames are on the arc from `mxfe_txreclaim` on, which needs lemmas
about arcs modulo the size of the ring: reclaim cuts an arc at its start, send
extends it, a reorder turns it. `BuffersAreOwned` needs that a reorder moves the
buffers one to one. `Standing` and `AtRing` say where the chip is on the arc.
All but the filter's theorems assume that the filter does not change while the
ring is full, which `MxfeTxFull` shows to be necessary. `RingImplementsRewind`
reads the arc as the sequence of `TxRewind`: how many of its frames the chip is
done with is where the chip stands, so a reclaim never gives back more, and a
reorder, which moves the frames and not their order, is a `Rewind`.

`EtherLink_proofs`: types for every card, partner and selection; `ToldInv`, the
memory of the last report, for `AnnouncementsTrue`; and `StoppedIsDown`. Then:

1. `AnsweringProgrammed`. The modes on offer are those selected, and for a 98715
   also 10 Mbps full duplex, which the code adds (section 6). `RegInv`
   says that in the states in which the driver
   relies on them (`InForce`; an `ndd` leaves a suspended afe for resume to
   program) the registers are what `phyinit` writes for the modes selected: the
   control register, the modes on offer and the port, with a case for each kind
   of card. `PowInv` says that a card without power is suspended and that no
   handler is about to look at its link; `WantInv` relates what is advertised to
   what was asked for, with one fallback mode at most. The theorem is about
   cards whose PHY answers at the address the driver programs (`Answers`):
   `EtherLinkPhy` is the counterexample for the others.
2. `LinkIsTracked`. `LossInv` and `UpInv` say which evidence there still is of
   each change of the link that the driver has not seen: a bit of the status, or
   a check that the handler has yet to make.
3. `LinkIsTrue`. `ModeInv` says that the transceiver is in the mode in which both
   ends can meet; with `RegInv` and the order in which each driver prefers the
   modes, whatever each model looks at to find the mode finds that one.

They need `NwayAssumption`: a 98715 is able to do all modes but 100BaseT4,
because `mxfe_phyinitnway` assigns these and no others.

`EtherAttach_proofs` goes on with what is released. `TakeInv`: while attach takes,
it holds what the steps done so far gave it. `ReleaseInv`: on the way back, what is
held is on the list of the releases still to do, what is on the list is held
(but for the slips of section 6), and the list is in the order that the uses ask
for. `BusyInv`: a thread is inside only while what lets it in is held.
From these follow `NothingIsLeft`, `OnlyTakenReleased` and `ReleasedInOrder`, for
either driver and a failure at any resource.

`SerialBits_proofs` is about computations, so it needs induction over data. The
library states induction with an operator as a parameter, which no installed
prover can instantiate; `NatInd` states it for a set instead, and follows from
the fact that `<` is well founded on the natural numbers. From it follow
`NumberDef` (what the recursive function in `Number` computes), `NumberRange` and
`NumberOfBits` (shifting in the bits of a number gives the number). The rest
says where each field is in what the driver clocks out: `WidthFound`, that the
sizing loop stops at the width of the EEPROM; `WordReadIs` and `ReadSromIs`, that
the words and then the six bytes are those stored; `FieldsRead`, that a PHY reads
the operation and the two addresses out of a frame. `SerialInv` then gives
`SerialTypeCorrect`, `FactAddressIsRead` and `RegistersReached`. The second has the
hypothesis `PointsInside`: the pointer of the mxfe driver, and the three words it
points at, are addresses the EEPROM has. Without it the driver reads zeros
(`drv/afe/afe.c:1100-1103`). `SerialAssumption` limits the widths to the 4 to 12 that
`afe_sromwidth` accepts; 2^n is used for n up to 17 only, from a table (`Powers`),
because the provers compute a power and do not reason about it.

Each strengthening was given to TLC as an invariant of the run before it was
proved.

Model-checked only: the liveness properties `CompletionsReclaimed` and
`WaitersRescheduled`, which are out of the provers' reach.

## 5. What comes next

The receive ring of mxfe beside its transmit ring; the parser of NDD names and
values over chains of message blocks, against a reference definition.

## 6. Divergences met on the way

Beside the four findings, read in the code while modelling it; the properties
name their exceptions for those that touch them.

afe:
- `afe_intr` resets the chip (`drv/afe/afe.c:2474-2478`) without `afe_setrxfilt`,
  which `afe_resume` calls "restore rx filter"; and without `gld_sched`, though
  the reset frees the ring senders wait for. `afe_resume` does not call it either.
- The handler's SETBIT of NAR (2396) can write promiscuous bits back that
  `afe_setrxfilt` has just changed.
- `changed` of `afe_mcadd` is not initialised (799): where the
  stack holds -1 a changed table is not programmed.
- The threshold index may become the number of entries of its table (2418, 109),
  and the entry past the end then goes into NAR (2037). `inc/sys/afeimpl.h:104` calls it
  "increasing values 0-4". The same in mxfe (2601, 2117; `inc/sys/mxfeimpl.h:105`).
- `afe_getbuf` is called with priority 1 everywhere (2010, 2527), so the reserve of
  `AFE_RSVDBUFS` is never kept and "this should never happen!" (2011) can.
- `afe_setrxfilt` turns the receiver on (779) before it writes the table.
- The PHY reset is retried up to 10 times and the timeout tests for 100 (1222).
- The on-card timer is programmed to look at the link (1424), but no timer
  interrupt is handled: a forced link of a Comet comes up unnoticed until a
  frame arrives.
- With "fiber" set to find out, the modes the fiber lacks are cut from the
  selection for good. A fallback mode stays selected. Without negotiation and
  with only 100BaseT4 selected 10 Mbps half duplex is forced.
- `afe_checklinkmii` prefers 100BaseT4 to full duplex, the negotiation does not.
- A link check under way during a suspend leaves `afe_linkup` set.
- `afe_ndset` and `afe_ndget` can answer twice (2992) or not at all.
- A failed attach removes an interrupt handler it has not added.
- If the descriptors' memory takes more than one cookie, `afe_allocrings` unbinds
  the handle in `afe_t`, which it has not yet set (2134), and frees the handle and
  the memory it did bind; `mxfe_allocrings` the same (2214).

mxfe, which shares several of these:
- The setup frame: `mxfe_setrxfilt` sets the promiscuous bits and then writes back
  NAR as it was before (1882-1896, 1945 and on). A restart of the receiver by the
  handler (2579) in between brings the engines back on, or leaves the transmitter
  off, and may lose the chip's place in the ring. A reset in the handler loses the
  filter.
- `mxfe_reclaim` masks TXNOBUF although senders without a buffer may just have
  asked for it (2864); `mxfe_send` unmasks it without the lock (2715).
- `mxfe_resume` drops its two locks in the wrong order when it fails (926-927).
- `mxfe_startnway` offers 10 Mbps full duplex whatever is selected (1153), where
  the manual says the link partners "negotiate among the supported (and
  configured, see below) link options" (`man/mxfe.7d.in:64-71`); with no common
  mode the link is reported up with the duplex of the last one (1249);
  `mxfe_checklinknway` tests `bmsr |= ~...`; `mxfe_forcephy` is never set.
- `mxfe_stop` can be overtaken by a link check, which leaves `mxfe_linkup` set.
- `mxfe_ndinit` registers the values of the parameters for their addresses
  (3474-3485), and the partner's 10 Mbps full duplex from the half-duplex bit (3505).
- `mxfe_allocsetup` calls `mxfe_freesetup` when it fails (2362, 2374, 2398), and
  `mxfe_attach` calls it again (623); it clears none of the fields it goes by
  (2411-2430), so the handles and the memory are released twice.
- `mxfe_allocrings` returns without freeing the `mxfe_buf_t` for which it got no
  DMA memory (2246-2251), unlike `afe_allocrings` (2166-2169).
- `mxfe_freerings` never frees the descriptors' memory (2288-2334), and reads a
  table that may not have been allocated; `mxfe_attach` tears the configuration
  handle down twice when the registers cannot be mapped (544, 553).

## 7. Not modelled

The copying of frames and its statistics: a data path with no state that comes
back. The replies of NDD: one call on its own message. `mxfe_miiread98713`, which
saves and restores NAR around the same serial exchange, and the PHY registers
that a Comet has in its own memory. Busy waits for a register either succeed or
time out, without the clock. PCI configuration, cache alignment, the mappings of
a single DMA buffer and the magic values of each chip. `etherdiag`, the manual
pages, the packaging and the build have no state of interest here.
