---------------------------- MODULE EtherAttach -----------------------------
(***************************************************************************)
(* attach and detach of afe and mxfe: the resources a device takes one     *)
(* after the other, the way back from a failure at any of them, and the    *)
(* threads that enter the driver while the interrupt handler is installed  *)
(* and while the device is registered with GLD.  The DMA buffers are those *)
(* of AfeBufTab: who has them in hand, and which are in the rings, is here.*)
(***************************************************************************)
EXTENDS AfeBufTab, Sequences

VARIABLES
  driver,  \* "afe" or "mxfe"
  step,    \* the resource of Order that attach takes next
  held,    \* the resources that are taken
  todo,    \* those that are still to be released, by attach or by detach
  busy,    \* the ways by which threads are inside the driver
  hands,   \* the buffers those threads have in hand, by the way they came
  cause,   \* history: what the last release was for
  wrong    \* history: what it released though it was not held

attachVars ==
  <<driver, step, held, todo, busy, hands, cause, wrong, tabVars>>

(* pci: the configuration handle; softc: afe_t; desc: the DMA memory of    *)
(* the descriptors; setup: that of the setup frame.                        *)
Order ==
  <<"pci", "macinfo", "softc", "locks", "ndd", "kstat", "config", "regs",
    "desc", "bufs">>
  \o (IF driver = "mxfe" THEN <<"setup">> ELSE <<>>) \o <<"intr", "gld">>

(* Beside these, what only a failure leaves: the DMA binding of the        *)
(* descriptors, and an mxfe_buf_t that is in no table.                     *)
Resources == {"pci", "macinfo", "softc", "locks", "ndd", "kstat", "regs",
              "desc", "bufs", "setup", "intr", "gld", "binding", "buf"}

Ways == {"intr", "gld"}
Hands == hands["intr"] \cup hands["gld"]
Rings == out \ Hands  \* afe_txbufs and afe_rxbufs

Next1 == Order[step]
Attaching == todo = <<>> /\ step <= Len(Order)
Attached == todo = <<>> /\ step > Len(Order)

-----------------------------------------------------------------------------
(* kmem_zalloc, mutex_init and the ndd table cannot fail, and a driver     *)
(* does without a kstat.                                                   *)
MayFail == {"pci", "macinfo", "locks", "regs", "desc", "bufs", "setup",
            "intr", "gld"}

IfHeld(r) == IF r \in held THEN <<r>> ELSE <<>>

(* The label failed of afe_attach: it removes the handler without asking   *)
(* whether it was added.                                                   *)
AfeFailed ==
  <<"intr">> \o IfHeld("kstat") \o <<"ndd", "locks">>
  \o (IF "desc" \in held THEN <<"bufs", "desc">> ELSE <<>>)
  \o IfHeld("regs") \o <<"softc", "macinfo">>

(* mxfe_attach tears the configuration handle down twice if the registers  *)
(* cannot be mapped, and calls mxfe_freerings whatever mxfe_allocrings did; *)
(* that frees the buffers only. mxfe_freesetup goes by the fields it finds *)
(* set, and clears none.                                                   *)
MxfeFailed(setupFields) ==
  (IF Next1 = "regs" THEN <<"pci">> ELSE <<>>)
  \o <<"intr">> \o IfHeld("kstat") \o <<"ndd", "locks">>
  \o (IF setupFields THEN <<"setup">> ELSE <<>>) \o <<"bufs">>
  \o IfHeld("regs") \o <<"softc", "macinfo">>

Undo(setupFields) ==
  CASE Next1 = "pci" -> <<>>
    [] Next1 = "macinfo" -> <<"pci">>
    [] Next1 = "locks" -> <<"pci", "softc", "macinfo">>  \* no cookie
    [] OTHER ->
         IF driver = "afe" THEN AfeFailed ELSE MxfeFailed(setupFields)

(* How taking a resource fails: what that leaves taken, what it released   *)
(* that it had not taken, and whether fields of the setup frame are set.   *)
Failed(left, wrongly, fields) ==
  [left |-> left, wrong |-> wrongly, fields |-> fields]

Clean == Failed({}, {}, "setup" \in held)

(* "desc": with more than one cookie allocrings unbinds the handle in afe_t*)
(* (mxfe_t), which is still NULL, and frees handle and memory while bound. *)
(* "bufs": mxfe_allocrings forgets the mxfe_buf_t without DMA memory.      *)
(* "setup": nothing is taken yet; or what is taken is left to failed; or it*)
(* is released at once, and its fields stay set.                           *)
Failures ==
  CASE Next1 = "desc" -> {Clean, Failed({"binding"}, {"binding"}, FALSE)}
    [] Next1 = "bufs" /\ driver = "mxfe" -> {Clean, Failed({"buf"}, {}, FALSE)}
    [] Next1 = "setup" ->
         {Clean, Failed({"setup"}, {}, TRUE), Failed({}, {}, TRUE)}
    [] OTHER -> {Clean}

\* Mutant: the rings go before the handler.
AfeDetachRingsFirst ==
  <<"gld", "bufs", "desc", "intr">> \o IfHeld("kstat")
  \o <<"ndd", "regs", "locks", "softc", "macinfo">>

\* Mutant: the descriptors are forgotten.
AfeDetachNoDesc ==
  <<"gld", "intr", "bufs">> \o IfHeld("kstat")
  \o <<"ndd", "regs", "locks", "softc", "macinfo">>

\* Mutant: the registers are unmapped twice.
AfeDetachTwice ==
  <<"gld", "intr", "bufs", "desc">> \o IfHeld("kstat")
  \o <<"ndd", "regs", "regs", "locks", "softc", "macinfo">>

AfeDetach ==
  <<"gld", "intr", "bufs", "desc">> \o IfHeld("kstat")
  \o <<"ndd", "regs", "locks", "softc", "macinfo">>

MxfeDetach ==
  <<"gld", "intr">> \o IfHeld("kstat")
  \o <<"bufs", "setup", "ndd", "regs", "locks", "softc", "macinfo">>

-----------------------------------------------------------------------------
AttachInit ==
  /\ TabInit
  /\ driver \in {"afe", "mxfe"}
  /\ step = 1
  /\ held = {} /\ todo = <<>> /\ busy = {} /\ wrong = {} /\ cause = "none"
  /\ hands = [w \in Ways |-> {}]

(* What an attach starts with: nothing, whatever the last one has left.    *)
Had == IF step = 1 THEN {} ELSE held

\* Mutant: the configuration handle is not dropped when it is done with.
TakeKeepsConfig ==
  /\ Attaching
  /\ step' = step + 1
  /\ held' = Had \cup {Next1}
  /\ CASE Next1 = "desc" -> Allocate
       [] Next1 = "bufs" -> AllocDone
       [] OTHER -> UNCHANGED tabVars
  /\ cause' = "none" /\ wrong' = {}
  /\ UNCHANGED <<driver, todo, busy, hands>>

(* One resource after the other; the rings are those of AfeBufTab. *)
Take ==
  /\ Attaching
  /\ step' = step + 1
  /\ CASE Next1 = "config" -> held' = held \ {"pci"}
       [] Next1 = "kstat" -> held' \in {held, held \cup {"kstat"}}
       [] OTHER -> held' = Had \cup {Next1}
  /\ CASE Next1 = "desc" -> Allocate
       [] Next1 = "bufs" -> AllocDone
       [] OTHER -> UNCHANGED tabVars
  /\ cause' = "none" /\ wrong' = {}
  /\ UNCHANGED <<driver, todo, busy, hands>>

TakeBuf ==
  /\ Attaching
  /\ Next1 = "bufs"
  /\ \E i \in Slots : AllocBuf(i)
  /\ UNCHANGED <<driver, step, held, todo, busy, hands, cause, wrong>>

Fail ==
  /\ Attaching
  /\ Next1 \in MayFail
  /\ \E f \in Failures :
       /\ held' = Had \cup f.left
       /\ wrong' = f.wrong
       /\ todo' = Undo(f.fields)
  /\ step' = 1
  /\ cause' = Next1
  /\ UNCHANGED <<driver, busy, hands, tabVars>>

(* gld_unregister refuses while a stream is open. *)
Unload ==
  /\ Attached
  /\ "gld" \notin busy
  /\ todo' = IF driver = "afe" THEN AfeDetach ELSE MxfeDetach
  /\ step' = 1
  /\ cause' = "detach"
  /\ UNCHANGED <<driver, held, busy, hands, wrong, tabVars>>

(* ddi_remove_intr waits for the handler, and the loops of detach have gone *)
(* over both rings before the table goes; failed: has no such loops.       *)
Release ==
  /\ todo # <<>>
  /\ LET r == Head(todo)
     IN  /\ r \notin busy
         /\ held' = held \ {r}
         /\ todo' = Tail(todo)
         /\ wrong' = wrong \cup
              (IF r \in held \/ (r = "bufs" /\ phase = "allocating")
               THEN {} ELSE {r})
         /\ r = "bufs" /\ cause = "detach" => Rings = {}
         /\ IF r = "bufs" /\ phase # "detached"
            THEN FreeRings /\ UNCHANGED out
            ELSE UNCHANGED tabVars
  /\ UNCHANGED <<driver, step, busy, hands, cause>>

(* The handler, and the entries GLD calls. *)
Enter(w) ==
  /\ w \in held \ busy
  /\ w = "gld" => todo = <<>>
  /\ busy' = busy \cup {w}
  /\ UNCHANGED <<driver, step, held, todo, hands, cause, wrong, tabVars>>

\* Mutant: a refused send forgets its buffer.
LeaveWithBuf(w) ==
  /\ w \in busy
  /\ busy' = busy \ {w}
  /\ UNCHANGED <<driver, step, held, todo, hands, cause, wrong, tabVars>>

(* None returns with a buffer in hand: afe_send and afe_read put it into a *)
(* ring or give it back.                                                   *)
Leave(w) ==
  /\ w \in busy
  /\ hands[w] = {}
  /\ busy' = busy \ {w}
  /\ UNCHANGED <<driver, step, held, todo, hands, cause, wrong, tabVars>>

(* Threads use buffers once the device may have been started.  A buffer    *)
(* goes from the table into a hand, on into a ring or back into the table; *)
(* the last case is the loops of detach.                                   *)
UseBufs ==
  /\ \/ \E w \in busy, pri \in 0..1 :
          /\ "gld" \in held
          /\ GetBuf(pri)
          /\ hands' = [hands EXCEPT ![w] = @ \cup (out' \ out)]
     \/ \E w \in busy : \E b \in hands[w] :
          /\ hands' = [hands EXCEPT ![w] = @ \ {b}]
          /\ UNCHANGED tabVars \/ FreeBuf(b)
     \/ \E b \in Rings :
          /\ \/ busy # {}
             \/ cause = "detach" /\ todo # <<>> /\ Head(todo) = "bufs"
          /\ FreeBuf(b)
          /\ UNCHANGED hands
  /\ UNCHANGED <<driver, step, held, todo, busy, cause, wrong>>

AttachNext ==
  \/ Take \/ TakeBuf \/ Fail
  \/ Unload \/ Release
  \/ \E w \in Ways : Enter(w) \/ Leave(w)
  \/ UseBufs

AttachSpec == AttachInit /\ [][AttachNext]_attachVars

-----------------------------------------------------------------------------
\* Types, of afe_buftab too: what attach holds is a sequence of resources, and
\* the buffer stack is inside its table at every step and failure.
AttachTypeOK ==
  /\ TabTypeOK
  /\ driver \in {"afe", "mxfe"}
  /\ step \in 1..(Len(Order) + 1)
  /\ held \in SUBSET Resources /\ wrong \in SUBSET Resources
  /\ busy \in SUBSET Ways
  /\ hands \in [Ways -> SUBSET Bufs]
  /\ cause \in MayFail \cup {"none", "detach"}
  /\ todo \in Seq(Resources)

(* What a thread that came in by w, or the code that releases w, touches. *)
Uses(w) ==
  CASE w = "intr" -> {"macinfo", "softc", "locks", "kstat", "regs", "desc",
                      "bufs", "setup"}
    [] w = "gld" -> Resources \ {"pci", "gld"}
    [] w \in {"bufs", "locks", "ndd", "regs", "setup"} -> {"softc"}
    [] OTHER -> {}

(* Nothing is released that something still held uses: no handler and no   *)
(* GLD entry can find a mutex destroyed, a register unmapped or a ring     *)
(* freed, on the way back from any failure and in detach.                  *)
ReleaseOrder ==
  [][\A r \in held \ held', w \in held' \cup busy : r \notin Uses(w)]_attachVars

(* What each path is known to leave behind.  mxfe_freerings never frees    *)
(* the DMA memory of the descriptors.                                      *)
Abandoned ==
  CASE cause = "desc" -> {"binding"}
    [] cause \in {"setup", "intr", "gld", "detach"} /\ driver = "mxfe" -> {"desc"}
    [] cause = "bufs" /\ driver = "mxfe" -> {"desc", "buf"}
    [] OTHER -> {}

(* After a failed attach and after detach nothing is left of the device    *)
(* but Abandoned: the binding of the descriptors after a failure with more *)
(* than one cookie; of mxfe the descriptors, and a buffer structure if     *)
(* there was no DMA memory for it.  No buffer's DMA memory is ever left.   *)
NothingLeft ==
  Attaching /\ step = 1 => held \subseteq Abandoned /\ dma = {}

(* What each path is known to release without having taken it.  The table  *)
(* of buffers: mxfe_freerings reads it, allocated or not.                  *)
Untaken ==
  CASE cause = "regs" ->
         {"intr"} \cup IF driver = "mxfe" THEN {"pci", "bufs"} ELSE {}
    [] cause = "desc" ->
         {"intr", "binding"} \cup IF driver = "mxfe" THEN {"bufs"} ELSE {}
    [] cause = "setup" -> {"intr", "setup"}
    [] cause \in {"bufs", "intr"} -> {"intr"}
    [] OTHER -> {}

(* What is released was taken, and is released once, but for Untaken:      *)
(* failed: removes an interrupt handler that was not added, a NULL handle  *)
(* is unbound if the descriptors take more than one cookie, and mxfe tears *)
(* pci down twice, frees a table it has not allocated, and frees the setup *)
(* frame twice.  Detach, and a failure at the end of attach, have none.    *)
OnlyTaken == wrong \subseteq Untaken
=============================================================================
