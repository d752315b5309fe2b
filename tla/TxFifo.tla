------------------------------- MODULE TxFifo -------------------------------
(***************************************************************************)
(* What a transmit ring promises: a frame it accepts is sent once, in the  *)
(* order of acceptance, and its buffer comes back in that order; frames    *)
(* are dropped only all together, when the MAC is started again.           *)
(***************************************************************************)
EXTENDS Naturals, Sequences

CONSTANTS Frames,  \* the buffers frames are sent from
          Depth    \* how many may be in the ring

VARIABLES queued,  \* accepted, not yet sent
          done     \* sent, buffer not yet given back

fifoVars == <<queued, done>>

\* The frames of a sequence.
Held(q) == {q[i] : i \in DOMAIN q}

FifoInit == queued = <<>> /\ done = <<>>

Accept(f) ==
    /\ Len(queued) + Len(done) < Depth
    /\ f \notin Held(queued) \cup Held(done)
    /\ queued' = Append(queued, f)
    /\ UNCHANGED done

Transmit ==
    /\ queued # <<>>
    /\ done' = Append(done, Head(queued))
    /\ queued' = Tail(queued)

GiveBack ==
    /\ done # <<>>
    /\ done' = Tail(done)
    /\ UNCHANGED queued

DropAll == queued' = <<>> /\ done' = <<>>

FifoNext == (\E f \in Frames : Accept(f)) \/ Transmit \/ GiveBack \/ DropAll

FifoSpec == FifoInit /\ [][FifoNext]_fifoVars
=============================================================================
