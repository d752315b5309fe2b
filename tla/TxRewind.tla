------------------------------ MODULE TxRewind ------------------------------
(***************************************************************************)
(* What a transmit ring promises that sends setup frames through the same  *)
(* engine: frames are sent in the order they were accepted and their       *)
(* buffers come back in that order, only when they have been sent; the     *)
(* engine may be rewound to the oldest frame whose buffer has not come     *)
(* back, and then sends some frames again, but it never passes one over.   *)
(***************************************************************************)
EXTENDS Naturals, Sequences

CONSTANTS Frames, Depth

VARIABLES held,  \* the frames accepted and not yet given back, in order
          sent   \* how many of them, from the head, have been sent

rewindVars == <<held, sent>>

RewindInit == held = <<>> /\ sent = 0

Accept(f) ==
    /\ Len(held) < Depth
    /\ held' = Append(held, f)
    /\ UNCHANGED sent

Transmit == sent < Len(held) /\ sent' = sent + 1 /\ UNCHANGED held

\* The first n buffers come back.
GiveBack(n) ==
    /\ n <= sent
    /\ held' = SubSeq(held, n + 1, Len(held))
    /\ sent' = sent - n

\* Some buffers come back and the next frame is accepted in the same step.
GiveBackAndAccept(n, f) ==
    /\ n <= sent
    /\ held' = Append(SubSeq(held, n + 1, Len(held)), f)
    /\ sent' = sent - n

Rewind == sent' = 0 /\ UNCHANGED held

DropAll == held' = <<>> /\ sent' = 0

RewindNext ==
    \/ \E f \in Frames : Accept(f)
    \/ Transmit \/ Rewind \/ DropAll
    \/ \E n \in 1 .. Depth : \/ GiveBack(n)
                             \/ \E f \in Frames : GiveBackAndAccept(n, f)

RewindSpec == RewindInit /\ [][RewindNext]_rewindVars
=============================================================================
