\* Two slots in each ring and one sender, with the chip receiving, running
\* out of receive descriptors, sending and underflowing, against every entry
\* point.  With a buffer for each slot the sender meets an empty pool when the
\* rings are full; AfeMacLive has the sender that finds no descriptor.
SPECIFICATION Spec
CONSTANTS
    Bufs = {b1, b2, b3, b4}
    NoBuf = NoBuf
    TxRing = 2
    RxRing = 2
    Senders = {s1}
    NumThresh = 1
    ChipBits = {"txok", "txunf", "rxok", "rxnobuf"}
SYMMETRY Symmetry
INVARIANTS
    TypeOK
    TxRingOK
    RxRingOK
    StoppedQuiet
    NoLostCompletion
    StartMacSucceeds
PROPERTY TransmitsInOrder
