\* Three buffers for two descriptors and one sender, so that the pool, the
\* ring and the low-water mark are all reached; one bucket with two addresses;
\* receive-buffer and error interrupts.  The filter does not change while the
\* ring is full.
SPECIFICATION MxfeSpec
CONSTANTS
    Bufs = {b1, b2, b3}
    NoBuf = NoBuf
    TxRing = 2
    LowWater = 1
    Senders = {s1}
    Hashes = {h1}
    MaxCount = 2
    ChipBits = {"rxnobuf", "error"}
    Coincidences = {}
SYMMETRY Symmetry
INVARIANTS
    MxfeTypeOK
    BufferOwnership
    TxWindowOK
    NeverStalled
    FilterCurrent
    HashBits
    TxStaysOn
PROPERTY SendsInOrder
