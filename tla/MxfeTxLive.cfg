\* Two senders for one descriptor and two buffers, so that one of them waits
\* for a descriptor or for a buffer; every entry point of GLD and DDI.  No
\* multicast: the filter is set by the other two entry points.
SPECIFICATION MxfeFairSpec
CONSTANTS
    Bufs = {b1, b2}
    NoBuf = NoBuf
    TxRing = 1
    LowWater = 1
    Senders = {s1, s2}
    Hashes = {}
    MaxCount = 1
    ChipBits = {}
    Coincidences = {}
PROPERTY WaitersRescheduled
