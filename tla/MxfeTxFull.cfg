\* The filter changes while every descriptor holds a frame.
SPECIFICATION MxfeSpec
CONSTANTS
    Bufs = {b1, b2, b3}
    NoBuf = NoBuf
    TxRing = 2
    LowWater = 1
    Senders = {s1}
    Hashes = {h1}
    MaxCount = 2
    ChipBits = {}
    Coincidences = {"full"}
INVARIANT NoneDropped
