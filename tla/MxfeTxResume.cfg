\* A running MAC with a filter in force is suspended and resumed.
SPECIFICATION MxfeSpec
CONSTANTS
    Bufs = {b1, b2, b3}
    NoBuf = NoBuf
    TxRing = 2
    LowWater = 1
    Senders = {s1}
    Hashes = {h1}
    MaxCount = 2
    ChipBits = {}
    Coincidences = {}
PROPERTY ResumeRestores
