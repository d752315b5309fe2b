\* DDI_SUSPEND while the handler is between its receive work and its reset:
\* the reset starts the suspended chip.
SPECIFICATION Spec
CONSTANTS
    Bufs = {b1, b2}
    NoBuf = NoBuf
    TxRing = 1
    RxRing = 1
    Senders = {s1}
    NumThresh = 1
    ChipBits = {"txok", "berr"}
INVARIANT SuspendedQuiet
