\* Both drivers, a table of four entries, a reserve of two, and five buffers
\* the system could allocate; attach may fail at every resource, and the
\* device is attached and detached again and again.
SPECIFICATION AttachSpec
CONSTANTS
    Bufs = {b1, b2, b3, b4, b5}
    NoBuf = NoBuf
    NumBufs = 4
    Reserve = 2
INVARIANTS
    AttachTypeOK
    StackOK
    NoDmaLeak
    NothingLeft
    OnlyTaken
PROPERTIES
    ReleaseOrder
    TabSpec
    IsPool
