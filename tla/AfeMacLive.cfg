\* Completions and waiters under fairness, against every entry point: three
\* senders for one transmit slot and the buffers of a pool they can empty, so
\* that afe_send is short of descriptors and of buffers and afe_startmac can
\* fail.  The chip receives nothing: a flood of frames can keep the handler
\* in its receive loop for ever.
SPECIFICATION FairSpec
CONSTANTS
    Bufs = {b1, b2, b3}
    NoBuf = NoBuf
    TxRing = 1
    RxRing = 1
    Senders = {s1, s2, s3}
    NumThresh = 1
    ChipBits = {"txok"}
INVARIANT BufferOwnership
PROPERTIES
    CompletionsReclaimed
    WaitersRescheduled
