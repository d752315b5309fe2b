\* Every order of GLD calls, start, stop, suspend, power loss and resume, with
\* the receiver restarted and the chip reset by the handler at any time.
SPECIFICATION FilterSpec
CONSTANTS
    Addrs = {a1, a2}
    Factory = a1
    NoAddr = NoAddr
    Hashes = {h1, h2}
    Broadcast = h1
    MaxCount = 2
    Garbage <- MCGarbage
    Events = {"rxnobuf", "reset"}
INVARIANTS
    FilterTypeOK
    McTable
    FilterInForce
    RxFollowsRunning
