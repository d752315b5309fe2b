\* EEPROMs of 6, 8 and 11 address bits (93C46, 93C66, 93C86) on hosts of
\* both byte orders; PHYs at 0 and 1, the first addressed also as 32.
SPECIFICATION SerialSpec
CONSTANTS
    Widths = {6, 8, 11}
    Word <- MCWord
    Phys = {0, 1}
    PhyAddrs = {0, 1, 32}
    Regs = {1, 4}
    Values = {32771}
INVARIANTS
    SerialTypeOK
    FactAddrRead
PROPERTY PhyRegisters
