----------------------------- MODULE SerialBits -----------------------------
(***************************************************************************)
(* What the drivers do bit by bit through CSR SPR: find the width of the   *)
(* serial EEPROM, read the factory address out of it, and read and write   *)
(* the registers of a PHY.  An exchange is the sequence of the bits the    *)
(* driver has clocked out; what the device answers is a function of them.  *)
(* Every exchange is under a lock, so it is one step.                      *)
(*                                                                         *)
(* The code of the two drivers is the same but for where the address is.   *)
(***************************************************************************)
EXTENDS Integers, Sequences

CONSTANTS
    Widths,      \* external: how many address bits the EEPROM may take
    Word,        \* external: the 16-bit words in it, by address
    Phys,        \* external: the addresses at which a PHY answers
    PhyAddrs,    \* bound: the addresses the driver uses
    Regs, Values \* bound: the registers, and what is written to them

\* What a ushort of the drivers may hold; the addresses of an EEPROM.
Ushort == {v \in Nat : v < 65536}
Addrs  == 0 .. 4095

ASSUME SerialAssumption ==
    /\ Widths \subseteq 4 .. 12   \* those that afe_sromwidth accepts
    /\ Word \in [Addrs -> Ushort]
    /\ Phys \subseteq 0 .. 31 /\ PhyAddrs \subseteq Nat
    /\ Regs \subseteq 0 .. 31 /\ Values \subseteq Ushort

VARIABLES
    driver,   \* "afe" or "mxfe"
    host,     \* external: the byte order, "big" or "little"
    width,    \* external: the address bits of this EEPROM
    romwidth, \* afe_sromwidth; 0 before it is known
    factaddr, \* afe_factaddr or mxfe_factaddr: six bytes, or <<>>
    phyreg,   \* external: the registers of the PHYs
    value     \* what the last read of a PHY returned

card == <<driver, host, width>>
serialVars == <<card, romwidth, factaddr, phyreg, value>>

\* The n low bits of v, the most significant first.
Bits(v, n) == [i \in 1 .. n |-> (v \div 2 ^ (n - i)) % 2]

\* Bits shifted in one after another.
Number(bits) ==
    LET shifted[i \in 0 .. Len(bits)] ==
            IF i = 0 THEN 0 ELSE 2 * shifted[i - 1] + bits[i]
    IN shifted[Len(bits)]

Zeros(n) == [i \in 1 .. n |-> 0]

Swap(word) == (word % 256) * 256 + word \div 256

-----------------------------------------------------------------------------
(***************************************************************************)
(* The EEPROM (external).  After the start bit 1, the operation and width  *)
(* bits of address it answers with a 0 and then, for a read, the word; its *)
(* output is 1 before.                                                     *)
(***************************************************************************)
READCMD == 6

Start(bits) == CHOOSE i \in DOMAIN bits :
                   bits[i] = 1 /\ \A j \in 1 .. i - 1 : bits[j] = 0

Dout(bits) ==
    LET op    == Start(bits) + 2           \* the last bit of the operation
        after == Len(bits) - op
        addr  == Number(SubSeq(bits, op + 1, op + width))
    IN IF after < width THEN 1
       ELSE IF after = width THEN 0
       ELSE Bits(Word[addr], 16)[1 + ((after - width - 1) % 16)]

\* afe_sromwidth: clock zeros until the output is low.
SromWidth ==
    LET low == {n \in 1 .. 12 : Dout(Bits(READCMD, 3) \o Zeros(n)) = 0}
        n   == CHOOSE m \in low : \A k \in low : m <= k
    IN IF low = {} \/ n < 4 THEN 6 ELSE n

\* The word shifted in, as the host holds it.
WordRead(w, addr) ==
    Number([i \in 1 .. 16 |-> Dout(Bits(READCMD * 2 ^ w + addr, w + 5) \o Zeros(i))])

\* Mutant: the high byte is not cut off.
FixedUncut(word) == IF host = "big" THEN word * 256 + word \div 256 ELSE word

\* "fix up the endianness thing": the bytes of the word in memory, the second
\* as the high one.
Fixed(word) == IF host = "big" THEN Swap(word) ELSE word

\* afe_readsromword.
ReadSromWord(w, addr) == IF addr >= 2 ^ w THEN 0 ELSE Fixed(WordRead(w, addr))

\* Mutant: the word is stored most significant byte first on every host.
StoredBig(word) == <<word \div 256, word % 256>>

\* The two bytes of a word stored as the host stores it.
Stored(word) == IF host = "big" THEN <<word \div 256, word % 256>>
                ELSE <<word % 256, word \div 256>>

\* afe_readsrom of an address.
ReadSrom(w, addr) ==
    Stored(ReadSromWord(w, addr)) \o Stored(ReadSromWord(w, addr + 1))
                                 \o Stored(ReadSromWord(w, addr + 2))

\* The same functions in the mxfe driver.
MxfeSromWidth == SromWidth
MxfeReadSromWord(w, addr) == ReadSromWord(w, addr)
MxfeReadSrom(w, addr) == ReadSrom(w, addr)

\* In attach the width is found first.
FindWidth ==
    /\ romwidth = 0
    /\ romwidth' = IF driver = "afe" THEN SromWidth ELSE MxfeSromWidth
    /\ UNCHANGED <<card, factaddr, phyreg, value>>

AfeEnAddr  == 4
MxfeEnAddr == 112  \* of the pointer to the address, in bytes

AfeGetFactAddr == factaddr' = ReadSrom(romwidth, AfeEnAddr)

\* The pointer is swapped a second time on a big-endian host.
MxfeGetFactAddr ==
    LET pointer == Fixed(MxfeReadSromWord(romwidth, MxfeEnAddr \div 2))
    IN factaddr' = MxfeReadSrom(romwidth, pointer \div 2)

GetFactAddr ==
    /\ romwidth # 0
    /\ IF driver = "afe" THEN AfeGetFactAddr ELSE MxfeGetFactAddr
    /\ UNCHANGED <<card, romwidth, phyreg, value>>

-----------------------------------------------------------------------------
(***************************************************************************)
(* The management frames of the MII.  "z" is a clock with the line not     *)
(* driven.                                                                 *)
(***************************************************************************)
Preamble == [i \in 1 .. 32 |-> 1]

\* Mutant: the register is sent before the PHY.
HeaderSwapped(op, phy, reg) ==
    Preamble \o <<0, 1>> \o op \o Bits(reg, 5) \o Bits(phy, 5) \o <<"z", 0>>

\* Preamble, start, operation, the five low bits of each address, turnaround.
Header(op, phy, reg) ==
    Preamble \o <<0, 1>> \o op \o Bits(phy, 5) \o Bits(reg, 5) \o <<"z", 0>>

\* External: a PHY reads the header of a frame.
FrameOp(f)  == SubSeq(f, 35, 36)
FramePhy(f) == Number(SubSeq(f, 37, 41))
FrameReg(f) == Number(SubSeq(f, 42, 46))

\* External: the line while the driver reads: pulled up if nobody answers.
Mdio(f) ==
    IF FramePhy(f) \in Phys /\ FrameOp(f) = <<1, 0>>
    THEN Bits(phyreg[<<FramePhy(f), FrameReg(f)>>], 16)[Len(f) - 47]
    ELSE 1

\* afe_miireadgeneral: each bit is read before its clock.
MiiReadGeneral(phy, reg) ==
    Number([i \in 1 .. 16 |->
              Mdio(Header(<<1, 0>>, phy, reg) \o [j \in 1 .. i - 1 |-> "z"])])

\* afe_miiwritegeneral; external: what the PHY makes of the frame.
MiiWriteGeneral(phy, reg, v) ==
    LET f == Header(<<0, 1>>, phy, reg) \o Bits(v, 16) \o <<"z">>
    IN phyreg' = IF FramePhy(f) \in Phys /\ FrameOp(f) = <<0, 1>>
                 THEN [phyreg EXCEPT ![<<FramePhy(f), FrameReg(f)>>] =
                          Number(SubSeq(f, 49, 64))]
                 ELSE phyreg

MxfeMiiReadGeneral(phy, reg) == MiiReadGeneral(phy, reg)
MxfeMiiWriteGeneral(phy, reg, v) == MiiWriteGeneral(phy, reg, v)

\* afe_miiread and afe_miiwrite reach only the PHY at 1.
AfeMiiRead(phy, reg) == IF phy = 1 THEN MiiReadGeneral(phy, reg) ELSE 65535
AfeMiiWrite(phy, reg, v) ==
    IF phy = 1 THEN MiiWriteGeneral(phy, reg, v) ELSE UNCHANGED phyreg

MiiRead(phy, reg) ==
    /\ value' = IF driver = "afe" THEN AfeMiiRead(phy, reg)
                ELSE MxfeMiiReadGeneral(phy, reg)
    /\ UNCHANGED <<card, romwidth, factaddr, phyreg>>

MiiWrite(phy, reg, v) ==
    /\ IF driver = "afe" THEN AfeMiiWrite(phy, reg, v)
       ELSE MxfeMiiWriteGeneral(phy, reg, v)
    /\ UNCHANGED <<card, romwidth, factaddr, value>>

-----------------------------------------------------------------------------
SerialInit ==
    /\ driver \in {"afe", "mxfe"} /\ host \in {"big", "little"} /\ width \in Widths
    /\ romwidth = 0 /\ factaddr = <<>>
    /\ phyreg = [k \in Phys \X Regs |-> 0] /\ value = 0

SerialNext ==
    \/ FindWidth \/ GetFactAddr
    \/ \E p \in PhyAddrs, r \in Regs :
          MiiRead(p, r) \/ \E v \in Values : MiiWrite(p, r, v)

SerialSpec == SerialInit /\ [][SerialNext]_serialVars

-----------------------------------------------------------------------------
\* Type invariant, which includes that a word or a register assembled bit by
\* bit fits its 16 bits, and that the sizing loop ends at 12 bits at most.
SerialTypeOK ==
    /\ romwidth \in 0 .. 12
    /\ factaddr = <<>> \/ (Len(factaddr) = 6 /\ \A i \in 1 .. 6 : factaddr[i] \in 0 .. 255)
    /\ \A k \in Phys \X Regs : phyreg[k] \in Ushort
    /\ value \in Ushort

\* The bytes at a word of the EEPROM, where the low byte comes first.
BytesAt(addr) ==
    [i \in 1 .. 6 |-> LET word == Word[addr + (i - 1) \div 2]
                     IN IF i % 2 = 1 THEN word % 256 ELSE word \div 256]

\* The factory address is the one in the EEPROM, byte by byte, whatever the
\* byte order of the host, and whatever width the EEPROM turned out to have.
FactAddrRead ==
    factaddr # <<>> =>
        factaddr = BytesAt(IF driver = "afe" THEN AfeEnAddr
                           ELSE Word[MxfeEnAddr \div 2] \div 2)

\* A read returns the register of the PHY at the low five bits of the address,
\* all ones where there is none, and a write changes that register and no
\* other; the afe driver reaches no PHY but the one at 1.
Reached(phy) == phy % 32 \in Phys /\ (driver = "mxfe" \/ phy = 1)

PhyRegisters ==
    [][\A p \in PhyAddrs, r \in Regs :
         /\ MiiRead(p, r) => value' = IF Reached(p) THEN phyreg[<<p % 32, r>>] ELSE 65535
         /\ \A v \in Values : MiiWrite(p, r, v) =>
              phyreg' = [k \in Phys \X Regs |->
                           IF Reached(p) /\ k = <<p % 32, r>> THEN v ELSE phyreg[k]]
      ]_serialVars
=============================================================================
