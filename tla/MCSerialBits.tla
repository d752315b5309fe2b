---------------------------- MODULE MCSerialBits ----------------------------
(***************************************************************************)
(* SerialBits for TLC: an EEPROM with a different word at each address,    *)
(* and at word 56 the pointer to byte 40.                                  *)
(***************************************************************************)
EXTENDS SerialBits

MCWord == [addr \in Addrs |-> IF addr = 56 THEN 40 ELSE (addr * 1021 + 4660) % 65536]
=============================================================================
