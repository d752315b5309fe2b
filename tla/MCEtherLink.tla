---------------------------- MODULE MCEtherLink ----------------------------
(* Instances of EtherLink: the cards differ in how the link is read, in    *)
(* what they are able to do and in where their transceiver answers.        *)
EXTENDS EtherLink

Tx == {"100fdx", "100hdx", "10fdx", "10hdx"}
Card(m, able, addr, fiber) ==
  [model |-> m, able |-> able, addr |-> addr, fiber |-> fiber]

MCCards ==
  {Card("comet", Tx \cup {"aneg"}, 1, "none"),
   Card("centaur", Tx \cup {"aneg"}, 1, "auto"),
   Card("centaur", Tx \cup {"aneg"}, 1, "fiber"),
   Card("maconly", {"100T4", "100hdx", "10hdx", "aneg"}, 1, "none"),
   Card("maconly", {"10fdx", "10hdx"}, 1, "none"),
   Card("98713A", Modes \cup {"aneg"}, 0, "none"),
   Card("98715", Tx \cup {"aneg"}, 0, "none")}

(* A transceiver at the address that most external ones are strapped to. *)
MCOtherAddr == {Card("98713A", Tx \cup {"aneg"}, 1, "none")}

Partner(nway, modes, media) ==
  [nway |-> nway, modes |-> modes, media |-> media]

MCPartners ==
  {Partner(FALSE, {}, "tp"),
   Partner(TRUE, Tx, "tp"),
   Partner(TRUE, {"10fdx", "10hdx"}, "tp"),
   Partner(FALSE, {"100hdx"}, "tp"),
   Partner(TRUE, {"100T4", "10hdx"}, "tp"),
   Partner(FALSE, {"100fdx"}, "fiber")}

MCProperties ==
  {Modes \cup {"aneg"}, {"aneg", "100hdx", "10fdx"}, {"aneg", "10hdx"},
   {"100hdx", "10fdx"}, {"100T4"}, {}}
=============================================================================
