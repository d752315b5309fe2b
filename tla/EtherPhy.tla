------------------------------ MODULE EtherPhy ------------------------------
(***************************************************************************)
(* The transceiver of a card and the partner at the other end of its cable *)
(* (external: neither is under src/; modelled from the registers that      *)
(* afe.c and mxfe.c read and write and from IEEE 802.3 clause 28).         *)
(* The transceiver negotiates, or is forced, into the mode of the link, and*)
(* raises the bits of the status register that its chip has for that.      *)
(***************************************************************************)
EXTENDS Naturals, FiniteSets

CONSTANTS
  Cards,     \* the cards the driver may find: model, able, addr, fiber
  Partners   \* the partners a cable may lead to: nway, modes, media

Modes == {"100T4", "100fdx", "100hdx", "10fdx", "10hdx"}

(* MAC-only is the Centaur with an external transceiver. *)
Models == {"comet", "centaur", "maconly", "98713A", "98715"}

(* able is what the status register of the transceiver says it can do, addr*)
(* where it answers on the MII, fiber the "fiber" property of a 983B.      *)
ASSUME CardAssumption ==
  \A c \in Cards : /\ c.model \in Models
                   /\ c.able \subseteq Modes \cup {"aneg"}
                   /\ c.able \cap Modes # {}
                   /\ c.addr \in 0..31
                   /\ c.fiber \in {"none", "tp", "fiber", "auto"}

(* The transceiver of a 98715 is on the chip: nothing is read of what it is *)
(* able to do, the driver takes it for all but 100BaseT4.                   *)
ASSUME NwayAssumption ==
  \A c \in Cards : c.model = "98715" => c.able = (Modes \ {"100T4"}) \cup {"aneg"}

(* A partner without NWay works in its one mode; no cable has no mode. *)
ASSUME PartnerAssumption ==
  \A p \in Partners : /\ p.nway \in BOOLEAN
                      /\ p.modes \subseteq Modes
                      /\ p.media \in {"tp", "fiber"}
                      /\ ~p.nway => Cardinality(p.modes) <= 1

VARIABLES
  card, partner,
  bmcr,      \* control register: {"aneg"}, or the bits of a forced mode
  anar,      \* the modes the transceiver advertises
  onfiber,   \* the fiber port is selected
  pmode,     \* the mode of the link, "none" while it is down
  pend       \* "link", "aneg": link bits of the status register

phyVars == <<card, partner, bmcr, anar, onfiber, pmode, pend>>

Speed(m) == IF m \in {"10fdx", "10hdx"} THEN 10 ELSE 100
Full(m) == m \in {"100fdx", "10fdx"}
Half(m) == CASE m = "100fdx" -> "100hdx" [] m = "10fdx" -> "10hdx"
             [] OTHER -> m

(* The first mode of an order that is in S. *)
First(order, S) ==
  LET I == {i \in DOMAIN order : order[i] \in S}
  IN  IF I = {} THEN "none" ELSE order[CHOOSE i \in I : \A j \in I : i <= j]

(* The order of IEEE 802.3 annex 28B, in which a transceiver resolves. *)
Priority == <<"100fdx", "100T4", "100hdx", "10fdx", "10hdx">>

ForcedMode(b) ==
  CHOOSE m \in Modes \ {"100T4"} : /\ Speed(m) = 100 <=> "speed" \in b
                                   /\ Full(m) <=> "duplex" \in b

(* What the partner is seen to offer: parallel detection of a partner      *)
(* without NWay can only tell its speed.                                   *)
Offered ==
  IF partner.nway THEN partner.modes ELSE {Half(m) : m \in partner.modes}

(* The mode in which the transceiver and its partner can meet. *)
Reach ==
  IF onfiber # (partner.media = "fiber") THEN "none"
  ELSE IF "aneg" \in bmcr THEN First(Priority, anar \cap Offered)
  ELSE IF \E m \in partner.modes \ {"100T4"} :
            Speed(m) = Speed(ForcedMode(bmcr))
  THEN ForcedMode(bmcr) ELSE "none"

(* The events of a link that goes down, and of one that comes up: a Comet  *)
(* enables the link failure and negotiation complete interrupts only.      *)
DownEvents ==
  IF pmode # "none" /\ card.model \in {"comet", "centaur", "98715"}
  THEN {"link"} ELSE {}

UpEvents ==
  CASE card.model = "comet" -> IF "aneg" \in bmcr THEN {"link"} ELSE {}
    [] card.model = "centaur" -> {"link"}
    [] card.model = "98715" -> {"link"} \cup (bmcr \cap {"aneg"})
    [] OTHER -> {}

(* A transceiver that is powered up negotiates for all it is able to do. *)
PowerUpBmcr == card.able \cap {"aneg"}
PowerUpAnar == card.able \cap Modes

PhyInit ==
  /\ card \in Cards
  /\ partner \in Partners
  /\ bmcr = PowerUpBmcr
  /\ anar = PowerUpAnar
  /\ onfiber = FALSE
  /\ pmode = "none"
  /\ pend = {}

PhyUp ==
  /\ pmode = "none"
  /\ pmode' = Reach
  /\ pmode' # "none"
  /\ pend' = pend \cup UpEvents
  /\ UNCHANGED <<card, partner, bmcr, anar, onfiber>>

(* The cable is pulled, or moved to another partner, or the partner stops. *)
PhyDown ==
  /\ partner' \in Partners
  /\ pmode' = "none"
  /\ pend' = pend \cup DownEvents
  /\ UNCHANGED <<card, bmcr, anar, onfiber>>

(* The registers are written; the reset before that drops the link. The bits *)
(* of the status register that were not acknowledged are in kept.           *)
Program(b, a, f, kept) ==
  /\ bmcr' = b
  /\ anar' = a
  /\ onfiber' = f
  /\ pmode' = "none"
  /\ pend' = kept \cup DownEvents
  /\ UNCHANGED <<card, partner>>
=============================================================================
