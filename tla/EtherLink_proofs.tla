-------------------------- MODULE EtherLink_proofs --------------------------
(***************************************************************************)
(* Proofs about EtherLink, for any cards, partners, ndd parameters and     *)
(* properties of a .conf file: types; a stopped afe has no link up; the    *)
(* console tells the truth; the transceiver is given the modes selected    *)
(* (for a PHY that answers where the driver programs it); the driver knows *)
(* whether the link is up, and says the speed and duplex it has.           *)
(***************************************************************************)
EXTENDS EtherLink, FiniteSetTheorems, TLAPS

AllModes == Modes \cup {"aneg"}
Links == [up : BOOLEAN, speed : {0, 10, 100}, duplex : {"unknown", "half", "full"}]
Orders == {FallbackOrder, ForceOrder, MiiOrder, Priority}

-----------------------------------------------------------------------------
(***************************************************************************)
(* The choice of a mode.                                                   *)
(***************************************************************************)

\* What First finds is in the set; it finds something if the set has a mode
\* that the order names.
LEMMA FirstFacts ==
    ASSUME NEW order \in Orders, NEW S
    PROVE  /\ First(order, S) \in (Modes \cap S) \cup {"none"}
           /\ (\E i \in DOMAIN order : order[i] \in S) => First(order, S) # "none"
<1> DEFINE I == {i \in DOMAIN order : order[i] \in S}
<1>1. /\ \A i \in DOMAIN order : order[i] \in Modes
      /\ DOMAIN order \subseteq 1 .. 5
  BY DEF Orders, FallbackOrder, ForceOrder, MiiOrder, Priority, Modes
<1>2. CASE I = {}
  BY <1>2 DEF First
<1>3. CASE I # {}
  <2>1. \E i \in I : \A j \in I : i <= j
    <3>1. I \subseteq 1 .. 5
      BY <1>1
    <3> HIDE DEF I
    <3>2. PICK k \in I : TRUE
      BY <1>3
    <3>3. \A i \in I : i \in {1, 2, 3, 4, 5}
      BY <3>1
    <3> QED BY <3>2, <3>3
  <2>2. First(order, S) = order[CHOOSE i \in I : \A j \in I : i <= j]
    BY <1>3 DEF First
  <2>3. \E i \in I : First(order, S) = order[i]
    BY <2>1, <2>2
  <2>4. "none" \notin Modes
    BY DEF Modes
  <2> QED BY <1>1, <2>3, <2>4
<1> QED BY <1>2, <1>3

\* phyinit always ends with modes of the chip.
LEMMA SelectedFacts ==
    ASSUME NEW a \in SUBSET AllModes, NEW hw \in SUBSET AllModes, hw \cap Modes # {}
    PROVE  Selected(a, hw) \in SUBSET AllModes
<1>1. FallbackOrder \in Orders /\ \A m \in Modes : \E i \in DOMAIN FallbackOrder : FallbackOrder[i] = m
  BY DEF Orders, FallbackOrder, Modes
<1>2. First(FallbackOrder, hw) \in Modes
  BY <1>1, FirstFacts
<1> QED BY <1>2 DEF Selected, AllModes

\* A forced mode is a mode of the chip.
LEMMA ForcedModeFacts ==
    ASSUME NEW b
    PROVE  ForcedMode(b) \in Modes
<1> DEFINE fits(m) == (Speed(m) = 100 <=> "speed" \in b) /\ (Full(m) <=> "duplex" \in b)
<1>1. \E m \in Modes \ {"100T4"} : fits(m)
  <2>1. fits("100fdx") \/ fits("100hdx") \/ fits("10fdx") \/ fits("10hdx")
    BY DEF Speed, Full
  <2> QED BY <2>1 DEF Modes
<1> QED BY <1>1 DEF ForcedMode

\* Half duplex is a mode too.
LEMMA HalfFacts == \A m \in Modes : Half(m) \in Modes
BY DEF Half, Modes

\* A link that is up.
LEMMA UpFacts == \A m : Up(m) \in Links /\ Up(m).up
BY DEF Up, Links, Speed

\* A link that is down.
LEMMA DownFacts == Down \in Links /\ ~ Down.up /\ Down.speed = 0
BY DEF Down, Links

-----------------------------------------------------------------------------
(***************************************************************************)
(* What phyinit and checklink may do.                                      *)
(***************************************************************************)
Events == {"link", "aneg"}

\* The registers have been programmed with something legal, or left alone.
PhyLegal ==
    /\ card' = card /\ partner' = partner
    /\ bmcr' \in SUBSET {"aneg", "speed", "duplex"} /\ anar' \in SUBSET Modes
    /\ onfiber' \in BOOLEAN /\ pmode' \in Modes \cup {"none"}
    /\ pend' \in SUBSET Events

\* What the PHY is programmed with.
LEMMA ProgramFacts ==
    ASSUME LinkTypeOK, NEW b \in SUBSET {"aneg", "speed", "duplex"},
           NEW a \in SUBSET Modes, NEW f \in BOOLEAN, NEW kept \in SUBSET Events,
           Program(b, a, f, kept)
    PROVE  PhyLegal
BY DEF Program, DownEvents, PhyLegal, Events

\* What the control register is written with.
LEMMA ControlFacts ==
    \A a : /\ Control(a) \in SUBSET {"aneg", "speed", "duplex"}
           /\ ForcedBits(a) \in SUBSET {"aneg", "speed", "duplex"}
BY DEF Control, ForcedBits

\* Types across afe_phyinit.
LEMMA AfePhyInitFacts ==
    ASSUME LinkTypeOK, NEW a \in SUBSET AllModes, NEW kept \in SUBSET Events,
           AfePhyInit(a, kept)
    PROVE  PhyLegal /\ adv' \in SUBSET AllModes /\ linkstate' = linkstate
<1>1. PICK f \in FiberChoice :
        /\ adv' = Selected(a, Able(f))
        /\ Program(IF f THEN {"speed", "duplex"} ELSE Control(adv'), adv' \cap Modes, f, kept)
        /\ linkstate' = linkstate
  BY DEF AfePhyInit
<1>2. f \in BOOLEAN
  BY DEF FiberChoice
<1>3. Able(f) \in SUBSET AllModes /\ Able(f) \cap Modes # {}
  BY CardAssumption DEF Able, AllModes, LinkTypeOK, Modes
<1>4. adv' \in SUBSET AllModes
  BY <1>1, <1>3, SelectedFacts
<1>5. (IF f THEN {"speed", "duplex"} ELSE Control(adv')) \in SUBSET {"aneg", "speed", "duplex"}
  BY ControlFacts
<1>6. PhyLegal
  BY <1>1, <1>2, <1>5, ProgramFacts
<1> QED BY <1>1, <1>4, <1>6

\* What the driver keeps of the link across a reset of the PHY.
LEMMA KeptFacts ==
    ASSUME LinkTypeOK, NEW kept \in SUBSET Events, pend' = kept,
           UNCHANGED <<card, partner, bmcr, anar, onfiber, pmode>>
    PROVE  PhyLegal
BY DEF LinkTypeOK, PhyLegal

\* Types across mxfe_startnway.
LEMMA StartNwayFacts ==
    ASSUME LinkTypeOK, NEW a \in SUBSET AllModes, NEW kept \in SUBSET Events,
           StartNway(a, kept)
    PROVE  PhyLegal /\ linkstate' \in {"nolink", "nwaycheck", "good"}
<1>1. CASE "aneg" \in a
  <2>1. Program({"aneg"}, (a \cap {"100fdx", "100hdx", "10hdx"}) \cup {"10fdx"}, FALSE, kept)
        /\ linkstate' = "nwaycheck"
    BY <1>1 DEF StartNway
  <2>2. (a \cap {"100fdx", "100hdx", "10hdx"}) \cup {"10fdx"} \in SUBSET Modes
    BY DEF Modes
  <2> QED BY <2>1, <2>2, ProgramFacts
<1>2. CASE "aneg" \notin a
  BY <1>2, KeptFacts DEF StartNway
<1> QED BY <1>1, <1>2

\* Types across both phyinit functions.
LEMMA PhyInitFacts ==
    ASSUME LinkTypeOK, NEW a \in SUBSET AllModes, NEW kept \in SUBSET Events,
           DriverPhyInit(a, kept)
    PROVE  /\ PhyLegal /\ adv' \in SUBSET AllModes
           /\ linkstate' \in {"nolink", "nwaycheck", "good"}
<1>1. CASE AfePhyInit(a, kept)
  BY <1>1, AfePhyInitFacts DEF LinkTypeOK
<1>2. CASE MxfePhyInitNway(a, kept)
  <2> DEFINE sel == Selected(a, (Modes \ {"100T4"}) \cup {"aneg"})
  <2>1. sel \in SUBSET AllModes
    BY SelectedFacts DEF AllModes, Modes
  <2>2. /\ adv' = sel
        /\ \/ StartNway(sel, kept)
           \/ Program(ForcedBits(sel), sel \cap Modes, FALSE, kept) /\ linkstate' = "nolink"
    BY <1>2 DEF MxfePhyInitNway
  <2> HIDE DEF sel
  <2> QED BY <2>1, <2>2, StartNwayFacts, ProgramFacts, ControlFacts
<1>3. CASE MxfePhyInitMii(a, kept)
  <2>1. CASE card.addr = 0
    <3> DEFINE sel == Selected(a, card.able)
    <3>1. card.able \in SUBSET AllModes /\ card.able \cap Modes # {}
      BY CardAssumption DEF LinkTypeOK, AllModes
    <3>2. sel \in SUBSET AllModes
      BY <3>1, SelectedFacts
    <3>3. /\ adv' = sel /\ linkstate' = linkstate
          /\ Program(Control(sel), sel \cap Modes, FALSE, kept)
      BY <1>3, <2>1 DEF MxfePhyInitMii
    <3> HIDE DEF sel
    <3> QED BY <3>2, <3>3, ProgramFacts, ControlFacts DEF LinkTypeOK
  <2>2. CASE card.addr # 0
    <3>1. Selected(a, Modes \cup {"aneg"}) \in SUBSET AllModes
      BY SelectedFacts DEF AllModes, Modes
    <3>2. PhyLegal /\ linkstate' = linkstate /\ adv' = Selected(a, Modes \cup {"aneg"})
      BY <1>3, <2>2, KeptFacts DEF MxfePhyInitMii
    <3> QED BY <3>1, <3>2 DEF LinkTypeOK
  <2> QED BY <2>1, <2>2
<1> QED BY <1>1, <1>2, <1>3 DEF DriverPhyInit

-----------------------------------------------------------------------------
(***************************************************************************)
(* Types.                                                                  *)
(***************************************************************************)
CheckUnchanged == UNCHANGED <<phyVars, adv, link, linkstate, told, notice>>

\* The link that a check reports is one that the type of link admits, and a
\* link that is down has no speed.
Reported == \E l \in Links : ReportLink(l) /\ (l.up \/ l = Down)

\* The link read from a PHY is a link that is up.
LEMMA MiiLinkFacts == MiiLink \in Links /\ MiiLink.up
<1>1. UpUnknown \in Links /\ UpUnknown.up
  BY DEF UpUnknown, Down, Links
<1> QED BY <1>1, UpFacts DEF MiiLink

\* The link read from the NWay registers is a link that is up.
LEMMA NwayLinkFacts ==
    ASSUME LinkTypeOK
    PROVE  NwayLink \in Links /\ NwayLink.up
<1>1. [link EXCEPT !.up = TRUE, !.speed = 0] \in Links
      /\ [link EXCEPT !.up = TRUE, !.speed = 0].up
  BY DEF LinkTypeOK, Links
<1> QED BY <1>1, UpFacts DEF NwayLink

\* Types across both checklink functions.
LEMMA CheckLinkFacts ==
    ASSUME LinkTypeOK, CheckLink
    PROVE  /\ PhyLegal /\ adv' \in SUBSET AllModes
           /\ linkstate' \in {"nolink", "nwaycheck", "good"}
           /\ \/ UNCHANGED <<link, told, notice>>
              \/ Reported /\ (Afe => running)
<1> DEFINE Same == UNCHANGED <<phyVars, adv, linkstate>>
<1>a. Same => /\ PhyLegal /\ adv' \in SUBSET AllModes
              /\ linkstate' \in {"nolink", "nwaycheck", "good"}
  BY DEF LinkTypeOK, phyVars, PhyLegal, AllModes, Events
<1>b. adv \in SUBSET AllModes /\ pend \in SUBSET Events
  BY DEF LinkTypeOK, AllModes, Events
<1>c. ReportLink(Down) => Reported
  BY DownFacts DEF Reported
<1>1. CASE AfeCheckLink
  <2>1. CASE ~ running
    BY <1>1, <1>a, <2>1 DEF AfeCheckLink
  <2>2. CASE running /\ pmode = "none"
    <3>1. ReportLink(Down) /\ (AfePhyInit(adv, pend) \/ Same)
      BY <1>1, <2>2 DEF AfeCheckLink
    <3>2. AfePhyInit(adv, pend) =>
            PhyLegal /\ adv' \in SUBSET AllModes /\ linkstate' = linkstate
      BY <1>b, AfePhyInitFacts
    <3> QED BY <1>a, <1>c, <2>2, <3>1, <3>2 DEF LinkTypeOK
  <2>3. CASE running /\ pmode # "none"
    <3>1. Same /\ (ReportLink(MiiLink) \/ ReportLink(Up(pmode)))
      BY <1>1, <2>3 DEF AfeCheckLink
    <3>2. Reported
      BY <3>1, MiiLinkFacts, UpFacts DEF Reported
    <3> QED BY <1>a, <2>3, <3>1, <3>2
  <2> QED BY <2>1, <2>2, <2>3
<1>2. CASE MxfeCheckLinkNway /\ ~ Afe
  <2>1. CASE pmode = "none"
    <3>1. ReportLink(Down) /\ StartNway(adv, pend) /\ adv' = adv
      BY <1>2, <2>1 DEF MxfeCheckLinkNway
    <3>2. PhyLegal /\ linkstate' \in {"nolink", "nwaycheck", "good"}
      BY <1>b, <3>1, StartNwayFacts
    <3> QED BY <1>2, <1>b, <1>c, <3>1, <3>2
  <2>2. CASE pmode # "none"
    <3>1. /\ ReportLink(NwayLink) /\ linkstate' = "good"
          /\ UNCHANGED phyVars /\ adv' = adv
      BY <1>2, <2>2 DEF MxfeCheckLinkNway
    <3>2. Reported
      BY <3>1, NwayLinkFacts DEF Reported
    <3>3. PhyLegal
      BY <3>1 DEF LinkTypeOK, phyVars, PhyLegal, Events
    <3> QED BY <1>2, <1>b, <3>1, <3>2, <3>3
  <2> QED BY <2>1, <2>2
<1>3. CASE MxfeCheckLinkMii /\ ~ Afe
  <2>1. Same /\ (ReportLink(Down) \/ ReportLink(MiiLink))
    BY <1>3 DEF MxfeCheckLinkMii
  <2>2. Reported
    BY <1>c, <2>1, MiiLinkFacts DEF Reported
  <2> QED BY <1>3, <1>a, <2>1, <2>2
<1> QED BY <1>1, <1>2, <1>3 DEF CheckLink, Afe, Nway

\* The type invariant in two halves: the transceiver, and the driver.
LEMMA TypeFromParts ==
    ASSUME LinkTypeOK, PhyLegal,
           {running', suspended', check', overtaken'} \subseteq BOOLEAN,
           power' \in {"on", "asleep", "off"},
           adv' \in SUBSET AllModes, wanted' \in SUBSET AllModes,
           linkstate' \in {"nolink", "nwaycheck", "good"},
           \/ UNCHANGED <<link, told, notice>>
           \/ link' = Down /\ UNCHANGED <<told, notice>>
           \/ Reported
    PROVE  LinkTypeOK'
<1>1. card' \in Cards /\ partner' \in Partners
  BY DEF PhyLegal, LinkTypeOK
<1>2. link' \in Links /\ told' \in {0, 10, 100} \X {"unknown", "half", "full"}
      /\ notice' \in {0, 10, 100} \X {"unknown", "half", "full"}
  <2>1. CASE Reported
    <3>1. PICK l \in Links : ReportLink(l)
      BY <2>1 DEF Reported
    <3>2. <<l.speed, l.duplex>> \in {0, 10, 100} \X {"unknown", "half", "full"}
      BY DEF Links
    <3> QED BY <3>1, <3>2 DEF ReportLink, LinkTypeOK
  <2>2. CASE UNCHANGED <<told, notice>> /\ (link' = link \/ link' = Down)
    BY <2>2, DownFacts DEF LinkTypeOK, Links
  <2> QED BY <2>1, <2>2
<1> QED BY <1>1, <1>2 DEF PhyLegal, LinkTypeOK, AllModes, Links, Events

\* Every step keeps the types.
LEMMA NextLinkType == LinkTypeOK /\ [LinkNext]_linkVars => LinkTypeOK'
<1> SUFFICES ASSUME LinkTypeOK, [LinkNext]_linkVars PROVE LinkTypeOK'
  OBVIOUS
<1>a. /\ {running, suspended, check, overtaken} \subseteq BOOLEAN
      /\ power \in {"on", "asleep", "off"}
      /\ adv \in SUBSET AllModes /\ wanted \in SUBSET AllModes
      /\ linkstate \in {"nolink", "nwaycheck", "good"}
      /\ pend \in SUBSET Events /\ {} \in SUBSET Events
  BY DEF LinkTypeOK, AllModes, Events
<1>b. UNCHANGED <<card, partner, bmcr, anar, onfiber, pmode>> /\ pend' = {} => PhyLegal
  BY <1>a, KeptFacts
<1>1. CASE IntrEnter
  <2>1. check' \in BOOLEAN
    BY <1>1, <1>a DEF IntrEnter
  <2>2. /\ UNCHANGED <<running, suspended, power, adv, wanted, link, linkstate, told,
                       notice, overtaken>>
        /\ UNCHANGED <<card, partner, bmcr, anar, onfiber, pmode>> /\ pend' = {}
    BY <1>1 DEF IntrEnter
  <2> QED BY <1>a, <1>b, <2>1, <2>2, TypeFromParts
<1>2. CASE LinkCheck \/ ReclaimCheck
  <2>1. CheckLink /\ UNCHANGED <<running, suspended, power, wanted>>
        /\ {check', overtaken'} \subseteq BOOLEAN
    BY <1>2, <1>a DEF LinkCheck, ReclaimCheck
  <2> QED BY <1>a, <2>1, CheckLinkFacts, TypeFromParts
<1>3. CASE Stop
  BY <1>3, <1>a, <1>b, TypeFromParts DEF Stop
<1>4. CASE Start
  <2>1. DriverPhyInit(adv, pend)
    BY <1>4 DEF Start
  <2>2. PhyLegal /\ adv' \in SUBSET AllModes
        /\ linkstate' \in {"nolink", "nwaycheck", "good"}
    BY <1>a, <2>1, PhyInitFacts
  <2> QED BY <1>4, <1>a, <2>2, TypeFromParts DEF Start
<1>5. CASE IntrReset
  <2>1. DriverPhyInit(adv, {})
    BY <1>5 DEF IntrReset
  <2>2. PhyLegal /\ adv' \in SUBSET AllModes
        /\ linkstate' \in {"nolink", "nwaycheck", "good"}
    BY <1>a, <2>1, PhyInitFacts
  <2> QED BY <1>5, <1>a, <2>2, TypeFromParts DEF IntrReset
<1>6. CASE Suspend
  BY <1>6, <1>a, <1>b, TypeFromParts DEF Suspend
<1>7. CASE PowerOff
  <2>1. PowerUpBmcr \in SUBSET {"aneg", "speed", "duplex"} /\ PowerUpAnar \in SUBSET Modes
    BY DEF PowerUpBmcr, PowerUpAnar
  <2>2. PhyLegal
    BY <1>7, <1>a, <2>1, ProgramFacts DEF PowerOff
  <2> QED BY <1>7, <1>a, <2>2, TypeFromParts DEF PowerOff
<1>8. CASE Resume
  <2>1. /\ PhyLegal /\ adv' \in SUBSET AllModes
        /\ linkstate' \in {"nolink", "nwaycheck", "good"}
    <3>1. CASE running
      BY <1>8, <1>a, <3>1, PhyInitFacts DEF Resume
    <3>2. CASE ~ running
      BY <1>8, <1>a, <1>b, <3>2 DEF Resume
    <3> QED BY <3>1, <3>2
  <2>2. suspended' \in BOOLEAN /\ power' = "on"
        /\ UNCHANGED <<running, wanted, link, told, notice, check, overtaken>>
    BY <1>8 DEF Resume, Afe
  <2> QED BY <1>a, <2>1, <2>2, TypeFromParts
<1>9. CASE NddSet
  <2>1. PICK n \in Tunables, on \in BOOLEAN :
          LET Put(s) == IF on THEN s \cup {n} ELSE s \ {n}
          IN  /\ wanted' = Put(wanted)
              /\ IF suspended
                 THEN adv' = Put(adv) /\ UNCHANGED <<phyVars, linkstate>>
                 ELSE AfePhyInit(Put(adv), pend)
              /\ UNCHANGED <<running, suspended, power, link, told, notice, check, overtaken>>
    BY <1>9 DEF NddSet
  <2> DEFINE Put(s) == IF on THEN s \cup {n} ELSE s \ {n}
  <2>2. wanted' \in SUBSET AllModes /\ Put(adv) \in SUBSET AllModes
    BY <1>a, <2>1, TunablesAssumption DEF AllModes
  <2>3. PhyLegal /\ adv' \in SUBSET AllModes /\ linkstate' = linkstate
    <3>1. CASE suspended
      BY <2>1, <2>2, <3>1 DEF LinkTypeOK, phyVars, PhyLegal, Events
    <3>2. CASE ~ suspended
      <4>1. AfePhyInit(Put(adv), pend)
        BY <2>1, <3>2
      <4> HIDE DEF Put
      <4> QED BY <1>a, <2>2, <4>1, AfePhyInitFacts
    <3> QED BY <3>1, <3>2
  <2> QED BY <1>a, <2>1, <2>2, <2>3, TypeFromParts
<1>10. CASE PhyStep
  <2>1. PhyLegal \/ (partner' \in Partners /\ PhyDown)
    <3>1. CASE PhyUp
      <4>1. {FallbackOrder, ForceOrder, MiiOrder, Priority} \subseteq Orders
        BY DEF Orders
      <4>2. Reach \in Modes \cup {"none"}
        BY <4>1, FirstFacts, ForcedModeFacts DEF Reach
      <4>3. UpEvents \in SUBSET Events
        BY DEF UpEvents, Events
      <4> QED BY <3>1, <4>2, <4>3 DEF PhyUp, PhyLegal, LinkTypeOK, Events
    <3>2. CASE PhyDown
      BY <3>2 DEF PhyDown
    <3> QED BY <1>10, <3>1, <3>2 DEF PhyStep
  <2>2. UNCHANGED driverVars
    BY <1>10 DEF PhyStep
  <2>3. CASE PhyLegal
    BY <1>a, <2>2, <2>3, TypeFromParts DEF driverVars
  <2>4. CASE partner' \in Partners /\ PhyDown
    <3>1. DownEvents \in SUBSET {"link", "aneg"}
      BY DEF DownEvents
    <3> QED BY <2>2, <2>4, <3>1 DEF PhyDown, LinkTypeOK, driverVars
  <2> QED BY <2>1, <2>3, <2>4
<1>11. CASE UNCHANGED linkVars
  BY <1>11 DEF linkVars, phyVars, driverVars, LinkTypeOK
<1> QED BY <1>1, <1>2, <1>3, <1>4, <1>5, <1>6, <1>7, <1>8, <1>9, <1>10, <1>11 DEF LinkNext

\* Every variable of the link keeps its type: whatever the administrator
\* selects, whatever the partner offers and in whatever state ndd, suspend,
\* resume or a check of the link finds the interface, a legal mode comes out.
THEOREM LinkTypeCorrect == LinkSpec => []LinkTypeOK
<1>1. LinkInit => LinkTypeOK
  <2> SUFFICES ASSUME LinkInit PROVE LinkTypeOK
    OBVIOUS
  <2>1. /\ card \in Cards /\ partner \in Partners /\ onfiber \in BOOLEAN
        /\ bmcr \in SUBSET {"aneg", "speed", "duplex"} /\ anar \in SUBSET Modes
        /\ pmode \in Modes \cup {"none"} /\ pend \in SUBSET {"link", "aneg"}
    BY DEF LinkInit, PhyInit, PowerUpBmcr, PowerUpAnar
  <2>2. wanted \in SUBSET (Modes \cup {"aneg"}) /\ adv = wanted
    BY PropertiesAssumption DEF LinkInit
  <2>3. link \in Links
    BY DownFacts DEF LinkInit
  <2> QED BY <2>1, <2>2, <2>3 DEF LinkInit, LinkTypeOK, Links
<1> QED BY <1>1, NextLinkType, PTL DEF LinkSpec

-----------------------------------------------------------------------------
(***************************************************************************)
(* What the driver believes, and what it tells.                            *)
(***************************************************************************)

\* A link with a speed is the one told last, and the last one told that had a
\* speed is the one on the console.
ToldInv ==
    /\ link.up /\ link.speed # 0 => told = <<link.speed, link.duplex>>
    /\ told[1] # 0 => notice = told

\* A report tells GLD what the driver has.
LEMMA ReportKeepsTold == ToldInv /\ Reported => ToldInv'
<1> SUFFICES ASSUME ToldInv, NEW l \in Links, ReportLink(l), l.up \/ l = Down
             PROVE  ToldInv'
  BY DEF Reported
<1> DEFINE now == <<l.speed, l.duplex>>
<1>1. link' = l /\ told' = now /\ (now[1] # 0 => l.up)
  BY DownFacts DEF ReportLink
<1>2. CASE now[1] # 0 /\ now # told
  BY <1>1, <1>2 DEF ReportLink, ToldInv
<1>3. CASE now[1] # 0 /\ now = told
  BY <1>1, <1>3 DEF ReportLink, ToldInv
<1>4. CASE now[1] = 0
  BY <1>1, <1>4 DEF ToldInv
<1> QED BY <1>2, <1>3, <1>4

\* The steps that touch neither the link nor what is told, and those that
\* take the link down.
LEMMA LinkSteps ==
    ASSUME [LinkNext]_linkVars
    PROVE  \/ CheckLink /\ running' = running
           \/ UNCHANGED <<link, told, notice>> /\ (running => running')
           \/ link' = Down /\ UNCHANGED <<told, notice>>
<1>1. CASE LinkCheck \/ ReclaimCheck
  BY <1>1 DEF LinkCheck, ReclaimCheck
<1>2. CASE Stop \/ IntrReset \/ Suspend
  BY <1>2 DEF Stop, IntrReset, Suspend
<1>3. CASE IntrEnter \/ Start \/ PowerOff \/ Resume
  BY <1>3 DEF IntrEnter, Start, PowerOff, Resume
<1>4. CASE NddSet
  BY <1>4 DEF NddSet
<1>5. CASE PhyStep \/ UNCHANGED linkVars
  BY <1>5 DEF PhyStep, linkVars, driverVars
<1> QED BY <1>1, <1>2, <1>3, <1>4, <1>5 DEF LinkNext

\* The card is found by attach and stays.
LEMMA CardStays == [LinkNext]_linkVars => card' = card
<1> USE DEF Program, StartNway, AfePhyInit, MxfePhyInitNway, MxfePhyInitMii
<1> SUFFICES ASSUME [LinkNext]_linkVars PROVE card' = card
  OBVIOUS
<1>1. \A a, kept : DriverPhyInit(a, kept) \/ AfePhyInit(a, kept) => card' = card
  BY DEF DriverPhyInit
<1>2. CheckLink => card' = card
  BY DEF CheckLink, AfeCheckLink, MxfeCheckLinkNway, MxfeCheckLinkMii, phyVars
<1>3. CASE LinkCheck \/ ReclaimCheck \/ Start \/ IntrReset \/ Resume
  BY <1>1, <1>2, <1>3 DEF LinkCheck, ReclaimCheck, Start, IntrReset, Resume
<1>4. CASE NddSet
  BY <1>1, <1>4 DEF NddSet, phyVars
<1>5. CASE IntrEnter \/ Stop \/ Suspend \/ PowerOff \/ PhyStep \/ UNCHANGED linkVars
  BY <1>5 DEF IntrEnter, Stop, Suspend, PowerOff, PhyStep, PhyUp, PhyDown, linkVars, phyVars
<1> QED BY <1>3, <1>4, <1>5 DEF LinkNext

\* No link is up on an afe that is stopped.
THEOREM StoppedIsDown == LinkSpec => []StoppedDown
<1>1. LinkInit => StoppedDown
  BY DownFacts DEF LinkInit, StoppedDown
<1>2. LinkTypeOK /\ StoppedDown /\ [LinkNext]_linkVars => StoppedDown'
  <2> SUFFICES ASSUME LinkTypeOK, StoppedDown, [LinkNext]_linkVars, Afe', ~ running'
               PROVE  ~ link'.up
    BY DEF StoppedDown
  <2>1. Afe
    BY CardStays DEF Afe
  <2>2. CASE CheckLink /\ running' = running
    <3>1. link' = link
      BY <2>1, <2>2, CheckLinkFacts
    <3> QED BY <2>1, <2>2, <3>1 DEF StoppedDown
  <2>3. CASE link' = link /\ (running => running')
    BY <2>1, <2>3 DEF StoppedDown
  <2>4. CASE link' = Down
    BY <2>4, DownFacts
  <2> QED BY <2>2, <2>3, <2>4, LinkSteps
<1> QED BY <1>1, <1>2, LinkTypeCorrect, PTL DEF LinkSpec

\* The last "Link Up" on the console has the speed and the duplex of the link
\* that is up.
THEOREM AnnouncementsTrue == LinkSpec => []LinkAnnounced
<1>1. LinkInit => ToldInv
  BY DownFacts DEF LinkInit, ToldInv
<1>2. LinkTypeOK /\ ToldInv /\ [LinkNext]_linkVars => ToldInv'
  <2> SUFFICES ASSUME LinkTypeOK, ToldInv, [LinkNext]_linkVars PROVE ToldInv'
    OBVIOUS
  <2>1. CASE CheckLink
    <3>1. UNCHANGED <<link, told, notice>> \/ Reported
      BY <2>1, CheckLinkFacts
    <3> QED BY <3>1, ReportKeepsTold DEF ToldInv
  <2>2. CASE UNCHANGED <<link, told, notice>>
    BY <2>2 DEF ToldInv
  <2>3. CASE link' = Down /\ UNCHANGED <<told, notice>>
    BY <2>3, DownFacts DEF ToldInv
  <2> QED BY <2>1, <2>2, <2>3, LinkSteps
<1>3. LinkTypeOK /\ ToldInv => LinkAnnounced
  BY DEF ToldInv, LinkAnnounced, LinkTypeOK
<1> QED BY <1>1, <1>2, <1>3, LinkTypeCorrect, PTL DEF LinkSpec

-----------------------------------------------------------------------------
(***************************************************************************)
(* The order in which a mode is chosen.                                    *)
(***************************************************************************)

\* What First finds comes before every other mode of the set.
LEMMA FirstLeast ==
    ASSUME NEW order \in Orders, NEW S
    PROVE  \/ First(order, S) = "none" /\ \A i \in DOMAIN order : order[i] \notin S
           \/ \E i \in DOMAIN order :
                /\ order[i] \in S /\ First(order, S) = order[i]
                /\ \A j \in DOMAIN order : order[j] \in S => i <= j
<1> DEFINE I == {i \in DOMAIN order : order[i] \in S}
<1>1. CASE I = {}
  BY <1>1 DEF First
<1>2. CASE I # {}
  <2>1. I \subseteq 1 .. 5
    BY DEF Orders, FallbackOrder, ForceOrder, MiiOrder, Priority
  <2>2. \E i \in I : \A j \in I : i <= j
    <3> HIDE DEF I
    <3>1. PICK k \in I : TRUE
      BY <1>2
    <3>2. \A i \in I : i \in {1, 2, 3, 4, 5}
      BY <2>1
    <3> QED BY <3>1, <3>2
  <2>3. First(order, S) = order[CHOOSE i \in I : \A j \in I : i <= j]
    BY <1>2 DEF First
  <2> DEFINE k == CHOOSE i \in I : \A j \in I : i <= j
  <2>4. k \in I /\ \A j \in I : k <= j
    BY <2>2
  <2> QED BY <2>3, <2>4
<1> QED BY <1>1, <1>2

\* The order in which modes are forced, and in which they are negotiated.
LEMMA FirstForce ==
    ASSUME NEW S
    PROVE  First(ForceOrder, S) =
             CASE "100fdx" \in S -> "100fdx"
               [] "100fdx" \notin S /\ "100hdx" \in S -> "100hdx"
               [] "100fdx" \notin S /\ "100hdx" \notin S /\ "10fdx" \in S -> "10fdx"
               [] "100fdx" \notin S /\ "100hdx" \notin S /\ "10fdx" \notin S /\ "10hdx" \in S -> "10hdx"
               [] OTHER -> "none"
<1>1. ForceOrder \in Orders
  BY DEF Orders
<1>2. /\ DOMAIN ForceOrder = {1, 2, 3, 4} /\ ForceOrder[1] = "100fdx"
      /\ ForceOrder[2] = "100hdx" /\ ForceOrder[3] = "10fdx" /\ ForceOrder[4] = "10hdx"
  BY DEF ForceOrder
<1>3. \/ First(ForceOrder, S) = "none" /\ \A i \in DOMAIN ForceOrder : ForceOrder[i] \notin S
      \/ \E i \in DOMAIN ForceOrder :
           /\ ForceOrder[i] \in S /\ First(ForceOrder, S) = ForceOrder[i]
           /\ \A j \in DOMAIN ForceOrder : ForceOrder[j] \in S => i <= j
  BY <1>1, FirstLeast
<1> QED BY <1>2, <1>3

\* The order of negotiation, and the one checklink reads, agree when
\* 100BaseT4 is not in question; so does the order of forced modes.
LEMMA FirstAgree ==
    ASSUME NEW S, S \cap Modes \subseteq Modes \ {"100T4"}
    PROVE  First(Priority, S) = First(ForceOrder, S)
           /\ First(MiiOrder, S) = First(ForceOrder, S)
<1>0. "100T4" \notin S
  BY DEF Modes
<1>1. Priority \in Orders /\ MiiOrder \in Orders
  BY DEF Orders
<1>2. /\ DOMAIN Priority = {1, 2, 3, 4, 5} /\ Priority[1] = "100fdx" /\ Priority[2] = "100T4"
      /\ Priority[3] = "100hdx" /\ Priority[4] = "10fdx" /\ Priority[5] = "10hdx"
  BY DEF Priority
<1>3. /\ DOMAIN MiiOrder = {1, 2, 3, 4, 5} /\ MiiOrder[1] = "100T4" /\ MiiOrder[2] = "100fdx"
      /\ MiiOrder[3] = "100hdx" /\ MiiOrder[4] = "10fdx" /\ MiiOrder[5] = "10hdx"
  BY DEF MiiOrder
<1>4. \/ First(Priority, S) = "none" /\ \A i \in DOMAIN Priority : Priority[i] \notin S
      \/ \E i \in DOMAIN Priority :
           /\ Priority[i] \in S /\ First(Priority, S) = Priority[i]
           /\ \A j \in DOMAIN Priority : Priority[j] \in S => i <= j
  BY <1>1, FirstLeast
<1>5. \/ First(MiiOrder, S) = "none" /\ \A i \in DOMAIN MiiOrder : MiiOrder[i] \notin S
      \/ \E i \in DOMAIN MiiOrder :
           /\ MiiOrder[i] \in S /\ First(MiiOrder, S) = MiiOrder[i]
           /\ \A j \in DOMAIN MiiOrder : MiiOrder[j] \in S => i <= j
  BY <1>1, FirstLeast
<1>6. First(Priority, S) = First(ForceOrder, S)
  BY <1>0, <1>2, <1>4, FirstForce
<1>7. First(MiiOrder, S) = First(ForceOrder, S)
  BY <1>0, <1>3, <1>5, FirstForce
<1> QED BY <1>6, <1>7

\* The bits of a forced mode select that mode.
LEMMA ForcedBitsFacts ==
    ASSUME NEW S, First(ForceOrder, S) # "none"
    PROVE  ForcedMode(ForcedBits(S)) = First(ForceOrder, S) /\ "aneg" \notin ForcedBits(S)
<1> DEFINE m == First(ForceOrder, S)
<1>1. m \in {"100fdx", "100hdx", "10fdx", "10hdx"}
  BY FirstForce
<1>2. ForcedBits(S) = {b \in {"speed", "duplex"} : IF b = "speed" THEN Speed(m) = 100 ELSE Full(m)}
  BY DEF ForcedBits
<1>3. /\ "speed" \in ForcedBits(S) <=> Speed(m) = 100
      /\ "duplex" \in ForcedBits(S) <=> Full(m)
      /\ "aneg" \notin ForcedBits(S)
  BY <1>2
<1> HIDE DEF m
<1>4. \A x \in Modes \ {"100T4"} :
        ((Speed(x) = 100 <=> Speed(m) = 100) /\ (Full(x) <=> Full(m))) <=> x = m
  BY <1>1 DEF Speed, Full, Modes
<1>5. m \in Modes \ {"100T4"}
  BY <1>1 DEF Modes
<1>6. ForcedMode(ForcedBits(S)) = CHOOSE x \in Modes \ {"100T4"} : x = m
  BY <1>3, <1>4 DEF ForcedMode
<1> QED BY <1>3, <1>5, <1>6 DEF m

\* phyinit keeps what the hardware can do of what is selected, and adds one
\* mode at most.
LEMMA SelectedKeeps ==
    ASSUME NEW a \in SUBSET AllModes, NEW hw \in SUBSET AllModes, hw \cap Modes # {}
    PROVE  /\ Selected(a, hw) \subseteq hw /\ Selected(a, hw) \cap Modes # {}
           /\ a \cap hw \subseteq Selected(a, hw)
           /\ \A w : (\E m \in Modes : a \subseteq w \cup {m})
                       => \E m \in Modes : Selected(a, hw) \subseteq w \cup {m}
<1> DEFINE fb == First(FallbackOrder, hw)
<1>1. fb \in Modes \cap hw
  <2>1. FallbackOrder \in Orders /\ \A m \in Modes : \E i \in DOMAIN FallbackOrder : FallbackOrder[i] = m
    BY DEF Orders, FallbackOrder, Modes
  <2> QED BY <2>1, FirstFacts
<1>2. CASE a \cap hw \cap Modes # {}
  <2>1. Selected(a, hw) = a \cap hw
    BY <1>2 DEF Selected
  <2> QED BY <1>2, <2>1
<1>3. CASE a \cap hw \cap Modes = {}
  <2>1. Selected(a, hw) = (a \cap hw) \cup {fb}
    BY <1>3 DEF Selected
  <2>2. a \cap hw \subseteq {"aneg"} /\ "aneg" \notin Modes
    BY <1>3 DEF AllModes, Modes
  <2>3. ASSUME NEW w, NEW m \in Modes, a \subseteq w \cup {m}
        PROVE  Selected(a, hw) \subseteq w \cup {fb}
    BY <2>1, <2>2, <2>3
  <2> QED BY <1>1, <2>1, <2>3
<1> QED BY <1>2, <1>3

-----------------------------------------------------------------------------
(***************************************************************************)
(* The transceiver is programmed with what is selected.                    *)
(***************************************************************************)

\* The transceiver of the card answers where the driver looks for it.
Answers == card.model = "98713A" => card.addr = 0

\* The port of a card that does not probe its ports.
Port == Afe /\ card.fiber = "fiber"

\* The modes a transceiver offers when they are programmed.
Offer == IF Nway /\ "aneg" \in adv
         THEN (adv \cap {"100fdx", "100hdx", "10hdx"}) \cup {"10fdx"}
         ELSE adv \cap Modes

\* What phyinit leaves in the transceiver.
Registers ==
    /\ adv \subseteq Able(onfiber) /\ adv \cap Modes # {}
    /\ bmcr = IF onfiber THEN {"speed", "duplex"} ELSE Control(adv)
    /\ anar = Offer
    /\ onfiber => Afe
    /\ card.fiber # "auto" => onfiber = Port

\* The states in which the driver relies on them. (ndd changes adv and leaves
\* a suspended afe for resume to program.)
InForce == IF Afe THEN running /\ ~ suspended
           ELSE (running \/ check) /\ power # "off"

RegInv == Answers /\ InForce => Registers

\* A card without power is suspended, and no handler is about to use it.
PowInv == /\ power # "on" => suspended
          /\ power = "off" => ~ check

\* The modes that are advertised and those that were selected.
WantInv == /\ \E m \in Modes : adv \subseteq wanted \cup {m}
           /\ card.fiber # "auto" => wanted \cap Able(Port) \subseteq adv

\* The abilities of a card.
LEMMA AbleFacts ==
    ASSUME LinkTypeOK
    PROVE  /\ \A f \in BOOLEAN : Able(f) \in SUBSET AllModes /\ Able(f) \cap Modes # {}
           /\ Nway => Able(FALSE) = (Modes \ {"100T4"}) \cup {"aneg"}
<1>1. \A f \in BOOLEAN : Able(f) \in SUBSET AllModes /\ Able(f) \cap Modes # {}
  BY CardAssumption DEF Able, AllModes, LinkTypeOK, Modes
<1>2. Nway => Able(FALSE) = (Modes \ {"100T4"}) \cup {"aneg"}
  BY NwayAssumption DEF Able, Nway, LinkTypeOK
<1> QED BY <1>1, <1>2

\* The models of cards.
LEMMA ModelFacts == LinkTypeOK /\ ~ Afe /\ ~ Nway => card.model = "98713A"
BY CardAssumption DEF LinkTypeOK, Models, Afe, Nway

\* Both drivers' phyinit.
LEMMA DriverCases ==
    \A a, kept : /\ Afe => (DriverPhyInit(a, kept) <=> AfePhyInit(a, kept))
                 /\ Nway => (DriverPhyInit(a, kept) <=> MxfePhyInitNway(a, kept))
                 /\ ~ Afe /\ ~ Nway => (DriverPhyInit(a, kept) <=> MxfePhyInitMii(a, kept))
<1>1. ~ (Afe /\ Nway)
  BY DEF Afe, Nway
<1> QED BY <1>1 DEF DriverPhyInit

\* phyinit cuts the selection to what the hardware can do.
LEMMA PhyInitSelects ==
    ASSUME LinkTypeOK, NEW a \in SUBSET AllModes, NEW kept \in SUBSET Events,
           DriverPhyInit(a, kept)
    PROVE  \E hw \in SUBSET AllModes :
             /\ hw \cap Modes # {} /\ adv' = Selected(a, hw)
             /\ card.fiber # "auto" => Able(Port) \subseteq hw
<1>1. CASE Afe
  <2>1. PICK f \in FiberChoice : adv' = Selected(a, Able(f))
    <3>1. AfePhyInit(a, kept)
      BY <1>1, DriverCases
    <3> QED BY <3>1 DEF AfePhyInit
  <2>2. f \in BOOLEAN /\ (card.fiber # "auto" => f = Port)
    BY <1>1 DEF FiberChoice, Port
  <2> QED BY <2>1, <2>2, AbleFacts
<1>2. CASE ~ Afe /\ Nway
  <2>1. adv' = Selected(a, (Modes \ {"100T4"}) \cup {"aneg"})
    BY <1>2 DEF DriverPhyInit, MxfePhyInitNway
  <2>2. Port = FALSE
    BY <1>2 DEF Port
  <2> QED BY <1>2, <2>1, <2>2, AbleFacts
<1>3. CASE ~ Afe /\ ~ Nway
  <2>1. adv' = Selected(a, card.able) \/ adv' = Selected(a, AllModes)
    BY <1>3 DEF DriverPhyInit, MxfePhyInitMii, AllModes
  <2>2. Port = FALSE /\ Able(FALSE) = card.able
    BY <1>3 DEF Port, Able
  <2>3. AllModes \cap Modes # {}
    BY DEF AllModes, Modes
  <2> QED BY <2>1, <2>2, <2>3, AbleFacts
<1> QED BY <1>1, <1>2, <1>3

\* phyinit drops the link, and what it writes is what is selected.
LEMMA PhyInitWrites ==
    ASSUME LinkTypeOK, NEW a \in SUBSET AllModes, NEW kept \in SUBSET Events,
           DriverPhyInit(a, kept), Answers
    PROVE  Registers' /\ pmode' = "none"
<1>1. CASE Afe
  <2>1. PICK f \in FiberChoice :
          /\ adv' = Selected(a, Able(f))
          /\ Program(IF f THEN {"speed", "duplex"} ELSE Control(adv'), adv' \cap Modes, f, kept)
    <3>1. AfePhyInit(a, kept)
      BY <1>1, DriverCases
    <3> QED BY <3>1 DEF AfePhyInit
  <2>2. f \in BOOLEAN /\ (card.fiber # "auto" => f = Port)
    BY <1>1 DEF FiberChoice, Port
  <2>3. adv' \subseteq Able(f) /\ adv' \cap Modes # {}
    BY <2>1, <2>2, AbleFacts, SelectedKeeps
  <2>4. /\ bmcr' = IF f THEN {"speed", "duplex"} ELSE Control(adv')
        /\ anar' = adv' \cap Modes /\ onfiber' = f /\ pmode' = "none" /\ card' = card
    BY <2>1 DEF Program
  <2>5. Afe' /\ ~ Nway' /\ Port' = Port
    BY <1>1, <2>4 DEF Afe, Nway, Port
  <2>6. Able(f)' = Able(f) /\ Offer' = adv' \cap Modes
    BY <2>4, <2>5 DEF Able, Offer
  <2> QED BY <2>2, <2>3, <2>4, <2>5, <2>6 DEF Registers, Able
<1>2. CASE ~ Afe /\ Nway
  <2> DEFINE hw == (Modes \ {"100T4"}) \cup {"aneg"}
  <2>1. adv' = Selected(a, hw)
    BY <1>2 DEF DriverPhyInit, MxfePhyInitNway
  <2>2. hw \in SUBSET AllModes /\ hw \cap Modes # {}
    BY DEF AllModes, Modes
  <2> HIDE DEF hw
  <2>3. adv' \subseteq hw /\ adv' \cap Modes # {}
    BY <2>1, <2>2, SelectedKeeps
  <2>4. /\ bmcr' = Control(adv') /\ onfiber' = FALSE /\ pmode' = "none" /\ card' = card
        /\ anar' = IF "aneg" \in adv' THEN (adv' \cap {"100fdx", "100hdx", "10hdx"}) \cup {"10fdx"}
                   ELSE adv' \cap Modes
    <3>1. CASE "aneg" \in adv'
      BY <1>2, <3>1 DEF DriverPhyInit, MxfePhyInitNway, StartNway, Program, Control
    <3>2. CASE "aneg" \notin adv'
      BY <1>2, <3>2 DEF DriverPhyInit, MxfePhyInitNway, Program, Control
    <3> QED BY <3>1, <3>2
  <2>5. ~ Afe' /\ Nway' /\ Port' = FALSE /\ Port = FALSE
    BY <1>2, <2>4 DEF Afe, Nway, Port
  <2>6. Able(FALSE)' = hw
    BY <1>2, <2>4, AbleFacts DEF Able, hw
  <2>7. adv' \subseteq Able(onfiber)'
    BY <2>3, <2>4, <2>6 DEF Able
  <2> QED BY <2>3, <2>4, <2>5, <2>7 DEF Registers, Offer
<1>3. CASE ~ Afe /\ ~ Nway
  <2>1. card.addr = 0
    BY <1>3, ModelFacts DEF Answers
  <2>2. adv' = Selected(a, card.able) /\ Program(Control(adv'), adv' \cap Modes, FALSE, kept)
    BY <1>3, <2>1 DEF DriverPhyInit, MxfePhyInitMii
  <2>3. card.able = Able(FALSE)
    BY DEF Able
  <2>4. adv' \subseteq Able(FALSE) /\ adv' \cap Modes # {}
    BY <2>2, <2>3, AbleFacts, SelectedKeeps
  <2>5. /\ bmcr' = Control(adv') /\ onfiber' = FALSE /\ pmode' = "none" /\ card' = card
        /\ anar' = adv' \cap Modes
    BY <2>2 DEF Program
  <2>6. ~ Afe' /\ ~ Nway' /\ Port' = FALSE /\ Port = FALSE
    BY <1>3, <2>5 DEF Afe, Nway, Port
  <2>7. adv' \subseteq Able(onfiber)'
    BY <2>4, <2>5 DEF Able
  <2> QED BY <2>4, <2>5, <2>6, <2>7 DEF Registers, Offer
<1> QED BY <1>1, <1>2, <1>3

\* The registers stay true while nothing writes them.
LEMMA RegistersStay ==
    Registers /\ UNCHANGED <<card, adv, bmcr, anar, onfiber>> => Registers'
BY DEF Registers, Able, Offer, Afe, Nway, Port

\* What the driver reads of a link that is up.
Seen == CASE Nway -> NwayLink
          [] Afe /\ card.model # "maconly" -> Up(pmode)
          [] OTHER -> MiiLink

\* The cases of both checklink functions.
LEMMA CheckLinkCases ==
    ASSUME LinkTypeOK, CheckLink
    PROVE  \/ /\ Afe /\ running /\ pmode = "none" /\ ReportLink(Down)
              /\ AfePhyInit(adv, pend)
           \/ /\ Nway /\ pmode = "none" /\ ReportLink(Down)
              /\ StartNway(adv, pend) /\ adv' = adv
           \/ /\ ~ Nway /\ pmode = "none" /\ ReportLink(Down)
              /\ UNCHANGED <<phyVars, adv>>
           \/ /\ pmode # "none" /\ (Afe => running) /\ ReportLink(Seen)
              /\ UNCHANGED <<phyVars, adv>>
           \/ Afe /\ ~ running /\ UNCHANGED <<phyVars, adv, link>>
<1>0. ~ (Afe /\ Nway)
  BY DEF Afe, Nway
<1>1. CASE Afe
  BY <1>0, <1>1 DEF CheckLink, AfeCheckLink, Seen
<1>2. CASE Nway
  <2>1. CASE pmode = "none"
    BY <1>0, <1>2, <2>1 DEF CheckLink, MxfeCheckLinkNway
  <2>2. CASE pmode # "none"
    BY <1>0, <1>2, <2>2 DEF CheckLink, MxfeCheckLinkNway, Seen
  <2> QED BY <2>1, <2>2
<1>3. CASE ~ Afe /\ ~ Nway
  BY <1>3 DEF CheckLink, MxfeCheckLinkMii, Seen
<1> QED BY <1>1, <1>2, <1>3

\* The registers across a check of the link.
LEMMA CheckLinkRegisters ==
    ASSUME LinkTypeOK, CheckLink, Answers, Registers
    PROVE  Registers'
<1>0. adv \in SUBSET AllModes /\ pend \in SUBSET Events
  BY DEF LinkTypeOK, AllModes, Events
<1>1. CASE UNCHANGED <<phyVars, adv>>
  BY <1>1, RegistersStay DEF phyVars
<1>2. CASE Afe /\ AfePhyInit(adv, pend)
  BY <1>0, <1>2, DriverCases, PhyInitWrites
<1>3. CASE Nway /\ StartNway(adv, pend) /\ adv' = adv
  <2>0. ~ Afe
    BY <1>3 DEF Afe, Nway
  <2>1. CASE "aneg" \in adv
    <3>1. /\ bmcr' = {"aneg"} /\ onfiber' = FALSE /\ card' = card
          /\ anar' = (adv \cap {"100fdx", "100hdx", "10hdx"}) \cup {"10fdx"}
      BY <1>3, <2>1 DEF StartNway, Program
    <3>2. onfiber = FALSE
      BY <2>0 DEF Registers, LinkTypeOK
    <3>3. bmcr' = Control(adv') /\ anar' = Offer'
      BY <1>3, <2>1, <3>1 DEF Control, Offer, Nway
    <3>4. adv' \subseteq Able(onfiber)' /\ adv' \cap Modes # {}
      BY <1>3, <3>1, <3>2 DEF Registers, Able
    <3>5. ~ Afe' /\ Port' = FALSE
      BY <2>0, <3>1 DEF Afe, Port
    <3> QED BY <3>1, <3>3, <3>4, <3>5 DEF Registers
  <2>2. CASE "aneg" \notin adv
    BY <1>3, <2>2, RegistersStay DEF StartNway
  <2> QED BY <2>1, <2>2
<1> QED BY <1>1, <1>2, <1>3, CheckLinkCases

\* What ndd does to the parameter n.
Put(n, on, s) == IF on THEN s \cup {n} ELSE s \ {n}

\* The steps of ndd.
LEMMA NddSteps ==
    ASSUME LinkTypeOK, NddSet
    PROVE  /\ Afe
           /\ UNCHANGED <<running, suspended, power, link, told, notice, check, overtaken>>
           /\ \E n \in AllModes, on \in BOOLEAN :
                /\ wanted' = Put(n, on, wanted)
                /\ Put(n, on, adv) \in SUBSET AllModes
                /\ \/ suspended /\ adv' = Put(n, on, adv) /\ UNCHANGED <<phyVars, linkstate>>
                   \/ ~ suspended /\ AfePhyInit(Put(n, on, adv), pend)
<1>1. PICK n \in Tunables, on \in BOOLEAN :
        /\ wanted' = Put(n, on, wanted)
        /\ IF suspended
           THEN adv' = Put(n, on, adv) /\ UNCHANGED <<phyVars, linkstate>>
           ELSE AfePhyInit(Put(n, on, adv), pend)
  BY DEF NddSet, Put
<1>2. n \in AllModes
  BY TunablesAssumption DEF AllModes
<1>3. Put(n, on, adv) \in SUBSET AllModes
  BY <1>2 DEF Put, LinkTypeOK, AllModes
<1>4. UNCHANGED <<running, suspended, power, link, told, notice, check, overtaken>> /\ Afe
  BY DEF NddSet
<1> QED BY <1>1, <1>2, <1>3, <1>4

\* Without power nobody relies on the transceiver.
LEMMA PowNext == LinkTypeOK /\ PowInv /\ [LinkNext]_linkVars => PowInv'
<1> SUFFICES ASSUME LinkTypeOK, PowInv, [LinkNext]_linkVars PROVE PowInv'
  OBVIOUS
<1> USE DEF PowInv
<1>a. suspended \in BOOLEAN /\ check \in BOOLEAN /\ power \in {"on", "asleep", "off"}
  BY DEF LinkTypeOK
<1>1. CASE IntrEnter
  BY <1>1 DEF IntrEnter
<1>2. CASE LinkCheck \/ ReclaimCheck
  BY <1>2 DEF LinkCheck, ReclaimCheck
<1>3. CASE Start \/ Stop \/ IntrReset
  BY <1>3 DEF Start, Stop, IntrReset
<1>4. CASE Suspend \/ PowerOff
  <2>1. Suspend => suspended' = TRUE /\ power' = "asleep"
    BY DEF Suspend
  <2>2. PowerOff => power = "asleep" /\ ~ check /\ UNCHANGED <<suspended, check>>
    BY DEF PowerOff
  <2> QED BY <1>4, <1>a, <2>1, <2>2
<1>5. CASE Resume
  BY <1>5 DEF Resume
<1>6. CASE NddSet
  BY <1>6, NddSteps
<1>7. CASE PhyStep \/ UNCHANGED linkVars
  BY <1>7 DEF PhyStep, linkVars, driverVars
<1> QED BY <1>1, <1>2, <1>3, <1>4, <1>5, <1>6, <1>7 DEF LinkNext

\* Every step keeps the transceiver as the driver wants it.
LEMMA RegNext == LinkTypeOK /\ PowInv /\ RegInv /\ [LinkNext]_linkVars => RegInv'
<1> SUFFICES ASSUME LinkTypeOK, PowInv, RegInv, [LinkNext]_linkVars, Answers', InForce'
             PROVE  Registers'
  BY DEF RegInv
<1>a. card' = card /\ (Afe' <=> Afe) /\ Answers
  BY CardStays DEF Afe, Answers
<1>b. InForce /\ UNCHANGED <<card, adv, bmcr, anar, onfiber>> => Registers'
  BY <1>a, RegistersStay DEF RegInv
<1>c. \A a \in SUBSET AllModes, kept \in SUBSET Events : DriverPhyInit(a, kept) => Registers'
  BY <1>a, PhyInitWrites
<1>d. adv \in SUBSET AllModes /\ pend \in SUBSET Events /\ {} \in SUBSET Events
      /\ {running, suspended, check} \subseteq BOOLEAN
  BY DEF LinkTypeOK, AllModes, Events
<1>1. CASE IntrEnter
  BY <1>1, <1>a, <1>b, <1>d DEF IntrEnter, InForce
<1>2. CASE LinkCheck \/ ReclaimCheck
  <2>1. CheckLink /\ UNCHANGED <<running, suspended, power>> /\ (check' => check)
    BY <1>2 DEF LinkCheck, ReclaimCheck
  <2>2. InForce
    BY <1>a, <1>d, <2>1 DEF InForce
  <2> QED BY <1>a, <2>1, <2>2, CheckLinkRegisters DEF RegInv
<1>3. CASE Start \/ IntrReset
  BY <1>3, <1>c, <1>d DEF Start, IntrReset
<1>4. CASE Stop
  BY <1>4, <1>a, <1>b, <1>d DEF Stop, InForce
<1>5. CASE Suspend
  BY <1>5, <1>a, <1>b, <1>d DEF Suspend, InForce
<1>6. CASE PowerOff
  BY <1>6, <1>a, <1>d DEF PowerOff, InForce, PowInv
<1>7. CASE Resume
  <2>1. CASE running
    BY <1>7, <1>c, <1>d, <2>1 DEF Resume
  <2>2. CASE ~ running
    BY <1>7, <1>a, <1>b, <1>d, <2>2 DEF Resume, InForce, PowInv
  <2> QED BY <2>1, <2>2
<1>8. CASE NddSet
  <2>1. Afe /\ ~ suspended /\ InForce
    BY <1>8, <1>a, NddSteps DEF InForce
  <2>2. PICK b \in SUBSET AllModes : AfePhyInit(b, pend)
    BY <1>8, <2>1, NddSteps
  <2> QED BY <1>c, <1>d, <2>1, <2>2, DriverCases
<1>9. CASE PhyStep \/ UNCHANGED linkVars
  <2>1. UNCHANGED <<driverVars, card, bmcr, anar, onfiber>>
    BY <1>9 DEF PhyStep, PhyUp, PhyDown, linkVars, phyVars
  <2>2. InForce
    BY <1>a, <2>1 DEF InForce, driverVars
  <2> QED BY <1>b, <2>1, <2>2 DEF driverVars
<1> QED BY <1>1, <1>2, <1>3, <1>4, <1>5, <1>6, <1>7, <1>8, <1>9 DEF LinkNext

\* phyinit keeps to what is wanted.
LEMMA PhyInitWant ==
    ASSUME LinkTypeOK, NEW a \in SUBSET AllModes, NEW kept \in SUBSET Events,
           DriverPhyInit(a, kept), NEW w \in SUBSET AllModes,
           \E m \in Modes : a \subseteq w \cup {m},
           card.fiber # "auto" => w \cap Able(Port) \subseteq a
    PROVE  /\ \E m \in Modes : adv' \subseteq w \cup {m}
           /\ card.fiber # "auto" => w \cap Able(Port) \subseteq adv'
<1>1. PICK hw \in SUBSET AllModes :
        /\ hw \cap Modes # {} /\ adv' = Selected(a, hw)
        /\ card.fiber # "auto" => Able(Port) \subseteq hw
  BY PhyInitSelects
<1>2. /\ a \cap hw \subseteq adv'
      /\ (\E m \in Modes : a \subseteq w \cup {m}) => \E m \in Modes : adv' \subseteq w \cup {m}
  BY <1>1, SelectedKeeps
<1> QED BY <1>1, <1>2

\* Every step keeps to what is wanted.
LEMMA WantNext == LinkTypeOK /\ WantInv /\ [LinkNext]_linkVars => WantInv'
<1> SUFFICES ASSUME LinkTypeOK, WantInv, [LinkNext]_linkVars PROVE WantInv'
  OBVIOUS
<1>a. card' = card /\ Able(Port)' = Able(Port)
  BY CardStays DEF Able, Port, Afe
<1>b. adv \in SUBSET AllModes /\ wanted \in SUBSET AllModes /\ pend \in SUBSET Events
      /\ {} \in SUBSET Events
  BY DEF LinkTypeOK, AllModes, Events
<1>c. UNCHANGED <<adv, wanted>> => WantInv'
  BY <1>a DEF WantInv
<1>d. ASSUME NEW kept \in SUBSET Events, DriverPhyInit(adv, kept), wanted' = wanted
      PROVE  WantInv'
  <2>1. /\ \E m \in Modes : adv' \subseteq wanted \cup {m}
        /\ card.fiber # "auto" => wanted \cap Able(Port) \subseteq adv'
    BY <1>b, <1>d, PhyInitWant DEF WantInv
  <2> QED BY <1>a, <1>d, <2>1 DEF WantInv
<1>1. CASE LinkCheck \/ ReclaimCheck
  <2>1. CheckLink /\ wanted' = wanted
    BY <1>1 DEF LinkCheck, ReclaimCheck
  <2>2. adv' = adv \/ (Afe /\ AfePhyInit(adv, pend))
    BY <2>1, CheckLinkCases
  <2> QED BY <1>b, <1>c, <1>d, <2>1, <2>2, DriverCases
<1>2. CASE Start \/ IntrReset
  BY <1>2, <1>b, <1>d DEF Start, IntrReset
<1>3. CASE Resume
  BY <1>3, <1>b, <1>c, <1>d DEF Resume
<1>4. CASE NddSet
  <2>1. PICK n \in AllModes, on \in BOOLEAN :
          /\ wanted' = Put(n, on, wanted)
          /\ Put(n, on, adv) \in SUBSET AllModes
          /\ adv' = Put(n, on, adv) \/ AfePhyInit(Put(n, on, adv), pend)
    BY <1>4, NddSteps
  <2>2. /\ \E m \in Modes : Put(n, on, adv) \subseteq wanted' \cup {m}
        /\ card.fiber # "auto" => wanted' \cap Able(Port) \subseteq Put(n, on, adv)
    BY <2>1 DEF WantInv, Put
  <2>3. CASE adv' = Put(n, on, adv)
    BY <1>a, <2>2, <2>3 DEF WantInv
  <2>4. CASE AfePhyInit(Put(n, on, adv), pend)
    <3>1. DriverPhyInit(Put(n, on, adv), pend)
      BY <1>4, <2>4, DriverCases, NddSteps
    <3>2. wanted' \in SUBSET AllModes
      BY <1>b, <2>1 DEF Put
    <3>3. /\ \E m \in Modes : adv' \subseteq wanted' \cup {m}
          /\ card.fiber # "auto" => wanted' \cap Able(Port) \subseteq adv'
      BY <1>b, <2>1, <2>2, <3>1, <3>2, PhyInitWant
    <3> QED BY <1>a, <3>3 DEF WantInv
  <2> QED BY <2>1, <2>3, <2>4
<1>5. CASE IntrEnter \/ Stop \/ Suspend \/ PowerOff
  BY <1>5, <1>c DEF IntrEnter, Stop, Suspend, PowerOff
<1>6. CASE PhyStep \/ UNCHANGED linkVars
  BY <1>6, <1>c DEF PhyStep, linkVars, driverVars
<1> QED BY <1>1, <1>2, <1>3, <1>4, <1>5, <1>6 DEF LinkNext

\* The control register, by what is selected.
LEMMA RegistersChoose ==
    ASSUME LinkTypeOK, Registers
    PROVE  /\ onfiber => ForcedMode(bmcr) = "100fdx"
           /\ ~ onfiber /\ "aneg" \in adv => bmcr = {"aneg"}
           /\ ~ onfiber /\ "aneg" \notin adv /\ adv # {"100T4"} =>
                /\ "aneg" \notin bmcr
                /\ ForcedMode(bmcr) = First(Priority, adv \ {"100T4"})
<1>1. CASE onfiber
  <2>1. ForcedMode({"speed", "duplex"}) = "100fdx"
    <3>1. \A m \in Modes \ {"100T4"} :
            ((Speed(m) = 100 <=> "speed" \in {"speed", "duplex"})
              /\ (Full(m) <=> "duplex" \in {"speed", "duplex"})) <=> m = "100fdx"
      BY DEF Modes, Speed, Full
    <3>2. "100fdx" \in Modes \ {"100T4"}
      BY DEF Modes
    <3>3. ForcedMode({"speed", "duplex"}) = CHOOSE m \in Modes \ {"100T4"} : m = "100fdx"
      BY <3>1 DEF ForcedMode
    <3> QED BY <3>2, <3>3
  <2>2. bmcr = {"speed", "duplex"}
    BY <1>1 DEF Registers
  <2> QED BY <1>1, <2>1, <2>2
<1>2. CASE ~ onfiber /\ "aneg" \in adv
  BY <1>2 DEF Registers, Control
<1>3. CASE ~ onfiber /\ "aneg" \notin adv /\ adv # {"100T4"}
  <2>1. bmcr = ForcedBits(adv)
    BY <1>3 DEF Registers, Control
  <2>2. adv \in SUBSET AllModes /\ adv \cap Modes # {}
    BY DEF Registers, LinkTypeOK, AllModes
  <2>3. First(ForceOrder, adv) # "none"
    BY <1>3, <2>2, FirstForce DEF AllModes, Modes
  <2>4. First(ForceOrder, adv) = First(ForceOrder, adv \ {"100T4"})
    BY FirstForce
  <2>5. First(Priority, adv \ {"100T4"}) = First(ForceOrder, adv \ {"100T4"})
    BY FirstAgree
  <2> QED BY <1>3, <2>1, <2>3, <2>4, <2>5, ForcedBitsFacts
<1> QED BY <1>1, <1>2, <1>3

\* A running interface has its transceiver set to what the administrator
\* selected, as far as the hardware is able, through any sequence of ndd, start,
\* stop, reset, suspend, loss of power and resume: for every card whose
\* transceiver answers where the driver looks for it.  A 98715 that negotiates
\* offers 10 Mbps full duplex too, selected or not, against its manual page.
THEOREM AnsweringProgrammed == LinkSpec => [](Answers => Programmed)
<1>1. LinkInit => PowInv /\ RegInv /\ WantInv
  <2> SUFFICES ASSUME LinkInit PROVE PowInv /\ RegInv /\ WantInv
    OBVIOUS
  <2>1. PowInv /\ RegInv
    BY DEF LinkInit, PowInv, RegInv, InForce
  <2>2. "10hdx" \in Modes
    BY DEF Modes
  <2> QED BY <2>1, <2>2 DEF LinkInit, WantInv
<1>2. LinkTypeOK /\ PowInv /\ RegInv /\ WantInv => (Answers => Programmed)
  <2> SUFFICES ASSUME LinkTypeOK, PowInv, RegInv, WantInv, Answers, running, ~ suspended
               PROVE  Programmed
    BY DEF Programmed
  <2>1. Registers
    BY DEF InForce, PowInv, RegInv, LinkTypeOK
  <2>2. card.fiber # "auto" => wanted \cap Able(onfiber) \subseteq adv
    BY <2>1 DEF Registers, WantInv
  <2>3. Cardinality(adv \ wanted) <= 1
    <3>1. PICK m \in Modes : adv \subseteq wanted \cup {m}
      BY DEF WantInv
    <3>2. adv \ wanted = {} \/ adv \ wanted = {m}
      BY <3>1
    <3>3. Cardinality({}) = 0 /\ Cardinality({m}) = 1
      BY FS_EmptySet, FS_Singleton
    <3> QED BY <3>2, <3>3
  <2>4. anar = (adv \cap Modes) \cup Unasked
    <3>1. Nway => adv \subseteq (Modes \ {"100T4"}) \cup {"aneg"}
      <4> SUFFICES ASSUME Nway PROVE adv \subseteq (Modes \ {"100T4"}) \cup {"aneg"}
        OBVIOUS
      <4>1. ~ Afe
        BY DEF Afe, Nway
      <4>2. onfiber = FALSE
        BY <2>1, <4>1 DEF Registers, LinkTypeOK
      <4> QED BY <2>1, <4>2, AbleFacts DEF Registers
    <3> QED BY <2>1, <3>1 DEF Registers, Offer, Unasked, Modes
  <2> QED BY <2>1, <2>2, <2>3, <2>4, RegistersChoose DEF Programmed, Registers
<1> QED BY <1>1, <1>2, PowNext, RegNext, WantNext, LinkTypeCorrect, PTL DEF LinkSpec

-----------------------------------------------------------------------------
(***************************************************************************)
(* The driver knows whether the link is up.                                *)
(***************************************************************************)

\* A link that is believed up, and was not set by a check that came too late,
\* is up, or its loss has raised an event that is not lost.
LossInv ==
    link.up /\ ~ overtaken =>
      /\ running /\ power = "on"
      /\ ReportsLoss => pmode # "none" \/ "link" \in pend \/ check

\* A link that came up is believed up, or has raised the event that the driver
\* waits for.
UpInv ==
    running /\ power = "on" /\ pmode # "none" /\ Reports =>
      \/ link.up \/ check
      \/ Afe /\ "link" \in pend
      \/ Nway /\ "aneg" \in pend

\* The chips that report have a phyinit that always writes.
LEMMA ReportsFacts ==
    ASSUME LinkTypeOK
    PROVE  /\ ReportsLoss \/ Reports => Afe \/ Nway
           /\ Reports => card.model # "maconly"
           /\ Afe \/ Nway => Answers
           /\ ~ (Afe /\ Nway)
BY DEF ReportsLoss, Reports, Afe, Nway, Answers

\* phyinit drops the link of a chip that reports, and the chip reports it.
LEMMA PhyInitDrops ==
    ASSUME LinkTypeOK, NEW a \in SUBSET AllModes, NEW kept \in SUBSET Events,
           DriverPhyInit(a, kept), Afe \/ Nway
    PROVE  pmode' = "none" /\ (Afe => pend' = kept \cup DownEvents)
<1>1. pmode' = "none"
  BY ReportsFacts, PhyInitWrites
<1>2. ASSUME Afe PROVE pend' = kept \cup DownEvents
  <2>1. AfePhyInit(a, kept)
    BY <1>2, DriverCases
  <2> QED BY <2>1 DEF AfePhyInit, Program
<1> QED BY <1>1, <1>2

\* A link that is down has raised an event if its chip reports the loss.
LEMMA DownReports ==
    LinkTypeOK /\ ReportsLoss /\ pmode # "none" => "link" \in DownEvents
BY DEF ReportsLoss, DownEvents

\* A link that is read is up.
LEMMA SeenUp == LinkTypeOK => Seen.up
BY NwayLinkFacts, MiiLinkFacts, UpFacts DEF Seen

\* The steps that do not check the link leave the check to come as it is, or
\* are the handler that asks for it.
LEMMA NoCheckSteps ==
    ASSUME [LinkNext]_linkVars
    PROVE  \/ LinkCheck \/ ReclaimCheck \/ IntrEnter
           \/ check' = check /\ (link' = link \/ link' = Down)
<1>1. CASE Start \/ Stop \/ IntrReset
  BY <1>1 DEF Start, Stop, IntrReset
<1>2. CASE Suspend \/ PowerOff \/ Resume
  BY <1>2 DEF Suspend, PowerOff, Resume
<1>3. CASE NddSet
  BY <1>3 DEF NddSet
<1>4. CASE PhyStep \/ UNCHANGED linkVars
  BY <1>4 DEF PhyStep, linkVars, driverVars
<1> QED BY <1>1, <1>2, <1>3, <1>4 DEF LinkNext

\* No loss of the link is lost on the way to the driver.
LEMMA LossNext == LinkTypeOK /\ LossInv /\ [LinkNext]_linkVars => LossInv'
<1> SUFFICES ASSUME LinkTypeOK, LossInv, [LinkNext]_linkVars, link'.up, ~ overtaken'
             PROVE  /\ running' /\ power' = "on"
                    /\ ReportsLoss' => pmode' # "none" \/ "link" \in pend' \/ check'
  BY DEF LossInv
<1>a. card' = card /\ (ReportsLoss' <=> ReportsLoss)
  BY CardStays DEF ReportsLoss
<1>b. ~ Down.up
  BY DownFacts
<1>c. {running, suspended, check, overtaken} \subseteq BOOLEAN
      /\ adv \in SUBSET AllModes /\ pend \in SUBSET Events
  BY DEF LinkTypeOK, AllModes, Events
<1>1. CASE IntrEnter
  <2>1. /\ ~ check /\ UNCHANGED <<running, power, link, overtaken, pmode>>
        /\ check' = /\ running
                    /\ \/ Afe /\ "link" \in pend
                       \/ Nway /\ "aneg" \in pend
                       \/ Nway /\ "link" \in pend
    BY <1>1 DEF IntrEnter
  <2>2. link.up /\ ~ overtaken
    BY <2>1
  <2>3. running /\ power = "on" /\ (ReportsLoss => pmode # "none" \/ "link" \in pend)
    BY <2>1, <2>2 DEF LossInv
  <2>4. ReportsLoss /\ "link" \in pend => check'
    BY <2>1, <2>2, <2>3, ReportsFacts
  <2> QED BY <1>a, <2>1, <2>3, <2>4
<1>2. CASE LinkCheck \/ ReclaimCheck
  <2>1. /\ CheckLink /\ UNCHANGED <<running, power>>
        /\ overtaken' = (~ running \/ power # "on") \/ (running /\ power = "on")
    BY <1>2 DEF LinkCheck, ReclaimCheck
  <2>2. running /\ power = "on"
    BY <2>1
  <2>3. ~ ReportLink(Down)
    BY <1>b DEF ReportLink
  <2>4. pmode # "none" /\ UNCHANGED phyVars
    BY <2>1, <2>2, <2>3, CheckLinkCases
  <2> QED BY <2>1, <2>2, <2>4 DEF phyVars
<1>3. CASE Stop \/ IntrReset \/ Suspend
  BY <1>3, <1>b DEF Stop, IntrReset, Suspend
<1>4. CASE Start
  BY <1>4, <1>c DEF Start, LossInv
<1>5. CASE PowerOff \/ Resume
  BY <1>5, <1>c DEF PowerOff, Resume, LossInv
<1>6. CASE NddSet
  <2>1. UNCHANGED <<running, power, link, check, overtaken>> /\ Afe
    BY <1>6, NddSteps
  <2>2. running /\ power = "on" /\ (ReportsLoss => pmode # "none" \/ "link" \in pend \/ check)
    BY <2>1 DEF LossInv
  <2>3. PICK b \in SUBSET AllModes : UNCHANGED phyVars \/ AfePhyInit(b, pend)
    BY <1>6, NddSteps
  <2>4. CASE UNCHANGED phyVars
    BY <1>a, <2>1, <2>2, <2>4 DEF phyVars
  <2>5. CASE AfePhyInit(b, pend)
    <3>1. pend' = pend \cup DownEvents
      BY <1>c, <2>1, <2>5, DriverCases, PhyInitDrops
    <3> QED BY <1>a, <2>1, <2>2, <3>1, DownReports
  <2> QED BY <2>3, <2>4, <2>5
<1>7. CASE PhyStep
  <2>1. UNCHANGED driverVars /\ (PhyUp \/ PhyDown)
    BY <1>7 DEF PhyStep
  <2>2. running /\ power = "on" /\ (ReportsLoss => pmode # "none" \/ "link" \in pend \/ check)
    BY <2>1 DEF LossInv, driverVars
  <2>3. CASE PhyUp
    BY <1>a, <2>1, <2>2, <2>3 DEF PhyUp, driverVars
  <2>4. CASE PhyDown
    <3>1. pend' = pend \cup DownEvents
      BY <2>4 DEF PhyDown
    <3> QED BY <1>a, <2>1, <2>2, <3>1, DownReports DEF driverVars
  <2> QED BY <2>1, <2>3, <2>4
<1>8. CASE UNCHANGED linkVars
  BY <1>8, <1>a DEF linkVars, phyVars, driverVars, LossInv
<1> QED BY <1>1, <1>2, <1>3, <1>4, <1>5, <1>6, <1>7, <1>8 DEF LinkNext

\* No link that comes up is overlooked.
LEMMA UpNext == LinkTypeOK /\ UpInv /\ [LinkNext]_linkVars => UpInv'
<1> SUFFICES ASSUME LinkTypeOK, UpInv, [LinkNext]_linkVars,
                    running', power' = "on", pmode' # "none", Reports'
             PROVE  \/ link'.up \/ check'
                    \/ Afe' /\ "link" \in pend'
                    \/ Nway' /\ "aneg" \in pend'
  BY DEF UpInv
<1>a. card' = card /\ (Afe' <=> Afe) /\ (Nway' <=> Nway) /\ (bmcr' = bmcr => Reports)
  BY CardStays DEF Reports, Afe, Nway
<1>b. {running, suspended, check, overtaken} \subseteq BOOLEAN
      /\ adv \in SUBSET AllModes /\ pend \in SUBSET Events /\ {} \in SUBSET Events
  BY DEF LinkTypeOK, AllModes, Events
<1>c. Afe \/ Nway
  <2>1. card.model \in {"comet", "centaur", "98715"}
    BY <1>a DEF Reports
  <2> QED BY <2>1 DEF Afe, Nway
<1>d. ASSUME NEW b \in SUBSET AllModes, NEW kept \in SUBSET Events, DriverPhyInit(b, kept)
      PROVE  FALSE
  BY <1>c, <1>d, PhyInitDrops
<1>1. CASE IntrEnter
  <2>1. ~ check /\ UNCHANGED <<running, power, link, pmode, bmcr>>
    BY <1>1 DEF IntrEnter
  <2>2. link.up \/ (Afe /\ "link" \in pend) \/ (Nway /\ "aneg" \in pend)
    BY <1>a, <2>1 DEF UpInv
  <2>3. (Afe /\ "link" \in pend) \/ (Nway /\ "aneg" \in pend) => check'
    BY <1>1 DEF IntrEnter
  <2> QED BY <2>1, <2>2, <2>3
<1>2. CASE LinkCheck \/ ReclaimCheck
  <2>1. CheckLink /\ UNCHANGED <<running, power>>
    BY <1>2 DEF LinkCheck, ReclaimCheck
  <2>2. CASE Afe /\ AfePhyInit(adv, pend)
    BY <1>b, <1>d, <2>2, DriverCases
  <2>3. CASE pmode = "none" /\ (StartNway(adv, pend) \/ UNCHANGED phyVars)
    BY <2>3 DEF StartNway, Program, phyVars
  <2>4. CASE ReportLink(Seen)
    BY <2>4, SeenUp DEF ReportLink
  <2> QED BY <2>1, <2>2, <2>3, <2>4, CheckLinkCases
<1>3. CASE Stop \/ Suspend \/ PowerOff
  BY <1>3 DEF Stop, Suspend, PowerOff
<1>4. CASE Start \/ IntrReset
  BY <1>4, <1>b, <1>d DEF Start, IntrReset
<1>5. CASE Resume
  BY <1>5, <1>b, <1>d DEF Resume
<1>6. CASE NddSet
  <2>1. UNCHANGED <<running, power, link, check>> /\ Afe
    BY <1>6, NddSteps
  <2>2. PICK b \in SUBSET AllModes : UNCHANGED phyVars \/ AfePhyInit(b, pend)
    BY <1>6, NddSteps
  <2>3. UNCHANGED phyVars
    BY <1>b, <1>d, <2>1, <2>2, DriverCases
  <2> QED BY <1>a, <2>1, <2>3 DEF phyVars, UpInv
<1>7. CASE PhyStep
  <2>1. UNCHANGED driverVars /\ PhyUp
    BY <1>7 DEF PhyStep, PhyDown
  <2>2. pend' = pend \cup UpEvents /\ bmcr' = bmcr
    BY <2>1 DEF PhyUp
  <2>3. (Afe /\ "link" \in UpEvents) \/ (Nway /\ "aneg" \in UpEvents)
    BY <1>a, <2>2 DEF Reports, UpEvents, Afe, Nway
  <2> QED BY <1>a, <2>2, <2>3
<1>8. CASE UNCHANGED linkVars
  BY <1>8, <1>a DEF linkVars, phyVars, driverVars, UpInv
<1> QED BY <1>1, <1>2, <1>3, <1>4, <1>5, <1>6, <1>7, <1>8 DEF LinkNext

\* Once every interrupt is served, a driver whose chip reports the changes of
\* the link knows whether its link is up, whatever order the handler, the check
\* of the link it leaves for later, reclaim, stop, ndd, suspend and resume took.
THEOREM LinkIsTracked == LinkSpec => []LinkTracked
<1>1. LinkInit => LossInv /\ UpInv
  BY DownFacts DEF LinkInit, PhyInit, LossInv, UpInv
<1>2. LossInv /\ UpInv => LinkTracked
  BY DEF LossInv, UpInv, LinkTracked
<1> QED BY <1>1, <1>2, LossNext, UpNext, LinkTypeCorrect, PTL DEF LinkSpec

-----------------------------------------------------------------------------
(***************************************************************************)
(* The driver reports the mode the transceiver has settled for.            *)
(***************************************************************************)

\* A link that is up is in the mode in which both ends can meet.
ModeInv == pmode # "none" => pmode = Reach

\* The registers are written only with the link down.
LEMMA ModeNext == LinkTypeOK /\ ModeInv /\ [LinkNext]_linkVars => ModeInv'
<1> SUFFICES ASSUME LinkTypeOK, ModeInv, [LinkNext]_linkVars, pmode' # "none"
             PROVE  pmode' = Reach'
  BY DEF ModeInv
<1> DEFINE Same == UNCHANGED <<partner, bmcr, anar, onfiber, pmode>>
<1>a. Same => pmode' = Reach'
  BY DEF ModeInv, Reach, Offered
<1>b. \A b, m, f, kept : ~ Program(b, m, f, kept)
  BY DEF Program
<1>c. \A b, kept : (DriverPhyInit(b, kept) \/ AfePhyInit(b, kept) \/ StartNway(b, kept)) => Same
  BY <1>b DEF DriverPhyInit, AfePhyInit, MxfePhyInitNway, MxfePhyInitMii, StartNway
<1>1. CASE LinkCheck \/ ReclaimCheck
  <2>1. CheckLink
    BY <1>1 DEF LinkCheck, ReclaimCheck
  <2>2. UNCHANGED phyVars => Same
    BY DEF phyVars
  <2> QED BY <1>a, <1>c, <2>1, <2>2, CheckLinkCases
<1>2. CASE Start \/ IntrReset \/ Resume
  BY <1>2, <1>a, <1>c DEF Start, IntrReset, Resume
<1>3. CASE IntrEnter \/ Stop \/ Suspend
  BY <1>3, <1>a DEF IntrEnter, Stop, Suspend
<1>4. CASE PowerOff
  BY <1>4, <1>b DEF PowerOff
<1>5. CASE NddSet
  <2>1. PICK b \in SUBSET AllModes : UNCHANGED phyVars \/ AfePhyInit(b, pend)
    BY <1>5, NddSteps
  <2> QED BY <1>a, <1>c, <2>1 DEF phyVars
<1>6. CASE PhyStep
  <2>1. PhyUp
    BY <1>6 DEF PhyStep, PhyDown
  <2>2. pmode' = Reach /\ UNCHANGED <<partner, bmcr, anar, onfiber>>
    BY <2>1 DEF PhyUp
  <2> QED BY <2>2 DEF Reach, Offered
<1>7. CASE UNCHANGED linkVars
  BY <1>7, <1>a DEF linkVars, phyVars
<1> QED BY <1>1, <1>2, <1>3, <1>4, <1>5, <1>6, <1>7 DEF LinkNext

\* The mode read from a PHY on the MII.
LEMMA MiiLinkTrue ==
    ASSUME LinkTypeOK, pmode # "none", pmode = Reach, "100T4" \notin anar \cap Offered
    PROVE  MiiLink = Up(pmode)
<1>1. CASE "aneg" \in bmcr
  <2>1. pmode = First(Priority, anar \cap Offered)
    BY <1>1 DEF Reach
  <2>2. First(MiiOrder, anar \cap Offered) = pmode
    <3> DEFINE S == anar \cap Offered
    <3>1. S \cap Modes \subseteq Modes \ {"100T4"}
      OBVIOUS
    <3> HIDE DEF S
    <3>2. First(MiiOrder, S) = First(Priority, S)
      BY <3>1, FirstAgree
    <3> QED BY <2>1, <3>2 DEF S
  <2> QED BY <1>1, <2>2 DEF MiiLink
<1>2. CASE "aneg" \notin bmcr
  BY <1>2 DEF Reach, MiiLink
<1> QED BY <1>1, <1>2

\* The mode that NWay works out from its own selection.
LEMMA NwayLinkTrue ==
    ASSUME LinkTypeOK, Nway, Registers, pmode # "none", pmode = Reach,
           "aneg" \in adv => "10fdx" \in adv
    PROVE  NwayLink = Up(pmode)
<1>0. ~ Afe /\ onfiber = FALSE
  BY DEF Afe, Nway, Registers, LinkTypeOK
<1>1. adv \subseteq (Modes \ {"100T4"}) \cup {"aneg"} /\ adv \cap Modes # {}
  BY <1>0, AbleFacts DEF Registers
<1>2. CASE "aneg" \notin adv
  <2>1. First(ForceOrder, adv) # "none"
    BY <1>1, FirstForce DEF Modes
  <2>2. bmcr = ForcedBits(adv)
    BY <1>0, <1>2 DEF Registers, Control
  <2>3. "aneg" \notin bmcr /\ ForcedMode(bmcr) = First(ForceOrder, adv)
    BY <2>1, <2>2, ForcedBitsFacts
  <2>4. pmode = First(ForceOrder, adv)
    BY <2>3 DEF Reach
  <2> QED BY <1>2, <2>4 DEF NwayLink
<1>3. CASE "aneg" \in adv
  <2>1. bmcr = {"aneg"} /\ anar = adv \cap Modes
    BY <1>0, <1>1, <1>3 DEF Registers, Control, Offer, Modes
  <2>2. pmode = First(Priority, anar \cap Offered)
    BY <2>1 DEF Reach
  <2>3. CASE partner.nway
    <3> DEFINE S == adv \cap partner.modes
    <3>1. anar \cap Offered = S
      BY <2>1, <2>3, PartnerAssumption DEF Offered, LinkTypeOK
    <3>2. S \cap Modes \subseteq Modes \ {"100T4"}
      BY <1>1 DEF Modes
    <3> HIDE DEF S
    <3>3. pmode = First(ForceOrder, S)
      BY <2>2, <3>1, <3>2, FirstAgree
    <3> QED BY <1>3, <2>3, <3>3 DEF NwayLink, S
  <2>4. CASE ~ partner.nway
    <3>1. Priority \in Orders
      BY DEF Orders
    <3>2. pmode \in Offered
      <4> DEFINE S == anar \cap Offered
      <4> HIDE DEF S
      <4>1. First(Priority, S) \in (Modes \cap S) \cup {"none"}
        BY <3>1, FirstFacts
      <4> QED BY <2>2, <4>1 DEF S
    <3>3. PICK m \in partner.modes : pmode = Half(m)
      BY <2>4, <3>2 DEF Offered
    <3>4. Half(pmode) = pmode
      BY <3>3 DEF Half
    <3> QED BY <1>3, <2>4, <3>4 DEF NwayLink
  <2> QED BY <2>3, <2>4
<1> QED BY <1>2, <1>3

\* A check that says the link is up says the speed and duplex the transceiver
\* has settled for: with a forced mode, after negotiation, with parallel
\* detection, by whichever registers the model of card has for it.
THEOREM LinkIsTrue == LinkSpec => LinkTruth
<1> DEFINE Told == (check /\ ~ check') \/ link' # link
           Known == /\ "100T4" \notin anar \cap Offered
                    /\ Nway /\ "aneg" \in adv => "10fdx" \in adv
<1>1. LinkInit => PowInv /\ RegInv /\ ModeInv
  BY DEF LinkInit, PhyInit, PowInv, RegInv, InForce, ModeInv
<1>2. LinkTypeOK /\ PowInv /\ RegInv /\ ModeInv /\ StoppedDown /\ [LinkNext]_linkVars
        => [Told /\ link'.up /\ Known => link' = Up(pmode)]_linkVars
  <2> SUFFICES ASSUME LinkTypeOK, PowInv, RegInv, ModeInv, StoppedDown,
                      [LinkNext]_linkVars, Told, link'.up, Known
               PROVE  link' = Up(pmode)
    OBVIOUS
  <2>1. ~ Down.up /\ {running, check} \subseteq BOOLEAN
    BY DownFacts DEF LinkTypeOK
  <2>2. LinkCheck \/ ReclaimCheck
    <3>1. IntrEnter => ~ check /\ link' = link
      BY DEF IntrEnter
    <3>2. link' # Down
      BY <2>1
    <3> QED BY <3>1, <3>2, NoCheckSteps
  <2>3. CheckLink /\ (~ Afe => InForce)
    BY <2>2 DEF LinkCheck, ReclaimCheck, InForce, PowInv
  <2>4. ~ ReportLink(Down)
    BY <2>1 DEF ReportLink
  <2>5. ~ (Afe /\ ~ running /\ link' = link)
    BY DEF StoppedDown
  <2>6. pmode # "none" /\ ReportLink(Seen)
    BY <2>3, <2>4, <2>5, CheckLinkCases
  <2>7. pmode = Reach
    BY <2>6 DEF ModeInv
  <2>8. Nway => NwayLink = Up(pmode)
    <3>1. Nway => Registers
      BY <2>3, ReportsFacts DEF RegInv
    <3> QED BY <2>6, <2>7, <3>1, NwayLinkTrue
  <2>9. MiiLink = Up(pmode)
    BY <2>6, <2>7, MiiLinkTrue
  <2>10. Seen = Up(pmode)
    BY <2>8, <2>9, ReportsFacts DEF Seen
  <2> QED BY <2>6, <2>10 DEF ReportLink
<1> QED BY <1>1, <1>2, PowNext, RegNext, ModeNext, LinkTypeCorrect, StoppedIsDown, PTL
        DEF LinkSpec, LinkTruth
=============================================================================
