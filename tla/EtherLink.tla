----------------------------- MODULE EtherLink ------------------------------
(***************************************************************************)
(* The link of an afe or mxfe interface (drv/afe/afe.c, drv/mxfe/mxfe.c):  *)
(* what the driver programs into the transceiver (phyinit), what it then   *)
(* believes of the link (checklink), and what it tells (reportlink), under *)
(* interrupts whose check of the link runs after intrlock was dropped,     *)
(* ndd, start, stop, suspend and resume. The models of a card differ in    *)
(* how the link is read and in which of its changes raise an interrupt.    *)
(***************************************************************************)
EXTENDS EtherPhy

CONSTANTS
  Tunables,    \* the ndd parameters "adv_*_cap" that are toggled
  Properties   \* the sets of modes a .conf file may select

ASSUME TunablesAssumption == Tunables \subseteq Modes \cup {"aneg"}
ASSUME PropertiesAssumption == Properties \subseteq SUBSET (Modes \cup {"aneg"})

VARIABLES
  running, suspended,  \* afe_flags, mxfe_flags
  power,      \* "on", "asleep" (between suspend and resume), "off"
  adv,        \* the afe_adv_* that are set, "aneg" among them
  wanted,     \* history: the adv_*_cap that the administrator has selected
  link,       \* afe_linkup, afe_ifspeed, afe_duplex
  linkstate,  \* mxfe_linkstate
  told,       \* afe_lastifspeed and afe_lastduplex
  notice,     \* the speed and duplex of the last "Link Up" message
  check,      \* the handler has acknowledged a change and is to check
  overtaken   \* history: the link was last set by a check that a stop or a
              \* suspend had overtaken

driverVars ==
  <<running, suspended, power, adv, wanted, link, linkstate, told, notice,
    check, overtaken>>
linkVars == <<phyVars, driverVars>>

Afe == card.model \in {"comet", "centaur", "maconly"}
Nway == card.model = "98715"

Down == [up |-> FALSE, speed |-> 0, duplex |-> "unknown"]
Up(m) == [up |-> TRUE, speed |-> Speed(m),
          duplex |-> IF Full(m) THEN "full" ELSE "half"]
UpUnknown == [Down EXCEPT !.up = TRUE]

-----------------------------------------------------------------------------
(* phyinit: the modes a are cut to those in hw, and one of hw is put in    *)
(* when none is left (the last one of the code's chain of tests).          *)

FallbackOrder == <<"10hdx", "10fdx", "100hdx", "100fdx", "100T4">>
ForceOrder == <<"100fdx", "100hdx", "10fdx", "10hdx">>

\* Mutant: the modes the hardware lacks stay selected.
SelectedUncut(a, hw) ==
  IF a \cap hw \cap Modes = {}
  THEN a \cup {First(FallbackOrder, hw)} ELSE a

\* Mutant: no mode is put in when none is left.
SelectedNone(a, hw) == (a \cap hw) \cup {First(FallbackOrder, a \cap hw)}

Selected(a, hw) ==
  IF a \cap hw \cap Modes = {}
  THEN (a \cap hw) \cup {First(FallbackOrder, hw)} ELSE a \cap hw

ForcedBits(a) ==
  LET m == First(ForceOrder, a)
  IN  {b \in {"speed", "duplex"} :
         /\ m # "none"
         /\ IF b = "speed" THEN Speed(m) = 100 ELSE Full(m)}

Control(a) == IF "aneg" \in a THEN {"aneg"} ELSE ForcedBits(a)

(* A 983B told to find out selects the fiber port if a link comes up there. *)
FiberChoice ==
  CASE card.fiber = "fiber" -> {TRUE}
    [] card.fiber = "auto" -> {FALSE, partner.media = "fiber"}
    [] OTHER -> {FALSE}

Able(f) ==
  IF f THEN (card.able \cap {"aneg"}) \cup {"100fdx"} ELSE card.able

AfePhyInit(a, kept) ==
  \E f \in FiberChoice :
    LET sel == Selected(a, Able(f))
    IN  /\ adv' = sel
        /\ Program(IF f THEN {"speed", "duplex"} ELSE Control(sel),
                   sel \cap Modes, f, kept)
        /\ UNCHANGED linkstate

(* The search for a PHY leaves phyaddr at 32, and 32 goes out on the MII   *)
(* as 0: a PHY elsewhere reads as all ones and is not written.             *)
MxfePhyInitMii(a, kept) ==
  /\ UNCHANGED linkstate
  /\ IF card.addr = 0
     THEN LET sel == Selected(a, card.able)
          IN  /\ adv' = sel
              /\ Program(Control(sel), sel \cap Modes, FALSE, kept)
     ELSE /\ adv' = Selected(a, Modes \cup {"aneg"})
          /\ pend' = kept
          /\ UNCHANGED <<card, partner, bmcr, anar, onfiber, pmode>>

(* mxfe_startnway; the caller has just set linkstate to MXFE_NOLINK. The   *)
(* 10 Mbps full-duplex bit goes out whatever is selected.                  *)
StartNway(a, kept) ==
  IF "aneg" \in a
  THEN /\ linkstate' = "nwaycheck"
       /\ Program({"aneg"},
                  (a \cap {"100fdx", "100hdx", "10hdx"}) \cup {"10fdx"},
                  FALSE, kept)
  ELSE /\ linkstate' = "nolink"
       /\ pend' = kept
       /\ UNCHANGED <<card, partner, bmcr, anar, onfiber, pmode>>

MxfePhyInitNway(a, kept) ==
  LET sel == Selected(a, (Modes \ {"100T4"}) \cup {"aneg"})
  IN  /\ adv' = sel
      /\ IF "aneg" \in sel
         THEN StartNway(sel, kept)
         ELSE /\ Program(ForcedBits(sel), sel \cap Modes, FALSE, kept)
              /\ linkstate' = "nolink"

DriverPhyInit(a, kept) ==
  CASE Afe -> AfePhyInit(a, kept)
    [] Nway -> MxfePhyInitNway(a, kept)
    [] OTHER -> MxfePhyInitMii(a, kept)

-----------------------------------------------------------------------------
(* What the chip says of the link that is up. *)

MiiOrder == <<"100T4", "100fdx", "100hdx", "10fdx", "10hdx">>

MiiLink ==
  IF "aneg" \notin bmcr THEN Up(ForcedMode(bmcr))
  ELSE LET m == First(MiiOrder, anar \cap Offered)
       IN  IF m = "none" THEN UpUnknown ELSE Up(m)

\* Mutant: NWay takes the first mode of the partner, selected or not.
NwayLinkPartner ==
  LET m == IF "aneg" \in adv /\ partner.nway
           THEN First(ForceOrder, partner.modes) ELSE pmode
  IN  IF m = "none" THEN [link EXCEPT !.up = TRUE, !.speed = 0] ELSE Up(m)

(* The NWay check trusts its own adv, and parallel detection for the rest. *)
NwayLink ==
  LET m == IF "aneg" \notin adv THEN First(ForceOrder, adv)
           ELSE IF partner.nway THEN First(ForceOrder, adv \cap partner.modes)
           ELSE Half(pmode)
  IN  IF m = "none" THEN [link EXCEPT !.up = TRUE, !.speed = 0] ELSE Up(m)

\* Mutant: a link that comes up again with the same speed is no news.
ReportLinkSpeed(l) ==
  /\ link' = l
  /\ told' = <<l.speed, l.duplex>>
  /\ notice' = IF l.up /\ l.speed # told[1]
               THEN <<l.speed, l.duplex>> ELSE notice

ReportLink(l) ==
  LET now == <<l.speed, l.duplex>>
  IN  /\ link' = l
      /\ told' = now
      /\ notice' = IF l.up /\ now # told THEN now ELSE notice

\* Mutant: the link is checked on an interface that is not running.
AfeCheckLinkAlways ==
  IF pmode = "none"
  THEN /\ ReportLink(Down)
       /\ UNCHANGED <<phyVars, adv, linkstate>>
  ELSE /\ ReportLink(Up(pmode))
       /\ UNCHANGED <<phyVars, adv, linkstate>>

AfeCheckLink ==
  IF ~running
  THEN UNCHANGED <<phyVars, adv, link, linkstate, told, notice>>
  ELSE IF pmode = "none"
  THEN /\ ReportLink(Down)
       /\ IF link.up THEN AfePhyInit(adv, pend)
          ELSE UNCHANGED <<phyVars, adv, linkstate>>
  ELSE /\ ReportLink(IF card.model = "maconly" THEN MiiLink ELSE Up(pmode))
       /\ UNCHANGED <<phyVars, adv, linkstate>>

MxfeCheckLinkMii ==
  /\ ReportLink(IF pmode = "none" THEN Down ELSE MiiLink)
  /\ UNCHANGED <<phyVars, adv, linkstate>>

MxfeCheckLinkNway ==
  /\ UNCHANGED adv
  /\ IF pmode = "none"
     THEN /\ ReportLink(Down)
          /\ StartNway(adv, pend)
     ELSE /\ ReportLink(NwayLink)
          /\ linkstate' = "good"
          /\ UNCHANGED phyVars

CheckLink ==
  CASE Afe -> AfeCheckLink
    [] Nway -> MxfeCheckLinkNway
    [] OTHER -> MxfeCheckLinkMii

-----------------------------------------------------------------------------
LinkInit ==
  /\ PhyInit
  /\ wanted \in Properties
  /\ adv = wanted
  /\ running = FALSE /\ suspended = FALSE /\ power = "on"
  /\ link = Down
  /\ linkstate = "nolink"
  /\ told = <<0, "unknown">>
  /\ notice = <<0, "unknown">>
  /\ check = FALSE
  /\ overtaken = FALSE

\* Mutant: the end of a negotiation counts only on a link that is up.
IntrEnterUpOnly ==
  /\ ~check /\ power = "on"
  /\ pend # {}
  /\ pend' = {}
  /\ check' = (running /\ (Afe \/ link.up))
  /\ UNCHANGED <<card, partner, bmcr, anar, onfiber, pmode, running,
                 suspended, power, adv, wanted, link, linkstate, told,
                 notice, overtaken>>

(* The handler up to the release of intrlock: it acknowledges every bit. A *)
(* frame that is received while the link is believed down is a reason to   *)
(* check too.                                                              *)
IntrEnter ==
  \E frame \in BOOLEAN :
    /\ ~check
    /\ power = "on"
    /\ frame => running /\ pmode # "none"
    /\ frame \/ pend # {}
    /\ pend' = {}
    /\ check' = /\ running
                /\ \/ frame /\ ~link.up
                   \/ Afe /\ "link" \in pend
                   \/ Nway /\ "aneg" \in pend
                   \/ Nway /\ link.up /\ "link" \in pend
    /\ UNCHANGED <<card, partner, bmcr, anar, onfiber, pmode, running,
                   suspended, power, adv, wanted, link, linkstate, told,
                   notice, overtaken>>

(* The rest of the handler, under xmtlock. *)
LinkCheck ==
  /\ check
  /\ CheckLink
  /\ check' = FALSE
  /\ overtaken' = (~running \/ power # "on")
  /\ UNCHANGED <<running, suspended, power, wanted>>

(* reclaim finds a frame that was sent without a carrier. *)
ReclaimCheck ==
  /\ running /\ ~suspended /\ power = "on"
  /\ CheckLink
  /\ overtaken' = FALSE
  /\ UNCHANGED <<running, suspended, power, wanted, check>>

(* stopmac forgets the link and acknowledges what is pending. *)
Stop ==
  /\ running
  /\ power = "on"
  /\ running' = FALSE
  /\ link' = Down /\ overtaken' = FALSE
  /\ pend' = {}
  /\ UNCHANGED <<card, partner, bmcr, anar, onfiber, pmode, suspended, power,
                 adv, wanted, linkstate, told, notice, check>>

Start ==
  /\ ~running
  /\ power = "on"
  /\ running' = TRUE
  /\ DriverPhyInit(adv, pend)
  /\ UNCHANGED <<suspended, power, wanted, link, told, notice, check,
                 overtaken>>

(* The end of a handler that wants a reset: stopmac, resetmac, startmac. *)
IntrReset ==
  /\ running
  /\ power = "on"
  /\ ~check
  /\ link' = Down /\ overtaken' = FALSE
  /\ DriverPhyInit(adv, {})
  /\ UNCHANGED <<running, suspended, power, wanted, told, notice, check>>

Suspend ==
  /\ power = "on"
  /\ power' = "asleep"
  /\ suspended' = TRUE
  /\ link' = Down /\ overtaken' = FALSE
  /\ pend' = {}
  /\ UNCHANGED <<card, partner, bmcr, anar, onfiber, pmode, running, adv,
                 wanted, linkstate, told, notice, check>>

(* The power goes (external), after the last handler is through. *)
PowerOff ==
  /\ power = "asleep"
  /\ ~check
  /\ power' = "off"
  /\ Program(PowerUpBmcr, PowerUpAnar, FALSE, {})
  /\ UNCHANGED <<running, suspended, adv, wanted, link, linkstate, told,
                 notice, check, overtaken>>

(* mxfe_resume leaves MXFE_SUSPENDED set. *)
Resume ==
  /\ power # "on"
  /\ power' = "on"
  /\ suspended' = ~Afe
  /\ IF running THEN DriverPhyInit(adv, {})
     ELSE pend' = {} /\ UNCHANGED <<card, partner, bmcr, anar, onfiber, pmode,
                                    adv, linkstate>>
  /\ UNCHANGED <<running, wanted, link, told, notice, check,
                 overtaken>>

(* ndd -set: afe only, the pointers of mxfe_ndinit are not addresses.      *)
NddSet ==
  \E n \in Tunables, on \in BOOLEAN :
    LET Put(s) == IF on THEN s \cup {n} ELSE s \ {n}
    IN  /\ Afe
        /\ wanted' = Put(wanted)
        /\ IF suspended
           THEN adv' = Put(adv) /\ UNCHANGED <<phyVars, linkstate>>
           ELSE AfePhyInit(Put(adv), pend)
        /\ UNCHANGED <<running, suspended, power, link, told, notice, check,
                       overtaken>>

PhyStep ==
  /\ power # "off" /\ (PhyUp \/ PhyDown)
  /\ UNCHANGED driverVars

LinkNext ==
  \/ IntrEnter \/ LinkCheck \/ ReclaimCheck
  \/ Start \/ Stop \/ IntrReset
  \/ Suspend \/ PowerOff \/ Resume
  \/ NddSet
  \/ PhyStep

LinkSpec == LinkInit /\ [][LinkNext]_linkVars

-----------------------------------------------------------------------------
\* Types: the mode chosen by afe_phyinit and mxfe_phyinit, and the link each
\* reports, are always ones the drivers know.
LinkTypeOK ==
  /\ card \in Cards /\ partner \in Partners
  /\ bmcr \in SUBSET {"aneg", "speed", "duplex"}
  /\ anar \in SUBSET Modes
  /\ onfiber \in BOOLEAN
  /\ pmode \in Modes \cup {"none"}
  /\ pend \in SUBSET {"link", "aneg"}
  /\ {running, suspended, check, overtaken} \subseteq BOOLEAN
  /\ power \in {"on", "asleep", "off"}
  /\ adv \in SUBSET (Modes \cup {"aneg"})
  /\ wanted \in SUBSET (Modes \cup {"aneg"})
  /\ link \in [up : BOOLEAN, speed : {0, 10, 100},
               duplex : {"unknown", "half", "full"}]
  /\ linkstate \in {"nolink", "nwaycheck", "good"}
  /\ told \in {0, 10, 100} \X {"unknown", "half", "full"}
  /\ notice \in {0, 10, 100} \X {"unknown", "half", "full"}

(* What a 98715 that negotiates offers although it may not be selected:    *)
(* mxfe_startnway sets MXFE_NAR_FDX in any case. mxfe(7D) says otherwise,  *)
(* "the device will negotiate among the supported (and configured, see     *)
(* below) link options".                                                   *)
Unasked == IF Nway /\ "aneg" \in adv THEN {"10fdx"} ELSE {}

(* A running interface has its transceiver set to what the administrator   *)
(* selected, as far as the hardware is able, whatever ndd, suspend, resume *)
(* and link failures came between: every selected mode is offered, and     *)
(* beside them at most the one fallback mode, and on a 98715 full duplex   *)
(* at 10 Mbps, which it offers also where it was turned off; without       *)
(* autonegotiation the first of them is forced. (The property "fiber" set  *)
(* to probe the ports cuts the selection for good, and 100BaseT4 cannot be *)
(* forced.)                                                                *)
Programmed ==
  running /\ ~suspended =>
    /\ adv \subseteq Able(onfiber)
    /\ adv \cap Modes # {}
    /\ card.fiber # "auto" => wanted \cap Able(onfiber) \subseteq adv
    /\ Cardinality(adv \ wanted) <= 1
    /\ anar = (adv \cap Modes) \cup Unasked
    /\ onfiber => ForcedMode(bmcr) = "100fdx"
    /\ ~onfiber /\ "aneg" \in adv => bmcr = {"aneg"}
    /\ ~onfiber /\ "aneg" \notin adv /\ adv # {"100T4"} =>
         /\ "aneg" \notin bmcr
         /\ ForcedMode(bmcr) = First(Priority, adv \ {"100T4"})

(* The chip interrupts when the link fails, and when it comes up. *)
ReportsLoss == card.model \in {"comet", "centaur", "98715"}
Reports ==
  \/ card.model = "centaur"
  \/ card.model \in {"comet", "98715"} /\ "aneg" \in bmcr

(* Once every interrupt is served, an interface whose chip reports changes *)
(* of the link knows whether its link is up: no check is lost to a handler *)
(* that ran too early, to a stop, or to an event the driver acknowledged   *)
(* unseen. (A forced link that comes up raises nothing on a Comet. A check *)
(* that a suspend, or on mxfe a stop, overtook may leave linkup set: it is *)
(* excepted until the link is set again.)                                  *)
LinkTracked ==
  running /\ ~suspended /\ power = "on" /\ pend = {} /\ ~check =>
    /\ (link.up /\ ReportsLoss /\ ~overtaken) => pmode # "none"
    /\ (pmode # "none" /\ Reports) => link.up

(* A check that says the link is up says the speed and duplex the          *)
(* transceiver has really settled for, by whichever registers the model    *)
(* reads them. (Not when 100BaseT4 is on offer, which the code prefers to  *)
(* full duplex, nor for NWay when 10 Mbps full duplex, which the chip then *)
(* offers all the same, is not selected.)                                  *)
LinkTruth ==
  [][/\ (check /\ ~check') \/ link' # link
     /\ link'.up
     /\ "100T4" \notin anar \cap Offered
     /\ Nway /\ "aneg" \in adv => "10fdx" \in adv
     => link' = Up(pmode)]_linkVars

(* afe: no link is up on an interface that was stopped, although a handler *)
(* may be about to check the link when the stop takes its locks.           *)
StoppedDown == Afe /\ ~running => ~link.up

(* The last message of the console about a link that came up is true of    *)
(* the link that is up.                                                    *)
LinkAnnounced ==
  link.up /\ link.speed # 0 => notice = <<link.speed, link.duplex>>
=============================================================================
