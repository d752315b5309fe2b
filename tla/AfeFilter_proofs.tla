-------------------------- MODULE AfeFilter_proofs --------------------------
(***************************************************************************)
(* Proofs about AfeFilter: the multicast table, the receiver and the       *)
(* filter of a running MAC are as GLD asked, for any addresses and hash    *)
(* buckets.                                                                *)
(*                                                                         *)
(* What makes them inductive is what the register accesses still to come   *)
(* will do: each part of the filter is right already or written by one of  *)
(* them, and none of them spoils what is right.                            *)
(***************************************************************************)
EXTENDS AfeFilter, TLAPS

Modes == {"none", "multi", "phys"}
Filters == {"prom", "multi"}

\* The accesses in todo are made under afe_xmtlock on an interface that is
\* not suspended; the handler holds afe_intrlock on one that runs.
LockInv ==
    /\ todo # <<>> => "suspended" \notin flags
    /\ temp # NoRead => todo # <<>> /\ Head(todo).reg = "NAR"
    /\ itemp # NoRead => flags = {"running"}

FilterInv == FilterTypeOK /\ LockInv

\* The receiver of a MAC that runs is on, or the last access turns it on; that
\* of a stopped MAC is off and nothing turns it on.
RxInv ==
    "suspended" \notin flags =>
        IF "running" \in flags
        THEN IF todo = <<>> THEN "rx" \in nar
             ELSE todo[Len(todo)] = Nar({}, {"rx"})
        ELSE /\ "rx" \notin nar /\ (temp # NoRead => "rx" \notin temp)
             /\ \A i \in DOMAIN todo : "rx" \notin todo[i].set

\* GLD sets the address before it starts the MAC.
StartInv == "running" \in flags => addrset

\* The filter is due to be that of the device structure.
Due == "suspended" \notin flags /\ addrset /\ ~ touched

AddrInv == Due => \/ par = curraddr
                  \/ \E i \in DOMAIN todo : todo[i].reg = "PAR"

\* A program of the filter writes the whole table, and so starts from nothing
\* unseen.
TabInv ==
    /\ todo # <<>> => unseen = {}
    /\ Due => \/ mar = mctab \ unseen
              \/ \E i \in DOMAIN todo : todo[i].reg = "MAR"

\* Access a makes bit b of NAR what mode p wants, or at least leaves it so.
Makes(a, b, p) == IF b \in ModeBits(p) THEN b \in a.set ELSE b \in a.clr
Keeps(a, b, p) == IF b \in ModeBits(p) THEN b \notin a.clr ELSE b \notin a.set

BitInv(b) ==
    /\ \A i \in DOMAIN todo : todo[i].reg = "NAR" => Keeps(todo[i], b, promisc)
    /\ Due => \/ /\ b \in nar <=> b \in ModeBits(promisc)
                 /\ temp # NoRead => (b \in temp <=> b \in ModeBits(promisc))
              \/ \E i \in DOMAIN todo : /\ todo[i].reg = "NAR"
                                        /\ Makes(todo[i], b, promisc)

ForceInv == StartInv /\ AddrInv /\ TabInv /\ \A b \in Filters : BitInv(b)
-----------------------------------------------------------------------------
(***************************************************************************)
(* The accesses of afe_setrxfilt.                                          *)
(***************************************************************************)
\* An access to NAR that the driver builds is a legal one.
LEMMA NarAccess ==
    ASSUME NEW c \in SUBSET NarBits, NEW s \in SUBSET NarBits
    PROVE  Nar(c, s) \in Accesses
BY DEF Nar, Accesses

\* c is s followed by t.
Concatenates(c, s, t) ==
    /\ c \in Seq(Accesses)
    /\ t # <<>> => c # <<>> /\ c[Len(c)] = t[Len(t)]
    /\ \A i \in DOMAIN s : \E j \in DOMAIN c : c[j] = s[i]
    /\ \A i \in DOMAIN t : \E j \in DOMAIN c : c[j] = t[i]
    /\ \A j \in DOMAIN c : \/ \E i \in DOMAIN s : c[j] = s[i]
                           \/ \E i \in DOMAIN t : c[j] = t[i]

\* Two legal sequences of accesses, one after the other.
LEMMA ConcatFacts ==
    ASSUME NEW s \in Seq(Accesses), NEW t \in Seq(Accesses)
    PROVE  Concatenates(s \o t, s, t)
<1> DEFINE c == s \o t
<1>1. /\ c \in Seq(Accesses) /\ Len(c) = Len(s) + Len(t)
      /\ t # <<>> => c # <<>> /\ c[Len(c)] = t[Len(t)]
  OBVIOUS
<1>2. \A i \in DOMAIN s : i \in DOMAIN c /\ c[i] = s[i]
  OBVIOUS
<1>3. \A i \in DOMAIN t : i + Len(s) \in DOMAIN c /\ c[i + Len(s)] = t[i]
  OBVIOUS
<1>4. \A j \in DOMAIN c : \/ j \in DOMAIN s
                          \/ j - Len(s) \in DOMAIN t /\ c[j] = t[j - Len(s)]
  OBVIOUS
<1> HIDE DEF c
<1>5. Concatenates(c, s, t)
  BY <1>1, <1>2, <1>3, <1>4 DEF Concatenates
<1> QED BY <1>5 DEF c

\* What is left after the first access.
LEMMA TailFacts ==
    ASSUME NEW s \in Seq(Accesses), s # <<>>
    PROVE  /\ Head(s) = s[1] /\ Head(s) \in Accesses /\ Tail(s) \in Seq(Accesses)
           /\ 1 \in DOMAIN s /\ Len(Tail(s)) = Len(s) - 1
           /\ \A i \in DOMAIN Tail(s) : i + 1 \in DOMAIN s /\ Tail(s)[i] = s[i + 1]
           /\ \A i \in DOMAIN s : i # 1 => /\ i - 1 \in DOMAIN Tail(s)
                                           /\ Tail(s)[i - 1] = s[i]
OBVIOUS

\* Setting and clearing the promiscuous bits.
LEMMA PromiscFacts ==
    ASSUME NEW p \in Modes
    PROVE  /\ PromiscAccesses(p) \in Seq(Accesses)
           /\ \A i \in DOMAIN PromiscAccesses(p) :
                 /\ PromiscAccesses(p)[i].reg = "NAR"
                 /\ "rx" \notin PromiscAccesses(p)[i].set
                 /\ \A b \in Filters : Keeps(PromiscAccesses(p)[i], b, p)
           /\ \A b \in Filters : \E i \in DOMAIN PromiscAccesses(p) :
                 Makes(PromiscAccesses(p)[i], b, p)
<1>1. CASE p = "none"
  BY <1>1, NarAccess DEF PromiscAccesses, ModeBits, Nar, NarBits, Keeps, Makes, Filters
<1>2. CASE p = "multi"
  BY <1>2, NarAccess DEF PromiscAccesses, ModeBits, Nar, NarBits, Keeps, Makes, Filters
<1>3. CASE p = "phys"
  BY <1>3, NarAccess DEF PromiscAccesses, ModeBits, Nar, NarBits, Keeps, Makes, Filters
<1> QED BY <1>1, <1>2, <1>3 DEF Modes

\* What a sequence of accesses that programs the filter for mode p does.
Programs(s, rxen, p) ==
    /\ s \in Seq(Accesses) /\ s # <<>>
    /\ rxen => s[Len(s)] = Nar({}, {"rx"})
    /\ ~ rxen => \A i \in DOMAIN s : "rx" \notin s[i].set
    /\ \E i \in DOMAIN s : s[i].reg = "PAR"
    /\ \E i \in DOMAIN s : s[i].reg = "MAR"
    /\ \A b \in Filters :
         /\ \A i \in DOMAIN s : s[i].reg = "NAR" => Keeps(s[i], b, p)
         /\ \E i \in DOMAIN s : s[i].reg = "NAR" /\ Makes(s[i], b, p)

\* What afe_setrxfilt is about to write.
LEMMA AccessesProgram ==
    ASSUME NEW rxen \in BOOLEAN, NEW p \in Modes
    PROVE  Programs(FilterAccesses(rxen, p), rxen, p)
<1> DEFINE prom == PromiscAccesses(p)
<1>1. /\ prom \in Seq(Accesses)
      /\ \A i \in DOMAIN prom : /\ prom[i].reg = "NAR"
                                /\ "rx" \notin prom[i].set
                                /\ \A b \in Filters : Keeps(prom[i], b, p)
      /\ \A b \in Filters : \E i \in DOMAIN prom : Makes(prom[i], b, p)
  BY PromiscFacts
<1> HIDE DEF prom
<1>2. CASE rxen
  <2> DEFINE first == <<Nar({"rx"}, {})>>
             last  == <<Put("PAR"), Nar({}, {"rx"}), Put("MAR"), Nar({}, {"rx"})>>
             mid   == first \o prom
             s     == mid \o last
  <2>1. FilterAccesses(rxen, p) = s
    BY <1>2 DEF FilterAccesses, prom
  <2>2. first \in Seq(Accesses) /\ DOMAIN first = {1}
    BY NarAccess DEF NarBits
  <2>3. last \in Seq(Accesses) /\ Len(last) = 4 /\ DOMAIN last = {1, 2, 3, 4} /\ last # <<>>
    BY NarAccess DEF NarBits, Put, Accesses
  <2>4. \A b \in Filters : Keeps(first[1], b, p) /\ Keeps(last[2], b, p) /\ Keeps(last[4], b, p)
    BY DEF Keeps, Filters, Nar
  <2>5. last[1].reg = "PAR" /\ last[3].reg = "MAR" /\ last[4] = Nar({}, {"rx"})
    BY DEF Put
  <2> HIDE DEF first, last, mid, s
  <2>6. /\ mid \in Seq(Accesses)
        /\ \A i \in DOMAIN prom : \E j \in DOMAIN mid : mid[j] = prom[i]
        /\ \A j \in DOMAIN mid : \/ \E i \in DOMAIN first : mid[j] = first[i]
                                 \/ \E i \in DOMAIN prom : mid[j] = prom[i]
    <3>1. Concatenates(mid, first, prom)
      BY <1>1, <2>2, ConcatFacts DEF mid
    <3> QED BY <2>2, <3>1 DEF Concatenates
  <2>7. /\ s \in Seq(Accesses) /\ s # <<>> /\ s[Len(s)] = last[4]
        /\ \A i \in DOMAIN mid : \E j \in DOMAIN s : s[j] = mid[i]
        /\ \A i \in DOMAIN last : \E j \in DOMAIN s : s[j] = last[i]
        /\ \A j \in DOMAIN s : \/ \E i \in DOMAIN mid : s[j] = mid[i]
                               \/ \E i \in DOMAIN last : s[j] = last[i]
    <3>1. Concatenates(s, mid, last)
      BY <2>3, <2>6, ConcatFacts DEF s
    <3> QED BY <2>3, <3>1 DEF Concatenates
  <2>8. \A b \in Filters : \A j \in DOMAIN s : s[j].reg = "NAR" => Keeps(s[j], b, p)
    <3>1. \A b \in Filters : \A j \in DOMAIN mid : Keeps(mid[j], b, p)
      <4>1. \A j \in DOMAIN mid : mid[j] = first[1] \/ \E i \in DOMAIN prom : mid[j] = prom[i]
        BY <2>2, <2>6
      <4> QED BY <1>1, <2>4, <4>1
    <3>2. \A b \in Filters : \A j \in DOMAIN last :
            last[j].reg = "NAR" => Keeps(last[j], b, p)
      BY <2>3, <2>4, <2>5
    <3> QED BY <2>7, <3>1, <3>2
  <2>9. \A b \in Filters : \E j \in DOMAIN s : s[j].reg = "NAR" /\ Makes(s[j], b, p)
    <3>1. \A b \in Filters : \E j \in DOMAIN mid : mid[j].reg = "NAR" /\ Makes(mid[j], b, p)
      BY <1>1, <2>6
    <3> QED BY <2>7, <3>1
  <2>10. (\E j \in DOMAIN s : s[j].reg = "PAR") /\ \E j \in DOMAIN s : s[j].reg = "MAR"
    BY <2>3, <2>5, <2>7
  <2> QED BY <1>2, <2>1, <2>5, <2>7, <2>8, <2>9, <2>10 DEF Programs
<1>3. CASE ~ rxen
  <2> DEFINE last == <<Put("PAR"), Put("MAR")>>
             s    == prom \o last
  <2>1. FilterAccesses(rxen, p) = s
    BY <1>3 DEF FilterAccesses, prom
  <2>2. last \in Seq(Accesses) /\ DOMAIN last = {1, 2} /\ last # <<>>
    BY DEF Put, Accesses
  <2>3. /\ last[1].reg = "PAR" /\ last[2].reg = "MAR"
        /\ last[1].set = {} /\ last[2].set = {}
    BY DEF Put
  <2> HIDE DEF last, s
  <2>4. /\ s \in Seq(Accesses) /\ s # <<>>
        /\ \A i \in DOMAIN prom : \E j \in DOMAIN s : s[j] = prom[i]
        /\ \A i \in DOMAIN last : \E j \in DOMAIN s : s[j] = last[i]
        /\ \A j \in DOMAIN s : \/ \E i \in DOMAIN prom : s[j] = prom[i]
                               \/ \E i \in DOMAIN last : s[j] = last[i]
    <3>1. Concatenates(s, prom, last)
      BY <1>1, <2>2, ConcatFacts DEF s
    <3> QED BY <2>2, <3>1 DEF Concatenates
  <2>5. \A b \in Filters : \A j \in DOMAIN s : s[j].reg = "NAR" => Keeps(s[j], b, p)
    BY <1>1, <2>2, <2>3, <2>4
  <2>6. \A b \in Filters : \E j \in DOMAIN s : s[j].reg = "NAR" /\ Makes(s[j], b, p)
    BY <1>1, <2>4
  <2>7. \A j \in DOMAIN s : "rx" \notin s[j].set
    BY <1>1, <2>2, <2>3, <2>4
  <2>8. (\E j \in DOMAIN s : s[j].reg = "PAR") /\ \E j \in DOMAIN s : s[j].reg = "MAR"
    BY <2>2, <2>3, <2>4
  <2> QED BY <1>3, <2>1, <2>4, <2>5, <2>6, <2>7, <2>8 DEF Programs
<1> QED BY <1>2, <1>3

-----------------------------------------------------------------------------
(***************************************************************************)
(* Types, and who holds which lock.                                        *)
(***************************************************************************)

\* What a call of afe_setrxfilt leaves to be done.
SetsFilter(p) ==
    /\ todo' \in Seq(Accesses) /\ touched' \in BOOLEAN /\ unseen' \in SUBSET Hashes
    /\ "suspended" \in flags => UNCHANGED <<todo, pastVars>>
    /\ "suspended" \notin flags =>
          touched' = FALSE /\ unseen' = {} /\ Programs(todo', "rx" \in nar, p)

\* The table has changed, if at all, by what is unseen; the chip is left alone.
SetsNothing ==
    /\ UNCHANGED <<todo, touched>>
    /\ unseen' = unseen \cup (mctab' \ mctab) /\ mctab \subseteq mctab'

\* The whole of afe_setrxfilt.
LEMMA SetRxFiltFacts ==
    ASSUME FilterTypeOK, NEW p \in Modes, SetRxFilt(p)
    PROVE  SetsFilter(p)
<1>1. CASE "suspended" \in flags
  BY <1>1 DEF SetRxFilt, SetsFilter, FilterTypeOK, pastVars
<1>2. CASE "suspended" \notin flags
  <2>1. todo' = FilterAccesses("rx" \in nar, p) /\ touched' = FALSE /\ unseen' = {}
    BY <1>2 DEF SetRxFilt
  <2>2. Programs(todo', "rx" \in nar, p)
    <3>1. ("rx" \in nar) \in BOOLEAN
      OBVIOUS
    <3> QED BY <2>1, <3>1, AccessesProgram, Zenon
  <2> QED BY <1>2, <2>1, <2>2 DEF SetsFilter, Programs
<1> QED BY <1>1, <1>2

\* The entry points change the device structure, then call afe_setrxfilt or,
\* if the multicast table is said not to have changed, leave the chip alone.
LEMMA EntryFacts ==
    ASSUME FilterTypeOK
    PROVE  /\ \A p \in Modes : SetPromiscuous(p) => SetsFilter(promisc')
           /\ \A a \in Addrs : SetMacAddr(a) => SetsFilter(promisc')
           /\ \A h \in Hashes : McAdd(h) \/ McDelete(h) =>
                 SetsFilter(promisc') \/ SetsNothing
<1>1. promisc \in Modes
  BY DEF FilterTypeOK, Modes
<1>2. ASSUME NEW p \in Modes, SetPromiscuous(p) PROVE SetsFilter(promisc')
  BY <1>2, SetRxFiltFacts DEF SetPromiscuous
<1>3. ASSUME NEW a \in Addrs, SetMacAddr(a) PROVE SetsFilter(promisc')
  BY <1>1, <1>3, SetRxFiltFacts DEF SetMacAddr
<1>4. ASSUME NEW h \in Hashes, McAdd(h) \/ McDelete(h)
      PROVE  SetsFilter(promisc') \/ SetsNothing
  <2>1. CASE SetRxFilt(promisc)
    BY <1>1, <1>4, <2>1, SetRxFiltFacts DEF McAdd, McDelete
  <2>2. CASE ~ SetRxFilt(promisc)
    <3>1. CASE McAdd(h)
      BY <2>2, <3>1 DEF McAdd, IfChanged, SetsNothing
    <3>2. CASE McDelete(h)
      BY <2>2, <3>2 DEF McDelete, IfChanged, SetsNothing
    <3> QED BY <1>4, <3>1, <3>2
  <2> QED BY <2>1, <2>2
<1> QED BY <1>2, <1>3, <1>4

\* The invariant after afe_attach.
LEMMA InitFilterInv == FilterInit => FilterInv
<1> SUFFICES ASSUME FilterInit PROVE FilterInv
  OBVIOUS
<1>1. mccount \in [Hashes -> 0 .. MaxCount] /\ mctab \in SUBSET Hashes
  BY FilterAssumption DEF FilterInit
<1>2. todo \in Seq(Accesses)
  BY DEF FilterInit
<1> QED BY <1>1, <1>2, FilterAssumption DEF FilterInit, FilterInv, FilterTypeOK, LockInv

\* Every step keeps the invariant.
LEMMA NextFilterInv == FilterInv /\ [FilterNext]_filterVars => FilterInv'
<1> SUFFICES ASSUME FilterInv, [FilterNext]_filterVars PROVE FilterInv'
  OBVIOUS
<1> USE FilterAssumption
<1>a. FilterTypeOK /\ LockInv
  BY DEF FilterInv
<1>1. ASSUME NEW p \in Modes, SetPromiscuous(p) PROVE FilterInv'
  <2>1. SetsFilter(promisc')
    BY <1>a, <1>1, EntryFacts
  <2> QED BY <1>a, <1>1, <2>1 DEF SetPromiscuous, SetsFilter, XmtFree, FilterInv,
           FilterTypeOK, LockInv, chipVars, intrVars, Modes
<1>2. ASSUME NEW a \in Addrs, SetMacAddr(a) PROVE FilterInv'
  <2>1. SetsFilter(promisc')
    BY <1>a, <1>2, EntryFacts
  <2> QED BY <1>a, <1>2, <2>1 DEF SetMacAddr, SetsFilter, XmtFree, FilterInv,
           FilterTypeOK, LockInv, chipVars, intrVars
<1>3. ASSUME NEW h \in Hashes, McAdd(h) \/ McDelete(h) PROVE FilterInv'
  <2>1. SetsFilter(promisc') \/ SetsNothing
    BY <1>a, <1>3, EntryFacts
  <2>2. mccount' \in [Hashes -> 0 .. MaxCount] /\ mctab' \in SUBSET Hashes
    BY <1>a, <1>3 DEF McAdd, McDelete, FilterTypeOK
  <2>3. XmtFree /\ UNCHANGED <<flags, promisc, curraddr, chipVars, addrset, temp, intrVars>>
    BY <1>3 DEF McAdd, McDelete
  <2> QED BY <1>a, <2>1, <2>2, <2>3 DEF SetsFilter, SetsNothing, XmtFree, FilterInv,
           FilterTypeOK, LockInv, chipVars, intrVars
<1>4. CASE FiltRead
  BY <1>a, <1>4 DEF FiltRead, FilterInv, FilterTypeOK, LockInv, softVars, chipVars,
     intrVars, pastVars, NoRead, NarBits
<1>5. CASE FiltWrite
  <2>1. /\ Head(todo) \in Accesses /\ Tail(todo) \in Seq(Accesses)
        /\ todo # <<>>
    BY <1>a, <1>5, TailFacts DEF FiltWrite, FilterTypeOK, LockInv
  <2>2. nar' \in SUBSET NarBits
    BY <1>a, <1>5, <2>1 DEF FiltWrite, FilterTypeOK, Accesses
  <2> QED BY <1>a, <1>5, <2>1, <2>2 DEF FiltWrite, FilterInv, FilterTypeOK, LockInv,
           softVars, chipVars, intrVars, pastVars, NoRead
<1>6. CASE FiltPut
  <2>1. Tail(todo) \in Seq(Accesses)
    BY <1>a, <1>6, TailFacts DEF FiltPut, FilterTypeOK
  <2> QED BY <1>a, <1>6, <2>1 DEF FiltPut, FilterInv, FilterTypeOK, LockInv,
           softVars, chipVars, intrVars, pastVars, NoRead
<1>7. CASE Reset \/ Start \/ Stop \/ Suspend
  BY <1>a, <1>7 DEF Reset, Start, Stop, Suspend, ChipReset, BothLocks, XmtFree, IntrFree,
     FilterInv, FilterTypeOK, LockInv, softVars, chipVars, intrVars, pastVars, NarBits
<1>8. CASE PowerOff
  BY <1>a, <1>8 DEF PowerOff, FilterInv, FilterTypeOK, LockInv, softVars, chipVars, intrVars, pastVars
<1>9. CASE Resume
  BY <1>a, <1>9 DEF Resume, Replay, ModeBits, BothLocks, XmtFree, IntrFree,
     FilterInv, FilterTypeOK, LockInv, softVars, chipVars, intrVars, pastVars, NarBits
<1>10. CASE IntrRead \/ IntrWrite \/ IntrError
  BY <1>a, <1>10 DEF IntrRead, IntrWrite, IntrError, FilterInv, FilterTypeOK, LockInv,
     softVars, chipVars, intrVars, pastVars, NarBits, NoRead
<1>11. CASE IntrReset
  BY <1>a, <1>11 DEF IntrReset, ChipReset, BothLocks, XmtFree, IntrFree, FilterInv,
     FilterTypeOK, LockInv, softVars, chipVars, intrVars, pastVars, NarBits
<1>12. CASE UNCHANGED filterVars
  BY <1>a, <1>12 DEF filterVars, FilterInv, FilterTypeOK, LockInv, softVars, chipVars, intrVars, pastVars
<1> QED BY <1>1, <1>2, <1>3, <1>4, <1>5, <1>6, <1>7, <1>8, <1>9, <1>10, <1>11, <1>12
         DEF FilterNext, GldNext, Modes

\* The accesses still to come make the filter the one GLD has asked for.
THEOREM FilterInvariant == FilterSpec => []FilterInv
BY InitFilterInv, NextFilterInv, PTL DEF FilterSpec

\* Every variable of the receive filter keeps its type.
THEOREM FilterTypeCorrect == FilterSpec => []FilterTypeOK
<1>1. FilterInv => FilterTypeOK
  BY DEF FilterInv
<1> QED BY <1>1, FilterInvariant, PTL

-----------------------------------------------------------------------------
(***************************************************************************)
(* The multicast table.                                                    *)
(***************************************************************************)

\* The bit of a bucket is set exactly while addresses of it are enabled.
THEOREM TableCorrect == FilterSpec => []McTable
<1>1. FilterInit => McTable
  BY FilterAssumption DEF FilterInit, McTable
<1>2. FilterInv /\ McTable /\ [FilterNext]_filterVars => McTable'
  <2> SUFFICES ASSUME FilterInv, McTable, [FilterNext]_filterVars PROVE McTable'
    OBVIOUS
  <2>1. mccount \in [Hashes -> 0 .. MaxCount]
    BY DEF FilterInv, FilterTypeOK
  <2>2. ASSUME NEW h \in Hashes, McAdd(h) \/ McDelete(h) PROVE McTable'
    BY <2>1, <2>2, FilterAssumption DEF McAdd, McDelete, McTable
  <2>3. CASE UNCHANGED <<mccount, mctab>>
    BY <2>3 DEF McTable
  <2> QED BY <2>2, <2>3 DEF FilterNext, GldNext, SetPromiscuous, SetMacAddr, FiltRead,
           FiltWrite, FiltPut, Reset, Start, Stop, Suspend, PowerOff, Resume, IntrRead,
           IntrWrite, IntrError, IntrReset, softVars, filterVars
<1> QED BY <1>1, <1>2, FilterInvariant, PTL DEF FilterSpec

-----------------------------------------------------------------------------
(***************************************************************************)
(* The receiver.                                                           *)
(***************************************************************************)
\* Every step keeps the receiver as the driver runs.
LEMMA NextRxInv == FilterInv /\ RxInv /\ [FilterNext]_filterVars => RxInv'
<1> SUFFICES ASSUME FilterInv, RxInv, [FilterNext]_filterVars PROVE RxInv'
  OBVIOUS
<1>a. FilterTypeOK /\ LockInv
  BY DEF FilterInv
<1>1. ASSUME XmtFree, SetsFilter(promisc'), UNCHANGED <<flags, nar, temp>>
      PROVE  RxInv'
  <2>1. CASE "suspended" \in flags
    BY <1>1, <2>1 DEF RxInv
  <2>2. CASE "suspended" \notin flags /\ "running" \in flags
    BY <1>1, <2>2 DEF RxInv, XmtFree, SetsFilter, Programs
  <2>3. CASE "suspended" \notin flags /\ "running" \notin flags
    BY <1>1, <2>3 DEF RxInv, XmtFree, SetsFilter, Programs
  <2> QED BY <2>1, <2>2, <2>3
<1>2. ASSUME UNCHANGED <<flags, nar, temp, todo>> PROVE RxInv'
  BY <1>2 DEF RxInv
<1>3. ASSUME NEW p \in Modes, SetPromiscuous(p) PROVE RxInv'
  BY <1>a, <1>1, <1>3, EntryFacts DEF SetPromiscuous, chipVars
<1>4. ASSUME NEW a \in Addrs, SetMacAddr(a) PROVE RxInv'
  BY <1>a, <1>1, <1>4, EntryFacts DEF SetMacAddr, chipVars
<1>5. ASSUME NEW h \in Hashes, McAdd(h) \/ McDelete(h) PROVE RxInv'
  <2>1. XmtFree /\ UNCHANGED <<flags, nar, temp>>
    BY <1>5 DEF McAdd, McDelete, chipVars
  <2> QED BY <1>a, <1>1, <1>2, <1>5, <2>1, EntryFacts DEF SetsNothing
<1>6. CASE FiltRead
  BY <1>6 DEF FiltRead, RxInv, chipVars
<1>7. ASSUME FiltWrite \/ FiltPut PROVE RxInv'
  <2>1. todo # <<>> /\ todo \in Seq(Accesses) /\ todo' = Tail(todo) /\ flags' = flags
    BY <1>a, <1>7 DEF FiltWrite, FiltPut, LockInv, FilterTypeOK
  <2>2. CASE "running" \in flags
    <3>1. CASE todo' = <<>>
      <4>1. Len(todo) = 1
        <5>1. Len(todo') = 0
          BY <3>1
        <5>2. Len(todo') = Len(todo) - 1
          BY <2>1, TailFacts
        <5>3. Len(todo) \in Nat
          BY <2>1
        <5> QED BY <5>1, <5>2, <5>3
      <4>2. "suspended" \notin flags /\ Head(todo) = Nar({}, {"rx"})
        BY <1>a, <2>1, <2>2, <4>1 DEF RxInv, LockInv
      <4>3. FiltWrite
        BY <1>7, <4>2 DEF FiltPut, Nar
      <4> QED BY <2>1, <2>2, <3>1, <4>2, <4>3 DEF FiltWrite, RxInv, Nar
    <3>2. CASE todo' # <<>>
      <4>1. todo'[Len(todo')] = todo[Len(todo)]
        BY <2>1, <3>2
      <4> QED BY <2>1, <2>2, <3>2, <4>1 DEF RxInv
    <3> QED BY <3>1, <3>2
  <2>3. CASE "running" \notin flags
    <3>1. \A i \in DOMAIN todo' : \E j \in DOMAIN todo : todo'[i] = todo[j]
      BY <2>1, TailFacts
    <3>2. "suspended" \notin flags /\ "rx" \notin Head(todo).set
      BY <1>a, <2>1, <2>3, TailFacts DEF RxInv, LockInv
    <3>3. temp # NoRead => "rx" \notin temp
      BY <2>3, <3>2 DEF RxInv
    <3>4. "rx" \notin nar' /\ (temp' # NoRead => "rx" \notin temp')
      BY <1>7, <2>3, <3>2, <3>3 DEF FiltWrite, FiltPut, RxInv
    <3> QED BY <2>1, <2>3, <3>1, <3>2, <3>4 DEF RxInv
  <2> QED BY <2>2, <2>3
<1>8. CASE Reset \/ Start \/ Stop \/ Suspend
  BY <1>a, <1>8 DEF Reset, Start, Stop, Suspend, ChipReset, BothLocks, XmtFree, RxInv, LockInv
<1>9. CASE PowerOff
  BY <1>9 DEF PowerOff, RxInv
<1>10. CASE Resume
  <2>1. "rx" \in ModeBits(promisc) => FALSE
    BY DEF ModeBits
  <2> QED BY <1>a, <1>10, <2>1 DEF Resume, BothLocks, XmtFree, RxInv, LockInv
<1>11. CASE IntrRead \/ IntrWrite \/ IntrError
  BY <1>a, <1>11 DEF IntrRead, IntrWrite, IntrError, LockInv, RxInv, chipVars
<1>12. CASE IntrReset
  BY <1>a, <1>12 DEF IntrReset, ChipReset, BothLocks, XmtFree, LockInv, RxInv, chipVars
<1>13. CASE UNCHANGED filterVars
  BY <1>2, <1>13 DEF filterVars, chipVars
<1> QED BY <1>3, <1>4, <1>5, <1>6, <1>7, <1>8, <1>9, <1>10, <1>11, <1>12, <1>13
         DEF FilterNext, GldNext, Modes

\* The receiver is on exactly while the MAC runs, whatever the handler and the
\* entry points do to CSR NAR meanwhile.
THEOREM ReceiverFollows == FilterSpec => []RxFollowsRunning
<1>1. FilterInit => RxInv
  BY DEF FilterInit, RxInv
<1>2. RxInv => RxFollowsRunning
  BY DEF RxInv, RxFollowsRunning, XmtFree
<1> QED BY <1>1, <1>2, NextRxInv, FilterInvariant, PTL DEF FilterSpec

-----------------------------------------------------------------------------
(***************************************************************************)
(* The filter in force.                                                    *)
(***************************************************************************)

\* afe_setrxfilt makes every part of the filter right.
LEMMA ProgramsFilter ==
    ASSUME FilterInv, ForceInv, XmtFree, promisc' \in Modes, SetsFilter(promisc'),
           UNCHANGED <<flags, nar, par, mar, temp>>,
           "running" \in flags => addrset'
    PROVE  ForceInv'
<1>1. CASE "suspended" \in flags
  <2>1. todo' = <<>>
    BY <1>1 DEF SetsFilter, XmtFree
  <2> QED BY <1>1, <2>1 DEF ForceInv, StartInv, AddrInv, TabInv, BitInv, Due
<1>2. CASE "suspended" \notin flags
  <2>1. Programs(todo', "rx" \in nar, promisc') /\ unseen' = {}
    BY <1>2 DEF SetsFilter
  <2> QED BY <2>1 DEF ForceInv, StartInv, AddrInv, TabInv, BitInv, Programs
<1> QED BY <1>1, <1>2

\* Carrying out the first access keeps what is right and does its part.
LEMMA AccessKeepsForce ==
    ASSUME FilterInv, ForceInv, FiltWrite \/ FiltPut
    PROVE  ForceInv'
<1>1. /\ todo # <<>> /\ todo \in Seq(Accesses) /\ todo' = Tail(todo)
      /\ UNCHANGED <<flags, softVars, addrset, pastVars>>
      /\ LockInv /\ temp' = NoRead
  BY DEF FiltWrite, FiltPut, LockInv, FilterTypeOK, FilterInv
<1>2. /\ Head(todo) = todo[1]
      /\ \A i \in DOMAIN todo' : i + 1 \in DOMAIN todo /\ todo'[i] = todo[i + 1]
      /\ \A i \in DOMAIN todo : i # 1 => i - 1 \in DOMAIN todo' /\ todo'[i - 1] = todo[i]
      /\ 1 \in DOMAIN todo
  BY <1>1, TailFacts
<1>3. StartInv' /\ (Due' <=> Due)
  BY <1>1 DEF ForceInv, StartInv, Due, pastVars
<1>4. AddrInv'
  <2>1. Head(todo).reg = "PAR" => par' = curraddr
    BY <1>1 DEF FiltWrite, FiltPut, LockInv
  <2>2. Head(todo).reg # "PAR" => par' = par
    BY DEF FiltWrite, FiltPut
  <2>3. (\E i \in DOMAIN todo : todo[i].reg = "PAR") =>
           \/ Head(todo).reg = "PAR"
           \/ \E i \in DOMAIN todo' : todo'[i].reg = "PAR"
    BY <1>2
  <2>4. curraddr' = curraddr
    BY <1>1 DEF softVars
  <2> QED BY <1>3, <2>1, <2>2, <2>3, <2>4 DEF AddrInv, ForceInv
<1>5. TabInv'
  <2>1. Head(todo).reg = "MAR" => mar' = mctab
    BY <1>1 DEF FiltWrite, FiltPut, LockInv
  <2>2. Head(todo).reg # "MAR" => mar' = mar
    BY DEF FiltWrite, FiltPut
  <2>3. (\E i \in DOMAIN todo : todo[i].reg = "MAR") =>
           \/ Head(todo).reg = "MAR"
           \/ \E i \in DOMAIN todo' : todo'[i].reg = "MAR"
    BY <1>2
  <2>4. mctab' = mctab /\ unseen' = {} /\ unseen = {}
    BY <1>1 DEF softVars, pastVars, ForceInv, TabInv
  <2> QED BY <1>3, <2>1, <2>2, <2>3, <2>4 DEF TabInv, ForceInv
<1>6. ASSUME NEW b \in Filters PROVE BitInv(b)'
  <2> DEFINE right(n) == b \in n <=> b \in ModeBits(promisc)
             does(s)  == \E i \in DOMAIN s : s[i].reg = "NAR" /\ Makes(s[i], b, promisc)
  <2>1. /\ \A i \in DOMAIN todo : todo[i].reg = "NAR" => Keeps(todo[i], b, promisc)
        /\ Due => (right(nar) /\ (temp # NoRead => right(temp))) \/ does(todo)
    BY DEF ForceInv, BitInv
  <2>2. \A i \in DOMAIN todo' : todo'[i].reg = "NAR" => Keeps(todo'[i], b, promisc)
    BY <1>2, <2>1
  <2>3. CASE FiltPut
    <3>1. nar' = nar /\ Head(todo).reg # "NAR"
      BY <2>3 DEF FiltPut
    <3>2. does(todo) => does(todo')
      BY <1>2, <3>1
    <3> QED BY <1>1, <1>3, <2>1, <2>2, <3>1, <3>2 DEF BitInv, softVars
  <2>4. CASE FiltWrite
    <3>1. /\ nar' = (temp \ Head(todo).clr) \cup Head(todo).set
          /\ temp # NoRead /\ Head(todo).reg = "NAR"
      BY <1>1, <2>4 DEF FiltWrite, LockInv
    <3>2. Keeps(Head(todo), b, promisc)
      BY <1>2, <2>1, <3>1
    <3>3. Makes(Head(todo), b, promisc) => right(nar')
      BY <3>1, <3>2 DEF Makes, Keeps
    <3>4. right(temp) => right(nar')
      BY <3>1, <3>2 DEF Keeps
    <3>5. does(todo) => Makes(Head(todo), b, promisc) \/ does(todo')
      BY <1>2
    <3> QED BY <1>1, <1>3, <2>1, <2>2, <3>1, <3>3, <3>4, <3>5 DEF BitInv, softVars
  <2> QED BY <2>3, <2>4
<1> QED BY <1>3, <1>4, <1>5, <1>6 DEF ForceInv

\* Every step keeps the filter right, or leaves the access that will make it so.
LEMMA NextForceInv ==
    FilterInv /\ ForceInv /\ [FilterNext]_filterVars => ForceInv'
<1> SUFFICES ASSUME FilterInv, ForceInv, [FilterNext]_filterVars PROVE ForceInv'
  OBVIOUS
<1>a. FilterTypeOK /\ LockInv
  BY DEF FilterInv
<1>1. ASSUME NEW p \in Modes, SetPromiscuous(p) PROVE ForceInv'
  <2>1. "running" \in flags => addrset'
    BY <1>1 DEF SetPromiscuous, ForceInv, StartInv
  <2> QED BY <1>a, <1>1, <2>1, EntryFacts, ProgramsFilter DEF SetPromiscuous, chipVars
<1>2. ASSUME NEW a \in Addrs, SetMacAddr(a) PROVE ForceInv'
  <2>1. promisc' \in Modes
    BY <1>a, <1>2 DEF SetMacAddr, FilterTypeOK, Modes
  <2> QED BY <1>a, <1>2, <2>1, EntryFacts, ProgramsFilter DEF SetMacAddr, chipVars
<1>3. ASSUME NEW h \in Hashes, McAdd(h) \/ McDelete(h) PROVE ForceInv'
  <2>1. promisc' \in Modes /\ promisc' = promisc
    BY <1>a, <1>3 DEF McAdd, McDelete, FilterTypeOK, Modes
  <2>2. CASE SetsFilter(promisc')
    <3>1. "running" \in flags => addrset'
      BY <1>3 DEF McAdd, McDelete, ForceInv, StartInv
    <3> QED BY <1>3, <2>1, <2>2, <3>1, ProgramsFilter DEF McAdd, McDelete, chipVars
  <2>3. CASE SetsNothing
    <3>1. todo' = <<>> /\ todo = <<>>
      BY <1>3, <2>3 DEF McAdd, McDelete, XmtFree, SetsNothing
    <3>2. mctab' \ unseen' = mctab \ unseen
      BY <2>3 DEF SetsNothing
    <3>3. UNCHANGED <<flags, promisc, curraddr, chipVars, addrset, temp, todo, touched>>
      BY <1>3, <2>3 DEF McAdd, McDelete, SetsNothing
    <3> QED BY <3>1, <3>2, <3>3 DEF ForceInv, StartInv, AddrInv, TabInv, BitInv, Due,
             chipVars
  <2> QED BY <1>a, <1>3, <2>2, <2>3, EntryFacts
<1>4. CASE FiltRead
  BY <1>4 DEF FiltRead, ForceInv, StartInv, AddrInv, TabInv, BitInv, Due, softVars, pastVars, chipVars
<1>5. CASE FiltWrite \/ FiltPut
  BY <1>5, AccessKeepsForce
<1>6. CASE Reset \/ Start \/ Stop \/ Suspend
  <2>1. todo = <<>> /\ todo' = <<>> /\ temp = NoRead /\ temp' = NoRead
    BY <1>a, <1>6 DEF Reset, Start, Stop, Suspend, BothLocks, XmtFree, LockInv
  <2>2. Due' => Due /\ UNCHANGED <<softVars, pastVars, par, mar>>
    <3>1. CASE Reset
      BY <3>1 DEF Reset, Due
    <3>2. CASE Start \/ Stop
      <4>1. Due' => Due
        BY <1>a, <3>2 DEF Start, Stop, Due, FilterTypeOK, pastVars
      <4>2. UNCHANGED <<softVars, pastVars, par, mar>>
        BY <3>2 DEF Start, Stop
      <4> QED BY <4>1, <4>2
    <3>3. CASE Suspend
      BY <3>3 DEF Suspend, Due
    <3> QED BY <1>6, <3>1, <3>2, <3>3
  <2>3. Due' => \A b \in Filters : b \in nar' <=> b \in nar
    BY <1>6 DEF Reset, Start, Stop, Suspend, Due, Filters
  <2>4. StartInv'
    BY <1>6 DEF Reset, Start, Stop, Suspend, ForceInv, StartInv
  <2> QED BY <2>1, <2>2, <2>3, <2>4 DEF ForceInv, AddrInv, TabInv, BitInv, softVars, pastVars
<1>7. CASE PowerOff
  <2>1. todo = <<>> /\ todo' = <<>>
    BY <1>a, <1>7 DEF PowerOff, LockInv
  <2> QED BY <1>7, <2>1 DEF PowerOff, ForceInv, StartInv, AddrInv, TabInv, BitInv, Due, softVars, pastVars
<1>8. CASE Resume
  <2>1. todo = <<>> /\ todo' = <<>> /\ temp = NoRead /\ temp' = NoRead
    BY <1>a, <1>8 DEF Resume, BothLocks, XmtFree, LockInv
  <2>2. \A b \in Filters : b \in nar' <=> b \in ModeBits(promisc)
    BY <1>8 DEF Resume, Filters
  <2> QED BY <1>8, <2>1, <2>2 DEF Resume, Replay, ForceInv, StartInv, AddrInv, TabInv,
           BitInv, Due, softVars, pastVars
<1>9. CASE IntrRead \/ IntrError
  BY <1>9 DEF IntrRead, IntrError, ForceInv, StartInv, AddrInv, TabInv, BitInv, Due,
     softVars, pastVars, chipVars
<1>10. CASE IntrWrite
  <2>1. Due' => Due /\ \A b \in Filters : b \in nar' <=> b \in nar
    BY <1>10 DEF IntrWrite, Due, Filters
  <2> QED BY <1>10, <2>1 DEF IntrWrite, ForceInv, StartInv, AddrInv, TabInv, BitInv, softVars, pastVars
<1>11. CASE IntrReset
  <2>1. todo = <<>> /\ todo' = <<>>
    BY <1>a, <1>11 DEF IntrReset, BothLocks, XmtFree
  <2>2. Due' => Due /\ UNCHANGED chipVars
    BY <1>11 DEF IntrReset, Due
  <2> QED BY <1>11, <2>1, <2>2 DEF IntrReset, ForceInv, StartInv, AddrInv, TabInv, BitInv,
           softVars, pastVars, chipVars
<1>12. CASE UNCHANGED filterVars
  BY <1>12 DEF filterVars, ForceInv, StartInv, AddrInv, TabInv, BitInv, Due, softVars, pastVars, chipVars
<1> QED BY <1>1, <1>2, <1>3, <1>4, <1>5, <1>6, <1>7, <1>8, <1>9, <1>10, <1>11, <1>12
         DEF FilterNext, GldNext, Modes

\* A running MAC has the address, the mode and the multicast table GLD asked
\* for last, through stop, reset, suspend, power loss and resume, as long as
\* the handler has not interfered; whatever the uninitialised "changed" of
\* afe_mcadd holds, the chip lacks only the buckets it took for unchanged.
THEOREM FilterIsInForce == FilterSpec => []FilterInForce
<1>1. FilterInit => ForceInv
  BY FilterAssumption DEF FilterInit, ForceInv, StartInv, AddrInv, TabInv, BitInv, Due
<1>2. FilterInv /\ ForceInv => FilterInForce
  <2> SUFFICES ASSUME FilterInv, ForceInv, XmtFree, flags = {"running"}, ~ touched
               PROVE  /\ nar \cap {"prom", "multi"} = ModeBits(promisc)
                      /\ par = curraddr /\ mar = mctab \ unseen
    BY DEF FilterInForce
  <2>1. Due /\ todo = <<>>
    BY DEF ForceInv, StartInv, Due, XmtFree
  <2>2. par = curraddr /\ mar = mctab \ unseen
    BY <2>1 DEF ForceInv, AddrInv, TabInv
  <2>3. \A b \in Filters : b \in nar <=> b \in ModeBits(promisc)
    BY <2>1 DEF ForceInv, BitInv
  <2> QED BY <2>2, <2>3 DEF Filters, ModeBits
<1> QED BY <1>1, <1>2, NextForceInv, FilterInvariant, PTL DEF FilterSpec
=============================================================================
