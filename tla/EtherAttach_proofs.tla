------------------------- MODULE EtherAttach_proofs -------------------------
(***************************************************************************)
(* Proofs about EtherAttach, with a failure at any resource and a table of *)
(* any size: what is released was taken and is not in use, in the order    *)
(* that the uses ask for; nothing is left behind but what is named; and    *)
(* when the table of buffers goes no buffer is in a ring or in a thread's  *)
(* hands, so that the theorems of AfeBufTab hold from the first attach to  *)
(* the last detach.                                                        *)
(***************************************************************************)
EXTENDS EtherAttach, AfeBufTab_proofs, SequenceTheorems

\* The lists of what is to be released name resources only.
LEMMA ListsOfResources ==
    /\ AfeFailed \in Seq(Resources)
    /\ \A x \in BOOLEAN : MxfeFailed(x) \in Seq(Resources)
    /\ AfeDetach \in Seq(Resources) /\ MxfeDetach \in Seq(Resources)
<1>1. ASSUME NEW r \in Resources PROVE IfHeld(r) \in Seq(Resources)
  BY <1>1 DEF IfHeld
<1>2. /\ IfHeld("kstat") \in Seq(Resources) /\ IfHeld("regs") \in Seq(Resources)
  BY <1>1 DEF Resources
<1>3. /\ <<>> \in Seq(Resources) /\ <<"pci">> \in Seq(Resources)
      /\ <<"intr">> \in Seq(Resources) /\ <<"bufs">> \in Seq(Resources)
      /\ <<"setup">> \in Seq(Resources)
      /\ <<"ndd", "locks">> \in Seq(Resources) /\ <<"bufs", "desc">> \in Seq(Resources)
      /\ <<"softc", "macinfo">> \in Seq(Resources) /\ <<"gld", "intr">> \in Seq(Resources)
      /\ <<"gld", "intr", "bufs", "desc">> \in Seq(Resources)
      /\ <<"ndd", "regs", "locks", "softc", "macinfo">> \in Seq(Resources)
      /\ <<"bufs", "setup", "ndd", "regs", "locks", "softc", "macinfo">> \in Seq(Resources)
  BY DEF Resources
<1>4. AfeFailed \in Seq(Resources)
  BY <1>2, <1>3, ConcatProperties DEF AfeFailed
<1>5. ASSUME NEW x \in BOOLEAN PROVE MxfeFailed(x) \in Seq(Resources)
  BY <1>2, <1>3, ConcatProperties DEF MxfeFailed
<1>6. AfeDetach \in Seq(Resources)
  BY <1>2, <1>3, ConcatProperties DEF AfeDetach
<1>7. MxfeDetach \in Seq(Resources)
  BY <1>2, <1>3, ConcatProperties DEF MxfeDetach
<1> QED BY <1>4, <1>5, <1>6, <1>7

\* Attach takes resources, and drops the configuration handle once.
LEMMA OrderOfResources == Order \in Seq(Resources \cup {"config"})
<1> DEFINE All == Resources \cup {"config"}
<1>1. <<"pci", "macinfo", "softc", "locks", "ndd", "kstat", "config", "regs",
        "desc", "bufs">> \in Seq(All)
  BY DEF Resources
<1>2. /\ <<>> \in Seq(All) /\ <<"setup">> \in Seq(All)
      /\ <<"intr", "gld">> \in Seq(All)
  BY DEF Resources
<1>3. (IF driver = "mxfe" THEN <<"setup">> ELSE <<>>) \in Seq(All)
  BY <1>2
<1> QED BY <1>1, <1>2, <1>3, ConcatProperties DEF Order

\* The part of AttachTypeOK that is not about the table.
OwnTypeOK ==
    /\ driver \in {"afe", "mxfe"}
    /\ step \in 1 .. (Len(Order) + 1)
    /\ held \in SUBSET Resources /\ wrong \in SUBSET Resources
    /\ busy \in SUBSET Ways
    /\ cause \in MayFail \cup {"none", "detach"}
    /\ todo \in Seq(Resources)

\* What a failure leaves, has released wrongly, and says of the setup frame.
LEMMA FailuresAre ==
    \A f \in Failures :
      /\ f.left \subseteq {"binding", "buf", "setup"} /\ f.wrong \subseteq {"binding"}
      /\ f.fields \in BOOLEAN
      /\ "setup" \in f.left => f.fields
      /\ "setup" \in held => f.fields \/ Next1 \in {"desc", "bufs"}
      /\ "binding" \in f.left \cup f.wrong => Next1 = "desc"
      /\ "buf" \in f.left => Next1 = "bufs" /\ driver = "mxfe"
      /\ "setup" \in f.left => Next1 = "setup"
      /\ f.fields => "setup" \in held \/ Next1 = "setup"
<1> SUFFICES ASSUME NEW f \in Failures
             PROVE  /\ f.left \subseteq {"binding", "buf", "setup"} /\ f.wrong \subseteq {"binding"}
                    /\ f.fields \in BOOLEAN
                    /\ "setup" \in f.left => f.fields
                    /\ "setup" \in held => f.fields \/ Next1 \in {"desc", "bufs"}
                    /\ "binding" \in f.left \cup f.wrong => Next1 = "desc"
                    /\ "buf" \in f.left => Next1 = "bufs" /\ driver = "mxfe"
                    /\ "setup" \in f.left => Next1 = "setup"
                    /\ f.fields => "setup" \in held \/ Next1 = "setup"
  OBVIOUS
<1>1. \/ f = Clean
      \/ Next1 = "desc" /\ f = Failed({"binding"}, {"binding"}, FALSE)
      \/ Next1 = "bufs" /\ driver = "mxfe" /\ f = Failed({"buf"}, {}, FALSE)
      \/ Next1 = "setup" /\ f = Failed({"setup"}, {}, TRUE)
      \/ Next1 = "setup" /\ f = Failed({}, {}, TRUE)
  BY DEF Failures
<1>2. CASE f = Clean
  <2>1. f.left = {} /\ f.wrong = {}
    BY <1>2 DEF Clean, Failed
  <2>2. CASE "setup" \in held
    <3>1. f.fields = TRUE
      BY <1>2, <2>2 DEF Clean, Failed
    <3> QED BY <2>1, <2>2, <3>1
  <2>3. CASE "setup" \notin held
    <3>1. f.fields = FALSE
      <4>1. f = Failed({}, {}, FALSE)
        <5>1. ("setup" \in held) = FALSE
          BY <2>3
        <5>2. f = Failed({}, {}, "setup" \in held)
          BY <1>2 DEF Clean
        <5> QED BY <5>1, <5>2
      <4> QED BY <4>1 DEF Failed
    <3> QED BY <2>1, <2>3, <3>1
  <2> QED BY <2>2, <2>3
<1>3. CASE Next1 = "desc" /\ f = Failed({"binding"}, {"binding"}, FALSE)
  <2>1. f.left = {"binding"} /\ f.wrong = {"binding"} /\ f.fields = FALSE
    BY <1>3 DEF Failed
  <2> QED BY <1>3, <2>1
<1>4. CASE Next1 = "bufs" /\ driver = "mxfe" /\ f = Failed({"buf"}, {}, FALSE)
  <2>1. f.left = {"buf"} /\ f.wrong = {} /\ f.fields = FALSE
    BY <1>4 DEF Failed
  <2> QED BY <1>4, <2>1
<1>5. CASE Next1 = "setup" /\ f = Failed({"setup"}, {}, TRUE)
  <2>1. f.left = {"setup"} /\ f.wrong = {} /\ f.fields = TRUE
    BY <1>5 DEF Failed
  <2> QED BY <1>5, <2>1
<1>6. CASE Next1 = "setup" /\ f = Failed({}, {}, TRUE)
  <2>1. f.left = {} /\ f.wrong = {} /\ f.fields = TRUE
    BY <1>6 DEF Failed
  <2> QED BY <1>6, <2>1
<1> QED BY <1>1, <1>2, <1>3, <1>4, <1>5, <1>6

\* Every step of attach and detach keeps the types.
LEMMA OwnTypesKept == OwnTypeOK /\ [AttachNext]_attachVars => OwnTypeOK'
<1> SUFFICES ASSUME OwnTypeOK, [AttachNext]_attachVars PROVE OwnTypeOK'
  OBVIOUS
<1> USE DEF OwnTypeOK
<1>0. Len(Order) \in Nat /\ 1 \in 1 .. (Len(Order) + 1)
      /\ \A i \in 1 .. Len(Order) : Order[i] \in Resources \cup {"config"}
  BY OrderOfResources, LenProperties, ElementOfSeq
<1>1. driver' = driver /\ Order' = Order => (step' = 1 => step' \in 1 .. (Len(Order') + 1))
  BY <1>0
<1>2. CASE Take
  <2>1. step + 1 \in 1 .. (Len(Order) + 1) /\ Next1 \in Resources \cup {"config"}
    BY <1>0, <1>2 DEF Take, Attaching, Next1
  <2>2. Order' = Order
    BY <1>2 DEF Take, Order
  <2>3. held' \in SUBSET Resources
    <3>1. CASE Next1 = "config"
      BY <1>2, <3>1 DEF Take
    <3>2. CASE Next1 = "kstat"
      BY <1>2, <3>2 DEF Take, Resources
    <3>3. CASE Next1 \notin {"config", "kstat"}
      BY <1>2, <2>1, <3>3 DEF Take, Had
    <3> QED BY <3>1, <3>2, <3>3
  <2> QED BY <1>2, <2>1, <2>2, <2>3 DEF Take
<1>3. CASE TakeBuf
  BY <1>3 DEF TakeBuf, Order
<1>4. CASE Fail
  <2>1. ASSUME NEW x \in BOOLEAN PROVE Undo(x) \in Seq(Resources)
    <3>1. /\ <<>> \in Seq(Resources) /\ <<"pci">> \in Seq(Resources)
          /\ <<"pci", "softc", "macinfo">> \in Seq(Resources)
      BY DEF Resources
    <3> QED BY <3>1, ListsOfResources DEF Undo
  <2>2. Order' = Order
    BY <1>4 DEF Fail, Order
  <2>3. PICK f \in Failures : held' = Had \cup f.left /\ wrong' = f.wrong /\ todo' = Undo(f.fields)
    BY <1>4 DEF Fail
  <2>4. f.fields \in BOOLEAN /\ f.left \subseteq Resources /\ f.wrong \subseteq Resources
    BY <2>3, FailuresAre DEF Resources
  <2>5. held' \in SUBSET Resources /\ wrong' \in SUBSET Resources /\ todo' \in Seq(Resources)
    BY <2>1, <2>3, <2>4 DEF Had
  <2> QED BY <1>0, <1>4, <2>2, <2>5 DEF Fail
<1>5. CASE Unload
  <2>1. Order' = Order
    BY <1>5 DEF Unload, Order
  <2> QED BY <1>0, <1>5, <2>1, ListsOfResources DEF Unload
<1>6. CASE Release
  <2>1. Order' = Order
    BY <1>6 DEF Release, Order
  <2>2. Head(todo) \in Resources /\ Tail(todo) \in Seq(Resources)
    BY <1>6, HeadTailProperties DEF Release
  <2>3. held' \in SUBSET Resources /\ wrong' \in SUBSET Resources
    BY <1>6, <2>2 DEF Release
  <2> QED BY <1>6, <2>1, <2>2, <2>3 DEF Release
<1>7. ASSUME NEW w \in Ways, Enter(w) \/ Leave(w) PROVE OwnTypeOK'
  BY <1>7 DEF Enter, Leave, Order
<1>8. CASE UseBufs
  BY <1>8 DEF UseBufs, Order
<1>9. CASE UNCHANGED attachVars
  BY <1>9 DEF attachVars, Order
<1> QED BY <1>2, <1>3, <1>4, <1>5, <1>6, <1>7, <1>8, <1>9 DEF AttachNext

-----------------------------------------------------------------------------
(***************************************************************************)
(* The lists of what is to be released: what they name, and in what order. *)
(***************************************************************************)

Names(s) == {s[i] : i \in DOMAIN s}

\* No resource comes twice, and none before one that uses it.
Before(s) == \A i, j \in DOMAIN s : i < j => s[i] # s[j] /\ s[i] \notin Uses(s[j])

\* A list of the resources R in a good order.
Lists(s, R) == s \in Seq(Resources) /\ Names(s) = R /\ Before(s)

\* Two lists after one another.
LEMMA ListsConcat ==
    ASSUME NEW s, NEW A, NEW t, NEW B, Lists(s, A), Lists(t, B),
           \A x \in A, y \in B : x # y /\ x \notin Uses(y)
    PROVE  Lists(s \o t, A \cup B)
<1> USE DEF Lists
<1>1. /\ s \o t \in Seq(Resources) /\ Len(s \o t) = Len(s) + Len(t)
      /\ \A i \in 1 .. Len(s) + Len(t) :
           (s \o t)[i] = IF i <= Len(s) THEN s[i] ELSE t[i - Len(s)]
  BY ConcatProperties
<1>2. /\ Len(s) \in Nat /\ Len(t) \in Nat
      /\ DOMAIN s = 1 .. Len(s) /\ DOMAIN t = 1 .. Len(t)
      /\ DOMAIN (s \o t) = 1 .. (Len(s) + Len(t))
  BY <1>1, LenProperties
<1>3. \A i \in 1 .. (Len(s) + Len(t)) :
        \/ i \in 1 .. Len(s) /\ (s \o t)[i] = s[i]
        \/ i - Len(s) \in 1 .. Len(t) /\ i > Len(s) /\ (s \o t)[i] = t[i - Len(s)]
  BY <1>1, <1>2
<1>4. Names(s \o t) = A \cup B
  <2>1. Names(s \o t) \subseteq A \cup B
    BY <1>2, <1>3 DEF Names
  <2>2. ASSUME NEW x \in A PROVE x \in Names(s \o t)
    <3>1. PICK i \in 1 .. Len(s) : x = s[i]
      BY <1>2 DEF Names
    <3>2. i \in 1 .. (Len(s) + Len(t)) /\ (s \o t)[i] = x
      BY <1>1, <1>2, <3>1
    <3> QED BY <1>2, <3>2 DEF Names
  <2>3. ASSUME NEW x \in B PROVE x \in Names(s \o t)
    <3>1. PICK i \in 1 .. Len(t) : x = t[i]
      BY <1>2 DEF Names
    <3>2. /\ i + Len(s) \in 1 .. (Len(s) + Len(t)) /\ ~ (i + Len(s) <= Len(s))
          /\ (i + Len(s)) - Len(s) = i
      BY <1>2
    <3>3. (s \o t)[i + Len(s)] = x
      BY <1>1, <3>1, <3>2
    <3> QED BY <1>2, <3>2, <3>3 DEF Names
  <2> QED BY <2>1, <2>2, <2>3
<1>5. Before(s \o t)
  <2> SUFFICES ASSUME NEW i \in DOMAIN (s \o t), NEW j \in DOMAIN (s \o t), i < j
               PROVE  (s \o t)[i] # (s \o t)[j] /\ (s \o t)[i] \notin Uses((s \o t)[j])
    BY DEF Before
  <2>1. CASE j <= Len(s)
    BY <1>1, <1>2, <2>1 DEF Before
  <2>2. CASE i <= Len(s) /\ ~ (j <= Len(s))
    <3>1. (s \o t)[i] = s[i] /\ s[i] \in A
      BY <1>1, <1>2, <2>2 DEF Names
    <3>2. (s \o t)[j] = t[j - Len(s)] /\ t[j - Len(s)] \in B
      BY <1>1, <1>2, <2>2 DEF Names
    <3> QED BY <3>1, <3>2
  <2>3. CASE ~ (i <= Len(s))
    <3>1. i - Len(s) \in DOMAIN t /\ j - Len(s) \in DOMAIN t /\ i - Len(s) < j - Len(s)
      BY <1>2, <2>3
    <3>2. (s \o t)[i] = t[i - Len(s)] /\ (s \o t)[j] = t[j - Len(s)]
      BY <1>1, <1>2, <2>3
    <3> QED BY <3>1, <3>2 DEF Before
  <2> QED BY <1>2, <2>1, <2>2, <2>3
<1> QED BY <1>1, <1>4, <1>5

\* The rest of a list, when its head has been released.
LEMMA ListsTail ==
    ASSUME NEW s \in Seq(Resources), s # <<>>, Before(s)
    PROVE  /\ Head(s) \in Names(s) /\ Lists(Tail(s), Names(s) \ {Head(s)})
           /\ \A w \in Names(s) : w # Head(s) => Head(s) \notin Uses(w)
<1>1. /\ Head(s) = s[1] /\ Tail(s) \in Seq(Resources) /\ Len(Tail(s)) = Len(s) - 1
      /\ \A i \in 1 .. Len(Tail(s)) : Tail(s)[i] = s[i + 1]
  BY HeadTailProperties
<1>2. /\ Len(s) \in Nat \ {0} /\ DOMAIN s = 1 .. Len(s)
      /\ DOMAIN Tail(s) = 1 .. (Len(s) - 1)
  BY <1>1, EmptySeq, LenProperties
<1>3. Head(s) \in Names(s)
  BY <1>1, <1>2 DEF Names
<1>4. \A i \in 1 .. (Len(s) - 1) : i + 1 \in DOMAIN s /\ 1 < i + 1 /\ Tail(s)[i] = s[i + 1]
  BY <1>1, <1>2
<1>5. Names(Tail(s)) = Names(s) \ {Head(s)}
  <2>1. Names(Tail(s)) \subseteq Names(s) \ {Head(s)}
    BY <1>1, <1>2, <1>4 DEF Names, Before
  <2>2. ASSUME NEW x \in Names(s), x # Head(s) PROVE x \in Names(Tail(s))
    <3>1. PICK i \in 1 .. Len(s) : x = s[i]
      BY <1>2 DEF Names
    <3>2. i - 1 \in 1 .. (Len(s) - 1) /\ (i - 1) + 1 = i
      BY <1>1, <1>2, <2>2, <3>1
    <3> QED BY <1>2, <1>4, <3>1, <3>2 DEF Names
  <2> QED BY <2>1, <2>2
<1>6. Before(Tail(s))
  BY <1>2, <1>4 DEF Before
<1>7. \A w \in Names(s) : w # Head(s) => Head(s) \notin Uses(w)
  <2> SUFFICES ASSUME NEW i \in DOMAIN s, s[i] # Head(s) PROVE Head(s) \notin Uses(s[i])
    BY DEF Names
  <2>1. 1 \in DOMAIN s /\ 1 < i
    BY <1>1, <1>2
  <2> QED BY <1>1, <2>1 DEF Before
<1> QED BY <1>1, <1>3, <1>5, <1>6, <1>7 DEF Lists

\* Who uses what.
LEMMA UsesFacts ==
    /\ Uses("intr") = {"macinfo", "softc", "locks", "kstat", "regs", "desc", "bufs", "setup"}
    /\ Uses("gld") = Resources \ {"pci", "gld"}
    /\ \A w \in {"bufs", "locks", "ndd", "regs", "setup"} : Uses(w) = {"softc"}
    /\ \A w \in {"pci", "macinfo", "softc", "kstat", "desc", "binding", "buf"} : Uses(w) = {}
BY DEF Uses

\* Short lists.
LEMMA ListsShort ==
    /\ Lists(<<>>, {})
    /\ \A x \in Resources : Lists(<<x>>, {x})
    /\ \A x, y \in Resources : x # y /\ x \notin Uses(y) => Lists(<<x, y>>, {x, y})
BY DEF Lists, Names, Before

Kept(r) == IF r \in held THEN {r} ELSE {}

\* A resource that is released if it is held.
LEMMA ListsIfHeld == \A r \in Resources : Lists(IfHeld(r), Kept(r))
BY ListsShort DEF IfHeld, Kept

AfeFailedNames ==
    {"intr", "ndd", "locks", "softc", "macinfo"} \cup Kept("kstat") \cup Kept("regs")
      \cup (IF "desc" \in held THEN {"bufs", "desc"} ELSE {})

MxfeFailedNames(x) ==
    {"intr", "ndd", "locks", "bufs", "softc", "macinfo"}
      \cup Kept("kstat") \cup Kept("regs") \cup (IF x THEN {"setup"} ELSE {})
      \cup (IF Next1 = "regs" THEN {"pci"} ELSE {})

\* The way back from a failure of afe_attach.
LEMMA AfeFailedLists == Lists(AfeFailed, AfeFailedNames)
<1> USE DEF Kept
<1>0. {"intr", "kstat", "ndd", "locks", "bufs", "desc", "regs", "softc", "macinfo"}
        \subseteq Resources
  BY DEF Resources
<1> DEFINE rings == IF "desc" \in held THEN <<"bufs", "desc">> ELSE <<>>
           ringNames == IF "desc" \in held THEN {"bufs", "desc"} ELSE {}
<1>1. /\ Lists(<<"intr">>, {"intr"}) /\ Lists(IfHeld("kstat"), Kept("kstat"))
      /\ Lists(<<"ndd", "locks">>, {"ndd", "locks"}) /\ Lists(rings, ringNames)
      /\ Lists(IfHeld("regs"), Kept("regs"))
      /\ Lists(<<"softc", "macinfo">>, {"softc", "macinfo"})
  BY <1>0, ListsShort, ListsIfHeld, UsesFacts
<1>2. Lists(<<"intr">> \o IfHeld("kstat"), {"intr"} \cup Kept("kstat"))
  BY <1>1, ListsConcat, UsesFacts
<1>3. Lists(<<"intr">> \o IfHeld("kstat") \o <<"ndd", "locks">>,
            {"intr"} \cup Kept("kstat") \cup {"ndd", "locks"})
  BY <1>1, <1>2, ListsConcat, UsesFacts
<1>4. Lists(<<"intr">> \o IfHeld("kstat") \o <<"ndd", "locks">> \o rings,
            {"intr"} \cup Kept("kstat") \cup {"ndd", "locks"} \cup ringNames)
  BY <1>1, <1>3, ListsConcat, UsesFacts
<1>5. Lists(<<"intr">> \o IfHeld("kstat") \o <<"ndd", "locks">> \o rings \o IfHeld("regs"),
            {"intr"} \cup Kept("kstat") \cup {"ndd", "locks"} \cup ringNames \cup Kept("regs"))
  BY <1>1, <1>4, ListsConcat, UsesFacts
<1>6. Lists(AfeFailed,
            {"intr"} \cup Kept("kstat") \cup {"ndd", "locks"} \cup ringNames \cup Kept("regs")
              \cup {"softc", "macinfo"})
  BY <1>1, <1>5, ListsConcat, UsesFacts DEF AfeFailed
<1>7. {"intr"} \cup Kept("kstat") \cup {"ndd", "locks"} \cup ringNames \cup Kept("regs")
        \cup {"softc", "macinfo"} = AfeFailedNames
  BY DEF AfeFailedNames
<1> QED BY <1>6, <1>7

\* The way back from a failure of mxfe_attach.
LEMMA MxfeFailedLists ==
    ASSUME NEW x \in BOOLEAN
    PROVE  Lists(MxfeFailed(x), MxfeFailedNames(x))
<1> USE DEF Kept
<1>0. {"pci", "intr", "kstat", "ndd", "locks", "setup", "bufs", "regs", "softc", "macinfo"}
        \subseteq Resources
  BY DEF Resources
<1> DEFINE pci == IF Next1 = "regs" THEN <<"pci">> ELSE <<>>
           pciNames == IF Next1 = "regs" THEN {"pci"} ELSE {}
           setup == IF x THEN <<"setup">> ELSE <<>>
           setupNames == IF x THEN {"setup"} ELSE {}
<1>1. /\ Lists(pci, pciNames)
      /\ Lists(<<"intr">>, {"intr"}) /\ Lists(IfHeld("kstat"), Kept("kstat"))
      /\ Lists(<<"ndd", "locks">>, {"ndd", "locks"})
      /\ Lists(setup, setupNames) /\ Lists(<<"bufs">>, {"bufs"})
      /\ Lists(IfHeld("regs"), Kept("regs"))
      /\ Lists(<<"softc", "macinfo">>, {"softc", "macinfo"})
  BY <1>0, ListsShort, ListsIfHeld, UsesFacts
<1>2. Lists(pci \o <<"intr">>, pciNames \cup {"intr"})
  BY <1>1, ListsConcat, UsesFacts
<1>3. Lists(pci \o <<"intr">> \o IfHeld("kstat"), pciNames \cup {"intr"} \cup Kept("kstat"))
  BY <1>1, <1>2, ListsConcat, UsesFacts
<1> DEFINE first == pciNames \cup {"intr"} \cup Kept("kstat") \cup {"ndd", "locks"}
<1>4. Lists(pci \o <<"intr">> \o IfHeld("kstat") \o <<"ndd", "locks">>, first)
  BY <1>1, <1>3, ListsConcat, UsesFacts
<1>5. Lists(pci \o <<"intr">> \o IfHeld("kstat") \o <<"ndd", "locks">> \o setup,
            first \cup setupNames)
  BY <1>1, <1>4, ListsConcat, UsesFacts
<1>6. Lists(pci \o <<"intr">> \o IfHeld("kstat") \o <<"ndd", "locks">> \o setup
              \o <<"bufs">>,
            first \cup setupNames \cup {"bufs"})
  BY <1>1, <1>5, ListsConcat, UsesFacts
<1>7. Lists(pci \o <<"intr">> \o IfHeld("kstat") \o <<"ndd", "locks">> \o setup
              \o <<"bufs">> \o IfHeld("regs"),
            first \cup setupNames \cup {"bufs"} \cup Kept("regs"))
  BY <1>1, <1>6, ListsConcat, UsesFacts
<1>8. Lists(MxfeFailed(x),
            first \cup setupNames \cup {"bufs"} \cup Kept("regs") \cup {"softc", "macinfo"})
  BY <1>1, <1>7, ListsConcat, UsesFacts DEF MxfeFailed
<1>9. first \cup setupNames \cup {"bufs"} \cup Kept("regs") \cup {"softc", "macinfo"}
        = MxfeFailedNames(x)
  BY DEF MxfeFailedNames
<1> QED BY <1>8, <1>9

AfeDetachNames ==
    {"gld", "intr", "bufs", "desc", "ndd", "regs", "locks", "softc", "macinfo"}
      \cup Kept("kstat")

\* What afe_detach releases.
LEMMA AfeDetachLists == Lists(AfeDetach, AfeDetachNames)
<1>1. Lists(<<"gld", "intr", "bufs", "desc">>, {"gld", "intr", "bufs", "desc"})
  BY UsesFacts DEF Lists, Names, Before, Resources
<1>2. Lists(<<"ndd", "regs", "locks", "softc", "macinfo">>,
            {"ndd", "regs", "locks", "softc", "macinfo"})
  BY UsesFacts DEF Lists, Names, Before, Resources
<1>3. Lists(IfHeld("kstat"), Kept("kstat"))
  BY ListsIfHeld DEF Resources
<1>4. Lists(<<"gld", "intr", "bufs", "desc">> \o IfHeld("kstat"),
            {"gld", "intr", "bufs", "desc"} \cup Kept("kstat"))
  BY <1>1, <1>3, ListsConcat, UsesFacts DEF Kept
<1>5. Lists(AfeDetach, {"gld", "intr", "bufs", "desc"} \cup Kept("kstat")
                         \cup {"ndd", "regs", "locks", "softc", "macinfo"})
  BY <1>2, <1>4, ListsConcat, UsesFacts DEF AfeDetach, Kept
<1>6. {"gld", "intr", "bufs", "desc"} \cup Kept("kstat")
        \cup {"ndd", "regs", "locks", "softc", "macinfo"} = AfeDetachNames
  BY DEF AfeDetachNames
<1> QED BY <1>5, <1>6

MxfeDetachNames ==
    {"gld", "intr", "bufs", "setup", "ndd", "regs", "locks", "softc", "macinfo"}
      \cup Kept("kstat")

\* What mxfe_detach releases.
LEMMA MxfeDetachLists == Lists(MxfeDetach, MxfeDetachNames)
<1>1. Lists(<<"gld", "intr">>, {"gld", "intr"})
  BY UsesFacts DEF Lists, Names, Before, Resources
<1>2. Lists(<<"bufs", "setup", "ndd", "regs", "locks", "softc", "macinfo">>,
            {"bufs", "setup", "ndd", "regs", "locks", "softc", "macinfo"})
  BY UsesFacts DEF Lists, Names, Before, Resources
<1>3. Lists(IfHeld("kstat"), Kept("kstat"))
  BY ListsIfHeld DEF Resources
<1>4. Lists(<<"gld", "intr">> \o IfHeld("kstat"), {"gld", "intr"} \cup Kept("kstat"))
  BY <1>1, <1>3, ListsConcat, UsesFacts DEF Kept
<1>5. Lists(MxfeDetach, {"gld", "intr"} \cup Kept("kstat")
                          \cup {"bufs", "setup", "ndd", "regs", "locks", "softc", "macinfo"})
  BY <1>2, <1>4, ListsConcat, UsesFacts DEF MxfeDetach, Kept
<1>6. {"gld", "intr"} \cup Kept("kstat")
        \cup {"bufs", "setup", "ndd", "regs", "locks", "softc", "macinfo"} = MxfeDetachNames
  BY DEF MxfeDetachNames
<1> QED BY <1>5, <1>6

-----------------------------------------------------------------------------
(***************************************************************************)
(* What is held at each step.                                              *)
(***************************************************************************)

\* mxfe has one resource more than afe, the setup frame.
More == IF driver = "mxfe" THEN 1 ELSE 0

\* The order of attach.
LEMMA OrderFacts ==
    ASSUME driver \in {"afe", "mxfe"}
    PROVE  /\ Len(Order) = 12 + More
           /\ Order[1] = "pci" /\ Order[2] = "macinfo" /\ Order[3] = "softc"
           /\ Order[4] = "locks" /\ Order[5] = "ndd" /\ Order[6] = "kstat"
           /\ Order[7] = "config" /\ Order[8] = "regs" /\ Order[9] = "desc"
           /\ Order[10] = "bufs"
           /\ driver = "mxfe" => Order[11] = "setup"
           /\ Order[11 + More] = "intr" /\ Order[12 + More] = "gld"
<1> DEFINE All == Resources \cup {"config"}
           start == <<"pci", "macinfo", "softc", "locks", "ndd", "kstat", "config", "regs",
                      "desc", "bufs">>
           extra == IF driver = "mxfe" THEN <<"setup">> ELSE <<>>
           end == <<"intr", "gld">>
<1>1. start \in Seq(All) /\ extra \in Seq(All) /\ end \in Seq(All)
  <2>1. {"pci", "macinfo", "softc", "locks", "ndd", "kstat", "config", "regs", "desc",
         "bufs", "setup", "intr", "gld"} \subseteq All
    BY DEF Resources
  <2> HIDE DEF All
  <2>2. start \in Seq(All)
    BY <2>1
  <2>3. <<"setup">> \in Seq(All) /\ <<>> \in Seq(All)
    BY <2>1
  <2>4. end \in Seq(All)
    BY <2>1
  <2> QED BY <2>2, <2>3, <2>4
<1>2. Len(start) = 10 /\ Len(extra) = More /\ Len(end) = 2
  BY DEF More
<1>3. /\ start[1] = "pci" /\ start[2] = "macinfo" /\ start[3] = "softc"
      /\ start[4] = "locks" /\ start[5] = "ndd" /\ start[6] = "kstat"
      /\ start[7] = "config" /\ start[8] = "regs" /\ start[9] = "desc" /\ start[10] = "bufs"
      /\ driver = "mxfe" => extra[1] = "setup"
      /\ end[1] = "intr" /\ end[2] = "gld"
  OBVIOUS
<1>4. Order = start \o extra \o end
  BY DEF Order
<1>5. More \in {0, 1} /\ (driver = "mxfe" => More = 1)
  BY DEF More
<1> HIDE DEF All, start, extra, end
<1> DEFINE both == start \o extra
<1>6. /\ both \in Seq(All) /\ Len(both) = 10 + More
      /\ \A i \in 1 .. (10 + More) : both[i] = IF i <= 10 THEN start[i] ELSE extra[i - 10]
  <2>1. /\ both \in Seq(All) /\ Len(both) = Len(start) + Len(extra)
        /\ \A i \in 1 .. (Len(start) + Len(extra)) :
             both[i] = IF i <= Len(start) THEN start[i] ELSE extra[i - Len(start)]
    BY <1>1, ConcatProperties
  <2> HIDE DEF both
  <2> QED BY <1>2, <2>1
<1>7. /\ Len(Order) = 12 + More
      /\ \A i \in 1 .. (12 + More) :
           Order[i] = IF i <= 10 + More THEN both[i] ELSE end[i - (10 + More)]
  <2> HIDE DEF both
  <2>1. /\ Len(both \o end) = Len(both) + Len(end)
        /\ \A i \in 1 .. (Len(both) + Len(end)) :
             (both \o end)[i] = IF i <= Len(both) THEN both[i] ELSE end[i - Len(both)]
    BY <1>1, <1>6, ConcatProperties
  <2>2. Len(both) + Len(end) = 12 + More
    BY <1>2, <1>5, <1>6
  <2>3. Order = both \o end
    BY <1>4 DEF both
  <2> QED BY <1>2, <1>6, <2>1, <2>2, <2>3
<1> HIDE DEF both
<1>8. \A i \in 1 .. 10 : Order[i] = start[i]
  BY <1>5, <1>6, <1>7
<1>9. driver = "mxfe" => Order[11] = extra[1]
  BY <1>5, <1>6, <1>7
<1>10. Order[11 + More] = end[1] /\ Order[12 + More] = end[2]
  BY <1>5, <1>7
<1> QED BY <1>3, <1>7, <1>8, <1>9, <1>10

\* While attach is under way and when it is done.  Before it begins the last one
\* has left nothing but Abandoned.
TakeInv ==
    todo = <<>> =>
      /\ step = 1 => held \subseteq Abandoned
      /\ step > 1 => wrong = {}
      /\ "pci" \in Had <=> step \in 2 .. 7
      /\ "macinfo" \in Had <=> step > 2
      /\ "softc" \in Had <=> step > 3
      /\ "locks" \in Had <=> step > 4
      /\ "ndd" \in Had <=> step > 5
      /\ "kstat" \in Had => step > 6
      /\ "regs" \in Had <=> step > 8
      /\ "desc" \in Had <=> step > 9
      /\ "bufs" \in Had <=> step > 10
      /\ "setup" \in Had <=> driver = "mxfe" /\ step > 11
      /\ "intr" \in Had <=> step > 11 + More
      /\ "gld" \in Had <=> step > 12 + More
      /\ "binding" \notin Had /\ "buf" \notin Had
      /\ phase = IF step <= 9 THEN "detached"
                 ELSE IF step = 10 THEN "allocating" ELSE "attached"

\* While something is left to be released.
ReleaseInv ==
    /\ Before(todo)
    /\ todo # <<>> =>
         /\ step = 1
         /\ held \subseteq Names(todo) \cup Abandoned
         /\ \A r \in Names(todo) :
              r \in held \cup Untaken \/ (r = "bufs" /\ phase = "allocating")
         /\ phase # "detached" => "bufs" \in Names(todo)
         /\ "gld" \in held => cause = "detach"

\* Nobody is inside the driver by a way that is closed.
BusyInv == busy \subseteq held

\* A buffer in somebody's hands is in the hands of a thread that is inside, and
\* buffers are out of the table only from gld_register to the loops of detach.
HandsInv ==
    /\ hands \in [Ways -> SUBSET out]
    /\ hands["intr"] \cap hands["gld"] = {}
    /\ \A w \in Ways : hands[w] # {} => w \in busy
    /\ out # {} => \/ todo = <<>> /\ "gld" \in held
                   \/ todo # <<>> /\ cause = "detach"

AttachInv ==
    /\ OwnTypeOK /\ TabInv /\ TakeInv /\ ReleaseInv /\ BusyInv /\ OnlyTaken /\ HandsInv

\* What the paths leave behind is used by nobody, and lets nobody in.
LEMMA AbandonedFacts ==
    Abandoned \subseteq {"binding", "desc", "buf"} /\ Untaken \subseteq Resources
BY DEF Abandoned, Untaken, Resources

\* What is held at a step, in one place.
LEMMA HeldFacts ==
    ASSUME AttachInv, todo = <<>>
    PROVE  /\ held \subseteq Resources /\ driver \in {"afe", "mxfe"}
           /\ More \in {0, 1} /\ (More = 1 <=> driver = "mxfe")
           /\ step \in 1 .. (13 + More) /\ (step > 1 => Had = held)
<1>1. driver \in {"afe", "mxfe"} /\ step \in 1 .. (Len(Order) + 1) /\ held \subseteq Resources
  BY DEF AttachInv, OwnTypeOK
<1>2. More \in {0, 1} /\ (More = 1 <=> driver = "mxfe")
  BY <1>1 DEF More
<1>3. Len(Order) + 1 = 13 + More
  BY <1>1, <1>2, OrderFacts
<1> QED BY <1>1, <1>2, <1>3 DEF Had

\* Before attach is done GLD calls nothing: no buffer is out of the table.
LEMMA NoBuffersOut ==
    ASSUME AttachInv, Attaching
    PROVE  out = {} /\ "gld" \notin held /\ hands = [w \in Ways |-> {}]
<1>1. step \in 1 .. (12 + More) /\ More \in {0, 1} /\ todo = <<>>
  BY HeldFacts, OrderFacts DEF Attaching
<1>2. "gld" \notin held
  <2>1. CASE step = 1
    BY <1>1, <2>1, AbandonedFacts DEF AttachInv, TakeInv
  <2>2. CASE step # 1
    <3>1. "gld" \notin Had /\ Had = held
      BY <1>1, <2>2, HeldFacts DEF AttachInv, TakeInv
    <3> QED BY <3>1
  <2> QED BY <2>1, <2>2
<1>3. out = {}
  BY <1>1, <1>2 DEF AttachInv, HandsInv
<1> QED BY <1>2, <1>3 DEF AttachInv, HandsInv, Ways

\* One resource more.
LEMMA TakeKeeps ==
    ASSUME AttachInv, Take
    PROVE  TakeInv' /\ ReleaseInv' /\ BusyInv' /\ OnlyTaken' /\ HandsInv' /\ [TabNext]_tabVars
<1>0. /\ todo = <<>> /\ todo' = <<>> /\ step' = step + 1 /\ driver' = driver
      /\ busy' = busy /\ wrong' = {} /\ hands' = hands
      /\ step \in 1 .. (12 + More) /\ More \in {0, 1} /\ (More = 1 <=> driver = "mxfe")
      /\ More' = More
      /\ driver \in {"afe", "mxfe"} /\ held \subseteq Resources
      /\ (step > 1 => Had = held)
  <2>1. /\ todo = <<>> /\ todo' = <<>> /\ step' = step + 1 /\ driver' = driver
        /\ busy' = busy /\ wrong' = {} /\ hands' = hands /\ step <= Len(Order)
    BY DEF Take, Attaching
  <2>2. /\ driver \in {"afe", "mxfe"} /\ held \subseteq Resources /\ step \in 1 .. (13 + More)
        /\ More \in {0, 1} /\ (More = 1 <=> driver = "mxfe") /\ (step > 1 => Had = held)
    BY <2>1, HeldFacts
  <2>3. More' = More /\ Len(Order) = 12 + More
    BY <2>1, <2>2, OrderFacts DEF More
  <2> QED BY <2>1, <2>2, <2>3
<1>1. /\ CASE Next1 = "config" -> held' = held \ {"pci"}
           [] Next1 = "kstat" -> held' \in {held, held \cup {"kstat"}}
           [] OTHER -> held' = Had \cup {Next1}
      /\ Next1 = "desc" => phase' = "allocating"
      /\ Next1 = "bufs" => phase' = "attached"
      /\ Next1 \notin {"desc", "bufs"} => phase' = phase
      /\ out' = out
  BY DEF Take, Allocate, AllocDone, tabVars
<1>2. TakeInv'
  <2>1. /\ step = 1 => Next1 = "pci"
        /\ step = 2 => Next1 = "macinfo"
        /\ step = 3 => Next1 = "softc"
        /\ step = 4 => Next1 = "locks"
        /\ step = 5 => Next1 = "ndd"
        /\ step = 6 => Next1 = "kstat"
        /\ step = 7 => Next1 = "config"
        /\ step = 8 => Next1 = "regs"
        /\ step = 9 => Next1 = "desc"
        /\ step = 10 => Next1 = "bufs"
        /\ driver = "mxfe" /\ step = 11 => Next1 = "setup"
        /\ step = 11 + More => Next1 = "intr"
        /\ step = 12 + More => Next1 = "gld"
    BY <1>0, OrderFacts DEF Next1
  <2> HIDE DEF Next1
  <2>2. step = 1 \/ step \in 2 .. 5 \/ step = 6 \/ step = 7 \/ step = 8 \/ step = 9 \/ step = 10
        \/ (driver = "mxfe" /\ step = 11) \/ step = 11 + More \/ step = 12 + More
    BY <1>0
  <2>3. Had' = held'
    BY <1>0 DEF Had
  <2>4. TakeInv /\ ("pci" \in Had => step # 1)
    BY DEF AttachInv, Had
  <2> USE DEF TakeInv
  <2>5. CASE step = 1
    <3>1. held' = {"pci"} /\ phase' = "detached"
      BY <1>0, <1>1, <2>1, <2>4, <2>5 DEF Had
    <3> QED BY <1>0, <2>3, <2>5, <3>1
  <2>6. CASE step \in 2 .. 5
    BY <1>0, <1>1, <2>1, <2>3, <2>4, <2>6
  <2>7. CASE step = 6 \/ step = 7
    BY <1>0, <1>1, <2>1, <2>3, <2>4, <2>7
  <2>8. CASE step = 8 \/ step = 9
    BY <1>0, <1>1, <2>1, <2>3, <2>4, <2>8
  <2>9. CASE step = 10
    BY <1>0, <1>1, <2>1, <2>3, <2>4, <2>9
  <2>10. CASE driver = "mxfe" /\ step = 11
    BY <1>0, <1>1, <2>1, <2>3, <2>4, <2>10
  <2>11. CASE step = 11 + More \/ step = 12 + More
    BY <1>0, <1>1, <2>1, <2>3, <2>4, <2>11
  <2> QED BY <2>2, <2>5, <2>6, <2>7, <2>8, <2>9, <2>10, <2>11
<1>3. BusyInv'
  <2>1. "pci" \notin busy /\ busy \subseteq held /\ busy \subseteq Ways
    BY DEF AttachInv, OwnTypeOK, BusyInv, Ways
  <2>2. CASE step = 1
    <3>1. busy \subseteq Abandoned
      BY <1>0, <2>1, <2>2 DEF AttachInv, TakeInv
    <3>2. busy = {}
      BY <2>1, <3>1, AbandonedFacts DEF Ways
    <3> QED BY <1>0, <3>2 DEF BusyInv
  <2>3. CASE step # 1
    <3>1. held \ {"pci"} \subseteq held'
      BY <1>0, <1>1, <2>3
    <3> QED BY <1>0, <2>1, <3>1 DEF BusyInv
  <2> QED BY <2>2, <2>3
<1>4. HandsInv'
  BY <1>0, <1>1, NoBuffersOut DEF HandsInv, AttachInv, Take
<1>5. [TabNext]_tabVars
  BY DEF Take, TabNext
<1> QED BY <1>0, <1>2, <1>3, <1>4, <1>5 DEF ReleaseInv, AttachInv, OnlyTaken

\* A list of what is to be released is good if it names what is held, what is
\* known to be left behind excepted, and no more than that and what is excused.
LEMMA ReleaseStarts ==
    ASSUME NEW R, R # {}, Lists(todo', R), step' = 1, UNCHANGED phase,
           held' \subseteq R \cup Abandoned',
           \A r \in R : r \in held' \cup Untaken' \/ (r = "bufs" /\ phase = "allocating"),
           phase # "detached" => "bufs" \in R,
           "gld" \in held' => cause' = "detach"
    PROVE  TakeInv' /\ ReleaseInv'
<1>1. todo' # <<>>
  BY DEF Lists, Names
<1>2. Names(todo') = R
  BY DEF Lists
<1> QED BY <1>1, <1>2 DEF TakeInv, ReleaseInv, Lists

\* The steps of attach by the name of what they take.
LEMMA StepNames ==
    ASSUME AttachInv, Attaching
    PROVE  /\ step = 1 <=> Next1 = "pci"
           /\ step = 2 <=> Next1 = "macinfo"
           /\ step = 4 <=> Next1 = "locks"
           /\ step = 8 <=> Next1 = "regs"
           /\ step = 9 <=> Next1 = "desc"
           /\ step = 10 <=> Next1 = "bufs"
           /\ driver = "mxfe" /\ step = 11 <=> Next1 = "setup"
           /\ step = 11 + More <=> Next1 = "intr"
           /\ step = 12 + More <=> Next1 = "gld"
           /\ Next1 \in MayFail => step \in {1, 2, 4} \/ step >= 8
<1>1. step \in 1 .. (12 + More) /\ More \in {0, 1} /\ (More = 1 <=> driver = "mxfe")
      /\ driver \in {"afe", "mxfe"}
  BY HeldFacts, OrderFacts DEF Attaching
<1>2. step \in 1 .. 10 \/ (driver = "mxfe" /\ step = 11)
      \/ step = 11 + More \/ step = 12 + More
  BY <1>1
<1>3. CASE step \in 1 .. 10
  <2>1. step \in {1, 2, 3, 4, 5, 6, 7, 8, 9, 10} /\ step < 11 + More
    BY <1>1, <1>3
  <2> QED BY <1>1, <2>1, OrderFacts DEF Next1, MayFail
<1>4. CASE driver = "mxfe" /\ step = 11
  <2>1. Next1 = "setup" /\ More = 1
    BY <1>1, <1>4, OrderFacts DEF Next1
  <2> QED BY <1>4, <2>1
<1>5. CASE step = 11 + More
  <2>1. Next1 = "intr" /\ step > 10 /\ ~ (driver = "mxfe" /\ step = 11)
    BY <1>1, <1>5, OrderFacts DEF Next1
  <2> QED BY <1>1, <1>5, <2>1
<1>6. CASE step = 12 + More
  <2>1. Next1 = "gld" /\ step > 10 /\ ~ (driver = "mxfe" /\ step = 11)
    BY <1>1, <1>6, OrderFacts DEF Next1
  <2> QED BY <1>1, <1>6, <2>1
<1> QED BY <1>2, <1>3, <1>4, <1>5, <1>6

\* A failure at any resource: what is released then is what was taken.
LEMMA FailKeeps ==
    ASSUME AttachInv, Fail
    PROVE  TakeInv' /\ ReleaseInv' /\ BusyInv' /\ OnlyTaken' /\ HandsInv' /\ [TabNext]_tabVars
<1>0. /\ Attaching /\ todo = <<>> /\ Next1 \in MayFail /\ step' = 1 /\ cause' = Next1
      /\ UNCHANGED <<driver, busy, hands, phase, out, tabVars>>
  BY DEF Fail, Attaching, tabVars
<1>f. PICK f \in Failures : held' = Had \cup f.left /\ wrong' = f.wrong /\ todo' = Undo(f.fields)
  BY DEF Fail
<1>a. TakeInv /\ todo = <<>>
  BY <1>0 DEF AttachInv
<1>b. /\ held \subseteq Resources /\ driver \in {"afe", "mxfe"}
      /\ More \in {0, 1} /\ (More = 1 <=> driver = "mxfe") /\ step \in 1 .. (12 + More)
      /\ (step > 1 => Had = held)
  BY <1>0, HeldFacts, OrderFacts DEF Attaching
<1>d. /\ step = 1 <=> Next1 = "pci"
      /\ step = 2 <=> Next1 = "macinfo"
      /\ step = 4 <=> Next1 = "locks"
      /\ step = 8 <=> Next1 = "regs"
      /\ step = 9 <=> Next1 = "desc"
      /\ step = 10 <=> Next1 = "bufs"
      /\ driver = "mxfe" /\ step = 11 <=> Next1 = "setup"
      /\ step = 11 + More <=> Next1 = "intr"
      /\ step = 12 + More <=> Next1 = "gld"
      /\ step \in {1, 2, 4} \/ step >= 8
  BY <1>0, StepNames
<1>g. /\ f.left \subseteq {"binding", "buf", "setup"} /\ f.wrong \subseteq {"binding"}
      /\ f.fields \in BOOLEAN
      /\ "setup" \in f.left \cup held => f.fields
      /\ "binding" \in f.left \cup f.wrong => Next1 = "desc"
      /\ "buf" \in f.left => Next1 = "bufs" /\ driver = "mxfe"
      /\ "setup" \in f.left => Next1 = "setup"
      /\ f.fields => "setup" \in held \/ Next1 = "setup"
  <2>1. "setup" \in held => Next1 \notin {"desc", "bufs"}
    <3>1. "setup" \in Had => step > 11
      BY <1>a DEF TakeInv
    <3>2. Next1 \in {"desc", "bufs"} => step = 9 \/ step = 10
      BY <1>d
    <3> QED BY <1>b, <3>1, <3>2
  <2> QED BY <1>f, <2>1, FailuresAre
<1>c. out = {} /\ "gld" \notin held /\ "gld" \notin held'
  BY <1>0, <1>f, <1>g, NoBuffersOut DEF Had
<1> HIDE DEF Next1
<1>e. /\ Abandoned' = CASE Next1 = "desc" -> {"binding"}
             [] Next1 \in {"setup", "intr", "gld", "detach"} /\ driver = "mxfe" -> {"desc"}
             [] Next1 = "bufs" /\ driver = "mxfe" -> {"desc", "buf"}
             [] OTHER -> {}
      /\ Untaken' = CASE Next1 = "regs" ->
                {"intr"} \cup IF driver = "mxfe" THEN {"pci", "bufs"} ELSE {}
             [] Next1 = "desc" ->
                {"intr", "binding"} \cup IF driver = "mxfe" THEN {"bufs"} ELSE {}
             [] Next1 = "setup" -> {"intr", "setup"}
             [] Next1 \in {"bufs", "intr"} -> {"intr"}
             [] OTHER -> {}
  BY <1>0 DEF Abandoned, Untaken
<1>1. TakeInv' /\ ReleaseInv'
  <2>1. CASE Next1 = "pci"
    <3>1. step = 1 /\ todo' = <<>>
      BY <1>d, <1>f, <2>1 DEF Undo
    <3>2. More' = More /\ held' = {} /\ Had' = {}
      BY <1>0, <1>f, <1>g, <2>1, <3>1 DEF More, Had
    <3>3. Before(todo')
      BY <3>1 DEF Before
    <3>4. phase' = "detached"
      BY <1>0, <1>a, <3>1 DEF TakeInv
    <3> QED BY <1>0, <1>b, <3>1, <3>2, <3>3, <3>4 DEF TakeInv, ReleaseInv
  <2>2. CASE Next1 = "macinfo"
    <3>1. step = 2 /\ Lists(todo', {"pci"})
      BY <1>d, <1>f, <2>2, ListsShort DEF Undo, Resources
    <3>2. held' = held /\ held \subseteq {"pci"} /\ "pci" \in held /\ phase = "detached"
      BY <1>a, <1>b, <1>f, <1>g, <2>2, <3>1 DEF TakeInv, Resources
    <3> QED BY <1>0, <1>c, <3>1, <3>2, ReleaseStarts
  <2>3. CASE Next1 = "locks"
    <3>1. step = 4 /\ todo' = <<"pci", "softc", "macinfo">>
      BY <1>d, <1>f, <2>3 DEF Undo
    <3>2. Lists(<<"pci", "softc", "macinfo">>, {"pci", "softc", "macinfo"})
      BY UsesFacts DEF Lists, Names, Before, Resources
    <3>3. /\ held' = held /\ held \subseteq {"pci", "softc", "macinfo"}
          /\ {"pci", "softc", "macinfo"} \subseteq held /\ phase = "detached"
      BY <1>a, <1>b, <1>f, <1>g, <2>3, <3>1 DEF TakeInv, Resources
    <3> QED BY <1>0, <1>c, <3>1, <3>2, <3>3, ReleaseStarts
  <2>4. CASE Next1 \notin {"pci", "macinfo", "locks"} /\ driver = "afe"
    <3>1. step >= 8 /\ todo' = AfeFailed
      BY <1>d, <1>f, <2>4 DEF Undo
    <3>2. /\ "pci" \notin held /\ {"macinfo", "softc", "locks", "ndd"} \subseteq held
          /\ "binding" \notin held /\ "buf" \notin held /\ "setup" \notin held
          /\ held' = held \cup f.left /\ "buf" \notin f.left /\ "setup" \notin f.left
      BY <1>a, <1>b, <1>d, <1>f, <1>g, <2>4, <3>1 DEF TakeInv
    <3>3. "bufs" \in held => "desc" \in held
      BY <1>a, <1>b, <3>1 DEF TakeInv
    <3>4. held' \subseteq AfeFailedNames \cup Abandoned'
      <4>1. held \subseteq AfeFailedNames
        BY <1>b, <1>c, <3>2, <3>3 DEF AfeFailedNames, Kept, Resources
      <4>2. f.left \subseteq Abandoned'
        BY <1>e, <1>g, <3>2
      <4> QED BY <3>2, <4>1, <4>2
    <3>5. "desc" \in held => "bufs" \in held \/ phase = "allocating"
      BY <1>a, <1>b, <3>1 DEF TakeInv
    <3>6. "intr" \in held \cup Untaken'
      <4>1. CASE Next1 = "gld"
        BY <1>a, <1>b, <1>d, <4>1 DEF TakeInv
      <4>2. CASE Next1 # "gld"
        BY <1>0, <1>e, <2>4, <4>2 DEF MayFail
      <4> QED BY <4>1, <4>2
    <3>7. \A r \in AfeFailedNames :
            r \in held' \cup Untaken' \/ (r = "bufs" /\ phase = "allocating")
      BY <3>2, <3>5, <3>6 DEF AfeFailedNames, Kept
    <3>8. phase # "detached" => "bufs" \in AfeFailedNames
      <4>1. phase # "detached" => "desc" \in held
        BY <1>a, <1>b, <3>1 DEF TakeInv
      <4> QED BY <4>1 DEF AfeFailedNames
    <3>9. AfeFailedNames # {}
      BY DEF AfeFailedNames
    <3>10. Lists(todo', AfeFailedNames)
      BY <3>1, AfeFailedLists
    <3> QED BY <1>0, <1>c, <3>4, <3>7, <3>8, <3>9, <3>10, ReleaseStarts
  <2>5. CASE Next1 \notin {"pci", "macinfo", "locks"} /\ driver = "mxfe"
    <3> DEFINE R == MxfeFailedNames(f.fields)
    <3>1. step >= 8 /\ todo' = MxfeFailed(f.fields)
      BY <1>d, <1>f, <2>5 DEF Undo
    <3>2. /\ "pci" \notin held /\ {"macinfo", "softc", "locks", "ndd"} \subseteq held
          /\ "binding" \notin held /\ "buf" \notin held
          /\ held' = held \cup f.left
      BY <1>a, <1>b, <1>f, <3>1 DEF TakeInv
    <3>3. held' \subseteq R \cup Abandoned'
      <4>1. "desc" \in held => "desc" \in Abandoned'
        <5>1. "desc" \in held => step > 9
          BY <1>a, <1>b, <3>1 DEF TakeInv
        <5>2. step > 9 => Next1 \in {"bufs", "setup", "intr", "gld"}
          BY <1>0, <1>d, <2>5, <3>1 DEF MayFail
        <5> QED BY <1>e, <2>5, <5>1, <5>2
      <4>2. held \subseteq R \cup {"desc"}
        BY <1>b, <1>c, <1>g, <3>2 DEF MxfeFailedNames, Kept, Resources
      <4>3. f.left \subseteq R \cup Abandoned'
        BY <1>e, <1>g, <2>5 DEF MxfeFailedNames
      <4> QED BY <3>2, <4>1, <4>2, <4>3
    <3>4. "intr" \in held \cup Untaken'
      <4>1. CASE Next1 = "gld"
        BY <1>a, <1>b, <1>d, <4>1 DEF TakeInv
      <4>2. CASE Next1 # "gld"
        BY <1>0, <1>e, <2>5, <4>2 DEF MayFail
      <4> QED BY <4>1, <4>2
    <3>5. "bufs" \in held \cup Untaken' \/ phase = "allocating"
      <4>1. CASE Next1 \in {"regs", "desc"}
        BY <1>e, <2>5, <4>1
      <4>2. CASE Next1 \notin {"regs", "desc"}
        <5>1. step > 9
          BY <1>b, <1>d, <3>1, <4>2
        <5> QED BY <1>a, <1>b, <5>1 DEF TakeInv
      <4> QED BY <4>1, <4>2
    <3>6. f.fields => "setup" \in held \cup Untaken'
      BY <1>e, <1>g
    <3>7. Next1 = "regs" => "pci" \in Untaken'
      BY <1>e, <2>5
    <3>8. \A r \in R : r \in held' \cup Untaken' \/ (r = "bufs" /\ phase = "allocating")
      BY <3>2, <3>4, <3>5, <3>6, <3>7 DEF MxfeFailedNames, Kept
    <3>9. R # {} /\ "bufs" \in R
      BY DEF MxfeFailedNames
    <3>10. Lists(todo', R)
      BY <1>g, <3>1, MxfeFailedLists
    <3> HIDE DEF R
    <3> QED BY <1>0, <1>c, <3>3, <3>8, <3>9, <3>10, ReleaseStarts
  <2> QED BY <1>b, <2>1, <2>2, <2>3, <2>4, <2>5
<1>2. BusyInv'
  <2>1. busy \subseteq held /\ busy \subseteq Ways
    BY DEF AttachInv, BusyInv, OwnTypeOK
  <2>2. CASE step = 1
    <3>1. busy \subseteq Abandoned
      BY <1>a, <2>1, <2>2 DEF TakeInv
    <3>2. busy = {}
      BY <2>1, <3>1, AbandonedFacts DEF Ways
    <3> QED BY <1>0, <3>2 DEF BusyInv
  <2>3. CASE step # 1
    BY <1>0, <1>b, <1>f, <2>1, <2>3 DEF BusyInv
  <2> QED BY <2>2, <2>3
<1>3. OnlyTaken'
  BY <1>e, <1>f, <1>g DEF OnlyTaken
<1>4. HandsInv'
  BY <1>0, <1>c DEF HandsInv, AttachInv
<1> QED BY <1>0, <1>1, <1>2, <1>3, <1>4

\* detach: what is released is all that attach took.
LEMMA UnloadKeeps ==
    ASSUME AttachInv, Unload
    PROVE  TakeInv' /\ ReleaseInv' /\ BusyInv' /\ OnlyTaken' /\ HandsInv' /\ [TabNext]_tabVars
<1>0. /\ todo = <<>> /\ step > Len(Order) /\ step' = 1 /\ cause' = "detach"
      /\ todo' = IF driver = "afe" THEN AfeDetach ELSE MxfeDetach
      /\ UNCHANGED <<driver, held, busy, hands, wrong, phase, out, tabVars>>
  BY DEF Unload, Attached, tabVars
<1>1. /\ held \subseteq Resources /\ driver \in {"afe", "mxfe"} /\ Had = held
      /\ More \in {0, 1} /\ (More = 1 <=> driver = "mxfe") /\ step = 13 + More
  BY <1>0, HeldFacts, OrderFacts
<1>2. /\ {"macinfo", "softc", "locks", "ndd", "regs", "desc", "bufs", "intr", "gld"}
           \subseteq held
      /\ "pci" \notin held /\ ("setup" \in held <=> driver = "mxfe")
      /\ "binding" \notin held /\ "buf" \notin held /\ wrong = {}
  BY <1>0, <1>1 DEF AttachInv, TakeInv
<1>3. BusyInv' /\ OnlyTaken'
  BY <1>0, <1>2 DEF BusyInv, OnlyTaken, AttachInv
<1>4. TakeInv' /\ ReleaseInv'
  <2>1. CASE driver = "afe"
    <3>1. /\ Lists(todo', AfeDetachNames)
          /\ AfeDetachNames # {} /\ "bufs" \in AfeDetachNames
      BY <1>0, <2>1, AfeDetachLists DEF AfeDetachNames
    <3>2. held = AfeDetachNames
      BY <1>1, <1>2, <2>1 DEF AfeDetachNames, Kept, Resources
    <3> QED BY <1>0, <3>1, <3>2, ReleaseStarts
  <2>2. CASE driver = "mxfe"
    <3>1. /\ Lists(todo', MxfeDetachNames)
          /\ MxfeDetachNames # {} /\ "bufs" \in MxfeDetachNames
      BY <1>0, <2>2, MxfeDetachLists DEF MxfeDetachNames
    <3>2. "desc" \in Abandoned'
      BY <1>0, <2>2 DEF Abandoned
    <3>3. held \subseteq MxfeDetachNames \cup {"desc"} /\ MxfeDetachNames \subseteq held
      BY <1>1, <1>2, <2>2 DEF MxfeDetachNames, Kept, Resources
    <3> QED BY <1>0, <3>1, <3>2, <3>3, ReleaseStarts
  <2> QED BY <1>1, <2>1, <2>2
<1>5. HandsInv'
  <2>1. todo' # <<>>
    <3>1. AfeDetach \in Seq(Resources) /\ MxfeDetach \in Seq(Resources)
          /\ "bufs" \in Names(AfeDetach) /\ "bufs" \in Names(MxfeDetach)
      BY ListsOfResources, AfeDetachLists, MxfeDetachLists
         DEF Lists, AfeDetachNames, MxfeDetachNames
    <3>2. Names(<<>>) = {}
      BY DEF Names
    <3> QED BY <1>0, <3>1, <3>2
  <2> QED BY <1>0, <2>1 DEF HandsInv, AttachInv
<1> QED BY <1>0, <1>3, <1>4, <1>5

\* Whoever may still be inside the driver uses the rings: when the table goes
\* nobody is, and no buffer is out.
LEMMA TableGoesWhole ==
    ASSUME AttachInv, Release, Head(todo) = "bufs"
    PROVE  out = {}
<1>1. /\ todo # <<>> /\ todo \in Seq(Resources) /\ Before(todo)
      /\ held \subseteq Names(todo) \cup Abandoned /\ busy \subseteq held
      /\ "bufs" \notin busy /\ (cause = "detach" => Rings = {})
  BY DEF Release, AttachInv, ReleaseInv, BusyInv, OwnTypeOK
<1>2. \A w \in Ways : w \notin Names(todo)
  <2>1. \A w \in Ways : "bufs" \in Uses(w) /\ w # "bufs"
    BY UsesFacts DEF Ways, Resources
  <2> QED BY <1>1, <2>1, ListsTail
<1>3. busy = {}
  <2>1. busy \subseteq Ways
    BY DEF AttachInv, OwnTypeOK
  <2> QED BY <1>1, <1>2, <2>1, AbandonedFacts DEF Ways
<1>4. Hands = {}
  BY <1>3 DEF Hands, AttachInv, HandsInv, Ways
<1>5. cause = "detach" => out = {}
  BY <1>1, <1>4 DEF Rings
<1> QED BY <1>1, <1>5 DEF AttachInv, HandsInv

\* One resource less.
LEMMA ReleaseKeeps ==
    ASSUME AttachInv, Release
    PROVE  TakeInv' /\ ReleaseInv' /\ BusyInv' /\ OnlyTaken' /\ HandsInv' /\ [TabNext]_tabVars
<1> DEFINE r == Head(todo)
<1>0. /\ todo # <<>> /\ r \notin busy /\ held' = held \ {r} /\ todo' = Tail(todo)
      /\ wrong' = wrong \cup
           (IF r \in held \/ (r = "bufs" /\ phase = "allocating") THEN {} ELSE {r})
      /\ phase' = (IF r = "bufs" THEN "detached" ELSE phase) /\ out' = out
      /\ UNCHANGED <<driver, step, busy, hands, cause>>
  <2>1. /\ todo # <<>> /\ r \notin busy /\ held' = held \ {r} /\ todo' = Tail(todo)
        /\ wrong' = wrong \cup
             (IF r \in held \/ (r = "bufs" /\ phase = "allocating") THEN {} ELSE {r})
        /\ UNCHANGED <<driver, step, busy, hands, cause>>
    BY DEF Release
  <2>2. IF r = "bufs" /\ phase # "detached" THEN FreeRings /\ UNCHANGED out
                                            ELSE UNCHANGED tabVars
    BY DEF Release
  <2>3. phase' = (IF r = "bufs" THEN "detached" ELSE phase) /\ out' = out
    BY <2>2 DEF FreeRings, tabVars
  <2> QED BY <2>1, <2>3
<1>a. r = "bufs" => out = {}
  BY TableGoesWhole
<1>b. [TabNext]_tabVars
  <2>1. CASE UNCHANGED tabVars
    BY <2>1
  <2>2. CASE r = "bufs" /\ phase # "detached" /\ FreeRings /\ UNCHANGED out
    <3>1. phase = "allocating" \/ phase = "attached"
      BY <2>2 DEF AttachInv, TabInv, TabTypeOK
    <3> QED BY <1>a, <2>2, <3>1 DEF TabNext, AllocFails, Detach
  <2> QED BY <2>1, <2>2 DEF Release
<1>1. /\ Before(todo) /\ step = 1 /\ held \subseteq Names(todo) \cup Abandoned
      /\ \A x \in Names(todo) : x \in held \cup Untaken \/ (x = "bufs" /\ phase = "allocating")
      /\ phase # "detached" => "bufs" \in Names(todo)
      /\ "gld" \in held => cause = "detach"
      /\ busy \subseteq held /\ todo \in Seq(Resources)
  BY <1>0 DEF AttachInv, ReleaseInv, BusyInv, OwnTypeOK
<1>2. /\ r \in Names(todo) /\ Lists(todo', Names(todo) \ {r})
  BY <1>0, <1>1, ListsTail
<1> HIDE DEF r
<1>3. /\ Abandoned' = Abandoned /\ Untaken' = Untaken /\ More' = More
      /\ Names(todo') = Names(todo) \ {r}
  BY <1>0, <1>2 DEF Abandoned, Untaken, More, Lists
<1>4. /\ held' \subseteq Names(todo') \cup Abandoned'
      /\ \A x \in Names(todo') :
           x \in held' \cup Untaken' \/ (x = "bufs" /\ phase' = "allocating")
      /\ phase' # "detached" => "bufs" \in Names(todo')
  BY <1>0, <1>1, <1>3
<1>5. ReleaseInv'
  BY <1>0, <1>1, <1>2, <1>4 DEF ReleaseInv, Lists
<1>6. todo' = <<>> => phase = "detached" \/ out = {}
  <2> SUFFICES ASSUME todo' = <<>> PROVE phase = "detached" \/ out = {}
    BY <1>0
  <2>1. Names(todo') = {}
    BY DEF Names
  <2>2. phase' = "detached"
    BY <1>4, <2>1
  <2> QED BY <1>0, <1>a, <2>2
<1>7. TakeInv'
  <2> SUFFICES ASSUME todo' = <<>> PROVE TakeInv'
    BY DEF TakeInv
  <2>1. Names(todo') = {}
    BY DEF Names
  <2>2. held' \subseteq Abandoned' /\ phase' = "detached" /\ step' = 1 /\ Had' = {}
    BY <1>0, <1>1, <1>4, <2>1 DEF Had
  <2>3. More' \in {0, 1}
    BY DEF More
  <2>4. ~ (step' > 11 + More') /\ ~ (step' > 12 + More')
    <3>1. \A m \in {0, 1} : ~ (1 > 11 + m) /\ ~ (1 > 12 + m)
      OBVIOUS
    <3> QED BY <2>2, <2>3, <3>1
  <2> QED BY <2>2, <2>4 DEF TakeInv
<1>8. BusyInv'
  BY <1>0, <1>1 DEF BusyInv
<1>9. OnlyTaken'
  <2>1. r \in held \/ r \in Untaken \/ (r = "bufs" /\ phase = "allocating")
    BY <1>1, <1>2
  <2>2. wrong' \subseteq wrong \cup Untaken
    BY <1>0, <2>1
  <2> QED BY <1>3, <2>2 DEF AttachInv, OnlyTaken
<1>10. HandsInv'
  <2>1. out # {} => todo' # <<>> /\ cause = "detach"
    <3>1. phase = "detached" => out = {}
      BY DEF AttachInv, TabInv
    <3> QED BY <1>0, <1>6, <3>1 DEF AttachInv, HandsInv
  <2> QED BY <1>0, <2>1 DEF AttachInv, HandsInv
<1> QED BY <1>b, <1>5, <1>7, <1>8, <1>9, <1>10

\* A thread takes a buffer, passes it on or gives it back, and so do the loops
\* of detach: a buffer that is out has at most one holder, who is inside.
LEMMA UseBufsKeeps ==
    ASSUME AttachInv, UseBufs
    PROVE  HandsInv' /\ [TabNext]_tabVars
<1>0. /\ UNCHANGED <<driver, step, held, todo, busy, cause, wrong>>
      /\ TabInv /\ HandsInv
  BY DEF UseBufs, AttachInv
<1>a. "intr" \in Ways /\ "gld" \in Ways /\ \A w \in Ways : w = "intr" \/ w = "gld"
  BY DEF Ways
<1>1. ASSUME NEW w \in busy, NEW pri \in 0 .. 1, "gld" \in held, GetBuf(pri),
             hands' = [hands EXCEPT ![w] = @ \cup (out' \ out)]
      PROVE  HandsInv' /\ [TabNext]_tabVars
  <2>1. PICK b \in Bufs \ out : out' = out \cup {b}
    BY <1>0, <1>1, GetBufKeeps DEF GetBuf
  <2>2. w \in Ways
    BY DEF AttachInv, OwnTypeOK
  <2>3. \A v \in Ways : hands'[v] = IF v = w THEN hands[v] \cup {b} ELSE hands[v]
    BY <1>0, <1>1, <2>1 DEF HandsInv
  <2>4. hands' \in [Ways -> SUBSET out']
    BY <1>0, <1>1, <2>1, <2>2, <2>3 DEF HandsInv
  <2>5. hands'["intr"] \cap hands'["gld"] = {}
    BY <1>0, <1>a, <2>1, <2>2, <2>3 DEF HandsInv
  <2>6. \A v \in Ways : hands'[v] # {} => v \in busy'
    BY <1>0, <2>3 DEF HandsInv
  <2>7. todo # <<>> => cause = "detach"
    BY <1>1 DEF AttachInv, ReleaseInv
  <2>8. HandsInv'
    BY <1>0, <1>1, <2>4, <2>5, <2>6, <2>7 DEF HandsInv
  <2> QED BY <1>1, <2>8 DEF TabNext
<1>2. ASSUME NEW w \in busy, NEW b \in hands[w],
             hands' = [hands EXCEPT ![w] = @ \ {b}], UNCHANGED tabVars \/ FreeBuf(b)
      PROVE  HandsInv' /\ [TabNext]_tabVars
  <2>1. w \in Ways /\ b \in out
    BY <1>0, <1>2 DEF AttachInv, OwnTypeOK, HandsInv
  <2>2. \A v \in Ways : hands'[v] = IF v = w THEN hands[v] \ {b} ELSE hands[v]
    BY <1>0, <1>2 DEF HandsInv
  <2>3. \A v \in Ways : hands'[v] \subseteq out \ {b}
    BY <1>0, <1>a, <2>1, <2>2 DEF HandsInv
  <2>4. out' = out \/ out' = out \ {b}
    BY <1>2 DEF tabVars, FreeBuf
  <2>5. hands' \in [Ways -> SUBSET out']
    BY <1>0, <1>2, <2>1, <2>3, <2>4 DEF HandsInv
  <2>6. hands'["intr"] \cap hands'["gld"] = {} /\ \A v \in Ways : hands'[v] # {} => v \in busy
    BY <1>0, <1>a, <2>2 DEF HandsInv
  <2>7. HandsInv'
    BY <1>0, <2>4, <2>5, <2>6 DEF HandsInv
  <2> QED BY <1>2, <2>1, <2>7 DEF TabNext
<1>3. ASSUME NEW b \in Rings, FreeBuf(b), UNCHANGED hands
      PROVE  HandsInv' /\ [TabNext]_tabVars
  <2>1. b \in out /\ out' = out \ {b} /\ b \notin hands["intr"] /\ b \notin hands["gld"]
    BY <1>3 DEF Rings, Hands, FreeBuf
  <2>2. hands' \in [Ways -> SUBSET out']
    BY <1>0, <1>3, <1>a, <2>1 DEF HandsInv
  <2>3. HandsInv'
    BY <1>0, <1>3, <2>1, <2>2 DEF HandsInv
  <2> QED BY <1>3, <2>1, <2>3 DEF TabNext
<1> QED BY <1>1, <1>2, <1>3 DEF UseBufs

\* The steps that take and release nothing.
LEMMA OthersKeep ==
    ASSUME AttachInv,
           \/ TakeBuf \/ UseBufs \/ UNCHANGED attachVars
           \/ \E w \in Ways : Enter(w) \/ Leave(w)
    PROVE  /\ TakeInv' /\ ReleaseInv' /\ BusyInv' /\ OnlyTaken' /\ HandsInv'
           /\ held' = held /\ [TabNext]_tabVars
<1>1. UNCHANGED <<driver, step, held, todo, wrong, cause>> /\ busy' \subseteq busy \cup held
      /\ phase' = phase
  <2>1. CASE TakeBuf
    BY <2>1 DEF TakeBuf, AllocBuf
  <2>2. CASE UseBufs
    BY <2>2 DEF UseBufs, GetBuf, FreeBuf, tabVars
  <2>3. CASE UNCHANGED attachVars
    BY <2>3 DEF attachVars, tabVars
  <2>4. CASE \E w \in Ways : Enter(w) \/ Leave(w)
    BY <2>4 DEF Enter, Leave, tabVars
  <2> QED BY <2>1, <2>2, <2>3, <2>4
<1>2. More' = More /\ Abandoned' = Abandoned /\ Untaken' = Untaken /\ Had' = Had
  BY <1>1 DEF More, Abandoned, Untaken, Had
<1>3. TakeInv'
  BY <1>1, <1>2 DEF TakeInv, AttachInv
<1>4. ReleaseInv'
  BY <1>1, <1>2 DEF ReleaseInv, AttachInv
<1>5. HandsInv' /\ [TabNext]_tabVars
  <2>1. CASE UseBufs
    BY <2>1, UseBufsKeeps
  <2>2. CASE TakeBuf \/ UNCHANGED attachVars
    <3>1. UNCHANGED <<hands, busy, out>>
      BY <2>2 DEF TakeBuf, AllocBuf, attachVars, tabVars
    <3>2. [TabNext]_tabVars
      BY <2>2 DEF TakeBuf, attachVars, TabNext
    <3> QED BY <1>1, <3>1, <3>2 DEF HandsInv, AttachInv
  <2>3. ASSUME NEW w \in Ways, Enter(w) \/ Leave(w)
        PROVE  HandsInv' /\ [TabNext]_tabVars
    <3>1. UNCHANGED <<hands, out, tabVars>> /\ \A v \in Ways : hands[v] # {} => v \in busy'
      BY <2>3 DEF Enter, Leave, tabVars, HandsInv, AttachInv
    <3> QED BY <1>1, <3>1 DEF HandsInv, AttachInv
  <2> QED BY <2>1, <2>2, <2>3
<1> QED BY <1>1, <1>2, <1>3, <1>4, <1>5 DEF BusyInv, OnlyTaken, AttachInv

\* Every step keeps the invariant of attach and detach, and is one that
\* AfeBufTab allows.
LEMMA AttachNextKeeps ==
    AttachInv /\ [AttachNext]_attachVars => AttachInv' /\ [TabNext]_tabVars
<1> SUFFICES ASSUME AttachInv, [AttachNext]_attachVars PROVE AttachInv' /\ [TabNext]_tabVars
  OBVIOUS
<1>1. TakeInv' /\ ReleaseInv' /\ BusyInv' /\ OnlyTaken' /\ HandsInv' /\ [TabNext]_tabVars
  BY TakeKeeps, FailKeeps, UnloadKeeps, ReleaseKeeps, OthersKeep DEF AttachNext
<1>2. OwnTypeOK'
  BY OwnTypesKept DEF AttachInv
<1>3. TabInv'
  BY <1>1, TabNextKeeps DEF AttachInv
<1> QED BY <1>1, <1>2, <1>3 DEF AttachInv

\* Before the first attach.
LEMMA AttachInitInv == AttachInit => AttachInv
<1> SUFFICES ASSUME AttachInit PROVE AttachInv
  OBVIOUS
<1>1. /\ todo = <<>> /\ step = 1 /\ held = {} /\ busy = {} /\ wrong = {} /\ cause = "none"
      /\ phase = "detached" /\ out = {} /\ hands = [w \in Ways |-> {}]
      /\ driver \in {"afe", "mxfe"}
  BY DEF AttachInit, TabInit
<1>2. More \in {0, 1} /\ Had = {}
  BY <1>1 DEF More, Had
<1>3. Before(todo)
  BY <1>1 DEF Before
<1>4. OwnTypeOK
  <2>1. Len(Order) \in Nat
    BY OrderOfResources, LenProperties
  <2> QED BY <1>1, <2>1 DEF OwnTypeOK
<1>5. TabInv
  BY TabInitInv DEF AttachInit
<1>6. ~ (step > 11 + More) /\ ~ (step > 12 + More)
  <2>1. \A m \in {0, 1} : ~ (1 > 11 + m) /\ ~ (1 > 12 + m)
    OBVIOUS
  <2> QED BY <1>1, <1>2, <2>1
<1>7. TakeInv
  BY <1>1, <1>2, <1>6 DEF TakeInv
<1>8. HandsInv
  BY <1>1 DEF HandsInv, Ways
<1> QED BY <1>1, <1>3, <1>4, <1>5, <1>7, <1>8 DEF AttachInv, ReleaseInv, BusyInv, OnlyTaken

\* What is held, what is on the list to be released, who is inside and which
\* buffers he has fit together.
THEOREM AttachInvariant == AttachSpec => []AttachInv
<1>1. AttachInv /\ [AttachNext]_attachVars => AttachInv'
  BY AttachNextKeeps
<1> QED BY <1>1, AttachInitInv, PTL DEF AttachSpec

\* Every variable of attach and detach keeps its type.
THEOREM AttachTypeCorrect == AttachSpec => []AttachTypeOK
<1>1. AttachInv => AttachTypeOK
  BY DEF AttachInv, AttachTypeOK, OwnTypeOK, TabInv, TabTypeOK, HandsInv
<1> QED BY <1>1, AttachInvariant, PTL

\* The drivers use the buffer table as AfeBufTab says.  What has to be shown is
\* that when the table is freed, by whatever path, every buffer is in it: on the
\* way back from a failure because no buffer has left it yet, in detach because
\* no thread is inside any more, none leaves with a buffer in hand, and the loops
\* have emptied the rings.
THEOREM AttachImplementsTab == AttachSpec => TabSpec
<1>1. AttachInit => TabInit
  BY DEF AttachInit
<1> QED BY <1>1, AttachNextKeeps, AttachInvariant, PTL DEF AttachSpec, TabSpec

\* From attach to detach, with any failure in between, the buffer table is a
\* stack, the DMA memory that is allocated is accounted for, and the getbuf
\* and freebuf the threads use are those of a pool.
THEOREM AttachKeepsTab ==
    AttachSpec => []TabTypeOK /\ []StackOK /\ []NoDmaLeak /\ IsPool
BY AttachImplementsTab, TabTypeCorrect, StackCorrect, NothingLeaks, TabImplementsPool

\* After a failed attach, at whatever resource and in whatever way, and after
\* detach nothing is left of the device but what Abandoned names for that path,
\* and no DMA memory of a buffer.
THEOREM NothingIsLeft == AttachSpec => []NothingLeft
<1>1. AttachInv => NothingLeft
  <2> SUFFICES ASSUME AttachInv, Attaching, step = 1
               PROVE  held \subseteq Abandoned /\ dma = {}
    BY DEF NothingLeft
  <2>1. held \subseteq Abandoned /\ phase = "detached"
    BY DEF AttachInv, TakeInv, Attaching
  <2> QED BY <2>1 DEF AttachInv, TabInv
<1> QED BY <1>1, AttachInvariant, PTL

\* Nothing is released that was not taken, and nothing twice, but for what
\* Untaken names for the path; detach has no such slip.
THEOREM OnlyTakenReleased == AttachSpec => []OnlyTaken
<1>1. AttachInv => OnlyTaken
  BY DEF AttachInv
<1> QED BY <1>1, AttachInvariant, PTL

\* No resource is released while something that is still held, or a thread that
\* is inside the driver, uses it: on the way back from a failure at any resource
\* and in detach, with the handler and GLD entering whenever they may.
THEOREM ReleasedInOrder == AttachSpec => ReleaseOrder
<1>1. AttachInv /\ [AttachNext]_attachVars
        => [\A r \in held \ held', w \in held' \cup busy : r \notin Uses(w)]_attachVars
  <2> SUFFICES ASSUME AttachInv, [AttachNext]_attachVars, NEW r \in held \ held',
                      NEW w \in held' \cup busy
               PROVE  r \notin Uses(w)
    OBVIOUS
  <2>0. /\ held \subseteq Resources /\ busy \subseteq held /\ todo \in Seq(Resources)
        /\ busy \subseteq Ways
    BY DEF AttachInv, OwnTypeOK, BusyInv
  <2>a. ASSUME Attaching, step = 1 PROVE busy = {}
    <3>1. busy \subseteq Abandoned
      BY <2>0, <2>a DEF AttachInv, TakeInv, Attaching
    <3> QED BY <2>0, <3>1, AbandonedFacts DEF Ways
  <2>1. CASE Take /\ step = 1
    <3>1. Next1 = "pci" /\ busy = {}
      BY <2>1, <2>a, StepNames DEF Take
    <3>2. w = "pci"
      BY <2>1, <3>1 DEF Take, Had
    <3> QED BY <3>2, UsesFacts
  <2>2. CASE Take /\ step # 1
    <3>1. held \ {"pci"} \subseteq held' /\ held' \subseteq Resources \cup {"config"}
      <4>1. CASE Next1 \in {"config", "kstat"}
        BY <2>0, <2>2, <4>1 DEF Take, Resources
      <4>2. CASE Next1 \notin {"config", "kstat"}
        <5>1. held' = held \cup {Next1} /\ step \in 1 .. Len(Order)
          BY <2>2, <4>2, OrderOfResources, LenProperties
             DEF Take, Attaching, AttachInv, OwnTypeOK, Had
        <5>2. Next1 \in Resources \cup {"config"}
          BY <5>1, OrderOfResources, ElementOfSeq DEF Next1
        <5> QED BY <2>0, <5>1, <5>2
      <4> QED BY <4>1, <4>2
    <3>2. r = "pci" /\ w \in Resources \cup {"config"}
      BY <2>0, <3>1
    <3>3. \A x \in Resources \cup {"config"} : "pci" \notin Uses(x)
      BY DEF Uses, Resources
    <3> QED BY <3>2, <3>3
  <2>3. CASE Release
    <3>1. /\ todo # <<>> /\ r = Head(todo) /\ r \notin busy /\ held' = held \ {r}
          /\ Before(todo) /\ held \subseteq Names(todo) \cup Abandoned
      BY <2>3 DEF Release, AttachInv, ReleaseInv
    <3>2. w \in held /\ w # r
      BY <2>0, <3>1
    <3>3. CASE w \in Names(todo)
      BY <2>0, <3>1, <3>2, <3>3, ListsTail
    <3>4. CASE w \in Abandoned
      BY <3>4, AbandonedFacts, UsesFacts
    <3> QED BY <3>1, <3>2, <3>3, <3>4
  <2>4. CASE Fail
    <3>1. Attaching /\ Had \subseteq held'
      BY <2>4 DEF Fail
    <3>2. step = 1
      BY <3>1 DEF Had
    <3>3. Next1 = "pci" /\ busy = {}
      BY <2>a, <3>1, <3>2, StepNames
    <3>4. held' = {}
      <4>1. PICK f \in Failures : held' = Had \cup f.left
        BY <2>4 DEF Fail
      <4>2. f.left = {}
        BY <3>3, <4>1, FailuresAre
      <4> QED BY <3>2, <4>1, <4>2 DEF Had
    <3> QED BY <3>3, <3>4
  <2>5. CASE Unload
    BY <2>5 DEF Unload
  <2>6. CASE \/ TakeBuf \/ UseBufs \/ UNCHANGED attachVars
             \/ \E x \in Ways : Enter(x) \/ Leave(x)
    BY <2>6, OthersKeep
  <2> QED BY <2>1, <2>2, <2>3, <2>4, <2>5, <2>6 DEF AttachNext
<1> QED BY <1>1, AttachInvariant, PTL DEF AttachSpec, ReleaseOrder
=============================================================================
