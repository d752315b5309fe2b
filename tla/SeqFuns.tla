------------------------------ MODULE SeqFuns -------------------------------
(***************************************************************************)
(* Lemmas about sequences that are given as functions on 1 .. n.           *)
(***************************************************************************)
EXTENDS SequenceTheorems, TLAPS

\* A sequence and one more element.
LEMMA AppendFun ==
    ASSUME NEW S, NEW n \in Nat, NEW q \in [1 .. n -> S], NEW r \in [1 .. n + 1 -> S],
           \A j \in 1 .. n : r[j] = q[j]
    PROVE  r = Append(q, r[n + 1]) /\ Len(q) = n
<1>1. q \in Seq(S) /\ Len(q) = n /\ r \in Seq(S) /\ Len(r) = n + 1 /\ r[n + 1] \in S
  OBVIOUS
<1>2. /\ Append(q, r[n + 1]) \in Seq(S) /\ Len(Append(q, r[n + 1])) = n + 1
      /\ \A j \in 1 .. n : Append(q, r[n + 1])[j] = q[j]
      /\ Append(q, r[n + 1])[n + 1] = r[n + 1]
  BY <1>1, AppendProperties
<1>3. QED
  BY <1>1, <1>2, SeqEqual

\* A sequence without its first element.
LEMMA TailFun ==
    ASSUME NEW S, NEW n \in Nat, NEW q \in [1 .. n + 1 -> S], NEW r \in [1 .. n -> S],
           \A j \in 1 .. n : r[j] = q[j + 1]
    PROVE  r = Tail(q) /\ Head(q) = q[1] /\ q # <<>>
<1>1. q \in Seq(S) /\ Len(q) = n + 1 /\ r \in Seq(S) /\ Len(r) = n
  OBVIOUS
<1>2. q # <<>>
  BY <1>1
<1>3. /\ Head(q) = q[1] /\ Tail(q) \in Seq(S) /\ Len(Tail(q)) = n
      /\ \A j \in 1 .. n : Tail(q)[j] = q[j + 1]
  BY <1>1, <1>2, HeadTailProperties
<1>4. QED
  BY <1>1, <1>2, <1>3, SeqEqual

\* A sequence without its first g elements.
LEMMA SubSeqFun ==
    ASSUME NEW S, NEW n \in Nat, NEW g \in 0 .. n,
           NEW q \in [1 .. n -> S], NEW r \in [1 .. n - g -> S],
           \A j \in 1 .. n - g : r[j] = q[g + j]
    PROVE  r = SubSeq(q, g + 1, Len(q)) /\ Len(q) = n
<1>1. q \in Seq(S) /\ Len(q) = n /\ r \in Seq(S) /\ Len(r) = n - g
  OBVIOUS
<1>2. /\ SubSeq(q, g + 1, n) \in Seq(S)
      /\ Len(SubSeq(q, g + 1, n)) = IF g + 1 <= n THEN n - (g + 1) + 1 ELSE 0
      /\ \A j \in 1 .. n - (g + 1) + 1 : SubSeq(q, g + 1, n)[j] = q[g + 1 + j - 1]
  <2>1. g + 1 \in Int /\ n \in Int /\ \A i \in g + 1 .. n : q[i] \in S
    OBVIOUS
  <2>2. QED
    BY <2>1, SubSeqProperties
<1>3. Len(SubSeq(q, g + 1, n)) = n - g
  BY <1>2
<1>4. \A j \in 1 .. n - g : SubSeq(q, g + 1, n)[j] = r[j]
  <2>1. \A j \in 1 .. n - g : j \in 1 .. n - (g + 1) + 1 /\ g + 1 + j - 1 = g + j
    OBVIOUS
  <2>2. QED
    BY <1>2, <2>1
<1>5. QED
  BY <1>1, <1>2, <1>3, <1>4, SeqEqual
=============================================================================
