--------------------------- MODULE SequenceLemmas ---------------------------
(***************************************************************************)
(* What the proofs need to know of numbers and of sequences.                *)
(***************************************************************************)
EXTENDS Integers, Sequences, SequencesExt, SequenceTheorems, WellFoundedInduction, TLAPS

(* Every non-empty set of naturals has a least element.                    *)
LEMMA LeastNat ==
  ASSUME NEW S \in SUBSET Nat, S # {}
  PROVE  \E m \in S : \A k \in S : m <= k
<1>1. PICK m \in S : \A k \in S : ~(<<k, m>> \in OpToRel(<, Nat))
  BY WFMin, NatLessThanWellFounded
<1>2. ASSUME NEW k \in S PROVE m <= k
  <2>1. ~(k < m)
    BY <1>1 DEF OpToRel
  <2>2. QED
    BY <2>1
<1>3. QED
  BY <1>2

(* Positions in a sequence have a last one.                                *)
LEMMA LastPosition ==
  ASSUME NEW n \in Nat, NEW S \in SUBSET (1..n), S # {}
  PROVE  Max(S) \in S
<1> DEFINE Left == {n - i : i \in S}
<1>1. Left \in SUBSET Nat /\ Left # {}
  <2>1. \A i \in S : n - i \in Nat
    OBVIOUS
  <2>2. QED
    BY <2>1
<1>2. PICK m \in Left : \A k \in Left : m <= k
  <2> HIDE DEF Left
  <2>1. QED
    BY <1>1, LeastNat
<1>3. PICK last \in S : m = n - last
  BY <1>2
<1>4. ASSUME NEW i \in S PROVE last >= i
  <2>1. n - i \in Left
    OBVIOUS
  <2>2. m <= n - i
    BY <1>2, <2>1
  <2>3. QED
    BY <1>3, <2>2
<1>5. QED
  BY <1>4 DEF Max

(* RemoveAt drops one element and moves the later ones down by one.        *)
LEMMA RemoveAtSpec ==
  ASSUME NEW S, NEW s \in Seq(S), NEW i \in 1..Len(s)
  PROVE  /\ RemoveAt(s, i) \in Seq(S)
         /\ Len(RemoveAt(s, i)) = Len(s) - 1
         /\ \A j \in 1..(Len(s) - 1) :
              RemoveAt(s, i)[j] = IF j < i THEN s[j] ELSE s[j + 1]
<1> DEFINE l == SubSeq(s, 1, i - 1)
           r == SubSeq(s, i + 1, Len(s))
<1>1. Len(s) \in Nat /\ \A j \in 1..Len(s) : s[j] \in S
  BY ElementOfSeq
<1>2. l \in Seq(S) /\ Len(l) = i - 1 /\ \A j \in 1..(i - 1) : l[j] = s[j]
  <2>1. \A j \in 1..(i - 1) : s[j] \in S
    BY <1>1
  <2>2. /\ l \in Seq(S)
        /\ Len(l) = IF 1 <= i - 1 THEN (i - 1) - 1 + 1 ELSE 0
        /\ \A j \in 1..((i - 1) - 1 + 1) : l[j] = s[1 + j - 1]
    BY <2>1, <1>1, SubSeqProperties
  <2>3. QED
    BY <2>2, <1>1
<1>3. /\ r \in Seq(S) /\ Len(r) = Len(s) - i
      /\ \A j \in 1..(Len(s) - i) : r[j] = s[i + j]
  <2>1. \A j \in (i + 1)..Len(s) : s[j] \in S
    BY <1>1
  <2>2. /\ r \in Seq(S)
        /\ Len(r) = IF i + 1 <= Len(s) THEN Len(s) - (i + 1) + 1 ELSE 0
        /\ \A j \in 1..(Len(s) - (i + 1) + 1) : r[j] = s[(i + 1) + j - 1]
    BY <2>1, <1>1, SubSeqProperties
  <2>3. QED
    BY <2>2, <1>1
<1>4. /\ l \o r \in Seq(S) /\ Len(l \o r) = Len(l) + Len(r)
      /\ \A j \in 1..(Len(l) + Len(r)) :
           (l \o r)[j] = IF j <= Len(l) THEN l[j] ELSE r[j - Len(l)]
  BY <1>2, <1>3, ConcatProperties
<1>5. RemoveAt(s, i) = l \o r
  BY DEF RemoveAt
<1> HIDE DEF l, r
<1>6. ASSUME NEW j \in 1..(Len(s) - 1)
      PROVE  (l \o r)[j] = IF j < i THEN s[j] ELSE s[j + 1]
  <2>1. CASE j < i
    BY <2>1, <1>1, <1>2, <1>3, <1>4
  <2>2. CASE j >= i
    <3>1. j - (i - 1) \in 1..(Len(s) - i) /\ i + (j - (i - 1)) = j + 1
      BY <2>2, <1>1
    <3>2. (l \o r)[j] = r[j - (i - 1)]
      BY <2>2, <1>1, <1>2, <1>3, <1>4
    <3>3. r[j - (i - 1)] = s[i + (j - (i - 1))]
      BY <3>1, <1>3
    <3>4. s[i + (j - (i - 1))] = s[j + 1]
      BY <3>1, Zenon
    <3>5. ~(j < i)
      BY <2>2
    <3>6. QED
      BY <3>2, <3>3, <3>4, <3>5, Zenon
  <2>3. j < i \/ j >= i
    BY <1>1
  <2>4. QED
    BY <2>1, <2>2, <2>3, Zenon
<1>7. QED
  BY <1>1, <1>2, <1>3, <1>4, <1>5, <1>6

(* A sequence over a set is one over any larger set.                       *)
LEMMA SeqOfSuperset ==
  ASSUME NEW S, NEW T, S \subseteq T, NEW s \in Seq(S)
  PROVE  s \in Seq(T)
<1>1. Len(s) \in Nat /\ s = [i \in 1..Len(s) |-> s[i]] /\ \A i \in 1..Len(s) : s[i] \in S
  OBVIOUS
<1>2. \A i \in 1..Len(s) : s[i] \in T
  BY <1>1
<1>. QED  BY <1>1, <1>2

(* The head of a sequence and its tail hold what the sequence holds.       *)
LEMMA HeadAndTail ==
  ASSUME NEW S, NEW s \in Seq(S), s # <<>>
  PROVE  /\ Head(s) = s[1] /\ Head(s) \in S /\ Tail(s) \in Seq(S)
         /\ Len(s) >= 1 /\ Len(Tail(s)) = Len(s) - 1
         /\ \A i \in 1..Len(Tail(s)) : i + 1 \in 1..Len(s) /\ Tail(s)[i] = s[i + 1]
         /\ Range(s) = {Head(s)} \cup Range(Tail(s))
<1>1. /\ Head(s) = s[1] /\ Tail(s) \in Seq(S) /\ Len(s) \in Nat /\ Len(s) >= 1
      /\ Len(Tail(s)) = Len(s) - 1
      /\ \A i \in 1..Len(Tail(s)) : Tail(s)[i] = s[i + 1]
  OBVIOUS
<1>2. /\ DOMAIN s = 1..Len(s) /\ DOMAIN Tail(s) = 1..Len(Tail(s))
      /\ \A i \in 1..Len(s) : s[i] \in S
  BY <1>1, ElementOfSeq
<1>3. ASSUME NEW x \in Range(s) PROVE x \in {Head(s)} \cup Range(Tail(s))
  <2>1. PICK i \in 1..Len(s) : x = s[i]
    BY <1>2 DEF Range
  <2>2. CASE i = 1
    BY <1>1, <2>1, <2>2
  <2>3. CASE i # 1
    <3>1. i - 1 \in 1..Len(Tail(s)) /\ (i - 1) + 1 = i
      BY <1>1, <2>3
    <3>2. Tail(s)[i - 1] = x
      BY <1>1, <2>1, <3>1
    <3>. QED
      BY <1>2, <3>1, <3>2 DEF Range
  <2>. QED  BY <2>2, <2>3
<1>4. ASSUME NEW x \in {Head(s)} \cup Range(Tail(s)) PROVE x \in Range(s)
  <2>1. CASE x = Head(s)
    BY <1>1, <1>2, <2>1 DEF Range
  <2>2. CASE x \in Range(Tail(s))
    <3>1. PICK i \in 1..Len(Tail(s)) : x = Tail(s)[i]
      BY <1>2, <2>2 DEF Range
    <3>2. i + 1 \in 1..Len(s) /\ s[i + 1] = x
      BY <1>1, <3>1
    <3>. QED
      BY <1>2, <3>2 DEF Range
  <2>. QED  BY <2>1, <2>2
<1>5. \A i \in 1..Len(Tail(s)) : i + 1 \in 1..Len(s)
  BY <1>1
<1>. QED
  BY <1>1, <1>2, <1>3, <1>4, <1>5

(* Append adds its element at the end and nothing else.                    *)
LEMMA AppendSpec ==
  ASSUME NEW S, NEW s \in Seq(S), NEW x \in S
  PROVE  /\ Append(s, x) \in Seq(S) /\ Len(Append(s, x)) = Len(s) + 1
         /\ \A i \in 1..Len(s) : Append(s, x)[i] = s[i]
         /\ Append(s, x)[Len(s) + 1] = x
         /\ Range(Append(s, x)) = Range(s) \cup {x}
<1>. DEFINE t == Append(s, x)
<1>1. /\ t \in Seq(S) /\ Len(s) \in Nat /\ Len(t) = Len(s) + 1
      /\ \A i \in 1..Len(s) : t[i] = s[i]
      /\ t[Len(s) + 1] = x
  OBVIOUS
<1>2. DOMAIN s = 1..Len(s) /\ DOMAIN t = 1..Len(t)
  BY <1>1
<1>. HIDE DEF t
<1>3. ASSUME NEW y \in Range(t) PROVE y \in Range(s) \cup {x}
  <2>1. PICK i \in 1..Len(t) : y = t[i]
    BY <1>2 DEF Range
  <2>2. i \in 1..Len(s) \/ i = Len(s) + 1
    BY <1>1, <2>1
  <2>. QED
    BY <1>1, <1>2, <2>1, <2>2 DEF Range
<1>4. ASSUME NEW y \in Range(s) \cup {x} PROVE y \in Range(t)
  <2>1. CASE y = x
    BY <1>1, <1>2, <2>1 DEF Range
  <2>2. CASE y \in Range(s)
    <3>1. PICK i \in 1..Len(s) : y = s[i]
      BY <1>2, <2>2 DEF Range
    <3>2. i \in 1..Len(t) /\ t[i] = y
      BY <1>1, <3>1
    <3>. QED
      BY <1>2, <3>2 DEF Range
  <2>. QED  BY <2>1, <2>2
<1>. QED
  BY <1>1, <1>3, <1>4 DEF t

(* So does putting an element in front, as <<x>> \o s does.                *)
LEMMA PrependSpec ==
  ASSUME NEW S, NEW s \in Seq(S), NEW x \in S, NEW t \in Seq(S),
         Len(t) = Len(s) + 1, t[1] = x, \A i \in 1..Len(s) : t[i + 1] = s[i]
  PROVE  Range(t) = Range(s) \cup {x}
<1>1. /\ t \in Seq(S) /\ Len(s) \in Nat /\ Len(t) = Len(s) + 1
      /\ \A i \in 1..Len(s) : t[i + 1] = s[i]
      /\ t[1] = x
  OBVIOUS
<1>2. DOMAIN s = 1..Len(s) /\ DOMAIN t = 1..Len(t)
  BY <1>1
<1>3. ASSUME NEW y \in Range(t) PROVE y \in Range(s) \cup {x}
  <2>1. PICK i \in 1..Len(t) : y = t[i]
    BY <1>2 DEF Range
  <2>2. CASE i = 1
    BY <1>1, <2>1, <2>2
  <2>3. CASE i # 1
    <3>1. i - 1 \in 1..Len(s) /\ (i - 1) + 1 = i
      BY <1>1, <2>3
    <3>2. s[i - 1] = y
      BY <1>1, <2>1, <3>1
    <3>. QED  BY <1>2, <3>1, <3>2 DEF Range
  <2>. QED  BY <2>2, <2>3
<1>4. ASSUME NEW y \in Range(s) \cup {x} PROVE y \in Range(t)
  <2>1. CASE y = x
    <3>1. 1 \in 1..Len(t)
      BY <1>1
    <3>. QED  BY <1>1, <1>2, <2>1, <3>1 DEF Range
  <2>2. CASE y \in Range(s)
    <3>1. PICK i \in 1..Len(s) : y = s[i]
      BY <1>2, <2>2 DEF Range
    <3>2. i + 1 \in 1..Len(t) /\ t[i + 1] = y
      BY <1>1, <3>1
    <3>. QED  BY <1>2, <3>2 DEF Range
  <2>. QED  BY <2>1, <2>2
<1>. QED  BY <1>1, <1>3, <1>4

(* Numbers in ascending order: in a sequence, and from one set to another. *)
Increasing(s) == \A i, j \in DOMAIN s : i < j => s[i] < s[j]

Before(A, B) == \A a \in A, b \in B : a < b

(* The head of an ascending sequence is below its tail.                    *)
LEMMA IncreasingTail ==
  ASSUME NEW s \in Seq(Nat), s # <<>>, Increasing(s)
  PROVE  /\ Increasing(Tail(s)) /\ \A x \in Range(Tail(s)) : Head(s) < x
<1>1. DOMAIN s = 1..Len(s) /\ DOMAIN Tail(s) = 1..Len(Tail(s)) /\ Len(s) \in Nat
  BY HeadAndTail
<1>2. Head(s) = s[1] /\ 1 \in 1..Len(s)
  BY <1>1, HeadAndTail
<1>3. \A i \in 1..Len(Tail(s)) : i + 1 \in 1..Len(s) /\ Tail(s)[i] = s[i + 1]
  BY HeadAndTail
<1>4. ASSUME NEW x \in Range(Tail(s)) PROVE Head(s) < x
  <2>1. PICK i \in 1..Len(Tail(s)) : x = Tail(s)[i]
    BY <1>1 DEF Range
  <2>2. 1 < i + 1
    BY <2>1
  <2>. QED
    BY <1>1, <1>2, <1>3, <2>1, <2>2 DEF Increasing
<1>5. ASSUME NEW i \in 1..Len(Tail(s)), NEW j \in 1..Len(Tail(s)), i < j
      PROVE  Tail(s)[i] < Tail(s)[j]
  <2>1. i + 1 < j + 1
    BY <1>5
  <2>. QED
    BY <1>1, <1>3, <2>1 DEF Increasing
<1>. QED
  BY <1>1, <1>4, <1>5 DEF Increasing

(* An increasing sequence extended by a larger element is increasing.      *)
LEMMA IncreasingAppend ==
  ASSUME NEW s \in Seq(Nat), NEW x \in Nat, Increasing(s), \A y \in Range(s) : y < x
  PROVE  Increasing(Append(s, x))
<1>. DEFINE t == Append(s, x)
<1>1. DOMAIN s = 1..Len(s) /\ DOMAIN t = 1..(Len(s) + 1) /\ Len(s) \in Nat
  OBVIOUS
<1>2. (\A i \in 1..Len(s) : t[i] = s[i]) /\ t[Len(s) + 1] = x
  BY AppendSpec
<1>. HIDE DEF t
<1>3. SUFFICES ASSUME NEW i \in 1..(Len(s) + 1), NEW j \in 1..(Len(s) + 1), i < j
               PROVE  t[i] < t[j]
  BY <1>1 DEF Increasing, t
<1>4. i \in 1..Len(s) /\ s[i] \in Range(s)
  <2>1. i \in 1..Len(s)
    BY <1>1, <1>3
  <2>. QED
    BY <1>1, <2>1 DEF Range
<1>5. CASE j \in 1..Len(s)
  BY <1>1, <1>2, <1>3, <1>4, <1>5 DEF Increasing
<1>6. CASE j = Len(s) + 1
  BY <1>2, <1>4, <1>6
<1>. QED  BY <1>1, <1>5, <1>6

=============================================================================
