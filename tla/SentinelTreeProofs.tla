------------------------- MODULE SentinelTreeProofs -------------------------
(***************************************************************************)
(* What the operations on one threshold array do, for any condition ids,   *)
(* thresholds and prices: the lemmas that the theorems about the tree      *)
(* (ThresholdTreeProofs) and about the strategy (ThresholdStrategyProofs)  *)
(* rest on.                                                                *)
(***************************************************************************)
EXTENDS SentinelTree, SequenceLemmas, SequenceTheorems, TLAPS

Ascending(e) == \A i, j \in 1..Len(e) : i < j => e[i].value < e[j].value

-----------------------------------------------------------------------------
(***************************************************************************)
(* Numbers: the walks and partition points exist.                          *)
(***************************************************************************)

(* The fields of the entries of an array.                                  *)
LEMMA EntryFields ==
  ASSUME NEW e \in Seq(Level)
  PROVE  /\ Len(e) \in Nat
         /\ \A i \in 1..Len(e) : /\ e[i] \in Level
                                /\ e[i].value \in Int
                                /\ e[i].ids \in [Ids -> Nat]
<1>1. \A i \in 1..Len(e) : e[i] \in Level
  BY ElementOfSeq
<1>2. \A l \in Level : l.value \in Int /\ l.ids \in [Ids -> Nat]
  BY DEF Level
<1>3. QED
  BY <1>1, <1>2

(* In an ascending array partition_point is well defined: the entries      *)
(* below x are a prefix.                                                   *)
LEMMA CountBelowSpec ==
  ASSUME NEW e \in Seq(Level), Ascending(e), NEW x \in Int
  PROVE  /\ CountBelow(e, x) \in 0..Len(e)
         /\ \A i \in 1..Len(e) : e[i].value < x <=> i <= CountBelow(e, x)
<1> DEFINE S == {k \in 0..Len(e) : \A i \in 1..Len(e) : i > k => e[i].value >= x}
<1>1. Len(e) \in Nat /\ \A i \in 1..Len(e) : e[i].value \in Int
  BY EntryFields
<1>2. S \in SUBSET Nat /\ Len(e) \in S
  BY <1>1
<1>3. PICK m \in S : \A k \in S : m <= k
  BY <1>2, LeastNat
<1>4. \A i \in 1..Len(e) : e[i].value < x <=> i <= m
  <2>1. ASSUME NEW i \in 1..Len(e), i > m PROVE ~(e[i].value < x)
    BY <2>1, <1>1
  <2>2. ASSUME NEW i \in 1..Len(e), i <= m PROVE e[i].value < x
    <3>1. m \in 1..Len(e) /\ m - 1 \in 0..Len(e) /\ m - 1 \notin S
      <4>1. m \in 1..Len(e)
        BY <2>2, <1>1
      <4>2. m - 1 \in 0..Len(e) /\ ~(m <= m - 1)
        BY <4>1, <1>1
      <4>3. QED
        BY <4>1, <4>2, <1>3
    <3>2. PICK j \in 1..Len(e) : j > m - 1 /\ ~(e[j].value >= x)
      BY <3>1
    <3>3. j = m
      BY <3>1, <3>2, <1>1
    <3>4. e[m].value < x
      BY <3>2, <3>3, <1>1
    <3>5. i = m \/ e[i].value < e[m].value
      BY <2>2, <3>1 DEF Ascending
    <3>6. QED
      BY <3>1, <3>4, <3>5, <1>1
  <2>3. QED
    BY <2>1, <2>2, <1>1, <1>2
<1>5. \E k \in 0..Len(e) : \A i \in 1..Len(e) : e[i].value < x <=> i <= k
  BY <1>4
<1>6. QED
  BY <1>5 DEF CountBelow

(* CountUpTo splits an ascending array into the levels at most x and       *)
(* those above.                                                            *)
LEMMA CountUpToSpec ==
  ASSUME NEW e \in Seq(Level), Ascending(e), NEW x \in Int
  PROVE  /\ CountUpTo(e, x) \in 0..Len(e)
         /\ \A i \in 1..Len(e) : e[i].value <= x <=> i <= CountUpTo(e, x)
<1>1. \A i \in 1..Len(e) : e[i].value \in Int
  BY EntryFields
<1>2. PICK y \in Int : y = x + 1
  OBVIOUS
<1>3. PICK c \in 0..Len(e) : \A i \in 1..Len(e) : e[i].value < y <=> i <= c
  <2>1. /\ CountBelow(e, y) \in 0..Len(e)
        /\ \A i \in 1..Len(e) : e[i].value < y <=> i <= CountBelow(e, y)
    BY CountBelowSpec, Zenon
  <2>2. QED
    BY <2>1, Zenon
<1>4. \A i \in 1..Len(e) : e[i].value <= x <=> e[i].value < y
  BY <1>1, <1>2
<1>5. \E k \in 0..Len(e) : \A i \in 1..Len(e) : e[i].value <= x <=> i <= k
  BY <1>3, <1>4
<1>6. QED
  BY <1>5 DEF CountUpTo

(* The up walk stops: at the first level above the price, or past the end. *)
LEMMA UpStopSpec ==
  ASSUME NEW t \in Tree, NEW price \in Int, t.upper_idx \in 1..Len(t.entries)
  PROVE  LET k == UpStop(t, price)
         IN  /\ k \in t.upper_idx..(Len(t.entries) + 1)
             /\ \A i \in t.upper_idx..(k - 1) : t.entries[i].value <= price
             /\ k <= Len(t.entries) => t.entries[k].value > price
<1> DEFINE n == Len(t.entries)
           S == {k \in t.upper_idx..(n + 1) : k <= n => t.entries[k].value > price}
<1>1. n \in Nat /\ \A i \in 1..n : t.entries[i].value \in Int
  BY EntryFields DEF Tree
<1>2. S \in SUBSET Nat /\ n + 1 \in S
  BY <1>1
<1>3. PICK m \in S : \A k \in S : m <= k
  BY <1>2, LeastNat
<1>4. ASSUME NEW i \in t.upper_idx..(m - 1) PROVE t.entries[i].value <= price
  <2>1. i \in t.upper_idx..(n + 1) /\ i \notin S /\ i \in 1..n
    BY <1>1, <1>3
  <2>2. QED
    BY <2>1, <1>1
<1>5. \E k \in t.upper_idx..(n + 1) :
        /\ \A i \in t.upper_idx..(k - 1) : t.entries[i].value <= price
        /\ k <= n => t.entries[k].value > price
  BY <1>3, <1>4
<1>6. QED
  BY <1>5 DEF UpStop

(* The down walk stops: at the last level below the price, or before the   *)
(* first.                                                                  *)
LEMMA DownStopSpec ==
  ASSUME NEW t \in Tree, NEW price \in Int, t.lower_idx \in 1..Len(t.entries)
  PROVE  LET k == DownStop(t, price)
         IN  /\ k \in 0..t.lower_idx
             /\ \A i \in (k + 1)..t.lower_idx : t.entries[i].value >= price
             /\ k > 0 => t.entries[k].value < price
<1> DEFINE l == t.lower_idx
           S == {d \in 0..l : l - d > 0 => t.entries[l - d].value < price}
<1>1. l \in Nat /\ \A i \in 1..l : t.entries[i].value \in Int
  BY EntryFields DEF Tree
<1>2. S \in SUBSET Nat /\ l \in S
  BY <1>1
<1>3. PICK d \in S : \A k \in S : d <= k
  BY <1>2, LeastNat
<1>4. ASSUME NEW i \in (l - d + 1)..l PROVE t.entries[i].value >= price
  <2>1. i \in 1..l /\ l - i \in 0..l /\ l - (l - i) = i /\ ~(d <= l - i)
    BY <1>1, SMTT(30)
  <2>2. ~(l - (l - i) > 0 => t.entries[l - (l - i)].value < price)
    BY <2>1, <1>3
  <2>3. ~(i > 0 => t.entries[i].value < price)
    BY <2>1, <2>2
  <2>4. i > 0 /\ t.entries[i].value \in Int
    BY <2>1, <1>1
  <2>5. QED
    BY <2>3, <2>4
<1>5. \E k \in 0..l : /\ \A i \in (k + 1)..l : t.entries[i].value >= price
                      /\ k > 0 => t.entries[k].value < price
  <2>1. l - d \in 0..l
    BY <1>1, <1>3
  <2>2. QED
    BY <2>1, <1>3, <1>4
<1>6. QED
  BY <1>5 DEF DownStop

-----------------------------------------------------------------------------
(***************************************************************************)
(* Sequences: what inserting and removing one element does.                *)
(***************************************************************************)
LEMMA InsertAtSpec ==
  ASSUME NEW S, NEW s \in Seq(S), NEW i \in 1..(Len(s) + 1), NEW x \in S
  PROVE  /\ InsertAt(s, i, x) \in Seq(S)
         /\ Len(InsertAt(s, i, x)) = Len(s) + 1
         /\ \A j \in 1..(Len(s) + 1) :
              InsertAt(s, i, x)[j] = IF j < i THEN s[j] ELSE IF j = i THEN x ELSE s[j - 1]
<1> DEFINE l == SubSeq(s, 1, i - 1)
           r == SubSeq(s, i, Len(s))
           lx == l \o <<x>>
<1>1. Len(s) \in Nat /\ \A j \in 1..Len(s) : s[j] \in S
  BY ElementOfSeq
<1>2. l \in Seq(S) /\ Len(l) = i - 1 /\ \A j \in 1..(i - 1) : l[j] = s[j]
  <2>1. \A j \in 1..(i - 1) : s[j] \in S
    BY <1>1
  <2>2. /\ l \in Seq(S)
        /\ Len(l) = IF 1 <= i - 1 THEN (i - 1) - 1 + 1 ELSE 0
        /\ \A j \in 1..((i - 1) - 1 + 1) : l[j] = s[1 + j - 1]
    BY <2>1, <1>1, SubSeqProperties
  <2>3. QED
    BY <2>2, <1>1
<1>3. /\ r \in Seq(S) /\ Len(r) = Len(s) - i + 1
      /\ \A j \in 1..(Len(s) - i + 1) : r[j] = s[i + j - 1]
  <2>1. \A j \in i..Len(s) : s[j] \in S
    BY <1>1
  <2>2. /\ r \in Seq(S)
        /\ Len(r) = IF i <= Len(s) THEN Len(s) - i + 1 ELSE 0
        /\ \A j \in 1..(Len(s) - i + 1) : r[j] = s[i + j - 1]
    BY <2>1, <1>1, SubSeqProperties
  <2>3. QED
    BY <2>2, <1>1
<1>4. /\ lx \in Seq(S) /\ Len(lx) = i
      /\ \A j \in 1..i : lx[j] = IF j < i THEN s[j] ELSE x
  <2>1. <<x>> \in Seq(S) /\ Len(<<x>>) = 1 /\ <<x>>[1] = x
    OBVIOUS
  <2>2. /\ lx \in Seq(S) /\ Len(lx) = Len(l) + Len(<<x>>)
        /\ \A j \in 1..(Len(l) + Len(<<x>>)) :
             lx[j] = IF j <= Len(l) THEN l[j] ELSE <<x>>[j - Len(l)]
    BY <2>1, <1>2, ConcatProperties
  <2>3. QED
    BY <2>1, <2>2, <1>2
<1>5. /\ lx \o r \in Seq(S) /\ Len(lx \o r) = Len(lx) + Len(r)
      /\ \A j \in 1..(Len(lx) + Len(r)) :
           (lx \o r)[j] = IF j <= Len(lx) THEN lx[j] ELSE r[j - Len(lx)]
  BY <1>3, <1>4, ConcatProperties, ZenonT(60)
<1>6. InsertAt(s, i, x) = lx \o r
  BY DEF InsertAt
<1> HIDE DEF l, r, lx
<1>7. ASSUME NEW j \in 1..(Len(s) + 1)
      PROVE  (lx \o r)[j] = IF j < i THEN s[j] ELSE IF j = i THEN x ELSE s[j - 1]
  <2>1. CASE j <= i
    BY <2>1, <1>1, <1>3, <1>4, <1>5
  <2>2. CASE j > i
    <3>1. j - i \in 1..(Len(s) - i + 1) /\ i + (j - i) - 1 = j - 1
      BY <2>2, <1>1
    <3>2. (lx \o r)[j] = r[j - i]
      BY <2>2, <1>1, <1>3, <1>4, <1>5
    <3>3. r[j - i] = s[i + (j - i) - 1]
      BY <3>1, <1>3
    <3>4. s[i + (j - i) - 1] = s[j - 1]
      BY <3>1, Zenon
    <3>5. ~(j < i) /\ j # i
      BY <2>2
    <3>6. QED
      BY <3>2, <3>3, <3>4, <3>5, Zenon
  <2>3. j <= i \/ j > i
    BY <1>1
  <2>4. QED
    BY <2>1, <2>2, <2>3, Zenon
<1>8. QED
  BY <1>1, <1>3, <1>4, <1>5, <1>6, <1>7

-----------------------------------------------------------------------------
(***************************************************************************)
(* The array: add_threshold and remove_threshold keep it well formed.      *)
(***************************************************************************)
NoEmpty(e) == \A i \in 1..Len(e) : e[i].ids # NoIds

(* The bags of identifiers a level may hold.                               *)
LEMMA NoIdsType ==
  /\ NoIds \in [Ids -> Nat]
  /\ \A b \in [Ids -> Nat], id \in Ids :
       /\ [b EXCEPT ![id] = @ + 1] \in [Ids -> Nat]
       /\ [b EXCEPT ![id] = @ + 1] # NoIds
       /\ [b EXCEPT ![id] = 0] \in [Ids -> Nat]
  /\ \A id \in Ids : /\ [NoIds EXCEPT ![id] = 1] \in [Ids -> Nat]
                     /\ [NoIds EXCEPT ![id] = 1] # NoIds
BY DEF NoIds

(* f is e with other ids at one level.                                     *)
Replaced(e, f, pos, b) ==
  /\ Len(f) = Len(e)
  /\ \A j \in 1..Len(e) : /\ f[j].value = e[j].value
                          /\ f[j].ids = IF j = pos THEN b ELSE e[j].ids

(* Replacing the ids of a level leaves the array ascending.                *)
LEMMA ReplaceIdsSpec ==
  ASSUME NEW e \in Seq(Level), Ascending(e), NoEmpty(e),
         NEW pos \in 1..Len(e), NEW b \in [Ids -> Nat], b # NoIds
  PROVE  LET f == [e EXCEPT ![pos].ids = b]
         IN  f \in Seq(Level) /\ Ascending(f) /\ NoEmpty(f) /\ Replaced(e, f, pos, b)
<1> DEFINE l == [e[pos] EXCEPT !.ids = b]
           f == [e EXCEPT ![pos] = l]
<1>1. e[pos] \in Level /\ e[pos].value \in Int
  BY EntryFields
<1>2. l \in Level /\ l.value = e[pos].value /\ l.ids = b
  BY <1>1 DEF Level
<1>3. /\ f \in Seq(Level) /\ Len(f) = Len(e)
      /\ \A j \in 1..Len(e) : f[j] = IF j = pos THEN l ELSE e[j]
  BY <1>2, ExceptSeq
<1> HIDE DEF l, f
<1>4. \A j \in 1..Len(e) : /\ f[j].value = e[j].value
                           /\ f[j].ids = IF j = pos THEN b ELSE e[j].ids
  BY <1>2, <1>3
<1>5. Ascending(f)
  BY <1>3, <1>4 DEF Ascending
<1>6. NoEmpty(f)
  BY <1>2, <1>3 DEF NoEmpty
<1>7. QED
  BY <1>3, <1>4, <1>5, <1>6 DEF Replaced, f, l

(* Where a value belongs in the array.                                     *)
LEMMA PositionSpec ==
  ASSUME NEW e \in Seq(Level), Ascending(e), NEW v \in Int
  PROVE  \E pos \in 1..(Len(e) + 1) :
           /\ pos = CountBelow(e, v) + 1
           /\ \A i \in 1..Len(e) : e[i].value < v <=> i < pos
           /\ HasLevelAt(e, pos, v) => pos \in 1..Len(e)
<1>1. Len(e) \in Nat
  BY EntryFields
<1>2. PICK c \in 0..Len(e) : /\ c = CountBelow(e, v)
                            /\ \A i \in 1..Len(e) : e[i].value < v <=> i <= c
  BY CountBelowSpec
<1>3. c + 1 \in 1..(Len(e) + 1) /\ \A i \in 1..Len(e) : i <= c <=> i < c + 1
  BY <1>1
<1>4. HasLevelAt(e, c + 1, v) => c + 1 \in 1..Len(e)
  BY <1>1, <1>3 DEF HasLevelAt
<1>5. QED
  BY <1>2, <1>3, <1>4

(* f is e with the level l put in at position i.                           *)
Inserted(e, f, i, l) ==
  /\ f \in Seq(Level) /\ Len(f) = Len(e) + 1
  /\ \A j \in 1..(Len(e) + 1) :
       f[j] = IF j < i THEN e[j] ELSE IF j = i THEN l ELSE e[j - 1]

(* What putting a new level into the array does.                           *)
LEMMA InsertLevelSpec ==
  ASSUME NEW e \in Seq(Level), NEW i \in 1..(Len(e) + 1), NEW l \in Level,
         NEW f, f = InsertAt(e, i, l)
  PROVE  Inserted(e, f, i, l)
<1>1. Inserted(e, InsertAt(e, i, l), i, l)
  BY InsertAtSpec, SMTT(60) DEF Inserted
<1>2. QED
  BY <1>1

(* Adding an identifier keeps the array ascending and without empty        *)
(* levels.                                                                 *)
LEMMA WithLevelSpec ==
  ASSUME NEW e \in Seq(Level), Ascending(e), NoEmpty(e),
         NEW v \in Int, NEW id \in Ids
  PROVE  /\ WithLevel(e, v, id) \in Seq(Level)
         /\ Ascending(WithLevel(e, v, id))
         /\ NoEmpty(WithLevel(e, v, id))
<1>0. PICK pos \in 1..(Len(e) + 1) :
        /\ pos = CountBelow(e, v) + 1
        /\ \A i \in 1..Len(e) : e[i].value < v <=> i < pos
        /\ HasLevelAt(e, pos, v) => pos \in 1..Len(e)
  BY PositionSpec
<1>1. Len(e) \in Nat
  BY EntryFields
<1>2. CASE HasLevelAt(e, pos, v)
  <2>1. pos \in 1..Len(e)
    BY <1>0, <1>2
  <2>2. e[pos].ids \in [Ids -> Nat]
    BY <2>1, EntryFields
  <2>3. PICK b : b = [e[pos].ids EXCEPT ![id] = @ + 1]
    OBVIOUS
  <2>4. b \in [Ids -> Nat] /\ b # NoIds
    BY <2>2, <2>3, NoIdsType
  <2>5. WithLevel(e, v, id) = [e EXCEPT ![pos].ids = b]
    BY <1>0, <1>2, <2>3 DEF WithLevel
  <2>6. PICK f : f = [e EXCEPT ![pos].ids = b]
    OBVIOUS
  <2>7. f \in Seq(Level) /\ Ascending(f) /\ NoEmpty(f)
    BY <2>1, <2>4, <2>6, ReplaceIdsSpec
  <2>8. QED
    BY <2>5, <2>6, <2>7
<1>3. CASE ~HasLevelAt(e, pos, v)
  <2>0. PICK l : l = [value |-> v, ids |-> [NoIds EXCEPT ![id] = 1]]
    OBVIOUS
  <2>1. l \in Level /\ l.value = v /\ l.ids # NoIds
    BY <2>0, NoIdsType DEF Level
  <2>10. PICK f : f = InsertAt(e, pos, l)
    OBVIOUS
  <2>2. /\ f \in Seq(Level) /\ Len(f) = Len(e) + 1
        /\ \A j \in 1..(Len(e) + 1) :
             f[j] = IF j < pos THEN e[j] ELSE IF j = pos THEN l ELSE e[j - 1]
    <3>1. Inserted(e, f, pos, l)
      BY <2>1, <2>10, InsertLevelSpec
    <3>2. QED
      BY <3>1 DEF Inserted
  <2>3. WithLevel(e, v, id) = f
    BY <1>0, <1>3, <2>0, <2>10 DEF WithLevel
  <2>4. \A i \in 1..Len(e) : e[i].value \in Int /\ (i >= pos => e[i].value > v)
    <3>1. ASSUME NEW i \in 1..Len(e), i >= pos PROVE e[i].value > v
      <4>1. pos \in 1..Len(e) /\ e[pos].value # v
        BY <1>1, <1>3, <3>1 DEF HasLevelAt
      <4>2. ~(e[pos].value < v) /\ e[pos].value \in Int
        BY <1>0, <1>1, <4>1, EntryFields
      <4>3. i = pos \/ e[pos].value < e[i].value
        BY <3>1, <4>1 DEF Ascending
      <4>4. e[i].value \in Int
        BY EntryFields
      <4>5. QED
        BY <4>1, <4>2, <4>3, <4>4
    <3>2. QED
      BY <3>1, EntryFields
  <2>5. ASSUME NEW i \in 1..Len(f), NEW j \in 1..Len(f), i < j
        PROVE  f[i].value < f[j].value
    <3>1. CASE j < pos
      <4>1. f[j] = e[j] /\ f[i] = e[i] /\ j \in 1..Len(e) /\ i \in 1..Len(e)
        BY <3>1, <2>2, <2>5, <1>1
      <4>2. QED
        BY <4>1, <2>5 DEF Ascending
    <3>2. CASE j = pos
      <4>1. f[j] = l /\ f[i] = e[i] /\ i < pos /\ i \in 1..Len(e)
        BY <3>2, <2>2, <2>5, <1>1
      <4>2. QED
        BY <4>1, <2>1, <1>0
    <3>3. CASE j > pos /\ i < pos
      <4>1. f[j] = e[j - 1] /\ f[i] = e[i] /\ j - 1 \in 1..Len(e) /\ i \in 1..Len(e)
        BY <3>3, <2>2, <1>1
      <4>2. e[i].value < v /\ e[j - 1].value > v
        BY <4>1, <3>3, <2>4, <1>0, <1>1
      <4>3. QED
        BY <4>1, <4>2, <2>4
    <3>4. CASE j > pos /\ i = pos
      <4>1. f[j] = e[j - 1] /\ f[i] = l /\ j - 1 >= pos /\ j - 1 \in 1..Len(e)
        BY <3>4, <2>2, <1>1
      <4>2. QED
        BY <4>1, <2>1, <2>4
    <3>5. CASE j > pos /\ i > pos
      <4>1. /\ f[j] = e[j - 1] /\ f[i] = e[i - 1]
            /\ j - 1 \in 1..Len(e) /\ i - 1 \in 1..Len(e) /\ i - 1 < j - 1
        BY <3>5, <2>2, <2>5, <1>1
      <4>2. QED
        BY <4>1 DEF Ascending
    <3>6. \/ j < pos
          \/ j = pos
          \/ j > pos /\ i < pos
          \/ j > pos /\ i = pos
          \/ j > pos /\ i > pos
      BY <2>2, <1>1
    <3>7. QED
      BY <3>1, <3>2, <3>3, <3>4, <3>5, <3>6, Zenon
  <2>6. ASSUME NEW j \in 1..Len(f) PROVE f[j].ids # NoIds
    <3>1. \/ j < pos /\ j \in 1..Len(e)
          \/ j = pos
          \/ j > pos /\ j - 1 \in 1..Len(e)
      BY <2>2, <1>1
    <3>2. f[j] = l \/ \E i \in 1..Len(e) : f[j] = e[i]
      BY <3>1, <2>2
    <3>3. QED
      BY <3>2, <2>1 DEF NoEmpty
  <2>7. QED
    BY <2>2, <2>3, <2>5, <2>6 DEF Ascending, NoEmpty
<1>4. QED
  BY <1>2, <1>3

(* Removing an identifier keeps the array ascending and without empty      *)
(* levels.                                                                 *)
LEMMA WithoutLevelSpec ==
  ASSUME NEW e \in Seq(Level), Ascending(e), NoEmpty(e),
         NEW v \in Int, NEW id \in Ids
  PROVE  /\ WithoutLevel(e, v, id) \in Seq(Level)
         /\ Ascending(WithoutLevel(e, v, id))
         /\ NoEmpty(WithoutLevel(e, v, id))
<1>0. PICK pos \in 1..(Len(e) + 1) :
        /\ pos = CountBelow(e, v) + 1
        /\ HasLevelAt(e, pos, v) => pos \in 1..Len(e)
  BY PositionSpec
<1>1. Len(e) \in Nat
  BY EntryFields
<1> DEFINE rest == [e[pos].ids EXCEPT ![id] = 0]
<1>2. CASE ~HasLevelAt(e, pos, v)
  BY <1>0, <1>2 DEF WithoutLevel
<1>3. CASE HasLevelAt(e, pos, v) /\ rest = NoIds
  <2> DEFINE f == RemoveAt(e, pos)
  <2>1. pos \in 1..Len(e)
    BY <1>0, <1>3
  <2>2. /\ f \in Seq(Level) /\ Len(f) = Len(e) - 1
        /\ \A j \in 1..(Len(e) - 1) : f[j] = IF j < pos THEN e[j] ELSE e[j + 1]
    BY <2>1, RemoveAtSpec
  <2>3. WithoutLevel(e, v, id) = f
    BY <1>0, <1>3 DEF WithoutLevel
  <2>4. ASSUME NEW i \in 1..Len(f), NEW j \in 1..Len(f), i < j
        PROVE  f[i].value < f[j].value
    <3>1. PICK a \in 1..Len(e), b \in 1..Len(e) : f[i] = e[a] /\ f[j] = e[b] /\ a < b
      <4>1. CASE j < pos
        <5>1. i < j /\ i < pos /\ i \in 1..Len(e) /\ j \in 1..Len(e)
          BY <4>1, <2>1, <2>2, <2>4, <1>1
        <5>2. f[i] = e[i] /\ f[j] = e[j]
          BY <4>1, <5>1, <2>2
        <5>3. QED
          BY <5>1, <5>2
      <4>2. CASE j >= pos /\ i < pos
        <5>1. i < j + 1 /\ j + 1 \in 1..Len(e) /\ i \in 1..Len(e) /\ ~(j < pos)
          BY <4>2, <2>1, <2>2, <2>4, <1>1
        <5>2. f[i] = e[i] /\ f[j] = e[j + 1]
          BY <4>2, <5>1, <2>2
        <5>3. QED
          BY <5>1, <5>2
      <4>3. CASE i >= pos
        <5>1. /\ f[i] = e[i + 1] /\ f[j] = e[j + 1] /\ i + 1 < j + 1
              /\ j + 1 \in 1..Len(e) /\ i + 1 \in 1..Len(e)
          BY <4>3, <2>1, <2>2, <2>4, <1>1
        <5>2. QED
          BY <5>1
      <4>4. j < pos \/ (j >= pos /\ i < pos) \/ i >= pos
        BY <2>2, <1>1
      <4>5. QED
        BY <4>1, <4>2, <4>3, <4>4, Zenon
    <3>2. QED
      BY <3>1 DEF Ascending
  <2>5. ASSUME NEW j \in 1..Len(f) PROVE f[j].ids # NoIds
    <3>1. j \in 1..Len(e) /\ j + 1 \in 1..Len(e)
      BY <2>2, <1>1
    <3>2. QED
      BY <3>1, <2>2 DEF NoEmpty
  <2>6. QED
    BY <2>2, <2>3, <2>4, <2>5 DEF Ascending, NoEmpty
<1>4. CASE HasLevelAt(e, pos, v) /\ rest # NoIds
  <2>1. pos \in 1..Len(e)
    BY <1>0, <1>4
  <2>2. rest \in [Ids -> Nat]
    BY <2>1, EntryFields, NoIdsType
  <2>3. WithoutLevel(e, v, id) = [e EXCEPT ![pos].ids = rest]
    BY <1>0, <1>4 DEF WithoutLevel
  <2> HIDE DEF rest
  <2>4. PICK f : f = [e EXCEPT ![pos].ids = rest]
    OBVIOUS
  <2>5. f \in Seq(Level) /\ Ascending(f) /\ NoEmpty(f)
    BY <1>4, <2>1, <2>2, <2>4, ReplaceIdsSpec
  <2>6. QED
    BY <2>3, <2>4, <2>5
<1>5. QED
  BY <1>2, <1>3, <1>4
-----------------------------------------------------------------------------
(***************************************************************************)
(* What an array holds: the copies of an id at a value, as the properties  *)
(* of the strategy count them.                                             *)
(***************************************************************************)
Held(e, v, id) ==
  LET at == {i \in 1..Len(e) : e[i].value = v}
  IN  IF at = {} THEN 0 ELSE e[CHOOSE i \in at : TRUE].ids[id]

(* How many copies of an identifier are held at a value: those of its one  *)
(* level, or none.                                                         *)
LEMMA HeldSpec ==
  ASSUME NEW e \in Seq(Level), Ascending(e), NEW id \in Ids
  PROVE  /\ \A i \in 1..Len(e) : Held(e, e[i].value, id) = e[i].ids[id]
         /\ \A v : (\A i \in 1..Len(e) : e[i].value # v) => Held(e, v, id) = 0
         /\ \A v : Held(e, v, id) \in Nat
<1>1. Len(e) \in Nat /\ \A i \in 1..Len(e) : e[i].value \in Int /\ e[i].ids \in [Ids -> Nat]
  BY EntryFields
<1>2. ASSUME NEW i \in 1..Len(e) PROVE Held(e, e[i].value, id) = e[i].ids[id]
  <2>1. \A j \in 1..Len(e) : e[j].value = e[i].value => j = i
    BY <1>1 DEF Ascending
  <2>2. {j \in 1..Len(e) : e[j].value = e[i].value} = {i}
    BY <2>1
  <2>3. QED
    BY <2>2 DEF Held
<1>3. ASSUME NEW v, \A i \in 1..Len(e) : e[i].value # v PROVE Held(e, v, id) = 0
  <2>1. {j \in 1..Len(e) : e[j].value = v} = {}
    BY <1>3
  <2>2. QED
    BY <2>1 DEF Held
<1>4. ASSUME NEW v PROVE Held(e, v, id) \in Nat
  <2>1. CASE \E i \in 1..Len(e) : e[i].value = v
    BY <2>1, <1>1, <1>2
  <2>2. CASE ~\E i \in 1..Len(e) : e[i].value = v
    BY <2>2, <1>3
  <2>3. QED
    BY <2>1, <2>2
<1>5. QED
  BY <1>2, <1>3, <1>4

(* Two arrays with the same levels at a value hold the same there.         *)
LEMMA SameLevelsSameHeld ==
  ASSUME NEW e \in Seq(Level), Ascending(e), NEW f \in Seq(Level), Ascending(f),
         NEW v, NEW id \in Ids,
         \A i \in 1..Len(e) : e[i].value = v =>
           \E j \in 1..Len(f) : f[j].value = v /\ f[j].ids[id] = e[i].ids[id],
         \A j \in 1..Len(f) : f[j].value = v => \E i \in 1..Len(e) : e[i].value = v
  PROVE  Held(f, v, id) = Held(e, v, id)
<1>1. CASE \E i \in 1..Len(e) : e[i].value = v
  <2>1. PICK i \in 1..Len(e) : e[i].value = v
    BY <1>1
  <2>2. PICK j \in 1..Len(f) : f[j].value = v /\ f[j].ids[id] = e[i].ids[id]
    BY <2>1
  <2>3. Held(e, v, id) = e[i].ids[id] /\ Held(f, v, id) = f[j].ids[id]
    BY <2>1, <2>2, HeldSpec, SMTT(30)
  <2>4. QED
    BY <2>2, <2>3
<1>2. CASE ~\E i \in 1..Len(e) : e[i].value = v
  <2>1. \A j \in 1..Len(f) : f[j].value # v
    BY <1>2
  <2>2. Held(f, v, id) = 0 /\ Held(e, v, id) = 0
    BY <1>2, <2>1, HeldSpec
  <2>3. QED
    BY <2>2
<1>3. QED
  BY <1>1, <1>2

(* Changing the ids of one level changes what is held at its value only.   *)
LEMMA ReplacedHeld ==
  ASSUME NEW e \in Seq(Level), Ascending(e), NEW f \in Seq(Level), Ascending(f),
         NEW pos \in 1..Len(e), NEW b, Replaced(e, f, pos, b), NEW w, NEW id \in Ids
  PROVE  Held(f, w, id) = IF w = e[pos].value THEN b[id] ELSE Held(e, w, id)
<1>1. CASE w = e[pos].value
  <2>1. pos \in 1..Len(f) /\ f[pos].value = w /\ f[pos].ids = b
    BY <1>1 DEF Replaced
  <2>2. Held(f, f[pos].value, id) = f[pos].ids[id]
    BY <2>1, HeldSpec
  <2>3. QED
    BY <1>1, <2>1, <2>2
<1>2. CASE w # e[pos].value
  <2>1. \A i \in 1..Len(e) : e[i].value = w =>
          \E j \in 1..Len(f) : f[j].value = w /\ f[j].ids[id] = e[i].ids[id]
    BY <1>2 DEF Replaced
  <2>2. \A j \in 1..Len(f) : f[j].value = w => \E i \in 1..Len(e) : e[i].value = w
    BY DEF Replaced
  <2>3. Held(f, w, id) = Held(e, w, id)
    BY <2>1, <2>2, SameLevelsSameHeld
  <2>4. QED
    BY <1>2, <2>3
<1>3. QED
  BY <1>1, <1>2

(* add_threshold adds one copy of the id at its threshold.                 *)
LEMMA WithLevelHeld ==
  ASSUME NEW e \in Seq(Level), Ascending(e), NoEmpty(e),
         NEW v \in Int, NEW id \in Ids, NEW w, NEW x \in Ids
  PROVE  Held(WithLevel(e, v, id), w, x) =
           IF w = v /\ x = id THEN Held(e, w, x) + 1 ELSE Held(e, w, x)
<1>0. PICK pos \in 1..(Len(e) + 1) :
        /\ pos = CountBelow(e, v) + 1
        /\ \A i \in 1..Len(e) : e[i].value < v <=> i < pos
        /\ HasLevelAt(e, pos, v) => pos \in 1..Len(e)
  BY PositionSpec
<1>1. Len(e) \in Nat /\ \A i \in 1..Len(e) : e[i].value \in Int
  BY EntryFields
<1>2. CASE HasLevelAt(e, pos, v)
  <2>1. pos \in 1..Len(e) /\ e[pos].value = v
    BY <1>0, <1>2 DEF HasLevelAt
  <2>2. PICK b : b = [e[pos].ids EXCEPT ![id] = @ + 1]
    OBVIOUS
  <2>9. e[pos].ids \in [Ids -> Nat]
    BY <2>1, EntryFields
  <2>3. b \in [Ids -> Nat] /\ b # NoIds
    BY <2>2, <2>9, NoIdsType
  <2>4. WithLevel(e, v, id) = [e EXCEPT ![pos].ids = b]
    BY <1>0, <1>2, <2>2 DEF WithLevel
  <2>5. Held(WithLevel(e, v, id), w, x) = IF w = v THEN b[x] ELSE Held(e, w, x)
    <3>1. PICK f : f = [e EXCEPT ![pos].ids = b]
      OBVIOUS
    <3>0. pos \in 1..Len(e)
      BY <2>1
    <3>2. f \in Seq(Level) /\ Ascending(f) /\ Replaced(e, f, pos, b)
      BY <3>0, <2>3, <3>1, ReplaceIdsSpec
    <3>3. Held(f, w, x) = IF w = e[pos].value THEN b[x] ELSE Held(e, w, x)
      BY <3>0, <3>2, ReplacedHeld
    <3>4. QED
      BY <2>1, <2>4, <3>1, <3>3
  <2>6. Held(e, v, x) = e[pos].ids[x]
    BY <2>1, HeldSpec
  <2>7. b[x] = IF x = id THEN e[pos].ids[x] + 1 ELSE e[pos].ids[x]
    BY <2>2, <2>9
  <2>8. QED
    BY <2>5, <2>6, <2>7
<1>3. CASE ~HasLevelAt(e, pos, v)
  <2>0. PICK l : l = [value |-> v, ids |-> [NoIds EXCEPT ![id] = 1]]
    OBVIOUS
  <2>1. l \in Level /\ l.value = v /\ l.ids[x] = IF x = id THEN 1 ELSE 0
    BY <2>0, NoIdsType DEF Level, NoIds
  <2>10. PICK f : f = InsertAt(e, pos, l)
    OBVIOUS
  <2>2. /\ f \in Seq(Level) /\ Len(f) = Len(e) + 1
        /\ \A j \in 1..(Len(e) + 1) :
             f[j] = IF j < pos THEN e[j] ELSE IF j = pos THEN l ELSE e[j - 1]
    <3>1. Inserted(e, f, pos, l)
      BY <2>1, <2>10, InsertLevelSpec
    <3>2. QED
      BY <3>1 DEF Inserted
  <2>3. WithLevel(e, v, id) = f
    BY <1>0, <1>3, <2>0, <2>10 DEF WithLevel
  <2>4. Ascending(f)
    BY <2>3, WithLevelSpec
  <2>5. \A i \in 1..Len(e) : e[i].value # v
    BY <1>0, <1>1, <1>3 DEF HasLevelAt, Ascending
  <2>6. CASE w = v
    <3>1. pos \in 1..Len(f) /\ f[pos] = l
      BY <1>1, <2>2
    <3>2. Held(f, w, x) = l.ids[x] /\ Held(e, w, x) = 0
      BY <2>1, <2>2, <2>4, <2>5, <2>6, <3>1, HeldSpec
    <3>3. QED
      BY <2>1, <2>3, <2>6, <3>2
  <2>7. CASE w # v
    <3>1. ASSUME NEW i \in 1..Len(e), e[i].value = w
          PROVE  \E j \in 1..Len(f) : f[j].value = w /\ f[j].ids[x] = e[i].ids[x]
      <4>1. CASE i < pos
        <5>1. i \in 1..Len(f) /\ f[i] = e[i]
          BY <4>1, <1>1, <2>2
        <5>2. QED
          BY <5>1, <3>1
      <4>2. CASE i >= pos
        <5>1. i + 1 \in 1..Len(f) /\ f[i + 1] = e[i]
          BY <4>2, <1>1, <2>2
        <5>2. QED
          BY <5>1, <3>1
      <4>3. QED
        BY <4>1, <4>2, <1>1
    <3>2. ASSUME NEW j \in 1..Len(f), f[j].value = w
          PROVE  \E i \in 1..Len(e) : e[i].value = w
      <4>1. j # pos
        BY <3>2, <2>1, <2>2, <2>7
      <4>2. CASE j < pos
        <5>1. j \in 1..Len(e) /\ f[j] = e[j]
          BY <4>2, <1>1, <2>2
        <5>2. QED
          BY <5>1, <3>2
      <4>3. CASE j > pos
        <5>1. j - 1 \in 1..Len(e) /\ f[j] = e[j - 1]
          BY <4>3, <1>1, <2>2
        <5>2. QED
          BY <5>1, <3>2
      <4>4. QED
        BY <4>1, <4>2, <4>3, <1>1, <2>2
    <3>3. Held(f, w, x) = Held(e, w, x)
      BY <2>2, <2>4, <3>1, <3>2, SameLevelsSameHeld
    <3>4. QED
      BY <2>3, <2>7, <3>3
  <2>8. QED
    BY <2>6, <2>7
<1>4. QED
  BY <1>2, <1>3

(* remove_threshold takes every copy of the id from its threshold.         *)
LEMMA WithoutLevelHeld ==
  ASSUME NEW e \in Seq(Level), Ascending(e), NoEmpty(e),
         NEW v \in Int, NEW id \in Ids, NEW w, NEW x \in Ids
  PROVE  Held(WithoutLevel(e, v, id), w, x) =
           IF w = v /\ x = id THEN 0 ELSE Held(e, w, x)
<1>0. PICK pos \in 1..(Len(e) + 1) :
        /\ pos = CountBelow(e, v) + 1
        /\ \A i \in 1..Len(e) : e[i].value < v <=> i < pos
        /\ HasLevelAt(e, pos, v) => pos \in 1..Len(e)
  BY PositionSpec
<1>1. Len(e) \in Nat /\ \A i \in 1..Len(e) : e[i].value \in Int
  BY EntryFields
<1>2. CASE ~HasLevelAt(e, pos, v)
  <2>1. WithoutLevel(e, v, id) = e
    BY <1>0, <1>2 DEF WithoutLevel
  <2>2. \A i \in 1..Len(e) : e[i].value # v
    BY <1>0, <1>1, <1>2 DEF HasLevelAt, Ascending
  <2>3. Held(e, v, x) = 0
    BY <2>2, HeldSpec
  <2>4. QED
    BY <2>1, <2>3
<1>3. CASE HasLevelAt(e, pos, v)
  <2>1. pos \in 1..Len(e)
    BY <1>0, <1>3
  <2>2. e[pos].value = v
    BY <1>3 DEF HasLevelAt
  <2>3. e[pos].ids \in [Ids -> Nat]
    BY <2>1, EntryFields
  <2>4. PICK rest : rest = [e[pos].ids EXCEPT ![id] = 0]
    OBVIOUS
  <2>5. rest \in [Ids -> Nat] /\ rest[x] = IF x = id THEN 0 ELSE e[pos].ids[x]
    BY <2>3, <2>4
  <2>6. Held(e, v, x) = e[pos].ids[x]
    BY <2>1, <2>2, HeldSpec
  <2>7. CASE rest # NoIds
    <3>1. PICK f : f = [e EXCEPT ![pos].ids = rest]
      OBVIOUS
    <3>2. WithoutLevel(e, v, id) = f
      BY <1>0, <1>3, <2>4, <2>7, <3>1 DEF WithoutLevel
    <3>3. rest \in [Ids -> Nat]
      BY <2>5
    <3>4. f \in Seq(Level) /\ Ascending(f) /\ Replaced(e, f, pos, rest)
      BY <2>1, <2>7, <3>1, <3>3, ReplaceIdsSpec
    <3>5. Held(f, w, x) = IF w = e[pos].value THEN rest[x] ELSE Held(e, w, x)
      BY <2>1, <3>4, ReplacedHeld
    <3>6. QED
      BY <2>2, <2>5, <2>6, <3>2, <3>5
  <2>8. CASE rest = NoIds
    <3>1. PICK f : f = RemoveAt(e, pos)
      OBVIOUS
    <3>2. /\ f \in Seq(Level) /\ Len(f) = Len(e) - 1
          /\ \A j \in 1..(Len(e) - 1) : f[j] = IF j < pos THEN e[j] ELSE e[j + 1]
      BY <2>1, <3>1, RemoveAtSpec
    <3>3. WithoutLevel(e, v, id) = f
      BY <1>0, <1>3, <2>4, <2>8, <3>1 DEF WithoutLevel
    <3>4. Ascending(f)
      BY <3>3, WithoutLevelSpec
    <3>5. x # id => e[pos].ids[x] = 0
      BY <2>5, <2>8 DEF NoIds
    <3>6. \A i \in 1..Len(e) : e[i].value = v => i = pos
      BY <1>1, <2>1, <2>2 DEF Ascending
    <3>7. ASSUME NEW j \in 1..Len(f)
          PROVE  \E i \in 1..Len(e) : i # pos /\ f[j] = e[i]
      <4>1. CASE j < pos
        <5>1. j \in 1..Len(e) /\ j # pos /\ f[j] = e[j]
          BY <4>1, <1>1, <3>2
        <5>2. QED
          BY <5>1
      <4>2. CASE j >= pos
        <5>1. j + 1 \in 1..Len(e) /\ j + 1 # pos /\ f[j] = e[j + 1]
          BY <4>2, <1>1, <3>2, <2>1
        <5>2. QED
          BY <5>1
      <4>3. QED
        BY <4>1, <4>2, <1>1, <3>2
    <3>8. ASSUME NEW i \in 1..Len(e), i # pos
          PROVE  \E j \in 1..Len(f) : f[j] = e[i]
      <4>1. CASE i < pos
        <5>1. i \in 1..Len(f) /\ f[i] = e[i]
          BY <4>1, <1>1, <3>2, <2>1
        <5>2. QED
          BY <5>1
      <4>2. CASE i > pos
        <5>1. i - 1 \in 1..Len(f) /\ ~(i - 1 < pos) /\ (i - 1) + 1 = i
          BY <4>2, <1>1, <3>2, <2>1
        <5>2. f[i - 1] = e[i]
          BY <5>1, <3>2
        <5>3. QED
          BY <5>1, <5>2
      <4>3. QED
        BY <4>1, <4>2, <3>8, <1>1
    <3>9. CASE w = v
      <4>1. \A j \in 1..Len(f) : f[j].value # v
        BY <3>6, <3>7
      <4>2. Held(f, v, x) = 0
        BY <3>2, <3>4, <4>1, HeldSpec
      <4>3. QED
        BY <2>6, <3>3, <3>5, <3>9, <4>2
    <3>10. CASE w # v
      <4>1. \A i \in 1..Len(e) : e[i].value = w =>
              \E j \in 1..Len(f) : f[j].value = w /\ f[j].ids[x] = e[i].ids[x]
        BY <2>2, <3>8, <3>10
      <4>2. \A j \in 1..Len(f) : f[j].value = w => \E i \in 1..Len(e) : e[i].value = w
        BY <3>7
      <4>3. Held(f, w, x) = Held(e, w, x)
        BY <3>2, <3>4, <4>1, <4>2, SameLevelsSameHeld
      <4>4. QED
        BY <3>3, <3>10, <4>3
    <3>11. QED
      BY <3>9, <3>10
  <2>9. QED
    BY <2>7, <2>8
<1>4. QED
  BY <1>2, <1>3

-----------------------------------------------------------------------------
(***************************************************************************)
(* One tree: its shape, its sentinels, and what each operation does.       *)
(***************************************************************************)
Shape(t) == /\ t \in Tree
            /\ Ascending(t.entries)
            /\ NoEmpty(t.entries)
            /\ t.last_price = None => t.upper_idx = None /\ t.lower_idx = None
            /\ t.upper_idx # None => t.upper_idx \in 1..Len(t.entries)
            /\ t.lower_idx # None => t.lower_idx \in 1..Len(t.entries)

AtUpper(t, i) == t.upper_idx # None /\ i >= t.upper_idx

AtLower(t, i) == t.lower_idx # None /\ i <= t.lower_idx

Bracket(t) ==
  /\ \A i \in 1..Len(t.entries) : AtUpper(t, i) => t.entries[i].value >= t.last_price
  /\ \A i \in 1..Len(t.entries) : AtLower(t, i) => t.entries[i].value <= t.last_price
  /\ \A i \in 1..Len(t.entries) : ~(AtUpper(t, i) /\ AtLower(t, i))
  /\ \A i, j \in 1..Len(t.entries) :
       ~AtUpper(t, i) /\ ~AtLower(t, i) /\ ~AtUpper(t, j) /\ ~AtLower(t, j) => i = j
  /\ \A i, j \in 1..Len(t.entries) :
       ~AtUpper(t, i) /\ ~AtLower(t, i) =>
         /\ AtUpper(t, j) => t.entries[j].value > t.last_price
         /\ AtLower(t, j) => t.entries[j].value < t.last_price

(* recompute_sentinels establishes the bracket; only a level equal to the  *)
(* price is left in the gap.                                               *)
LEMMA RecomputeSpec ==
  ASSUME NEW t \in Tree, Ascending(t.entries), NoEmpty(t.entries),
         t.last_price = None => t.upper_idx = None /\ t.lower_idx = None
  PROVE  /\ Shape(RecomputeSentinels(t))
         /\ RecomputeSentinels(t).entries = t.entries
         /\ RecomputeSentinels(t).last_price = t.last_price
         /\ t.last_price # None => Bracket(RecomputeSentinels(t))
<1>1. /\ t.entries \in Seq(Level) /\ Len(t.entries) \in Nat
      /\ \A i \in 1..Len(t.entries) : t.entries[i].value \in Int
  <2>1. t.entries \in Seq(Level)
    BY DEF Tree
  <2>2. QED
    BY <2>1, EntryFields
<1>2. CASE t.last_price = None
  BY <1>2 DEF RecomputeSentinels, Shape
<1>3. CASE t.last_price # None
  <2>1. t.last_price \in Int
    BY <1>3 DEF Tree
  <2>2. PICK below \in 0..Len(t.entries) :
          /\ below = CountBelow(t.entries, t.last_price)
          /\ \A i \in 1..Len(t.entries) : t.entries[i].value < t.last_price <=> i <= below
    BY <1>1, <2>1, CountBelowSpec
  <2>3. PICK upto \in 0..Len(t.entries) :
          /\ upto = CountUpTo(t.entries, t.last_price)
          /\ \A i \in 1..Len(t.entries) : t.entries[i].value <= t.last_price <=> i <= upto
    <3>1. /\ CountUpTo(t.entries, t.last_price) \in 0..Len(t.entries)
          /\ \A i \in 1..Len(t.entries) :
               t.entries[i].value <= t.last_price <=> i <= CountUpTo(t.entries, t.last_price)
      BY <1>1, <2>1, CountUpToSpec
    <3>2. QED
      BY <3>1, Zenon
  <2>4. PICK u, l : /\ u = IF upto < Len(t.entries) THEN upto + 1 ELSE None
                    /\ l = IF below > 0 THEN below ELSE None
    OBVIOUS
  <2>5. RecomputeSentinels(t) = [t EXCEPT !.upper_idx = u, !.lower_idx = l]
    BY <1>3, <2>2, <2>3, <2>4 DEF RecomputeSentinels
  <2>6. PICK r : r = [t EXCEPT !.upper_idx = u, !.lower_idx = l]
    OBVIOUS
  <2>7. /\ u = None \/ u \in 1..Len(t.entries)
        /\ l = None \/ l \in 1..Len(t.entries)
    BY <1>1, <2>2, <2>3, <2>4
  <2>8. /\ r \in Tree /\ r.entries = t.entries /\ r.last_price = t.last_price
        /\ r.upper_idx = u /\ r.lower_idx = l
    <3>1. u \in (Nat \ {0}) \cup {None} /\ l \in (Nat \ {0}) \cup {None}
      BY <2>7, <1>1
    <3>2. QED
      BY <3>1, <2>6 DEF Tree
  <2>9. Shape(r)
    BY <1>3, <2>7, <2>8 DEF Shape
  <2>10. ASSUME NEW i \in 1..Len(t.entries)
         PROVE  /\ AtUpper(r, i) <=> t.entries[i].value > t.last_price
                /\ AtLower(r, i) <=> t.entries[i].value < t.last_price
    <3>1. u # None /\ i >= u <=> i > upto
      BY <1>1, <2>3, <2>4, NoneAssumption
    <3>2. l # None /\ i <= l <=> i <= below
      BY <1>1, <2>2, <2>4, NoneAssumption
    <3>3. t.entries[i].value > t.last_price <=> i > upto
      BY <1>1, <2>1, <2>3
    <3>4. QED
      BY <3>1, <3>2, <3>3, <2>2, <2>8 DEF AtUpper, AtLower
  <2>11. Bracket(r)
    <3>1. \A i, j \in 1..Len(t.entries) : i # j =>
            t.entries[i].value < t.entries[j].value \/ t.entries[j].value < t.entries[i].value
      BY <1>1 DEF Ascending
    <3>2. \A i \in 1..Len(t.entries) : t.entries[i].value \in Int
      BY <1>1
    <3>3. \A i \in 1..Len(t.entries) :
            /\ AtUpper(r, i) => t.entries[i].value >= t.last_price
            /\ AtLower(r, i) => t.entries[i].value <= t.last_price
            /\ ~(AtUpper(r, i) /\ AtLower(r, i))
      BY <2>1, <2>10, <3>2
    <3>4. ASSUME NEW i \in 1..Len(t.entries), NEW j \in 1..Len(t.entries),
                 ~AtUpper(r, i), ~AtLower(r, i), ~AtUpper(r, j), ~AtLower(r, j)
          PROVE  i = j
      <4>1. t.entries[i].value = t.last_price /\ t.entries[j].value = t.last_price
        BY <2>1, <2>10, <3>2, <3>4
      <4>2. QED
        BY <4>1, <3>1, <2>1
    <3>5. \A i \in 1..Len(t.entries) :
            /\ AtUpper(r, i) => t.entries[i].value > t.last_price
            /\ AtLower(r, i) => t.entries[i].value < t.last_price
      BY <2>10
    <3>6. QED
      BY <2>8, <3>3, <3>4, <3>5 DEF Bracket
  <2>12. QED
    BY <2>5, <2>6, <2>8, <2>9, <2>11
<1>4. QED
  BY <1>2, <1>3
(* What one tick does to an armed tree: r is the tree after it, W the      *)
(* levels returned.                                                        *)
Between(a, v, b) == (a <= v /\ v <= b) \/ (b <= v /\ v <= a)

Passed(a, v, b) == (a < v /\ v <= b) \/ (b <= v /\ v < a)

Outcome(t, r, W, price) ==
  /\ Shape(r) /\ Bracket(r) /\ r.entries = t.entries /\ r.last_price = price
  /\ W \subseteq 1..Len(t.entries)
  /\ \A i \in W : Between(t.last_price, t.entries[i].value, price)
  /\ \A i \in 1..Len(t.entries) :
       Passed(t.last_price, t.entries[i].value, price) /\ (AtUpper(t, i) \/ AtLower(t, i))
         => i \in W

(* The types of the fields of a well-shaped tree.                          *)
LEMMA TreeFields ==
  ASSUME NEW t, Shape(t)
  PROVE  /\ t.entries \in Seq(Level) /\ Len(t.entries) \in Nat
         /\ \A i \in 1..Len(t.entries) : t.entries[i].value \in Int
         /\ t.last_price # None => t.last_price \in Int
<1>1. t.entries \in Seq(Level) /\ t.last_price \in Int \cup {None}
  BY DEF Shape, Tree
<1>2. QED
  BY <1>1, EntryFields

(* A tree with new sentinels and a new price keeps its shape.              *)
Moved(t, price, u, l) ==
  [t EXCEPT !.last_price = price, !.upper_idx = u, !.lower_idx = l]

(* Moving the sentinels and the last price keeps the shape and the         *)
(* levels.                                                                 *)
LEMMA MovedShape ==
  ASSUME NEW t, Shape(t), NEW price \in Int, NEW u, NEW l,
         u = None \/ u \in 1..Len(t.entries), l = None \/ l \in 1..Len(t.entries)
  PROVE  LET r == Moved(t, price, u, l)
         IN  /\ Shape(r) /\ r.entries = t.entries /\ r.last_price = price
             /\ r.upper_idx = u /\ r.lower_idx = l
<1>0. PICK r : r = Moved(t, price, u, l)
  OBVIOUS
<1>1. u \in (Nat \ {0}) \cup {None} /\ l \in (Nat \ {0}) \cup {None}
  BY TreeFields
<1>2. t \in Tree
  BY DEF Shape
<1>3. /\ r \in Tree /\ r.entries = t.entries /\ r.last_price = price
      /\ r.upper_idx = u /\ r.lower_idx = l
  BY <1>0, <1>1, <1>2 DEF Tree, Moved
<1>4. Shape(r)
  BY <1>3, NoneAssumption DEF Shape
<1>5. QED
  BY <1>0, <1>3, <1>4

(* The drift of the sentinels on a rising price finds the crossed levels.  *)
LEMMA WalkUpOutcome ==
  ASSUME NEW t, Shape(t), Bracket(t), t.last_price # None,
         NEW price \in Int, WalksUp(t, price)
  PROVE  Outcome(t, DriftAfter(t, price), DriftWalked(t, price), price)
<1> DEFINE n == Len(t.entries)
           V(i) == t.entries[i].value
           u == t.upper_idx
<1>1. /\ n \in Nat /\ t.last_price \in Int
      /\ \A i \in 1..n : V(i) \in Int
      /\ \A i, j \in 1..n : i < j => V(i) < V(j)
  BY TreeFields DEF Shape, Ascending
<1>2. u \in 1..n /\ u # None /\ price > t.last_price
  BY DEF WalksUp, Shape
<1>3. PICK k \in u..(n + 1) : /\ k = UpStop(t, price)
                              /\ \A i \in u..(k - 1) : V(i) <= price
                              /\ k <= n => V(k) > price
  <2>1. t \in Tree
    BY DEF Shape
  <2>2. QED
    BY <2>1, <1>2, UpStopSpec
<1>4. V(u) <= price
  <2>1. CASE CrossedUpper(t, price)
    BY <2>1, <1>1, <1>2 DEF CrossedUpper
  <2>2. CASE CrossedLower(t, price)
    <3>1. t.lower_idx \in 1..n /\ price <= V(t.lower_idx) /\ AtLower(t, t.lower_idx)
      BY <2>2 DEF CrossedLower, Shape, AtLower
    <3>2. V(t.lower_idx) <= t.last_price
      BY <3>1 DEF Bracket
    <3>3. QED
      BY <3>1, <3>2, <1>1, <1>2
  <2>3. QED
    BY <2>1, <2>2 DEF WalksUp
<1>5. k > u /\ k - 1 \in 1..n /\ k > 1
  <2>1. k # u
    BY <1>1, <1>2, <1>3, <1>4
  <2>2. QED
    BY <2>1, <1>1, <1>2, <1>3
<1>6. \A i \in 1..n : i < k => V(i) <= price
  <2>1. ASSUME NEW i \in 1..n, i < k PROVE V(i) <= price
    <3>1. CASE i >= u
      BY <3>1, <2>1, <1>1, <1>2, <1>3
    <3>2. CASE i < u
      BY <3>2, <1>1, <1>2, <1>4
    <3>3. QED
      BY <3>1, <3>2, <1>1, <1>2
  <2>2. QED
    BY <2>1
<1>7. \A i \in 1..n : i >= k => V(i) > price
  <2>1. ASSUME NEW i \in 1..n, i >= k PROVE V(i) > price
    <3>1. k \in 1..n /\ V(k) > price
      BY <2>1, <1>1, <1>2, <1>3
    <3>2. i = k \/ V(k) < V(i)
      BY <2>1, <3>1, <1>1, SMTT(30)
    <3>3. QED
      BY <3>1, <3>2, <1>1
  <2>2. QED
    BY <2>1
<1>8. PICK newU, newL : newU = (IF k <= n THEN k ELSE None) /\ newL = k - 1
  OBVIOUS
<1>9. PICK r : r = Moved(t, price, newU, newL)
  OBVIOUS
<1>10. DriftAfter(t, price) = r /\ DriftWalked(t, price) = u..(k - 1)
  BY <1>3, <1>5, <1>8, <1>9 DEF DriftAfter, DriftWalked, Moved
<1>11. /\ Shape(r) /\ r.entries = t.entries /\ r.last_price = price
       /\ r.upper_idx = newU /\ r.lower_idx = k - 1
  <2>1. newU = None \/ newU \in 1..n
    BY <1>1, <1>2, <1>3, <1>8
  <2>2. newL \in 1..n
    BY <1>5, <1>8
  <2>3. /\ Shape(r) /\ r.entries = t.entries /\ r.last_price = price
        /\ r.upper_idx = newU /\ r.lower_idx = newL
    BY <2>1, <2>2, <1>9, MovedShape
  <2>4. QED
    BY <2>3, <1>8
<1>12. \A i \in 1..n : (AtUpper(r, i) <=> i >= k) /\ (AtLower(r, i) <=> i < k)
  <2>1. \A i \in 1..n : newU # None /\ i >= newU <=> i >= k
    BY <1>1, <1>2, <1>3, <1>8, NoneAssumption
  <2>2. \A i \in 1..n : k - 1 # None /\ i <= k - 1 <=> i < k
    BY <1>1, <1>5, NoneAssumption
  <2>3. QED
    BY <2>1, <2>2, <1>11 DEF AtUpper, AtLower
<1>13. Bracket(r)
  <2>1. \A i \in 1..n : i >= k \/ i < k
    BY <1>1
  <2>2. \A i \in 1..n : ~(i >= k /\ i < k)
    BY <1>1
  <2>3. \A i \in 1..n : i >= k => V(i) >= price
    BY <1>1, <1>7
  <2>4. QED
    BY <2>1, <2>2, <2>3, <1>6, <1>11, <1>12 DEF Bracket
<1>14. ASSUME NEW i \in u..(k - 1)
       PROVE  i \in 1..n /\ Between(t.last_price, V(i), price)
  <2>1. i \in 1..n /\ AtUpper(t, i)
    BY <1>1, <1>2, <1>3 DEF AtUpper
  <2>2. V(i) >= t.last_price /\ V(i) <= price
    BY <2>1, <1>3 DEF Bracket
  <2>3. QED
    BY <2>1, <2>2 DEF Between
<1>15. ASSUME NEW i \in 1..n, Passed(t.last_price, V(i), price), AtUpper(t, i) \/ AtLower(t, i)
       PROVE  i \in u..(k - 1)
  <2>1. V(i) > t.last_price /\ V(i) <= price
    BY <1>15, <1>1, <1>2 DEF Passed
  <2>2. ~AtLower(t, i)
    BY <2>1, <1>1 DEF Bracket
  <2>3. i >= u
    BY <2>2, <1>15 DEF AtUpper
  <2>4. ~(i >= k)
    BY <2>1, <1>1, <1>7
  <2>5. QED
    BY <2>3, <2>4, <1>1, <1>2, <1>3
<1>16. QED
  BY <1>10, <1>11, <1>13, <1>14, <1>15 DEF Outcome
(* The drift of the sentinels on a falling price finds the crossed         *)
(* levels.                                                                 *)
LEMMA WalkDownOutcome ==
  ASSUME NEW t, Shape(t), Bracket(t), t.last_price # None,
         NEW price \in Int, WalksDown(t, price)
  PROVE  Outcome(t, DriftAfter(t, price), DriftWalked(t, price), price)
<1> DEFINE n == Len(t.entries)
           V(i) == t.entries[i].value
           l == t.lower_idx
<1>1. /\ n \in Nat /\ t.last_price \in Int
      /\ \A i \in 1..n : V(i) \in Int
      /\ \A i, j \in 1..n : i < j => V(i) < V(j)
  BY TreeFields DEF Shape, Ascending
<1>2. l \in 1..n /\ l # None /\ price <= t.last_price
  BY DEF WalksDown, Shape
<1>3. PICK k \in 0..l : /\ k = DownStop(t, price)
                        /\ \A i \in (k + 1)..l : V(i) >= price
                        /\ k > 0 => V(k) < price
  <2>1. t \in Tree
    BY DEF Shape
  <2>2. QED
    BY <2>1, <1>2, DownStopSpec
<1>4. \A i \in 1..n : i <= k => V(i) < price
  <2>1. ASSUME NEW i \in 1..n, i <= k PROVE V(i) < price
    <3>1. k \in 1..n /\ V(k) < price
      BY <2>1, <1>1, <1>2, <1>3
    <3>2. i = k \/ V(i) < V(k)
      BY <2>1, <3>1, <1>1
    <3>3. QED
      BY <3>1, <3>2, <1>1
  <2>2. QED
    BY <2>1
(* When the walk does not move, the price sits on the upper sentinel.      *)
<1>5. ASSUME k = l
      PROVE  k + 1 \in 1..n /\ \A i \in 1..n : i > k => V(i) >= price
  <2>1. ~CrossedLower(t, price)
    BY <1>1, <1>2, <1>3, <1>5 DEF CrossedLower
  <2>2. CrossedUpper(t, price)
    BY <2>1 DEF WalksDown
  <2>3. /\ t.upper_idx \in 1..n /\ price >= V(t.upper_idx) /\ AtUpper(t, t.upper_idx)
    BY <2>2 DEF CrossedUpper, Shape, AtUpper
  <2>4. V(t.upper_idx) = t.last_price /\ price = t.last_price
    <3>1. V(t.upper_idx) >= t.last_price
      BY <2>3 DEF Bracket
    <3>2. QED
      BY <3>1, <2>3, <1>1, <1>2
  <2>5. \A i \in 1..n : AtUpper(t, i) \/ AtLower(t, i)
    <3>1. ~(V(t.upper_idx) > t.last_price)
      BY <2>4, <1>1
    <3>2. QED
      BY <2>3, <3>1 DEF Bracket
  <2>6. ASSUME NEW i \in 1..n, i > l PROVE V(i) >= price
    <3>1. ~AtLower(t, i)
      BY <2>6, <1>1, <1>2 DEF AtLower
    <3>2. V(i) >= t.last_price
      BY <3>1, <2>5 DEF Bracket
    <3>3. QED
      BY <3>2, <2>4
  <2>7. t.upper_idx > l
    <3>1. ~AtLower(t, t.upper_idx)
      BY <2>3 DEF Bracket
    <3>2. QED
      BY <3>1, <2>3, <1>1, <1>2 DEF AtLower
  <2>8. k + 1 \in 1..n
    BY <2>3, <2>7, <1>1, <1>2, <1>5
  <2>9. QED
    BY <2>6, <2>8, <1>5
<1>6. ASSUME k < l
      PROVE  k + 1 \in 1..n /\ \A i \in 1..n : i > k => V(i) >= price
  <2>1. k + 1 \in 1..n
    BY <1>1, <1>2, <1>3, <1>6
  <2>2. V(l) >= price
    BY <1>2, <1>3, <1>6
  <2>3. ASSUME NEW i \in 1..n, i > k PROVE V(i) >= price
    <3>1. CASE i <= l
      BY <3>1, <2>3, <1>1, <1>2, <1>3
    <3>2. CASE i > l
      <4>1. V(l) < V(i)
        BY <3>2, <1>1, <1>2
      <4>2. QED
        BY <4>1, <2>2, <1>1, <1>2, SMTT(30)
    <3>3. QED
      BY <3>1, <3>2, <1>1, <1>2
  <2>4. QED
    BY <2>1, <2>3
<1>7. k + 1 \in 1..n /\ \A i \in 1..n : i > k => V(i) >= price
  <2>1. k = l \/ k < l
    BY <1>1, <1>2, <1>3
  <2>2. QED
    BY <2>1, <1>5, <1>6
<1>8. PICK newU, newL : newU = k + 1 /\ newL = IF k = 0 THEN None ELSE k
  OBVIOUS
<1>9. PICK r : r = Moved(t, price, newU, newL)
  OBVIOUS
<1>10. DriftAfter(t, price) = r /\ DriftWalked(t, price) = (k + 1)..l
  <2>1. ~WalksUp(t, price)
    BY <1>1, <1>2 DEF WalksUp
  <2>2. r = [t EXCEPT !.last_price = price, !.lower_idx = newL, !.upper_idx = newU]
    BY <1>9 DEF Shape, Tree, Moved
  <2>3. QED
    BY <1>3, <1>8, <2>1, <2>2 DEF DriftAfter, DriftWalked
<1>11. /\ Shape(r) /\ r.entries = t.entries /\ r.last_price = price
       /\ r.upper_idx = newU /\ r.lower_idx = newL
  <2>1. newU \in 1..n /\ (newL = None \/ newL \in 1..n)
    BY <1>1, <1>2, <1>3, <1>7, <1>8
  <2>2. QED
    BY <2>1, <1>9, MovedShape
<1>12. \A i \in 1..n : (AtUpper(r, i) <=> i > k) /\ (AtLower(r, i) <=> i <= k)
  <2>1. \A i \in 1..n : newU # None /\ i >= newU <=> i > k
    BY <1>1, <1>2, <1>3, <1>8, NoneAssumption
  <2>2. \A i \in 1..n : newL # None /\ i <= newL <=> i <= k
    BY <1>1, <1>2, <1>3, <1>8, NoneAssumption
  <2>3. QED
    BY <2>1, <2>2, <1>11 DEF AtUpper, AtLower
<1>13. Bracket(r)
  <2>1. \A i \in 1..n : i > k \/ i <= k
    BY <1>1, <1>2, <1>3
  <2>2. \A i \in 1..n : ~(i > k /\ i <= k)
    BY <1>1, <1>2, <1>3
  <2>3. \A i \in 1..n : i <= k => V(i) <= price
    BY <1>1, <1>4
  <2>4. QED
    BY <2>1, <2>2, <2>3, <1>7, <1>11, <1>12 DEF Bracket
<1>14. ASSUME NEW i \in (k + 1)..l
       PROVE  i \in 1..n /\ Between(t.last_price, V(i), price)
  <2>1. i \in 1..n /\ AtLower(t, i)
    BY <1>1, <1>2, <1>3 DEF AtLower
  <2>2. V(i) <= t.last_price /\ V(i) >= price
    BY <2>1, <1>3 DEF Bracket
  <2>3. QED
    BY <2>1, <2>2, <1>1 DEF Between
<1>15. ASSUME NEW i \in 1..n, Passed(t.last_price, V(i), price), AtUpper(t, i) \/ AtLower(t, i)
       PROVE  i \in (k + 1)..l
  <2>1. V(i) < t.last_price /\ V(i) >= price
    BY <1>15, <1>1, <1>2 DEF Passed
  <2>2. ~AtUpper(t, i)
    BY <2>1, <1>1 DEF Bracket
  <2>3. i <= l
    BY <2>2, <1>15 DEF AtLower
  <2>4. ~(i <= k)
    BY <2>1, <1>1, <1>4
  <2>5. QED
    BY <2>3, <2>4, <1>1, <1>2, <1>3
<1>16. QED
  BY <1>10, <1>11, <1>13, <1>14, <1>15 DEF Outcome
(* A tick that walks nowhere: no guarded level was passed.                 *)
LEMMA StayOutcome ==
  ASSUME NEW t, Shape(t), Bracket(t), t.last_price # None,
         NEW price \in Int, ~WalksUp(t, price), ~WalksDown(t, price)
  PROVE  Outcome(t, DriftAfter(t, price), DriftWalked(t, price), price)
<1> DEFINE n == Len(t.entries)
           V(i) == t.entries[i].value
<1>1. /\ n \in Nat /\ t.last_price \in Int
      /\ \A i \in 1..n : V(i) \in Int
      /\ \A i, j \in 1..n : i < j => V(i) < V(j)
  BY TreeFields DEF Shape, Ascending
<1>2. PICK r : r = [t EXCEPT !.last_price = price]
  OBVIOUS
<1>3. DriftAfter(t, price) = r /\ DriftWalked(t, price) = {}
  BY <1>2 DEF DriftAfter, DriftWalked
<1>4. /\ Shape(r) /\ r.entries = t.entries /\ r.last_price = price
      /\ r.upper_idx = t.upper_idx /\ r.lower_idx = t.lower_idx
  <2>1. /\ r \in Tree /\ r.entries = t.entries /\ r.last_price = price
        /\ r.upper_idx = t.upper_idx /\ r.lower_idx = t.lower_idx
    BY <1>2 DEF Shape, Tree
  <2>2. QED
    BY <2>1, NoneAssumption DEF Shape
(* An entry guarded from above is at or past the upper sentinel's.         *)
<1>5. ASSUME NEW i \in 1..n, AtUpper(t, i)
      PROVE  /\ t.upper_idx # None /\ t.upper_idx \in 1..n
             /\ V(t.upper_idx) <= V(i) /\ V(t.upper_idx) >= t.last_price
  <2>1. t.upper_idx # None /\ t.upper_idx \in 1..n /\ i >= t.upper_idx
    BY <1>5 DEF AtUpper, Shape
  <2>2. AtUpper(t, t.upper_idx)
    BY <2>1 DEF AtUpper
  <2>3. V(t.upper_idx) >= t.last_price
    BY <2>1, <2>2 DEF Bracket
  <2>4. i = t.upper_idx \/ V(t.upper_idx) < V(i)
    BY <2>1, <1>1
  <2>5. QED
    BY <2>1, <2>3, <2>4, <1>1
<1>6. ASSUME NEW i \in 1..n, AtLower(t, i)
      PROVE  /\ t.lower_idx # None /\ t.lower_idx \in 1..n
             /\ V(i) <= V(t.lower_idx) /\ V(t.lower_idx) <= t.last_price
  <2>1. t.lower_idx # None /\ t.lower_idx \in 1..n /\ i <= t.lower_idx
    BY <1>6 DEF AtLower, Shape
  <2>2. AtLower(t, t.lower_idx)
    BY <2>1 DEF AtLower
  <2>3. V(t.lower_idx) <= t.last_price
    BY <2>1, <2>2 DEF Bracket
  <2>4. i = t.lower_idx \/ V(i) < V(t.lower_idx)
    BY <2>1, <1>1, SMTT(30)
  <2>5. QED
    BY <2>1, <2>3, <2>4, <1>1
<1>7. ASSUME NEW i \in 1..n, AtUpper(t, i)
      PROVE  V(i) >= price /\ (price > t.last_price => V(i) > price)
  <2>1. CASE price > t.last_price
    <3>1. ~CrossedUpper(t, price)
      BY <1>5, <1>7, <2>1 DEF WalksUp
    <3>2. price < V(t.upper_idx)
      BY <3>1, <1>5, <1>7, <1>1 DEF CrossedUpper
    <3>3. QED
      BY <3>2, <1>5, <1>7, <1>1
  <2>2. CASE price <= t.last_price
    BY <2>2, <1>5, <1>7, <1>1, SMTT(30)
  <2>3. QED
    BY <2>1, <2>2, <1>1
<1>8. ASSUME NEW i \in 1..n, AtLower(t, i)
      PROVE  V(i) <= price /\ (price < t.last_price => V(i) < price)
  <2>1. CASE price <= t.last_price
    <3>1. ~CrossedLower(t, price)
      BY <1>6, <1>8, <2>1 DEF WalksDown
    <3>2. price > V(t.lower_idx)
      BY <3>1, <1>6, <1>8, <1>1 DEF CrossedLower
    <3>3. QED
      BY <3>2, <1>6, <1>8, <1>1
  <2>2. CASE price > t.last_price
    BY <2>2, <1>6, <1>8, <1>1
  <2>3. QED
    BY <2>1, <2>2, <1>1
<1>9. \A i \in 1..n : (AtUpper(r, i) <=> AtUpper(t, i)) /\ (AtLower(r, i) <=> AtLower(t, i))
  BY <1>4 DEF AtUpper, AtLower
(* With a level in the gap neither sentinel is met by the new price.       *)
<1>10. ASSUME NEW i \in 1..n, ~AtUpper(t, i), ~AtLower(t, i), NEW j \in 1..n
       PROVE  /\ AtUpper(t, j) => V(j) > price
              /\ AtLower(t, j) => V(j) < price
  <2>1. AtUpper(t, j) => V(j) > t.last_price
    BY <1>10 DEF Bracket
  <2>2. AtLower(t, j) => V(j) < t.last_price
    BY <1>10 DEF Bracket
  <2>3. AtUpper(t, j) => V(j) > price
    BY <2>1, <1>7, <1>1
  <2>4. AtLower(t, j) => V(j) < price
    BY <2>2, <1>8, <1>1
  <2>5. QED
    BY <2>3, <2>4
<1>11. Bracket(r)
  <2>1. \A i \in 1..n : ~(AtUpper(t, i) /\ AtLower(t, i))
    BY DEF Bracket
  <2>2. \A i, j \in 1..n :
          ~AtUpper(t, i) /\ ~AtLower(t, i) /\ ~AtUpper(t, j) /\ ~AtLower(t, j) => i = j
    BY DEF Bracket
  <2>3. QED
    BY <2>1, <2>2, <1>4, <1>7, <1>8, <1>9, <1>10 DEF Bracket
<1>12. ASSUME NEW i \in 1..n, Passed(t.last_price, V(i), price)
       PROVE  ~AtUpper(t, i) /\ ~AtLower(t, i)
  <2>1. CASE t.last_price < V(i) /\ V(i) <= price
    <3>1. ~AtUpper(t, i)
      BY <2>1, <1>7, <1>1
    <3>2. ~AtLower(t, i)
      BY <2>1, <1>6, <1>1
    <3>3. QED
      BY <3>1, <3>2
  <2>2. CASE price <= V(i) /\ V(i) < t.last_price
    <3>1. ~AtUpper(t, i)
      BY <2>2, <1>5, <1>1
    <3>2. ~AtLower(t, i)
      BY <2>2, <1>8, <1>1
    <3>3. QED
      BY <3>1, <3>2
  <2>3. QED
    BY <2>1, <2>2, <1>12 DEF Passed
<1>13. QED
  BY <1>3, <1>4, <1>11, <1>12 DEF Outcome

(* evaluate_drift_sentinel on an armed tree.                               *)
LEMMA DriftOutcome ==
  ASSUME NEW t, Shape(t), Bracket(t), t.last_price # None, NEW price \in Int
  PROVE  Outcome(t, DriftAfter(t, price), DriftWalked(t, price), price)
BY WalkUpOutcome, WalkDownOutcome, StayOutcome
(* The first tick only arms the tree.                                      *)
LEMMA ArmOutcome ==
  ASSUME NEW t, Shape(t), t.last_price = None, NEW price \in Int
  PROVE  LET r == DriftAfter(t, price)
         IN  /\ Shape(r) /\ Bracket(r) /\ r.entries = t.entries /\ r.last_price = price
             /\ DriftWalked(t, price) = {}
<1>1. PICK a : a = [t EXCEPT !.last_price = price]
  OBVIOUS
<1>2. /\ a \in Tree /\ a.entries = t.entries /\ a.last_price = price
      /\ a.upper_idx = None /\ a.lower_idx = None
  BY <1>1 DEF Shape, Tree
<1>3. price # None
  BY NoneAssumption
<1>4. Ascending(a.entries) /\ NoEmpty(a.entries)
  BY <1>2 DEF Shape
<1>5. DriftAfter(t, price) = RecomputeSentinels(a) /\ DriftWalked(t, price) = {}
  BY <1>1 DEF DriftAfter, DriftWalked
<1>6. QED
  BY <1>2, <1>3, <1>4, <1>5, RecomputeSpec

(* evaluate_binary_search on an armed tree returns the levels passed.      *)
LEMMA BinaryOutcome ==
  ASSUME NEW t, Shape(t), NEW price \in Int
  PROVE  /\ Shape(BinaryAfter(t, price))
         /\ BinaryAfter(t, price).last_price = price
         /\ BinaryWalked(t, price) =
              IF t.last_price = None THEN {}
              ELSE {i \in 1..Len(t.entries) : Passed(t.last_price, t.entries[i].value, price)}
<1> DEFINE n == Len(t.entries)
           V(i) == t.entries[i].value
           old == t.last_price
<1>1. /\ t.entries \in Seq(Level) /\ n \in Nat /\ Ascending(t.entries)
      /\ \A i \in 1..n : V(i) \in Int
      /\ old # None => old \in Int
  BY TreeFields DEF Shape
<1>2. Shape(BinaryAfter(t, price)) /\ BinaryAfter(t, price).last_price = price
  <2>1. PICK r : r = [t EXCEPT !.last_price = price]
    OBVIOUS
  <2>2. /\ r \in Tree /\ r.entries = t.entries /\ r.last_price = price
        /\ r.upper_idx = t.upper_idx /\ r.lower_idx = t.lower_idx
    BY <2>1 DEF Shape, Tree
  <2>3. Shape(r)
    BY <2>2, NoneAssumption DEF Shape
  <2>4. QED
    BY <2>1, <2>2, <2>3 DEF BinaryAfter
<1>3. CASE old = None
  BY <1>2, <1>3 DEF BinaryWalked
<1>4. CASE old # None /\ price > old
  <2>1. PICK a \in 0..n : a = CountUpTo(t.entries, old) /\ \A i \in 1..n : V(i) <= old <=> i <= a
    BY <1>1, <1>4, CountUpToSpec
  <2>2. PICK b \in 0..n : b = CountUpTo(t.entries, price) /\ \A i \in 1..n : V(i) <= price <=> i <= b
    BY <1>1, CountUpToSpec
  <2>3. BinaryWalked(t, price) = (a + 1)..b
    BY <1>4, <2>1, <2>2 DEF BinaryWalked
  <2>4. \A i \in 1..n : Passed(old, V(i), price) <=> i > a /\ i <= b
    BY <1>1, <1>4, <2>1, <2>2 DEF Passed
  <2>5. (a + 1)..b = {i \in 1..n : Passed(old, V(i), price)}
    BY <1>1, <2>1, <2>2, <2>4
  <2>6. QED
    BY <1>2, <1>4, <2>3, <2>5
<1>5. CASE old # None /\ ~(price > old)
  <2>1. PICK a \in 0..n : a = CountBelow(t.entries, price) /\ \A i \in 1..n : V(i) < price <=> i <= a
    BY <1>1, CountBelowSpec
  <2>2. PICK b \in 0..n : b = CountBelow(t.entries, old) /\ \A i \in 1..n : V(i) < old <=> i <= b
    BY <1>1, <1>5, CountBelowSpec
  <2>3. BinaryWalked(t, price) = (a + 1)..b
    BY <1>5, <2>1, <2>2 DEF BinaryWalked
  <2>4. \A i \in 1..n : Passed(old, V(i), price) <=> i > a /\ i <= b
    BY <1>1, <1>5, <2>1, <2>2 DEF Passed
  <2>5. (a + 1)..b = {i \in 1..n : Passed(old, V(i), price)}
    BY <1>1, <2>1, <2>2, <2>4
  <2>6. QED
    BY <1>2, <1>5, <2>3, <2>5
<1>6. QED
  BY <1>3, <1>4, <1>5

-----------------------------------------------------------------------------
(***************************************************************************)
(* add_threshold and remove_threshold on a tree.                           *)
(***************************************************************************)
ShapedTree(t) == Shape(t) /\ (t.last_price # None => Bracket(t))

(* A new tree is well shaped and empty.                                    *)
LEMMA NewTreeSpec == ShapedTree(NewTree) /\ NewTree.entries = <<>>
<1>1. PICK t : t = NewTree
  OBVIOUS
<1>2. /\ t.entries = <<>> /\ t.last_price = None
      /\ t.upper_idx = None /\ t.lower_idx = None
  BY <1>1 DEF NewTree
<1>3. t \in Tree
  BY <1>1 DEF NewTree, Tree
<1>4. Ascending(t.entries) /\ NoEmpty(t.entries)
  BY <1>2 DEF Ascending, NoEmpty
<1>5. QED
  BY <1>1, <1>2, <1>3, <1>4 DEF ShapedTree, Shape

(* Other entries, and the sentinels computed anew.                         *)
LEMMA EditedSpec ==
  ASSUME NEW t, ShapedTree(t), NEW e \in Seq(Level), Ascending(e), NoEmpty(e)
  PROVE  LET r == RecomputeSentinels([t EXCEPT !.entries = e])
         IN  ShapedTree(r) /\ r.entries = e /\ r.last_price = t.last_price
<1>1. PICK u : u = [t EXCEPT !.entries = e]
  OBVIOUS
<1>2. t \in Tree
  BY DEF ShapedTree, Shape
<1>3. /\ u \in Tree /\ u.entries = e /\ u.last_price = t.last_price
      /\ u.upper_idx = t.upper_idx /\ u.lower_idx = t.lower_idx
  BY <1>1, <1>2 DEF Tree
<1>4. u.last_price = None => u.upper_idx = None /\ u.lower_idx = None
  BY <1>3 DEF ShapedTree, Shape
<1>5. /\ Shape(RecomputeSentinels(u))
      /\ RecomputeSentinels(u).entries = u.entries
      /\ RecomputeSentinels(u).last_price = u.last_price
      /\ u.last_price # None => Bracket(RecomputeSentinels(u))
  BY <1>3, <1>4, RecomputeSpec
<1>6. QED
  BY <1>1, <1>3, <1>5 DEF ShapedTree

(* add_threshold keeps the tree well shaped and changes its levels as      *)
(* WithLevel does.                                                         *)
LEMMA AddThresholdSpec ==
  ASSUME NEW t, ShapedTree(t), NEW v \in Int, NEW id \in Ids
  PROVE  LET r == AddThreshold(t, v, id)
         IN  ShapedTree(r) /\ r.entries = WithLevel(t.entries, v, id)
<1>1. t.entries \in Seq(Level) /\ Ascending(t.entries) /\ NoEmpty(t.entries)
  BY TreeFields DEF ShapedTree, Shape
<1>2. PICK e : /\ e = WithLevel(t.entries, v, id)
               /\ e \in Seq(Level) /\ Ascending(e) /\ NoEmpty(e)
  BY <1>1, WithLevelSpec
<1>3. AddThreshold(t, v, id) = RecomputeSentinels([t EXCEPT !.entries = e])
  BY <1>2 DEF AddThreshold
<1>4. QED
  BY <1>2, <1>3, EditedSpec

(* remove_threshold keeps the tree well shaped and changes its levels as   *)
(* WithoutLevel does.                                                      *)
LEMMA RemoveThresholdSpec ==
  ASSUME NEW t, ShapedTree(t), NEW v \in Int, NEW id \in Ids
  PROVE  LET r == RemoveThreshold(t, v, id)
         IN  ShapedTree(r) /\ r.entries = WithoutLevel(t.entries, v, id)
<1>1. t.entries \in Seq(Level) /\ Ascending(t.entries) /\ NoEmpty(t.entries)
  BY TreeFields DEF ShapedTree, Shape
<1>2. PICK e : /\ e = WithoutLevel(t.entries, v, id)
               /\ e \in Seq(Level) /\ Ascending(e) /\ NoEmpty(e)
  BY <1>1, WithoutLevelSpec
<1>3. RemoveThreshold(t, v, id) = RecomputeSentinels([t EXCEPT !.entries = e])
  BY <1>2 DEF RemoveThreshold
<1>4. QED
  BY <1>2, <1>3, EditedSpec

=============================================================================
