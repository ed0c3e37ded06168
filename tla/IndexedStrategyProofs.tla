------------------------ MODULE IndexedStrategyProofs -----------------------
(***************************************************************************)
(* Theorems about IndexedStrategy, for any condition ids, symbols,         *)
(* configs, values and timestamps, and any interleaving of the steps of a  *)
(* call with those of an evaluate.                                         *)
(***************************************************************************)
EXTENDS IndexedStrategy, SequenceLemmas, FiniteSetTheorems

(***************************************************************************)
(* The two maps.                                                           *)
(***************************************************************************)
MapTypes ==
  /\ conditions \in [Ids -> Configs \cup {None}]
  /\ last \in [Ids -> Times \cup {None}]
  /\ symbol_index \in [Symbols -> Seq(Ids)]
  /\ call \in [step : {"idle", "index", "unindex", "readd"}, id : Ids \cup {None},
               old : Configs \cup {None}, new : Configs \cup {None}]

(* What the step of a call says of its arguments and of the condition.     *)
CallFits ==
  /\ call.step = "idle" => call = NoCall
  /\ call.step # "idle" => call.id \in Ids
  /\ call.step = "index" => call.new # None /\ conditions[call.id] = call.new
  /\ call.step = "unindex" => conditions[call.id] = None /\ call.old # None
  /\ call.step = "readd" => conditions[call.id] = None /\ call.new # None

Maps == MapTypes /\ CallFits /\ IndexMirrorsConditions /\ CountIsIndexed

(***************************************************************************)
(* The walk of an evaluate over its clone of a list.                       *)
(***************************************************************************)
WalkTypes ==
  /\ evaluation \in [symbol : Symbols \cup {None}, value : Values \cup {None}, now : Nat,
                     ids : Seq(Ids)]
  /\ Evaluating => evaluation.symbol \in Symbols /\ evaluation.now \in Times
  /\ matches \in Seq([id : Ids, watches : Symbols])
  /\ expected \subseteq Ids /\ disturbed \subseteq Ids

Matched(id) == \E i \in 1..Len(matches) : matches[i].id = id

(* An id still to be examined is in the clone once and has not matched,    *)
(* and unless a call touched it, it watches the tick's symbol.             *)
ExaminedOnce ==
  /\ IsInjective(evaluation.ids)
  /\ \A id \in Range(evaluation.ids) :
       /\ ~Matched(id)
       /\ id \notin disturbed => /\ conditions[id] # None
                                 /\ conditions[id].symbol = evaluation.symbol

(* What an undisturbed id is expected to do it has done, or it is still to *)
(* be examined and would do it now.                                        *)
ExactSoFar ==
  \A id \in Ids \ disturbed :
    id \in expected <=>
      \/ Matched(id)
      \/ id \in Range(evaluation.ids) /\ Fires(id, evaluation.value, evaluation.now)

Walk == WalkTypes /\ ExaminedOnce /\ ExactSoFar /\ MatchWatchesTickSymbol

IInv == Maps /\ Walk

-----------------------------------------------------------------------------
(***************************************************************************)
(* The lists.                                                              *)
(***************************************************************************)
(* The numbers from 1 to n, and those but one.                             *)
LEMMA CountTo ==
  ASSUME NEW n \in Nat, NEW p
  PROVE  /\ IsFiniteSet(1..n) /\ Cardinality(1..n) = n
         /\ Cardinality((1..n) \ {p}) = IF p \in 1..n THEN n - 1 ELSE n
<1>1. IsFiniteSet(1..n) /\ Cardinality(1..n) = IF 1 > n THEN 0 ELSE n - 1 + 1
  <2>1. 1 \in Int /\ n \in Int
    OBVIOUS
  <2>2. QED
    BY <2>1, FS_Interval, Zenon
<1>2. Cardinality(1..n) = n
  BY <1>1
<1>3. Cardinality((1..n) \ {p}) =
        IF p \in 1..n THEN Cardinality(1..n) - 1 ELSE Cardinality(1..n)
  BY <1>1, FS_RemoveElement, Zenon
<1>4. QED
  BY <1>1, <1>2, <1>3, Zenon

(* retain leaves every other id of a list of distinct ids, each once.      *)
LEMMA RetainedSpec ==
  ASSUME NEW S, NEW ids \in Seq(S), IsInjective(ids), NEW id
  PROVE  /\ Retained(ids, id) \in Seq(S)
         /\ IsInjective(Retained(ids, id))
         /\ Range(Retained(ids, id)) = Range(ids) \ {id}
<1> DEFINE n == Len(ids)
           kept == {i \in DOMAIN ids : ids[i] # id}
           below(i) == {k \in kept : k < i}
           m == Cardinality(kept)
<1>1. /\ n \in Nat /\ DOMAIN ids = 1..n
      /\ \A i \in 1..n : ids[i] \in S
      /\ \A i, j \in 1..n : ids[i] = ids[j] => i = j
  BY DEF IsInjective
<1>2. PICK p \in 1..(n + 1) : /\ p <= n => ids[p] = id
                              /\ \A i \in 1..n : ids[i] = id => i = p
  <2>1. CASE \E i \in 1..n : ids[i] = id
    <3>1. PICK i \in 1..n : ids[i] = id
      BY <2>1
    <3>2. i \in 1..(n + 1) /\ \A k \in 1..n : ids[k] = id => k = i
      BY <1>1, <3>1
    <3>3. QED
      BY <3>1, <3>2
  <2>2. CASE ~\E i \in 1..n : ids[i] = id
    <3>1. n + 1 \in 1..(n + 1) /\ ~(n + 1 <= n)
      BY <1>1
    <3>2. QED
      BY <2>2, <3>1
  <2>3. QED
    BY <2>1, <2>2
<1>3. \A i : i \in kept <=> i \in 1..n /\ i # p
  BY <1>1, <1>2
<1>4. m = IF p <= n THEN n - 1 ELSE n
  <2>1. kept = (1..n) \ {p}
    BY <1>3
  <2>2. m = IF p \in 1..n THEN n - 1 ELSE n
    BY <1>1, <2>1, CountTo, Zenon
  <2>3. p \in 1..n <=> p <= n
    BY <1>1
  <2>4. QED
    BY <2>2, <2>3
<1>5. ASSUME NEW i \in kept PROVE Cardinality(below(i)) = IF i < p THEN i - 1 ELSE i - 2
  <2>1. i \in 1..n /\ i # p /\ i - 1 \in Nat
    BY <1>1, <1>3
  <2>2. below(i) = (1..(i - 1)) \ {p}
    <3>1. \A k : k \in below(i) <=> k \in 1..n /\ k # p /\ k < i
      BY <1>3
    <3>2. \A k : k \in 1..n /\ k < i <=> k \in 1..(i - 1)
      BY <1>1, <2>1
    <3>3. QED
      BY <3>1, <3>2
  <2>3. Cardinality(below(i)) = IF p \in 1..(i - 1) THEN (i - 1) - 1 ELSE i - 1
    BY <2>1, <2>2, CountTo, Zenon
  <2>4. p \in 1..(i - 1) <=> ~(i < p)
    BY <1>1, <1>2, <2>1
  <2>5. QED
    BY <1>1, <2>1, <2>3, <2>4
<1> DEFINE at(j) == CHOOSE i \in kept : Cardinality(below(i)) = j - 1
           pos(j) == IF j < p THEN j ELSE j + 1
<1>6. ASSUME NEW j \in 1..m PROVE at(j) = pos(j) /\ pos(j) \in 1..n /\ pos(j) # p
  <2>1. j \in Nat /\ j <= m /\ m \in Nat /\ p \in Nat
    BY <1>1, <1>4
  <2>2. pos(j) \in 1..n /\ pos(j) # p /\ pos(j) \in kept
    BY <1>1, <1>3, <1>4, <2>1
  <2>3. (IF pos(j) < p THEN pos(j) - 1 ELSE pos(j) - 2) = j - 1
    BY <2>1
  <2>4. Cardinality(below(pos(j))) = j - 1
    BY <1>5, <2>2, <2>3
  <2>5. at(j) \in kept /\ Cardinality(below(at(j))) = j - 1
    <3> HIDE DEF kept, below, pos
    <3>1. QED
      BY <2>2, <2>4
  <2>6. at(j) = pos(j)
    <3>1. PICK i : i = at(j)
      OBVIOUS
    <3>2. i \in kept /\ i \in 1..n /\ i # p
      BY <1>3, <2>5, <3>1
    <3>3. (IF i < p THEN i - 1 ELSE i - 2) = j - 1
      <4> HIDE DEF at, kept, below
      <4>1. QED
        BY <1>5, <2>5, <3>1, <3>2
    <3>4. i = pos(j)
      BY <1>1, <2>1, <3>2, <3>3
    <3>5. QED
      BY <3>1, <3>4
  <2>7. QED
    BY <2>2, <2>6
<1>7. PICK r : r = Retained(ids, id)
  OBVIOUS
<1>8. r = [j \in 1..m |-> ids[at(j)]]
  BY <1>7 DEF Retained
<1>9. r = [j \in 1..m |-> ids[pos(j)]]
  <2> HIDE DEF at, m, pos
  <2>1. QED
    BY <1>6, <1>8
<1>10. m \in Nat /\ DOMAIN r = 1..m /\ \A j \in 1..m : r[j] = ids[pos(j)]
  <2>1. m \in Nat
    BY <1>1, <1>4
  <2>2. QED
    BY <1>9, <2>1
<1>11. r \in Seq(S)
  <2>1. \A j \in 1..m : ids[pos(j)] \in S
    <3> HIDE DEF m, pos
    <3>1. QED
      BY <1>1, <1>6
  <2>2. r \in [1..m -> S]
    <3> HIDE DEF m, pos
    <3>1. QED
      BY <1>9, <2>1
  <2>3. QED
    BY <1>10, <2>2
<1>12. IsInjective(r)
  <2>1. ASSUME NEW i \in 1..m, NEW j \in 1..m, r[i] = r[j] PROVE i = j
    <3>1. pos(i) = pos(j)
      <4> HIDE DEF m, pos
      <4>1. QED
        BY <1>1, <1>6, <1>10, <2>1
    <3>2. i \in Nat /\ j \in Nat /\ p \in Nat
      BY <1>1, <1>4
    <3>3. QED
      BY <3>1, <3>2
  <2>2. QED
    BY <1>10, <2>1 DEF IsInjective
<1>13. Range(r) = Range(ids) \ {id}
  <2>1. ASSUME NEW j \in 1..m PROVE r[j] \in Range(ids) /\ r[j] # id
    <3> HIDE DEF m, pos
    <3>1. pos(j) \in 1..n /\ pos(j) # p /\ r[j] = ids[pos(j)]
      BY <1>6, <1>10
    <3>2. QED
      BY <1>1, <1>2, <3>1 DEF Range
  <2>2. ASSUME NEW i \in 1..n, ids[i] # id PROVE \E j \in 1..m : r[j] = ids[i]
    <3>1. i # p
      BY <1>2, <2>2
    <3>2. PICK j : j = IF i < p THEN i ELSE i - 1
      OBVIOUS
    <3>3. j \in 1..m /\ pos(j) = i
      BY <1>1, <1>4, <3>1, <3>2
    <3>4. QED
      BY <1>10, <3>3
  <2>3. \A x : x \in Range(r) <=> \E j \in 1..m : x = r[j]
    BY <1>10 DEF Range
  <2>4. \A x : x \in Range(ids) <=> \E i \in 1..n : x = ids[i]
    BY <1>1 DEF Range
  <2>5. \A x : x \in Range(r) <=> x \in Range(ids) \ {id}
    <3> HIDE DEF m
    <3>1. QED
      BY <2>1, <2>2, <2>3, <2>4
  <2>6. QED
    BY <2>5
<1>14. QED
  BY <1>7, <1>11, <1>12, <1>13

(* A list of distinct ids with another appended is one.                    *)
LEMMA AppendDistinct ==
  ASSUME NEW S, NEW ids \in Seq(S), IsInjective(ids), NEW id \in S, id \notin Range(ids)
  PROVE  IsInjective(Append(ids, id))
<1>1. PICK r : r = Append(ids, id) /\ r \in Seq(S)
  BY AppendSpec
<1>2. /\ Len(r) = Len(ids) + 1 /\ Len(ids) \in Nat
      /\ \A i \in 1..Len(ids) : r[i] = ids[i]
      /\ r[Len(ids) + 1] = id
  BY <1>1, AppendSpec
<1>3. \A i \in 1..Len(ids) : ids[i] # id
  BY DEF Range
<1>4. \A i, j \in 1..Len(ids) : ids[i] = ids[j] => i = j
  BY DEF IsInjective
<1>5. ASSUME NEW i \in 1..Len(r), NEW j \in 1..Len(r), r[i] = r[j] PROVE i = j
  <2>1. /\ i \in 1..Len(ids) \/ i = Len(ids) + 1
        /\ j \in 1..Len(ids) \/ j = Len(ids) + 1
    BY <1>2
  <2>2. QED
    BY <1>2, <1>3, <1>4, <1>5, <2>1
<1>6. DOMAIN r = 1..Len(r)
  BY <1>1
<1>7. QED
  BY <1>1, <1>5, <1>6 DEF IsInjective

(* So is what follows the first id of one, and the first is not in it.     *)
LEMMA TailDistinct ==
  ASSUME NEW S, NEW ids \in Seq(S), IsInjective(ids), ids # <<>>
  PROVE  IsInjective(Tail(ids)) /\ Head(ids) \notin Range(Tail(ids))
<1>1. PICK r : r = Tail(ids) /\ r \in Seq(S)
  BY HeadAndTail
<1>2. /\ Head(ids) = ids[1] /\ Len(ids) >= 1 /\ Len(r) = Len(ids) - 1 /\ Len(ids) \in Nat
      /\ \A i \in 1..Len(r) : i + 1 \in 1..Len(ids) /\ r[i] = ids[i + 1]
  BY <1>1, HeadAndTail
<1>3. \A i, j \in 1..Len(ids) : ids[i] = ids[j] => i = j
  BY DEF IsInjective
<1>4. DOMAIN r = 1..Len(r)
  BY <1>1
<1>5. IsInjective(r)
  <2>1. ASSUME NEW i \in 1..Len(r), NEW j \in 1..Len(r), r[i] = r[j] PROVE i = j
    <3>1. i + 1 = j + 1
      BY <1>2, <1>3, <2>1
    <3>2. QED
      BY <1>2, <3>1
  <2>2. QED
    BY <1>4, <2>1 DEF IsInjective
<1>6. ASSUME NEW i \in 1..Len(r) PROVE r[i] # ids[1]
  <2>1. i + 1 # 1 /\ 1 \in 1..Len(ids)
    BY <1>2
  <2>2. QED
    BY <1>2, <1>3, <2>1
<1>7. QED
  BY <1>1, <1>2, <1>4, <1>5, <1>6 DEF Range

-----------------------------------------------------------------------------
(* The fields of a condition.                                              *)
LEMMA ConfigFields ==
  ASSUME NEW c \in Configs
  PROVE  c # None /\ c.symbol \in Symbols
BY IndexedAssumption

(* While the lists, count and what they stand for stay, they agree.        *)
LEMMA SameIndexed ==
  ASSUME IndexMirrorsConditions, CountIsIndexed, UNCHANGED <<symbol_index, count>>,
         \A id \in Ids : InIndex(id)' = InIndex(id)
  PROVE  IndexMirrorsConditions' /\ CountIsIndexed'
<1>1. \A s : {id \in Ids : InIndex(id)' # None /\ InIndex(id)'.symbol = s} =
             {id \in Ids : InIndex(id) # None /\ InIndex(id).symbol = s}
  OBVIOUS
<1>2. IndexMirrorsConditions'
  BY <1>1 DEF IndexMirrorsConditions
<1>3. {id \in Ids : InIndex(id)' # None} = {id \in Ids : InIndex(id) # None}
  OBVIOUS
<1>4. QED
  BY <1>2, <1>3 DEF CountIsIndexed

(* A symbol no condition watches has no list.                              *)
LEMMA MapsInit == IndexedInit => Maps
<1> SUFFICES ASSUME IndexedInit PROVE Maps
  OBVIOUS
<1>1. /\ \A id \in Ids : conditions[id] = None
      /\ \A s \in Symbols : symbol_index[s] = <<>>
      /\ call = NoCall /\ count = 0
  BY DEF IndexedInit
<1>2. MapTypes
  BY DEF IndexedInit, MapTypes, NoCall
<1>3. CallFits
  BY <1>1 DEF CallFits, NoCall
<1>4. \A id \in Ids : InIndex(id) = None
  BY <1>1 DEF InIndex, NoCall
<1>5. IsInjective(<<>>) /\ Range(<<>>) = {}
  BY DEF IsInjective, Range
<1>6. IndexMirrorsConditions
  BY <1>1, <1>4, <1>5 DEF IndexMirrorsConditions
<1>7. {id \in Ids : InIndex(id) # None} = {}
  BY <1>4
<1>8. CountIsIndexed
  BY <1>1, <1>7, FS_EmptySet DEF CountIsIndexed
<1>9. QED
  BY <1>2, <1>3, <1>6, <1>8 DEF Maps

(* conditions.insert, of an add and of the second half of an update: the   *)
(* lists do not hold the id before it, and need not after it.              *)
LEMMA InsertMaps ==
  ASSUME Maps, NEW id \in Ids, NEW config \in Configs, conditions[id] = None,
         call.step = "idle" \/ (call.step = "readd" /\ call.id = id),
         InsertCondition(id, config)
  PROVE  Maps'
<1>1. /\ conditions' = [conditions EXCEPT ![id] = config]
      /\ last' = [last EXCEPT ![id] = None]
      /\ call' = [step |-> "index", id |-> id, old |-> None, new |-> config]
      /\ UNCHANGED <<symbol_index, count>>
  BY DEF InsertCondition
<1>2. conditions \in [Ids -> Configs \cup {None}] /\ config # None
  BY ConfigFields DEF Maps, MapTypes
<1>3. MapTypes'
  BY <1>1, <1>2 DEF Maps, MapTypes
<1>4. /\ call'.step = "index" /\ call'.id = id /\ call'.new = config
      /\ \A x \in Ids : conditions'[x] = IF x = id THEN config ELSE conditions[x]
  BY <1>1, <1>2
<1>5. CallFits'
  BY <1>2, <1>4 DEF CallFits
<1>6. ASSUME NEW x \in Ids PROVE InIndex(x)' = InIndex(x)
  BY <1>4 DEF InIndex
<1>7. QED
  BY <1>1, <1>3, <1>5, <1>6, SameIndexed DEF Maps

(* Taking a condition from the map leaves its id for the call to take out. *)
LEMMA RemoveMaps ==
  ASSUME Maps, NEW id \in Ids, NEW new \in Configs \cup {None}, RemoveCondition(id, new)
  PROVE  Maps'
<1>1. /\ call = NoCall /\ conditions[id] # None
      /\ conditions' = [conditions EXCEPT ![id] = None]
      /\ last' = [last EXCEPT ![id] = None]
      /\ call' = [step |-> "unindex", id |-> id, old |-> conditions[id], new |-> new]
      /\ UNCHANGED <<symbol_index, count>>
  BY DEF RemoveCondition
<1>2. conditions \in [Ids -> Configs \cup {None}]
  BY DEF Maps, MapTypes
<1>3. MapTypes'
  BY <1>1, <1>2 DEF Maps, MapTypes
<1>4. /\ call'.step = "unindex" /\ call'.id = id /\ call'.old = conditions[id]
      /\ call.step = "idle"
      /\ \A x \in Ids : conditions'[x] = IF x = id THEN None ELSE conditions[x]
  BY <1>1, <1>2 DEF NoCall
<1>5. CallFits'
  BY <1>1, <1>4 DEF CallFits
<1>6. ASSUME NEW x \in Ids PROVE InIndex(x)' = InIndex(x)
  BY <1>4 DEF InIndex
<1>7. QED
  BY <1>1, <1>3, <1>5, <1>6, SameIndexed DEF Maps

(* The ids the lists hold are finitely many, and at most all of them.      *)
LEMMA IndexedIsFinite ==
  ASSUME NEW S \in SUBSET Ids
  PROVE  IsFiniteSet(S) /\ Cardinality(S) \in 0..Cardinality(Ids)
<1>1. IsFiniteSet(S) /\ Cardinality(S) <= Cardinality(Ids)
  BY IndexedAssumption, FS_Subset
<1>2. Cardinality(S) \in Nat /\ Cardinality(Ids) \in Nat
  BY <1>1, IndexedAssumption, FS_CardinalityType
<1>3. QED
  BY <1>1, <1>2

(* The call takes the removed condition's id out of its symbol's list.     *)
LEMMA UnindexMaps ==
  ASSUME Maps, UnindexCondition
  PROVE  Maps'
<1> DEFINE Indexes == {x \in Ids : InIndex(x) # None}
<1>0. PICK id, s0 : id = call.id /\ s0 = call.old.symbol
  OBVIOUS
<1>1. /\ call.step = "unindex"
      /\ symbol_index' = [symbol_index EXCEPT ![s0] = Retained(symbol_index[s0], id)]
      /\ count' = count - 1
      /\ call' = IF call.new = None \/ call.new.accepts = None THEN NoCall
                 ELSE [call EXCEPT !.step = "readd", !.old = None]
      /\ UNCHANGED <<conditions, last>>
  BY <1>0 DEF UnindexCondition, WithoutId, CountAfterUnindex
<1>2. /\ id \in Ids /\ conditions[id] = None
      /\ call.old \in Configs /\ call.old # None /\ s0 \in Symbols
  <2>1. call.id \in Ids /\ conditions[call.id] = None /\ call.old \in Configs /\ call.old # None
    BY <1>1 DEF Maps, MapTypes, CallFits
  <2>2. QED
    BY <1>0, <2>1, ConfigFields
<1>3. InIndex(id) = call.old
  BY <1>0, <1>1 DEF InIndex
<1>4. symbol_index \in [Symbols -> Seq(Ids)]
  BY DEF Maps, MapTypes
<1>5. \A s \in Symbols : /\ IsInjective(symbol_index[s])
                         /\ Range(symbol_index[s]) =
                              {x \in Ids : InIndex(x) # None /\ InIndex(x).symbol = s}
  BY DEF Maps, IndexMirrorsConditions
<1>6. PICK r : r = Retained(symbol_index[s0], id)
  OBVIOUS
<1>7. r \in Seq(Ids) /\ IsInjective(r) /\ Range(r) = Range(symbol_index[s0]) \ {id}
  BY <1>2, <1>4, <1>5, <1>6, RetainedSpec
<1>8. /\ symbol_index' \in [Symbols -> Seq(Ids)]
      /\ \A s \in Symbols : symbol_index'[s] = IF s = s0 THEN r ELSE symbol_index[s]
  BY <1>1, <1>2, <1>4, <1>6, <1>7
<1>9. /\ call'.step \in {"idle", "readd"}
      /\ call'.step = "idle" => call' = NoCall
      /\ call'.step = "readd" => call'.id = call.id /\ call'.new = call.new /\ call.new # None
      /\ call' \in [step : {"idle", "index", "unindex", "readd"}, id : Ids \cup {None},
                    old : Configs \cup {None}, new : Configs \cup {None}]
  BY <1>1 DEF Maps, MapTypes, NoCall
<1>10. MapTypes'
  BY <1>1, <1>8, <1>9 DEF Maps, MapTypes
<1>11. CallFits'
  BY <1>0, <1>1, <1>2, <1>9 DEF CallFits
<1>12. ASSUME NEW x \in Ids PROVE InIndex(x)' = IF x = id THEN None ELSE InIndex(x)
  BY <1>0, <1>1, <1>2, <1>9 DEF InIndex
<1>13. IndexMirrorsConditions'
  <2>1. ASSUME NEW s \in Symbols
        PROVE  /\ IsInjective(symbol_index'[s])
               /\ \A x : x \in Range(symbol_index'[s]) <=>
                    x \in Ids /\ InIndex(x)' # None /\ InIndex(x)'.symbol = s
    <3>1. IsInjective(symbol_index'[s])
      BY <1>5, <1>7, <1>8
    <3>2. \A x : x \in Range(symbol_index[s]) <=>
                   x \in Ids /\ InIndex(x) # None /\ InIndex(x).symbol = s
      BY <1>5
    <3>3. \A x : x \in Range(symbol_index'[s]) <=> x \in Range(symbol_index[s]) /\ x # id
      <4>1. CASE s = s0
        BY <1>7, <1>8, <4>1
      <4>2. CASE s # s0
        <5>1. id \notin Range(symbol_index[s])
          BY <1>0, <1>3, <3>2, <4>2
        <5>2. QED
          BY <1>8, <4>2, <5>1
      <4>3. QED
        BY <4>1, <4>2
    <3>4. QED
      BY <1>12, <3>1, <3>2, <3>3
  <2>2. \A s \in Symbols : Range(symbol_index'[s]) =
                             {x \in Ids : InIndex(x)' # None /\ InIndex(x)'.symbol = s}
    BY <2>1
  <2>3. QED
    BY <2>1, <2>2 DEF IndexMirrorsConditions
<1>14. CountIsIndexed'
  <2>1. Indexes \in SUBSET Ids /\ id \in Indexes
    BY <1>2, <1>3
  <2>2. {x \in Ids : InIndex(x)' # None} = Indexes \ {id}
    BY <1>12
  <2>3. IsFiniteSet(Indexes)
    BY <2>1, IndexedIsFinite
  <2>4. Cardinality(Indexes \ {id}) = Cardinality(Indexes) - 1
    BY <2>1, <2>3, FS_RemoveElement
  <2>5. QED
    BY <1>1, <2>2, <2>4 DEF Maps, CountIsIndexed
<1>15. QED
  BY <1>10, <1>11, <1>13, <1>14 DEF Maps

(* The call puts the inserted condition's id at the end of its list.       *)
LEMMA IndexMaps ==
  ASSUME Maps, IndexCondition
  PROVE  Maps'
<1> DEFINE Indexes == {x \in Ids : InIndex(x) # None}
<1>0. PICK id, s0 : id = call.id /\ s0 = call.new.symbol
  OBVIOUS
<1>1. /\ call.step = "index"
      /\ symbol_index' = [symbol_index EXCEPT ![s0] = Append(symbol_index[s0], id)]
      /\ count' = count + 1
      /\ call' = NoCall
      /\ UNCHANGED <<conditions, last>>
  BY <1>0 DEF IndexCondition
<1>2. /\ id \in Ids /\ conditions[id] = call.new
      /\ call.new \in Configs /\ call.new # None /\ s0 \in Symbols
  <2>1. /\ call.id \in Ids /\ conditions[call.id] = call.new /\ call.new \in Configs
        /\ call.new # None
    BY <1>1 DEF Maps, MapTypes, CallFits
  <2>2. QED
    BY <1>0, <2>1, ConfigFields
<1>3. InIndex(id) = None
  BY <1>0, <1>1 DEF InIndex
<1>4. symbol_index \in [Symbols -> Seq(Ids)]
  BY DEF Maps, MapTypes
<1>5. \A s \in Symbols : /\ IsInjective(symbol_index[s])
                         /\ Range(symbol_index[s]) =
                              {x \in Ids : InIndex(x) # None /\ InIndex(x).symbol = s}
  BY DEF Maps, IndexMirrorsConditions
<1>6. PICK r : r = Append(symbol_index[s0], id)
  OBVIOUS
<1>7. r \in Seq(Ids) /\ IsInjective(r) /\ Range(r) = Range(symbol_index[s0]) \cup {id}
  <2>1. symbol_index[s0] \in Seq(Ids) /\ IsInjective(symbol_index[s0])
    BY <1>2, <1>4, <1>5
  <2>2. id \notin Range(symbol_index[s0])
    BY <1>2, <1>3, <1>5
  <2>3. /\ Append(symbol_index[s0], id) \in Seq(Ids)
        /\ Range(Append(symbol_index[s0], id)) = Range(symbol_index[s0]) \cup {id}
    BY <1>2, <2>1, AppendSpec
  <2>4. IsInjective(Append(symbol_index[s0], id))
    BY <1>2, <2>1, <2>2, AppendDistinct
  <2>5. QED
    BY <1>6, <2>3, <2>4
<1>8. /\ symbol_index' \in [Symbols -> Seq(Ids)]
      /\ \A s \in Symbols : symbol_index'[s] = IF s = s0 THEN r ELSE symbol_index[s]
  BY <1>1, <1>2, <1>4, <1>6, <1>7
<1>9. MapTypes'
  BY <1>1, <1>8 DEF Maps, MapTypes, NoCall
<1>10. CallFits'
  BY <1>1 DEF CallFits, NoCall
<1>11. ASSUME NEW x \in Ids PROVE InIndex(x)' = IF x = id THEN call.new ELSE InIndex(x)
  BY <1>0, <1>1, <1>2 DEF InIndex, NoCall
<1>12. IndexMirrorsConditions'
  <2>1. ASSUME NEW s \in Symbols
        PROVE  /\ IsInjective(symbol_index'[s])
               /\ \A x : x \in Range(symbol_index'[s]) <=>
                    x \in Ids /\ InIndex(x)' # None /\ InIndex(x)'.symbol = s
    <3>1. IsInjective(symbol_index'[s])
      BY <1>5, <1>7, <1>8
    <3>2. \A x : x \in Range(symbol_index[s]) <=>
                   x \in Ids /\ InIndex(x) # None /\ InIndex(x).symbol = s
      BY <1>5
    <3>3. \A x : x \in Range(symbol_index'[s]) <=>
                   x \in Range(symbol_index[s]) \/ (s = s0 /\ x = id)
      BY <1>7, <1>8
    <3>4. QED
      BY <1>0, <1>2, <1>3, <1>11, <3>1, <3>2, <3>3
  <2>2. \A s \in Symbols : Range(symbol_index'[s]) =
                             {x \in Ids : InIndex(x)' # None /\ InIndex(x)'.symbol = s}
    BY <2>1
  <2>3. QED
    BY <2>1, <2>2 DEF IndexMirrorsConditions
<1>13. CountIsIndexed'
  <2>1. Indexes \in SUBSET Ids /\ id \notin Indexes
    BY <1>3
  <2>2. {x \in Ids : InIndex(x)' # None} = Indexes \cup {id}
    BY <1>2, <1>11
  <2>3. IsFiniteSet(Indexes)
    BY <2>1, IndexedIsFinite
  <2>4. Cardinality(Indexes \cup {id}) = Cardinality(Indexes) + 1
    BY <2>1, <2>3, FS_AddElement
  <2>5. QED
    BY <1>1, <2>2, <2>4 DEF Maps, CountIsIndexed
<1>14. QED
  BY <1>9, <1>10, <1>12, <1>13 DEF Maps

-----------------------------------------------------------------------------
(* Whether a condition fires depends on its own entries only.              *)
LEMMA FiresSame ==
  ASSUME NEW id, conditions'[id] = conditions[id], last'[id] = last[id], NEW value, NEW now
  PROVE  Fires(id, value, now)' <=> Fires(id, value, now)
BY DEF Fires, Cooling

(* No evaluation is under way at first.                                    *)
LEMMA WalkInit == IndexedInit => Walk
<1> SUFFICES ASSUME IndexedInit PROVE Walk
  OBVIOUS
<1>1. /\ evaluation = [symbol |-> None, value |-> None, now |-> 0, ids |-> <<>>]
      /\ evaluation.ids = <<>> /\ matches = <<>> /\ expected = {} /\ disturbed = {}
  BY DEF IndexedInit
<1>2. Range(<<>>) = {} /\ IsInjective(<<>>)
  BY DEF Range, IsInjective
<1>3. WalkTypes
  BY <1>1 DEF WalkTypes, Evaluating
<1>4. ExaminedOnce
  BY <1>1, <1>2 DEF ExaminedOnce
<1>5. ExactSoFar
  BY <1>1, <1>2 DEF ExactSoFar, Matched
<1>6. MatchWatchesTickSymbol
  BY <1>1 DEF MatchWatchesTickSymbol
<1>7. QED
  BY <1>3, <1>4, <1>5, <1>6 DEF Walk

(* A step of a call changes a condition only if it marks it disturbed.     *)
LEMMA CallWalk ==
  ASSUME Walk, UNCHANGED <<evaluation, matches, expected>>,
         disturbed \subseteq disturbed', disturbed' \subseteq Ids,
         \A id \in Ids \ disturbed' : conditions'[id] = conditions[id] /\ last'[id] = last[id]
  PROVE  Walk'
<1>1. WalkTypes'
  BY DEF Walk, WalkTypes, Evaluating
<1>2. \A id : Matched(id)' <=> Matched(id)
  BY DEF Matched
<1>3. \A id \in Range(evaluation.ids) : id \in Ids
  <2>1. evaluation.ids \in Seq(Ids)
    BY DEF Walk, WalkTypes
  <2>2. QED
    BY <2>1 DEF Range
<1>4. ExaminedOnce'
  BY <1>2, <1>3 DEF Walk, ExaminedOnce
<1>5. ExactSoFar'
  <2>1. SUFFICES ASSUME NEW id \in Ids \ disturbed'
                 PROVE  id \in expected <=>
                          \/ Matched(id)
                          \/ /\ id \in Range(evaluation.ids)
                             /\ Fires(id, evaluation.value, evaluation.now)'
    BY <1>2 DEF ExactSoFar
  <2>2. id \in Ids \ disturbed /\ conditions'[id] = conditions[id] /\ last'[id] = last[id]
    OBVIOUS
  <2>3. PICK value, now : value = evaluation.value /\ now = evaluation.now
    OBVIOUS
  <2>4. Fires(id, value, now)' <=> Fires(id, value, now)
    BY <2>2, FiresSame
  <2>5. Fires(id, evaluation.value, evaluation.now)' <=>
          Fires(id, evaluation.value, evaluation.now)
    BY <2>3, <2>4 DEF Fires, Cooling
  <2>6. QED
    BY <2>2, <2>5 DEF Walk, ExactSoFar
<1>6. MatchWatchesTickSymbol'
  BY DEF Walk, MatchWatchesTickSymbol
<1>7. QED
  BY <1>1, <1>4, <1>5, <1>6 DEF Walk

(* An evaluate that clones a list is to examine each of its ids.           *)
LEMMA BeginWalk ==
  ASSUME Maps, Walk, NEW symbol \in Symbols, NEW value \in Values, NEW now \in Times,
         BeginEvaluate(symbol, value, now)
  PROVE  Walk'
<1>1. PICK ids : ids = symbol_index[symbol]
  OBVIOUS
<1>2. /\ evaluation' = [symbol |-> symbol, value |-> value, now |-> now, ids |-> ids]
      /\ matches' = <<>>
      /\ expected' = {id \in Range(ids) : Fires(id, value, now)}
      /\ disturbed' = IF call = NoCall THEN {} ELSE {call.id}
      /\ UNCHANGED <<conditions, last, symbol_index, count, call>>
  BY <1>1 DEF BeginEvaluate
<1>3. /\ ids \in Seq(Ids) /\ IsInjective(ids)
      /\ Range(ids) = {id \in Ids : InIndex(id) # None /\ InIndex(id).symbol = symbol}
  BY <1>1 DEF Maps, MapTypes, IndexMirrorsConditions
<1>4. disturbed' \subseteq Ids
  BY <1>2 DEF Maps, CallFits, MapTypes
<1>5. WalkTypes'
  <2>1. now \in Nat
    BY IndexedAssumption
  <2>2. expected' \subseteq Ids
    BY <1>2, <1>3
  <2>3. QED
    BY <1>2, <1>3, <1>4, <2>1, <2>2 DEF WalkTypes
<1>6. \A id : ~Matched(id)'
  BY <1>2 DEF Matched
<1>7. /\ evaluation'.ids = ids /\ evaluation'.symbol = symbol
      /\ evaluation'.value = value /\ evaluation'.now = now
  BY <1>2
<1>8. ExaminedOnce'
  <2>1. ASSUME NEW id \in Range(ids), id \notin disturbed'
        PROVE  conditions[id] # None /\ conditions[id].symbol = symbol
    <3>1. InIndex(id) # None /\ InIndex(id).symbol = symbol
      BY <1>3
    <3>2. InIndex(id) = conditions[id]
      BY <1>2, <2>1 DEF InIndex, NoCall
    <3>3. QED
      BY <3>1, <3>2
  <2>2. QED
    BY <1>2, <1>3, <1>6, <1>7, <2>1 DEF ExaminedOnce
<1>9. ExactSoFar'
  <2>1. \A id : Fires(id, value, now)' <=> Fires(id, value, now)
    BY <1>2, FiresSame
  <2>2. \A id : Fires(id, evaluation.value, evaluation.now)' <=> Fires(id, value, now)
    BY <1>7, <2>1 DEF Fires, Cooling
  <2>3. QED
    BY <1>2, <1>6, <1>7, <2>2 DEF ExactSoFar
<1>10. MatchWatchesTickSymbol'
  BY <1>2 DEF MatchWatchesTickSymbol
<1>11. QED
  BY <1>5, <1>8, <1>9, <1>10 DEF Walk

(* An evaluate leaves the maps of the conditions and the lists alone.      *)
LEMMA EvaluateMaps ==
  ASSUME Maps, UNCHANGED <<conditions, symbol_index, count, call>>,
         last' \in [Ids -> Times \cup {None}]
  PROVE  Maps'
<1>1. MapTypes' /\ CallFits'
  BY DEF Maps, MapTypes, CallFits, NoCall
<1>2. \A id \in Ids : InIndex(id)' = InIndex(id)
  BY DEF InIndex
<1>3. QED
  BY <1>1, <1>2, SameIndexed DEF Maps

(* An examined id matches when its condition fires on the tick.            *)
LEMMA ExamineStep ==
  ASSUME Maps, Walk, ExamineNext
  PROVE  Maps' /\ Walk'
<1>1. PICK id, value, now, fires :
        /\ id = Head(evaluation.ids) /\ value = evaluation.value /\ now = evaluation.now
        /\ fires = Fires(id, evaluation.value, evaluation.now)
  OBVIOUS
<1>2. /\ evaluation.ids # <<>>
      /\ matches' = IF fires THEN Append(matches, [id |-> id, watches |-> conditions[id].symbol])
                    ELSE matches
      /\ last' = IF fires /\ conditions[id].cooldown # None
                 THEN [last EXCEPT ![id] = evaluation.now] ELSE last
      /\ evaluation' = [evaluation EXCEPT !.ids = Tail(evaluation.ids)]
      /\ UNCHANGED <<conditions, symbol_index, count, call, expected, disturbed>>
  BY <1>1 DEF ExamineNext, Evaluating, IdsLeft
<1>3. /\ evaluation.ids \in Seq(Ids) /\ now \in Times /\ now \in Nat
      /\ evaluation.symbol \in Symbols
      /\ matches \in Seq([id : Ids, watches : Symbols])
  BY <1>1, <1>2 DEF Walk, WalkTypes, Evaluating
<1>4. PICK rest : rest = Tail(evaluation.ids)
  OBVIOUS
<1>5. /\ id \in Ids /\ rest \in Seq(Ids) /\ IsInjective(rest)
      /\ id \notin Range(rest) /\ Range(evaluation.ids) = {id} \cup Range(rest)
  BY <1>1, <1>2, <1>3, <1>4, HeadAndTail, TailDistinct DEF Walk, ExaminedOnce
<1>6. evaluation' = [evaluation EXCEPT !.ids = rest]
  BY <1>2, <1>4
<1>7. /\ evaluation'.ids = rest /\ evaluation'.symbol = evaluation.symbol
      /\ evaluation'.value = value /\ evaluation'.now = now
      /\ evaluation' \in [symbol : Symbols \cup {None}, value : Values \cup {None}, now : Nat,
                          ids : Seq(Ids)]
  BY <1>1, <1>5, <1>6 DEF Walk, WalkTypes
<1>8. fires => conditions[id] \in Configs /\ conditions[id].symbol \in Symbols
  <2>1. conditions[id] \in Configs \cup {None}
    BY <1>5 DEF Maps, MapTypes
  <2>2. fires => conditions[id] # None
    BY <1>1 DEF Fires
  <2>3. QED
    BY <2>1, <2>2, ConfigFields
<1>9. PICK match : match = [id |-> id, watches |-> conditions[id].symbol]
  OBVIOUS
<1>10. /\ fires => match \in [id : Ids, watches : Symbols]
       /\ match.id = id /\ match.watches = conditions[id].symbol
  BY <1>5, <1>8, <1>9
<1>11. /\ matches' \in Seq([id : Ids, watches : Symbols])
       /\ Len(matches) \in Nat
       /\ Len(matches') = IF fires THEN Len(matches) + 1 ELSE Len(matches)
       /\ \A i \in 1..Len(matches) : matches'[i] = matches[i]
       /\ fires => matches'[Len(matches) + 1] = match
  <2>1. CASE fires
    <3>1. matches' = Append(matches, match)
      BY <1>2, <1>9, <2>1
    <3>2. QED
      BY <1>3, <1>10, <2>1, <3>1, AppendSpec
  <2>2. CASE ~fires
    BY <1>2, <1>3, <2>2
  <2>3. QED
    BY <2>1, <2>2
<1>12. \A i \in 1..Len(matches') : i \in 1..Len(matches) \/ (fires /\ i = Len(matches) + 1)
  BY <1>11
<1>13. \A x : Matched(x)' <=> Matched(x) \/ (fires /\ x = id)
  <2>1. ASSUME NEW x, Matched(x)' PROVE Matched(x) \/ (fires /\ x = id)
    <3>1. PICK i \in 1..Len(matches') : matches'[i].id = x
      BY <2>1 DEF Matched
    <3>2. QED
      BY <1>10, <1>11, <1>12, <3>1 DEF Matched
  <2>2. ASSUME NEW x, Matched(x) PROVE Matched(x)'
    <3>1. PICK i \in 1..Len(matches) : matches[i].id = x
      BY <2>2 DEF Matched
    <3>2. i \in 1..Len(matches') /\ matches'[i].id = x
      BY <1>11, <3>1
    <3>3. QED
      BY <3>2 DEF Matched
  <2>3. ASSUME fires PROVE Matched(id)'
    <3>1. Len(matches) + 1 \in 1..Len(matches') /\ matches'[Len(matches) + 1].id = id
      BY <1>10, <1>11, <2>3
    <3>2. QED
      BY <3>1 DEF Matched
  <2>4. QED
    BY <2>1, <2>2, <2>3
<1>14. /\ last' \in [Ids -> Times \cup {None}]
       /\ \A x \in Ids : x # id => last'[x] = last[x]
  <2>1. last \in [Ids -> Times \cup {None}]
    BY DEF Maps, MapTypes
  <2>2. QED
    BY <1>1, <1>2, <1>3, <1>5, <2>1
<1>15. Maps'
  BY <1>2, <1>14, EvaluateMaps
<1>16. WalkTypes'
  BY <1>2, <1>3, <1>7, <1>11, <1>1 DEF Walk, WalkTypes
<1>17. ExaminedOnce'
  <2>1. ASSUME NEW x \in Range(rest)
        PROVE  /\ ~Matched(x)'
               /\ x \notin disturbed => conditions[x] # None /\ conditions[x].symbol = evaluation.symbol
    BY <1>5, <1>13 DEF Walk, ExaminedOnce
  <2>2. QED
    BY <1>2, <1>5, <1>7, <2>1 DEF ExaminedOnce
<1>18. ExactSoFar'
  <2>1. ASSUME NEW x \in Ids \ disturbed
        PROVE  x \in expected <=>
                 \/ Matched(x)'
                 \/ x \in Range(rest) /\ Fires(x, evaluation.value, evaluation.now)'
    <3>1. x \in expected <=>
            \/ Matched(x)
            \/ x \in Range(evaluation.ids) /\ Fires(x, evaluation.value, evaluation.now)
      BY DEF Walk, ExactSoFar
    <3>2. CASE x = id
      <4>1. ~Matched(x) /\ x \in Range(evaluation.ids) /\ x \notin Range(rest)
        BY <1>5, <3>2 DEF Walk, ExaminedOnce
      <4>2. Matched(x)' <=> fires
        BY <1>13, <3>2, <4>1
      <4>3. QED
        BY <1>1, <3>1, <3>2, <4>1, <4>2
    <3>3. CASE x # id
      <4>1. Fires(x, value, now)' <=> Fires(x, value, now)
        BY <1>2, <1>14, <3>3, FiresSame
      <4>2. Fires(x, evaluation.value, evaluation.now)' <=>
              Fires(x, evaluation.value, evaluation.now)
        BY <1>1, <1>7, <4>1 DEF Fires, Cooling
      <4>3. QED
        BY <1>5, <1>13, <3>1, <3>3, <4>2
    <3>4. QED
      BY <3>2, <3>3
  <2>2. QED
    BY <1>2, <1>7, <2>1 DEF ExactSoFar
<1>19. MatchWatchesTickSymbol'
  <2>1. \A i \in 1..Len(matches) :
          matches[i].watches = evaluation.symbol \/ matches[i].id \in disturbed
    BY DEF Walk, MatchWatchesTickSymbol
  <2>2. fires => match.watches = evaluation.symbol \/ match.id \in disturbed
    BY <1>5, <1>10 DEF Walk, ExaminedOnce
  <2>3. \A i \in 1..Len(matches') :
          matches'[i].watches = evaluation.symbol \/ matches'[i].id \in disturbed
    BY <1>11, <1>12, <2>1, <2>2
  <2>4. QED
    BY <1>2, <1>7, <2>3 DEF MatchWatchesTickSymbol
<1>20. QED
  BY <1>15, <1>16, <1>17, <1>18, <1>19 DEF Walk

-----------------------------------------------------------------------------
(***************************************************************************)
(* The specification.                                                      *)
(***************************************************************************)
(* The first state.                                                        *)
LEMMA InitIInv == IndexedInit => IInv
BY MapsInit, WalkInit DEF IInv

(* conditions.insert marks the id it writes.                               *)
LEMMA InsertIInv ==
  ASSUME IInv, NEW id \in Ids, NEW config \in Configs, conditions[id] = None,
         call.step = "idle" \/ (call.step = "readd" /\ call.id = id),
         InsertCondition(id, config)
  PROVE  IInv'
<1>1. /\ conditions' = [conditions EXCEPT ![id] = config]
      /\ last' = [last EXCEPT ![id] = None]
      /\ disturbed' = disturbed \cup {id}
      /\ UNCHANGED <<evaluation, matches, expected>>
  BY DEF InsertCondition
<1>2. /\ conditions \in [Ids -> Configs \cup {None}] /\ last \in [Ids -> Times \cup {None}]
      /\ disturbed \subseteq Ids
  BY DEF IInv, Maps, MapTypes, Walk, WalkTypes
<1>3. \A x \in Ids \ disturbed' : conditions'[x] = conditions[x] /\ last'[x] = last[x]
  BY <1>1, <1>2
<1>4. Walk'
  BY <1>1, <1>2, <1>3, CallWalk DEF IInv
<1>5. Maps'
  BY InsertMaps DEF IInv
<1>6. QED
  BY <1>4, <1>5 DEF IInv

(* Every step keeps the invariant.                                         *)
LEMMA NextIInv == IInv /\ [IndexedNext]_indexedVars => IInv'
<1> SUFFICES ASSUME IInv, [IndexedNext]_indexedVars PROVE IInv'
  OBVIOUS
<1>1. CASE \E id \in Ids, config \in Configs : AddCondition(id, config)
  <2>1. PICK id \in Ids, config \in Configs : AddCondition(id, config)
    BY <1>1
  <2>2. call.step = "idle" /\ conditions[id] = None /\ InsertCondition(id, config)
    BY <2>1 DEF AddCondition, NoCall
  <2>3. QED
    BY <2>2, InsertIInv
<1>2. CASE \E id \in Ids, new \in Configs \cup {None} : RemoveCondition(id, new)
  <2>1. PICK id \in Ids, new \in Configs \cup {None} : RemoveCondition(id, new)
    BY <1>2
  <2>2. Maps'
    BY <2>1, RemoveMaps DEF IInv
  <2>3. /\ conditions' = [conditions EXCEPT ![id] = None]
        /\ last' = [last EXCEPT ![id] = None]
        /\ disturbed' = disturbed \cup {id}
        /\ UNCHANGED <<evaluation, matches, expected>>
    BY <2>1 DEF RemoveCondition
  <2>4. /\ conditions \in [Ids -> Configs \cup {None}] /\ last \in [Ids -> Times \cup {None}]
        /\ disturbed \subseteq Ids
    BY DEF IInv, Maps, MapTypes, Walk, WalkTypes
  <2>5. \A x \in Ids \ disturbed' : conditions'[x] = conditions[x] /\ last'[x] = last[x]
    BY <2>3, <2>4
  <2>6. Walk'
    BY <2>3, <2>4, <2>5, CallWalk DEF IInv
  <2>7. QED
    BY <2>2, <2>6 DEF IInv
<1>3. CASE UnindexCondition \/ IndexCondition
  <2>1. Maps'
    BY <1>3, UnindexMaps, IndexMaps DEF IInv
  <2>2. UNCHANGED <<conditions, last, evaluation, matches, expected, disturbed>>
    BY <1>3 DEF UnindexCondition, IndexCondition
  <2>3. Walk'
    BY <2>2, CallWalk DEF IInv, Walk, WalkTypes
  <2>4. QED
    BY <2>1, <2>3 DEF IInv
<1>4. CASE ReaddCondition
  <2>1. call.step = "readd" /\ InsertCondition(call.id, call.new)
    BY <1>4 DEF ReaddCondition
  <2>2. PICK id, config : id = call.id /\ config = call.new
    OBVIOUS
  <2>3. /\ id \in Ids /\ config \in Configs /\ conditions[id] = None
        /\ InsertCondition(id, config)
    BY <2>1, <2>2 DEF IInv, Maps, MapTypes, CallFits
  <2>4. QED
    BY <2>1, <2>2, <2>3, InsertIInv
<1>5. CASE \E symbol \in Symbols, value \in Values, now \in Times :
             BeginEvaluate(symbol, value, now)
  <2>1. PICK symbol \in Symbols, value \in Values, now \in Times :
               BeginEvaluate(symbol, value, now)
    BY <1>5
  <2>2. Walk'
    BY <2>1, BeginWalk DEF IInv
  <2>3. UNCHANGED <<conditions, last, symbol_index, count, call>>
    BY <2>1 DEF BeginEvaluate
  <2>4. Maps'
    BY <2>3, EvaluateMaps DEF IInv, Maps, MapTypes
  <2>5. QED
    BY <2>2, <2>4 DEF IInv
<1>6. CASE ExamineNext
  BY <1>6, ExamineStep DEF IInv
<1>7. CASE UNCHANGED indexedVars
  <2>1. UNCHANGED <<conditions, last, symbol_index, count, call, evaluation, matches, expected,
                    disturbed>>
    BY <1>7 DEF indexedVars
  <2>2. Maps'
    BY <2>1, EvaluateMaps DEF IInv, Maps, MapTypes
  <2>3. Walk'
    BY <2>1, CallWalk DEF IInv, Walk, WalkTypes
  <2>4. QED
    BY <2>2, <2>3 DEF IInv
<1>8. QED
  BY <1>1, <1>2, <1>3, <1>4, <1>5, <1>6, <1>7 DEF IndexedNext

(* The invariant holds of every run.                                       *)
LEMMA SpecIInv == IndexedSpec => []IInv
<1>1. IndexedInit => IInv
  BY InitIInv
<1>2. IInv /\ [IndexedNext]_indexedVars => IInv'
  BY NextIInv
<1>3. QED
  BY <1>1, <1>2, PTL DEF IndexedSpec

(* The lists mirror the conditions at every step of every call             *)
(* (expression_strategy.rs and script_strategy.rs: add_condition,          *)
(* remove_condition, update_condition): a listed id has a condition that   *)
(* watches the list's symbol, a condition's id is in one list once, and    *)
(* condition_count is the number of ids listed.                            *)
THEOREM SpecConsistent == IndexedSpec => []Consistent
<1>1. IInv => Consistent
  <2> SUFFICES ASSUME IInv PROVE Consistent
    OBVIOUS
  <2>1. count \in 0..Cardinality(Ids)
    BY IndexedIsFinite DEF IInv, Maps, CountIsIndexed
  <2>2. TypeOK
    BY <2>1 DEF IInv, Maps, MapTypes, Walk, WalkTypes, TypeOK
  <2>3. QED
    BY <2>2 DEF IInv, Maps, Consistent
<1>2. QED
  BY <1>1, SpecIInv, PTL

(* evaluate walks a clone of the list with no lock held, and still matches *)
(* every condition that no call touched meanwhile, exactly when the tick   *)
(* taken alone matches it.                                                 *)
THEOREM SpecUndisturbedExact == IndexedSpec => []UndisturbedExact
<1>1. IInv => UndisturbedExact
  BY DEF IInv, Walk, ExactSoFar, UndisturbedExact, Matched, Evaluating, Range
<1>2. QED
  BY <1>1, SpecIInv, PTL

(* strategy.rs:49: whatever an evaluate matches watches the tick's symbol, *)
(* unless a call moved it after the list was cloned.                       *)
THEOREM SpecMatchWatchesTickSymbol == IndexedSpec => []MatchWatchesTickSymbol
<1>1. IInv => MatchWatchesTickSymbol
  BY DEF IInv, Walk
<1>2. QED
  BY <1>1, SpecIInv, PTL
=============================================================================
