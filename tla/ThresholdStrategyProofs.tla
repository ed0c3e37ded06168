----------------------- MODULE ThresholdStrategyProofs ----------------------
(***************************************************************************)
(* Theorems about ThresholdStrategy, for any condition ids, symbols,       *)
(* configs, prices and timestamps, and any interleaving of the steps of a  *)
(* call with those of an evaluate.                                         *)
(***************************************************************************)
EXTENDS ThresholdStrategy, SentinelTreeProofs, FiniteSetTheorems

(***************************************************************************)
(* The two maps.                                                           *)
(***************************************************************************)
MapTypes ==
  /\ conditions \in [Ids -> Configs \cup {None}]
  /\ trees \in [Symbols -> Tree \cup {None}]
  /\ call \in [step : {"idle", "index", "unindex", "readd"}, id : Ids \cup {None},
               old : Configs \cup {None}, new : Configs \cup {None}]

(* Each tree is one that SentinelTreeProofs speaks of.                     *)
TreesShaped == \A s \in Symbols : trees[s] # None => ShapedTree(trees[s])

(* What the step of a call says of its arguments and of the condition.     *)
CallFits ==
  /\ \A id \in Ids : conditions[id] # None => conditions[id].threshold # None
  /\ call.step = "idle" => call = NoCall
  /\ call.step # "idle" => call.id \in Ids
  /\ call.step = "index" => call.new # None /\ conditions[call.id] = call.new
  /\ call.step = "unindex" =>
       conditions[call.id] = None /\ call.old # None /\ call.old.threshold # None
  /\ call.step = "readd" =>
       conditions[call.id] = None /\ call.new # None /\ call.new.threshold # None

(* What the trees hold, at every integer and not only at the thresholds of *)
(* Configs.                                                                *)
Mirrored ==
  \A id \in Ids, s \in Symbols, v \in Int :
    Copies(s, v, id) = IF /\ InTrees(id) # None
                          /\ InTrees(id).symbol = s
                          /\ InTrees(id).threshold = v
                       THEN 1 ELSE 0

(* The counter counts what the trees hold, at every step of a call.        *)
Counted == count = Cardinality({id \in Ids : InTrees(id) # None})

Maps == MapTypes /\ TreesShaped /\ CallFits /\ Mirrored /\ Counted

-----------------------------------------------------------------------------
(* The fields of a condition.                                              *)
LEMMA ConfigFields ==
  ASSUME NEW c \in Configs
  PROVE  /\ c # None /\ c.symbol \in Symbols /\ c.operator \in Operators
         /\ c.threshold \in Int \cup {None} /\ c.cooldown \in Nat \cup {None}
BY StrategyAssumption DEF Config

(* InTrees is None or a config with a threshold.                           *)
LEMMA InTreesType ==
  ASSUME MapTypes, CallFits, NEW id \in Ids
  PROVE  InTrees(id) # None => InTrees(id) \in Configs /\ InTrees(id).threshold \in Int
<1>1. InTrees(id) \in Configs \cup {None}
  BY DEF InTrees, MapTypes
<1>2. InTrees(id) # None => InTrees(id).threshold # None
  BY DEF InTrees, CallFits
<1>3. QED
  BY <1>1, <1>2, ConfigFields

(* While trees, count and what they stand for stay, they agree.            *)
LEMMA SameIndexed ==
  ASSUME Mirrored, Counted, TreesShaped, UNCHANGED <<trees, count>>,
         \A id \in Ids : InTrees(id)' = InTrees(id)
  PROVE  Mirrored' /\ Counted' /\ TreesShaped'
<1>1. TreesShaped'
  BY DEF TreesShaped
<1>2. \A s, v, id : Copies(s, v, id)' = Copies(s, v, id)
  BY DEF Copies
<1>3. Mirrored'
  BY <1>2 DEF Mirrored
<1>4. {id \in Ids : InTrees(id)' # None} = {id \in Ids : InTrees(id) # None}
  OBVIOUS
<1>5. Counted'
  BY <1>4 DEF Counted
<1>6. QED
  BY <1>1, <1>3, <1>5

(* The copies of an identifier at a value are those the array of its       *)
(* symbol holds.                                                           *)
LEMMA CopiesHeld ==
  ASSUME NEW s \in Symbols, NEW v, NEW id
  PROVE  Copies(s, v, id) = IF trees[s] = None THEN 0 ELSE Held(trees[s].entries, v, id)
BY DEF Copies, Held

(* The same of the next state.                                             *)
LEMMA CopiesHeldNext ==
  ASSUME NEW s \in Symbols, NEW v, NEW id
  PROVE  Copies(s, v, id)' = IF trees'[s] = None THEN 0 ELSE Held(trees'[s].entries, v, id)
BY DEF Copies, Held

(* An empty strategy has consistent maps.                                  *)
LEMMA MapsInit == Init => Maps
<1> SUFFICES ASSUME Init PROVE Maps
  OBVIOUS
<1>1. /\ \A id \in Ids : conditions[id] = None
      /\ \A s \in Symbols : trees[s] = None
      /\ call = NoCall /\ count = 0
  BY DEF Init
<1>2. MapTypes
  BY DEF Init, MapTypes, NoCall
<1>3. CallFits /\ TreesShaped
  BY <1>1 DEF CallFits, TreesShaped, NoCall
<1>4. \A id \in Ids : InTrees(id) = None
  BY <1>1 DEF InTrees, NoCall
<1>5. Mirrored
  BY <1>1, <1>4 DEF Mirrored, Copies
<1>6. {id \in Ids : InTrees(id) # None} = {}
  BY <1>4
<1>7. Counted
  BY <1>1, <1>6, FS_EmptySet DEF Counted
<1>8. QED
  BY <1>2, <1>3, <1>5, <1>7 DEF Maps

(* conditions.insert, of an add and of the second half of an update: the   *)
(* trees do not hold the id before it, and need not after it.              *)
LEMMA InsertMaps ==
  ASSUME Maps, NEW id \in Ids, NEW config \in Configs, config.threshold # None,
         conditions[id] = None, call.step = "idle" \/ (call.step = "readd" /\ call.id = id),
         InsertCondition(id, config)
  PROVE  Maps'
<1>1. /\ conditions' = [conditions EXCEPT ![id] = config]
      /\ call' = [step |-> "index", id |-> id, old |-> None, new |-> config]
      /\ UNCHANGED <<trees, count>>
  BY DEF InsertCondition
<1>2. conditions \in [Ids -> Configs \cup {None}] /\ config # None
  BY ConfigFields DEF Maps, MapTypes
<1>3. MapTypes'
  BY <1>1, <1>2 DEF Maps, MapTypes
<1>4. /\ call'.step = "index" /\ call'.id = id /\ call'.new = config
      /\ \A x \in Ids : conditions'[x] = IF x = id THEN config ELSE conditions[x]
  BY <1>1, <1>2
<1>5. CallFits'
  BY <1>2, <1>4 DEF Maps, CallFits
<1>6. ASSUME NEW x \in Ids PROVE InTrees(x)' = InTrees(x)
  BY <1>4 DEF InTrees
<1>7. QED
  BY <1>1, <1>3, <1>5, <1>6, SameIndexed DEF Maps

(* Taking a condition from the map leaves its copies for the call to take  *)
(* out.                                                                    *)
LEMMA RemoveMaps ==
  ASSUME Maps, NEW id \in Ids, NEW new \in Configs \cup {None}, RemoveCondition(id, new)
  PROVE  Maps'
<1>1. /\ call = NoCall /\ conditions[id] # None
      /\ conditions' = [conditions EXCEPT ![id] = None]
      /\ call' = [step |-> "unindex", id |-> id, old |-> conditions[id], new |-> new]
      /\ UNCHANGED <<trees, count>>
  BY DEF RemoveCondition
<1>2. conditions \in [Ids -> Configs \cup {None}]
  BY DEF Maps, MapTypes
<1>3. MapTypes'
  BY <1>1, <1>2 DEF Maps, MapTypes
<1>4. /\ call'.step = "unindex" /\ call'.id = id /\ call'.old = conditions[id]
      /\ call.step = "idle"
      /\ \A x \in Ids : conditions'[x] = IF x = id THEN None ELSE conditions[x]
  BY <1>1, <1>2 DEF NoCall
<1>5. CallFits'
  BY <1>1, <1>4 DEF Maps, CallFits
<1>6. ASSUME NEW x \in Ids PROVE InTrees(x)' = InTrees(x)
  BY <1>4 DEF InTrees
<1>7. QED
  BY <1>1, <1>3, <1>5, <1>6, SameIndexed DEF Maps

(* An edit of one tree: what the other trees hold stays.                   *)
LEMMA EditedCopies ==
  ASSUME MapTypes, TreesShaped, NEW s0 \in Symbols, NEW r, ShapedTree(r),
         trees' = [trees EXCEPT ![s0] = r]
  PROVE  /\ trees' \in [Symbols -> Tree \cup {None}] /\ TreesShaped'
         /\ \A v, x : Copies(s0, v, x)' = Held(r.entries, v, x)
         /\ \A s \in Symbols : s # s0 => \A v, x : Copies(s, v, x)' = Copies(s, v, x)
<1>1. r \in Tree /\ r # None
  BY StrategyAssumption DEF ShapedTree, Shape
<1>2. trees \in [Symbols -> Tree \cup {None}]
  BY DEF MapTypes
<1>3. \A s \in Symbols : trees'[s] = IF s = s0 THEN r ELSE trees[s]
  BY <1>2
<1>4. trees' \in [Symbols -> Tree \cup {None}]
  BY <1>1, <1>2
<1>5. TreesShaped'
  BY <1>3 DEF TreesShaped
<1>6. ASSUME NEW v, NEW x PROVE Copies(s0, v, x)' = Held(r.entries, v, x)
  BY <1>1, <1>3, CopiesHeldNext
<1>7. ASSUME NEW s \in Symbols, s # s0, NEW v, NEW x PROVE Copies(s, v, x)' = Copies(s, v, x)
  BY <1>3, <1>7 DEF Copies
<1>8. QED
  BY <1>4, <1>5, <1>6, <1>7

(* The ids the trees hold are finitely many, and at most all of them.      *)
LEMMA IndexedIsFinite ==
  ASSUME NEW S \in SUBSET Ids
  PROVE  IsFiniteSet(S) /\ Cardinality(S) \in 0..Cardinality(Ids)
<1>1. IsFiniteSet(S) /\ Cardinality(S) <= Cardinality(Ids)
  BY StrategyAssumption, FS_Subset
<1>2. Cardinality(S) \in Nat /\ Cardinality(Ids) \in Nat
  BY <1>1, StrategyAssumption, FS_CardinalityType
<1>3. QED
  BY <1>1, <1>2

(* The call takes the copies of the removed condition from its array.      *)
LEMMA UnindexMaps ==
  ASSUME Maps, UnindexCondition
  PROVE  Maps'
<1> DEFINE Indexes == {x \in Ids : InTrees(x) # None}
<1>0. PICK id, s0, v0 : id = call.id /\ s0 = call.old.symbol /\ v0 = call.old.threshold
  OBVIOUS
<1>1. /\ call.step = "unindex"
      /\ trees' = [trees EXCEPT ![s0] = RemoveThreshold(trees[s0], v0, id)]
      /\ count' = count - 1
      /\ call' = IF call.new = None \/ call.new.threshold = None THEN NoCall
                 ELSE [call EXCEPT !.step = "readd", !.old = None]
      /\ UNCHANGED conditions
  BY <1>0 DEF UnindexCondition, Unindexed, CountAfterUnindex
<1>2. /\ id \in Ids /\ conditions[id] = None
      /\ call.old \in Configs /\ s0 \in Symbols /\ v0 \in Int
  <2>1. /\ call.id \in Ids /\ conditions[call.id] = None /\ call.old \in Configs
        /\ call.old.threshold # None
    BY <1>1 DEF Maps, MapTypes, CallFits
  <2>2. QED
    BY <1>0, <2>1, ConfigFields
<1>3. InTrees(id) = call.old /\ InTrees(id) # None
  BY <1>0, <1>1, <1>2, ConfigFields DEF InTrees
<1>4. ShapedTree(trees[s0])
  <2>1. Copies(s0, v0, id) = 1
    BY <1>0, <1>2, <1>3 DEF Maps, Mirrored
  <2>2. trees[s0] # None
    BY <2>1 DEF Copies
  <2>3. QED
    BY <1>2, <2>2 DEF Maps, TreesShaped
<1>5. PICK r : r = RemoveThreshold(trees[s0], v0, id)
  OBVIOUS
<1>6. ShapedTree(r) /\ r.entries = WithoutLevel(trees[s0].entries, v0, id)
  BY <1>2, <1>4, <1>5, RemoveThresholdSpec
<1>7. /\ trees' \in [Symbols -> Tree \cup {None}] /\ TreesShaped'
      /\ \A v, x : Copies(s0, v, x)' = Held(r.entries, v, x)
      /\ \A s \in Symbols : s # s0 => \A v, x : Copies(s, v, x)' = Copies(s, v, x)
  <2>1. trees' = [trees EXCEPT ![s0] = r] /\ MapTypes /\ TreesShaped
    BY <1>1, <1>5 DEF Maps
  <2>2. QED
    BY <1>2, <1>6, <2>1, EditedCopies
<1>8. /\ call'.step \in {"idle", "readd"}
      /\ call'.step = "idle" => call' = NoCall
      /\ call'.step = "readd" => /\ call'.id = call.id /\ call'.new = call.new
                                 /\ call.new # None /\ call.new.threshold # None
      /\ call' \in [step : {"idle", "index", "unindex", "readd"}, id : Ids \cup {None},
                    old : Configs \cup {None}, new : Configs \cup {None}]
  BY <1>1 DEF Maps, MapTypes, NoCall
<1>9. MapTypes'
  BY <1>1, <1>7, <1>8 DEF Maps, MapTypes
<1>10. CallFits'
  BY <1>0, <1>1, <1>2, <1>8 DEF Maps, CallFits
<1>11. ASSUME NEW x \in Ids PROVE InTrees(x)' = IF x = id THEN None ELSE InTrees(x)
  BY <1>0, <1>1, <1>2, <1>8 DEF InTrees
<1>12. Mirrored'
  <2>1. SUFFICES ASSUME NEW x \in Ids, NEW s \in Symbols, NEW v \in Int
                 PROVE  Copies(s, v, x)' = IF /\ InTrees(x)' # None
                                              /\ InTrees(x)'.symbol = s
                                              /\ InTrees(x)'.threshold = v
                                           THEN 1 ELSE 0
    BY DEF Mirrored
  <2>2. Copies(s, v, x) = IF /\ InTrees(x) # None
                             /\ InTrees(x).symbol = s
                             /\ InTrees(x).threshold = v
                          THEN 1 ELSE 0
    BY DEF Maps, Mirrored
  <2>3. Copies(s, v, x)' = IF s = s0 /\ v = v0 /\ x = id THEN 0 ELSE Copies(s, v, x)
    <3>1. CASE s # s0
      BY <3>1, <1>7
    <3>2. CASE s = s0
      <4>1. Copies(s0, v, x) = Held(trees[s0].entries, v, x)
        <5>1. trees[s0] # None
          BY <1>4, StrategyAssumption DEF ShapedTree, Shape
        <5>2. QED
          BY <1>2, <5>1, CopiesHeld
      <4>2. /\ trees[s0].entries \in Seq(Level) /\ Ascending(trees[s0].entries)
            /\ NoEmpty(trees[s0].entries)
        BY <1>4, TreeFields DEF ShapedTree, Shape
      <4>3. Held(r.entries, v, x) =
              IF v = v0 /\ x = id THEN 0 ELSE Held(trees[s0].entries, v, x)
        BY <1>2, <1>6, <4>2, WithoutLevelHeld
      <4>4. QED
        BY <3>2, <1>7, <4>1, <4>3
    <3>3. QED
      BY <3>1, <3>2
  <2>4. CASE x # id
    BY <2>2, <2>3, <2>4, <1>11
  <2>5. CASE x = id
    BY <2>2, <2>3, <2>5, <1>0, <1>3, <1>11
  <2>6. QED
    BY <2>4, <2>5
<1>13. Counted'
  <2>1. Indexes \in SUBSET Ids /\ id \in Indexes
    BY <1>2, <1>3
  <2>2. {x \in Ids : InTrees(x)' # None} = Indexes \ {id}
    BY <1>11
  <2>3. IsFiniteSet(Indexes)
    BY <2>1, IndexedIsFinite
  <2>4. Cardinality(Indexes \ {id}) = Cardinality(Indexes) - 1
    BY <2>1, <2>3, FS_RemoveElement
  <2>5. QED
    BY <1>1, <2>2, <2>4 DEF Maps, Counted
<1>14. QED
  BY <1>7, <1>9, <1>10, <1>12, <1>13 DEF Maps

(* The call puts a copy of the inserted condition into its array.          *)
LEMMA IndexMaps ==
  ASSUME Maps, IndexCondition
  PROVE  Maps'
<1> DEFINE Indexes == {x \in Ids : InTrees(x) # None}
<1>0. PICK id, s0, v0 : id = call.id /\ s0 = call.new.symbol /\ v0 = call.new.threshold
  OBVIOUS
<1>1. /\ call.step = "index"
      /\ trees' = [trees EXCEPT ![s0] =
                     AddThreshold(IF trees[s0] = None THEN NewTree ELSE trees[s0], v0, id)]
      /\ count' = count + 1
      /\ call' = NoCall
      /\ UNCHANGED conditions
  BY <1>0 DEF IndexCondition, Indexed
<1>2. /\ id \in Ids /\ conditions[id] = call.new
      /\ call.new \in Configs /\ call.new # None /\ s0 \in Symbols /\ v0 \in Int
  <2>1. /\ call.id \in Ids /\ conditions[call.id] = call.new /\ call.new \in Configs
        /\ call.new # None /\ conditions[call.id].threshold # None
    BY <1>1 DEF Maps, MapTypes, CallFits
  <2>2. QED
    BY <1>0, <2>1, ConfigFields
<1>3. InTrees(id) = None
  BY <1>0, <1>1, <1>2 DEF InTrees
<1>4. PICK t : /\ t = IF trees[s0] = None THEN NewTree ELSE trees[s0]
               /\ ShapedTree(t)
               /\ \A v \in Int, x \in Ids : Held(t.entries, v, x) = Copies(s0, v, x)
  <2>1. CASE trees[s0] = None
    <3>1. ShapedTree(NewTree) /\ NewTree.entries = <<>>
      BY NewTreeSpec
    <3>2. \A v \in Int, x \in Ids : Held(<<>>, v, x) = 0
      BY DEF Held
    <3>3. \A v \in Int, x \in Ids : Copies(s0, v, x) = 0
      BY <2>1 DEF Copies
    <3>4. QED
      BY <2>1, <3>1, <3>2, <3>3
  <2>2. CASE trees[s0] # None
    <3>1. ShapedTree(trees[s0])
      BY <1>2, <2>2 DEF Maps, TreesShaped
    <3>2. \A v \in Int, x \in Ids : Copies(s0, v, x) = Held(trees[s0].entries, v, x)
      BY <1>2, <2>2, CopiesHeld
    <3>3. QED
      BY <2>2, <3>1, <3>2
  <2>3. QED
    BY <2>1, <2>2
<1>5. PICK r : r = AddThreshold(t, v0, id)
  OBVIOUS
<1>6. ShapedTree(r) /\ r.entries = WithLevel(t.entries, v0, id)
  BY <1>2, <1>4, <1>5, AddThresholdSpec
<1>7. /\ trees' \in [Symbols -> Tree \cup {None}] /\ TreesShaped'
      /\ \A v, x : Copies(s0, v, x)' = Held(r.entries, v, x)
      /\ \A s \in Symbols : s # s0 => \A v, x : Copies(s, v, x)' = Copies(s, v, x)
  <2>1. trees' = [trees EXCEPT ![s0] = r] /\ MapTypes /\ TreesShaped
    BY <1>1, <1>4, <1>5 DEF Maps
  <2>2. QED
    BY <1>2, <1>6, <2>1, EditedCopies
<1>8. MapTypes'
  BY <1>1, <1>7 DEF Maps, MapTypes, NoCall
<1>9. CallFits'
  BY <1>1, <1>2 DEF Maps, CallFits, NoCall
<1>10. ASSUME NEW x \in Ids PROVE InTrees(x)' = IF x = id THEN call.new ELSE InTrees(x)
  BY <1>0, <1>1, <1>2 DEF InTrees, NoCall
<1>11. Mirrored'
  <2>1. SUFFICES ASSUME NEW x \in Ids, NEW s \in Symbols, NEW v \in Int
                 PROVE  Copies(s, v, x)' = IF /\ InTrees(x)' # None
                                              /\ InTrees(x)'.symbol = s
                                              /\ InTrees(x)'.threshold = v
                                           THEN 1 ELSE 0
    BY DEF Mirrored
  <2>2. Copies(s, v, x) = IF /\ InTrees(x) # None
                             /\ InTrees(x).symbol = s
                             /\ InTrees(x).threshold = v
                          THEN 1 ELSE 0
    BY DEF Maps, Mirrored
  <2>3. Copies(s, v, x)' =
          IF s = s0 /\ v = v0 /\ x = id THEN Copies(s, v, x) + 1 ELSE Copies(s, v, x)
    <3>1. CASE s # s0
      BY <3>1, <1>7
    <3>2. CASE s = s0
      <4>1. Held(t.entries, v, x) = Copies(s0, v, x)
        BY <1>4
      <4>2. /\ t.entries \in Seq(Level) /\ Ascending(t.entries) /\ NoEmpty(t.entries)
        BY <1>4, TreeFields DEF ShapedTree, Shape
      <4>3. Held(r.entries, v, x) =
              IF v = v0 /\ x = id THEN Held(t.entries, v, x) + 1 ELSE Held(t.entries, v, x)
        BY <1>2, <1>6, <4>2, WithLevelHeld
      <4>4. QED
        BY <3>2, <1>7, <4>1, <4>3
    <3>3. QED
      BY <3>1, <3>2
  <2>4. CASE x # id
    BY <2>2, <2>3, <2>4, <1>10
  <2>5. CASE x = id
    BY <2>2, <2>3, <2>5, <1>0, <1>2, <1>3, <1>10
  <2>6. QED
    BY <2>4, <2>5
<1>12. Counted'
  <2>1. Indexes \in SUBSET Ids /\ id \notin Indexes
    BY <1>2, <1>3
  <2>2. {x \in Ids : InTrees(x)' # None} = Indexes \cup {id}
    BY <1>2, <1>10
  <2>3. IsFiniteSet(Indexes)
    BY <2>1, IndexedIsFinite
  <2>4. Cardinality(Indexes \cup {id}) = Cardinality(Indexes) + 1
    BY <2>1, <2>3, FS_AddElement
  <2>5. QED
    BY <1>1, <2>2, <2>4 DEF Maps, Counted
<1>13. QED
  BY <1>7, <1>8, <1>9, <1>11, <1>12 DEF Maps

-----------------------------------------------------------------------------
(***************************************************************************)
(* The levels an evaluate walks.                                           *)
(***************************************************************************)
LEMMA SliceSpec ==
  ASSUME NEW e \in Seq(Level), NEW a \in 1..Len(e), NEW b \in a..Len(e)
  PROVE  /\ SubSeq(e, a, b) \in Seq(Level) /\ Len(SubSeq(e, a, b)) = b - a + 1
         /\ \A i \in 1..(b - a + 1) : SubSeq(e, a, b)[i] = e[a + i - 1]
BY SubSeqProperties

(* What Reverse returns.                                                   *)
LEMMA ReversedSpec ==
  ASSUME NEW s \in Seq(Level)
  PROVE  /\ Reverse(s) \in Seq(Level) /\ Len(Reverse(s)) = Len(s)
         /\ \A i \in 1..Len(s) : Reverse(s)[i] = s[Len(s) - i + 1]
<1>1. Len(s) \in Nat /\ \A i \in 1..Len(s) : s[Len(s) - i + 1] \in Level
  <2>1. Len(s) \in Nat /\ \A i \in 1..Len(s) : s[i] \in Level
    BY ElementOfSeq
  <2>2. \A i \in 1..Len(s) : Len(s) - i + 1 \in 1..Len(s)
    BY <2>1
  <2>3. QED
    BY <2>1, <2>2
<1>2. Reverse(s) = [i \in 1..Len(s) |-> s[(Len(s) - i) + 1]]
  BY DEF Reverse
<1>3. QED
  BY <1>1, <1>2

(* They are levels of the tree, each once, and between the two prices.     *)
LEMMA WalkedLevelsSpec ==
  ASSUME NEW t, ShapedTree(t), NEW price \in Int, NEW L, L = WalkedLevels(t, price)
  PROVE  /\ L \in Seq(Level)
         /\ L # <<>> => t.last_price \in Int
         /\ \A i \in 1..Len(L) :
              /\ Between(t.last_price, L[i].value, price)
              /\ \E k \in 1..Len(t.entries) : L[i] = t.entries[k]
         /\ \A i, j \in 1..Len(L) : L[i].value = L[j].value => i = j
<1> DEFINE n == Len(t.entries)
<1>1. /\ t.entries \in Seq(Level) /\ n \in Nat /\ Ascending(t.entries)
      /\ \A i \in 1..n : t.entries[i].value \in Int
      /\ t.last_price # None => t.last_price \in Int
  BY TreeFields DEF ShapedTree, Shape
<1>2. CASE DriftWalked(t, price) = {}
  BY <1>2 DEF WalkedLevels
<1>3. CASE DriftWalked(t, price) # {}
  <2>1. t.last_price # None
    BY <1>3 DEF DriftWalked
  <2>2. Outcome(t, DriftAfter(t, price), DriftWalked(t, price), price)
    BY <2>1, DriftOutcome DEF ShapedTree
  <2>3. /\ DriftWalked(t, price) \subseteq 1..n
        /\ \A k \in DriftWalked(t, price) : Between(t.last_price, t.entries[k].value, price)
    BY <2>2 DEF Outcome
  <2>4. ASSUME NEW a \in 1..n, NEW b \in a..n, DriftWalked(t, price) = a..b,
               \/ L = SubSeq(t.entries, a, b)
               \/ L = Reverse(SubSeq(t.entries, a, b))
        PROVE  /\ L \in Seq(Level)
               /\ \A i \in 1..Len(L) : \E k \in a..b : L[i] = t.entries[k]
               /\ \A i, j \in 1..Len(L) : L[i].value = L[j].value => i = j
    <3>1. PICK s : /\ s = SubSeq(t.entries, a, b)
                   /\ s \in Seq(Level) /\ Len(s) = b - a + 1
                   /\ \A i \in 1..(b - a + 1) : s[i] = t.entries[a + i - 1]
      BY <1>1, SliceSpec, ZenonT(60)
    <3>2. \A i, j \in 1..n : t.entries[i].value = t.entries[j].value => i = j
      BY <1>1 DEF Ascending
    <3>3. CASE L = s
      <4>1. \A i \in 1..Len(L) : a + i - 1 \in a..b /\ a + i - 1 \in 1..n /\ L[i] = t.entries[a + i - 1]
        BY <3>1, <3>3, <1>1
      <4>2. \A i, j \in 1..Len(L) : L[i].value = L[j].value => i = j
        <5>1. SUFFICES ASSUME NEW i \in 1..Len(L), NEW j \in 1..Len(L), L[i].value = L[j].value
                       PROVE  i = j
          OBVIOUS
        <5>2. a + i - 1 = a + j - 1
          BY <4>1, <5>1, <3>2, ZenonT(30)
        <5>3. QED
          BY <5>2, <1>1
      <4>3. QED
        BY <3>1, <3>3, <4>1, <4>2
    <3>4. CASE L = Reverse(s)
      <4>1. L \in Seq(Level) /\ Len(L) = b - a + 1 /\ \A i \in 1..Len(L) : L[i] = s[Len(s) - i + 1]
        <5>1. s \in Seq(Level) /\ Len(s) = b - a + 1
          BY <3>1
        <5>2. /\ Reverse(s) \in Seq(Level) /\ Len(Reverse(s)) = Len(s)
              /\ \A i \in 1..Len(s) : Reverse(s)[i] = s[Len(s) - i + 1]
          BY <5>1, ReversedSpec, Zenon
        <5>3. QED
          BY <3>4, <5>1, <5>2
      <4>2. \A i \in 1..Len(L) : b - i + 1 \in a..b /\ b - i + 1 \in 1..n /\ L[i] = t.entries[b - i + 1]
        <5>1. SUFFICES ASSUME NEW i \in 1..Len(L)
                       PROVE  b - i + 1 \in a..b /\ b - i + 1 \in 1..n /\ L[i] = t.entries[b - i + 1]
          OBVIOUS
        <5>2. /\ Len(s) - i + 1 \in 1..(b - a + 1) /\ a + (Len(s) - i + 1) - 1 = b - i + 1
              /\ b - i + 1 \in a..b /\ b - i + 1 \in 1..n
          BY <3>1, <4>1, <1>1
        <5>3. QED
          BY <3>1, <4>1, <5>2
      <4>3. \A i, j \in 1..Len(L) : L[i].value = L[j].value => i = j
        <5>1. SUFFICES ASSUME NEW i \in 1..Len(L), NEW j \in 1..Len(L), L[i].value = L[j].value
                       PROVE  i = j
          OBVIOUS
        <5>2. b - i + 1 = b - j + 1
          BY <4>2, <5>1, <3>2, ZenonT(30)
        <5>3. QED
          BY <5>2, <4>1, <1>1, SMTT(30)
      <4>4. QED
        BY <4>1, <4>2, <4>3
    <3>5. QED
      BY <2>4, <3>1, <3>3, <3>4
  <2>5. \E a \in 1..n : \E b \in a..n :
          /\ DriftWalked(t, price) = a..b
          /\ \/ L = SubSeq(t.entries, a, b)
             \/ L = Reverse(SubSeq(t.entries, a, b))
    <3>1. CASE WalksUp(t, price)
      <4>1. PICK a, b : a = t.upper_idx /\ b = UpStop(t, price) - 1
        OBVIOUS
      <4>2. t.upper_idx \in 1..n
        BY <3>1 DEF WalksUp, ShapedTree, Shape
      <4>3. UpStop(t, price) \in t.upper_idx..(n + 1)
        BY <4>2, UpStopSpec DEF ShapedTree, Shape
      <4>4. DriftWalked(t, price) = a..b
        BY <2>1, <3>1, <4>1 DEF DriftWalked
      <4>5. a \in 1..n /\ b \in a..n
        BY <1>1, <1>3, <4>1, <4>2, <4>3, <4>4
      <4>6. L = SubSeq(t.entries, a, b)
        BY <1>3, <3>1, <4>1 DEF WalkedLevels
      <4>7. QED
        BY <4>4, <4>5, <4>6
    <3>2. CASE ~WalksUp(t, price)
      <4>1. PICK a, b : a = DownStop(t, price) + 1 /\ b = t.lower_idx
        OBVIOUS
      <4>2. WalksDown(t, price)
        BY <1>3, <2>1, <3>2 DEF DriftWalked
      <4>3. t.lower_idx \in 1..n
        BY <4>2 DEF WalksDown, ShapedTree, Shape
      <4>4. DownStop(t, price) \in 0..t.lower_idx
        BY <4>3, DownStopSpec DEF ShapedTree, Shape
      <4>5. DriftWalked(t, price) = a..b
        BY <2>1, <3>2, <4>1, <4>2 DEF DriftWalked
      <4>6. a \in 1..n /\ b \in a..n
        BY <1>1, <1>3, <4>1, <4>3, <4>4, <4>5
      <4>7. L = Reverse(SubSeq(t.entries, a, b))
        BY <1>3, <3>2, <4>1 DEF WalkedLevels
      <4>8. QED
        BY <4>5, <4>6, <4>7
    <3>3. QED
      BY <3>1, <3>2
  <2>6. PICK a \in 1..n, b \in 1..n :
          /\ b \in a..n /\ DriftWalked(t, price) = a..b
          /\ \/ L = SubSeq(t.entries, a, b)
             \/ L = Reverse(SubSeq(t.entries, a, b))
    BY <2>5, <1>1
  <2>7. /\ L \in Seq(Level)
        /\ \A i \in 1..Len(L) : \E k \in a..b : L[i] = t.entries[k]
        /\ \A i, j \in 1..Len(L) : L[i].value = L[j].value => i = j
    BY <2>4, <2>6
  <2>8. QED
    BY <1>1, <2>1, <2>3, <2>6, <2>7
<1>4. QED
  BY <1>2, <1>3

-----------------------------------------------------------------------------
(***************************************************************************)
(* The evaluate under way.                                                 *)
(***************************************************************************)
WalkTypes ==
  /\ evaluation \in [symbol : Symbols \cup {None}, from : Int \cup {None}, value : Int,
                     now : Nat, crossed : Seq(Level)]
  /\ matches \in Seq(Ids \X Int)
  /\ expected \subseteq Ids /\ disturbed \subseteq Ids

Matched(id) == \E m \in 1..Len(matches) : matches[m][1] = id

(* An evaluate under way has levels left, all between its two prices.      *)
EvaluationFits ==
  /\ Evaluating <=> evaluation.crossed # <<>>
  /\ Evaluating => evaluation.from \in Int /\ evaluation.now \in Times
  /\ \A i \in 1..Len(evaluation.crossed) :
       Between(evaluation.from, evaluation.crossed[i].value, evaluation.value)

(* An id still to be examined is there once, has not matched yet, and is   *)
(* there at the threshold of its condition unless a call touched it.       *)
ExaminedOnce ==
  \A id \in Ids : \A i \in 1..Len(evaluation.crossed) :
    evaluation.crossed[i].ids[id] > 0 =>
      /\ evaluation.crossed[i].ids[id] = 1
      /\ \A j \in 1..Len(evaluation.crossed) : evaluation.crossed[j].ids[id] > 0 => j = i
      /\ ~Matched(id)
      /\ id \notin disturbed => /\ conditions[id] # None
                                /\ conditions[id].threshold = evaluation.crossed[i].value

(* What an undisturbed id is expected to do it has done, or it is still to *)
(* be examined and would do it now.                                        *)
ExactSoFar ==
  \A id \in Ids \ disturbed :
    id \in expected <=>
      \/ Matched(id)
      \/ id \in CrossedIds(evaluation.crossed, evaluation.value, evaluation.now)

Walk == WalkTypes /\ EvaluationFits /\ ExaminedOnce /\ ExactSoFar /\ MatchesSound

(***************************************************************************)
(* The times at which the conditions matched.                              *)
(***************************************************************************)
FiringTypes ==
  /\ last \in [Ids -> Times \cup {None}]
  /\ fired \in [Ids -> SUBSET Times]

(* With a cooldown above zero, last_triggered_us is the latest match: an   *)
(* earlier one would let the next match come too soon.                     *)
LastIsLatest ==
  \A id \in Ids : conditions[id] # None /\ conditions[id].cooldown # None =>
    /\ last[id] = None => fired[id] = {}
    /\ last[id] # None /\ conditions[id].cooldown > 0 =>
         \A t \in fired[id] : t <= last[id]

Firing == FiringTypes /\ LastIsLatest /\ CooldownSpacing

-----------------------------------------------------------------------------
(* Whether a condition fires depends on its own entries only.              *)
LEMMA FiresSame ==
  ASSUME NEW id, conditions'[id] = conditions[id], last'[id] = last[id],
         NEW threshold, NEW value, NEW now
  PROVE  Fires(id, threshold, value, now)' <=> Fires(id, threshold, value, now)
BY DEF Fires, Cooling

(* No evaluation is under way at first.                                    *)
LEMMA WalkInit == Init => Walk
<1> SUFFICES ASSUME Init PROVE Walk
  OBVIOUS
<1>1. evaluation = NoEvaluate /\ matches = <<>> /\ expected = {} /\ disturbed = {}
  BY DEF Init
<1>2. evaluation.crossed = <<>> /\ Len(evaluation.crossed) = 0
  BY <1>1 DEF NoEvaluate
<1>3. WalkTypes
  BY <1>1 DEF WalkTypes, NoEvaluate
<1>4. EvaluationFits /\ ExaminedOnce
  BY <1>1, <1>2 DEF EvaluationFits, ExaminedOnce, Evaluating
<1>5. ExactSoFar
  BY <1>1, <1>2 DEF ExactSoFar, Matched, CrossedIds
<1>6. MatchesSound
  BY <1>1 DEF MatchesSound, OneMatchPerTick, StaleMatchOnlyIfDisturbed
<1>7. QED
  BY <1>3, <1>4, <1>5, <1>6 DEF Walk

(* A step of a call changes a condition only if it marks it disturbed.     *)
LEMMA CallWalk ==
  ASSUME Walk, UNCHANGED evaluator, disturbed \subseteq disturbed', disturbed' \subseteq Ids,
         \A id \in Ids \ disturbed' : conditions'[id] = conditions[id] /\ last'[id] = last[id]
  PROVE  Walk'
<1>1. UNCHANGED <<evaluation, matches, expected>>
  BY DEF evaluator
<1>2. WalkTypes'
  BY <1>1 DEF Walk, WalkTypes
<1>3. EvaluationFits'
  BY <1>1 DEF Walk, EvaluationFits, Evaluating
<1>4. \A id : Matched(id)' <=> Matched(id)
  BY <1>1 DEF Matched
<1>5. ExaminedOnce'
  BY <1>1, <1>4 DEF Walk, ExaminedOnce
<1>6. ExactSoFar'
  <2>1. SUFFICES ASSUME NEW id \in Ids \ disturbed'
                 PROVE  id \in expected' <=>
                          \/ Matched(id)'
                          \/ id \in CrossedIds(evaluation.crossed, evaluation.value, evaluation.now)'
    BY DEF ExactSoFar
  <2>2. conditions'[id] = conditions[id] /\ last'[id] = last[id] /\ id \in Ids \ disturbed
    OBVIOUS
  <2>3. id \in expected <=>
          \/ Matched(id)
          \/ id \in CrossedIds(evaluation.crossed, evaluation.value, evaluation.now)
    BY <2>2 DEF Walk, ExactSoFar
  <2>4. PICK levels, value, now : /\ levels = evaluation.crossed /\ value = evaluation.value
                                  /\ now = evaluation.now
    OBVIOUS
  <2>5. id \in CrossedIds(levels, value, now)' <=> id \in CrossedIds(levels, value, now)
    <3>1. \A threshold : Fires(id, threshold, value, now)' <=> Fires(id, threshold, value, now)
      BY <2>2, FiresSame
    <3>2. QED
      BY <3>1 DEF CrossedIds
  <2>6. QED
    BY <1>1, <1>4, <2>3, <2>4, <2>5
<1>7. MatchesSound'
  <2>1. OneMatchPerTick'
    BY <1>1 DEF Walk, MatchesSound, OneMatchPerTick
  <2>2. StaleMatchOnlyIfDisturbed'
    <3>1. SUFFICES ASSUME NEW i \in 1..Len(matches), matches[i][1] \notin disturbed'
                   PROVE  /\ conditions'[matches[i][1]] # None
                          /\ conditions'[matches[i][1]].threshold = matches[i][2]
      BY <1>1 DEF StaleMatchOnlyIfDisturbed
    <3>2. matches[i][1] \in Ids
      <4>1. matches[i] \in Ids \X Int
        BY ElementOfSeq DEF Walk, WalkTypes
      <4>2. QED
        BY <4>1
    <3>3. /\ conditions[matches[i][1]] # None
          /\ conditions[matches[i][1]].threshold = matches[i][2]
      BY <3>1 DEF Walk, MatchesSound, StaleMatchOnlyIfDisturbed
    <3>4. QED
      BY <3>1, <3>2, <3>3
  <2>3. QED
    BY <2>1, <2>2 DEF MatchesSound
<1>8. QED
  BY <1>2, <1>3, <1>5, <1>6, <1>7 DEF Walk

-----------------------------------------------------------------------------
(***************************************************************************)
(* evaluate begins: the walk.                                              *)
(***************************************************************************)
LEMMA BeginMaps ==
  ASSUME Maps, NEW symbol \in Symbols, NEW price \in Prices, NEW now \in Times,
         BeginEvaluate(symbol, price, now)
  PROVE  Maps'
<1>1. /\ trees[symbol] # None
      /\ trees' = [trees EXCEPT ![symbol] = DriftAfter(trees[symbol], price)]
      /\ UNCHANGED <<conditions, count, call>>
  BY DEF BeginEvaluate
<1>2. price \in Int
  BY StrategyAssumption
<1>3. ShapedTree(trees[symbol])
  BY <1>1 DEF Maps, TreesShaped
<1>4. PICK r : r = DriftAfter(trees[symbol], price)
  OBVIOUS
<1>5. ShapedTree(r) /\ r.entries = trees[symbol].entries
  <2>1. CASE trees[symbol].last_price = None
    <3>1. Shape(r) /\ Bracket(r) /\ r.entries = trees[symbol].entries
      BY <1>2, <1>3, <1>4, <2>1, ArmOutcome DEF ShapedTree
    <3>2. QED
      BY <3>1 DEF ShapedTree
  <2>2. CASE trees[symbol].last_price # None
    <3>1. Outcome(trees[symbol], r, DriftWalked(trees[symbol], price), price)
      BY <1>2, <1>3, <1>4, <2>2, DriftOutcome DEF ShapedTree
    <3>2. QED
      BY <3>1 DEF Outcome, ShapedTree
  <2>3. QED
    BY <2>1, <2>2
<1>6. /\ trees' \in [Symbols -> Tree \cup {None}] /\ TreesShaped'
      /\ \A v, x : Copies(symbol, v, x)' = Held(r.entries, v, x)
      /\ \A s \in Symbols : s # symbol => \A v, x : Copies(s, v, x)' = Copies(s, v, x)
  <2>1. trees' = [trees EXCEPT ![symbol] = r] /\ MapTypes /\ TreesShaped
    BY <1>1, <1>4 DEF Maps
  <2>2. QED
    BY <1>5, <2>1, EditedCopies
<1>7. \A v, x : Copies(symbol, v, x) = Held(r.entries, v, x)
  BY <1>1, <1>5, CopiesHeld
<1>8. \A s \in Symbols : \A v, x : Copies(s, v, x)' = Copies(s, v, x)
  BY <1>6, <1>7
<1>9. \A x : InTrees(x)' = InTrees(x)
  BY <1>1 DEF InTrees
<1>10. MapTypes' /\ CallFits'
  BY <1>1, <1>6 DEF Maps, MapTypes, CallFits
<1>11. Mirrored'
  BY <1>8, <1>9 DEF Maps, Mirrored
<1>12. Counted'
  <2>1. {x \in Ids : InTrees(x)' # None} = {x \in Ids : InTrees(x) # None}
    BY <1>9
  <2>2. QED
    BY <1>1, <2>1 DEF Maps, Counted
<1>13. QED
  BY <1>6, <1>10, <1>11, <1>12 DEF Maps

(* An evaluation takes the crossed levels of the symbol from its array.    *)
LEMMA BeginWalk ==
  ASSUME Maps, Walk, NEW symbol \in Symbols, NEW price \in Prices, NEW now \in Times,
         BeginEvaluate(symbol, price, now)
  PROVE  Walk'
<1>1. PICK levels : levels = WalkedLevels(trees[symbol], price)
  OBVIOUS
<1>2. /\ trees[symbol] # None
      /\ evaluation' = IF levels = <<>> THEN NoEvaluate
                       ELSE [symbol |-> symbol, from |-> trees[symbol].last_price,
                             value |-> price, now |-> now, crossed |-> levels]
      /\ expected' = CrossedIds(levels, price, now)
      /\ matches' = <<>>
      /\ disturbed' = IF call = NoCall THEN {} ELSE {call.id}
      /\ UNCHANGED <<conditions, last, call>>
  BY <1>1 DEF BeginEvaluate
<1>3. price \in Int /\ now \in Nat
  BY StrategyAssumption
<1>4. PICK t : t = trees[symbol] /\ ShapedTree(t)
  BY <1>2 DEF Maps, TreesShaped
<1>5. /\ levels \in Seq(Level)
      /\ levels # <<>> => t.last_price \in Int
      /\ \A i \in 1..Len(levels) :
           /\ Between(t.last_price, levels[i].value, price)
           /\ \E k \in 1..Len(t.entries) : levels[i] = t.entries[k]
      /\ \A i, j \in 1..Len(levels) : levels[i].value = levels[j].value => i = j
  BY <1>1, <1>3, <1>4, WalkedLevelsSpec, SMTT(30)
<1>6. /\ evaluation'.crossed = levels
      /\ levels # <<>> => /\ evaluation'.value = price /\ evaluation'.now = now
                          /\ evaluation'.from = t.last_price
      /\ evaluation' \in [symbol : Symbols \cup {None}, from : Int \cup {None}, value : Int,
                          now : Nat, crossed : Seq(Level)]
  BY <1>2, <1>3, <1>4, <1>5 DEF NoEvaluate
<1>7. WalkTypes'
  <2>1. expected' \subseteq Ids
    BY <1>2 DEF CrossedIds
  <2>2. disturbed' \subseteq Ids
    BY <1>2 DEF Maps, MapTypes, CallFits
  <2>3. matches' \in Seq(Ids \X Int)
    BY <1>2
  <2>4. QED
    BY <1>6, <2>1, <2>2, <2>3 DEF WalkTypes
<1>8. EvaluationFits'
  <2>1. Evaluating' <=> levels # <<>>
    <3>1. levels # <<>> => evaluation' # NoEvaluate
      BY <1>6 DEF NoEvaluate
    <3>2. QED
      BY <1>2, <3>1 DEF Evaluating
  <2>2. levels # <<>> => evaluation'.from \in Int /\ evaluation'.now \in Times
    BY <1>5, <1>6
  <2>3. \A i \in 1..Len(levels) : levels # <<>>
    OBVIOUS
  <2>4. \A i \in 1..Len(levels) : Between(evaluation'.from, levels[i].value, evaluation'.value)
    BY <1>5, <1>6, <2>3
  <2>5. QED
    BY <1>6, <2>1, <2>2, <2>4 DEF EvaluationFits
<1>9. \A x : ~Matched(x)'
  BY <1>2 DEF Matched
<1>10. ASSUME NEW x \in Ids, NEW i \in 1..Len(levels), levels[i].ids[x] > 0
       PROVE  /\ levels[i].ids[x] = 1
              /\ InTrees(x) # None /\ InTrees(x).threshold = levels[i].value
  <2>1. PICK k \in 1..Len(t.entries) : levels[i] = t.entries[k]
    BY <1>5
  <2>2. t.entries \in Seq(Level) /\ Ascending(t.entries) /\ t.entries[k].value \in Int
    BY <1>4, TreeFields DEF ShapedTree, Shape
  <2>3. Held(t.entries, t.entries[k].value, x) = t.entries[k].ids[x]
    BY <2>2, HeldSpec
  <2>4. Copies(symbol, levels[i].value, x) = levels[i].ids[x]
    BY <1>2, <1>4, <2>1, <2>3, CopiesHeld
  <2>5. Copies(symbol, levels[i].value, x) = IF /\ InTrees(x) # None
                                                /\ InTrees(x).symbol = symbol
                                                /\ InTrees(x).threshold = levels[i].value
                                             THEN 1 ELSE 0
    BY <2>1, <2>2 DEF Maps, Mirrored
  <2>6. QED
    BY <1>10, <2>4, <2>5
<1>11. ASSUME NEW x \in Ids, x \notin disturbed' PROVE InTrees(x) = conditions[x]
  <2>1. CASE call = NoCall
    BY <2>1 DEF InTrees, NoCall
  <2>2. CASE call # NoCall
    BY <1>2, <1>11, <2>2 DEF InTrees
  <2>3. QED
    BY <2>1, <2>2
<1>12. ExaminedOnce'
  <2>1. SUFFICES ASSUME NEW x \in Ids, NEW i \in 1..Len(levels), levels[i].ids[x] > 0
                 PROVE  /\ levels[i].ids[x] = 1
                        /\ \A j \in 1..Len(levels) : levels[j].ids[x] > 0 => j = i
                        /\ ~Matched(x)'
                        /\ x \notin disturbed' => /\ conditions'[x] # None
                                                  /\ conditions'[x].threshold = levels[i].value
    BY <1>6 DEF ExaminedOnce
  <2>2. levels[i].ids[x] = 1 /\ InTrees(x) # None /\ InTrees(x).threshold = levels[i].value
    BY <1>10, <2>1
  <2>3. ASSUME NEW j \in 1..Len(levels), levels[j].ids[x] > 0 PROVE j = i
    <3>1. InTrees(x).threshold = levels[j].value
      BY <1>10, <2>3
    <3>2. QED
      BY <1>5, <2>2, <3>1
  <2>4. x \notin disturbed' => /\ conditions'[x] # None
                               /\ conditions'[x].threshold = levels[i].value
    BY <1>2, <1>11, <2>2
  <2>5. QED
    BY <1>9, <2>2, <2>3, <2>4
<1>13. ExactSoFar'
  <2>1. SUFFICES ASSUME NEW x \in Ids \ disturbed'
                 PROVE  x \in expected' <=>
                          x \in CrossedIds(evaluation.crossed, evaluation.value, evaluation.now)'
    BY <1>9 DEF ExactSoFar
  <2>2. \A th, v, n : Fires(x, th, v, n)' <=> Fires(x, th, v, n)
    BY <1>2, FiresSame
  <2>3. PICK v, n : v = evaluation'.value /\ n = evaluation'.now
    OBVIOUS
  <2>4. x \in CrossedIds(evaluation.crossed, evaluation.value, evaluation.now)' <=>
          \E i \in 1..Len(levels) : levels[i].ids[x] > 0 /\ Fires(x, levels[i].value, v, n)
    <3>1. \A l : x \in CrossedIds(l, v, n)' <=>
            \E i \in 1..Len(l) : l[i].ids[x] > 0 /\ Fires(x, l[i].value, v, n)
      BY <2>2 DEF CrossedIds
    <3>2. QED
      BY <1>6, <2>3, <3>1
  <2>5. x \in expected' <=>
          \E i \in 1..Len(levels) : levels[i].ids[x] > 0 /\ Fires(x, levels[i].value, price, now)
    BY <1>2 DEF CrossedIds
  <2>6. CASE levels = <<>>
    BY <2>4, <2>5, <2>6
  <2>7. CASE levels # <<>>
    BY <1>6, <2>3, <2>4, <2>5, <2>7
  <2>8. QED
    BY <2>6, <2>7
<1>14. MatchesSound'
  BY <1>2 DEF MatchesSound, OneMatchPerTick, StaleMatchOnlyIfDisturbed
<1>15. QED
  BY <1>7, <1>8, <1>12, <1>13, <1>14 DEF Walk

-----------------------------------------------------------------------------
(***************************************************************************)
(* evaluate goes on: one crossed id.                                       *)
(***************************************************************************)
(* An id that is there once is gone after it; the other ids stay, at       *)
(* places that are d earlier.                                              *)
LEMMA RestAfterSpec ==
  ASSUME NEW levels \in Seq(Level), levels # <<>>, NEW id \in Ids,
         levels[1].ids[id] = 1,
         \A j \in 1..Len(levels) : levels[j].ids[id] > 0 => j = 1,
         NEW rest, rest = RestAfter(levels, id)
  PROVE  /\ rest \in Seq(Level)
         /\ \E d \in {0, 1} :
              /\ \A j \in 1..Len(rest) :
                   /\ j + d \in 1..Len(levels)
                   /\ rest[j].value = levels[j + d].value
                   /\ \A x \in Ids : rest[j].ids[x] = IF x = id THEN 0 ELSE levels[j + d].ids[x]
              /\ \A i \in 1..Len(levels), x \in Ids :
                   levels[i].ids[x] > 0 /\ x # id => i - d \in 1..Len(rest)
<1>1. /\ Len(levels) \in Nat /\ 1 \in 1..Len(levels)
      /\ \A j \in 1..Len(levels) : levels[j] \in Level /\ levels[j].ids \in [Ids -> Nat]
  BY EntryFields
<1>2. PICK ids : ids = [levels[1].ids EXCEPT ![id] = levels[1].ids[id] - 1]
  OBVIOUS
<1>3. /\ ids \in [Ids -> Nat]
      /\ \A x \in Ids : ids[x] = IF x = id THEN 0 ELSE levels[1].ids[x]
  <2>1. levels[1].ids \in [Ids -> Nat]
    BY <1>1
  <2>2. QED
    BY <1>2, <2>1
<1>4. \A j \in 1..Len(levels) : j # 1 => levels[j].ids[id] = 0
  BY <1>1
<1>5. CASE ids = NoIds
  <2>1. rest = Tail(levels)
    BY <1>2, <1>5 DEF RestAfter
  <2>2. /\ rest \in Seq(Level) /\ Len(rest) = Len(levels) - 1
        /\ \A j \in 1..Len(rest) : j + 1 \in 1..Len(levels) /\ rest[j] = levels[j + 1]
    BY <2>1, HeadAndTail
  <2>3. \A j \in 1..Len(rest), x \in Ids :
          rest[j].ids[x] = IF x = id THEN 0 ELSE levels[j + 1].ids[x]
    <3>1. SUFFICES ASSUME NEW j \in 1..Len(rest), NEW x \in Ids
                   PROVE  rest[j].ids[x] = IF x = id THEN 0 ELSE levels[j + 1].ids[x]
      OBVIOUS
    <3>2. j + 1 \in 1..Len(levels) /\ j + 1 # 1 /\ rest[j] = levels[j + 1]
      BY <2>2, <1>1
    <3>3. QED
      BY <3>2, <1>4
  <2>4. ASSUME NEW i \in 1..Len(levels), NEW x \in Ids, levels[i].ids[x] > 0, x # id
        PROVE  i - 1 \in 1..Len(rest)
    <3>1. levels[1].ids[x] = 0
      BY <1>3, <1>5, <2>4 DEF NoIds
    <3>2. i # 1
      BY <2>4, <3>1
    <3>3. QED
      BY <1>1, <2>2, <3>2
  <2>5. QED
    BY <2>2, <2>3, <2>4
<1>6. CASE ids # NoIds
  <2>1. PICK l : l = [levels[1] EXCEPT !.ids = ids]
    OBVIOUS
  <2>2. l \in Level /\ l.value = levels[1].value /\ l.ids = ids
    BY <1>1, <1>3, <2>1 DEF Level
  <2>3. rest = [levels EXCEPT ![1] = l]
    BY <1>2, <1>6, <2>1 DEF RestAfter
  <2>4. /\ rest \in Seq(Level) /\ Len(rest) = Len(levels)
        /\ \A j \in 1..Len(levels) : rest[j] = IF j = 1 THEN l ELSE levels[j]
    BY <1>1, <2>2, <2>3, ExceptSeq
  <2>5. \A j \in 1..Len(rest) :
          /\ j + 0 = j /\ j - 0 = j
          /\ rest[j].value = levels[j].value
          /\ \A x \in Ids : rest[j].ids[x] = IF x = id THEN 0 ELSE levels[j].ids[x]
    BY <1>1, <1>3, <1>4, <2>2, <2>4
  <2>6. QED
    BY <2>4, <2>5
<1>7. QED
  BY <1>5, <1>6

(* Examining a crossed identifier leaves the maps alone.                   *)
LEMMA ExamineMaps ==
  ASSUME Maps, NEW id \in Ids, ExamineCrossed(id)
  PROVE  Maps'
<1>1. UNCHANGED <<conditions, trees, count, call>>
  BY DEF ExamineCrossed
<1>2. \A x : InTrees(x)' = InTrees(x)
  BY <1>1 DEF InTrees
<1>3. MapTypes' /\ CallFits'
  BY <1>1 DEF Maps, MapTypes, CallFits
<1>4. QED
  BY <1>1, <1>2, <1>3, SameIndexed DEF Maps

(* Examining a crossed identifier decides that one, by its own condition.  *)
LEMMA ExamineWalk ==
  ASSUME Walk, FiringTypes, NEW id \in Ids, ExamineCrossed(id)
  PROVE  Walk'
<1>1. PICK levels, threshold, value, now :
        /\ levels = evaluation.crossed /\ threshold = levels[1].value
        /\ value = evaluation.value /\ now = evaluation.now
  OBVIOUS
<1>2. PICK fires \in BOOLEAN : fires <=> Fires(id, threshold, value, now)
  OBVIOUS
<1>3. PICK rest : rest = RestAfter(levels, id)
  OBVIOUS
<1>4. /\ Evaluating /\ levels[1].ids[id] > 0
      /\ matches' = IF fires THEN Append(matches, <<id, threshold>>) ELSE matches
      /\ evaluation' = IF rest = <<>> THEN NoEvaluate ELSE [evaluation EXCEPT !.crossed = rest]
      /\ \A x \in Ids \ {id} : last'[x] = last[x]
      /\ UNCHANGED <<conditions, expected, disturbed>>
  <2>1. last' = [last EXCEPT ![id] = now] \/ last' = last
    BY <1>1 DEF ExamineCrossed
  <2>2. \A x \in Ids \ {id} : last'[x] = last[x]
    BY <2>1 DEF FiringTypes
  <2>3. QED
    BY <1>1, <1>2, <1>3, <2>2 DEF ExamineCrossed
<1>5. /\ levels \in Seq(Level) /\ levels # <<>> /\ Len(levels) \in Nat /\ 1 \in 1..Len(levels)
      /\ threshold \in Int /\ matches \in Seq(Ids \X Int)
  <2>1. levels \in Seq(Level) /\ levels # <<>>
    BY <1>1, <1>4 DEF Walk, WalkTypes, EvaluationFits
  <2>2. Len(levels) \in Nat /\ 1 \in 1..Len(levels)
    BY <2>1
  <2>3. QED
    BY <1>1, <2>1, <2>2, EntryFields DEF Walk, WalkTypes
<1>6. /\ levels[1].ids[id] = 1 /\ \A j \in 1..Len(levels) : levels[j].ids[id] > 0 => j = 1
      /\ ~Matched(id)
      /\ id \notin disturbed => conditions[id] # None /\ conditions[id].threshold = threshold
  BY <1>1, <1>4, <1>5 DEF Walk, ExaminedOnce
<1>7. PICK d \in {0, 1} :
        /\ rest \in Seq(Level)
        /\ \A j \in 1..Len(rest) :
             /\ j + d \in 1..Len(levels)
             /\ rest[j].value = levels[j + d].value
             /\ \A x \in Ids : rest[j].ids[x] = IF x = id THEN 0 ELSE levels[j + d].ids[x]
        /\ \A i \in 1..Len(levels), x \in Ids :
             levels[i].ids[x] > 0 /\ x # id => i - d \in 1..Len(rest)
  <2>1. /\ levels \in Seq(Level) /\ levels # <<>> /\ levels[1].ids[id] = 1
        /\ \A j \in 1..Len(levels) : levels[j].ids[id] > 0 => j = 1
    BY <1>5, <1>6
  <2>2. QED
    BY <1>3, <2>1, RestAfterSpec, SMTT(30)
<1>8. /\ evaluation'.crossed = rest
      /\ rest # <<>> => /\ evaluation'.value = value /\ evaluation'.now = now
                        /\ evaluation'.from = evaluation.from
      /\ evaluation' \in [symbol : Symbols \cup {None}, from : Int \cup {None}, value : Int,
                          now : Nat, crossed : Seq(Level)]
  <2>1. evaluation \in [symbol : Symbols \cup {None}, from : Int \cup {None}, value : Int,
                       now : Nat, crossed : Seq(Level)]
    BY DEF Walk, WalkTypes
  <2>2. CASE rest = <<>>
    BY <1>4, <1>7, <2>2 DEF NoEvaluate
  <2>3. CASE rest # <<>>
    <3>1. evaluation' = [evaluation EXCEPT !.crossed = rest]
      BY <1>4, <2>3
    <3>2. QED
      BY <1>1, <1>7, <2>1, <2>3, <3>1
  <2>4. QED
    BY <2>2, <2>3
<1>9. /\ fires => /\ Len(matches') = Len(matches) + 1
                  /\ matches'[Len(matches) + 1] = <<id, threshold>>
                  /\ \A m \in 1..Len(matches) : matches'[m] = matches[m]
      /\ ~fires => matches' = matches
      /\ matches' \in Seq(Ids \X Int) /\ Len(matches) \in Nat
  <2>1. <<id, threshold>> \in Ids \X Int
    BY <1>5
  <2>2. CASE fires
    BY <1>4, <1>5, <2>1, <2>2, AppendSpec
  <2>3. CASE ~fires
    BY <1>4, <1>5, <2>3
  <2>4. QED
    BY <2>2, <2>3
<1>10. \A x : Matched(x)' <=> Matched(x) \/ (x = id /\ fires)
  <2>1. CASE fires
    <3>1. Len(matches) + 1 \in 1..Len(matches') /\ matches'[Len(matches) + 1][1] = id
      BY <1>9, <2>1
    <3>2. \A m \in 1..Len(matches) : m \in 1..Len(matches') /\ matches'[m] = matches[m]
      BY <1>9, <2>1
    <3>3. \A m \in 1..Len(matches') : m \in 1..Len(matches) \/ m = Len(matches) + 1
      BY <1>9, <2>1
    <3>4. ASSUME NEW x, Matched(x)' PROVE Matched(x) \/ x = id
      BY <3>1, <3>2, <3>3, <3>4 DEF Matched
    <3>5. ASSUME NEW x, Matched(x) \/ x = id PROVE Matched(x)'
      BY <3>1, <3>2, <3>5 DEF Matched
    <3>6. QED
      BY <2>1, <3>4, <3>5
  <2>2. CASE ~fires
    BY <1>9, <2>2 DEF Matched
  <2>3. QED
    BY <2>1, <2>2
<1>11. WalkTypes'
  BY <1>4, <1>8, <1>9 DEF Walk, WalkTypes
<1>12. EvaluationFits'
  <2>1. Evaluating' <=> rest # <<>>
    <3>1. rest # <<>> => evaluation' # NoEvaluate
      BY <1>8 DEF NoEvaluate
    <3>2. QED
      BY <1>4, <3>1 DEF Evaluating
  <2>2. rest # <<>> => evaluation'.from \in Int /\ evaluation'.now \in Times
    BY <1>1, <1>4, <1>8 DEF Walk, EvaluationFits
  <2>3. ASSUME NEW i \in 1..Len(rest)
        PROVE  Between(evaluation'.from, rest[i].value, evaluation'.value)
    <3>1. rest # <<>>
      OBVIOUS
    <3>2. Between(evaluation.from, levels[i + d].value, value)
      BY <1>1, <1>7 DEF Walk, EvaluationFits
    <3>3. QED
      BY <1>7, <1>8, <3>1, <3>2
  <2>4. QED
    BY <1>8, <2>1, <2>2, <2>3 DEF EvaluationFits
<1>13. ExaminedOnce'
  <2>1. SUFFICES ASSUME NEW x \in Ids, NEW i \in 1..Len(rest), rest[i].ids[x] > 0
                 PROVE  /\ rest[i].ids[x] = 1
                        /\ \A j \in 1..Len(rest) : rest[j].ids[x] > 0 => j = i
                        /\ ~Matched(x)'
                        /\ x \notin disturbed => /\ conditions[x] # None
                                                 /\ conditions[x].threshold = rest[i].value
    BY <1>4, <1>8 DEF ExaminedOnce
  <2>2. /\ x # id /\ i + d \in 1..Len(levels) /\ rest[i].ids[x] = levels[i + d].ids[x]
        /\ rest[i].value = levels[i + d].value
    BY <1>7, <2>1
  <2>3. /\ levels[i + d].ids[x] = 1
        /\ \A j \in 1..Len(levels) : levels[j].ids[x] > 0 => j = i + d
        /\ ~Matched(x)
        /\ x \notin disturbed => /\ conditions[x] # None
                                 /\ conditions[x].threshold = levels[i + d].value
    BY <1>1, <2>1, <2>2 DEF Walk, ExaminedOnce
  <2>4. ASSUME NEW j \in 1..Len(rest), rest[j].ids[x] > 0 PROVE j = i
    <3>1. j + d \in 1..Len(levels) /\ levels[j + d].ids[x] > 0
      BY <1>7, <2>2, <2>4
    <3>2. j + d = i + d
      BY <2>3, <3>1
    <3>3. QED
      BY <3>2, <1>7
  <2>5. QED
    BY <1>10, <2>2, <2>3, <2>4
<1>14. ExactSoFar'
  <2>1. SUFFICES ASSUME NEW x \in Ids \ disturbed
                 PROVE  x \in expected <=>
                          \/ Matched(x)'
                          \/ x \in CrossedIds(evaluation.crossed, evaluation.value, evaluation.now)'
    BY <1>4 DEF ExactSoFar
  <2>2. x \in expected <=>
          \/ Matched(x)
          \/ \E i \in 1..Len(levels) : levels[i].ids[x] > 0 /\ Fires(x, levels[i].value, value, now)
    BY <1>1 DEF Walk, ExactSoFar, CrossedIds
  <2>3. PICK v, n : v = evaluation'.value /\ n = evaluation'.now
    OBVIOUS
  <2>4. x \in CrossedIds(evaluation.crossed, evaluation.value, evaluation.now)' <=>
          \E j \in 1..Len(rest) : rest[j].ids[x] > 0 /\ Fires(x, rest[j].value, v, n)'
    <3>1. \A l : x \in CrossedIds(l, v, n)' <=>
            \E i \in 1..Len(l) : l[i].ids[x] > 0 /\ Fires(x, l[i].value, v, n)'
      BY DEF CrossedIds
    <3>2. QED
      BY <1>8, <2>3, <3>1
  <2>5. CASE x = id
    <3>1. \A j \in 1..Len(rest) : ~(rest[j].ids[x] > 0)
      BY <1>7, <2>5
    <3>2. x \in expected <=> fires
      BY <1>1, <1>2, <1>4, <1>5, <1>6, <2>2, <2>5
    <3>3. QED
      BY <1>6, <1>10, <2>4, <2>5, <3>1, <3>2
  <2>6. CASE x # id
    <3>1. \A th : Fires(x, th, value, now)' <=> Fires(x, th, value, now)
      BY <1>4, <2>6, FiresSame
    <3>2. ASSUME NEW i \in 1..Len(levels), levels[i].ids[x] > 0, Fires(x, levels[i].value, value, now)
          PROVE  \E j \in 1..Len(rest) : rest[j].ids[x] > 0 /\ Fires(x, rest[j].value, v, n)'
      <4>1. i - d \in 1..Len(rest) /\ (i - d) + d = i
        BY <1>7, <2>6, <3>2
      <4>2. rest[i - d].ids[x] > 0 /\ rest[i - d].value = levels[i].value
        BY <1>7, <2>6, <3>2, <4>1
      <4>3. rest # <<>>
        BY <4>1
      <4>4. v = value /\ n = now
        BY <1>8, <2>3, <4>3
      <4>5. Fires(x, rest[i - d].value, v, n)'
        BY <3>1, <3>2, <4>2, <4>4
      <4>6. QED
        BY <4>1, <4>2, <4>5
    <3>3. ASSUME NEW j \in 1..Len(rest), rest[j].ids[x] > 0, Fires(x, rest[j].value, v, n)'
          PROVE  \E i \in 1..Len(levels) : levels[i].ids[x] > 0 /\ Fires(x, levels[i].value, value, now)
      <4>1. /\ j + d \in 1..Len(levels) /\ levels[j + d].ids[x] > 0
            /\ rest[j].value = levels[j + d].value
        BY <1>7, <2>6, <3>3
      <4>2. rest # <<>>
        OBVIOUS
      <4>3. v = value /\ n = now
        BY <1>8, <2>3, <4>2
      <4>4. Fires(x, levels[j + d].value, value, now)
        BY <3>1, <3>3, <4>1, <4>3
      <4>5. QED
        BY <4>1, <4>4
    <3>4. QED
      BY <1>10, <2>2, <2>4, <2>6, <3>2, <3>3
  <2>7. QED
    BY <2>5, <2>6
<1>15. MatchesSound'
  <2>1. OneMatchPerTick /\ StaleMatchOnlyIfDisturbed
    BY DEF Walk, MatchesSound
  <2>2. CASE ~fires
    BY <1>4, <1>9, <2>1, <2>2 DEF MatchesSound, OneMatchPerTick, StaleMatchOnlyIfDisturbed
  <2>3. CASE fires
    <3>1. \A m \in 1..Len(matches) : matches[m][1] # id
      BY <1>6 DEF Matched
    <3>2. \A m \in 1..Len(matches') :
            \/ m \in 1..Len(matches) /\ matches'[m] = matches[m]
            \/ m = Len(matches) + 1 /\ matches'[m][1] = id /\ matches'[m][2] = threshold
      BY <1>9, <2>3
    <3>3. OneMatchPerTick'
      <4>1. SUFFICES ASSUME NEW i \in 1..Len(matches'), NEW j \in 1..Len(matches'),
                            matches'[i][1] = matches'[j][1]
                     PROVE  i = j
        BY DEF OneMatchPerTick
      <4>2. QED
        BY <2>1, <3>1, <3>2, <4>1 DEF OneMatchPerTick
    <3>4. StaleMatchOnlyIfDisturbed'
      <4>1. SUFFICES ASSUME NEW i \in 1..Len(matches'), matches'[i][1] \notin disturbed
                     PROVE  /\ conditions[matches'[i][1]] # None
                            /\ conditions[matches'[i][1]].threshold = matches'[i][2]
        BY <1>4 DEF StaleMatchOnlyIfDisturbed
      <4>2. QED
        BY <1>6, <2>1, <3>2, <4>1 DEF StaleMatchOnlyIfDisturbed
    <3>5. QED
      BY <3>3, <3>4 DEF MatchesSound
  <2>4. QED
    BY <2>2, <2>3
<1>16. QED
  BY <1>11, <1>12, <1>13, <1>14, <1>15 DEF Walk

-----------------------------------------------------------------------------
(* Nothing has fired at first.                                             *)
LEMMA FiringInit == Init => Firing
<1> SUFFICES ASSUME Init PROVE Firing
  OBVIOUS
<1>1. \A id \in Ids : conditions[id] = None
  BY DEF Init
<1>2. FiringTypes
  BY DEF Init, FiringTypes
<1>3. LastIsLatest /\ CooldownSpacing
  BY <1>1 DEF LastIsLatest, CooldownSpacing
<1>4. QED
  BY <1>2, <1>3 DEF Firing

(* What leaves the conditions and the times alone keeps their relation.    *)
LEMMA SameFiring ==
  ASSUME Firing, UNCHANGED <<conditions, last, fired>>
  PROVE  Firing'
BY DEF Firing, FiringTypes, LastIsLatest, CooldownSpacing

(* A loaded condition starts anew: no match, no last_triggered_us.         *)
LEMMA InsertFiring ==
  ASSUME MapTypes, Firing, NEW id \in Ids, NEW config \in Configs, InsertCondition(id, config)
  PROVE  Firing'
<1>1. /\ conditions' = [conditions EXCEPT ![id] = config]
      /\ last' = [last EXCEPT ![id] = None]
      /\ fired' = [fired EXCEPT ![id] = {}]
  BY DEF InsertCondition
<1>2. FiringTypes'
  BY <1>1 DEF Firing, FiringTypes
<1>3. /\ \A x \in Ids : x # id => /\ conditions'[x] = conditions[x] /\ last'[x] = last[x]
                                  /\ fired'[x] = fired[x]
      /\ last'[id] = None /\ fired'[id] = {}
  BY <1>1 DEF MapTypes, Firing, FiringTypes
<1>4. LastIsLatest'
  BY <1>3 DEF Firing, LastIsLatest
<1>5. CooldownSpacing'
  BY <1>3 DEF Firing, CooldownSpacing
<1>6. QED
  BY <1>2, <1>4, <1>5 DEF Firing

(* Removing a condition forgets the time it last fired.                    *)
LEMMA RemoveFiring ==
  ASSUME MapTypes, Firing, NEW id \in Ids, NEW new, RemoveCondition(id, new)
  PROVE  Firing'
<1>1. /\ conditions' = [conditions EXCEPT ![id] = None]
      /\ last' = [last EXCEPT ![id] = None]
      /\ fired' = fired
  BY DEF RemoveCondition
<1>2. FiringTypes'
  BY <1>1 DEF Firing, FiringTypes
<1>3. /\ \A x \in Ids : x # id => conditions'[x] = conditions[x] /\ last'[x] = last[x]
      /\ conditions'[id] = None
  BY <1>1 DEF MapTypes, Firing, FiringTypes
<1>4. LastIsLatest'
  BY <1>1, <1>3 DEF Firing, LastIsLatest
<1>5. CooldownSpacing'
  BY <1>1, <1>3 DEF Firing, CooldownSpacing
<1>6. QED
  BY <1>2, <1>4, <1>5 DEF Firing

(* A condition that cooled down, or has not matched yet, matches now: no   *)
(* earlier match is nearer than its cooldown, because none is later than   *)
(* last_triggered_us.                                                      *)
LEMMA ExamineFiring ==
  ASSUME MapTypes, Walk, Firing, NEW id \in Ids, ExamineCrossed(id)
  PROVE  Firing'
<1>1. PICK threshold, value, now :
        threshold = evaluation.crossed[1].value /\ value = evaluation.value /\ now = evaluation.now
  OBVIOUS
<1>2. PICK cooled \in BOOLEAN :
        cooled <=> Fires(id, threshold, value, now) /\ conditions[id].cooldown # None
  OBVIOUS
<1>3. /\ Evaluating
      /\ last'  = IF cooled THEN [last EXCEPT ![id] = now] ELSE last
      /\ fired' = IF cooled THEN [fired EXCEPT ![id] = fired[id] \cup {now}] ELSE fired
      /\ UNCHANGED conditions
  BY <1>1, <1>2 DEF ExamineCrossed
<1>4. now \in Times /\ now \in Nat /\ now # None
  <2>1. now \in Times
    BY <1>1, <1>3 DEF Walk, EvaluationFits
  <2>2. QED
    BY <2>1, StrategyAssumption, NoneAssumption
<1>5. CASE ~cooled
  BY <1>3, <1>5, SameFiring
<1>6. CASE cooled
  <2>1. FiringTypes'
    BY <1>3, <1>4, <1>6 DEF Firing, FiringTypes
  <2>2. /\ \A x \in Ids : x # id => last'[x] = last[x] /\ fired'[x] = fired[x]
        /\ last'[id] = now /\ fired'[id] = fired[id] \cup {now}
    BY <1>3, <1>6 DEF Firing, FiringTypes
  <2>3. PICK cd : cd = conditions[id].cooldown /\ cd \in Nat
    <3>1. conditions[id] \in Configs
      BY <1>2, <1>6 DEF Fires, MapTypes
    <3>2. QED
      BY <1>2, <1>6, <3>1, ConfigFields
  <2>4. conditions[id] # None /\ cd # None /\ ~Cooling(id, now)
    BY <1>2, <1>6, <2>3 DEF Fires
  <2>5. ASSUME cd > 0, NEW t \in fired[id] PROVE t \in Nat /\ t < now /\ now - t >= cd
    <3>1. t \in Nat
      BY StrategyAssumption DEF Firing, FiringTypes
    <3>2. last[id] # None /\ t <= last[id] /\ last[id] \in Nat
      BY <2>3, <2>4, <2>5, StrategyAssumption DEF Firing, FiringTypes, LastIsLatest
    <3>3. ~((IF now >= last[id] THEN now - last[id] ELSE 0) < cd)
      BY <2>3, <2>4, <3>2 DEF Cooling
    <3>4. QED
      BY <1>4, <2>3, <2>5, <3>1, <3>2, <3>3
  <2>6. \A t \in fired[id] : t \in Nat
    BY StrategyAssumption DEF Firing, FiringTypes
  <2>7. LastIsLatest'
    <3>1. SUFFICES ASSUME NEW x \in Ids, conditions[x] # None, conditions[x].cooldown # None
                   PROVE  /\ last'[x] = None => fired'[x] = {}
                          /\ last'[x] # None /\ conditions[x].cooldown > 0 =>
                               \A t \in fired'[x] : t <= last'[x]
      BY <1>3 DEF LastIsLatest
    <3>2. CASE x # id
      BY <2>2, <3>1, <3>2 DEF Firing, LastIsLatest
    <3>3. CASE x = id
      BY <1>4, <2>2, <2>3, <2>5, <2>6, <3>3
    <3>4. QED
      BY <3>2, <3>3
  <2>8. CooldownSpacing'
    <3>1. SUFFICES ASSUME NEW x \in Ids, conditions[x] # None, conditions[x].cooldown # None,
                          NEW t1 \in fired'[x], NEW t2 \in fired'[x], t1 < t2
                   PROVE  t2 - t1 >= conditions[x].cooldown
      BY <1>3 DEF CooldownSpacing
    <3>2. CASE x # id \/ (t1 \in fired[x] /\ t2 \in fired[x])
      BY <2>2, <3>1, <3>2 DEF Firing, CooldownSpacing
    <3>3. CASE x = id /\ cd = 0
      BY <1>4, <2>2, <2>3, <2>6, <3>1, <3>3
    <3>4. CASE x = id /\ cd > 0 /\ ~(t1 \in fired[x] /\ t2 \in fired[x])
      <4>1. (t1 = now \/ t1 \in fired[id]) /\ (t2 = now \/ t2 \in fired[id])
        BY <2>2, <3>4
      <4>2. t1 # now
        BY <1>4, <2>5, <3>1, <3>4, <4>1
      <4>3. t1 \in fired[id] /\ t2 = now
        BY <3>4, <4>1, <4>2
      <4>4. QED
        BY <2>3, <2>5, <3>4, <4>3
    <3>5. QED
      BY <2>3, <3>2, <3>3, <3>4
  <2>9. QED
    BY <2>1, <2>7, <2>8 DEF Firing
<1>7. QED
  BY <1>5, <1>6

-----------------------------------------------------------------------------
(***************************************************************************)
(* The inductive invariant: the maps agree, the evaluate under way agrees  *)
(* with them, and so do the times.                                         *)
(***************************************************************************)
IInv == Maps /\ Walk /\ Firing

(* The initial state satisfies the invariant.                              *)
LEMMA InitIInv == Init => IInv
BY MapsInit, WalkInit, FiringInit DEF IInv

(* Inserting a condition preserves the invariant.                          *)
LEMMA InsertIInv ==
  ASSUME IInv, NEW id \in Ids, NEW config \in Configs, config.threshold # None,
         conditions[id] = None, call.step = "idle" \/ (call.step = "readd" /\ call.id = id),
         InsertCondition(id, config)
  PROVE  IInv'
<1>1. Maps'
  BY InsertMaps DEF IInv
<1>2. Firing'
  BY InsertFiring DEF IInv, Maps
<1>3. Walk'
  <2>1. /\ conditions' = [conditions EXCEPT ![id] = config]
        /\ last' = [last EXCEPT ![id] = None]
        /\ disturbed' = disturbed \cup {id} /\ UNCHANGED evaluator
    BY DEF InsertCondition
  <2>2. \A x \in Ids \ disturbed' : conditions'[x] = conditions[x] /\ last'[x] = last[x]
    BY <2>1 DEF IInv, Maps, MapTypes, Firing, FiringTypes
  <2>3. disturbed \subseteq disturbed' /\ disturbed' \subseteq Ids /\ Walk
    BY <2>1 DEF IInv, Walk, WalkTypes
  <2>4. QED
    BY <2>1, <2>2, <2>3, CallWalk
<1>4. QED
  BY <1>1, <1>2, <1>3 DEF IInv

(* Removing a condition preserves the invariant.                           *)
LEMMA RemoveIInv ==
  ASSUME IInv, NEW id \in Ids, NEW new \in Configs \cup {None}, RemoveCondition(id, new)
  PROVE  IInv'
<1>1. Maps'
  BY RemoveMaps DEF IInv
<1>2. Firing'
  BY RemoveFiring DEF IInv, Maps
<1>3. Walk'
  <2>1. /\ conditions' = [conditions EXCEPT ![id] = None]
        /\ last' = [last EXCEPT ![id] = None]
        /\ disturbed' = disturbed \cup {id} /\ UNCHANGED evaluator
    BY DEF RemoveCondition
  <2>2. \A x \in Ids \ disturbed' : conditions'[x] = conditions[x] /\ last'[x] = last[x]
    BY <2>1 DEF IInv, Maps, MapTypes, Firing, FiringTypes
  <2>3. disturbed \subseteq disturbed' /\ disturbed' \subseteq Ids /\ Walk
    BY <2>1 DEF IInv, Walk, WalkTypes
  <2>4. QED
    BY <2>1, <2>2, <2>3, CallWalk
<1>4. QED
  BY <1>1, <1>2, <1>3 DEF IInv

(* The trees' half of a call touches no condition.                         *)
LEMMA TreeStepIInv ==
  ASSUME IInv, Maps', UNCHANGED <<conditions, last, fired, disturbed, evaluator>>
  PROVE  IInv'
<1>1. Walk'
  <2>1. disturbed \subseteq disturbed' /\ disturbed' \subseteq Ids /\ Walk
    BY DEF IInv, Walk, WalkTypes
  <2>2. QED
    BY <2>1, CallWalk
<1>2. Firing'
  BY SameFiring DEF IInv
<1>3. QED
  BY <1>1, <1>2 DEF IInv

(* Every step preserves the invariant.                                     *)
LEMMA NextIInv == IInv /\ [Next]_vars => IInv'
<1> SUFFICES ASSUME IInv, [Next]_vars PROVE IInv'
  OBVIOUS
<1>1. ASSUME NEW id \in Ids, NEW config \in Configs, AddCondition(id, config)
      PROVE  IInv'
  <2>1. /\ call.step = "idle" /\ conditions[id] = None /\ config.threshold # None
        /\ InsertCondition(id, config)
    BY <1>1 DEF AddCondition, NoCall
  <2>2. QED
    BY <2>1, InsertIInv
<1>2. ASSUME NEW id \in Ids, NEW new \in Configs \cup {None}, RemoveCondition(id, new)
      PROVE  IInv'
  BY <1>2, RemoveIInv
<1>3. CASE UnindexCondition
  <2>1. Maps'
    BY <1>3, UnindexMaps DEF IInv
  <2>2. UNCHANGED <<conditions, last, fired, disturbed, evaluator>>
    BY <1>3 DEF UnindexCondition
  <2>3. QED
    BY <2>1, <2>2, TreeStepIInv
<1>4. CASE ReaddCondition
  <2>1. call.step = "readd" /\ InsertCondition(call.id, call.new)
    BY <1>4 DEF ReaddCondition
  <2>2. /\ call.id \in Ids /\ call.new \in Configs /\ call.new.threshold # None
        /\ conditions[call.id] = None
    BY <2>1 DEF IInv, Maps, MapTypes, CallFits
  <2>3. PICK id, config : id = call.id /\ config = call.new
    OBVIOUS
  <2>4. id \in Ids /\ config \in Configs /\ InsertCondition(id, config)
    BY <2>1, <2>2, <2>3
  <2>5. QED
    BY <2>1, <2>2, <2>3, <2>4, InsertIInv
<1>5. CASE IndexCondition
  <2>1. Maps'
    BY <1>5, IndexMaps DEF IInv
  <2>2. UNCHANGED <<conditions, last, fired, disturbed, evaluator>>
    BY <1>5 DEF IndexCondition
  <2>3. QED
    BY <2>1, <2>2, TreeStepIInv
<1>6. ASSUME NEW symbol \in Symbols, NEW price \in Prices, NEW now \in Times,
             BeginEvaluate(symbol, price, now)
      PROVE  IInv'
  <2>1. Maps' /\ Walk'
    BY <1>6, BeginMaps, BeginWalk DEF IInv
  <2>2. UNCHANGED <<conditions, last, fired>>
    BY <1>6 DEF BeginEvaluate
  <2>3. Firing'
    BY <2>2, SameFiring DEF IInv
  <2>4. QED
    BY <2>1, <2>3 DEF IInv
<1>7. ASSUME NEW id \in Ids, ExamineCrossed(id)
      PROVE  IInv'
  <2>1. Maps'
    BY <1>7, ExamineMaps DEF IInv
  <2>2. Walk'
    BY <1>7, ExamineWalk DEF IInv, Firing
  <2>3. Firing'
    BY <1>7, ExamineFiring DEF IInv, Maps
  <2>4. QED
    BY <2>1, <2>2, <2>3 DEF IInv
<1>8. CASE UNCHANGED vars
  <2>1. UNCHANGED <<conditions, last, trees, count, call, fired, disturbed, evaluator>>
    BY <1>8 DEF vars, store
  <2>2. Maps'
    <3>1. \A x : InTrees(x)' = InTrees(x)
      BY <2>1 DEF InTrees
    <3>2. MapTypes' /\ CallFits'
      BY <2>1 DEF IInv, Maps, MapTypes, CallFits
    <3>3. Mirrored' /\ Counted' /\ TreesShaped'
      BY <2>1, <3>1, SameIndexed DEF IInv, Maps
    <3>4. QED
      BY <3>2, <3>3 DEF Maps
  <2>3. QED
    BY <2>1, <2>2, TreeStepIInv
<1>9. QED
  BY <1>1, <1>2, <1>3, <1>4, <1>5, <1>6, <1>7, <1>8 DEF Next

(* The invariant holds in every reachable state.                           *)
LEMMA SpecIInv == Spec => []IInv
<1>1. Init => IInv
  BY InitIInv
<1>2. IInv /\ [Next]_vars => IInv'
  BY NextIInv
<1>3. QED
  BY <1>1, <1>2, PTL DEF Spec

-----------------------------------------------------------------------------
(***************************************************************************)
(* The theorems.                                                           *)
(***************************************************************************)
(* Between any two steps of add_condition, remove_condition and            *)
(* update_condition, and of an evaluate that runs meanwhile, the trees     *)
(* hold each condition once, at its own symbol and threshold, and no       *)
(* other; condition_count is their number when no call is under way.       *)
THEOREM SpecConsistent == Spec => []Consistent
<1>1. IInv => Consistent
  <2> SUFFICES ASSUME IInv PROVE Consistent
    OBVIOUS
  <2>1. TypeOK
    <3>1. count \in 0..Cardinality(Ids)
      <4>1. {id \in Ids : InTrees(id) # None} \in SUBSET Ids
        OBVIOUS
      <4>2. Cardinality({id \in Ids : InTrees(id) # None}) \in 0..Cardinality(Ids)
        BY <4>1, IndexedIsFinite
      <4>3. QED
        BY <4>2 DEF IInv, Maps, Counted
    <3>2. QED
      BY <3>1 DEF IInv, Maps, MapTypes, Walk, WalkTypes, Firing, FiringTypes, TypeOK
  <2>2. TreesMirrorConditions
    <3>1. \A c \in Configs : c.threshold \in Int \cup {None}
      BY ConfigFields
    <3>2. \A v \in {c.threshold : c \in Configs} \ {None} : v \in Int
      BY <3>1
    <3>3. QED
      BY <3>2 DEF IInv, Maps, Mirrored, TreesMirrorConditions
  <2>3. CountIsConditions
    <3>1. SUFFICES ASSUME call = NoCall
                   PROVE  count = Cardinality({id \in Ids : conditions[id] # None})
      BY DEF CountIsConditions
    <3>2. \A id \in Ids : InTrees(id) = conditions[id]
      BY <3>1 DEF InTrees, NoCall
    <3>3. {id \in Ids : InTrees(id) # None} = {id \in Ids : conditions[id] # None}
      BY <3>2
    <3>4. QED
      BY <3>3 DEF IInv, Maps, Counted
  <2>4. QED
    BY <2>1, <2>2, <2>3 DEF Consistent
<1>2. QED
  BY <1>1, SpecIInv, PTL

(* When evaluate returns, a condition that no call touched meanwhile has   *)
(* matched exactly when its tick, taken alone, matches it: what other      *)
(* calls do to the maps neither hides its match nor adds one.              *)
THEOREM SpecUndisturbedExact == Spec => []UndisturbedExact
<1>1. IInv => UndisturbedExact
  <2> SUFFICES ASSUME IInv, ~Evaluating, NEW id \in Ids \ disturbed
               PROVE  id \in expected <=> \E i \in 1..Len(matches) : matches[i][1] = id
    BY DEF UndisturbedExact
  <2>1. evaluation.crossed = <<>>
    BY DEF IInv, Walk, EvaluationFits
  <2>2. CrossedIds(evaluation.crossed, evaluation.value, evaluation.now) = {}
    BY <2>1 DEF CrossedIds
  <2>3. QED
    BY <2>2 DEF IInv, Walk, ExactSoFar, Matched
<1>2. QED
  BY <1>1, SpecIInv, PTL

(* One evaluate matches a condition at most once, even when the condition  *)
(* moves to another threshold of the same walk meanwhile, and a match of a *)
(* condition no call touched carries the threshold that condition has.     *)
THEOREM SpecMatchesSound == Spec => []MatchesSound
<1>1. IInv => MatchesSound
  BY DEF IInv, Walk
<1>2. QED
  BY <1>1, SpecIInv, PTL

(* Between two loads of a condition its matches are at least its cooldown  *)
(* apart in feed time, in whatever order the feed's timestamps come.       *)
THEOREM SpecCooldownSpacing == Spec => []CooldownSpacing
<1>1. IInv => CooldownSpacing
  BY DEF IInv, Firing
<1>2. QED
  BY <1>1, SpecIInv, PTL

(* A cross_above match comes from a rising price, except that a price      *)
(* which falls onto the threshold, or rests there, fires it too.           *)
THEOREM SpecCrossAboveRisesOrLands == Spec => CrossAboveRisesOrLands
<1> DEFINE Step ==
      \A id \in Ids :
        /\ ExamineCrossed(id) /\ Len(matches') > Len(matches)
        /\ conditions[id].operator = "cross_above"
        => \/ evaluation.from < evaluation.value
           \/ evaluation.crossed[1].value = evaluation.value
<1>1. IInv /\ [Next]_vars => [Step]_vars
  <2> SUFFICES ASSUME IInv, NEW id \in Ids, ExamineCrossed(id), Len(matches') > Len(matches),
                      conditions[id].operator = "cross_above"
               PROVE  \/ evaluation.from < evaluation.value
                      \/ evaluation.crossed[1].value = evaluation.value
    OBVIOUS
  <2>1. PICK threshold, value, now :
          threshold = evaluation.crossed[1].value /\ value = evaluation.value /\ now = evaluation.now
    OBVIOUS
  <2>2. Len(matches) \in Nat
    BY DEF IInv, Walk, WalkTypes
  <2>3. Fires(id, threshold, value, now)
    BY <2>1, <2>2 DEF ExamineCrossed
  <2>4. value >= threshold
    BY <2>3 DEF Fires, DirectionOk
  <2>5. /\ evaluation.crossed \in Seq(Level) /\ value \in Int
        /\ evaluation.crossed # <<>> /\ evaluation.from \in Int
    BY <2>1 DEF ExamineCrossed, IInv, Walk, WalkTypes, EvaluationFits
  <2>6. 1 \in 1..Len(evaluation.crossed) /\ threshold \in Int
    BY <2>1, <2>5, EntryFields
  <2>7. Between(evaluation.from, threshold, value)
    BY <2>1, <2>6 DEF IInv, Walk, EvaluationFits
  <2>8. QED
    BY <2>1, <2>4, <2>5, <2>6, <2>7 DEF Between
<1>2. QED
  BY <1>1, SpecIInv, PTL DEF Spec, CrossAboveRisesOrLands

=============================================================================
