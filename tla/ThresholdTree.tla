---------------------------- MODULE ThresholdTree ---------------------------
(***************************************************************************)
(* One symbol's threshold array under its RwLock: every operation takes    *)
(* the write lock (trees.entry(..).write(), tree_lock.write()), so each is *)
(* one step.  Thresholds come and go while the price moves.                *)
(***************************************************************************)
EXTENDS SentinelTree

CONSTANTS Thresholds,   \* threshold values of conditions
          Prices,       \* tick values
          Algorithms,   \* of ThresholdAlgorithm, the ones a tree may be made with
          MaxCopies     \* bound: copies of one id in one level

ASSUME ParameterAssumption ==
  /\ Thresholds \subseteq Int
  /\ Prices \subseteq Int
  /\ Algorithms \subseteq {"drift_sentinel", "binary_search"}
  /\ MaxCopies \in Nat \ {0}

VARIABLES algorithm, \* the ThresholdTree's algorithm
          tree,      \* its other fields
          matched    \* threshold values the latest operation returned as crossed

vars == <<algorithm, tree, matched>>

Init == algorithm \in Algorithms /\ tree = NewTree /\ matched = {}

-----------------------------------------------------------------------------
AddLevel(v, id) ==
  /\ \A i \in 1..Len(tree.entries) :
       tree.entries[i].value = v => tree.entries[i].ids[id] < MaxCopies
  /\ tree' = AddThreshold(tree, v, id)
  /\ matched' = {}
  /\ UNCHANGED algorithm

RemoveLevel(v, id) ==
  /\ tree' = RemoveThreshold(tree, v, id)
  /\ matched' = {}
  /\ UNCHANGED algorithm

Walked(price) ==
  IF algorithm = "drift_sentinel" THEN DriftWalked(tree, price)
                                  ELSE BinaryWalked(tree, price)

Evaluate(price) ==
  /\ tree' = IF algorithm = "drift_sentinel" THEN DriftAfter(tree, price)
                                             ELSE BinaryAfter(tree, price)
  /\ matched' = {tree.entries[i].value : i \in Walked(price)}
  /\ UNCHANGED algorithm

Next ==
  \/ \E v \in Thresholds, id \in Ids : AddLevel(v, id)
  \/ \E v \in Thresholds, id \in Ids : RemoveLevel(v, id)
  \/ \E price \in Prices : Evaluate(price)

Spec == Init /\ [][Next]_vars

-----------------------------------------------------------------------------
(***************************************************************************)
(* Properties                                                              *)
(***************************************************************************)
Levels == 1..Len(tree.entries)

ValuesOf(I) == {tree.entries[i].value : i \in I}

(* Levels a move of the price crosses, and levels it touches at all.       *)
Crossed(from, to) ==
  IF from = None \/ to = None THEN {}
  ELSE {v \in ValuesOf(Levels) : (from < v /\ v <= to) \/ (to <= v /\ v < from)}

Touched(from, to) ==
  IF from = None \/ to = None THEN {}
  ELSE {v \in ValuesOf(Levels) : (from <= v /\ v <= to) \/ (to <= v /\ v <= from)}

(* Levels guarded by a sentinel, and the gap between the sentinels.        *)
AboveGap == {i \in Levels : tree.upper_idx # None /\ i >= tree.upper_idx}

BelowGap == {i \in Levels : tree.lower_idx # None /\ i <= tree.lower_idx}

Gap == Levels \ (AboveGap \cup BelowGap)

(* The tree is a ThresholdTree over the configured ids.                    *)
TypeOK == algorithm \in Algorithms /\ tree \in Tree /\ matched \subseteq Int

(* add_threshold and remove_threshold keep the array strictly ascending,   *)
(* one entry per value and none empty, whatever the order of calls: the    *)
(* premise of every partition_point and of both walks.                     *)
WellFormed ==
  /\ \A i, j \in Levels : i < j => tree.entries[i].value < tree.entries[j].value
  /\ \A i \in Levels : tree.entries[i].ids # NoIds

(* Every unchecked slice index of evaluate_drift_sentinel is in bounds: in *)
(* particular upper_idx = idx + 1, which the down walk stores without      *)
(* looking, only ever names an existing entry, so no later tick panics.    *)
(* An unarmed tree has no sentinels.                                       *)
IndexInBounds ==
  /\ tree.last_price = None => tree.upper_idx = None /\ tree.lower_idx = None
  /\ tree.upper_idx # None => tree.upper_idx \in Levels
  /\ tree.lower_idx # None => tree.lower_idx \in Levels

(* The carried indices still bracket the price: from the upper sentinel on *)
(* no level is below it, up to the lower sentinel none is above it, the    *)
(* sentinels do not overlap, and at most one level lies in the gap between *)
(* them, where no tick looks; with such a level both bounds are strict.    *)
Bracketed ==
  algorithm = "drift_sentinel" /\ tree.last_price # None =>
    /\ \A i \in AboveGap : tree.entries[i].value >= tree.last_price
    /\ \A i \in BelowGap : tree.entries[i].value <= tree.last_price
    /\ AboveGap \cap BelowGap = {}
    /\ \A i, j \in Gap : i = j
    /\ Gap # {} => /\ \A i \in AboveGap : tree.entries[i].value > tree.last_price
                   /\ \A i \in BelowGap : tree.entries[i].value < tree.last_price

(* The tree keeps all of this under every order of adds, removes and ticks.*)
TreeConsistent == TypeOK /\ WellFormed /\ IndexInBounds /\ Bracketed

(* A tick returns every level the price crossed since the previous tick,   *)
(* except at most the one level in the gap: however the sentinels were     *)
(* carried over earlier ticks, no other alert level is jumped over.        *)
MissedOnlyInGap ==
  [][Crossed(tree.last_price, tree'.last_price) \ matched' \subseteq ValuesOf(Gap)]_vars

(* A tick returns no level outside the closed interval between the old and *)
(* the new price; adding and removing thresholds returns none.             *)
NoSpuriousMatch ==
  [][matched' \subseteq Touched(tree.last_price, tree'.last_price)]_vars

(* A tick returns exactly the levels crossed: always with the binary       *)
(* search; with the drift sentinel whenever no level is in the gap and the *)
(* previous price was not exactly on one.                                  *)
Clear ==
  algorithm = "drift_sentinel" =>
    Gap = {} /\ tree.last_price \notin ValuesOf(Levels)

ExactCrossing ==
  [][\A price \in Prices : Clear /\ Evaluate(price) =>
       matched' = Crossed(tree.last_price, price)]_vars

(* "collecting all matched thresholds" (threshold_crossing.rs:32): a tick  *)
(* returns every level crossed.  A level equal to the price when the       *)
(* sentinels are recomputed is in the gap, and later crossings of it are   *)
(* not seen.                                                               *)
NoMissedCrossing ==
  [][Crossed(tree.last_price, tree'.last_price) \subseteq matched']_vars

=============================================================================
