---------------------------- MODULE SentinelTree ----------------------------
(***************************************************************************)
(* The per-symbol threshold array of the threshold_crossing strategy       *)
(* (libs/engine/engine-core/src/condition/threshold_crossing.rs), as       *)
(* operators over a record, so that the single-tree machine (ThresholdTree)*)
(* and the concurrent strategy (ThresholdStrategy) use the same text.      *)
(*                                                                         *)
(* Abstractions.  Prices and thresholds are integers: values of one feed   *)
(* that differ do so by more than f64::EPSILON, so "closer than EPSILON" is *)
(* equality, and the third branch of recompute_sentinels (an entry below   *)
(* the price by at most EPSILON) is not taken.  Indices count from 1.      *)
(* The condition ids of a level form a bag, [Ids -> Nat]: their order only *)
(* orders matches of one level, their multiplicity is what duplicates are  *)
(* about.                                                                  *)
(***************************************************************************)
EXTENDS Integers, Sequences, SequencesExt

CONSTANTS Ids,   \* condition ids
          None   \* Rust's None, in last_price, upper_idx and lower_idx

ASSUME NoneAssumption == None \notin Int

Level == [value : Int, ids : [Ids -> Nat]]

Tree == [entries    : Seq(Level),
         last_price : Int \cup {None},
         upper_idx  : (Nat \ {0}) \cup {None},
         lower_idx  : (Nat \ {0}) \cup {None}]

NewTree == [entries |-> <<>>, last_price |-> None,
            upper_idx |-> None, lower_idx |-> None]

NoIds == [id \in Ids |-> 0]

(***************************************************************************)
(* slice::partition_point for the predicates "value < x" and "value <= x": *)
(* how many leading entries satisfy it.                                    *)
(***************************************************************************)
CountBelow(e, x) ==
  CHOOSE k \in 0..Len(e) : \A i \in 1..Len(e) : e[i].value < x <=> i <= k

CountUpTo(e, x) ==
  CHOOSE k \in 0..Len(e) : \A i \in 1..Len(e) : e[i].value <= x <=> i <= k

-----------------------------------------------------------------------------
(***************************************************************************)
(* recompute_sentinels: the nearest levels strictly above and strictly     *)
(* below the price, for an armed tree.                                     *)
(***************************************************************************)
RecomputeSentinels(t) ==
  IF t.last_price = None THEN t
  ELSE LET below == CountBelow(t.entries, t.last_price)
           upto  == CountUpTo(t.entries, t.last_price)
       IN  [t EXCEPT !.upper_idx = IF upto < Len(t.entries) THEN upto + 1 ELSE None,
                     !.lower_idx = IF below > 0 THEN below ELSE None]

(***************************************************************************)
(* add_threshold: join the level with this value, or insert a new level;   *)
(* remove_threshold: every copy of the id leaves the level, and an emptied *)
(* level leaves the array.  Both then recompute the sentinels.             *)
(***************************************************************************)
HasLevelAt(e, pos, v) == pos <= Len(e) /\ e[pos].value = v

WithLevel(e, v, id) ==
  LET pos == CountBelow(e, v) + 1
  IN  IF HasLevelAt(e, pos, v)
      THEN [e EXCEPT ![pos].ids[id] = @ + 1]
      ELSE InsertAt(e, pos, [value |-> v, ids |-> [NoIds EXCEPT ![id] = 1]])

WithoutLevel(e, v, id) ==
  LET pos  == CountBelow(e, v) + 1
      rest == [e[pos].ids EXCEPT ![id] = 0]
  IN  IF ~HasLevelAt(e, pos, v) THEN e
      ELSE IF rest = NoIds THEN RemoveAt(e, pos)
      ELSE [e EXCEPT ![pos].ids = rest]

AddThreshold(t, v, id) ==
  RecomputeSentinels([t EXCEPT !.entries = WithLevel(@, v, id)])

RemoveWithoutRecompute(t, v, id) ==   \* mutant: the sentinels stay where they were
  [t EXCEPT !.entries = WithoutLevel(@, v, id)]

RemoveThreshold(t, v, id) ==
  RecomputeSentinels([t EXCEPT !.entries = WithoutLevel(@, v, id)])

-----------------------------------------------------------------------------
(***************************************************************************)
(* evaluate_drift_sentinel.  UpStop and DownStop are where the two walks   *)
(* stop; the walked levels are the ones matched.                           *)
(***************************************************************************)
CrossedUpper(t, price) == t.upper_idx # None /\ price >= t.entries[t.upper_idx].value

CrossedLower(t, price) == t.lower_idx # None /\ price <= t.entries[t.lower_idx].value

UpStop(t, price) ==
  CHOOSE k \in t.upper_idx..(Len(t.entries) + 1) :
    /\ \A i \in t.upper_idx..(k - 1) : t.entries[i].value <= price
    /\ k <= Len(t.entries) => t.entries[k].value > price

DownStopStrict(t, price) ==   \* mutant: the walk stops at a level equal to the price
  CHOOSE k \in 0..t.lower_idx :
    /\ \A i \in (k + 1)..t.lower_idx : t.entries[i].value > price
    /\ k > 0 => t.entries[k].value <= price

DownStop(t, price) ==
  CHOOSE k \in 0..t.lower_idx :
    /\ \A i \in (k + 1)..t.lower_idx : t.entries[i].value >= price
    /\ k > 0 => t.entries[k].value < price

(* The branch the code takes for an armed tree.                            *)
WalksUp(t, price)   == /\ CrossedUpper(t, price) \/ CrossedLower(t, price)
                       /\ price > t.last_price
                       /\ t.upper_idx # None

WalksDown(t, price) == /\ CrossedUpper(t, price) \/ CrossedLower(t, price)
                       /\ price <= t.last_price
                       /\ t.lower_idx # None

DriftWalkedOneMore(t, price) ==   \* mutant: the up walk returns the level it stops at
  IF t.last_price = None THEN {}
  ELSE IF WalksUp(t, price)
  THEN {i \in t.upper_idx..UpStop(t, price) : i <= Len(t.entries)}
  ELSE IF WalksDown(t, price) THEN (DownStop(t, price) + 1)..t.lower_idx
  ELSE {}

DriftWalked(t, price) ==
  IF t.last_price = None THEN {}
  ELSE IF WalksUp(t, price) THEN t.upper_idx..(UpStop(t, price) - 1)
  ELSE IF WalksDown(t, price) THEN (DownStop(t, price) + 1)..t.lower_idx
  ELSE {}

DriftAfter(t, price) ==
  IF t.last_price = None THEN RecomputeSentinels([t EXCEPT !.last_price = price])
  ELSE IF WalksUp(t, price)
  THEN LET k == UpStop(t, price)
       IN  [t EXCEPT !.last_price = price,
                     !.upper_idx  = IF k <= Len(t.entries) THEN k ELSE None,
                     !.lower_idx  = IF k > 1 THEN k - 1 ELSE None]
  ELSE IF WalksDown(t, price)
  THEN LET k == DownStop(t, price)
       IN  [t EXCEPT !.last_price = price,
                     !.lower_idx  = IF k = 0 THEN None ELSE k,
                     !.upper_idx  = k + 1]
  ELSE [t EXCEPT !.last_price = price]

-----------------------------------------------------------------------------
(***************************************************************************)
(* evaluate_binary_search: the levels in (old, new] going up, in           *)
(* [new, old) going down.  The sentinels are not touched.                  *)
(***************************************************************************)
BinaryWalkedOpen(t, price) ==   \* mutant: a level equal to the new price is left out
  IF t.last_price = None THEN {}
  ELSE IF price > t.last_price
  THEN (CountUpTo(t.entries, t.last_price) + 1)..CountBelow(t.entries, price)
  ELSE (CountUpTo(t.entries, price) + 1)..CountBelow(t.entries, t.last_price)

BinaryWalked(t, price) ==
  IF t.last_price = None THEN {}
  ELSE IF price > t.last_price
  THEN (CountUpTo(t.entries, t.last_price) + 1)..CountUpTo(t.entries, price)
  ELSE (CountBelow(t.entries, price) + 1)..CountBelow(t.entries, t.last_price)

BinaryAfter(t, price) == [t EXCEPT !.last_price = price]

=============================================================================
