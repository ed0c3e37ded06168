------------------------- MODULE ThresholdStrategy --------------------------
(***************************************************************************)
(* ThresholdCrossingStrategy                                               *)
(* (libs/engine/engine-core/src/condition/threshold_crossing.rs): the      *)
(* conditions map and the per-symbol trees, both DashMaps, changed by one  *)
(* caller (the config loader, or the API) and read by one evaluator.       *)
(*                                                                         *)
(* The two maps are locked one after the other, never together, so a call  *)
(* has a step per map: add_condition inserts into conditions, then into    *)
(* the tree; remove_condition the same way round.  evaluate holds the read *)
(* guard of the tree's shard to its end (trees.get), which keeps           *)
(* trees.entry(..) of the same symbol out until it returns, and nothing    *)
(* else: conditions change, and thresholds leave the tree, between the     *)
(* crossing and the look-up of a crossed id.                               *)
(*                                                                         *)
(* In the runtime the config loader and the evaluator are tasks of their  *)
(* own, and the loader's known_ids keep it from adding an id twice.        *)
(***************************************************************************)
EXTENDS SentinelTree, FiniteSets

CONSTANTS Symbols,
          Configs,    \* what a condition may be configured as
          Prices,     \* tick values
          Times       \* tick timestamps: the feed sets them, in any order

Operators == {"cross_above", "cross_below", "equal", "not_equal"}

Config == [symbol : Symbols, threshold : Int \cup {None},
           operator : Operators, cooldown : Nat \cup {None}]

ASSUME StrategyAssumption ==
  /\ Configs \subseteq Config
  /\ Prices \subseteq Int /\ Times \subseteq Nat
  /\ IsFiniteSet(Ids)
  /\ None \notin Configs /\ None \notin Tree

VARIABLES conditions,   \* id -> its config, or None
          last,         \* id -> last_triggered_us of its stored condition
          trees,        \* symbol -> its tree, or None
          count,        \* condition_count
          call,         \* the add, remove or update under way
          evaluation,   \* the locals of the evaluate under way
          matches,      \* the matches it, or the last one, collected: <<id, threshold>>
          fired,        \* history: times id matched since it was last loaded
          expected,     \* history: ids an evaluate without interference matches
          disturbed     \* history: ids a call touched since the evaluate began

store == <<conditions, last, trees, count, call>>
evaluator == <<evaluation, matches, expected>>
vars == <<store, evaluator, fired, disturbed>>

NoCall == [step |-> "idle", id |-> None, old |-> None, new |-> None]

NoEvaluate == [symbol |-> None, from |-> None, value |-> 0, now |-> 0, crossed |-> <<>>]

Init ==
  /\ conditions = [id \in Ids |-> None]
  /\ last = [id \in Ids |-> None]
  /\ trees = [s \in Symbols |-> None]
  /\ count = 0
  /\ call = NoCall
  /\ evaluation = NoEvaluate
  /\ matches = <<>>
  /\ fired = [id \in Ids |-> {}]
  /\ expected = {}
  /\ disturbed = {}

Evaluating == evaluation # NoEvaluate

-----------------------------------------------------------------------------
(***************************************************************************)
(* add_condition, remove_condition, and update_condition, which is one     *)
(* after the other.  A config without a threshold is not added.            *)
(***************************************************************************)
(* conditions.insert: to_engine_condition gives no last_triggered_us.      *)
InsertCondition(id, config) ==
  /\ conditions' = [conditions EXCEPT ![id] = config]
  /\ last' = [last EXCEPT ![id] = None]
  /\ fired' = [fired EXCEPT ![id] = {}]
  /\ call' = [step |-> "index", id |-> id, old |-> None, new |-> config]
  /\ disturbed' = disturbed \cup {id}
  /\ UNCHANGED <<trees, count, evaluator>>

AddCondition(id, config) ==
  /\ call = NoCall
  /\ conditions[id] = None
  /\ config.threshold # None
  /\ InsertCondition(id, config)

(* conditions.remove.  new is the update's config, None for a remove.      *)
RemoveCondition(id, new) ==
  /\ call = NoCall
  /\ conditions[id] # None
  /\ conditions' = [conditions EXCEPT ![id] = None]
  /\ last' = [last EXCEPT ![id] = None]
  /\ call' = [step |-> "unindex", id |-> id, old |-> conditions[id], new |-> new]
  /\ disturbed' = disturbed \cup {id}
  /\ UNCHANGED <<trees, count, fired, evaluator>>

UnindexedAtNew(old, id) ==   \* mutant: the new config's threshold is looked up
  [trees EXCEPT ![old.symbol] =
     RemoveThreshold(@, IF call.new = None \/ call.new.threshold = None
                        THEN old.threshold ELSE call.new.threshold, id)]

UnindexedAtNewSymbol(old, id) ==   \* mutant: the new config's tree is looked up
  LET symbol == IF call.new = None THEN old.symbol ELSE call.new.symbol
  IN  IF trees[symbol] = None THEN trees
      ELSE [trees EXCEPT ![symbol] = RemoveThreshold(@, old.threshold, id)]

Unindexed(old, id) ==
  [trees EXCEPT ![old.symbol] = RemoveThreshold(@, old.threshold, id)]

CountAfterUnindex == count - 1

UnindexCondition ==
  /\ call.step = "unindex"
  /\ trees' = Unindexed(call.old, call.id)
  /\ count' = CountAfterUnindex
  /\ call' = IF call.new = None \/ call.new.threshold = None THEN NoCall
             ELSE [call EXCEPT !.step = "readd", !.old = None]
  /\ UNCHANGED <<conditions, last, fired, disturbed, evaluator>>

ReaddCondition ==
  /\ call.step = "readd"
  /\ InsertCondition(call.id, call.new)

Indexed(new, id) ==
  [trees EXCEPT ![new.symbol] = AddThreshold(IF @ = None THEN NewTree ELSE @, new.threshold, id)]

IndexedUnderLock == Evaluating => evaluation.symbol # call.new.symbol

IndexCondition ==
  /\ call.step = "index"
  /\ IndexedUnderLock
  /\ trees' = Indexed(call.new, call.id)
  /\ count' = count + 1
  /\ call' = NoCall
  /\ UNCHANGED <<conditions, last, fired, disturbed, evaluator>>

-----------------------------------------------------------------------------
(***************************************************************************)
(* evaluate: the tree's walk, then one crossed id at a time.               *)
(***************************************************************************)
WalkedLevels(t, price) ==
  IF DriftWalked(t, price) = {} THEN <<>>
  ELSE IF WalksUp(t, price)
  THEN SubSeq(t.entries, t.upper_idx, UpStop(t, price) - 1)
  ELSE Reverse(SubSeq(t.entries, DownStop(t, price) + 1, t.lower_idx))

DirectionAny(operator, value, threshold) ==   \* mutant: only the equal operators look at the value
  CASE operator = "equal"     -> value = threshold
    [] operator = "not_equal" -> value # threshold
    [] OTHER                  -> TRUE

DirectionOk(operator, value, threshold) ==
  CASE operator = "cross_above" -> value >= threshold
    [] operator = "cross_below" -> value <= threshold
    [] operator = "equal"       -> value = threshold
    [] operator = "not_equal"   -> value # threshold

(* saturating_sub: an earlier timestamp counts as no time passed.          *)
CoolingWrapping(id, now) ==   \* mutant: the subtraction wraps on an earlier timestamp
  /\ conditions[id].cooldown # None /\ last[id] # None
  /\ now >= last[id] /\ now - last[id] < conditions[id].cooldown

Cooling(id, now) ==
  /\ conditions[id].cooldown # None /\ last[id] # None
  /\ (IF now >= last[id] THEN now - last[id] ELSE 0) < conditions[id].cooldown

Fires(id, threshold, value, now) ==
  /\ conditions[id] # None
  /\ DirectionOk(conditions[id].operator, value, threshold)
  /\ ~Cooling(id, now)

CrossedIds(levels, value, now) ==
  {id \in Ids : \E i \in 1..Len(levels) :
     levels[i].ids[id] > 0 /\ Fires(id, levels[i].value, value, now)}

BeginEvaluate(symbol, price, now) ==
  /\ ~Evaluating
  /\ trees[symbol] # None
  /\ LET levels == WalkedLevels(trees[symbol], price)
     IN  /\ evaluation' = IF levels = <<>> THEN NoEvaluate
                          ELSE [symbol |-> symbol, from |-> trees[symbol].last_price,
                                value |-> price, now |-> now, crossed |-> levels]
         /\ expected' = CrossedIds(levels, price, now)
  /\ trees' = [trees EXCEPT ![symbol] = DriftAfter(@, price)]
  /\ matches' = <<>>
  /\ disturbed' = IF call = NoCall THEN {} ELSE {call.id}
  /\ UNCHANGED <<conditions, last, count, call, fired>>

RestAfterGivesUp(levels, id) ==   \* mutant: an id that is gone ends the loop
  IF conditions[id] = None THEN <<>>
  ELSE LET ids == [levels[1].ids EXCEPT ![id] = @ - 1]
       IN  IF ids = NoIds THEN Tail(levels) ELSE [levels EXCEPT ![1].ids = ids]

RestAfter(levels, id) ==
  LET ids == [levels[1].ids EXCEPT ![id] = @ - 1]
  IN  IF ids = NoIds THEN Tail(levels) ELSE [levels EXCEPT ![1].ids = ids]

ExamineCrossed(id) ==
  LET threshold == evaluation.crossed[1].value
      now       == evaluation.now
      fires     == Fires(id, threshold, evaluation.value, now)
      cooled    == fires /\ conditions[id].cooldown # None
  IN  /\ Evaluating
      /\ evaluation.crossed[1].ids[id] > 0
      /\ matches' = IF fires THEN Append(matches, <<id, threshold>>) ELSE matches
      /\ last'  = IF cooled THEN [last EXCEPT ![id] = now] ELSE last
      /\ fired' = IF cooled THEN [fired EXCEPT ![id] = @ \cup {now}] ELSE fired
      /\ LET rest == RestAfter(evaluation.crossed, id)
         IN  evaluation' = IF rest = <<>> THEN NoEvaluate
                           ELSE [evaluation EXCEPT !.crossed = rest]
      /\ UNCHANGED <<conditions, trees, count, call, expected, disturbed>>

-----------------------------------------------------------------------------
Next ==
  \/ \E id \in Ids, config \in Configs : AddCondition(id, config)
  \/ \E id \in Ids, new \in Configs \cup {None} : RemoveCondition(id, new)
  \/ UnindexCondition
  \/ ReaddCondition
  \/ IndexCondition
  \/ \E symbol \in Symbols, price \in Prices, now \in Times :
       BeginEvaluate(symbol, price, now)
  \/ \E id \in Ids : ExamineCrossed(id)

Spec == Init /\ [][Next]_vars

-----------------------------------------------------------------------------
(***************************************************************************)
(* Properties                                                              *)
(***************************************************************************)
TypeOK ==
  /\ conditions \in [Ids -> Configs \cup {None}]
  /\ last \in [Ids -> Times \cup {None}]
  /\ trees \in [Symbols -> Tree \cup {None}]
  /\ count \in 0..Cardinality(Ids)
  /\ call \in [step : {"idle", "index", "unindex", "readd"}, id : Ids \cup {None},
               old : Configs \cup {None}, new : Configs \cup {None}]
  /\ evaluation \in [symbol : Symbols \cup {None}, from : Int \cup {None}, value : Int,
                     now : Nat, crossed : Seq(Level)]
  /\ matches \in Seq(Ids \X Int)
  /\ fired \in [Ids -> SUBSET Times]
  /\ expected \subseteq Ids /\ disturbed \subseteq Ids

(* The config whose threshold the trees must hold for an id, between any   *)
(* two steps of a call: none while it is being indexed, the removed one    *)
(* while it is being unindexed.                                            *)
InTrees(id) ==
  IF call.step = "unindex" /\ call.id = id THEN call.old
  ELSE IF call.step = "index" /\ call.id = id THEN None
  ELSE conditions[id]

Copies(symbol, v, id) ==
  IF trees[symbol] = None THEN 0
  ELSE LET e  == trees[symbol].entries
           at == {i \in 1..Len(e) : e[i].value = v}
       IN  IF at = {} THEN 0 ELSE e[CHOOSE i \in at : TRUE].ids[id]

(* The two maps tell the same story although no lock covers both: the      *)
(* trees hold each id once, at its own symbol and threshold, and hold no   *)
(* id that is gone, at every step of every call.                           *)
TreesMirrorConditions ==
  \A id \in Ids, s \in Symbols :
    \A v \in {c.threshold : c \in Configs} \ {None} :
      Copies(s, v, id) = IF /\ InTrees(id) # None
                            /\ InTrees(id).symbol = s
                            /\ InTrees(id).threshold = v
                         THEN 1 ELSE 0

(* strategy.rs:58, condition_count: "the number of conditions currently    *)
(* indexed by this strategy", whenever no call is under way.               *)
CountIsConditions ==
  call = NoCall => count = Cardinality({id \in Ids : conditions[id] # None})

(* Conditions, trees and count agree between any two steps of the calls.   *)
Consistent == TypeOK /\ TreesMirrorConditions /\ CountIsConditions

(* When an evaluate returns, every id no call touched meanwhile has        *)
(* matched exactly when the tick, taken alone, matches it: calls on other  *)
(* ids neither hide a match nor add one.                                   *)
UndisturbedExact ==
  ~Evaluating =>
    \A id \in Ids \ disturbed :
      id \in expected <=> \E i \in 1..Len(matches) : matches[i][1] = id

(* One tick matches a condition at most once, even when the condition is   *)
(* moved to another threshold of the same walk meanwhile.                  *)
OneMatchPerTick ==
  \A i, j \in 1..Len(matches) : matches[i][1] = matches[j][1] => i = j

(* A match carries a threshold its condition has at that moment, unless a  *)
(* call touched the condition while the evaluate ran.                      *)
StaleMatchOnlyIfDisturbed ==
  \A i \in 1..Len(matches) :
    LET id == matches[i][1]
    IN  id \notin disturbed =>
          conditions[id] # None /\ conditions[id].threshold = matches[i][2]

(* So a tick's matches are at most one to a condition, each at a threshold *)
(* the condition had when it matched or a call under way moved it from.    *)
MatchesSound == OneMatchPerTick /\ StaleMatchOnlyIfDisturbed

(* Between two loads of a condition its matches are at least its cooldown  *)
(* apart in feed time, whatever order the feed's timestamps come in.       *)
CooldownSpacing ==
  \A id \in Ids : conditions[id] # None /\ conditions[id].cooldown # None =>
    \A t1, t2 \in fired[id] : t1 < t2 => t2 - t1 >= conditions[id].cooldown

(* threshold_crossing.rs:637, "cross_above doesn't match going down": a    *)
(* cross_above match comes from a rising price, except that a price that   *)
(* falls onto the threshold, or rests there, fires it too.                 *)
CrossAboveRisesOrLands ==
  [][\A id \in Ids :
       /\ ExamineCrossed(id) /\ Len(matches') > Len(matches)
       /\ conditions[id].operator = "cross_above"
       => \/ evaluation.from < evaluation.value
          \/ evaluation.crossed[1].value = evaluation.value]_vars

=============================================================================
