-------------------------- MODULE IndexedStrategy ---------------------------
(***************************************************************************)
(* ExpressionStrategy and ScriptStrategy                                   *)
(* (libs/engine/engine-core/src/condition/expression_strategy.rs and       *)
(* script_strategy.rs): the same two maps, id -> compiled condition and    *)
(* symbol -> ids, and the same three functions around a different test.    *)
(*                                                                         *)
(* Unlike ThresholdStrategy, evaluate clones the symbol's id list and      *)
(* drops the guard, so a call runs freely between two ids of one tick.     *)
(* The compiled expression or script is the set of tick values it is true  *)
(* of (an evaluation error is false, script_strategy.rs:191), None when it *)
(* does not compile and add_condition returns early.                       *)
(***************************************************************************)
EXTENDS Integers, Sequences, SequencesExt, FiniteSets

CONSTANTS Ids, Symbols, None,
          Configs,    \* [symbol, accepts, cooldown] a condition may be given
          Values,     \* tick values
          Times       \* tick timestamps

ASSUME IndexedAssumption ==
  /\ Configs \subseteq [symbol : Symbols, accepts : (SUBSET Values) \cup {None},
                        cooldown : Nat \cup {None}]
  /\ None \notin Configs
  /\ Times \subseteq Nat
  /\ IsFiniteSet(Ids)

VARIABLES conditions,     \* id -> its config, or None
          last,           \* id -> last_triggered_us of its stored condition
          symbol_index,   \* symbol -> ids, <<>> when it has no entry
          count,          \* condition_count
          call,           \* the add, remove or update under way
          evaluation,     \* the locals of the evaluate under way, or of the last one
          matches,        \* ids it has matched, with the symbol they watched then
          expected,       \* history: ids an evaluate without interference matches
          disturbed       \* history: ids a call touched since the evaluate began

indexedVars == <<conditions, last, symbol_index, count, call, evaluation, matches,
                 expected, disturbed>>

NoCall == [step |-> "idle", id |-> None, old |-> None, new |-> None]

IndexedInit ==
  /\ conditions = [id \in Ids |-> None]
  /\ last = [id \in Ids |-> None]
  /\ symbol_index = [s \in Symbols |-> <<>>]
  /\ count = 0
  /\ call = NoCall
  /\ evaluation = [symbol |-> None, value |-> None, now |-> 0, ids |-> <<>>]
  /\ matches = <<>>
  /\ expected = {}
  /\ disturbed = {}

Evaluating == evaluation.ids # <<>>

-----------------------------------------------------------------------------
InsertCondition(id, config) ==
  /\ conditions' = [conditions EXCEPT ![id] = config]
  /\ last' = [last EXCEPT ![id] = None]
  /\ call' = [step |-> "index", id |-> id, old |-> None, new |-> config]
  /\ disturbed' = disturbed \cup {id}
  /\ UNCHANGED <<symbol_index, count, evaluation, matches, expected>>

AddCondition(id, config) ==
  /\ call = NoCall
  /\ conditions[id] = None
  /\ config.accepts # None
  /\ InsertCondition(id, config)

(* new is the config of an update, None for a remove.                      *)
RemoveCondition(id, new) ==
  /\ call = NoCall
  /\ conditions[id] # None
  /\ conditions' = [conditions EXCEPT ![id] = None]
  /\ last' = [last EXCEPT ![id] = None]
  /\ call' = [step |-> "unindex", id |-> id, old |-> conditions[id], new |-> new]
  /\ disturbed' = disturbed \cup {id}
  /\ UNCHANGED <<symbol_index, count, evaluation, matches, expected>>

(* ids.retain: the j-th id left is the one at the j-th position that does  *)
(* not hold id.                                                            *)
Retained(ids, id) ==
  LET kept  == {i \in DOMAIN ids : ids[i] # id}
      at(j) == CHOOSE i \in kept : Cardinality({k \in kept : k < i}) = j - 1
  IN  [j \in 1..Cardinality(kept) |-> ids[at(j)]]

(* Under get_mut; an emptied list loses its entry, which no other call can *)
(* see between the two locks.                                              *)
WithoutIdAtNew(id) ==   \* mutant: the new config's symbol is looked up
  [symbol_index EXCEPT
     ![IF call.new = None THEN call.old.symbol ELSE call.new.symbol] = Retained(@, id)]

WithoutId(id) ==
  [symbol_index EXCEPT ![call.old.symbol] = Retained(@, id)]

CountAfterUnindex == count - 1

UnindexCondition ==
  /\ call.step = "unindex"
  /\ symbol_index' = WithoutId(call.id)
  /\ count' = CountAfterUnindex
  /\ call' = IF call.new = None \/ call.new.accepts = None THEN NoCall
             ELSE [call EXCEPT !.step = "readd", !.old = None]
  /\ UNCHANGED <<conditions, last, evaluation, matches, expected, disturbed>>

ReaddCondition ==
  /\ call.step = "readd"
  /\ InsertCondition(call.id, call.new)

IndexCondition ==
  /\ call.step = "index"
  /\ symbol_index' = [symbol_index EXCEPT ![call.new.symbol] = Append(@, call.id)]
  /\ count' = count + 1
  /\ call' = NoCall
  /\ UNCHANGED <<conditions, last, evaluation, matches, expected, disturbed>>

-----------------------------------------------------------------------------
Cooling(id, now) ==
  /\ conditions[id].cooldown # None /\ last[id] # None
  /\ (IF now >= last[id] THEN now - last[id] ELSE 0) < conditions[id].cooldown

Fires(id, value, now) ==
  conditions[id] # None /\ value \in conditions[id].accepts /\ ~Cooling(id, now)

BeginEvaluate(symbol, value, now) ==
  /\ ~Evaluating
  /\ symbol_index[symbol] # <<>>
  /\ evaluation' = [symbol |-> symbol, value |-> value, now |-> now,
                    ids |-> symbol_index[symbol]]
  /\ matches' = <<>>
  /\ expected' = {id \in Range(symbol_index[symbol]) : Fires(id, value, now)}
  /\ disturbed' = IF call = NoCall THEN {} ELSE {call.id}
  /\ UNCHANGED <<conditions, last, symbol_index, count, call>>

IdsLeftGivesUp == IF conditions[Head(evaluation.ids)] = None THEN <<>>   \* mutant
                  ELSE Tail(evaluation.ids)

IdsLeft == Tail(evaluation.ids)

ExamineNext ==
  LET id    == Head(evaluation.ids)
      fires == Fires(id, evaluation.value, evaluation.now)
  IN  /\ Evaluating
      /\ matches' = IF fires
                    THEN Append(matches, [id |-> id, watches |-> conditions[id].symbol])
                    ELSE matches
      /\ last' = IF fires /\ conditions[id].cooldown # None
                 THEN [last EXCEPT ![id] = evaluation.now] ELSE last
      /\ evaluation' = [evaluation EXCEPT !.ids = IdsLeft]
      /\ UNCHANGED <<conditions, symbol_index, count, call, expected, disturbed>>

-----------------------------------------------------------------------------
IndexedNext ==
  \/ \E id \in Ids, config \in Configs : AddCondition(id, config)
  \/ \E id \in Ids, new \in Configs \cup {None} : RemoveCondition(id, new)
  \/ UnindexCondition
  \/ ReaddCondition
  \/ IndexCondition
  \/ \E symbol \in Symbols, value \in Values, now \in Times :
       BeginEvaluate(symbol, value, now)
  \/ ExamineNext

IndexedSpec == IndexedInit /\ [][IndexedNext]_indexedVars

-----------------------------------------------------------------------------
(***************************************************************************)
(* Properties                                                              *)
(***************************************************************************)
TypeOK ==
  /\ conditions \in [Ids -> Configs \cup {None}]
  /\ last \in [Ids -> Times \cup {None}]
  /\ symbol_index \in [Symbols -> Seq(Ids)]
  /\ count \in 0..Cardinality(Ids)
  /\ call.step \in {"idle", "index", "unindex", "readd"}
  /\ evaluation.ids \in Seq(Ids)
  /\ matches \in Seq([id : Ids, watches : Symbols])
  /\ expected \subseteq Ids /\ disturbed \subseteq Ids

(* The config whose symbol must list an id, between two steps of a call.   *)
InIndex(id) ==
  IF call.step = "unindex" /\ call.id = id THEN call.old
  ELSE IF call.step = "index" /\ call.id = id THEN None
  ELSE conditions[id]

(* Each id is listed once, under the symbol its condition watches, and no  *)
(* id is listed without a condition, at every step of every call.          *)
IndexMirrorsConditions ==
  \A symbol \in Symbols :
    /\ IsInjective(symbol_index[symbol])
    /\ Range(symbol_index[symbol]) =
         {id \in Ids : InIndex(id) # None /\ InIndex(id).symbol = symbol}

(* condition_count is how many ids the lists hold: no call counts an id    *)
(* twice or takes it off twice.                                            *)
CountIsIndexed == count = Cardinality({id \in Ids : InIndex(id) # None})

(* Conditions, index and counter agree between any two steps of the calls. *)
Consistent == TypeOK /\ IndexMirrorsConditions /\ CountIsIndexed

(* When an evaluate returns, every id no call touched meanwhile has        *)
(* matched exactly when the tick, taken alone, matches it.                 *)
UndisturbedExact ==
  ~Evaluating =>
    \A id \in Ids \ disturbed :
      id \in expected <=> \E i \in 1..Len(matches) : matches[i].id = id

(* strategy.rs:49, "Evaluate a tick against all indexed conditions for     *)
(* that symbol": a match's condition watches the tick's symbol, unless an  *)
(* update moved it to another after the id list was cloned.                *)
MatchWatchesTickSymbol ==
  \A i \in 1..Len(matches) :
    matches[i].watches = evaluation.symbol \/ matches[i].id \in disturbed

=============================================================================
