----------------------------- MODULE AlertsApi ------------------------------
(***************************************************************************)
(* AlertsApi: AlertsService (apps/notiflo/src/app/alerts) and the engine   *)
(* behind its bridge, native or mock.                                      *)
(*                                                                         *)
(* A handler awaits one MongoDB command and then, in the same turn of the  *)
(* event loop, calls the engine with the document that command answered.   *)
(* Answers of overlapping requests come in any order.  A config is what a  *)
(* request says of an alert: its strategyType, its symbol (which stands    *)
(* for its place in that strategy's index) and whether its strategy can    *)
(* parse it.  A tick stands for one that satisfies every alert of its      *)
(* symbol; cooldowns are in ThresholdStrategy.                             *)
(***************************************************************************)
EXTENDS Integers, FiniteSets

CONSTANTS Alerts, Symbols, None,
          Gone,             \* a document that was deleted: its id never comes back
          Configs,
          Registered,       \* the types init_engine registers a strategy for
          MockTypes,        \* the types the mock evaluates
          Slots,            \* requests under way at once in this process
          MaxRequests, MaxRestarts   \* bounds

ASSUME AlertsAssumption ==
  /\ \A config \in Configs : /\ DOMAIN config = {"type", "symbol", "valid"}
                             /\ config.symbol \in Symbols /\ config.valid \in BOOLEAN
  /\ IsFiniteSet(Alerts) /\ {MaxRequests, MaxRestarts} \subseteq Nat

AlertDoc == [active : BOOLEAN, config : Configs]

EngineCall == [op : {"add", "update", "remove"}, id : Alerts, doc : AlertDoc \cup {Gone}]

(* None and Gone are no values of the program.                             *)
ASSUME NoneAssumption ==
  /\ None \notin AlertDoc \cup EngineCall \cup Configs \cup Slots \cup BOOLEAN \cup {Gone}
  /\ Gone \notin AlertDoc

VARIABLES alerts,       \* the collection: id -> document, None or Gone
          bridge,       \* which engine is injected: "native" or "mock"
          ready,        \* isInitialized()
          phase,        \* of this process: "wait", "load" or "serve"
          found,        \* what onModuleInit's find answered
          engine,       \* the native engine: per strategy its maps and counter
          mock,         \* the mock engine's conditions
          pending,      \* per slot, the engine call a handler has yet to make
          raced,        \* history: ids written elsewhere or by overlapping requests
          strayed,      \* history: ids whose engine call did not fit the write
          readds,       \* history: per type, adds of a condition it already held
          requests, restarts

engines == <<engine, mock, readds>>
alertsVars == <<alerts, bridge, ready, phase, found, engines, pending, raced, strayed,
                requests, restarts>>

EmptyEngine ==
  [conditions |-> [type \in Registered |-> [id \in Alerts |-> None]],
   index      |-> [type \in Registered |-> [symbol \in Symbols |-> [id \in Alerts |-> 0]]],
   count      |-> [type \in Registered |-> 0]]

NothingFound == [id \in Alerts |-> None]

AlertsInit ==
  /\ alerts = [id \in Alerts |-> None]
  /\ bridge \in {"native", "mock"}
  /\ ready = (bridge = "mock") /\ phase = "wait" /\ found = NothingFound
  /\ engine = EmptyEngine /\ mock = NothingFound
  /\ pending = [slot \in Slots |-> None]
  /\ raced = {} /\ strayed = {} /\ readds = [type \in Registered |-> 0]
  /\ requests = 0 /\ restarts = 0

-----------------------------------------------------------------------------
(***************************************************************************)
(* The native engine: add indexes again what is already indexed, remove    *)
(* looks only where the stored condition is, update is one after the other.*)
(***************************************************************************)
AddedTo(e, id, config) ==
  IF config.type \notin Registered \/ ~config.valid THEN e
  ELSE [e EXCEPT !.conditions[config.type][id] = config,
                 !.index[config.type][config.symbol][id] = @ + 1,
                 !.count[config.type] = @ + 1]

RemovedFrom(e, id, types) ==
  LET held == {type \in types : e.conditions[type][id] # None}
  IN  [conditions |-> [type \in Registered |->
         IF type \in held THEN [e.conditions[type] EXCEPT ![id] = None] ELSE e.conditions[type]],
       index |-> [type \in Registered |->
         IF type \in held THEN [e.index[type] EXCEPT ![e.conditions[type][id].symbol][id] = 0]
         ELSE e.index[type]],
       count |-> [type \in Registered |-> e.count[type] - (IF type \in held THEN 1 ELSE 0)]]

UpdatedUncounted(e, id, config) ==   \* mutant: the removal half of an update is not counted
  LET gone == RemovedFrom(e, id, {config.type} \cap Registered)
  IN  AddedTo([gone EXCEPT !.count = e.count], id, config)

UpdatedIn(e, id, config) == AddedTo(RemovedFrom(e, id, {config.type} \cap Registered), id, config)

LoadedAll(docs) ==
  LET InType(type) == {id \in Alerts : docs[id] # None /\ docs[id].config.type = type
                                       /\ docs[id].config.valid}
  IN  [conditions |-> [type \in Registered |-> [id \in Alerts |->
         IF id \in InType(type) THEN docs[id].config ELSE None]],
       index |-> [type \in Registered |-> [symbol \in Symbols |-> [id \in Alerts |->
         IF id \in InType(type) /\ docs[id].config.symbol = symbol THEN 1 ELSE 0]]],
       count |-> [type \in Registered |-> Cardinality(InType(type))]]

(***************************************************************************)
(* onModuleInit: wait for the bridge or give up, find, bulk load.          *)
(***************************************************************************)
BridgeUp ==
  /\ phase = "wait" /\ ~ready
  /\ ready' = TRUE
  /\ UNCHANGED <<alerts, bridge, phase, found, engines, pending, raced, strayed, requests, restarts>>

GiveUp ==
  /\ phase = "wait" /\ ~ready
  /\ phase' = "serve"
  /\ UNCHANGED <<alerts, bridge, ready, found, engines, pending, raced, strayed, requests, restarts>>

FoundAny == [id \in Alerts |-> IF alerts[id] \in AlertDoc   \* mutant: find() without its filter
                               THEN alerts[id] ELSE None]

FoundActive == [id \in Alerts |-> IF alerts[id] \in AlertDoc /\ alerts[id].active
                                  THEN alerts[id] ELSE None]

FindActive ==
  /\ phase = "wait" /\ ready
  /\ phase' = "load" /\ found' = FoundActive
  /\ raced' = {} /\ strayed' = {}
  /\ UNCHANGED <<alerts, bridge, ready, engines, pending, requests, restarts>>

BulkLoad ==
  /\ phase = "load"
  /\ phase' = "serve" /\ found' = NothingFound
  /\ IF bridge = "native" THEN engine' = LoadedAll(found) /\ UNCHANGED mock
                          ELSE mock' = found /\ UNCHANGED engine
  /\ UNCHANGED <<alerts, bridge, ready, pending, raced, strayed, readds, requests, restarts>>

Restart ==
  /\ restarts < MaxRestarts
  /\ restarts' = restarts + 1
  /\ phase' = "wait" /\ ready' = (bridge = "mock") /\ found' = NothingFound
  /\ engine' = EmptyEngine /\ mock' = NothingFound /\ readds' = [type \in Registered |-> 0]
  /\ pending' = [slot \in Slots |-> None]
  /\ UNCHANGED <<alerts, bridge, raced, strayed, requests>>

-----------------------------------------------------------------------------
(***************************************************************************)
(* The handlers, up to MongoDB's answer.  Slot None: another process of    *)
(* the API serves the request and this one never hears of it.              *)
(***************************************************************************)
Misfits(id, op, doc) ==
  CASE op = "remove" -> doc # Gone /\ doc.active
    [] op = "add"    -> bridge = "native" /\ alerts[id] # None /\ alerts[id].active
    [] op = "update" -> IF bridge = "mock" THEN doc.active /\ ~alerts[id].active
                        ELSE \/ ~doc.active
                             \/ alerts[id].active /\ doc.config.type # alerts[id].config.type
    [] OTHER -> FALSE

Overlaps(slot, id) ==
  \/ slot = None
  \/ \E other \in Slots \ {slot} : pending[other] # None /\ pending[other].id = id

Commit(slot, id, op, doc) ==
  /\ requests < MaxRequests /\ requests' = requests + 1
  /\ IF slot = None THEN UNCHANGED pending
     ELSE /\ phase = "serve" /\ pending[slot] = None
          /\ pending' = IF op = "none" THEN pending
                        ELSE [pending EXCEPT ![slot] = [op |-> op, id |-> id, doc |-> doc]]
  /\ alerts' = [alerts EXCEPT ![id] = doc]
  /\ raced' = IF Overlaps(slot, id) THEN raced \cup {id} ELSE raced
  /\ strayed' = IF Misfits(id, op, doc) THEN strayed \cup {id} ELSE strayed
  /\ UNCHANGED <<bridge, ready, phase, found, engines, restarts>>

Create(slot, id, doc) ==
  /\ alerts[id] = None
  /\ Commit(slot, id, IF doc.active THEN "add" ELSE "none", doc)

(* A DTO may change any field: the document afterwards is any other.       *)
Update(slot, id, doc) ==
  /\ alerts[id] \in AlertDoc
  /\ Commit(slot, id, "update", doc)

RemoveAlert(slot, id) ==
  /\ alerts[id] \in AlertDoc
  /\ Commit(slot, id, "remove", Gone)

(* active is None when the body has none: MongoDB is asked to set nothing. *)
ToggleActive(slot, id, active) ==
  /\ alerts[id] \in AlertDoc
  /\ Commit(slot, id, IF active = TRUE THEN "add" ELSE "remove",
            IF active = None THEN alerts[id] ELSE [alerts[id] EXCEPT !.active = active])

(***************************************************************************)
(* The rest of the handler: the engine call.  addCondition throws for an   *)
(* unknown type; the error is caught and logged.                           *)
(***************************************************************************)

NativeAfter(call) ==
  CASE call.op = "add"    -> AddedTo(engine, call.id, call.doc.config)
    [] call.op = "update" -> UpdatedIn(engine, call.id, call.doc.config)
    [] call.op = "remove" -> RemovedFrom(engine, call.id, Registered)

MockAfter(call) ==
  CASE call.op = "remove" -> [mock EXCEPT ![call.id] = None]
    [] call.op = "update" /\ mock[call.id] = None -> mock
    [] OTHER -> [mock EXCEPT ![call.id] = call.doc]

Readds(call) ==
  LET config == call.doc.config
  IN  IF /\ bridge = "native" /\ call.op = "add" /\ config.type \in Registered /\ config.valid
         /\ engine.conditions[config.type][call.id] # None
      THEN [readds EXCEPT ![config.type] = @ + 1] ELSE readds

CallEngine(slot) ==
  /\ pending[slot] # None
  /\ pending' = [pending EXCEPT ![slot] = None]
  /\ engine' = IF ready /\ bridge = "native" THEN NativeAfter(pending[slot]) ELSE engine
  /\ mock' = IF bridge = "mock" THEN MockAfter(pending[slot]) ELSE mock
  /\ readds' = IF ready /\ pending[slot].op = "add" THEN Readds(pending[slot]) ELSE readds
  /\ UNCHANGED <<alerts, bridge, ready, phase, found, raced, strayed, requests, restarts>>

AlertRequests ==
  \E slot \in Slots \cup {None}, id \in Alerts :
    \/ \E doc \in AlertDoc : Create(slot, id, doc) \/ Update(slot, id, doc)
    \/ RemoveAlert(slot, id)
    \/ \E active \in BOOLEAN \cup {None} : ToggleActive(slot, id, active)

AlertsNext ==
  \/ BridgeUp \/ GiveUp \/ FindActive \/ BulkLoad \/ Restart
  \/ AlertRequests
  \/ \E slot \in Slots : CallEngine(slot)

AlertsSpec == AlertsInit /\ [][AlertsNext]_alertsVars

-----------------------------------------------------------------------------
(***************************************************************************)
(* What POST /alerts/ticks answers: how often an alert is among the        *)
(* matches, and conditionsEvaluated.                                       *)
(***************************************************************************)
Copies(type, id, symbol) ==
  IF engine.conditions[type][id] = None THEN 0 ELSE engine.index[type][symbol][id]

NativeMatches(id, symbol) ==
  UNION {{<<type, copy>> : copy \in 1..Copies(type, id, symbol)} : type \in Registered}

MockMatches(id, symbol) ==
  /\ mock[id] # None /\ mock[id].active /\ mock[id].config.symbol = symbol
  /\ mock[id].config.type \in MockTypes /\ mock[id].config.valid

Matches(id, symbol) ==
  IF bridge = "native" THEN Cardinality(NativeMatches(id, symbol))
  ELSE IF MockMatches(id, symbol) THEN 1 ELSE 0

ShouldMatch(id, symbol) ==
  /\ alerts[id] \in AlertDoc /\ alerts[id].active /\ alerts[id].config.valid
  /\ alerts[id].config.symbol = symbol
  /\ alerts[id].config.type \in IF bridge = "native" THEN Registered ELSE MockTypes

Settled(id) ==
  /\ ready /\ phase = "serve"
  /\ \A slot \in Slots : pending[slot] = None \/ pending[slot].id # id

-----------------------------------------------------------------------------
AlertsTypeOK ==
  /\ alerts \in [Alerts -> AlertDoc \cup {None, Gone}]
  /\ bridge \in {"native", "mock"} /\ ready \in BOOLEAN /\ phase \in {"wait", "load", "serve"}
  /\ found \in [Alerts -> AlertDoc \cup {None}] /\ mock \in [Alerts -> AlertDoc \cup {None}]
  /\ engine \in [conditions : [Registered -> [Alerts -> Configs \cup {None}]],
                 index : [Registered -> [Symbols -> [Alerts -> Nat]]],
                 count : [Registered -> Nat]]
  /\ pending \in [Slots -> EngineCall \cup {None}]
  /\ raced \subseteq Alerts /\ strayed \subseteq Alerts
  /\ readds \in [Registered -> Nat]
  /\ requests \in 0..MaxRequests /\ restarts \in 0..MaxRestarts

(* A tick matches an alert exactly once if its document says so and else   *)
(* never, when no request for it is under way, unless since the start the  *)
(* alert was written by overlapping requests or by another process, or an  *)
(* engine call did not fit its write: a paused alert updated, a running    *)
(* one resumed, its type changed, or a toggle without a body.              *)
AgreesUnlessLapsed ==
  \A id \in Alerts \ (raced \cup strayed), symbol \in Symbols :
    Settled(id) => Matches(id, symbol) = IF ShouldMatch(id, symbol) THEN 1 ELSE 0

(* Whatever misfits came before, a deleted alert matches nothing, in all   *)
(* strategies that ever held it; nor does a paused one in the mock.  Only  *)
(* overlapping requests, or another process, can leave it matching.        *)
StoppedNeverMatches ==
  \A id \in Alerts \ raced, symbol \in Symbols :
    /\ Settled(id)
    /\ alerts[id] = Gone \/ (bridge = "mock" /\ alerts[id] # None /\ ~alerts[id].active)
    => Matches(id, symbol) = 0

(* What ticks match is what the documents say, unless an engine call did   *)
(* not fit its write; a deletion holds even then.                          *)
EngineAgreesUnlessLapsed == AgreesUnlessLapsed /\ StoppedNeverMatches

(* strategy.rs:58: a strategy's count, of which conditionsEvaluated and    *)
(* the dashboard are the sum, exceeds the conditions it holds by exactly   *)
(* the adds of what it already held: nothing takes the surplus away.       *)
CountOffByReadds ==
  \A type \in Registered :
    engine.count[type] = readds[type] + Cardinality({id \in Alerts : engine.conditions[type][id] # None})

(* The stores of the API and of the engine keep their types and the counts *)
(* their known error, whichever requests overlap.                          *)
EngineConsistent == AlertsTypeOK /\ CountOffByReadds

=============================================================================
