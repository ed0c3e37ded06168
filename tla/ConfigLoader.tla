---------------------------- MODULE ConfigLoader ----------------------------
(***************************************************************************)
(* ConfigLoader (libs/engine/notiflo-runtime/src/config_loader.rs): how    *)
(* the runtime's engine follows the alertconditions collection, which the  *)
(* API writes while the loader reads.                                      *)
(*                                                                         *)
(* A document is what a write left: whether it is active, its              *)
(* strategyType, a revision that stands for everything else, and the       *)
(* updatedAt that Mongoose stamps.  Revision Unreadable is a document that *)
(* Mongoose stores and MongoAlertCondition does not deserialize, such as   *)
(* one with a fractional cooldownMs.  A cursor scans the collection in       *)
(* chunks of at most BatchSize documents, each chunk read at one instant;  *)
(* writes fall between the chunks.  The engine is StrategyRegistry as the  *)
(* loader uses it: per strategy type, the revision it holds of each id.    *)
(***************************************************************************)
EXTENDS Integers, FiniteSets

CONSTANTS Ids, None,
          Types,            \* values of strategyType
          Registered,       \* the types main.rs registers a strategy for
          BatchSize,        \* documents per cursor chunk
          ReconcileEvery,   \* polls per reconciliation
          MaxWrites,        \* bound: writes
          MaxErrors,        \* bound: cursor errors
          MaxRestarts       \* bound: restarts of the runtime

ASSUME LoaderAssumption ==
  /\ Types # {} /\ Registered \subseteq Types
  /\ BatchSize \in Nat \ {0} /\ ReconcileEvery \in Nat \ {0}
  /\ {MaxWrites, MaxErrors, MaxRestarts} \subseteq Nat

Unreadable == 0

Doc == [active : BOOLEAN, type : Types, rev : Unreadable..MaxWrites, updatedAt : 0..MaxWrites]

ASSUME NoneAssumption == None \notin Doc /\ None \notin Nat

Steps == {"start", "load", "ended", "idle", "poll", "polled", "reconcile"}

VARIABLES docs,              \* the collection: id -> document, or None
          clock,             \* the clock updatedAt is stamped from
          engine,            \* type -> id -> revision, or None
          known_ids,
          last_poll_time,    \* the latest updatedAt seen, or None
          reconcile_counter,
          step,              \* where the loader task is
          unread,            \* ids the open cursor has not scanned
          batch,             \* documents the open cursor has yet to yield, by id
          filter,            \* the $gt of the open poll's query
          active_ids,        \* ids reconcile has found active
          lapsed,            \* history: since the last start, a write may have been passed over
          writes, errors, restarts

mongo == <<docs, clock, writes>>
cursor == <<unread, batch, filter, active_ids>>
loader == <<known_ids, last_poll_time, reconcile_counter, step, cursor>>
vars == <<mongo, loader, engine, lapsed, errors, restarts>>

EmptyEngine == [type \in Registered |-> [id \in Ids |-> None]]
EmptyBatch == [id \in Ids |-> None]

Init ==
  /\ docs = [id \in Ids |-> None] /\ clock = 0 /\ writes = 0
  /\ engine = EmptyEngine
  /\ step = "start"
  /\ known_ids = {} /\ last_poll_time = None /\ reconcile_counter = 0
  /\ unread = {} /\ batch = EmptyBatch /\ filter = None /\ active_ids = {}
  /\ lapsed = FALSE /\ errors = 0 /\ restarts = 0

-----------------------------------------------------------------------------
(***************************************************************************)
(* The API: AlertsService creates, updates, toggles and deletes.           *)
(***************************************************************************)
SeenStamp == clock = last_poll_time \/ \E id \in Ids : batch[id] # None /\ batch[id].updatedAt = clock

BehindScan(id) == step \in {"load", "poll"} /\ unread # {} /\ id \notin unread

Write(id, active, type, readable) ==
  /\ writes < MaxWrites
  /\ docs' = [docs EXCEPT ![id] = [active |-> active, type |-> type, updatedAt |-> clock,
                                   rev |-> IF readable THEN writes + 1 ELSE Unreadable]]
  /\ writes' = writes + 1
  /\ lapsed' = (lapsed \/ SeenStamp \/ BehindScan(id))
  /\ UNCHANGED <<clock, loader, engine, errors, restarts>>

(* What an unreadable document has as its type nobody gets to see.         *)
AnyType == CHOOSE type \in Types : TRUE

Delete(id) ==
  /\ docs[id] # None
  /\ docs' = [docs EXCEPT ![id] = None]
  /\ UNCHANGED <<clock, writes, loader, engine, lapsed, errors, restarts>>

Tick ==
  /\ clock < MaxWrites
  /\ clock' = clock + 1
  /\ UNCHANGED <<docs, writes, loader, engine, lapsed, errors, restarts>>

-----------------------------------------------------------------------------
(***************************************************************************)
(* StrategyRegistry: add and update reach only the strategy of the         *)
(* condition's type, and do nothing when there is none; remove reaches all.*)
(***************************************************************************)
StoredOnce(id, doc) ==   \* mutant: an update of a condition that is there is lost
  IF doc.type \in Registered /\ engine[doc.type][id] = None
  THEN [engine EXCEPT ![doc.type][id] = doc.rev] ELSE engine

Stored(id, doc) ==
  IF doc.type \in Registered THEN [engine EXCEPT ![doc.type][id] = doc.rev] ELSE engine

RemovedFromOne(ids) ==   \* mutant: remove_condition stops at the first strategy
  LET first == CHOOSE type \in Registered : TRUE
  IN  [engine EXCEPT ![first] = [id \in Ids |-> IF id \in ids THEN None ELSE engine[first][id]]]

Removed(ids) ==
  [type \in Registered |-> [id \in Ids |-> IF id \in ids THEN None ELSE engine[type][id]]]

(***************************************************************************)
(* Cursors.                                                                *)
(***************************************************************************)
Matches(doc) == CASE step = "load" -> doc.active
                  [] step = "poll" -> filter = None \/ doc.updatedAt > filter
                  [] step = "reconcile" -> doc.active

Yields(id) == batch[id] # None /\ batch[id].rev # Unreadable

Drained == \A id \in Ids : batch[id] = None

Open(next) == step' = next /\ unread' = Ids

(* getMore: the next chunk of the scan, and in it the documents that match.*)
Fetch ==
  /\ step \in {"load", "poll", "reconcile"} /\ Drained /\ unread # {}
  /\ \E chunk \in SUBSET unread :
       /\ Cardinality(chunk) = IF Cardinality(unread) < BatchSize
                               THEN Cardinality(unread) ELSE BatchSize
       /\ unread' = unread \ chunk
       /\ batch' = [id \in Ids |-> IF id \in chunk /\ docs[id] # None /\ Matches(docs[id])
                                   THEN docs[id] ELSE None]
  /\ UNCHANGED <<mongo, engine, known_ids, last_poll_time, reconcile_counter, step,
                 filter, active_ids, lapsed, errors, restarts>>

LaterIsNow(doc) == clock   \* mutant: last_poll_time is the time of the poll

Later(doc) ==
  IF last_poll_time = None \/ doc.updatedAt > last_poll_time
  THEN doc.updatedAt ELSE last_poll_time

-----------------------------------------------------------------------------
(***************************************************************************)
(* initial_load.  The conditions collected go to the engine at the end, in *)
(* one bulk_load before the pipeline starts; until then the engine is      *)
(* empty and they are kept here as if stored.  An error ends main.         *)
(***************************************************************************)
StartLoad ==
  /\ step = "start"
  /\ Open("load")
  /\ UNCHANGED <<mongo, engine, known_ids, last_poll_time, reconcile_counter,
                 batch, filter, active_ids, lapsed, errors, restarts>>

LoadDoc(id) ==
  /\ step = "load" /\ Yields(id)
  /\ known_ids' = known_ids \cup {id}
  /\ last_poll_time' = Later(batch[id])
  /\ engine' = Stored(id, batch[id])
  /\ batch' = [batch EXCEPT ![id] = None]
  /\ UNCHANGED <<mongo, reconcile_counter, step, unread, filter, active_ids, lapsed, errors, restarts>>

FinishLoad ==
  /\ step = "load" /\ Drained /\ unread = {}
  /\ step' = "idle"
  /\ UNCHANGED <<mongo, engine, known_ids, last_poll_time, reconcile_counter, cursor,
                 lapsed, errors, restarts>>

-----------------------------------------------------------------------------
(***************************************************************************)
(* poll_delta                                                              *)
(***************************************************************************)
StartPoll ==
  /\ step = "idle"
  /\ Open("poll")
  /\ filter' = last_poll_time
  /\ UNCHANGED <<mongo, engine, known_ids, last_poll_time, reconcile_counter,
                 batch, active_ids, lapsed, errors, restarts>>

Deactivate(id) ==
  IF id \in known_ids
  THEN known_ids' = known_ids \ {id} /\ engine' = Removed({id})
  ELSE UNCHANGED <<known_ids, engine>>

ApplyDoc(id) ==
  /\ step = "poll" /\ Yields(id)
  /\ last_poll_time' = Later(batch[id])
  /\ IF batch[id].active
     THEN engine' = Stored(id, batch[id]) /\ known_ids' = known_ids \cup {id}
     ELSE Deactivate(id)
  /\ batch' = [batch EXCEPT ![id] = None]
  /\ UNCHANGED <<mongo, reconcile_counter, step, unread, filter, active_ids, lapsed, errors, restarts>>

FinishPoll ==
  /\ step = "poll" /\ Drained /\ unread = {}
  /\ step' = "polled"
  /\ UNCHANGED <<mongo, engine, known_ids, last_poll_time, reconcile_counter, cursor,
                 lapsed, errors, restarts>>

-----------------------------------------------------------------------------
(***************************************************************************)
(* poll_loop's counter, and reconcile                                      *)
(***************************************************************************)
CountPollNever == UNCHANGED reconcile_counter /\ step' = "idle" /\ UNCHANGED unread   \* mutant

CountPoll ==
  IF reconcile_counter + 1 >= ReconcileEvery
  THEN reconcile_counter' = 0 /\ Open("reconcile")
  ELSE reconcile_counter' = reconcile_counter + 1 /\ step' = "idle" /\ UNCHANGED unread

EndPoll ==
  /\ step = "polled"
  /\ CountPoll
  /\ active_ids' = {}
  /\ UNCHANGED <<mongo, engine, known_ids, last_poll_time, batch, filter, lapsed, errors, restarts>>

CollectActive(id) ==
  /\ step = "reconcile" /\ Yields(id)
  /\ active_ids' = active_ids \cup {id}
  /\ batch' = [batch EXCEPT ![id] = None]
  /\ UNCHANGED <<mongo, engine, known_ids, last_poll_time, reconcile_counter, step,
                 unread, filter, lapsed, errors, restarts>>

DropStale ==
  /\ step = "reconcile" /\ Drained /\ unread = {}
  /\ engine' = Removed(known_ids \ active_ids)
  /\ known_ids' = known_ids \cap active_ids
  /\ step' = "idle"
  /\ UNCHANGED <<mongo, last_poll_time, reconcile_counter, cursor, lapsed, errors, restarts>>

-----------------------------------------------------------------------------
(***************************************************************************)
(* try_next fails: poll_delta and reconcile return the error, what they    *)
(* have done stands, and the loop goes on.  The cursor may fail between any*)
(* two documents, and fails at every one that does not deserialize.  In    *)
(* initial_load such a one ends main.                                      *)
(***************************************************************************)
ScanFails ==
  /\ step \in {"poll", "reconcile"}
  /\ step' = IF step = "poll" THEN "polled" ELSE "idle"
  /\ batch' = EmptyBatch /\ unread' = {}
  /\ lapsed' = (lapsed \/ step = "poll")
  /\ UNCHANGED <<mongo, engine, known_ids, last_poll_time, reconcile_counter, filter,
                 active_ids, restarts>>

CursorError == errors < MaxErrors /\ errors' = errors + 1 /\ ScanFails

RejectDoc(id) ==
  /\ batch[id] # None /\ batch[id].rev = Unreadable
  /\ ScanFails /\ UNCHANGED errors

(* The process is gone, and with it the engine.                            *)
LoadFails(id) ==
  /\ step = "load" /\ batch[id] # None /\ batch[id].rev = Unreadable
  /\ step' = "ended" /\ engine' = EmptyEngine /\ known_ids' = {}
  /\ last_poll_time' = None /\ batch' = EmptyBatch /\ unread' = {}
  /\ lapsed' = TRUE
  /\ UNCHANGED <<mongo, reconcile_counter, filter, active_ids, errors, restarts>>

(* The runtime stops, for any reason, and is started again.                *)
Restart ==
  /\ restarts < MaxRestarts
  /\ restarts' = restarts + 1
  /\ engine' = EmptyEngine
  /\ step' = "start"
  /\ known_ids' = {} /\ last_poll_time' = None /\ reconcile_counter' = 0
  /\ unread' = {} /\ batch' = EmptyBatch /\ filter' = None /\ active_ids' = {}
  /\ lapsed' = FALSE
  /\ UNCHANGED <<mongo, errors>>

-----------------------------------------------------------------------------
LoaderStep ==
  \/ StartLoad \/ Fetch \/ FinishLoad
  \/ StartPoll \/ FinishPoll \/ EndPoll \/ DropStale
  \/ \E id \in Ids : LoadDoc(id) \/ ApplyDoc(id) \/ CollectActive(id)
                     \/ RejectDoc(id) \/ LoadFails(id)

Next ==
  \/ \E id \in Ids, active \in BOOLEAN :
       \/ \E type \in Types : Write(id, active, type, TRUE)
       \/ Write(id, active, AnyType, FALSE)
  \/ \E id \in Ids : Delete(id)
  \/ Tick
  \/ LoaderStep
  \/ CursorError
  \/ Restart

(* The loader is a tokio task on an interval timer: it always takes its    *)
(* next step.                                                              *)
Spec == Init /\ [][Next]_vars /\ WF_vars(LoaderStep)

-----------------------------------------------------------------------------
(***************************************************************************)
(* Properties                                                              *)
(***************************************************************************)
TypeOK ==
  /\ docs \in [Ids -> Doc \cup {None}] /\ batch \in [Ids -> Doc \cup {None}]
  /\ clock \in 0..MaxWrites
  /\ engine \in [Registered -> [Ids -> 1..MaxWrites \cup {None}]]
  /\ known_ids \subseteq Ids /\ active_ids \subseteq Ids /\ unread \subseteq Ids
  /\ last_poll_time \in 0..MaxWrites \cup {None} /\ filter \in 0..MaxWrites \cup {None}
  /\ reconcile_counter \in 0..(ReconcileEvery - 1)
  /\ step \in Steps

Holds(id) == \E type \in Registered : engine[type][id] # None

(* Whatever the engine holds the loader still knows, so that it can be     *)
(* removed: an id that left known_ids while a strategy kept it would match *)
(* until the next restart.                                                 *)
NoOrphans == \A id \in Ids : Holds(id) => id \in known_ids

(* The loader's bookkeeping and the engine agree at every step of a scan.  *)
Consistent == TypeOK /\ NoOrphans

Wanted(id) == docs[id] # None /\ docs[id].active

Rejected(id) == docs[id] # None /\ docs[id].rev = Unreadable

Follows(id) ==
  Wanted(id) /\ ~Rejected(id) /\ docs[id].type \in Registered => engine[docs[id].type][id] = docs[id].rev

(* last_poll_time never passes a write the loader has neither applied nor  *)
(* will be given by the cursor it has open, but for three lapses: a write  *)
(* stamped with a time the loader has already seen, one that lands behind  *)
(* an open scan, and a poll that failed.                                   *)
NothingBehindFilter ==
  step \in {"idle", "polled"} /\ last_poll_time # None /\ ~lapsed =>
    \A id \in Ids :
      Wanted(id) /\ docs[id].updatedAt <= last_poll_time => Follows(id)

(* A condition that stays deleted or inactive leaves the engine for good,  *)
(* through errors, equal stamps, chunked scans and restarts: reconcile     *)
(* catches what poll_delta missed.  But one active document that does not  *)
(* deserialize ends every reconcile, and then it may match for ever.       *)
StaleEventuallyRemoved ==
  \A id \in Ids :
    <>[]~Wanted(id) => \/ <>[]~Holds(id)
                       \/ <>[](\E other \in Ids : Wanted(other) /\ Rejected(other))

(* Once the writes stop the engine holds every active condition at its     *)
(* latest revision, unless since the runtime was last started there was    *)
(* one of those lapses, or an unreadable document ended it.                *)
FollowsUnlessLapsed == <>[](lapsed \/ \A id \in Ids : Follows(id))

=============================================================================
