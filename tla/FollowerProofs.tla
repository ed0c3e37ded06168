---------------------------- MODULE FollowerProofs --------------------------
(***************************************************************************)
(* Theorems about the parts that follow what MongoDB or the API holds:     *)
(* ConfigLoader, for any documents and any number of writes, polls, faults *)
(* and restarts; Routing, for any subscribers, templates and channels and  *)
(* any number of writes and starts; AlertsPage, for any number of fetches  *)
(* and clicks; and LoadTest, for any tests, steps and cancels.             *)
(***************************************************************************)
EXTENDS ConfigLoader, Routing, AlertsPage, LoadTest, SequenceLemmas, FiniteSetTheorems, TLAPS

(***************************************************************************)
(* The config loader.                                                      *)
(***************************************************************************)
Bookkeeping == TypeOK /\ NoOrphans /\ writes \in 0..MaxWrites

-----------------------------------------------------------------------------
(* No stamp is ahead of the clock, and a poll's filter was last_poll_time. *)
StampsInPast ==
  /\ \A id \in Ids : docs[id] # None => docs[id].updatedAt <= clock
  /\ \A id \in Ids : batch[id] # None => batch[id].updatedAt <= clock
  /\ last_poll_time # None => last_poll_time <= clock
  /\ step = "poll" /\ filter # None => last_poll_time # None /\ filter <= last_poll_time

(* A cursor yields what it has scanned, and none is open between scans.    *)
CursorScans ==
  /\ \A id \in Ids : batch[id] # None => id \notin unread
  /\ step \notin {"load", "poll", "reconcile"} => Drained

(* last_poll_time is past the stamp, or will be once the batch is worked   *)
(* off.                                                                    *)
Reached(stamp) ==
  \/ last_poll_time # None /\ stamp <= last_poll_time
  \/ \E id \in Ids : batch[id] # None /\ stamp <= batch[id].updatedAt

(* What a load or poll has scanned is applied or in the batch, until the   *)
(* scan is over and a write comes that last_poll_time does not reach.      *)
ScannedApplied ==
  step \in {"load", "poll"} =>
    \A id \in Ids :
      Wanted(id) /\ id \notin unread /\ (unread # {} \/ Reached(docs[id].updatedAt)) =>
        Follows(id) \/ batch[id] = docs[id]

(* What the batch holds is as in the collection, or was written after.     *)
BatchCurrent ==
  step \in {"load", "poll"} =>
    \A id \in Ids :
      batch[id] # None /\ docs[id] # None /\ docs[id] # batch[id] =>
        unread = {} /\ ~Reached(docs[id].updatedAt)

(* What a poll's filter skips was applied before.                          *)
SkippedApplied ==
  step = "poll" /\ filter # None =>
    \A id \in unread : Wanted(id) /\ docs[id].updatedAt <= filter => Follows(id)

(* Between the scans of the collection, nothing is behind last_poll_time.  *)
PassedApplied ==
  step \in {"idle", "polled", "reconcile"} /\ last_poll_time # None =>
    \A id \in Ids : Wanted(id) /\ docs[id].updatedAt <= last_poll_time => Follows(id)

(* reconcile finds every condition that is behind last_poll_time.          *)
ReconcileSees ==
  step = "reconcile" /\ last_poll_time # None =>
    \A id \in Ids :
      Wanted(id) /\ docs[id].updatedAt <= last_poll_time =>
        id \in unread \/ batch[id] # None \/ id \in active_ids

Fresh ==
  ScannedApplied /\ BatchCurrent /\ SkippedApplied /\ PassedApplied /\ ReconcileSees

LoaderInv == Bookkeeping /\ StampsInPast /\ CursorScans /\ (~lapsed => Fresh)

-----------------------------------------------------------------------------
(* The types of the stored and fetched documents, read off Bookkeeping.    *)
LEMMA LoaderFields ==
  ASSUME Bookkeeping
  PROVE  /\ MaxWrites \in Nat /\ clock \in Nat /\ writes \in Nat
         /\ \A id \in Ids : docs[id] # None =>
              /\ docs[id] \in Doc /\ docs[id].updatedAt \in Nat /\ docs[id].active \in BOOLEAN
              /\ docs[id].type \in Types
         /\ \A id \in Ids : batch[id] # None =>
              /\ batch[id] \in Doc /\ batch[id].updatedAt \in Nat
              /\ batch[id].updatedAt \in 0..MaxWrites /\ batch[id].active \in BOOLEAN
              /\ batch[id].type \in Types /\ batch[id].rev \in Unreadable..MaxWrites
         /\ last_poll_time # None => last_poll_time \in Nat
         /\ filter # None => filter \in Nat
BY LoaderAssumption DEF Bookkeeping, TypeOK, Doc

(* Later moves last_poll_time up to the document's stamp, if it is behind. *)
LEMMA LaterSpec ==
  ASSUME Bookkeeping, NEW id \in Ids, batch[id] # None
  PROVE  /\ Later(batch[id]) \in 0..MaxWrites /\ Later(batch[id]) # None
         /\ batch[id].updatedAt <= Later(batch[id])
         /\ last_poll_time # None => last_poll_time <= Later(batch[id])
         /\ \/ Later(batch[id]) = batch[id].updatedAt
            \/ last_poll_time # None /\ Later(batch[id]) = last_poll_time
BY LoaderFields, NoneAssumption DEF Later, Bookkeeping, TypeOK

(* An empty collection, an idle loader and an empty engine satisfy the     *)
(* invariant.                                                              *)
LEMMA LoaderInit == Init => LoaderInv
<1>. SUFFICES ASSUME Init PROVE LoaderInv
  OBVIOUS
<1>1. 0 \in 0..MaxWrites /\ 0 \in 0..(ReconcileEvery - 1)
  BY LoaderAssumption
<1>2. Bookkeeping
  BY <1>1 DEF Init, Bookkeeping, TypeOK, NoOrphans, Holds, EmptyEngine, EmptyBatch, Steps
<1>3. Drained
  BY DEF Init, Drained, EmptyBatch
<1>4. StampsInPast /\ CursorScans
  BY <1>3 DEF Init, EmptyBatch, StampsInPast, CursorScans
<1>5. Fresh
  BY DEF Init, Fresh, ScannedApplied, BatchCurrent, SkippedApplied, PassedApplied, ReconcileSees
<1>. QED  BY <1>2, <1>4, <1>5 DEF LoaderInv

-----------------------------------------------------------------------------
(* The API's writes.                                                       *)
LEMMA WriteStep ==
  ASSUME LoaderInv, NEW id \in Ids, NEW active \in BOOLEAN, NEW type \in Types, NEW readable \in BOOLEAN,
         Write(id, active, type, readable)
  PROVE  LoaderInv'
<1>. DEFINE doc == [active |-> active, type |-> type, updatedAt |-> clock,
                    rev |-> IF readable THEN writes + 1 ELSE Unreadable]
<1>1. /\ docs' = [docs EXCEPT ![id] = doc] /\ writes' = writes + 1 /\ writes < MaxWrites
      /\ lapsed' = (lapsed \/ SeenStamp \/ BehindScan(id))
      /\ UNCHANGED <<clock, loader, engine>>
  BY DEF Write
<1>2. /\ UNCHANGED <<clock, engine, known_ids, last_poll_time, reconcile_counter, step, unread,
                     batch, filter, active_ids>>
  BY <1>1 DEF loader, cursor
<1>3. doc \in Doc /\ doc.updatedAt = clock /\ doc # None
  BY LoaderAssumption, NoneAssumption DEF LoaderInv, Bookkeeping, TypeOK, Doc, Unreadable, Write
<1>. HIDE DEF doc
<1>4. /\ docs'[id] = doc /\ \A other \in Ids \ {id} : docs'[other] = docs[other]
      /\ docs' \in [Ids -> Doc \cup {None}]
  BY <1>1, <1>3 DEF LoaderInv, Bookkeeping, TypeOK
<1>5. Bookkeeping'
  <2>1. writes' \in 0..MaxWrites
    BY <1>1, LoaderAssumption DEF LoaderInv, Bookkeeping
  <2>. QED  BY <1>2, <1>4, <2>1 DEF LoaderInv, Bookkeeping, TypeOK, NoOrphans, Holds
<1>6. StampsInPast'
  BY <1>2, <1>3, <1>4, LoaderFields DEF LoaderInv, StampsInPast
<1>7. CursorScans'
  BY <1>2 DEF LoaderInv, CursorScans, Drained
<1>8. ASSUME ~lapsed' PROVE Fresh'
  <2>1. Fresh /\ ~SeenStamp /\ ~BehindScan(id)
    BY <1>1, <1>8 DEF LoaderInv
  <2>2. ~Reached(clock) /\ \A stamp : Reached(stamp)' <=> Reached(stamp)
    <3>1. \A stamp : Reached(stamp)' <=> Reached(stamp)
      BY <1>2 DEF Reached
    <3>2. ~Reached(clock)
      BY <2>1, LoaderFields DEF LoaderInv, Reached, SeenStamp, StampsInPast
    <3>. QED  BY <3>1, <3>2
  <2>3. \A other \in Ids \ {id} : (Wanted(other)' <=> Wanted(other)) /\ (Follows(other)' <=> Follows(other))
    BY <1>2, <1>4 DEF Wanted, Follows, Rejected
  <2>4. step \in {"load", "poll"} /\ id \notin unread => unread = {}
    BY <2>1 DEF BehindScan
  <2>5. ScannedApplied'
    BY <1>2, <1>3, <1>4, <2>1, <2>2, <2>3, <2>4 DEF Fresh, ScannedApplied
  <2>6. BatchCurrent'
    BY <1>2, <1>3, <1>4, <2>1, <2>2, <2>4 DEF Fresh, BatchCurrent, LoaderInv, CursorScans
  <2>7. last_poll_time # None => ~(clock <= last_poll_time)
    BY <2>2 DEF Reached
  <2>8. step = "poll" /\ filter # None => ~(clock <= filter)
    BY <2>7, LoaderFields DEF LoaderInv, StampsInPast
  <2>9. SkippedApplied'
    BY <1>2, <1>3, <1>4, <2>1, <2>3, <2>8, LoaderAssumption DEF Fresh, SkippedApplied, LoaderInv, Bookkeeping, TypeOK
  <2>10. PassedApplied'
    BY <1>2, <1>3, <1>4, <2>1, <2>3, <2>7 DEF Fresh, PassedApplied
  <2>11. ReconcileSees'
    BY <1>2, <1>3, <1>4, <2>1, <2>3, <2>7 DEF Fresh, ReconcileSees
  <2>. QED  BY <2>5, <2>6, <2>9, <2>10, <2>11 DEF Fresh
<1>. QED  BY <1>5, <1>6, <1>7, <1>8 DEF LoaderInv

(* A document deleted from the collection: the pass in flight keeps its    *)
(* copy.                                                                   *)
LEMMA DeleteStep ==
  ASSUME LoaderInv, NEW id \in Ids, Delete(id)
  PROVE  LoaderInv'
<1>1. /\ docs' = [docs EXCEPT ![id] = None]
      /\ UNCHANGED <<clock, writes, engine, known_ids, last_poll_time, reconcile_counter, step, unread,
                     batch, filter, active_ids, lapsed>>
  BY DEF Delete, loader, cursor
<1>2. docs'[id] = None /\ \A other \in Ids \ {id} : docs'[other] = docs[other]
  BY <1>1 DEF LoaderInv, Bookkeeping, TypeOK
<1>3. Bookkeeping'
  BY <1>1 DEF LoaderInv, Bookkeeping, TypeOK, NoOrphans, Holds
<1>4. StampsInPast' /\ CursorScans'
  BY <1>1, <1>2 DEF LoaderInv, StampsInPast, CursorScans, Drained
<1>5. ASSUME ~lapsed' PROVE Fresh'
  <2>1. Fresh /\ \A stamp : Reached(stamp)' <=> Reached(stamp)
    BY <1>1, <1>5 DEF LoaderInv, Reached
  <2>2. /\ ~Wanted(id)'
        /\ \A other \in Ids \ {id} : (Wanted(other)' <=> Wanted(other)) /\ (Follows(other)' <=> Follows(other))
    BY <1>1, <1>2 DEF Wanted, Follows, Rejected
  <2>3. ScannedApplied' /\ BatchCurrent'
    BY <1>1, <1>2, <2>1, <2>2 DEF Fresh, ScannedApplied, BatchCurrent
  <2>4. SkippedApplied' /\ PassedApplied' /\ ReconcileSees'
    BY <1>1, <1>2, <2>1, <2>2 DEF Fresh, SkippedApplied, PassedApplied, ReconcileSees, LoaderInv, Bookkeeping, TypeOK
  <2>. QED  BY <2>3, <2>4 DEF Fresh
<1>. QED  BY <1>3, <1>4, <1>5 DEF LoaderInv

(* Time moves on.                                                          *)
LEMMA TickStep ==
  ASSUME LoaderInv, Tick
  PROVE  LoaderInv'
<1>1. /\ clock' = clock + 1 /\ clock < MaxWrites
      /\ UNCHANGED <<docs, writes, engine, known_ids, last_poll_time, reconcile_counter, step, unread,
                     batch, filter, active_ids, lapsed>>
  BY DEF Tick, loader, cursor
<1>2. Bookkeeping'
  <2>1. clock' \in 0..MaxWrites
    BY <1>1, LoaderFields DEF LoaderInv
  <2>. QED  BY <1>1, <2>1 DEF LoaderInv, Bookkeeping, TypeOK, NoOrphans, Holds
<1>3. StampsInPast' /\ CursorScans'
  BY <1>1, LoaderFields DEF LoaderInv, StampsInPast, CursorScans, Drained
<1>4. Fresh => Fresh'
  BY <1>1 DEF Fresh, ScannedApplied, BatchCurrent, SkippedApplied, PassedApplied, ReconcileSees, Reached, Wanted,
              Follows, Rejected
<1>. QED  BY <1>1, <1>2, <1>3, <1>4 DEF LoaderInv

-----------------------------------------------------------------------------
(* Cursors.                                                                *)
LEMMA FetchStep ==
  ASSUME LoaderInv, Fetch
  PROVE  LoaderInv'
<1>1. /\ step \in {"load", "poll", "reconcile"} /\ Drained /\ unread # {}
      /\ UNCHANGED <<docs, clock, writes, engine, known_ids, last_poll_time, reconcile_counter, step,
                     filter, active_ids, lapsed>>
  BY DEF Fetch, mongo
<1>2. PICK chunk \in SUBSET unread :
        /\ unread' = unread \ chunk
        /\ batch' = [id \in Ids |-> IF id \in chunk /\ docs[id] # None /\ Matches(docs[id])
                                    THEN docs[id] ELSE None]
  BY DEF Fetch
<1>3. \A id \in Ids :
        /\ batch[id] = None
        /\ batch'[id] # None => batch'[id] = docs[id] /\ id \in chunk /\ id \notin unread'
        /\ id \in chunk /\ docs[id] # None /\ Matches(docs[id]) => batch'[id] = docs[id]
  BY <1>1, <1>2 DEF Drained
<1>4. Bookkeeping'
  BY <1>1, <1>2 DEF LoaderInv, Bookkeeping, TypeOK, NoOrphans, Holds
<1>5. StampsInPast' /\ CursorScans'
  BY <1>1, <1>3 DEF LoaderInv, StampsInPast, CursorScans
<1>6. ASSUME ~lapsed' PROVE Fresh'
  <2>1. Fresh
    BY <1>1, <1>6 DEF LoaderInv
  <2>2. \A id : (Wanted(id)' <=> Wanted(id)) /\ (Follows(id)' <=> Follows(id))
    BY <1>1 DEF Wanted, Follows, Rejected
  <2>3. ScannedApplied'
    <3>1. SUFFICES ASSUME step \in {"load", "poll"}, NEW id \in Ids, Wanted(id), id \notin unread', ~Follows(id)
                   PROVE  batch'[id] = docs[id]
      BY <1>1, <2>2 DEF ScannedApplied
    <3>2. id \in unread
      BY <1>1, <1>3, <2>1, <3>1 DEF Fresh, ScannedApplied, Wanted
    <3>3. id \in chunk /\ docs[id] # None
      BY <1>2, <3>1, <3>2 DEF Wanted
    <3>4. Matches(docs[id])
      <4>1. CASE step = "load"
        BY <3>1, <4>1 DEF Matches, Wanted
      <4>2. CASE step = "poll"
        <5>1. filter # None => ~(docs[id].updatedAt <= filter)
          BY <2>1, <3>1, <3>2, <4>2 DEF Fresh, SkippedApplied
        <5>2. filter = None \/ docs[id].updatedAt > filter
          BY <3>3, <5>1, LoaderFields DEF LoaderInv
        <5>. QED  BY <4>2, <5>2 DEF Matches
      <4>. QED  BY <3>1, <4>1, <4>2
    <3>. QED  BY <1>3, <3>3, <3>4
  <2>4. BatchCurrent'
    BY <1>1, <1>3 DEF BatchCurrent
  <2>5. SkippedApplied'
    BY <1>1, <1>2, <2>1, <2>2 DEF Fresh, SkippedApplied
  <2>6. PassedApplied'
    BY <1>1, <2>1, <2>2 DEF Fresh, PassedApplied
  <2>7. ReconcileSees'
    <3>1. SUFFICES ASSUME step = "reconcile", last_poll_time # None, NEW id \in Ids, Wanted(id),
                          docs[id].updatedAt <= last_poll_time, id \notin unread', id \notin active_ids
                   PROVE  batch'[id] # None
      BY <1>1, <2>2 DEF ReconcileSees
    <3>2. id \in unread
      BY <1>3, <2>1, <3>1 DEF Fresh, ReconcileSees
    <3>3. Matches(docs[id]) /\ docs[id] # None
      BY <3>1 DEF Matches, Wanted
    <3>. QED  BY <1>2, <1>3, <3>1, <3>2, <3>3
  <2>. QED  BY <2>3, <2>4, <2>5, <2>6, <2>7 DEF Fresh
<1>. QED  BY <1>4, <1>5, <1>6 DEF LoaderInv

(* The initial load opens its cursor.                                      *)
LEMMA StartLoadStep ==
  ASSUME LoaderInv, StartLoad
  PROVE  LoaderInv'
<1>1. /\ step = "start" /\ step' = "load" /\ unread' = Ids
      /\ UNCHANGED <<docs, clock, writes, engine, known_ids, last_poll_time, reconcile_counter, batch,
                     filter, active_ids, lapsed>>
  BY DEF StartLoad, Open, mongo
<1>2. \A id \in Ids : batch[id] = None
  BY <1>1 DEF LoaderInv, CursorScans, Drained
<1>3. Bookkeeping'
  BY <1>1 DEF LoaderInv, Bookkeeping, TypeOK, NoOrphans, Holds, Steps
<1>4. StampsInPast' /\ CursorScans'
  BY <1>1, <1>2 DEF LoaderInv, StampsInPast, CursorScans
<1>5. Fresh'
  BY <1>1, <1>2 DEF Fresh, ScannedApplied, BatchCurrent, SkippedApplied, PassedApplied, ReconcileSees
<1>. QED  BY <1>3, <1>4, <1>5 DEF LoaderInv

(* A poll opens its cursor, with the last poll time as its filter.         *)
LEMMA StartPollStep ==
  ASSUME LoaderInv, StartPoll
  PROVE  LoaderInv'
<1>1. /\ step = "idle" /\ step' = "poll" /\ unread' = Ids /\ filter' = last_poll_time
      /\ UNCHANGED <<docs, clock, writes, engine, known_ids, last_poll_time, reconcile_counter, batch,
                     active_ids, lapsed>>
  BY DEF StartPoll, Open, mongo
<1>2. \A id \in Ids : batch[id] = None
  BY <1>1 DEF LoaderInv, CursorScans, Drained
<1>3. Bookkeeping'
  BY <1>1 DEF LoaderInv, Bookkeeping, TypeOK, NoOrphans, Holds, Steps
<1>4. StampsInPast' /\ CursorScans'
  <2>1. last_poll_time # None => last_poll_time <= last_poll_time
    BY LoaderFields DEF LoaderInv
  <2>. QED  BY <1>1, <1>2, <2>1 DEF LoaderInv, StampsInPast, CursorScans
<1>5. ASSUME ~lapsed' PROVE Fresh'
  <2>1. PassedApplied
    BY <1>1, <1>5 DEF LoaderInv, Fresh
  <2>2. \A id : (Wanted(id)' <=> Wanted(id)) /\ (Follows(id)' <=> Follows(id))
    BY <1>1 DEF Wanted, Follows, Rejected
  <2>3. SkippedApplied'
    BY <1>1, <2>1, <2>2 DEF SkippedApplied, PassedApplied
  <2>. QED
    BY <1>1, <1>2, <2>3 DEF Fresh, ScannedApplied, BatchCurrent, PassedApplied, ReconcileSees
<1>. QED  BY <1>3, <1>4, <1>5 DEF LoaderInv

(* At the end of a load or a poll, everything scanned is applied.          *)
LEMMA FinishStep ==
  ASSUME LoaderInv, FinishLoad \/ FinishPoll
  PROVE  LoaderInv'
<1>1. /\ step \in {"load", "poll"} /\ step' \in {"idle", "polled"} /\ Drained /\ unread = {}
      /\ UNCHANGED <<docs, clock, writes, engine, known_ids, last_poll_time, reconcile_counter, unread,
                     batch, filter, active_ids, lapsed>>
  BY DEF FinishLoad, FinishPoll, mongo, cursor
<1>2. Bookkeeping'
  BY <1>1 DEF LoaderInv, Bookkeeping, TypeOK, NoOrphans, Holds, Steps
<1>3. StampsInPast' /\ CursorScans'
  BY <1>1 DEF LoaderInv, StampsInPast, CursorScans, Drained
<1>4. ASSUME ~lapsed' PROVE Fresh'
  <2>1. ScannedApplied
    BY <1>1, <1>4 DEF LoaderInv, Fresh
  <2>2. \A id : (Wanted(id)' <=> Wanted(id)) /\ (Follows(id)' <=> Follows(id))
    BY <1>1 DEF Wanted, Follows, Rejected
  <2>3. PassedApplied'
    BY <1>1, <2>1, <2>2 DEF PassedApplied, ScannedApplied, Reached, Drained, Wanted
  <2>. QED
    BY <1>1, <2>3 DEF Fresh, ScannedApplied, BatchCurrent, SkippedApplied, ReconcileSees
<1>. QED  BY <1>2, <1>3, <1>4 DEF LoaderInv

(* A poll ends: the loader waits for the next one, or begins to            *)
(* reconcile.                                                              *)
LEMMA EndPollStep ==
  ASSUME LoaderInv, EndPoll
  PROVE  LoaderInv'
<1>1. /\ step = "polled" /\ active_ids' = {}
      /\ UNCHANGED <<docs, clock, writes, engine, known_ids, last_poll_time, batch, filter, lapsed>>
      /\ \/ step' = "reconcile" /\ unread' = Ids /\ reconcile_counter' = 0
         \/ /\ step' = "idle" /\ unread' = unread
            /\ reconcile_counter + 1 < ReconcileEvery /\ reconcile_counter' = reconcile_counter + 1
  BY LoaderAssumption DEF EndPoll, CountPoll, Open, mongo, LoaderInv, Bookkeeping, TypeOK
<1>2. \A id \in Ids : batch[id] = None
  BY <1>1 DEF LoaderInv, CursorScans, Drained
<1>3. Bookkeeping'
  <2>1. reconcile_counter' \in 0..(ReconcileEvery - 1)
    BY <1>1, LoaderAssumption DEF LoaderInv, Bookkeeping, TypeOK
  <2>. QED  BY <1>1, <2>1 DEF LoaderInv, Bookkeeping, TypeOK, NoOrphans, Holds, Steps
<1>4. StampsInPast' /\ CursorScans'
  BY <1>1, <1>2 DEF LoaderInv, StampsInPast, CursorScans, Drained
<1>5. ASSUME ~lapsed' PROVE Fresh'
  <2>1. PassedApplied
    BY <1>1, <1>5 DEF LoaderInv, Fresh
  <2>2. \A id : (Wanted(id)' <=> Wanted(id)) /\ (Follows(id)' <=> Follows(id))
    BY <1>1 DEF Wanted, Follows, Rejected
  <2>3. PassedApplied'
    BY <1>1, <2>1, <2>2 DEF PassedApplied
  <2>. QED
    BY <1>1, <2>3 DEF Fresh, ScannedApplied, BatchCurrent, SkippedApplied, ReconcileSees
<1>. QED  BY <1>3, <1>4, <1>5 DEF LoaderInv

-----------------------------------------------------------------------------
(* What a load or poll does with one document of the batch: id is the only *)
(* condition whose revisions change, and is as the document says.          *)
LEMMA AppliedStep ==
  ASSUME LoaderInv, NEW id \in Ids, batch[id] # None, step \in {"load", "poll"}, Bookkeeping',
         UNCHANGED <<docs, clock, writes, reconcile_counter, step, unread, filter, active_ids, lapsed>>,
         last_poll_time' = Later(batch[id]), batch' = [batch EXCEPT ![id] = None],
         \A other \in Ids \ {id} : Follows(other) => Follows(other)',
         docs[id] = batch[id] /\ Wanted(id) => Follows(id)'
  PROVE  LoaderInv'
<1>1. /\ batch'[id] = None /\ \A other \in Ids \ {id} : batch'[other] = batch[other]
  BY DEF LoaderInv, Bookkeeping, TypeOK
<1>2. StampsInPast'
  BY <1>1, LoaderFields, LaterSpec DEF LoaderInv, StampsInPast
<1>3. CursorScans'
  BY <1>1 DEF LoaderInv, CursorScans, Drained
<1>4. ASSUME ~lapsed' PROVE Fresh'
  <2>1. Fresh
    BY <1>4 DEF LoaderInv
  <2>2. \A other \in Ids : docs[other] # None /\ Reached(docs[other].updatedAt)' => Reached(docs[other].updatedAt)
    <3>1. SUFFICES ASSUME NEW other \in Ids, docs[other] # None, Reached(docs[other].updatedAt)'
                   PROVE  Reached(docs[other].updatedAt)
      OBVIOUS
    <3>. DEFINE stamp == docs[other].updatedAt
    <3>2. stamp' = stamp
      OBVIOUS
    <3>3. \/ stamp <= last_poll_time'
          \/ \E third \in Ids \ {id} : batch[third] # None /\ stamp <= batch[third].updatedAt
      BY <1>1, <3>1, <3>2 DEF Reached
    <3>4. CASE stamp <= last_poll_time'
      BY <3>4, LaterSpec DEF Reached, LoaderInv
    <3>. QED  BY <3>3, <3>4 DEF Reached
  <2>3. \A other : Wanted(other)' <=> Wanted(other)
    BY DEF Wanted
  <2>4. ScannedApplied'
    <3>1. SUFFICES ASSUME NEW other \in Ids, Wanted(other), other \notin unread,
                          unread # {} \/ Reached(docs[other].updatedAt)', ~Follows(other)'
                   PROVE  batch'[other] = docs[other]
      BY <2>3 DEF ScannedApplied
    <3>2. unread # {} \/ Reached(docs[other].updatedAt)
      BY <2>2, <3>1 DEF Wanted
    <3>3. Follows(other) \/ batch[other] = docs[other]
      BY <2>1, <3>1, <3>2 DEF Fresh, ScannedApplied
    <3>4. CASE other = id
      <4>1. docs[id] # batch[id]
        BY <3>1, <3>4
      <4>. QED  BY <2>1, <3>1, <3>2, <3>4, <4>1 DEF Fresh, BatchCurrent, Wanted
    <3>5. CASE other # id
      BY <1>1, <3>1, <3>3, <3>5
    <3>. QED  BY <3>4, <3>5
  <2>5. BatchCurrent'
    BY <1>1, <2>1, <2>2 DEF Fresh, BatchCurrent
  <2>6. SkippedApplied'
    <3>1. id \notin unread
      BY DEF LoaderInv, CursorScans
    <3>. QED  BY <2>1, <2>3, <3>1 DEF Fresh, SkippedApplied, LoaderInv, Bookkeeping, TypeOK
  <2>. QED  BY <2>4, <2>5, <2>6 DEF Fresh, PassedApplied, ReconcileSees
<1>. QED  BY <1>2, <1>3, <1>4 DEF LoaderInv

(* Storing one readable document touches no other alert, and brings its    *)
(* own up to date.                                                         *)
LEMMA StoredSpec ==
  ASSUME LoaderInv, NEW id \in Ids, Yields(id), engine' = Stored(id, batch[id]), docs' = docs
  PROVE  /\ engine' \in [Registered -> [Ids -> 1..MaxWrites \cup {None}]]
         /\ \A other \in Ids \ {id}, type \in Registered : engine'[type][other] = engine[type][other]
         /\ docs[id] = batch[id] => Follows(id)'
<1>1. /\ engine \in [Registered -> [Ids -> 1..MaxWrites \cup {None}]]
      /\ batch[id].rev \in 1..MaxWrites
  BY LoaderFields DEF LoaderInv, Bookkeeping, TypeOK, Yields, Unreadable
<1>2. CASE batch[id].type \in Registered
  <2>1. engine' = [engine EXCEPT ![batch[id].type][id] = batch[id].rev]
    BY <1>2 DEF Stored
  <2>. QED  BY <1>1, <1>2, <2>1 DEF Follows
<1>3. CASE batch[id].type \notin Registered
  BY <1>1, <1>3 DEF Stored, Follows
<1>. QED  BY <1>2, <1>3

(* Removing alerts takes them out of every type and touches no other       *)
(* alert.                                                                  *)
LEMMA RemovedSpec ==
  ASSUME LoaderInv, NEW ids \in SUBSET Ids, engine' = Removed(ids)
  PROVE  /\ engine' \in [Registered -> [Ids -> 1..MaxWrites \cup {None}]]
         /\ \A other \in Ids \ ids, type \in Registered : engine'[type][other] = engine[type][other]
         /\ \A other \in ids, type \in Registered : engine'[type][other] = None
BY DEF Removed, LoaderInv, Bookkeeping, TypeOK

(* The initial load stores one active document.                            *)
LEMMA LoadDocStep ==
  ASSUME LoaderInv, NEW id \in Ids, LoadDoc(id)
  PROVE  LoaderInv'
<1>1. /\ step = "load" /\ Yields(id) /\ known_ids' = known_ids \cup {id} /\ batch[id] # None
      /\ last_poll_time' = Later(batch[id]) /\ engine' = Stored(id, batch[id])
      /\ batch' = [batch EXCEPT ![id] = None]
      /\ UNCHANGED <<docs, clock, writes, reconcile_counter, step, unread, filter, active_ids, lapsed>>
  BY DEF LoadDoc, mongo, Yields
<1>2. /\ engine' \in [Registered -> [Ids -> 1..MaxWrites \cup {None}]]
      /\ \A other \in Ids \ {id}, type \in Registered : engine'[type][other] = engine[type][other]
      /\ docs[id] = batch[id] => Follows(id)'
  BY <1>1, StoredSpec
<1>3. Later(batch[id]) \in 0..MaxWrites
  BY <1>1, LaterSpec DEF LoaderInv
<1>4. Bookkeeping'
  BY <1>1, <1>2, <1>3 DEF LoaderInv, Bookkeeping, TypeOK, NoOrphans, Holds
<1>5. \A other \in Ids \ {id} : Follows(other) => Follows(other)'
  BY <1>1, <1>2 DEF Follows, Wanted, Rejected
<1>. QED  BY <1>1, <1>2, <1>4, <1>5, AppliedStep

(* A poll applies one document: the old entry goes, an active one is       *)
(* stored.                                                                 *)
LEMMA ApplyDocStep ==
  ASSUME LoaderInv, NEW id \in Ids, ApplyDoc(id)
  PROVE  LoaderInv'
<1>1. /\ step = "poll" /\ Yields(id) /\ batch[id] # None
      /\ last_poll_time' = Later(batch[id]) /\ batch' = [batch EXCEPT ![id] = None]
      /\ UNCHANGED <<docs, clock, writes, reconcile_counter, step, unread, filter, active_ids, lapsed>>
  BY DEF ApplyDoc, mongo, Yields
<1>2. Later(batch[id]) \in 0..MaxWrites
  BY <1>1, LaterSpec DEF LoaderInv
<1>3. /\ engine' \in [Registered -> [Ids -> 1..MaxWrites \cup {None}]]
      /\ \A other \in Ids \ {id}, type \in Registered : engine'[type][other] = engine[type][other]
      /\ docs[id] = batch[id] /\ Wanted(id) => Follows(id)'
      /\ known_ids' \subseteq Ids /\ \A other \in Ids \ {id} : other \in known_ids => other \in known_ids'
      /\ Holds(id)' => id \in known_ids'
  <2>1. CASE batch[id].active
    <3>1. engine' = Stored(id, batch[id]) /\ known_ids' = known_ids \cup {id}
      BY <2>1 DEF ApplyDoc
    <3>. QED  BY <1>1, <3>1, StoredSpec DEF LoaderInv, Bookkeeping, TypeOK
  <2>2. CASE ~batch[id].active /\ id \in known_ids
    <3>1. engine' = Removed({id}) /\ known_ids' = known_ids \ {id}
      BY <2>2 DEF ApplyDoc, Deactivate
    <3>2. ~Holds(id)'
      BY <3>1, RemovedSpec DEF Holds
    <3>. QED  BY <2>2, <3>1, <3>2, RemovedSpec DEF LoaderInv, Bookkeeping, TypeOK, Wanted
  <2>3. CASE ~batch[id].active /\ id \notin known_ids
    <3>1. engine' = engine /\ known_ids' = known_ids
      BY <2>3 DEF ApplyDoc, Deactivate
    <3>. QED  BY <2>3, <3>1 DEF LoaderInv, Bookkeeping, TypeOK, NoOrphans, Holds, Wanted
  <2>. QED  BY <2>1, <2>2, <2>3
<1>4. NoOrphans'
  BY <1>3 DEF LoaderInv, Bookkeeping, NoOrphans, Holds
<1>5. Bookkeeping'
  BY <1>1, <1>2, <1>3, <1>4 DEF LoaderInv, Bookkeeping, TypeOK
<1>6. \A other \in Ids \ {id} : Follows(other) => Follows(other)'
  BY <1>1, <1>3 DEF Follows, Wanted, Rejected
<1>. QED  BY <1>1, <1>3, <1>5, <1>6, AppliedStep

(* reconcile notes one document it found active.                           *)
LEMMA CollectActiveStep ==
  ASSUME LoaderInv, NEW id \in Ids, CollectActive(id)
  PROVE  LoaderInv'
<1>1. /\ step = "reconcile" /\ active_ids' = active_ids \cup {id} /\ batch' = [batch EXCEPT ![id] = None]
      /\ UNCHANGED <<docs, clock, writes, engine, known_ids, last_poll_time, reconcile_counter, step,
                     unread, filter, lapsed>>
  BY DEF CollectActive, mongo
<1>2. batch'[id] = None /\ \A other \in Ids \ {id} : batch'[other] = batch[other]
  BY <1>1 DEF LoaderInv, Bookkeeping, TypeOK
<1>3. Bookkeeping'
  BY <1>1 DEF LoaderInv, Bookkeeping, TypeOK, NoOrphans, Holds
<1>4. StampsInPast' /\ CursorScans'
  BY <1>1, <1>2 DEF LoaderInv, StampsInPast, CursorScans
<1>5. ASSUME ~lapsed' PROVE Fresh'
  <2>1. Fresh
    BY <1>1, <1>5 DEF LoaderInv
  <2>2. \A other : (Wanted(other)' <=> Wanted(other)) /\ (Follows(other)' <=> Follows(other))
    BY <1>1 DEF Wanted, Follows, Rejected
  <2>3. PassedApplied'
    BY <1>1, <2>1, <2>2 DEF Fresh, PassedApplied
  <2>4. ReconcileSees'
    BY <1>1, <1>2, <2>1, <2>2 DEF Fresh, ReconcileSees
  <2>. QED  BY <1>1, <2>3, <2>4 DEF Fresh, ScannedApplied, BatchCurrent, SkippedApplied
<1>. QED  BY <1>3, <1>4, <1>5 DEF LoaderInv

(* reconcile removes nothing that last_poll_time has passed.               *)
LEMMA DropStaleStep ==
  ASSUME LoaderInv, DropStale
  PROVE  LoaderInv'
<1>. DEFINE stale == known_ids \ active_ids
<1>1. /\ step = "reconcile" /\ Drained /\ unread = {} /\ engine' = Removed(stale)
      /\ known_ids' = known_ids \cap active_ids /\ step' = "idle"
      /\ UNCHANGED <<docs, clock, writes, last_poll_time, reconcile_counter, unread, batch, filter,
                     active_ids, lapsed>>
  BY DEF DropStale, mongo, cursor
<1>2. stale \subseteq Ids
  BY DEF LoaderInv, Bookkeeping, TypeOK
<1>3. /\ engine' \in [Registered -> [Ids -> 1..MaxWrites \cup {None}]]
      /\ \A other \in Ids \ stale, type \in Registered : engine'[type][other] = engine[type][other]
      /\ \A other \in stale, type \in Registered : engine'[type][other] = None
  BY <1>1, <1>2, RemovedSpec
<1>4. NoOrphans'
  BY <1>1, <1>3 DEF LoaderInv, Bookkeeping, NoOrphans, Holds
<1>5. Bookkeeping'
  BY <1>1, <1>3, <1>4 DEF LoaderInv, Bookkeeping, TypeOK, Steps
<1>6. StampsInPast' /\ CursorScans'
  BY <1>1 DEF LoaderInv, StampsInPast, CursorScans, Drained
<1>7. ASSUME ~lapsed' PROVE Fresh'
  <2>1. Fresh
    BY <1>1, <1>7 DEF LoaderInv
  <2>2. \A id : Wanted(id)' <=> Wanted(id)
    BY <1>1 DEF Wanted
  <2>3. PassedApplied'
    <3>1. SUFFICES ASSUME last_poll_time # None, NEW id \in Ids, Wanted(id), docs[id].updatedAt <= last_poll_time
                   PROVE  Follows(id)'
      BY <1>1, <2>2 DEF PassedApplied
    <3>2. id \in active_ids
      BY <1>1, <2>1, <3>1 DEF Fresh, ReconcileSees, Drained
    <3>3. Follows(id)
      BY <1>1, <2>1, <3>1 DEF Fresh, PassedApplied
    <3>. QED  BY <1>1, <1>3, <3>2, <3>3 DEF Follows, Wanted, Rejected
  <2>. QED  BY <1>1, <2>3 DEF Fresh, ScannedApplied, BatchCurrent, SkippedApplied, ReconcileSees
<1>. QED  BY <1>5, <1>6, <1>7 DEF LoaderInv

-----------------------------------------------------------------------------
(* A poll that fails lapses; a reconcile that fails has changed nothing.   *)
LEMMA ScanFailsStep ==
  ASSUME LoaderInv, ScanFails
  PROVE  LoaderInv'
<1>1. /\ step \in {"poll", "reconcile"} /\ step' = IF step = "poll" THEN "polled" ELSE "idle"
      /\ batch' = EmptyBatch /\ unread' = {} /\ lapsed' = (lapsed \/ step = "poll")
      /\ UNCHANGED <<docs, clock, writes, engine, known_ids, last_poll_time, reconcile_counter, filter,
                     active_ids>>
  BY DEF ScanFails, mongo
<1>2. step' \in {"polled", "idle"} /\ \A id \in Ids : batch'[id] = None
  BY <1>1 DEF EmptyBatch
<1>3. Bookkeeping'
  BY <1>1, <1>2 DEF LoaderInv, Bookkeeping, TypeOK, NoOrphans, Holds, Steps, EmptyBatch
<1>4. StampsInPast' /\ CursorScans'
  BY <1>1, <1>2 DEF LoaderInv, StampsInPast, CursorScans, Drained
<1>5. ASSUME ~lapsed' PROVE Fresh'
  <2>1. Fresh /\ step = "reconcile"
    BY <1>1, <1>5 DEF LoaderInv
  <2>2. \A id : (Wanted(id)' <=> Wanted(id)) /\ (Follows(id)' <=> Follows(id))
    BY <1>1 DEF Wanted, Follows, Rejected
  <2>3. PassedApplied'
    BY <1>1, <2>1, <2>2 DEF Fresh, PassedApplied
  <2>. QED  BY <1>2, <2>3 DEF Fresh, ScannedApplied, BatchCurrent, SkippedApplied, ReconcileSees
<1>. QED  BY <1>3, <1>4, <1>5 DEF LoaderInv

(* A document the initial load cannot read ends the runtime.               *)
LEMMA LoadFailsStep ==
  ASSUME LoaderInv, NEW id \in Ids, LoadFails(id)
  PROVE  LoaderInv'
<1>1. /\ step' = "ended" /\ engine' = EmptyEngine /\ known_ids' = {} /\ last_poll_time' = None
      /\ batch' = EmptyBatch /\ unread' = {} /\ lapsed'
      /\ UNCHANGED <<docs, clock, writes, reconcile_counter, filter, active_ids>>
  BY DEF LoadFails, mongo
<1>2. Bookkeeping'
  BY <1>1 DEF LoaderInv, Bookkeeping, TypeOK, NoOrphans, Holds, Steps, EmptyEngine, EmptyBatch
<1>3. StampsInPast' /\ CursorScans'
  BY <1>1 DEF LoaderInv, StampsInPast, CursorScans, Drained, EmptyBatch
<1>. QED  BY <1>1, <1>2, <1>3 DEF LoaderInv

(* A restart loses the engine and the loader's clock, and nothing is       *)
(* followed.                                                               *)
LEMMA RestartStep ==
  ASSUME LoaderInv, Restart
  PROVE  LoaderInv'
<1>1. /\ step' = "start" /\ engine' = EmptyEngine /\ known_ids' = {} /\ last_poll_time' = None
      /\ reconcile_counter' = 0 /\ filter' = None /\ active_ids' = {}
      /\ batch' = EmptyBatch /\ unread' = {}
      /\ UNCHANGED <<docs, clock, writes>>
  BY DEF Restart, mongo
<1>2. 0 \in 0..(ReconcileEvery - 1)
  BY LoaderAssumption
<1>3. Bookkeeping'
  BY <1>1, <1>2 DEF LoaderInv, Bookkeeping, TypeOK, NoOrphans, Holds, Steps, EmptyEngine, EmptyBatch
<1>4. StampsInPast' /\ CursorScans'
  BY <1>1 DEF LoaderInv, StampsInPast, CursorScans, Drained, EmptyBatch
<1>5. Fresh'
  BY <1>1 DEF Fresh, ScannedApplied, BatchCurrent, SkippedApplied, PassedApplied, ReconcileSees
<1>. QED  BY <1>3, <1>4, <1>5 DEF LoaderInv

-----------------------------------------------------------------------------
(* Every step of the loader or of a writer preserves the invariant.        *)
LEMMA LoaderNext == LoaderInv /\ [Next]_vars => LoaderInv'
<1>. SUFFICES ASSUME LoaderInv, [Next]_vars PROVE LoaderInv'
  OBVIOUS
<1>1. AnyType \in Types
  BY LoaderAssumption DEF AnyType
<1>2. CASE UNCHANGED vars
  <2>1. UNCHANGED <<docs, clock, writes, engine, known_ids, last_poll_time, reconcile_counter, step, unread,
                   batch, filter, active_ids, lapsed>>
    BY <1>2 DEF vars, mongo, loader, cursor
  <2>2. Bookkeeping' /\ StampsInPast' /\ CursorScans'
    BY <2>1 DEF LoaderInv, Bookkeeping, TypeOK, NoOrphans, Holds, StampsInPast, CursorScans, Drained
  <2>3. Fresh => Fresh'
    BY <2>1 DEF Fresh, ScannedApplied, BatchCurrent, SkippedApplied, PassedApplied, ReconcileSees, Reached,
                Wanted, Follows, Rejected
  <2>. QED  BY <2>1, <2>2, <2>3 DEF LoaderInv
<1>3. CASE \E id \in Ids, active \in BOOLEAN :
             \/ \E type \in Types : Write(id, active, type, TRUE)
             \/ Write(id, active, AnyType, FALSE)
  BY <1>1, <1>3, WriteStep
<1>4. CASE LoaderStep
  BY <1>4, StartLoadStep, FetchStep, FinishStep, StartPollStep, EndPollStep, DropStaleStep, LoadDocStep,
     ApplyDocStep, CollectActiveStep, ScanFailsStep, LoadFailsStep DEF LoaderStep, RejectDoc
<1>. QED
  BY <1>2, <1>3, <1>4, DeleteStep, TickStep, ScanFailsStep, RestartStep DEF Next, CursorError

(* The invariant holds in every reachable state.                           *)
LEMMA LoaderAlways == Spec => []LoaderInv
BY LoaderInit, LoaderNext, PTL DEF Spec

(* The loader knows every condition the engine holds, at every step of     *)
(* every scan, so that poll_delta and reconcile can remove it.             *)
THEOREM LoaderStaysConsistent == Spec => []Consistent
<1>1. LoaderInv => Consistent
  BY DEF LoaderInv, Bookkeeping, Consistent
<1>. QED  BY <1>1, LoaderAlways, PTL

(* last_poll_time passes no write that the loader has not applied, but for *)
(* the three lapses the history variable records.                          *)
THEOREM LoaderNothingBehindFilter == Spec => []NothingBehindFilter
<1>1. LoaderInv => NothingBehindFilter
  BY DEF LoaderInv, Fresh, PassedApplied, NothingBehindFilter
<1>. QED  BY <1>1, LoaderAlways, PTL

-----------------------------------------------------------------------------
(***************************************************************************)
(* Routing: what both caches hold is of a revision since the start.        *)
(***************************************************************************)
RoutingTypes ==
  /\ subscribers \in [Subscribers -> Subscriber \cup {NoDoc, Deleted}]
  /\ templates \in [Templates -> Template \cup {NoDoc, Deleted}]
  /\ runtimeTemplates \in [Templates -> Template \cup {NoDoc, Deleted}]
  /\ routings \in [Subscribers -> Routing \cup {NoDoc}]
  /\ renderings \in [Templates -> Rendering \cup {NoDoc}]
  /\ resolving # NoDoc =>
       /\ resolving \in [subscriber : Subscribers, template : Templates, routing : Routing,
                         left : SUBSET Channels]
       /\ resolving.left \subseteq DOMAIN resolving.routing /\ resolving.left # {}
  /\ requested \in [Subscribers -> SUBSET (Channels \X (Channels \cup {Override}))]
  /\ rendered \in [Templates -> SUBSET Nat]
  /\ lacking \subseteq Templates \X Channels
  /\ known \in [Subscribers -> SUBSET Subscriber]
  /\ starts \in 0..MaxStarts

(* A cached routing is of a revision known since the start, and all        *)
(* requests to the subscriber were routed by it.                           *)
RoutedByCache ==
  /\ \A s \in Subscribers :
       /\ starts > 0 /\ s \in Existing(subscribers) => subscribers[s] \in known[s]
       /\ routings[s] # NoDoc => \E doc \in known[s] : routings[s] = ToRouting(doc)
       /\ requested[s] # {} => routings[s] # NoDoc
       /\ \A request \in requested[s] :
            request[1] \in DOMAIN routings[s] /\ request[2] = routings[s][request[1]]
  /\ resolving # NoDoc =>
       /\ starts > 0
       /\ routings[resolving.subscriber] # NoDoc
       /\ resolving.routing = routings[resolving.subscriber]

(* What was rendered of a template is the cached rendering.                *)
RenderedByCache ==
  \A t \in Templates :
    /\ runtimeTemplates[t] = NoDoc => renderings[t] = NoDoc
    /\ \A version \in rendered[t] :
         renderings[t] # NoDoc /\ version = renderings[t].version

(* A channel that the template or its cached rendering has no content for  *)
(* is lacking.                                                             *)
Lacking(t, channels) == \A channel \in Channels \ channels : <<t, channel>> \in lacking

LackingKnown ==
  \A t \in Templates :
    /\ starts > 0 => Lacking(t, IF t \in Existing(runtimeTemplates)
                                THEN runtimeTemplates[t].channels ELSE {})
    /\ starts > 0 /\ renderings[t] # NoDoc => Lacking(t, renderings[t].channels)

RoutingIInv == RoutingTypes /\ RoutedByCache /\ RenderedByCache /\ LackingKnown

-----------------------------------------------------------------------------
(* What toRouting makes of a subscriber, and that it fits the subscriber.  *)
LEMMA ToRoutingSpec ==
  ASSUME NEW doc \in Subscriber
  PROVE  /\ ToRouting(doc) \in Routing /\ ToRouting(doc) # NoDoc
         /\ \A channel \in DOMAIN ToRouting(doc) :
              Fits(doc, <<channel, ToRouting(doc)[channel]>>)
<1>1. /\ doc.contacts \subseteq Channels
      /\ doc.channelPreferences \in [Channels -> Entries] \cup {NoPrefs}
  BY DEF Subscriber, Contacts
<1>2. CASE doc.channelPreferences = NoPrefs
  <2>1. ToRouting(doc) = [channel \in doc.contacts |-> channel]
    BY <1>2 DEF ToRouting
  <2>2. ToRouting(doc) \in [doc.contacts -> Channels \cup {Override}]
    BY <1>1, <2>1
  <2>3. ToRouting(doc) \in Routing
    BY <1>1, <2>1, <2>2 DEF Routing
  <2>4. QED
    BY <1>2, <2>1, <2>3, NoDocAssumption DEF Fits
<1>3. CASE doc.channelPreferences # NoPrefs
  <2> DEFINE on == {c \in Channels : /\ doc.channelPreferences[c].enabled \in {"yes", "unset"}
                                     /\ HasEndpoint(doc, c)}
             provider(c) == doc.channelPreferences[c].providerId
             to(c) == IF provider(c) = "none" THEN c ELSE provider(c)
  <2>1. ToRouting(doc) = [channel \in on |-> to(channel)]
    BY <1>3 DEF ToRouting
  <2>2. ASSUME NEW c \in on
        PROVE  /\ c \in Channels /\ to(c) \in {c, Override}
               /\ \/ IsChannelEnabled(doc.channelPreferences, c)
                  \/ doc.channelPreferences[c].enabled = "unset"
    <3>1. c \in Channels /\ doc.channelPreferences[c].enabled \in {"yes", "unset"}
      OBVIOUS
    <3>2. doc.channelPreferences[c] \in Entries
      BY <1>1, <1>3, <3>1
    <3>3. provider(c) \in {"none", Override}
      BY <3>2 DEF Entries, NoEntry
    <3>4. QED
      BY <3>1, <3>3 DEF IsChannelEnabled
  <2> HIDE DEF on, to
  <2>3. ToRouting(doc) \in [on -> Channels \cup {Override}] /\ on \subseteq Channels
    BY <2>1, <2>2
  <2>4. ToRouting(doc) \in Routing
    BY <2>1, <2>2, <2>3 DEF Routing
  <2>5. ASSUME NEW c \in on PROVE Fits(doc, <<c, to(c)>>)
    <3>1. PICK request : request = <<c, to(c)>>
      OBVIOUS
    <3>2. request[1] = c /\ request[2] = to(c)
      BY <3>1
    <3>3. Fits(doc, request)
      BY <1>3, <2>2, <3>2 DEF Fits, to
    <3>4. QED
      BY <3>1, <3>3
  <2>6. DOMAIN ToRouting(doc) = on /\ \A c \in on : ToRouting(doc)[c] = to(c)
    BY <2>1
  <2>7. QED
    BY <2>4, <2>5, <2>6, NoDocAssumption
<1>4. QED
  BY <1>2, <1>3

(* The domain of a routing is of channels, and its values are providers.   *)
LEMMA RoutingFields ==
  ASSUME NEW r \in Routing
  PROVE  DOMAIN r \subseteq Channels /\ \A c \in DOMAIN r : r[c] \in Channels \cup {Override}
BY DEF Routing

(* Nothing is cached before the first start.                               *)
LEMMA RoutingInitIInv == RoutingInit => RoutingIInv
<1> SUFFICES ASSUME RoutingInit PROVE RoutingIInv
  OBVIOUS
<1>1. RoutingTypes
  BY RoutingAssumption DEF RoutingInit, RoutingTypes
<1>2. RoutedByCache
  BY DEF RoutingInit, RoutedByCache
<1>3. RenderedByCache
  BY DEF RoutingInit, RenderedByCache
<1>4. LackingKnown
  BY DEF RoutingInit, LackingKnown
<1>5. QED
  BY <1>1, <1>2, <1>3, <1>4 DEF RoutingIInv

(* A write of a subscriber makes its revision known.                       *)
LEMMA WriteSubscriberIInv ==
  ASSUME RoutingIInv, NEW s \in Subscribers, NEW doc \in Subscriber \cup {Deleted},
         WriteSubscriber(s, doc)
  PROVE  RoutingIInv'
<1>1. /\ subscribers' = [subscribers EXCEPT ![s] = doc]
      /\ known' = IF doc = Deleted \/ starts = 0 THEN known
                  ELSE [known EXCEPT ![s] = known[s] \cup {doc}]
      /\ UNCHANGED <<templates, runtimeTemplates, lacking, routings, renderings, resolving,
                     requested, rendered, starts>>
  BY DEF WriteSubscriber, runtime
<1>2. /\ subscribers \in [Subscribers -> Subscriber \cup {NoDoc, Deleted}]
      /\ known \in [Subscribers -> SUBSET Subscriber]
  BY DEF RoutingIInv, RoutingTypes
<1>3. /\ subscribers' \in [Subscribers -> Subscriber \cup {NoDoc, Deleted}]
      /\ known' \in [Subscribers -> SUBSET Subscriber]
      /\ \A x \in Subscribers : subscribers'[x] = IF x = s THEN doc ELSE subscribers[x]
      /\ \A x \in Subscribers : known[x] \subseteq known'[x]
      /\ starts > 0 /\ doc # Deleted => doc \in known'[s]
  BY <1>1, <1>2
<1>4. RoutingTypes'
  BY <1>1, <1>3 DEF RoutingIInv, RoutingTypes
<1>5. RoutedByCache'
  <2>1. ASSUME NEW x \in Subscribers
        PROVE  /\ starts > 0 /\ x \in Existing(subscribers') => subscribers'[x] \in known'[x]
               /\ routings[x] # NoDoc => \E d \in known'[x] : routings[x] = ToRouting(d)
    <3>1. routings[x] # NoDoc => \E d \in known[x] : routings[x] = ToRouting(d)
      BY DEF RoutingIInv, RoutedByCache
    <3>2. CASE x = s
      BY <1>3, <3>1, <3>2 DEF Existing
    <3>3. CASE x # s
      <4>1. x \in Existing(subscribers') => x \in Existing(subscribers)
        BY <1>2, <1>3, <3>3 DEF Existing
      <4>2. QED
        BY <1>3, <3>1, <3>3, <4>1 DEF RoutingIInv, RoutedByCache
    <3>4. QED
      BY <3>2, <3>3
  <2>2. QED
    BY <1>1, <2>1 DEF RoutingIInv, RoutedByCache
<1>6. RenderedByCache' /\ LackingKnown'
  BY <1>1 DEF RoutingIInv, RenderedByCache, LackingKnown, Lacking
<1>7. QED
  BY <1>4, <1>5, <1>6 DEF RoutingIInv

(* A write of the API's template touches nothing the runtime reads.        *)
LEMMA WriteTemplateIInv ==
  ASSUME RoutingIInv, NEW t \in Templates, NEW doc \in Template \cup {Deleted},
         WriteTemplate(t, doc)
  PROVE  RoutingIInv'
<1>1. /\ templates' = [templates EXCEPT ![t] = doc]
      /\ UNCHANGED <<subscribers, runtimeTemplates, known, lacking, routings, renderings,
                     resolving, requested, rendered, starts>>
  BY DEF WriteTemplate, runtime
<1>2. RoutingTypes'
  BY <1>1 DEF RoutingIInv, RoutingTypes
<1>3. RoutedByCache' /\ RenderedByCache' /\ LackingKnown'
  BY <1>1 DEF RoutingIInv, RoutedByCache, RenderedByCache, LackingKnown, Lacking
<1>4. QED
  BY <1>2, <1>3 DEF RoutingIInv

(* A write of the runtime's notes the channels it has no content for.      *)
LEMMA WriteRuntimeTemplateIInv ==
  ASSUME RoutingIInv, NEW t \in Templates, NEW doc \in Template \cup {Deleted},
         WriteRuntimeTemplate(t, doc)
  PROVE  RoutingIInv'
<1> DEFINE missing == {t} \X (IF doc = Deleted THEN Channels ELSE Channels \ doc.channels)
<1>1. /\ runtimeTemplates' = [runtimeTemplates EXCEPT ![t] = doc]
      /\ lacking' = IF starts = 0 THEN lacking
                    ELSE IF runtimeTemplates[t] = NoDoc THEN (lacking \ ({t} \X Channels)) \cup missing
                    ELSE lacking \cup missing
      /\ UNCHANGED <<subscribers, templates, known, routings, renderings, resolving, requested,
                     rendered, starts>>
  BY DEF WriteRuntimeTemplate, runtime
<1>2. /\ runtimeTemplates \in [Templates -> Template \cup {NoDoc, Deleted}]
      /\ lacking \subseteq Templates \X Channels /\ starts \in Nat
  BY DEF RoutingIInv, RoutingTypes
<1>3. /\ runtimeTemplates' \in [Templates -> Template \cup {NoDoc, Deleted}]
      /\ lacking' \subseteq Templates \X Channels
      /\ \A x \in Templates : runtimeTemplates'[x] = IF x = t THEN doc ELSE runtimeTemplates[x]
  BY <1>1, <1>2
<1>4. RoutingTypes'
  BY <1>1, <1>3 DEF RoutingIInv, RoutingTypes
<1>5. RoutedByCache'
  BY <1>1 DEF RoutingIInv, RoutedByCache
<1>6. doc # NoDoc
  BY NoDocAssumption
<1>7. RenderedByCache'
  BY <1>1, <1>3, <1>6 DEF RoutingIInv, RenderedByCache
<1>8. LackingKnown'
  <2>1. ASSUME NEW x \in Templates, starts > 0
        PROVE  /\ Lacking(x, IF x \in Existing(runtimeTemplates)
                              THEN runtimeTemplates[x].channels ELSE {})'
               /\ renderings[x] # NoDoc => Lacking(x, renderings[x].channels)'
    <3>1. /\ Lacking(x, IF x \in Existing(runtimeTemplates) THEN runtimeTemplates[x].channels ELSE {})
          /\ renderings[x] # NoDoc => Lacking(x, renderings[x].channels)
          /\ runtimeTemplates[x] = NoDoc => renderings[x] = NoDoc
      BY <2>1 DEF RoutingIInv, LackingKnown, RenderedByCache
    <3>2. CASE x = t
      <4>1. missing \subseteq lacking' /\ (runtimeTemplates[t] # NoDoc => lacking \subseteq lacking')
        BY <1>1, <1>2, <2>1
      <4>2. x \in Existing(runtimeTemplates') <=> doc # Deleted
        BY <1>3, <1>6, <3>2 DEF Existing
      <4>3. \A channel \in Channels : doc = Deleted \/ channel \notin doc.channels =>
              <<t, channel>> \in lacking'
        BY <4>1
      <4>4. QED
        BY <1>1, <1>3, <3>1, <3>2, <4>1, <4>2, <4>3 DEF Lacking
    <3>3. CASE x # t
      <4>1. \A channel : <<x, channel>> \in lacking => <<x, channel>> \in lacking'
        BY <1>1, <3>3
      <4>2. x \in Existing(runtimeTemplates') <=> x \in Existing(runtimeTemplates)
        BY <1>2, <1>3, <3>3 DEF Existing
      <4>3. QED
        BY <1>1, <1>3, <3>1, <3>3, <4>1, <4>2 DEF Lacking
    <3>4. QED
      BY <3>2, <3>3
  <2>2. QED
    BY <1>1, <2>1 DEF LackingKnown
<1>9. QED
  BY <1>4, <1>5, <1>7, <1>8 DEF RoutingIInv

(* A start empties the routings and loads the active templates.            *)
LEMMA StartIInv ==
  ASSUME RoutingIInv, Start
  PROVE  RoutingIInv'
<1>1. /\ starts' = starts + 1 /\ starts < MaxStarts
      /\ routings' = [s \in Subscribers |-> NoDoc] /\ renderings' = ActiveTemplates
      /\ resolving' = NoDoc
      /\ requested' = [s \in Subscribers |-> {}] /\ rendered' = [t \in Templates |-> {}]
      /\ known' = [s \in Subscribers |-> IF s \in Existing(subscribers) THEN {subscribers[s]} ELSE {}]
      /\ UNCHANGED <<subscribers, templates, runtimeTemplates>>
  BY DEF Start
<1>2. \A x : x \in lacking' <=>
        \E t \in Templates : x \in {t} \X (IF t \in Existing(runtimeTemplates)
                                           THEN Channels \ runtimeTemplates[t].channels ELSE Channels)
  BY DEF Start
<1>3. /\ subscribers \in [Subscribers -> Subscriber \cup {NoDoc, Deleted}]
      /\ templates \in [Templates -> Template \cup {NoDoc, Deleted}]
      /\ runtimeTemplates \in [Templates -> Template \cup {NoDoc, Deleted}]
      /\ starts \in 0..MaxStarts /\ MaxStarts \in Nat
  BY RoutingAssumption DEF RoutingIInv, RoutingTypes
<1>4. \A t \in Templates : t \in Existing(runtimeTemplates) => runtimeTemplates[t] \in Template
  BY <1>3 DEF Existing
<1>5. /\ renderings' \in [Templates -> Rendering \cup {NoDoc}]
      /\ \A t \in Templates : renderings'[t] # NoDoc =>
           t \in Existing(runtimeTemplates) /\ renderings'[t].channels = runtimeTemplates[t].channels
  <2>1. \A t \in Templates : t \in Existing(runtimeTemplates) =>
          [version |-> runtimeTemplates[t].version,
           channels |-> runtimeTemplates[t].channels] \in Rendering
    BY <1>4 DEF Template, Rendering
  <2>2. QED
    BY <1>1, <2>1 DEF ActiveTemplates
<1>6. known' \in [Subscribers -> SUBSET Subscriber]
  BY <1>1, <1>3 DEF Existing
<1>7. lacking' \subseteq Templates \X Channels
  BY <1>2
<1>8. RoutingTypes'
  BY <1>1, <1>3, <1>5, <1>6, <1>7 DEF RoutingTypes
<1>9. RoutedByCache'
  BY <1>1 DEF RoutedByCache
<1>10. RenderedByCache'
  BY <1>1, <1>3, <1>5 DEF RenderedByCache, Existing
<1>11. LackingKnown'
  <2>1. ASSUME NEW t \in Templates,
               NEW channel \in Channels \ (IF t \in Existing(runtimeTemplates)
                                           THEN runtimeTemplates[t].channels ELSE {})
        PROVE  <<t, channel>> \in lacking'
    BY <1>2, <2>1
  <2>2. QED
    BY <1>1, <1>5, <2>1 DEF LackingKnown, Lacking
<1>12. QED
  BY <1>8, <1>9, <1>10, <1>11 DEF RoutingIInv

(* A match is routed by the cached routing, or by the subscriber as it is. *)
LEMMA ResolveIInv ==
  ASSUME RoutingIInv, NEW s \in Subscribers, NEW t \in Templates, NEW channels \in SUBSET Channels,
         Resolve(s, t, channels)
  PROVE  RoutingIInv'
<1>1. PICK routing, left :
        /\ routing = IF routings[s] # NoDoc THEN routings[s] ELSE ToRouting(subscribers[s])
        /\ left = channels \cap DOMAIN routing
        /\ routings' = [routings EXCEPT ![s] = routing]
        /\ resolving' = IF left = {} THEN NoDoc
                        ELSE [subscriber |-> s, template |-> t, routing |-> routing, left |-> left]
  BY DEF Resolve, Cached
<1>2. /\ starts > 0 /\ (routings[s] # NoDoc \/ s \in Existing(subscribers))
      /\ UNCHANGED <<renderings, requested, rendered, starts, subscribers, templates,
                     runtimeTemplates, known, lacking>>
  BY DEF Resolve, collections
<1>3. /\ subscribers \in [Subscribers -> Subscriber \cup {NoDoc, Deleted}]
      /\ routings \in [Subscribers -> Routing \cup {NoDoc}]
      /\ known \in [Subscribers -> SUBSET Subscriber]
  BY DEF RoutingIInv, RoutingTypes
<1>4. /\ routing \in Routing /\ routing # NoDoc
      /\ \E doc \in known[s] : routing = ToRouting(doc)
  <2>1. CASE routings[s] # NoDoc
    BY <1>1, <1>3, <2>1 DEF RoutingIInv, RoutedByCache
  <2>2. CASE routings[s] = NoDoc
    <3>1. s \in Existing(subscribers) /\ starts > 0 /\ routing = ToRouting(subscribers[s])
      BY <1>1, <1>2, <2>2
    <3>2. subscribers[s] \in Subscriber /\ subscribers[s] \in known[s]
      BY <1>3, <3>1 DEF Existing, RoutingIInv, RoutedByCache
    <3>3. QED
      BY <3>1, <3>2, ToRoutingSpec
  <2>3. QED
    BY <2>1, <2>2
<1>5. /\ routings' \in [Subscribers -> Routing \cup {NoDoc}]
      /\ \A x \in Subscribers : routings'[x] = IF x = s THEN routing ELSE routings[x]
  BY <1>1, <1>3, <1>4
<1>6. resolving' # NoDoc =>
        /\ resolving' \in [subscriber : Subscribers, template : Templates, routing : Routing,
                           left : SUBSET Channels]
        /\ resolving'.left \subseteq DOMAIN resolving'.routing /\ resolving'.left # {}
        /\ resolving'.subscriber = s /\ resolving'.routing = routing
  BY <1>1, <1>4
<1>7. RoutingTypes'
  BY <1>2, <1>5, <1>6 DEF RoutingIInv, RoutingTypes
<1>8. RoutedByCache'
  <2>1. ASSUME NEW x \in Subscribers
        PROVE  /\ routings'[x] # NoDoc => \E doc \in known[x] : routings'[x] = ToRouting(doc)
               /\ requested[x] # {} => routings'[x] # NoDoc
               /\ \A request \in requested[x] :
                    request[1] \in DOMAIN routings'[x] /\ request[2] = routings'[x][request[1]]
    <3>1. CASE requested[x] # {} \/ x # s
      <4>1. routings'[x] = routings[x]
        BY <1>1, <1>5, <3>1 DEF RoutingIInv, RoutedByCache
      <4>2. QED
        BY <4>1 DEF RoutingIInv, RoutedByCache
    <3>2. CASE requested[x] = {} /\ x = s
      BY <1>4, <1>5, <3>2
    <3>3. QED
      BY <3>1, <3>2
  <2>2. QED
    BY <1>2, <1>4, <1>5, <1>6, <2>1 DEF RoutingIInv, RoutedByCache
<1>9. RenderedByCache' /\ LackingKnown'
  BY <1>2 DEF RoutingIInv, RenderedByCache, LackingKnown, Lacking
<1>10. QED
  BY <1>7, <1>8, <1>9 DEF RoutingIInv

(* A request is rendered by the cached rendering, or by the template as it *)
(* is; the default payload goes out with a reason.                         *)
LEMMA RequestIInv ==
  ASSUME RoutingIInv, NEW channel \in Channels, NEW ok \in BOOLEAN, Request(channel, ok)
  PROVE  RoutingIInv'
<1>1. PICK t, s, loaded, use, default :
        /\ t = resolving.template /\ s = resolving.subscriber
        /\ loaded = (renderings[t] = NoDoc /\ ok /\ FoundTemplate(t))
        /\ use = IF ~loaded THEN renderings[t]
                 ELSE [version |-> runtimeTemplates[t].version,
                       channels |-> runtimeTemplates[t].channels]
        /\ default = (use = NoDoc \/ channel \notin use.channels)
  OBVIOUS
<1>2. /\ renderings' = IF loaded THEN [renderings EXCEPT ![t] = use] ELSE renderings
      /\ rendered' = [rendered EXCEPT ![t] = rendered[t] \cup
           IF default THEN IF <<t, channel>> \in lacking \/ ~ok THEN {} ELSE {DefaultPayload}
           ELSE {use.version}]
      /\ requested' = [requested EXCEPT ![s] =
           requested[s] \cup {<<channel, resolving.routing[channel]>>}]
      /\ resolving' = IF resolving.left = {channel} THEN NoDoc
                      ELSE [resolving EXCEPT !.left = resolving.left \ {channel}]
      /\ resolving # NoDoc /\ channel \in resolving.left
      /\ UNCHANGED <<routings, starts, subscribers, templates, runtimeTemplates, known, lacking>>
  BY <1>1 DEF Request, collections, Cached
<1>3. /\ resolving \in [subscriber : Subscribers, template : Templates, routing : Routing,
                        left : SUBSET Channels]
      /\ resolving.left \subseteq DOMAIN resolving.routing
      /\ runtimeTemplates \in [Templates -> Template \cup {NoDoc, Deleted}]
      /\ renderings \in [Templates -> Rendering \cup {NoDoc}]
      /\ rendered \in [Templates -> SUBSET Nat]
      /\ requested \in [Subscribers -> SUBSET (Channels \X (Channels \cup {Override}))]
  BY <1>2 DEF RoutingIInv, RoutingTypes
<1>4. /\ starts > 0 /\ routings[s] # NoDoc /\ resolving.routing = routings[s]
      /\ t \in Templates /\ s \in Subscribers
      /\ resolving.routing \in Routing
  BY <1>1, <1>2, <1>3 DEF RoutingIInv, RoutedByCache
<1>5. PICK request : request = <<channel, resolving.routing[channel]>>
  OBVIOUS
<1>6. /\ request \in Channels \X (Channels \cup {Override})
      /\ request[1] \in DOMAIN routings[s] /\ request[2] = routings[s][request[1]]
  BY <1>2, <1>3, <1>4, <1>5, RoutingFields
<1>7. loaded => /\ t \in Existing(runtimeTemplates) /\ runtimeTemplates[t] \in Template
                /\ use \in Rendering /\ use # NoDoc
                /\ use.channels = runtimeTemplates[t].channels
  <2>1. loaded => t \in Existing(runtimeTemplates) /\ runtimeTemplates[t] \in Template
    BY <1>1, <1>3, <1>4 DEF FoundTemplate, Existing
  <2>2. loaded => use \in Rendering /\ use.channels = runtimeTemplates[t].channels
    BY <1>1, <2>1 DEF Template, Rendering
  <2>3. QED
    BY <2>1, <2>2, NoDocAssumption
<1>8. /\ ~loaded => use = renderings[t]
      /\ use # NoDoc => use \in Rendering /\ use.version \in Nat \ {0}
  BY <1>1, <1>3, <1>4, <1>7 DEF Rendering
<1>9. default => <<t, channel>> \in lacking \/ ~ok
  <2>1. CASE use # NoDoc
    <3>1. default => channel \notin use.channels
      BY <1>1, <2>1
    <3>2. CASE loaded
      <4>1. t \in Existing(runtimeTemplates) => Lacking(t, runtimeTemplates[t].channels)
        BY <1>4 DEF RoutingIInv, LackingKnown
      <4>2. QED
        BY <1>7, <3>1, <3>2, <4>1 DEF Lacking
    <3>3. CASE ~loaded
      <4>1. renderings[t] # NoDoc => Lacking(t, renderings[t].channels)
        BY <1>4 DEF RoutingIInv, LackingKnown
      <4>2. QED
        BY <1>8, <2>1, <3>1, <3>3, <4>1 DEF Lacking
    <3>4. QED
      BY <3>2, <3>3
  <2>2. CASE use = NoDoc
    <3>1. ~loaded /\ renderings[t] = NoDoc
      BY <1>7, <1>8, <2>2
    <3>2. ~ok \/ t \notin Existing(runtimeTemplates)
      BY <1>1, <3>1 DEF FoundTemplate
    <3>3. t \notin Existing(runtimeTemplates) => Lacking(t, {})
      BY <1>4 DEF RoutingIInv, LackingKnown
    <3>4. QED
      BY <3>2, <3>3 DEF Lacking
  <2>3. QED
    BY <2>1, <2>2
<1>10. /\ renderings' \in [Templates -> Rendering \cup {NoDoc}]
       /\ renderings'[t] = use
       /\ \A x \in Templates : x # t => renderings'[x] = renderings[x]
  BY <1>2, <1>3, <1>4, <1>7, <1>8
<1>11. /\ rendered' \in [Templates -> SUBSET Nat]
       /\ rendered'[t] = IF default THEN rendered[t] ELSE rendered[t] \cup {use.version}
       /\ \A x \in Templates : x # t => rendered'[x] = rendered[x]
       /\ ~default => use # NoDoc
  <2>1. ~default => use # NoDoc
    BY <1>1
  <2>2. rendered' = [rendered EXCEPT ![t] =
                       IF default THEN rendered[t] ELSE rendered[t] \cup {use.version}]
    BY <1>2, <1>3, <1>4, <1>9
  <2>3. QED
    BY <1>3, <1>4, <1>8, <2>1, <2>2
<1>12. /\ requested' \in [Subscribers -> SUBSET (Channels \X (Channels \cup {Override}))]
       /\ requested'[s] = requested[s] \cup {request}
       /\ \A x \in Subscribers : x # s => requested'[x] = requested[x]
  BY <1>2, <1>3, <1>4, <1>5, <1>6
<1>13. resolving' # NoDoc =>
         /\ resolving' \in [subscriber : Subscribers, template : Templates, routing : Routing,
                            left : SUBSET Channels]
         /\ resolving'.left \subseteq DOMAIN resolving'.routing /\ resolving'.left # {}
         /\ resolving'.subscriber = s /\ resolving'.routing = resolving.routing
  <2>1. CASE resolving.left = {channel}
    BY <1>2, <2>1
  <2>2. CASE resolving.left # {channel}
    <3>1. PICK left : left = resolving.left \ {channel}
      OBVIOUS
    <3>2. left \in SUBSET Channels /\ left # {} /\ left \subseteq DOMAIN resolving.routing
      BY <1>2, <1>3, <2>2, <3>1
    <3>3. resolving' = [resolving EXCEPT !.left = left]
      BY <1>2, <2>2, <3>1
    <3>4. QED
      BY <1>1, <1>3, <3>2, <3>3
  <2>3. QED
    BY <2>1, <2>2
<1>14. RoutingTypes'
  BY <1>2, <1>10, <1>11, <1>12, <1>13 DEF RoutingIInv, RoutingTypes
<1>15. RoutedByCache'
  <2>1. ASSUME NEW x \in Subscribers
        PROVE  /\ requested'[x] # {} => routings[x] # NoDoc
               /\ \A r \in requested'[x] :
                    r[1] \in DOMAIN routings[x] /\ r[2] = routings[x][r[1]]
    BY <1>4, <1>6, <1>12 DEF RoutingIInv, RoutedByCache
  <2>2. ASSUME NEW x \in Subscribers
        PROVE  /\ starts > 0 /\ x \in Existing(subscribers) => subscribers[x] \in known[x]
               /\ routings[x] # NoDoc => \E doc \in known[x] : routings[x] = ToRouting(doc)
    BY DEF RoutingIInv, RoutedByCache
  <2>3. resolving' # NoDoc =>
          starts > 0 /\ routings[s] # NoDoc /\ resolving'.routing = routings[s]
          /\ resolving'.subscriber = s
    BY <1>4, <1>13
  <2>4. QED
    BY <1>2, <2>1, <2>2, <2>3 DEF RoutedByCache
<1>16. RenderedByCache'
  <2>1. ASSUME NEW x \in Templates
        PROVE  /\ runtimeTemplates[x] = NoDoc => renderings'[x] = NoDoc
               /\ \A version \in rendered'[x] :
                    renderings'[x] # NoDoc /\ version = renderings'[x].version
    <3>1. /\ runtimeTemplates[x] = NoDoc => renderings[x] = NoDoc
          /\ \A version \in rendered[x] : renderings[x] # NoDoc /\ version = renderings[x].version
      BY DEF RoutingIInv, RenderedByCache
    <3>2. CASE x # t
      BY <1>10, <1>11, <3>1, <3>2
    <3>3. CASE x = t /\ loaded
      <4>1. runtimeTemplates[t] # NoDoc /\ renderings[t] = NoDoc /\ rendered[t] = {}
        BY <1>1, <1>7, <3>1, <3>3 DEF Existing
      <4>2. QED
        BY <1>7, <1>10, <1>11, <3>3, <4>1
    <3>4. CASE x = t /\ ~loaded
      BY <1>8, <1>10, <1>11, <3>1, <3>4
    <3>5. QED
      BY <3>2, <3>3, <3>4
  <2>2. QED
    BY <1>2, <2>1 DEF RenderedByCache
<1>17. LackingKnown'
  <2>1. ASSUME NEW x \in Templates, starts > 0, renderings'[x] # NoDoc
        PROVE  Lacking(x, renderings'[x].channels)
    <3>1. CASE x = t /\ loaded
      BY <1>7, <1>10, <2>1, <3>1 DEF RoutingIInv, LackingKnown
    <3>2. CASE x # t \/ ~loaded
      BY <1>8, <1>10, <2>1, <3>2 DEF RoutingIInv, LackingKnown
    <3>3. QED
      BY <3>1, <3>2
  <2>2. QED
    BY <1>2, <2>1 DEF RoutingIInv, LackingKnown, Lacking
<1>18. QED
  BY <1>14, <1>15, <1>16, <1>17 DEF RoutingIInv

(* Every step keeps the invariant.                                         *)
LEMMA RoutingNextIInv == RoutingIInv /\ [RoutingNext]_routingVars => RoutingIInv'
<1> SUFFICES ASSUME RoutingIInv, [RoutingNext]_routingVars PROVE RoutingIInv'
  OBVIOUS
<1>1. ASSUME NEW s \in Subscribers, s \in Existing(subscribers)
      PROVE  subscribers[s] \in Subscriber
  BY <1>1 DEF RoutingIInv, RoutingTypes, Existing
<1>2. ASSUME NEW t \in Templates, t \in Existing(templates)
      PROVE  templates[t] \in Template
  BY <1>2 DEF RoutingIInv, RoutingTypes, Existing
<1>3. ASSUME NEW s \in Subscribers, NEW doc \in Subscriber,
             CreateSubscriber(s, doc) \/ UpdateSubscriber(s, doc)
      PROVE  RoutingIInv'
  <2>1. WriteSubscriber(s, doc)
    BY <1>3 DEF CreateSubscriber, UpdateSubscriber
  <2>2. QED
    BY <2>1, WriteSubscriberIInv
<1>4. ASSUME NEW s \in Subscribers, NEW some \in SUBSET Channels,
             NEW entries \in [some -> Entries \ {NoEntry}], UpdatePreferences(s, entries)
      PROVE  RoutingIInv'
  <2>1. PICK before : before = subscribers[s] /\ before \in Subscriber
                      /\ before.channelPreferences # NoPrefs
    BY <1>1, <1>4 DEF UpdatePreferences
  <2>2. PICK preferences : preferences =
               [channel \in Channels |-> IF channel \in DOMAIN entries THEN entries[channel]
                                         ELSE before.channelPreferences[channel]]
    OBVIOUS
  <2>3. preferences \in [Channels -> Entries]
    BY <2>1, <2>2 DEF Subscriber
  <2>4. PICK doc : doc = [before EXCEPT !.channelPreferences = preferences]
    OBVIOUS
  <2>5. doc \in Subscriber
    BY <2>1, <2>3, <2>4 DEF Subscriber
  <2>6. WriteSubscriber(s, doc)
    BY <1>4, <2>1, <2>2, <2>4 DEF UpdatePreferences
  <2>7. QED
    BY <2>5, <2>6, WriteSubscriberIInv
<1>5. ASSUME NEW s \in Subscribers, RemoveSubscriber(s) PROVE RoutingIInv'
  BY <1>5, WriteSubscriberIInv DEF RemoveSubscriber
<1>6. ASSUME NEW t \in Templates, NEW channels \in SUBSET Channels,
             CreateTemplate(t, channels) \/ UpdateTemplate(t, channels)
      PROVE  RoutingIInv'
  <2>1. PICK doc \in Template : WriteTemplate(t, doc)
    <3>1. CASE CreateTemplate(t, channels)
      <4>1. [version |-> 1, active |-> TRUE, channels |-> channels] \in Template
        BY DEF Template
      <4>2. QED
        BY <3>1, <4>1 DEF CreateTemplate
    <3>2. CASE UpdateTemplate(t, channels)
      <4>1. templates[t] \in Template
        BY <1>2, <3>2 DEF UpdateTemplate
      <4>2. PICK version : version = templates[t].version + 1
        OBVIOUS
      <4>3. version \in Nat \ {0}
        BY <4>1, <4>2 DEF Template
      <4>4. [templates[t] EXCEPT !.version = version, !.channels = channels] \in Template
        BY <4>1, <4>3 DEF Template
      <4>5. WriteTemplate(t, [templates[t] EXCEPT !.version = version, !.channels = channels])
        BY <3>2, <4>2 DEF UpdateTemplate
      <4>6. QED
        BY <4>4, <4>5
    <3>3. QED
      BY <1>6, <3>1, <3>2
  <2>2. QED
    BY <2>1, WriteTemplateIInv
<1>7. ASSUME NEW t \in Templates, NEW active \in BOOLEAN, SetTemplateActive(t, active)
      PROVE  RoutingIInv'
  <2>1. templates[t] \in Template
    BY <1>2, <1>7 DEF SetTemplateActive
  <2>2. [templates[t] EXCEPT !.active = active] \in Template
    BY <2>1 DEF Template
  <2>3. QED
    BY <1>7, <2>2, WriteTemplateIInv DEF SetTemplateActive
<1>8. ASSUME NEW t \in Templates, RemoveTemplate(t) PROVE RoutingIInv'
  BY <1>8, WriteTemplateIInv DEF RemoveTemplate
<1>10. ASSUME NEW t \in Templates, NEW active \in BOOLEAN, NEW channels \in SUBSET Channels,
              StoreRuntimeTemplate(t, active, channels)
       PROVE  RoutingIInv'
  <2>1. PICK version :
          /\ version = IF runtimeTemplates[t] = NoDoc THEN 1 ELSE runtimeTemplates[t].version + 1
          /\ WriteRuntimeTemplate(t, [version |-> version, active |-> active, channels |-> channels])
    BY <1>10 DEF StoreRuntimeTemplate
  <2>2. runtimeTemplates[t] \in Template \cup {NoDoc}
    BY <1>10 DEF RoutingIInv, RoutingTypes, StoreRuntimeTemplate
  <2>3. version \in Nat \ {0}
    BY <2>1, <2>2 DEF Template
  <2>4. [version |-> version, active |-> active, channels |-> channels] \in Template
    BY <2>3 DEF Template
  <2>5. QED
    BY <2>1, <2>4, WriteRuntimeTemplateIInv
<1>11. ASSUME NEW t \in Templates, RemoveRuntimeTemplate(t) PROVE RoutingIInv'
  BY <1>11, WriteRuntimeTemplateIInv DEF RemoveRuntimeTemplate
<1>9. CASE UNCHANGED routingVars
  <2>1. UNCHANGED <<subscribers, templates, runtimeTemplates, routings, renderings, resolving,
                    requested, rendered, lacking, known, starts>>
    BY <1>9 DEF routingVars, collections, runtime
  <2>2. RoutingTypes'
    BY <2>1 DEF RoutingIInv, RoutingTypes
  <2>3. RoutedByCache' /\ RenderedByCache'
    BY <2>1 DEF RoutingIInv, RoutedByCache, RenderedByCache
  <2>4. LackingKnown'
    BY <2>1 DEF RoutingIInv, LackingKnown, Lacking
  <2>5. QED
    BY <2>2, <2>3, <2>4 DEF RoutingIInv
<1>12. QED
  BY <1>3, <1>4, <1>5, <1>6, <1>7, <1>8, <1>9, <1>10, <1>11, StartIInv, ResolveIInv, RequestIInv
     DEF RoutingNext

(* The invariant holds of every run.                                       *)
LEMMA RoutingSpecIInv == RoutingSpec => []RoutingIInv
<1>1. RoutingInit => RoutingIInv
  BY RoutingInitIInv
<1>2. RoutingIInv /\ [RoutingNext]_routingVars => RoutingIInv'
  BY RoutingNextIInv
<1>3. QED
  BY <1>1, <1>2, PTL DEF RoutingSpec

(* Requests to a subscriber since the runtime started all fit one revision *)
(* of its document, provider overrides included (subscriber_cache.rs:      *)
(* get, to_routing; router.rs:81-86), and what was rendered of a template  *)
(* of "notiflo_templates" is of one (template.rs:21), however both are     *)
(* written meanwhile.                                                      *)
THEOREM RoutingOneRevisionUsed == RoutingSpec => []OneRevisionUsed
<1>1. RoutingIInv => RoutingTypeOK
  BY DEF RoutingIInv, RoutingTypes, RoutingTypeOK
<1>2. RoutingIInv => OneRevisionRouted
  <2> SUFFICES ASSUME RoutingIInv, NEW s \in Subscribers, requested[s] # {}
               PROVE  \E doc \in known[s] : \A request \in requested[s] : Fits(doc, request)
    BY DEF OneRevisionRouted
  <2>1. PICK doc \in known[s] : routings[s] = ToRouting(doc)
    BY DEF RoutingIInv, RoutedByCache
  <2>2. doc \in Subscriber
    BY DEF RoutingIInv, RoutingTypes
  <2>3. ASSUME NEW request \in requested[s] PROVE Fits(doc, request)
    <3>1. request = <<request[1], request[2]>>
      BY DEF RoutingIInv, RoutingTypes
    <3>2. request[1] \in DOMAIN ToRouting(doc) /\ request[2] = ToRouting(doc)[request[1]]
      BY <2>1 DEF RoutingIInv, RoutedByCache
    <3>3. Fits(doc, <<request[1], ToRouting(doc)[request[1]]>>)
      BY <2>2, <3>2, ToRoutingSpec
    <3>4. QED
      BY <3>2, <3>3 DEF Fits
  <2>4. QED
    BY <2>3
<1>3. RoutingIInv => OneRevisionRendered
  <2> SUFFICES ASSUME RoutingIInv, NEW t \in Templates
               PROVE  Cardinality(rendered[t] \ {DefaultPayload}) <= 1
    BY DEF OneRevisionRendered
  <2>1. PICK v : \A version \in rendered[t] : version = v
    BY DEF RoutingIInv, RenderedByCache
  <2>2. Cardinality({}) = 0 /\ Cardinality({v}) = 1
    BY FS_EmptySet, FS_Singleton
  <2>3. rendered[t] \ {DefaultPayload} = {} \/ rendered[t] \ {DefaultPayload} = {v}
    BY <2>1
  <2>4. QED
    BY <2>2, <2>3
<1>4. QED
  BY <1>1, <1>2, <1>3, RoutingSpecIInv, PTL DEF OneRevisionUsed

(* template.rs, render_for_match: the default payload goes out only if     *)
(* MongoDB failed, or a revision in "notiflo_templates" since the start    *)
(* lacked the channel, or there was none.                                  *)
THEOREM RoutingDefaultHasReason == RoutingSpec => []DefaultHasReason
<1>1. RoutingIInv => DefaultHasReason
  BY DEF RoutingIInv, RoutingTypes, RenderedByCache, DefaultHasReason, DefaultPayload, Rendering
<1>2. QED
  BY <1>1, RoutingSpecIInv, PTL

-----------------------------------------------------------------------------
(***************************************************************************)
(* AlertsPage: without overlap one fetch is under way, and what it brings  *)
(* after a success is the whole list; with overlap, no answer on its way is*)
(* older than the first fetch.                                             *)
(***************************************************************************)
PageTypes == AlertsPageTypeOK /\ confirmed \in Nat /\ lost \in Nat

OneFetch == ~overlapped => \A f, g \in InFlight : f = g

NewerThanFirst ==
  /\ \A f \in InFlight : fetches[f] \in {Asked} \cup since..stored
  /\ ~fetchError => InFlight # {} \/ data >= since

(* While the message says success nothing is being submitted, and the list *)
(* shown, or an answer on its way, is the list stored.                     *)
SuccessShown ==
  message = "success" =>
    /\ submitting = "no"
    /\ ~overlapped /\ ~fetchError =>
         /\ InFlight = {} => data = stored
         /\ \A f \in InFlight : fetches[f] \in {Asked, stored}

PageIInv ==
  PageTypes /\ OneFetch /\ NewerThanFirst /\ SuccessShown /\ LoadingWhileFetching /\ StoredIsAccountedFor

-----------------------------------------------------------------------------
(* Mounting starts the only fetch.                                         *)
LEMMA PageInitIInv == AlertsPageInit => PageIInv
<1> SUFFICES ASSUME AlertsPageInit PROVE PageIInv
  OBVIOUS
<1>1. PICK first \in Fetches : fetches = [f \in Fetches |-> IF f = first THEN Asked ELSE Nothing]
  BY DEF AlertsPageInit
<1>2. /\ stored = 0 /\ data = 0 /\ loading = TRUE /\ fetchError = FALSE /\ overlapped = FALSE
      /\ since = 0 /\ isValid = FALSE
      /\ submitting = "no" /\ message = "none" /\ submits = 0 /\ confirmed = 0 /\ lost = 0
  BY DEF AlertsPageInit
<1>3. Asked # Nothing
  BY AlertsPageAssumption DEF Asked
<1>4. InFlight = {first}
  BY <1>1, <1>3 DEF InFlight
<1>5. PageTypes
  <2>1. fetches \in [Fetches -> {Nothing, Asked} \cup 0..stored]
    BY <1>1
  <2>2. submits \in 0..MaxSubmits
    BY <1>2, AlertsPageAssumption
  <2>3. stored \in Nat /\ since \in 0..stored /\ data \in 0..stored
    BY <1>2
  <2>4. {loading, fetchError, overlapped, isValid} \subseteq BOOLEAN
    BY <1>2
  <2>5. confirmed \in Nat /\ lost \in Nat
    BY <1>2
  <2>6. submitting \in {"no", "asked", "taken"} /\ message \in {"none", "success", "error"}
    BY <1>2
  <2>7. QED
    BY <2>1, <2>2, <2>3, <2>4, <2>5, <2>6 DEF PageTypes, AlertsPageTypeOK
<1>6. OneFetch /\ SuccessShown /\ LoadingWhileFetching /\ StoredIsAccountedFor
  <2>1. OneFetch
    BY <1>4 DEF OneFetch
  <2>2. SuccessShown
    BY <1>2 DEF SuccessShown
  <2>3. LoadingWhileFetching
    BY <1>2, <1>4 DEF LoadingWhileFetching
  <2>4. StoredIsAccountedFor
    BY <1>2 DEF StoredIsAccountedFor
  <2>5. QED
    BY <2>1, <2>2, <2>3, <2>4
<1>7. NewerThanFirst
  BY <1>1, <1>2, <1>4 DEF NewerThanFirst
<1>8. QED
  BY <1>5, <1>6, <1>7 DEF PageIInv

(* What the invariant says of the fetches.                                 *)
LEMMA FetchFields ==
  ASSUME PageIInv
  PROVE  /\ fetches \in [Fetches -> {Nothing, Asked} \cup 0..stored]
         /\ stored \in Nat /\ since \in 0..stored /\ data \in 0..stored
         /\ Asked # Nothing /\ Asked = -1 /\ \A n \in Int : n # Nothing
  BY AlertsPageAssumption DEF PageIInv, PageTypes, AlertsPageTypeOK, Asked

(* fetchData: with another under way they overlap.                         *)
LEMMA FetchDataIInv ==
  ASSUME PageIInv, NEW f \in Fetches, FetchData(f)
  PROVE  /\ fetches' \in [Fetches -> {Nothing, Asked} \cup 0..stored] /\ since' \in 0..stored
         /\ overlapped' \in BOOLEAN /\ fetchError' = FALSE /\ loading' = TRUE /\ data' = data
         /\ OneFetch' /\ LoadingWhileFetching'
         /\ ~overlapped' => InFlight' = {f} /\ fetches'[f] = Asked
         /\ InFlight' # {} /\ \A g \in InFlight' : fetches'[g] \in {Asked} \cup since'..stored
<1>1. /\ fetches' = [fetches EXCEPT ![f] = Asked] /\ loading' = TRUE /\ fetchError' = FALSE
      /\ overlapped' = (InFlight # {}) /\ data' = data
      /\ since' = IF InFlight = {} THEN stored ELSE since
  BY DEF FetchData
<1>2. /\ fetches \in [Fetches -> {Nothing, Asked} \cup 0..stored] /\ Asked # Nothing
      /\ stored \in Nat /\ since \in 0..stored
  BY FetchFields
<1>3. /\ fetches' \in [Fetches -> {Nothing, Asked} \cup 0..stored]
      /\ \A g \in Fetches : fetches'[g] = IF g = f THEN Asked ELSE fetches[g]
  BY <1>1, <1>2
<1>4. InFlight' = InFlight \cup {f} /\ InFlight \subseteq Fetches
  BY <1>2, <1>3 DEF InFlight
<1>5. ~overlapped' => InFlight' = {f}
  BY <1>1, <1>4
<1>6. OneFetch' /\ LoadingWhileFetching'
  BY <1>1, <1>4, <1>5 DEF OneFetch, LoadingWhileFetching
<1>7. ASSUME NEW g \in InFlight' PROVE fetches'[g] \in {Asked} \cup since'..stored
  <2>1. CASE g = f
    BY <1>3, <2>1
  <2>2. CASE g # f
    <3>1. g \in InFlight /\ fetches'[g] = fetches[g] /\ since' = since
      BY <1>1, <1>3, <1>4, <2>2
    <3>2. QED
      BY <3>1 DEF PageIInv, NewerThanFirst
  <2>3. QED
    BY <2>1, <2>2
<1>8. QED
  BY <1>1, <1>2, <1>3, <1>4, <1>5, <1>6, <1>7

(* Every step of the page keeps the invariant.                             *)
LEMMA PageNextIInv == PageIInv /\ [AlertsPageNext]_alertsPageVars => PageIInv'
<1> SUFFICES ASSUME PageIInv, [AlertsPageNext]_alertsPageVars PROVE PageIInv'
  OBVIOUS
<1>1. CASE Refresh
  <2>1. PICK f \in Fetches : FetchData(f)
    BY <1>1 DEF Refresh
  <2>2. UNCHANGED <<stored, isValid, submitting, message, submits, confirmed, lost>>
    BY <1>1 DEF Refresh, submission
  <2>3. /\ fetches' \in [Fetches -> {Nothing, Asked} \cup 0..stored] /\ since' \in 0..stored
        /\ overlapped' \in BOOLEAN /\ fetchError' = FALSE /\ loading' = TRUE /\ data' = data
        /\ OneFetch' /\ LoadingWhileFetching'
        /\ ~overlapped' => InFlight' = {f} /\ fetches'[f] = Asked
        /\ InFlight' # {} /\ \A g \in InFlight' : fetches'[g] \in {Asked} \cup since'..stored
    BY <2>1, FetchDataIInv
  <2>4. PageTypes'
    BY <2>2, <2>3 DEF PageIInv, PageTypes, AlertsPageTypeOK
  <2>5. SuccessShown' /\ NewerThanFirst' /\ StoredIsAccountedFor'
    BY <2>2, <2>3 DEF PageIInv, SuccessShown, NewerThanFirst, StoredIsAccountedFor
  <2>6. QED
    BY <2>3, <2>4, <2>5 DEF PageIInv
<1>2. ASSUME NEW f \in Fetches, FindAlerts(f) PROVE PageIInv'
  <2>1. /\ fetches[f] = Asked /\ fetches' = [fetches EXCEPT ![f] = stored]
        /\ UNCHANGED <<stored, data, loading, fetchError, overlapped, since, isValid, submitting,
                       message, submits, confirmed, lost>>
    BY <1>2 DEF FindAlerts, submission
  <2>2. /\ fetches \in [Fetches -> {Nothing, Asked} \cup 0..stored] /\ stored \in Nat
        /\ since \in 0..stored /\ Asked # Nothing /\ stored # Nothing
    BY FetchFields
  <2>3. /\ fetches' \in [Fetches -> {Nothing, Asked} \cup 0..stored]
        /\ \A g \in Fetches : fetches'[g] = IF g = f THEN stored ELSE fetches[g]
    BY <2>1, <2>2
  <2>4. InFlight' = InFlight /\ InFlight \subseteq Fetches
    BY <2>1, <2>2, <2>3 DEF InFlight
  <2>5. PageTypes'
    BY <2>1, <2>3 DEF PageIInv, PageTypes, AlertsPageTypeOK
  <2>6. OneFetch' /\ LoadingWhileFetching' /\ StoredIsAccountedFor'
    BY <2>1, <2>4 DEF PageIInv, OneFetch, LoadingWhileFetching, StoredIsAccountedFor
  <2>7. NewerThanFirst'
    BY <2>1, <2>2, <2>3, <2>4 DEF PageIInv, NewerThanFirst
  <2>8. SuccessShown'
    BY <2>1, <2>3, <2>4 DEF PageIInv, SuccessShown
  <2>9. QED
    BY <2>5, <2>6, <2>7, <2>8 DEF PageIInv
<1>3. ASSUME NEW f \in Fetches, NEW ok \in BOOLEAN, FetchEnds(f, ok) PROVE PageIInv'
  <2>1. /\ fetches[f] # Nothing /\ (ok => fetches[f] # Asked)
        /\ fetches' = [fetches EXCEPT ![f] = Nothing]
        /\ data' = IF ok THEN fetches[f] ELSE data
        /\ loading' = FALSE /\ fetchError' = (fetchError \/ ~ok)
        /\ UNCHANGED <<stored, overlapped, since, isValid, submitting, message, submits, confirmed,
                       lost>>
    BY <1>3 DEF FetchEnds, DataAfter, submission
  <2>2. /\ fetches \in [Fetches -> {Nothing, Asked} \cup 0..stored] /\ stored \in Nat
        /\ data \in 0..stored /\ since \in 0..stored
    BY FetchFields
  <2>3. /\ fetches' \in [Fetches -> {Nothing, Asked} \cup 0..stored]
        /\ \A g \in Fetches : fetches'[g] = IF g = f THEN Nothing ELSE fetches[g]
        /\ data' \in 0..stored
    BY <2>1, <2>2
  <2>4. InFlight' = InFlight \ {f} /\ f \in InFlight /\ InFlight \subseteq Fetches
    BY <2>1, <2>3 DEF InFlight
  <2>5. PageTypes'
    <3>1. fetchError' \in BOOLEAN
      BY <2>1 DEF PageIInv, PageTypes, AlertsPageTypeOK
    <3>2. QED
      BY <2>1, <2>3, <3>1 DEF PageIInv, PageTypes, AlertsPageTypeOK
  <2>6. ~overlapped => InFlight = {f} /\ InFlight' = {}
    BY <2>4 DEF PageIInv, OneFetch
  <2>7. OneFetch' /\ LoadingWhileFetching' /\ StoredIsAccountedFor'
    BY <2>1, <2>6 DEF PageIInv, OneFetch, LoadingWhileFetching, StoredIsAccountedFor
  <2>8. SuccessShown'
    BY <2>1, <2>4, <2>6 DEF PageIInv, SuccessShown
  <2>9. NewerThanFirst'
    <3>1. \A g \in InFlight' : fetches'[g] = fetches[g] /\ g \in InFlight
      BY <2>3, <2>4
    <3>2. ~fetchError' => data' \in since..stored
      BY <2>1, <2>4 DEF PageIInv, NewerThanFirst
    <3>3. QED
      BY <2>1, <2>2, <3>1, <3>2 DEF PageIInv, NewerThanFirst
  <2>10. QED
    BY <2>5, <2>7, <2>8, <2>9 DEF PageIInv
<1>4. CASE \/ \E valid \in BOOLEAN : Edit(valid)
           \/ HandleSubmit
  <2>1. /\ UNCHANGED <<stored, fetches, data, loading, fetchError, overlapped, since, confirmed, lost>>
        /\ isValid' \in BOOLEAN /\ submits' \in 0..MaxSubmits
        /\ \/ UNCHANGED <<submitting, message>>
           \/ submitting = "no" /\ submitting' = "asked" /\ message' = "none"
    BY <1>4, AlertsPageAssumption
       DEF Edit, HandleSubmit, Submittable, hook, submission, PageIInv, PageTypes, AlertsPageTypeOK
  <2>2. PageTypes'
    BY <2>1 DEF PageIInv, PageTypes, AlertsPageTypeOK
  <2>3. OneFetch' /\ NewerThanFirst' /\ LoadingWhileFetching'
    BY <2>1 DEF PageIInv, OneFetch, NewerThanFirst, InFlight, LoadingWhileFetching
  <2>4. SuccessShown' /\ StoredIsAccountedFor'
    BY <2>1 DEF PageIInv, SuccessShown, StoredIsAccountedFor, InFlight
  <2>5. QED
    BY <2>2, <2>3, <2>4 DEF PageIInv
<1>5. CASE CreateTakes
  <2>1. /\ submitting = "asked" /\ submitting' = "taken" /\ stored' = stored + 1
        /\ UNCHANGED <<fetches, data, loading, fetchError, overlapped, since, isValid, message,
                       submits, confirmed, lost>>
    BY <1>5 DEF CreateTakes, hook
  <2>2. /\ stored \in Nat /\ since \in 0..stored /\ data \in 0..stored
        /\ fetches \in [Fetches -> {Nothing, Asked} \cup 0..stored]
    BY FetchFields
  <2>3. stored' \in Nat /\ 0..stored \subseteq 0..stored' /\ since..stored \subseteq since..stored'
    BY <2>1, <2>2
  <2>4. fetches \in [Fetches -> {Nothing, Asked} \cup 0..stored']
    BY <2>2, <2>3
  <2>5. PageTypes'
    BY <2>1, <2>2, <2>3, <2>4 DEF PageIInv, PageTypes, AlertsPageTypeOK
  <2>6. OneFetch' /\ LoadingWhileFetching' /\ InFlight' = InFlight
    BY <2>1 DEF PageIInv, OneFetch, InFlight, LoadingWhileFetching
  <2>7. NewerThanFirst'
    BY <2>1, <2>3, <2>6 DEF PageIInv, NewerThanFirst
  <2>8. SuccessShown' /\ StoredIsAccountedFor'
    BY <2>1, <2>2 DEF PageIInv, PageTypes, SuccessShown, StoredIsAccountedFor
  <2>9. QED
    BY <2>5, <2>6, <2>7, <2>8 DEF PageIInv
<1>6. CASE CreateSucceeds
  <2>1. PICK f \in Fetches : FetchData(f)
    BY <1>6 DEF CreateSucceeds, OnCreated
  <2>2. /\ submitting = "taken" /\ submitting' = "no" /\ message' = "success"
        /\ confirmed' = confirmed + 1
        /\ UNCHANGED <<stored, isValid, submits, lost>>
    BY <1>6 DEF CreateSucceeds
  <2>3. /\ fetches' \in [Fetches -> {Nothing, Asked} \cup 0..stored] /\ since' \in 0..stored
        /\ overlapped' \in BOOLEAN /\ fetchError' = FALSE /\ loading' = TRUE /\ data' = data
        /\ OneFetch' /\ LoadingWhileFetching'
        /\ ~overlapped' => InFlight' = {f} /\ fetches'[f] = Asked
        /\ InFlight' # {} /\ \A g \in InFlight' : fetches'[g] \in {Asked} \cup since'..stored
    BY <2>1, FetchDataIInv
  <2>4. PageTypes'
    <3>1. confirmed' \in Nat /\ lost' \in Nat
      BY <2>2 DEF PageIInv, PageTypes
    <3>2. stored' \in Nat /\ since' \in 0..stored' /\ data' \in 0..stored'
      BY <2>2, <2>3, FetchFields
    <3>3. fetches' \in [Fetches -> {Nothing, Asked} \cup 0..stored']
      BY <2>2, <2>3
    <3>4. {loading', fetchError', overlapped', isValid'} \subseteq BOOLEAN
      BY <2>2, <2>3 DEF PageIInv, PageTypes, AlertsPageTypeOK
    <3>5. submits' \in 0..MaxSubmits
      BY <2>2 DEF PageIInv, PageTypes, AlertsPageTypeOK
    <3>6. submitting' \in {"no", "asked", "taken"} /\ message' \in {"none", "success", "error"}
      BY <2>2
    <3>7. QED
      BY <3>1, <3>2, <3>3, <3>4, <3>5, <3>6 DEF PageTypes, AlertsPageTypeOK, Asked
  <2>5. SuccessShown' /\ NewerThanFirst'
    BY <2>2, <2>3 DEF SuccessShown, NewerThanFirst
  <2>6. StoredIsAccountedFor'
    BY <2>2 DEF PageIInv, PageTypes, StoredIsAccountedFor
  <2>7. QED
    BY <2>3, <2>4, <2>5, <2>6 DEF PageIInv
<1>7. CASE CreateFails
  <2>1. /\ submitting # "no" /\ submitting' = "no" /\ message' = "error"
        /\ lost' = IF submitting = "taken" THEN lost + 1 ELSE lost
        /\ UNCHANGED <<stored, fetches, data, loading, fetchError, overlapped, since, isValid,
                       submits, confirmed>>
    BY <1>7 DEF CreateFails, hook
  <2>2. PageTypes' /\ StoredIsAccountedFor'
    BY <2>1 DEF PageIInv, PageTypes, AlertsPageTypeOK, StoredIsAccountedFor
  <2>3. OneFetch' /\ NewerThanFirst' /\ SuccessShown' /\ LoadingWhileFetching'
    BY <2>1 DEF PageIInv, OneFetch, NewerThanFirst, SuccessShown, InFlight, LoadingWhileFetching
  <2>4. QED
    BY <2>2, <2>3 DEF PageIInv
<1>8. CASE UNCHANGED alertsPageVars
  <2>1. UNCHANGED <<stored, fetches, data, loading, fetchError, overlapped, since, isValid,
                    submitting, message, submits, confirmed, lost>>
    BY <1>8 DEF alertsPageVars, hook, submission
  <2>2. PageTypes' /\ StoredIsAccountedFor'
    BY <2>1 DEF PageIInv, PageTypes, AlertsPageTypeOK, StoredIsAccountedFor
  <2>3. OneFetch' /\ NewerThanFirst' /\ SuccessShown' /\ LoadingWhileFetching'
    BY <2>1 DEF PageIInv, OneFetch, NewerThanFirst, SuccessShown, InFlight, LoadingWhileFetching
  <2>4. QED
    BY <2>2, <2>3 DEF PageIInv
<1>9. QED
  BY <1>1, <1>2, <1>3, <1>4, <1>5, <1>6, <1>7, <1>8 DEF AlertsPageNext

(* The invariant holds of every run.                                       *)
LEMMA PageSpecIInv == AlertsPageSpec => []PageIInv
<1>1. AlertsPageInit => PageIInv
  BY PageInitIInv
<1>2. PageIInv /\ [AlertsPageNext]_alertsPageVars => PageIInv'
  BY PageNextIInv
<1>3. QED
  BY <1>1, <1>2, PTL DEF AlertsPageSpec

(* The form and the list never show what is not so (CreateAlertForm.tsx    *)
(* handleSubmit, useAlerts.ts fetchData), whatever is clicked while        *)
(* requests are under way: one click never stores two alerts, and Loading  *)
(* never stays with nothing under way.                                     *)
THEOREM AlertsPageConsistent == AlertsPageSpec => []PageConsistent
<1>1. PageIInv => PageConsistent
  BY DEF PageIInv, PageTypes, PageConsistent
<1>2. QED
  BY <1>1, PageSpecIInv, PTL

(* CreateAlertForm.tsx:139: once all is quiet after a success, the list    *)
(* shown is the list stored, unless two fetches overlapped or one failed;  *)
(* with overlap it is no older than the first fetch (useAlerts.ts:16).     *)
THEOREM AlertsPageCreatedIsShown == AlertsPageSpec => []CreatedIsShown
<1>1. PageIInv => CreatedIsShown
  BY DEF PageIInv, SuccessShown, NewerThanFirst, NoOlderThanFirstFetch, CreatedIsShown
<1>2. QED
  BY <1>1, PageSpecIInv, PTL

-----------------------------------------------------------------------------
(***************************************************************************)
(* LoadTest: a stream is opened once a start has answered, and has then    *)
(* delivered nothing.                                                      *)
(***************************************************************************)
StreamAfterAnswer ==
  \A t \in Tests : /\ server[t] \in {"new", "asked"} => stream[t] = "none"
                   /\ stream[t] = "none" => heard[t] = 0

(* A start under way is the only thing under way, and shows no step yet.   *)
StartingAlone ==
  Starting # {} =>
    /\ \A t, u \in Starting : t = u
    /\ Streaming = {} /\ Cancelling = {} /\ running /\ mounted
    /\ completedSteps = <<>>

(* An open stream is the one of the test shown, and every three events of  *)
(* it are a completed step.                                                *)
StreamingAlone ==
  \A t \in Streaming : /\ t = ref /\ testId = ref /\ running
                       /\ heard[t] - 3 * Len(completedSteps) \in 0..2

StepsInOrder ==
  /\ Len(completedSteps) <= NumSteps
  /\ \A i \in 1..Len(completedSteps) : completedSteps[i] = <<testId, i>>

TestIInv ==
  /\ LoadTestTypeOK /\ StreamAfterAnswer /\ RunningIsSomething
  /\ hurried \/ (StartingAlone /\ StreamingAlone /\ StepsInOrder)

-----------------------------------------------------------------------------
(* ClosedStream closes the stream that ref names and leaves every other.   *)
LEMMA ClosedStreamSpec ==
  ASSUME LoadTestTypeOK
  PROVE  /\ ClosedStream \in [Tests -> {"none", "open", "closed"}]
         /\ \A t \in Tests : /\ ClosedStream[t] = "open" => stream[t] = "open" /\ t # ref
                             /\ (ClosedStream[t] = "none") <=> (stream[t] = "none")
<1>1. CASE ref = NoTest
  BY <1>1, LoadTestAssumption DEF LoadTestTypeOK, ClosedStream
<1>2. CASE ref # NoTest
  <2>1. ref \in Tests /\ ClosedStream = CloseRef
    BY <1>2 DEF LoadTestTypeOK, ClosedStream
  <2>2. QED
    BY <2>1 DEF LoadTestTypeOK, CloseRef
<1>3. QED
  BY <1>1, <1>2

(* Nothing is under way when the panel is mounted.                         *)
LEMMA TestInitIInv == LoadTestInit => TestIInv
<1> SUFFICES ASSUME LoadTestInit PROVE TestIInv
  OBVIOUS
<1>1. NumSteps \in Nat /\ NumSteps > 0 /\ MaxCancels \in Nat
  BY LoadTestAssumption
<1>2. 0 \in 0..(3 * NumSteps + 1) /\ 0 \in 0..(3 * NumSteps) /\ 0 \in 0..MaxCancels /\ 0 \in 0..NumSteps
  BY <1>1
<1>3. completedSteps = <<>> /\ completedSteps \in Seq(Tests \X (1..NumSteps)) /\ Len(completedSteps) = 0
  BY DEF LoadTestInit
<1>4. LoadTestTypeOK
  <2>1. /\ server = [t \in Tests |-> "new"] /\ stream = [t \in Tests |-> "none"]
        /\ emitted = [t \in Tests |-> 0] /\ heard = [t \in Tests |-> 0]
        /\ cancelling = [t \in Tests |-> 0]
    BY DEF LoadTestInit
  <2>2. /\ mounted = TRUE /\ running = FALSE /\ ticksDone = FALSE /\ error = FALSE /\ hurried = FALSE
        /\ testId = NoTest /\ ref = NoTest /\ result = NoTest /\ currentStep = 0
    BY DEF LoadTestInit
  <2>3. /\ emitted \in [Tests -> 0..(3 * NumSteps + 1)] /\ heard \in [Tests -> 0..(3 * NumSteps)]
        /\ cancelling \in [Tests -> 0..MaxCancels]
    BY <1>2, <2>1
  <2>4. {mounted, running, ticksDone, error, hurried} \subseteq BOOLEAN
    BY <2>2
  <2>5. {testId, ref, result} \subseteq Tests \cup {NoTest}
    BY <2>2
  <2>6. /\ server \in [Tests -> {"new", "asked", "running"} \cup Outcomes]
        /\ stream \in [Tests -> {"none", "open", "closed"}]
    BY <2>1
  <2>7. currentStep \in 0..NumSteps
    BY <1>2, <2>2
  <2>8. completedSteps \in Seq(Tests \X (1..NumSteps))
    BY <1>3
  <2>9. QED
    BY <2>3, <2>4, <2>5, <2>6, <2>7, <2>8, Zenon DEF LoadTestTypeOK
<1>5. StreamAfterAnswer
  BY DEF LoadTestInit, StreamAfterAnswer
<1>6. Starting = {} /\ Streaming = {} /\ ~running
  BY DEF LoadTestInit, Starting, Streaming
<1>7. StartingAlone /\ StreamingAlone /\ RunningIsSomething
  BY <1>6 DEF StartingAlone, StreamingAlone, RunningIsSomething
<1>8. StepsInOrder
  BY <1>1, <1>3 DEF StepsInOrder
<1>9. QED
  BY <1>4, <1>5, <1>7, <1>8 DEF TestIInv

-----------------------------------------------------------------------------
(* A start on a quiet panel is alone, whatever came before.                *)
LEMMA TestHandleStart ==
  ASSUME TestIInv, NEW t \in Tests, HandleStart(t)
  PROVE  TestIInv'
<1>1. /\ mounted /\ ~running /\ server[t] = "new" /\ server' = [server EXCEPT ![t] = "asked"]
      /\ running' = TRUE /\ result' = NoTest /\ error' = FALSE
      /\ completedSteps' = <<>> /\ currentStep' = 0 /\ ticksDone' = FALSE
      /\ hurried' = (Starting \cup Cancelling \cup Streaming # {})
      /\ UNCHANGED <<emitted, stream, heard, mounted, testId, ref, cancelling>>
  BY DEF HandleStart, StepsAtStart
<1>2. NumSteps \in Nat /\ NumSteps > 0 /\ LoadTestTypeOK /\ StreamAfterAnswer
  BY LoadTestAssumption DEF TestIInv
<1>3. hurried' \in BOOLEAN
  BY <1>1, Zenon
<1>4. completedSteps' \in Seq(Tests \X (1..NumSteps)) /\ Len(completedSteps') = 0
  BY <1>1
<1>5. LoadTestTypeOK'
  <2>1. /\ server' \in [Tests -> {"new", "asked", "running"} \cup Outcomes]
        /\ stream' \in [Tests -> {"none", "open", "closed"}]
    BY <1>1, <1>2 DEF LoadTestTypeOK
  <2>2. /\ emitted' \in [Tests -> 0..(3 * NumSteps + 1)] /\ heard' \in [Tests -> 0..(3 * NumSteps)]
        /\ cancelling' \in [Tests -> 0..MaxCancels] /\ currentStep' \in 0..NumSteps
    <3>1. /\ emitted' = emitted /\ heard' = heard /\ cancelling' = cancelling
          /\ currentStep' = 0
      BY <1>1
    <3>2. 0 \in 0..NumSteps
      BY <1>2
    <3>3. /\ emitted \in [Tests -> 0..(3 * NumSteps + 1)] /\ heard \in [Tests -> 0..(3 * NumSteps)]
          /\ cancelling \in [Tests -> 0..MaxCancels]
      BY <1>2, Zenon DEF LoadTestTypeOK
    <3>4. QED
      BY <3>1, <3>2, <3>3, Zenon
  <2>3. {mounted', running', ticksDone', error', hurried'} \subseteq BOOLEAN
    BY <1>1, <1>3
  <2>4. {testId', ref', result'} \subseteq Tests \cup {NoTest}
    BY <1>1, <1>2 DEF LoadTestTypeOK
  <2>5. QED
    BY <1>4, <2>1, <2>2, <2>3, <2>4, Zenon DEF LoadTestTypeOK
<1>6. /\ \A u \in Tests : server'[u] = IF u = t THEN "asked" ELSE server[u]
      /\ stream[t] = "none"
  BY <1>1, <1>2 DEF LoadTestTypeOK, StreamAfterAnswer
<1>7. StreamAfterAnswer'
  BY <1>1, <1>2, <1>6 DEF StreamAfterAnswer
<1>8. /\ Starting' = Starting \cup {t} /\ Streaming' = Streaming /\ Cancelling' = Cancelling
  <2>1. Starting' = Starting \cup {t}
    BY <1>6, <1>1 DEF Starting
  <2>2. QED
    BY <1>1, <2>1 DEF Streaming, Cancelling
<1>9. RunningIsSomething'
  BY <1>8 DEF RunningIsSomething
<1>10. ASSUME ~hurried' PROVE StartingAlone' /\ StreamingAlone' /\ StepsInOrder'
  <2>1. Starting = {} /\ Cancelling = {} /\ Streaming = {}
    BY <1>1, <1>10
  <2>2. QED
    BY <1>1, <1>2, <1>4, <1>8, <2>1 DEF StartingAlone, StreamingAlone, StepsInOrder
<1>11. QED
  BY <1>5, <1>7, <1>9, <1>10 DEF TestIInv

(* A step that touches only the service leaves the panel as it is: no test *)
(* is new or asked after it that was not before.                           *)
LEMMA TestServiceStep ==
  ASSUME TestIInv,
         server' \in [Tests -> {"new", "asked", "running"} \cup Outcomes],
         emitted' \in [Tests -> 0..(3 * NumSteps + 1)],
         \A u \in Tests : /\ server'[u] \in {"new", "asked"} <=> server'[u] = server[u] /\ server[u] \in {"new", "asked"}
                          /\ (server'[u] = "new") <=> (server[u] = "new"),
         UNCHANGED <<stream, heard, mounted, running, testId, ref, shown, cancelling, hurried>>
  PROVE  TestIInv'
<1>1. UNCHANGED <<stream, heard, mounted, running, testId, ref, completedSteps, currentStep, ticksDone,
                  result, error, cancelling, hurried>>
  BY DEF shown
<1>2. LoadTestTypeOK'
  BY <1>1 DEF TestIInv, LoadTestTypeOK
<1>3. \A u \in Tests : server[u] \in {"new", "asked"} => stream[u] = "none"
  BY DEF TestIInv, StreamAfterAnswer
<1>4. StreamAfterAnswer'
  BY <1>1 DEF TestIInv, StreamAfterAnswer
<1>5. Starting' = Starting
  BY <1>1, <1>3 DEF Starting
<1>6. Streaming' = Streaming /\ Cancelling' = Cancelling
  BY <1>1 DEF Streaming, Cancelling
<1>7. QED
  BY <1>1, <1>2, <1>4, <1>5, <1>6 DEF TestIInv, StartingAlone, StreamingAlone, StepsInOrder,
                                      RunningIsSomething

(* The API accepts, the test emits or ends, a cancel reaches it: all of    *)
(* them steps of the service.                                              *)
LEMMA TestService ==
  ASSUME TestIInv, NEW t \in Tests,
         StartAccepted(t) \/ Emit(t) \/ Fail(t) \/ CancelTaken(t)
  PROVE  TestIInv'
<1>1. /\ server \in [Tests -> {"new", "asked", "running"} \cup Outcomes]
      /\ emitted \in [Tests -> 0..(3 * NumSteps + 1)] /\ NumSteps \in Nat
  BY LoadTestAssumption DEF TestIInv, LoadTestTypeOK
<1>2. /\ UNCHANGED <<stream, heard, mounted, running, testId, ref, shown, cancelling, hurried>>
      /\ server[t] \in {"asked", "running"}
  BY DEF StartAccepted, Emit, Fail, CancelTaken
<1>3. /\ server' = server \/ server' = [server EXCEPT ![t] = "running"]
         \/ \E end \in Outcomes : server' = [server EXCEPT ![t] = end]
      /\ emitted' = emitted \/ (emitted[t] <= 3 * NumSteps /\ emitted' = [emitted EXCEPT ![t] = @ + 1])
  BY DEF StartAccepted, Emit, Fail, CancelTaken, Outcomes
<1>4. emitted' \in [Tests -> 0..(3 * NumSteps + 1)]
  BY <1>1, <1>3
<1>5. server' \in [Tests -> {"new", "asked", "running"} \cup Outcomes]
  BY <1>1, <1>3
<1>6. \A u \in Tests : u # t => server'[u] = server[u]
  BY <1>1, <1>3
<1>7. server'[t] = server[t] \/ server'[t] \in {"running"} \cup Outcomes
  BY <1>1, <1>3
<1>8. \A u \in Tests : /\ server'[u] \in {"new", "asked"} <=> server'[u] = server[u] /\ server[u] \in {"new", "asked"}
                       /\ (server'[u] = "new") <=> (server[u] = "new")
  BY <1>2, <1>6, <1>7 DEF Outcomes
<1>9. QED
  BY <1>2, <1>4, <1>5, <1>8, TestServiceStep

(* The answer of a start opens its stream, alone if the start was alone.   *)
LEMMA TestOpenStream ==
  ASSUME TestIInv, NEW t \in Tests, OpenStream(t)
  PROVE  TestIInv'
<1>1. /\ server[t] \notin {"new", "asked"} /\ stream[t] = "none"
      /\ stream' = [stream EXCEPT ![t] = "open"] /\ ref' = t
      /\ testId' = IF mounted THEN t ELSE testId
      /\ UNCHANGED <<server, emitted, heard, mounted, running, completedSteps, currentStep, ticksDone,
                     result, error, cancelling, hurried>>
  BY DEF OpenStream, service, shown
<1>2. LoadTestTypeOK /\ StreamAfterAnswer
  BY DEF TestIInv
<1>3. LoadTestTypeOK'
  BY <1>1, <1>2 DEF LoadTestTypeOK
<1>4. \A u \in Tests : stream'[u] = IF u = t THEN "open" ELSE stream[u]
  BY <1>1, <1>2 DEF LoadTestTypeOK
<1>5. StreamAfterAnswer'
  BY <1>1, <1>2, <1>4 DEF StreamAfterAnswer
<1>6. /\ t \in Starting /\ Starting' = Starting \ {t}
      /\ Streaming' = Streaming \cup {t} /\ Cancelling' = Cancelling
  <2>1. t \in Starting
    BY <1>1 DEF Starting
  <2>2. Starting' = Starting \ {t}
    BY <1>1, <1>2, <1>4 DEF Starting, StreamAfterAnswer
  <2>3. Streaming' = Streaming \cup {t} /\ Cancelling' = Cancelling
    BY <1>1, <1>4 DEF Streaming, Cancelling
  <2>4. QED
    BY <2>1, <2>2, <2>3
<1>7. RunningIsSomething'
  BY <1>6 DEF RunningIsSomething
<1>8. ASSUME ~hurried' PROVE StartingAlone' /\ StreamingAlone' /\ StepsInOrder'
  <2>1. StartingAlone /\ StepsInOrder
    BY <1>1, <1>8 DEF TestIInv
  <2>2. /\ Starting = {t} /\ Streaming = {} /\ running /\ mounted /\ completedSteps = <<>>
    BY <1>6, <2>1 DEF StartingAlone
  <2>3. Starting' = {} /\ Streaming' = {t}
    BY <1>6, <2>2
  <2>4. Len(completedSteps) = 0 /\ heard[t] = 0
    BY <1>1, <1>2, <2>2 DEF StreamAfterAnswer
  <2>5. StreamingAlone'
    BY <1>1, <2>2, <2>3, <2>4 DEF StreamingAlone
  <2>6. StepsInOrder'
    BY <1>1, <2>1, <2>4 DEF StepsInOrder
  <2>7. QED
    BY <2>3, <2>5, <2>6 DEF StartingAlone
<1>9. QED
  BY <1>3, <1>5, <1>7, <1>8 DEF TestIInv

(* A start that fails leaves nothing under way if it was alone.            *)
LEMMA TestStartFails ==
  ASSUME TestIInv, NEW t \in Tests, StartFails(t)
  PROVE  TestIInv'
<1>1. /\ server[t] # "new" /\ stream[t] = "none"
      /\ stream' = [stream EXCEPT ![t] = "closed"]
      /\ server' = [server EXCEPT ![t] = IF @ = "asked" THEN "failed" ELSE @]
      /\ running' = FALSE /\ error' = mounted
      /\ UNCHANGED <<emitted, heard, mounted, testId, ref, completedSteps, currentStep, ticksDone, result,
                     cancelling, hurried>>
  BY DEF StartFails, NotRunning
<1>2. LoadTestTypeOK /\ StreamAfterAnswer
  BY DEF TestIInv
<1>3. /\ \A u \in Tests : stream'[u] = IF u = t THEN "closed" ELSE stream[u]
      /\ \A u \in Tests : server'[u] = IF u = t /\ server[u] = "asked" THEN "failed" ELSE server[u]
  BY <1>1, <1>2 DEF LoadTestTypeOK
<1>4. LoadTestTypeOK'
  BY <1>1, <1>2 DEF LoadTestTypeOK, Outcomes
<1>5. StreamAfterAnswer'
  BY <1>1, <1>2, <1>3 DEF StreamAfterAnswer
<1>6. /\ t \in Starting /\ Starting' = Starting \ {t} /\ Streaming' = Streaming
  <2>1. t \in Starting
    BY <1>1, <1>2 DEF Starting, LoadTestTypeOK
  <2>2. Starting' = Starting \ {t}
    BY <1>1, <1>2, <1>3 DEF Starting
  <2>3. Streaming' = Streaming
    BY <1>1, <1>3 DEF Streaming
  <2>4. QED
    BY <2>1, <2>2, <2>3
<1>7. RunningIsSomething'
  BY <1>1 DEF RunningIsSomething
<1>8. ASSUME ~hurried' PROVE StartingAlone' /\ StreamingAlone' /\ StepsInOrder'
  <2>1. StartingAlone /\ StepsInOrder
    BY <1>1, <1>8 DEF TestIInv
  <2>2. Starting' = {} /\ Streaming' = {}
    BY <1>6, <2>1 DEF StartingAlone
  <2>3. QED
    BY <1>1, <2>1, <2>2 DEF StartingAlone, StreamingAlone, StepsInOrder
<1>9. QED
  BY <1>4, <1>5, <1>7, <1>8 DEF TestIInv

-----------------------------------------------------------------------------
(* Where every third event completes a step, h events make l of them.      *)
LEMMA EveryThird ==
  ASSUME NEW h \in Nat, NEW l \in Nat, h - 3 * l \in 0..2
  PROVE  /\ (h + 1) % 3 = 0 => h = 3 * l + 2 /\ h \div 3 = l
         /\ (h + 1) % 3 # 0 => h - 3 * l \in 0..1
<1>1. CASE h = 3 * l
  <2>1. (h + 1) % 3 = 1
    BY <1>1
  <2>2. QED
    BY <1>1, <2>1
<1>2. CASE h = 3 * l + 1
  <2>1. (h + 1) % 3 = 2
    BY <1>2
  <2>2. QED
    BY <1>2, <2>1
<1>3. CASE h = 3 * l + 2
  <2>1. (h + 1) % 3 = 0 /\ h \div 3 = l
    BY <1>3
  <2>2. QED
    BY <1>3, <2>1
<1>4. QED
  BY <1>1, <1>2, <1>3

(* An event of a step: every third one completes the next step of the test.*)
LEMMA TestOnStepEvent ==
  ASSUME TestIInv, NEW t \in Tests, OnStepEvent(t)
  PROVE  TestIInv'
<1> DEFINE h == heard[t]
<1>1. /\ t \in Streaming /\ h < emitted[t] /\ h < 3 * NumSteps
      /\ heard' = [heard EXCEPT ![t] = @ + 1]
      /\ UNCHANGED <<server, emitted, stream, mounted, running, testId, ref, result, error, cancelling,
                     hurried>>
  BY DEF OnStepEvent, service
<1>2. LoadTestTypeOK /\ StreamAfterAnswer /\ NumSteps \in Nat /\ NumSteps > 0
  BY LoadTestAssumption DEF TestIInv
<1>3. h \in Nat /\ h + 1 <= 3 * NumSteps /\ heard'[t] = h + 1
      /\ \A u \in Tests : u # t => heard'[u] = heard[u]
  BY <1>1, <1>2 DEF LoadTestTypeOK
<1>4. /\ currentStep' \in {h \div 3 + 1, currentStep}
      /\ ticksDone' \in {TRUE, FALSE, ticksDone}
      /\ completedSteps' = IF (h + 1) % 3 = 0 THEN Append(completedSteps, <<t, h \div 3 + 1>>)
                           ELSE completedSteps
  <2>1. EventAt(h + 1) = CASE (h + 1) % 3 = 1 -> "step_started" [] (h + 1) % 3 = 2 -> "step_progress"
                         [] OTHER -> "step_completed"
    BY <1>2, <1>3 DEF EventAt
  <2>2. /\ currentStep' = IF EventAt(h + 1) = "step_started" THEN h \div 3 + 1 ELSE currentStep
        /\ ticksDone' = IF EventAt(h + 1) = "step_completed" THEN ticksDone
                        ELSE EventAt(h + 1) = "step_progress"
        /\ completedSteps' = IF EventAt(h + 1) = "step_completed"
                             THEN Append(completedSteps, <<t, h \div 3 + 1>>) ELSE completedSteps
    BY <1>3 DEF OnStepEvent, StepOf
  <2>3. (EventAt(h + 1) = "step_completed") <=> ((h + 1) % 3 = 0)
    BY <1>3, <2>1
  <2>4. QED
    BY <2>2, <2>3
<1>5. h \div 3 + 1 \in 1..NumSteps
  BY <1>2, <1>3
<1>6. /\ completedSteps \in Seq(Tests \X (1..NumSteps)) /\ Len(completedSteps) \in Nat
      /\ <<t, h \div 3 + 1>> \in Tests \X (1..NumSteps)
  BY <1>2, <1>5 DEF LoadTestTypeOK
<1>7. completedSteps' \in Seq(Tests \X (1..NumSteps))
  BY <1>4, <1>6, AppendSpec
<1>8. LoadTestTypeOK'
  <2>1. heard' \in [Tests -> 0..(3 * NumSteps)]
    <3>1. heard \in [Tests -> 0..(3 * NumSteps)]
      BY <1>2, Zenon DEF LoadTestTypeOK
    <3>2. h + 1 \in 0..(3 * NumSteps)
      BY <1>2, <1>3
    <3>3. QED
      BY <1>1, <3>1, <3>2
  <2>2. currentStep' \in 0..NumSteps
    BY <1>2, <1>4, <1>5 DEF LoadTestTypeOK
  <2>3. {mounted', running', ticksDone', error', hurried'} \subseteq BOOLEAN
    BY <1>1, <1>2, <1>4 DEF LoadTestTypeOK
  <2>4. QED
    BY <1>1, <1>2, <1>7, <2>1, <2>2, <2>3 DEF LoadTestTypeOK
<1>9. StreamAfterAnswer'
  BY <1>1, <1>2, <1>3 DEF StreamAfterAnswer, Streaming
<1>10. Starting' = Starting /\ Streaming' = Streaming /\ Cancelling' = Cancelling
  BY <1>1 DEF Starting, Streaming, Cancelling
<1>11. RunningIsSomething'
  BY <1>1, <1>10 DEF TestIInv, RunningIsSomething
<1>12. ASSUME ~hurried' PROVE StartingAlone' /\ StreamingAlone' /\ StepsInOrder'
  <2> DEFINE l == Len(completedSteps)
  <2>1. StartingAlone /\ StreamingAlone /\ StepsInOrder
    BY <1>1, <1>12 DEF TestIInv
  <2>2. StartingAlone'
    BY <1>1, <1>10, <2>1 DEF StartingAlone
  <2>3. t = ref /\ testId = ref /\ running /\ h - 3 * l \in 0..2 /\ \A u \in Streaming : u = t
    BY <1>1, <2>1 DEF StreamingAlone
  <2>4. CASE (h + 1) % 3 = 0
    <3>1. h = 3 * l + 2 /\ h \div 3 + 1 = l + 1 /\ l + 1 <= NumSteps
      <4>1. h = 3 * l + 2 /\ h \div 3 = l
        BY <1>3, <1>6, <2>3, <2>4, EveryThird
      <4>2. QED
        BY <1>2, <1>3, <1>6, <4>1
    <3>2. /\ Len(completedSteps') = l + 1
          /\ \A i \in 1..l : completedSteps'[i] = completedSteps[i]
          /\ completedSteps'[l + 1] = <<t, l + 1>>
      BY <1>4, <1>6, <2>4, <3>1, AppendSpec
    <3>3. StreamingAlone'
      BY <1>1, <1>3, <1>6, <1>10, <2>3, <3>1, <3>2 DEF StreamingAlone
    <3>4. ASSUME NEW i \in 1..(l + 1) PROVE completedSteps'[i] = <<t, i>>
      <4>1. CASE i \in 1..l
        <5>1. completedSteps[i] = <<testId, i>>
          BY <2>1, <4>1 DEF StepsInOrder
        <5>2. QED
          BY <2>3, <3>2, <4>1, <5>1
      <4>2. CASE i = l + 1
        BY <3>2, <4>2
      <4>3. QED
        BY <1>6, <4>1, <4>2
    <3>5. StepsInOrder'
      BY <1>1, <1>6, <2>3, <3>1, <3>2, <3>4 DEF StepsInOrder
    <3>6. QED
      BY <2>2, <3>3, <3>5
  <2>5. CASE (h + 1) % 3 # 0
    <3>1. completedSteps' = completedSteps
      BY <1>4, <2>5
    <3>2. h + 1 - 3 * l \in 0..2
      <4>1. h - 3 * l \in 0..1
        BY <1>3, <1>6, <2>3, <2>5, EveryThird
      <4>2. QED
        BY <1>3, <1>6, <4>1
    <3>3. StreamingAlone'
      BY <1>1, <1>3, <1>10, <2>3, <3>1, <3>2 DEF StreamingAlone
    <3>4. QED
      BY <1>1, <2>1, <2>2, <3>1, <3>3 DEF StepsInOrder
  <2>6. QED
    BY <2>4, <2>5
<1>13. QED
  BY <1>8, <1>9, <1>11, <1>12 DEF TestIInv

-----------------------------------------------------------------------------
(* Streams close; unless the panel was hurried none is left open, and      *)
(* running becomes false.                                                  *)
LEMMA TestClosing ==
  ASSUME TestIInv, LoadTestTypeOK', ~running',
         \A t \in Tests : /\ (stream'[t] = "none") <=> (stream[t] = "none")
                          /\ stream'[t] = "open" => stream[t] = "open",
         ~hurried' => ~hurried /\ Streaming' = {} /\ Starting = {},
         UNCHANGED <<server, heard, completedSteps, testId>>
  PROVE  TestIInv'
<1>1. StreamAfterAnswer'
  BY DEF TestIInv, StreamAfterAnswer
<1>2. Starting' = Starting
  BY DEF Starting
<1>3. RunningIsSomething'
  BY DEF RunningIsSomething
<1>4. ASSUME ~hurried' PROVE StartingAlone' /\ StreamingAlone' /\ StepsInOrder'
  BY <1>2, <1>4 DEF TestIInv, StartingAlone, StreamingAlone, StepsInOrder
<1>5. QED
  BY <1>1, <1>3, <1>4 DEF TestIInv

(* The outcome of a test, or its stream's error, closes the stream.        *)
LEMMA TestStreamEnds ==
  ASSUME TestIInv, NEW t \in Tests, OnOutcome(t) \/ OnError(t)
  PROVE  TestIInv'
<1>1. /\ t \in Streaming /\ running' = FALSE /\ stream' = [stream EXCEPT ![t] = "closed"]
      /\ UNCHANGED <<server, emitted, heard, mounted, testId, ref, completedSteps, currentStep, ticksDone,
                     cancelling, hurried>>
  BY DEF OnOutcome, OnError, NotRunning, service, shown
<1>2. result' \in {t, result} /\ error' \in BOOLEAN
  <2>1. CASE OnOutcome(t)
    <3>1. error' = (error \/ server[t] = "failed")
      BY <2>1 DEF OnOutcome
    <3>2. QED
      BY <2>1, <3>1 DEF OnOutcome
  <2>2. CASE OnError(t)
    BY <2>2 DEF OnError, shown, TestIInv, LoadTestTypeOK
  <2>3. QED
    BY <2>1, <2>2
<1>3. LoadTestTypeOK
  BY DEF TestIInv
<1>4. LoadTestTypeOK'
  BY <1>1, <1>2, <1>3 DEF LoadTestTypeOK
<1>5. \A u \in Tests : stream'[u] = IF u = t THEN "closed" ELSE stream[u]
  BY <1>1, <1>3 DEF LoadTestTypeOK
<1>6. \A u \in Tests : /\ (stream'[u] = "none") <=> (stream[u] = "none")
                       /\ stream'[u] = "open" => stream[u] = "open" /\ u # t
  BY <1>1, <1>5 DEF Streaming
<1>7. ~hurried' => ~hurried /\ Streaming' = {} /\ Starting = {}
  BY <1>1, <1>6 DEF TestIInv, StartingAlone, StreamingAlone, Streaming
<1>8. QED
  BY <1>1, <1>4, <1>6, <1>7, TestClosing

(* A cancel: with no test known it stops the panel at once, else it is     *)
(* under way.                                                              *)
LEMMA TestHandleCancel ==
  ASSUME TestIInv, HandleCancel
  PROVE  TestIInv'
<1>1. /\ mounted /\ running /\ hurried' = (hurried \/ Starting # {})
      /\ UNCHANGED <<server, emitted, heard, mounted, testId, ref, completedSteps, currentStep, ticksDone,
                     result, error>>
  BY DEF HandleCancel, service, shown
<1>2. LoadTestTypeOK /\ MaxCancels \in Nat /\ hurried' \in BOOLEAN
  BY <1>1, LoadTestAssumption DEF TestIInv
<1>3. CASE testId = NoTest
  <2>1. stream' = ClosedStream /\ running' = FALSE /\ UNCHANGED cancelling
    BY <1>3 DEF HandleCancel, NotRunning
  <2>2. LoadTestTypeOK'
    BY <1>1, <1>2, <2>1, ClosedStreamSpec DEF LoadTestTypeOK
  <2>3. \A u \in Tests : /\ (stream'[u] = "none") <=> (stream[u] = "none")
                         /\ stream'[u] = "open" => stream[u] = "open" /\ u # ref
    BY <1>2, <2>1, ClosedStreamSpec
  <2>4. ~hurried' => ~hurried /\ Streaming' = {} /\ Starting = {}
    BY <1>1, <2>3 DEF TestIInv, StreamingAlone, Streaming
  <2>5. QED
    BY <1>1, <2>1, <2>2, <2>3, <2>4, TestClosing
<1>4. CASE testId # NoTest
  <2>1. /\ testId \in Tests /\ cancelling[testId] < MaxCancels
        /\ cancelling' = [cancelling EXCEPT ![testId] = @ + 1] /\ UNCHANGED <<stream, running>>
    BY <1>2, <1>4 DEF HandleCancel, LoadTestTypeOK
  <2>2. cancelling' \in [Tests -> 0..MaxCancels] /\ cancelling'[testId] > 0
    <3>1. cancelling \in [Tests -> 0..MaxCancels]
      BY <1>2, Zenon DEF LoadTestTypeOK
    <3>2. cancelling[testId] + 1 \in 0..MaxCancels
      BY <1>2, <2>1, <3>1
    <3>3. QED
      BY <2>1, <3>1, <3>2
  <2>3. LoadTestTypeOK'
    BY <1>1, <1>2, <2>1, <2>2 DEF LoadTestTypeOK
  <2>4. StreamAfterAnswer' /\ Starting' = Starting /\ Streaming' = Streaming
    BY <1>1, <2>1 DEF TestIInv, StreamAfterAnswer, Starting, Streaming
  <2>5. RunningIsSomething'
    BY <2>1, <2>2, <1>1 DEF RunningIsSomething, Cancelling
  <2>6. ASSUME ~hurried' PROVE StartingAlone' /\ StreamingAlone' /\ StepsInOrder'
    BY <1>1, <2>1, <2>4, <2>6 DEF TestIInv, StartingAlone, StreamingAlone, StepsInOrder
  <2>7. QED
    BY <2>3, <2>4, <2>5, <2>6 DEF TestIInv
<1>5. QED
  BY <1>3, <1>4

(* Its answer closes the stream that is open by then.                      *)
LEMMA TestCancelAnswered ==
  ASSUME TestIInv, NEW t \in Tests, CancelAnswered(t)
  PROVE  TestIInv'
<1>1. /\ cancelling[t] > 0 /\ cancelling' = [cancelling EXCEPT ![t] = @ - 1]
      /\ stream' = ClosedStream /\ running' = FALSE
      /\ UNCHANGED <<server, emitted, heard, mounted, testId, ref, completedSteps, currentStep, ticksDone,
                     result, error, hurried>>
  BY DEF CancelAnswered, NotRunning, service, shown, Cancelling
<1>2. LoadTestTypeOK /\ MaxCancels \in Nat
  BY LoadTestAssumption DEF TestIInv
<1>3. cancelling' \in [Tests -> 0..MaxCancels]
  <2>1. cancelling \in [Tests -> 0..MaxCancels]
    BY <1>2 DEF LoadTestTypeOK
  <2>2. cancelling[t] \in 0..MaxCancels
    BY <2>1
  <2>3. cancelling[t] - 1 \in 0..MaxCancels
    BY <1>1, <1>2, <2>2
  <2>4. QED
    BY <1>1, <2>1, <2>3
<1>4. LoadTestTypeOK'
  BY <1>1, <1>2, <1>3, ClosedStreamSpec DEF LoadTestTypeOK
<1>5. \A u \in Tests : /\ (stream'[u] = "none") <=> (stream[u] = "none")
                       /\ stream'[u] = "open" => stream[u] = "open" /\ u # ref
  BY <1>1, <1>2, ClosedStreamSpec
<1>6. ~hurried' => ~hurried /\ Streaming' = {} /\ Starting = {}
  BY <1>1, <1>5 DEF TestIInv, StartingAlone, StreamingAlone, Streaming, Cancelling
<1>7. QED
  BY <1>1, <1>4, <1>5, <1>6, TestClosing

(* The panel leaves, and closes the stream it follows.                     *)
LEMMA TestUnmount ==
  ASSUME TestIInv, Unmount
  PROVE  TestIInv'
<1>1. /\ mounted' = FALSE /\ running' = FALSE /\ stream' = ClosedStream
      /\ hurried' = (hurried \/ Starting # {})
      /\ UNCHANGED <<server, emitted, heard, testId, ref, completedSteps, currentStep, ticksDone, result,
                     error, cancelling>>
  BY DEF Unmount, service, shown
<1>2. LoadTestTypeOK /\ hurried' \in BOOLEAN
  BY <1>1 DEF TestIInv
<1>3. LoadTestTypeOK'
  BY <1>1, <1>2, ClosedStreamSpec DEF LoadTestTypeOK
<1>4. \A u \in Tests : /\ (stream'[u] = "none") <=> (stream[u] = "none")
                       /\ stream'[u] = "open" => stream[u] = "open" /\ u # ref
  BY <1>1, <1>2, ClosedStreamSpec
<1>5. ~hurried' => ~hurried /\ Streaming' = {} /\ Starting = {}
  BY <1>1, <1>4 DEF TestIInv, StreamingAlone, Streaming
<1>6. QED
  BY <1>1, <1>3, <1>4, <1>5, TestClosing

-----------------------------------------------------------------------------
(* Every step of the panel keeps the invariant.                            *)
LEMMA TestNextIInv == TestIInv /\ [LoadTestNext]_loadTestVars => TestIInv'
<1> SUFFICES ASSUME TestIInv, [LoadTestNext]_loadTestVars PROVE TestIInv'
  OBVIOUS
<1>1. ASSUME NEW t \in Tests, HandleStart(t) PROVE TestIInv'
  BY <1>1, TestHandleStart
<1>2. ASSUME NEW t \in Tests, OpenStream(t) PROVE TestIInv'
  BY <1>2, TestOpenStream
<1>3. ASSUME NEW t \in Tests, StartFails(t) PROVE TestIInv'
  BY <1>3, TestStartFails
<1>4. ASSUME NEW t \in Tests, StartAccepted(t) \/ Emit(t) \/ Fail(t) \/ CancelTaken(t) PROVE TestIInv'
  BY <1>4, TestService
<1>5. ASSUME NEW t \in Tests, OnStepEvent(t) PROVE TestIInv'
  BY <1>5, TestOnStepEvent
<1>6. ASSUME NEW t \in Tests, OnOutcome(t) \/ OnError(t) PROVE TestIInv'
  BY <1>6, TestStreamEnds
<1>7. ASSUME NEW t \in Tests, CancelAnswered(t) PROVE TestIInv'
  BY <1>7, TestCancelAnswered
<1>8. CASE HandleCancel
  BY <1>8, TestHandleCancel
<1>9. CASE Unmount
  BY <1>9, TestUnmount
<1>10. CASE UNCHANGED loadTestVars
  BY <1>10 DEF loadTestVars, service, shown, TestIInv, LoadTestTypeOK, StreamAfterAnswer,
               StartingAlone, StreamingAlone, StepsInOrder, RunningIsSomething, Starting, Streaming,
               Cancelling
<1>11. QED
  BY <1>1, <1>2, <1>3, <1>4, <1>5, <1>6, <1>7, <1>8, <1>9, <1>10 DEF LoadTestNext

(* The invariant holds of every run.                                       *)
LEMMA TestSpecIInv == LoadTestSpec => []TestIInv
<1>1. LoadTestInit => TestIInv
  BY TestInitIInv
<1>2. TestIInv /\ [LoadTestNext]_loadTestVars => TestIInv'
  BY TestNextIInv
<1>3. QED
  BY <1>1, <1>2, PTL DEF LoadTestSpec

(* LoadTestPanel.tsx handleStart, connectSSE: the steps shown are those of *)
(* the last test started, in order, and at most one too many is counted,   *)
(* unless a start was cancelled, left or repeated before it answered.      *)
THEOREM LoadTestShownIsOneRun == LoadTestSpec => []ShownIsOneRun
<1>1. TestIInv => ShownIsOneRun
  <2> SUFFICES ASSUME TestIInv PROVE ShownIsOneRun
    OBVIOUS
  <2>1. NumSteps \in Nat /\ LoadTestTypeOK /\ Len(completedSteps) \in Nat
        /\ DOMAIN completedSteps = 1..Len(completedSteps)
    <3>1. NumSteps \in Nat /\ LoadTestTypeOK
      BY LoadTestAssumption DEF TestIInv
    <3>2. completedSteps \in Seq(Tests \X (1..NumSteps))
      BY <3>1, Zenon DEF LoadTestTypeOK
    <3>3. QED
      BY <3>1, <3>2
  <2>2. ShownStepsAreOneRun
    BY <2>1 DEF TestIInv, StepsInOrder, ShownStepsAreOneRun
  <2>3. ProgressAtMostOneOver
    BY <2>1 DEF TestIInv, StepsInOrder, ProgressAtMostOneOver
  <2>4. QED
    BY <2>1, <2>2, <2>3 DEF ShownIsOneRun
<1>2. QED
  BY <1>1, TestSpecIInv, PTL

(* LoadTestPanel.tsx handleCancel, cleanup: Run is offered with no stream  *)
(* open, Cancel only while something is under way.                         *)
THEOREM LoadTestButtonAgrees == LoadTestSpec => []ButtonAgrees
<1>1. TestIInv => ButtonAgrees
  BY DEF TestIInv, StreamingAlone, ButtonAgrees, IdleHearsNothing, RunningIsSomething
<1>2. QED
  BY <1>1, TestSpecIInv, PTL
=============================================================================
