------------------------ MODULE NotificationConsumer ------------------------
(***************************************************************************)
(* The end of the notification path: the API's RedisStreamConsumer         *)
(* (apps/notiflo/src/app/notifications/redis-stream.consumer.ts) reads the *)
(* stream the runtime writes (event_log.rs) through a consumer group and   *)
(* keeps a notification for every event in MongoDB.                        *)
(*                                                                         *)
(* Events are numbered in stream order.  Apis are the API's processes: all *)
(* of them use the same group and the same consumer name.                  *)
(***************************************************************************)
EXTENDS Integers, Sequences, FiniteSets, SequencesExt

CONSTANTS Apis,          \* processes of the API
          Count,         \* COUNT of XREADGROUP, 100
          MaxLen,        \* MAX_STREAM_LEN, 100 000
          MaxEvents,     \* bound: events written
          MaxFaults,     \* bound: Redis commands of the loop that fail
          MaxSaveFaults, \* bound: creates that fail
          MaxBootFaults, \* bound: starts whose XGROUP CREATE fails
          MaxStops       \* bound: crashes and shutdowns

ASSUME ConsumerAssumption ==
  /\ Apis # {} /\ {Count, MaxLen} \subseteq Nat \ {0}
  /\ {MaxEvents, MaxFaults, MaxSaveFaults, MaxBootFaults, MaxStops} \subseteq Nat

VARIABLES written,   \* events the runtime has written
          trimmed,   \* of these, how many MAXLEN has taken away
          last,      \* the group's last-delivered id
          unacked,   \* the group's pending entries
          running,   \* per process: this.running
          stage,     \* per process: where consumeLoop is
          entries,   \* per process: what is left of the batch
          ackIds,    \* per process: ackIds
          saved,     \* per process: the events of the notifications it created, in order
          given,     \* history: events XREADGROUP has handed out
          unsaved,   \* history: events whose create failed
          faults, saveFaults, bootFaults, stops

stream == <<written, trimmed>>
group == <<last, unacked, given>>
process == <<running, stage, entries, ackIds>>
mongo == <<saved, unsaved>>
bounds == <<faults, saveFaults, bootFaults, stops>>
vars == <<stream, group, process, mongo, bounds>>

Init ==
  /\ written = 0 /\ trimmed = 0
  /\ last = 0 /\ unacked = {} /\ given = {}
  /\ running = [api \in Apis |-> FALSE] /\ stage = [api \in Apis |-> "off"]
  /\ entries = [api \in Apis |-> <<>>] /\ ackIds = [api \in Apis |-> {}]
  /\ saved = [api \in Apis |-> <<>>] /\ unsaved = {}
  /\ faults = 0 /\ saveFaults = 0 /\ bootFaults = 0 /\ stops = 0

-----------------------------------------------------------------------------
(* log_delivery: XADD MAXLEN ~, which may keep more than MaxLen entries.   *)
LogDelivery ==
  /\ written < MaxEvents
  /\ written' = written + 1
  /\ trimmed' \in {trimmed} \cup {t \in trimmed..written : t <= written + 1 - MaxLen}
  /\ UNCHANGED <<group, process, mongo, bounds>>

(* onModuleInit: the group starts at 0, whoever creates it; a failure other*)
(* than BUSYGROUP is logged and the loop is never started.                 *)
Start(api) ==
  /\ stage[api] = "off"
  /\ \/ /\ running' = [running EXCEPT ![api] = TRUE]
        /\ stage' = [stage EXCEPT ![api] = "read"]
        /\ UNCHANGED bootFaults
     \/ /\ bootFaults < MaxBootFaults /\ bootFaults' = bootFaults + 1
        /\ stage' = [stage EXCEPT ![api] = "never"]
        /\ UNCHANGED running
  /\ UNCHANGED <<stream, group, entries, ackIds, mongo, faults, saveFaults, stops>>

-----------------------------------------------------------------------------
(* XREADGROUP with ">": what the group has handed to nobody and the stream *)
(* still holds, at most Count entries.                                     *)
UnreadFromZero ==   \* mutant: "0" for ">", which reads the pending entries again
  LET from == IF unacked = {} THEN last ELSE 0
  IN  [i \in 1..(IF written - from < Count THEN written - from ELSE Count) |-> from + i]

Unread ==
  LET from == IF last < trimmed THEN trimmed ELSE last
      left == written - from
  IN  [i \in 1..(IF left < Count THEN left ELSE Count) |-> from + i]

PendingAfterNoAck(batch) == unacked   \* mutant: XREADGROUP with NOACK

PendingAfter(batch) == unacked \cup Range(batch)

(* A command of Redis, and a fault that leaves it undone, or done with an  *)
(* error for an answer.                                                    *)
Command(done, failed) ==
  /\ done \/ failed
  /\ failed => faults < MaxFaults
  /\ faults' = IF failed THEN faults + 1 ELSE faults

Read(api) ==
  /\ stage[api] = "read" /\ running[api] /\ Unread # <<>>
  /\ \E done, failed \in BOOLEAN :
       /\ Command(done, failed)
       /\ IF done
          THEN /\ last' = Unread[Len(Unread)]
               /\ unacked' = PendingAfter(Unread) /\ given' = given \cup Range(Unread)
          ELSE UNCHANGED group
       /\ IF failed
          THEN /\ stage' = [stage EXCEPT ![api] = "sleep"] /\ UNCHANGED entries
          ELSE /\ stage' = [stage EXCEPT ![api] = "persist"]
               /\ entries' = [entries EXCEPT ![api] = Unread]
  /\ UNCHANGED <<stream, running, ackIds, mongo, saveFaults, bootFaults, stops>>

(* persistNotification, and the catch that acknowledges the entry anyway.  *)
AckIfSaved(api, id, failed) ==   \* mutant: the catch does not push the id
  IF failed THEN ackIds[api] ELSE ackIds[api] \cup {id}

AckIt(api, id, failed) == ackIds[api] \cup {id}

Persist(api) ==
  /\ stage[api] = "persist"
  /\ LET id == Head(entries[api]) IN
       \E done, failed \in BOOLEAN :
         /\ done \/ failed
         /\ failed => saveFaults < MaxSaveFaults
         /\ saveFaults' = IF failed THEN saveFaults + 1 ELSE saveFaults
         /\ saved' = IF done THEN [saved EXCEPT ![api] = Append(@, id)] ELSE saved
         /\ unsaved' = IF done THEN unsaved ELSE unsaved \cup {id}
         /\ ackIds' = [ackIds EXCEPT ![api] = AckIt(api, id, failed)]
  /\ entries' = [entries EXCEPT ![api] = Tail(@)]
  /\ stage' = [stage EXCEPT ![api] = IF Len(entries[api]) = 1 THEN "ack" ELSE "persist"]
  /\ UNCHANGED <<stream, group, running, faults, bootFaults, stops>>

(* The XACK of the batch.  During a shutdown this.redis may be null.       *)
Ack(api) ==
  /\ stage[api] = "ack"
  /\ \E done, failed \in BOOLEAN :
       /\ IF running[api] THEN Command(done, failed)
          ELSE (done \/ failed) /\ UNCHANGED faults
       /\ unacked' = IF done THEN unacked \ ackIds[api] ELSE unacked
       /\ stage' = [stage EXCEPT ![api] = IF failed /\ running[api] THEN "sleep" ELSE "read"]
  /\ ackIds' = [ackIds EXCEPT ![api] = {}]
  /\ UNCHANGED <<stream, last, given, running, entries, mongo, saveFaults, bootFaults, stops>>

WakesNever(api) == FALSE   \* mutant: the try is around the loop

Wakes(api) == stage[api] = "sleep"

Wake(api) ==
  /\ Wakes(api)
  /\ stage' = [stage EXCEPT ![api] = "read"]
  /\ UNCHANGED <<stream, group, running, entries, ackIds, mongo, bounds>>

(* while (this.running) ends; the process is started again by Start.       *)
Leave(api) ==
  /\ stage[api] = "read" /\ ~running[api]
  /\ stage' = [stage EXCEPT ![api] = "off"]
  /\ UNCHANGED <<stream, group, running, entries, ackIds, mongo, bounds>>

-----------------------------------------------------------------------------
(* onModuleDestroy: the loop goes on to the end of its batch.              *)
Shutdown(api) ==
  /\ running[api] /\ stops < MaxStops
  /\ stops' = stops + 1
  /\ running' = [running EXCEPT ![api] = FALSE]
  /\ UNCHANGED <<stream, group, stage, entries, ackIds, mongo, faults, saveFaults, bootFaults>>

Crash(api) ==
  /\ stage[api] # "off" /\ stops < MaxStops
  /\ stops' = stops + 1
  /\ running' = [running EXCEPT ![api] = FALSE]
  /\ stage' = [stage EXCEPT ![api] = "off"]
  /\ entries' = [entries EXCEPT ![api] = <<>>]
  /\ ackIds' = [ackIds EXCEPT ![api] = {}]
  /\ UNCHANGED <<stream, group, mongo, faults, saveFaults, bootFaults>>

Loop(api) == Read(api) \/ Persist(api) \/ Ack(api) \/ Wake(api) \/ Leave(api)

Next ==
  \/ LogDelivery
  \/ \E api \in Apis : Start(api) \/ Loop(api) \/ Shutdown(api) \/ Crash(api)

(* The event loop of each process runs, every command is answered or       *)
(* fails, and a process that ended is started again.                       *)
Fairness == \A api \in Apis : WF_vars(Start(api)) /\ WF_vars(Loop(api))

Spec == Init /\ [][Next]_vars /\ Fairness

-----------------------------------------------------------------------------
(***************************************************************************)
(* Properties                                                              *)
(***************************************************************************)
TypeOK ==
  /\ written \in 0..MaxEvents /\ trimmed \in 0..written
  /\ last \in 0..written /\ unacked \subseteq given /\ given \subseteq 1..last
  /\ running \in [Apis -> BOOLEAN]
  /\ stage \in [Apis -> {"off", "never", "read", "persist", "ack", "sleep"}]
  /\ \A api \in Apis : /\ entries[api] \in Seq(given) /\ Len(entries[api]) <= Count
                       /\ ackIds[api] \subseteq given /\ Cardinality(ackIds[api]) <= Count
                       /\ (stage[api] = "persist") = (entries[api] # <<>>)
  /\ saved \in [Apis -> Seq(given)] /\ unsaved \subseteq given

(* From the stream to MongoDB a process of the API loses but never repeats *)
(* or reorders: through failed commands, failed creates, shutdowns, crashes*)
(* and a second process taking batches from the same group, what it creates*)
(* implements LossyFifo.  The processes are alike: one stands for all.     *)
Mine == CHOOSE api \in Apis : TRUE

Fifo == INSTANCE LossyFifo WITH sent <- written, got <- saved[Mine]

TrackedInOrderAtMostOnce == Fifo!Spec

(* Two processes may interleave their batches, but between them still keep *)
(* no event twice.                                                         *)
NoDoubleTracking ==
  \A a, b \in Apis : \A i \in 1..Len(saved[a]), j \in 1..Len(saved[b]) :
     saved[a][i] = saved[b][j] => a = b /\ i = j

Tracked == UNION {Range(saved[api]) : api \in Apis}

(* An entry leaves the pending list only when its create was answered: what*)
(* a crash, a shutdown or a failed read left behind is still there to find.*)
AckedWasHandled == given \ unacked \subseteq Tracked \cup unsaved

(* Whatever fails on the way, as long as one process of the API could start*)
(* its loop, the group catches up with the stream.                         *)
CatchesUp == <>[](last >= written \/ trimmed >= written)

(* What is acknowledged, saved and pending agrees in all processes.        *)
Consistent == TypeOK /\ AckedWasHandled /\ NoDoubleTracking

(* redis-stream.consumer.ts:121, "Still ACK to avoid infinite              *)
(* reprocessing": while Redis answers and no process ends, the pending list*)
(* empties, whatever MongoDB refuses.                                      *)
PendingDrains == <>(faults > 0 \/ stops > 0) \/ <>[](unacked = {})

=============================================================================
