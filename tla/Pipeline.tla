------------------------------ MODULE Pipeline ------------------------------
(***************************************************************************)
(* The runtime's hot path                                                  *)
(* (libs/engine/notiflo-runtime/src/pipeline.rs and delivery/): the ingest,*)
(* evaluator and delivery tasks, the two bounded channels between them, the*)
(* HTTP provider, and the two places in Redis that outlive the process,    *)
(* the delivery event stream and the dead letter lists.                    *)
(*                                                                         *)
(* Ticks are numbered in the order the source has them.  A tick matches    *)
(* any number of conditions up to MaxMatches (the engine's part is         *)
(* ThresholdStrategy), a match asks for up to NumChannels channels, and a  *)
(* slot numbers each (tick, match, channel).                               *)
(***************************************************************************)
EXTENDS Integers, Sequences, FiniteSets, SequencesExt

CONSTANTS SourceKinds,   \* values of --source: "redis", "websocket"
          BufferSize,    \* config.buffer_size: the tick channel and match_sender
          DeliveryCap,   \* the delivery channel, 4096 in main.rs
          Configured,    \* HttpProvider.configs has an endpoint (main loads none)
          MaxAttempts,   \* RetryPolicy.max_attempts
          NumChannels,   \* channels of a condition
          MaxTicks,      \* bound: ticks
          MaxMatches,    \* bound: matches of one tick
          MaxFound,      \* bound: matches of all ticks
          MaxFaults,     \* bound: Redis commands that fail
          MaxDrops,      \* bound: source connections lost
          MaxCrashes     \* bound: process exits

ASSUME PipelineAssumption ==
  /\ SourceKinds \subseteq {"redis", "websocket"} /\ Configured \in BOOLEAN
  /\ {BufferSize, DeliveryCap, MaxAttempts, NumChannels, MaxMatches} \subseteq Nat \ {0}
  /\ {MaxTicks, MaxFound, MaxFaults, MaxDrops, MaxCrashes} \subseteq Nat

VARIABLES kind,        \* the source the runtime was started with
          produced,    \* ticks the source has had
          queue,       \* ticks waiting at the source
          connected,   \* the source's connection
          ingest,      \* the locals of run_ingest
          ticks,       \* the tick channel
          evaluator,   \* the locals of run_evaluator
          stats,       \* PipelineStats
          unread,      \* batches in match_sender, whose receiver main never reads
          batches,     \* the delivery channel
          delivery,    \* the locals of run_delivery
          events,      \* notiflo:events:delivery
          dlq,         \* notiflo:dlq:<org>
          posted,      \* history: slots POSTed at least once
          accepted,    \* history: slots the provider has taken
          unpushed,    \* history: failed slots whose push was undone or cut off by a crash
          found, faults, drops, crashes   \* what is bounded so far

source == <<kind, produced, queue, connected>>
redis == <<events, dlq>>
history == <<posted, accepted, unpushed>>
front == <<ingest, ticks, evaluator, stats, unread>>
vars == <<source, front, batches, delivery, redis, history,
          found, faults, drops, crashes>>

NoStats == [ingested |-> 0, evaluated |-> 0, found |-> 0, dropped |-> 0]

(* stage: what run_ingest does next with the tick in hand.                 *)
Reading == [stage |-> "next", tick |-> 0]

(* stage: what run_evaluator does next; matches: how many the tick has.    *)
Waking == [stage |-> "recv", tick |-> 0, matches |-> 0]

(* stage: what run_delivery does next.  matches and requests are the slots *)
(* of the batch and of the match in hand; the head request is being sent.  *)
Resting == [stage |-> "recv", matches |-> <<>>, requests |-> <<>>,
            attempt |-> 0, success |-> FALSE]

Init ==
  /\ kind \in SourceKinds /\ produced = 0 /\ queue = <<>> /\ connected = TRUE
  /\ ingest = Reading /\ ticks = <<>> /\ evaluator = Waking /\ stats = NoStats /\ unread = 0
  /\ batches = <<>> /\ delivery = Resting
  /\ events = <<>> /\ dlq = <<>> /\ posted = {} /\ accepted = {} /\ unpushed = {}
  /\ found = 0 /\ faults = 0 /\ drops = 0 /\ crashes = 0

-----------------------------------------------------------------------------
(***************************************************************************)
(* The source, and run_ingest.  BRPOP takes the tick out of the list for   *)
(* good; what a websocket sends while it is down is gone.  The health      *)
(* endpoint and the evaluator run between any two steps of the loop.       *)
(***************************************************************************)
Produce ==
  /\ produced < MaxTicks
  /\ produced' = produced + 1
  /\ queue' = IF kind = "redis" \/ connected THEN Append(queue, produced + 1) ELSE queue
  /\ UNCHANGED <<kind, connected, front, batches, delivery, redis, history,
                 found, faults, drops, crashes>>

NextTick ==
  /\ ingest.stage = "next" /\ connected /\ queue # <<>>
  /\ ingest' = [stage |-> "count", tick |-> Head(queue)]
  /\ queue' = Tail(queue)
  /\ UNCHANGED <<kind, produced, connected, ticks, evaluator, stats, unread, batches, delivery,
                 redis, history, found, faults, drops, crashes>>

CountIngested ==
  /\ ingest.stage = "count"
  /\ stats' = [stats EXCEPT !.ingested = @ + 1]
  /\ ingest' = [ingest EXCEPT !.stage = "send"]
  /\ UNCHANGED <<source, ticks, evaluator, unread, batches, delivery, redis, history,
                 found, faults, drops, crashes>>

(* try_send: a full channel takes nothing, and the tick is gone.           *)
SendTick ==
  /\ ingest.stage = "send"
  /\ IF Len(ticks) < BufferSize
     THEN ticks' = Append(ticks, ingest.tick) /\ ingest' = Reading
     ELSE UNCHANGED ticks /\ ingest' = [stage |-> "dropped", tick |-> 0]
  /\ UNCHANGED <<source, evaluator, stats, unread, batches, delivery, redis, history,
                 found, faults, drops, crashes>>

CountDropped ==
  /\ ingest.stage = "dropped"
  /\ stats' = [stats EXCEPT !.dropped = @ + 1]
  /\ ingest' = Reading
  /\ UNCHANGED <<source, ticks, evaluator, unread, batches, delivery, redis, history,
                 found, faults, drops, crashes>>

(* A tick that does not parse: next_tick returns an error, the loop goes on*)
IngestUnparsable ==
  /\ ingest.stage = "next" /\ connected /\ queue # <<>>
  /\ queue' = Tail(queue)
  /\ UNCHANGED <<kind, produced, connected, front, batches, delivery, redis,
                 history, found, faults, drops, crashes>>

(* What the socket still held goes with it; BRPOP may have popped a tick   *)
(* whose answer is lost when run_ingest was waiting for it.                *)
LoseConnection ==
  /\ connected /\ drops < MaxDrops
  /\ connected' = FALSE /\ drops' = drops + 1
  /\ queue' \in IF kind = "websocket" THEN {<<>>}
                ELSE {queue} \cup IF ingest.stage = "next" /\ queue # <<>>
                                  THEN {Tail(queue)} ELSE {}
  /\ UNCHANGED <<kind, produced, front, batches, delivery, redis,
                 history, found, faults, crashes>>

(* WebSocketSource.next_tick connects again, with backoff; RedisQueueSource*)
(* keeps the connection it has, and every BRPOP on it fails.               *)
ReconnectNever == FALSE   \* mutant

Reconnects == kind = "websocket"

Reconnect ==
  /\ ingest.stage = "next" /\ ~connected /\ Reconnects
  /\ connected' = TRUE
  /\ UNCHANGED <<kind, produced, queue, front, batches, delivery, redis,
                 history, found, faults, drops, crashes>>

-----------------------------------------------------------------------------
(***************************************************************************)
(* run_evaluator, with ConditionStore.evaluate: the tick taken from the    *)
(* channel is in hand until it is counted and its matches are sent.        *)
(***************************************************************************)
SlotsOf(tick, match) ==
  [c \in 1..NumChannels |-> ((tick - 1) * MaxMatches + match - 1) * NumChannels + c]

Receive ==
  /\ evaluator.stage = "recv" /\ ticks # <<>>
  /\ evaluator' = [stage |-> "evaluate", tick |-> Head(ticks), matches |-> 0]
  /\ ticks' = Tail(ticks)
  /\ UNCHANGED <<source, ingest, stats, unread, batches, delivery, redis, history,
                 found, faults, drops, crashes>>

Evaluate(n) ==
  /\ evaluator.stage = "evaluate" /\ found + n <= MaxFound
  /\ evaluator' = [evaluator EXCEPT !.stage = "count", !.matches = n]
  /\ unread' = IF n > 0 /\ unread < BufferSize THEN unread + 1 ELSE unread
  /\ found' = found + n
  /\ UNCHANGED <<source, ingest, ticks, stats, batches, delivery, redis, history,
                 faults, drops, crashes>>

CountEvaluated ==
  /\ evaluator.stage = "count"
  /\ stats' = [stats EXCEPT !.evaluated = @ + 1]
  /\ evaluator' = IF evaluator.matches = 0 THEN Waking ELSE [evaluator EXCEPT !.stage = "found"]
  /\ UNCHANGED <<source, ingest, ticks, unread, batches, delivery, redis, history,
                 found, faults, drops, crashes>>

CountFound ==
  /\ evaluator.stage = "found"
  /\ stats' = [stats EXCEPT !.found = @ + evaluator.matches]
  /\ evaluator' = [evaluator EXCEPT !.stage = "send"]
  /\ UNCHANGED <<source, ingest, ticks, unread, batches, delivery, redis, history,
                 found, faults, drops, crashes>>

(* try_send: a full delivery channel drops the whole batch.                *)
SendMatches ==
  /\ evaluator.stage = "send"
  /\ batches' = IF Len(batches) < DeliveryCap
                THEN Append(batches, [m \in 1..evaluator.matches |-> SlotsOf(evaluator.tick, m)])
                ELSE batches
  /\ evaluator' = Waking
  /\ UNCHANGED <<source, ingest, ticks, stats, unread, delivery, redis, history,
                 found, faults, drops, crashes>>

-----------------------------------------------------------------------------
(***************************************************************************)
(* run_delivery: one batch, one match, one request, one attempt at a time. *)
(***************************************************************************)
TakeBatch ==
  /\ delivery.stage = "recv" /\ batches # <<>>
  /\ delivery' = [delivery EXCEPT !.stage = "resolve", !.matches = Head(batches)]
  /\ batches' = Tail(batches)
  /\ UNCHANGED <<source, front, redis, history, found, faults, drops, crashes>>

(* Where the loops go once a match has no request left.                    *)
AfterMatch(matches) == IF matches = <<>> THEN "recv" ELSE "resolve"

(* router.resolve: the channels that are enabled and have an endpoint, in  *)
(* the order the condition lists them; none when the subscriber is not     *)
(* found or the look-up fails.                                             *)
Resolvable ==
  UNION {{channels \in [1..n -> 1..NumChannels] : \A j, k \in 1..n : j < k => channels[j] < channels[k]} :
           n \in 0..NumChannels}

Resolve ==
  /\ delivery.stage = "resolve"
  /\ \E channels \in Resolvable :
       LET slots    == Head(delivery.matches)
           requests == [k \in DOMAIN channels |-> slots[channels[k]]]
       IN  delivery' = [delivery EXCEPT
                          !.matches = Tail(@), !.requests = requests,
                          !.attempt = 0, !.success = FALSE,
                          !.stage = IF requests = <<>> THEN AfterMatch(Tail(delivery.matches))
                                    ELSE IF Configured THEN "send" ELSE "log"]
  /\ UNCHANGED <<source, front, batches, redis, history,
                 found, faults, drops, crashes>>

RetryLeft == delivery.attempt + 1 < MaxAttempts

(* One POST.  A failed one may have been taken by the provider (a timeout, *)
(* a lost answer); is_retryable_error decides by the error's text.         *)
Attempt ==
  /\ delivery.stage = "send"
  /\ \E taken, answered, retryable \in BOOLEAN :
       /\ posted' = posted \cup {Head(delivery.requests)}
       /\ accepted' = IF taken THEN accepted \cup {Head(delivery.requests)} ELSE accepted
       /\ UNCHANGED unpushed
       /\ delivery' =
            IF taken /\ answered
            THEN [delivery EXCEPT !.stage = "log", !.success = TRUE]
            ELSE IF retryable /\ RetryLeft
            THEN [delivery EXCEPT !.attempt = @ + 1]
            ELSE [delivery EXCEPT !.stage = "log"]
  /\ UNCHANGED <<source, front, batches, redis, found, faults, drops, crashes>>

(* A Redis command; a fault leaves it undone, or done with an error for an *)
(* answer.  The connections are never opened again: a broken one is a fault*)
(* at every command.                                                       *)
Command(done, failed) ==
  /\ done \/ failed
  /\ failed => faults < MaxFaults
  /\ faults' = IF failed THEN faults + 1 ELSE faults

NextRequest ==
  LET rest == Tail(delivery.requests)
  IN  [delivery EXCEPT !.requests = rest, !.attempt = 0, !.success = FALSE,
                       !.stage = IF rest = <<>> THEN AfterMatch(delivery.matches)
                                 ELSE IF Configured THEN "send" ELSE "log"]

AfterLogTriesAgain(failed) ==   \* mutant: log_delivery is called again after an error
  IF failed THEN delivery
  ELSE IF delivery.success THEN NextRequest ELSE [delivery EXCEPT !.stage = "dead"]

AfterLogLeavesOnError(failed) ==   \* mutant: `?` on log_delivery, the push is skipped
  IF delivery.success \/ failed THEN NextRequest ELSE [delivery EXCEPT !.stage = "dead"]

AfterLogAlways(failed) ==   \* mutant: the push does not look at result.success
  [delivery EXCEPT !.stage = "dead"]

(* An error of log_delivery is logged and otherwise ignored.               *)
AfterLog(failed) ==
  IF delivery.success THEN NextRequest ELSE [delivery EXCEPT !.stage = "dead"]

LogDelivery ==
  /\ delivery.stage = "log"
  /\ \E done, failed \in BOOLEAN :
       /\ Command(done, failed)
       /\ events' = IF done
                    THEN Append(events, [slot |-> Head(delivery.requests),
                                         success |-> delivery.success])
                    ELSE events
       /\ delivery' = AfterLog(failed)
  /\ UNCHANGED <<source, front, batches, dlq, history, found, drops, crashes>>

PushDeadLetter ==
  /\ delivery.stage = "dead"
  /\ \E done, failed \in BOOLEAN :
       /\ Command(done, failed)
       /\ dlq' = IF done THEN <<Head(delivery.requests)>> \o dlq ELSE dlq
       /\ unpushed' = IF done THEN unpushed ELSE unpushed \cup {Head(delivery.requests)}
  /\ delivery' = NextRequest
  /\ UNCHANGED <<source, front, batches, events, posted, accepted, found, drops, crashes>>

-----------------------------------------------------------------------------
(* select! in main: any task that ends, by a panic for one, ends the       *)
(* process; it is started again with nothing but what Redis holds.         *)
Crash ==
  /\ crashes < MaxCrashes
  /\ crashes' = crashes + 1
  /\ connected' = TRUE
  /\ queue' = IF kind = "websocket" THEN <<>> ELSE queue
  /\ ingest' = Reading /\ ticks' = <<>> /\ evaluator' = Waking /\ stats' = NoStats /\ unread' = 0
  /\ batches' = <<>> /\ delivery' = Resting
  /\ unpushed' = IF delivery.stage = "dead"
                 THEN unpushed \cup {Head(delivery.requests)} ELSE unpushed
  /\ UNCHANGED <<kind, produced, redis, posted, accepted, found, faults, drops>>

IngestStep == NextTick \/ CountIngested \/ SendTick \/ CountDropped \/ IngestUnparsable \/ Reconnect
EvaluateStep ==
  \/ Receive \/ CountEvaluated \/ CountFound \/ SendMatches
  \/ \E n \in 0..MaxMatches : Evaluate(n)
DeliveryStep == TakeBatch \/ Resolve \/ Attempt \/ LogDelivery \/ PushDeadLetter

Next == Produce \/ LoseConnection \/ Crash \/ IngestStep \/ EvaluateStep \/ DeliveryStep

(* Each task is polled by the runtime whenever it can go on: an HTTP call  *)
(* has a timeout and a Redis command answers or fails.                     *)
Fairness == WF_vars(IngestStep) /\ WF_vars(EvaluateStep) /\ WF_vars(DeliveryStep)

Spec == Init /\ [][Next]_vars /\ Fairness

-----------------------------------------------------------------------------
(***************************************************************************)
(* Properties                                                              *)
(***************************************************************************)
LastSlot == MaxTicks * MaxMatches * NumChannels

TypeOK ==
  /\ kind \in SourceKinds /\ produced \in 0..MaxTicks
  /\ queue \in Seq(1..MaxTicks) /\ connected \in BOOLEAN
  /\ ticks \in Seq(1..MaxTicks) /\ Len(ticks) <= BufferSize
  /\ ingest \in [stage : {"next", "count", "send", "dropped"}, tick : 0..MaxTicks]
  /\ evaluator \in [stage : {"recv", "evaluate", "count", "found", "send"},
                    tick : 0..MaxTicks, matches : 0..MaxMatches]
  /\ stats \in [{"ingested", "evaluated", "found", "dropped"} -> Nat]
  /\ unread \in 0..BufferSize
  /\ Len(batches) <= DeliveryCap
  /\ delivery.stage \in {"recv", "resolve", "send", "log", "dead"}
  /\ delivery.attempt \in 0..(MaxAttempts - 1)
  /\ delivery.requests \in Seq(1..LastSlot)
  /\ dlq \in Seq(1..LastSlot) /\ accepted \subseteq posted /\ posted \subseteq 1..LastSlot
  /\ unpushed \subseteq 1..LastSlot

(* Ticks one of the two tasks holds: counted as ingested, and not yet as   *)
(* dropped or as evaluated.                                                *)
BeingSent == IF ingest.stage \in {"send", "dropped"} THEN 1 ELSE 0
BeingEvaluated == IF evaluator.stage \in {"evaluate", "count"} THEN 1 ELSE 0

(* The counters of the health endpoint account for every tick whenever one *)
(* looks, between any two fetch_adds of the two tasks: what was counted as *)
(* ingested is evaluated, dropped, in the channel, or in a task's hands.   *)
StatsAccount ==
  stats.ingested = stats.evaluated + stats.dropped + Len(ticks) + BeingSent + BeingEvaluated

(* From the source to the event stream the runtime loses but never         *)
(* repeats, invents or reorders: through full channels, retries, Redis     *)
(* faults and restarts, it implements LossyFifo.                           *)
Fifo == INSTANCE LossyFifo
          WITH sent <- produced * MaxMatches * NumChannels,
               got  <- [i \in 1..Len(events) |-> events[i].slot]

InOrderAtMostOnce == Fifo!Spec

(* A dead letter is a delivery that failed, and is one only once: its      *)
(* event, when it was logged, says so.                                     *)
DeadLettersFailed ==
  /\ \A i, j \in 1..Len(dlq) : dlq[i] = dlq[j] => i = j
  /\ \A i \in 1..Len(dlq), j \in 1..Len(events) :
       events[j].slot = dlq[i] => ~events[j].success

InHand(slot) == slot \in Range(delivery.requests)

Logged(slot) == \E i \in 1..Len(events) : events[i].slot = slot

(* dead_letter.rs:8, "Failed deliveries are pushed here": each failure the *)
(* loop is done with is there, but for one at most for each Redis command  *)
(* that failed and each restart.                                           *)
FailuresDeadLettered ==
  /\ \A i \in 1..Len(events) :
       ~events[i].success /\ ~InHand(events[i].slot) => events[i].slot \in Range(dlq) \cup unpushed
  /\ Cardinality(unpushed) <= faults + crashes

(* Ticks and failed deliveries are accounted for, at every step of the     *)
(* three tasks: in the counters, and in the dead letters and nowhere else. *)
Accounted == TypeOK /\ StatsAccount /\ DeadLettersFailed /\ FailuresDeadLettered

(* What a provider never took leaves a trace, its event or its dead letter,*)
(* even when one command of Redis failed.                                  *)
UntakenLeavesATrace ==
  faults <= 1 /\ crashes = 0 =>
    \A slot \in posted \ accepted :
      InHand(slot) \/ Logged(slot) \/ slot \in Range(dlq)

(* delivery/mod.rs:51, "If delivery failed after retries, push to dead     *)
(* letter queue": a dead letter was POSTed at least once.                  *)
DeadLettersWereTried == Range(dlq) \subseteq posted

WorkedOff ==
  /\ queue = <<>> /\ ticks = <<>> /\ batches = <<>>
  /\ ingest.stage = "next" /\ evaluator.stage = "recv" /\ delivery.stage = "recv"

(* What the source holds and what both channels hold is worked off in the  *)
(* end, and a websocket comes back (pipeline.rs:64, "The source should     *)
(* handle reconnection internally"): through lost connections, full         *)
(* channels, failing Redis commands and restarts, everything but a Redis   *)
(* source whose connection was lost.                                       *)
DrainsUnlessRedisLost ==
  <>[](kind = "websocket" \/ connected => connected /\ WorkedOff)

=============================================================================
