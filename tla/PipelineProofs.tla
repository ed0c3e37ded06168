--------------------------- MODULE PipelineProofs ---------------------------
(***************************************************************************)
(* Theorems about Pipeline, for any channel sizes, retry limit and number  *)
(* of channels, ticks, matches, faults and restarts.                       *)
(***************************************************************************)
EXTENDS Pipeline, SequenceLemmas, FiniteSetTheorems, TLAPS

Tick == 1..MaxTicks
Slot == 1..LastSlot
Match == [1..NumChannels -> Slot]
Event == [slot : Slot, success : BOOLEAN]
Delivery == [stage : {"recv", "resolve", "send", "log", "dead"}, matches : Seq(Match),
             requests : Seq(Slot), attempt : 0..(MaxAttempts - 1), success : BOOLEAN]

Counts == [{"ingested", "evaluated", "found", "dropped"} -> Nat]
Ingesting == [stage : {"next", "count", "send", "dropped"}, tick : 0..MaxTicks]
Evaluating == [stage : {"recv", "evaluate", "count", "found", "send"}, tick : 0..MaxTicks,
               matches : 0..MaxMatches]

(* Every variable's type.                                                  *)
Types ==
  /\ kind \in SourceKinds /\ produced \in 0..MaxTicks /\ connected \in BOOLEAN
  /\ queue \in Seq(Tick) /\ ticks \in Seq(Tick) /\ Len(ticks) <= BufferSize
  /\ stats \in Counts
  /\ ingest \in Ingesting /\ evaluator \in Evaluating /\ unread \in 0..BufferSize
  /\ batches \in Seq(Seq(Match) \ {<<>>}) /\ Len(batches) <= DeliveryCap
  /\ delivery \in Delivery
  /\ events \in Seq(Event) /\ dlq \in Seq(Slot)
  /\ accepted \subseteq posted /\ posted \subseteq Slot /\ unpushed \subseteq Slot
  /\ faults \in Nat /\ crashes \in Nat

(* What run_delivery holds at each of its awaits.                          *)
StageFits(state) ==
  /\ state.stage = "recv" => state.matches = <<>>
  /\ state.stage = "resolve" => state.matches # <<>>
  /\ state.requests = <<>> <=> state.stage \in {"recv", "resolve"}

(* What the other two tasks hold.                                          *)
HandsFit ==
  /\ ingest.stage \in {"count", "send"} => ingest.tick \in Tick
  /\ evaluator.stage # "recv" => evaluator.tick \in Tick
  /\ evaluator.stage \in {"found", "send"} => evaluator.matches # 0

Shaped == Types /\ StageFits(delivery) /\ HandsFit /\ StatsAccount

-----------------------------------------------------------------------------
(* Slots on the way from the source to the event stream, place by place.   *)
SlotsIn(matches) == UNION {Range(matches[i]) : i \in 1..Len(matches)}

MatchesAscend(matches) ==
  /\ \A i \in 1..Len(matches) : Increasing(matches[i])
  /\ \A i, j \in 1..Len(matches) : i < j => Before(Range(matches[i]), Range(matches[j]))

SlotsOfAll(waiting) == UNION {SlotsIn(waiting[i]) : i \in 1..Len(waiting)}

BatchesAscend(waiting) ==
  /\ \A i \in 1..Len(waiting) : MatchesAscend(waiting[i])
  /\ \A i, j \in 1..Len(waiting) : i < j => Before(SlotsIn(waiting[i]), SlotsIn(waiting[j]))

(* The tick in the evaluator's hand, and the one that may yet be sent.     *)
Leaving == IF evaluator.stage = "recv" THEN {} ELSE {evaluator.tick}
Entering == IF ingest.stage \in {"count", "send"} THEN {ingest.tick} ELSE {}
Waiting == Leaving \cup Range(ticks) \cup Entering \cup Range(queue)
Batched == SlotsOfAll(batches)
Matched == SlotsIn(delivery.matches)
Asked == Range(delivery.requests)
InStream == {events[i].slot : i \in 1..Len(events)}
Done == InStream \cup Range(dlq)

Start(tick) == (tick - 1) * MaxMatches * NumChannels

TicksInOrder ==
  /\ Increasing(ticks) /\ Increasing(queue)
  /\ Before(Leaving, Range(ticks)) /\ Before(Leaving, Entering) /\ Before(Leaving, Range(queue))
  /\ Before(Range(ticks), Entering) /\ Before(Range(ticks), Range(queue))
  /\ Before(Entering, Range(queue))
  /\ \A tick \in Waiting : tick <= produced

SlotsInOrder ==
  /\ Increasing(delivery.requests) /\ MatchesAscend(delivery.matches) /\ BatchesAscend(batches)
  /\ \A asked \in Asked : \A slot \in Done \ {Head(delivery.requests)} : slot < asked
  /\ Before(Done, Matched) /\ Before(Done, Batched) /\ Before(Asked, Matched)
  /\ Before(Asked, Batched) /\ Before(Matched, Batched)
  /\ \A slot \in Done \cup Asked \cup Matched \cup Batched :
       /\ slot <= Start(produced + 1)
       /\ \A tick \in Waiting : slot <= Start(tick)

(* The request in hand is in the stream only once it failed, and not yet   *)
(* among the dead letters.                                                 *)
HeadIsFresh ==
  /\ delivery.stage \in {"send", "log"} => Head(delivery.requests) \notin Done
  /\ delivery.stage = "dead" =>
       /\ Head(delivery.requests) \notin Range(dlq)
       /\ \A i \in 1..Len(events) :
            events[i].slot = Head(delivery.requests) => ~events[i].success

Ordered == TicksInOrder /\ SlotsInOrder /\ HeadIsFresh

-----------------------------------------------------------------------------
(* A success was taken by the provider; a failure on its way to the dead   *)
(* letters was logged, unless Redis failed.                                *)
HeadIsKnown ==
  /\ delivery.stage \in {"send", "log"} /\ delivery.success =>
       Head(delivery.requests) \in accepted
  /\ delivery.stage = "dead" /\ faults = 0 => Logged(Head(delivery.requests))

Traced == HeadIsKnown /\ DeadLettersFailed /\ FailuresDeadLettered /\ UntakenLeavesATrace

IInv == Shaped /\ Ordered /\ Traced
-----------------------------------------------------------------------------
(* A batch in order starts with its first match.                           *)
LEMMA MatchesTail ==
  ASSUME NEW matches \in Seq(Match), matches # <<>>
  PROVE  /\ SlotsIn(matches) = Range(Head(matches)) \cup SlotsIn(Tail(matches))
         /\ MatchesAscend(matches) =>
              /\ Increasing(Head(matches)) /\ MatchesAscend(Tail(matches))
              /\ Before(Range(Head(matches)), SlotsIn(Tail(matches)))
<1>. DEFINE rest == Tail(matches)
<1>1. /\ Len(matches) \in Nat /\ 1 \in 1..Len(matches) /\ Head(matches) = matches[1]
      /\ Len(rest) = Len(matches) - 1
  BY HeadAndTail
<1>2. \A i \in 1..Len(rest) : i + 1 \in 1..Len(matches) /\ rest[i] = matches[i + 1]
  BY HeadAndTail
<1>3. \A i \in 1..Len(matches) : i = 1 \/ (i - 1 \in 1..Len(rest) /\ rest[i - 1] = matches[i])
  <2>1. ASSUME NEW i \in 1..Len(matches), i # 1
        PROVE  i - 1 \in 1..Len(rest) /\ rest[i - 1] = matches[i]
    <3>1. i - 1 \in 1..Len(rest) /\ (i - 1) + 1 = i
      BY <1>1, <2>1
    <3>. QED  BY <1>2, <3>1
  <2>. QED  BY <2>1
<1>. HIDE DEF rest
<1>4. SlotsIn(matches) = Range(Head(matches)) \cup SlotsIn(rest)
  BY <1>1, <1>2, <1>3 DEF SlotsIn
<1>5. ASSUME MatchesAscend(matches)
      PROVE  /\ Increasing(Head(matches)) /\ MatchesAscend(rest)
             /\ Before(Range(Head(matches)), SlotsIn(rest))
  <2>1. Increasing(Head(matches))
    BY <1>1, <1>5 DEF MatchesAscend
  <2>2. \A i \in 1..Len(rest) : Increasing(rest[i])
    BY <1>2, <1>5 DEF MatchesAscend
  <2>3. ASSUME NEW i \in 1..Len(rest), NEW j \in 1..Len(rest), i < j
        PROVE  Before(Range(rest[i]), Range(rest[j]))
    <3>1. i + 1 < j + 1
      BY <2>3
    <3>. QED  BY <1>2, <1>5, <3>1 DEF MatchesAscend
  <2>4. ASSUME NEW i \in 1..Len(rest) PROVE Before(Range(Head(matches)), Range(rest[i]))
    <3>1. 1 < i + 1
      BY <2>4
    <3>. QED  BY <1>1, <1>2, <1>5, <3>1 DEF MatchesAscend
  <2>5. Before(Range(Head(matches)), SlotsIn(rest))
    BY <2>4 DEF Before, SlotsIn
  <2>. QED  BY <2>1, <2>2, <2>3, <2>5 DEF MatchesAscend
<1>. QED  BY <1>4, <1>5 DEF rest

(* The batches in the channel start with the one run_delivery takes next.  *)
LEMMA BatchesTail ==
  ASSUME NEW waiting \in Seq(Seq(Match) \ {<<>>}), waiting # <<>>
  PROVE  /\ SlotsOfAll(waiting) = SlotsIn(Head(waiting)) \cup SlotsOfAll(Tail(waiting))
         /\ BatchesAscend(waiting) =>
              /\ MatchesAscend(Head(waiting)) /\ BatchesAscend(Tail(waiting))
              /\ Before(SlotsIn(Head(waiting)), SlotsOfAll(Tail(waiting)))
<1>. DEFINE rest == Tail(waiting)
<1>1. /\ Len(waiting) \in Nat /\ 1 \in 1..Len(waiting) /\ Head(waiting) = waiting[1]
      /\ Len(rest) = Len(waiting) - 1
  BY HeadAndTail
<1>2. \A i \in 1..Len(rest) : i + 1 \in 1..Len(waiting) /\ rest[i] = waiting[i + 1]
  BY HeadAndTail
<1>3. \A i \in 1..Len(waiting) : i = 1 \/ (i - 1 \in 1..Len(rest) /\ rest[i - 1] = waiting[i])
  <2>1. ASSUME NEW i \in 1..Len(waiting), i # 1
        PROVE  i - 1 \in 1..Len(rest) /\ rest[i - 1] = waiting[i]
    <3>1. i - 1 \in 1..Len(rest) /\ (i - 1) + 1 = i
      BY <1>1, <2>1
    <3>. QED  BY <1>2, <3>1
  <2>. QED  BY <2>1
<1>. HIDE DEF rest
<1>4. SlotsOfAll(waiting) = SlotsIn(Head(waiting)) \cup SlotsOfAll(rest)
  BY <1>1, <1>2, <1>3, ZenonT(30) DEF SlotsOfAll
<1>5. ASSUME BatchesAscend(waiting)
      PROVE  /\ MatchesAscend(Head(waiting)) /\ BatchesAscend(rest)
             /\ Before(SlotsIn(Head(waiting)), SlotsOfAll(rest))
  <2>1. MatchesAscend(Head(waiting))
    BY <1>1, <1>5 DEF BatchesAscend
  <2>2. \A i \in 1..Len(rest) : MatchesAscend(rest[i])
    BY <1>2, <1>5 DEF BatchesAscend
  <2>3. ASSUME NEW i \in 1..Len(rest), NEW j \in 1..Len(rest), i < j
        PROVE  Before(SlotsIn(rest[i]), SlotsIn(rest[j]))
    <3>1. i + 1 < j + 1
      BY <2>3
    <3>. QED  BY <1>2, <1>5, <3>1 DEF BatchesAscend
  <2>4. ASSUME NEW i \in 1..Len(rest) PROVE Before(SlotsIn(Head(waiting)), SlotsIn(rest[i]))
    <3>1. 1 < i + 1
      BY <2>4
    <3>. QED  BY <1>1, <1>2, <1>5, <3>1 DEF BatchesAscend
  <2>5. Before(SlotsIn(Head(waiting)), SlotsOfAll(rest))
    BY <2>4 DEF Before, SlotsOfAll
  <2>. QED  BY <2>1, <2>2, <2>3, <2>5 DEF BatchesAscend
<1>. QED  BY <1>4, <1>5 DEF rest

(* A batch put behind the waiting ones adds its slots, and keeps the       *)
(* order.                                                                  *)
LEMMA BatchesAppend ==
  ASSUME NEW waiting \in Seq(Seq(Match) \ {<<>>}), NEW batch \in Seq(Match) \ {<<>>}
  PROVE  /\ SlotsOfAll(Append(waiting, batch)) = SlotsOfAll(waiting) \cup SlotsIn(batch)
         /\ BatchesAscend(waiting) /\ MatchesAscend(batch)
              /\ Before(SlotsOfAll(waiting), SlotsIn(batch)) =>
              BatchesAscend(Append(waiting, batch))
<1>. DEFINE longer == Append(waiting, batch)
<1>1. /\ Len(waiting) \in Nat /\ Len(longer) = Len(waiting) + 1
      /\ \A i \in 1..Len(waiting) : longer[i] = waiting[i]
      /\ longer[Len(waiting) + 1] = batch
  BY AppendSpec
<1>. HIDE DEF longer
<1>2. \A i \in 1..Len(longer) : i \in 1..Len(waiting) \/ i = Len(waiting) + 1
  BY <1>1
<1>3. \A i \in 1..Len(waiting) : i \in 1..Len(longer)
  BY <1>1
<1>4. Len(waiting) + 1 \in 1..Len(longer)
  BY <1>1
<1>5. SlotsOfAll(longer) = SlotsOfAll(waiting) \cup SlotsIn(batch)
  BY <1>1, <1>2, <1>3, <1>4, Zenon DEF SlotsOfAll
<1>6. ASSUME BatchesAscend(waiting), MatchesAscend(batch),
             Before(SlotsOfAll(waiting), SlotsIn(batch))
      PROVE  BatchesAscend(longer)
  <2>1. \A i \in 1..Len(longer) : MatchesAscend(longer[i])
    BY <1>1, <1>2, <1>6 DEF BatchesAscend
  <2>2. ASSUME NEW i \in 1..Len(longer), NEW j \in 1..Len(longer), i < j
        PROVE  Before(SlotsIn(longer[i]), SlotsIn(longer[j]))
    <3>1. i \in 1..Len(waiting)
      BY <1>1, <2>2
    <3>2. CASE j \in 1..Len(waiting)
      BY <1>1, <1>6, <2>2, <3>1, <3>2 DEF BatchesAscend
    <3>3. CASE j = Len(waiting) + 1
      BY <1>1, <1>6, <3>1, <3>3 DEF Before, SlotsOfAll
    <3>. QED  BY <1>2, <3>2, <3>3
  <2>. QED  BY <2>1, <2>2 DEF BatchesAscend
<1>. QED  BY <1>5, <1>6 DEF longer
-----------------------------------------------------------------------------
(* Ticks, matches and channels number their slots in lexicographic order.  *)
LEMMA Blocks ==
  ASSUME NEW k \in Nat, NEW l \in Nat, NEW size \in Nat, k < l
  PROVE  k * size + size <= l * size
<1>1. PICK d \in Nat : l = k + 1 + d
  <2>1. l - k - 1 \in Nat /\ l = k + 1 + (l - k - 1)
    OBVIOUS
  <2>. QED  BY <2>1
<1>2. (k + 1 + d) * size = k * size + size + d * size /\ d * size \in Nat
  OBVIOUS
<1>3. k * size \in Nat
  OBVIOUS
<1>. QED  BY <1>1, <1>2, <1>3

(* The capacities and limits are positive integers.                        *)
LEMMA Bounds ==
  /\ BufferSize \in Nat \ {0} /\ DeliveryCap \in Nat \ {0} /\ MaxAttempts \in Nat \ {0}
  /\ NumChannels \in Nat \ {0} /\ MaxMatches \in Nat \ {0} /\ MaxTicks \in Nat
  /\ MaxMatches * NumChannels \in Nat \ {0}
<1>1. /\ BufferSize \in Nat \ {0} /\ DeliveryCap \in Nat \ {0} /\ MaxAttempts \in Nat \ {0}
      /\ NumChannels \in Nat \ {0} /\ MaxMatches \in Nat \ {0} /\ MaxTicks \in Nat
  BY PipelineAssumption
<1>2. MaxMatches * NumChannels >= NumChannels
  BY <1>1, Blocks, 0 < MaxMatches
<1>. QED  BY <1>1, <1>2

(* The slots of a tick begin where those of the tick before it end.        *)
LEMMA StartSpec ==
  ASSUME NEW tick \in Nat \ {0}
  PROVE  /\ Start(tick) = (tick - 1) * (MaxMatches * NumChannels)
         /\ Start(tick) \in Nat /\ Start(tick) < Start(tick + 1)
<1>. DEFINE span == MaxMatches * NumChannels
<1>1. Start(tick) = (tick - 1) * span
  BY Bounds DEF Start
<1>2. Start(tick + 1) = tick * span
  BY Bounds DEF Start
<1>3. span \in Nat \ {0}
  BY Bounds
<1>. HIDE DEF span
<1>4. tick - 1 \in Nat /\ (tick - 1) * span \in Nat /\ tick * span \in Nat
  BY <1>3
<1>5. (tick - 1) * span + span <= tick * span
  BY <1>3, <1>4, Blocks
<1>. QED  BY <1>1, <1>2, <1>3, <1>4, <1>5 DEF span

(* A later tick has later slots.                                           *)
LEMMA StartAscends ==
  ASSUME NEW tick \in Nat \ {0}, NEW later \in Nat \ {0}, tick < later
  PROVE  Start(tick + 1) <= Start(later)
<1>. DEFINE span == MaxMatches * NumChannels
<1>1. Start(tick + 1) = tick * span /\ Start(later) = (later - 1) * span
  BY StartSpec
<1>2. span \in Nat
  BY Bounds
<1>. HIDE DEF span
<1>3. tick = later - 1 \/ (later - 1 \in Nat /\ tick < later - 1)
  OBVIOUS
<1>4. CASE tick = later - 1
  <2>1. tick * span \in Nat
    BY <1>2
  <2>. QED  BY <1>1, <1>4, <2>1
<1>5. CASE later - 1 \in Nat /\ tick < later - 1
  <2>1. tick * span + span <= (later - 1) * span
    BY <1>2, <1>5, Blocks
  <2>2. tick * span \in Nat /\ (later - 1) * span \in Nat
    BY <1>2, <1>5
  <2>. QED  BY <1>1, <1>2, <2>1, <2>2
<1>. QED  BY <1>3, <1>4, <1>5

(* The last slot any tick may use.                                         *)
LEMMA LastSlotSpec == LastSlot = Start(MaxTicks + 1) /\ LastSlot \in Nat
<1>1. LastSlot = Start(MaxTicks + 1)
  BY Bounds DEF LastSlot, Start
<1>2. MaxTicks + 1 \in Nat \ {0}
  BY Bounds
<1>. QED  BY <1>1, <1>2, StartSpec

(* One match's channels.                                                   *)
LEMMA MatchOfTick ==
  ASSUME NEW tick \in Tick, NEW match \in 1..MaxMatches
  PROVE  /\ SlotsOf(tick, match) \in Match /\ Increasing(SlotsOf(tick, match))
         /\ \A slot \in Range(SlotsOf(tick, match)) : slot > Start(tick) /\ slot <= Start(tick + 1)
         /\ \A later \in 1..MaxMatches :
              match < later => Before(Range(SlotsOf(tick, match)), Range(SlotsOf(tick, later)))
<1>. DEFINE base == (tick - 1) * MaxMatches
            block(m) == base + m - 1
<1>1. /\ tick \in Nat \ {0} /\ match \in Nat \ {0} /\ NumChannels \in Nat \ {0}
      /\ MaxMatches \in Nat \ {0} /\ tick - 1 \in Nat /\ MaxTicks \in Nat /\ tick <= MaxTicks
  BY Bounds DEF Tick
<1>2. base \in Nat
  BY <1>1
<1>3. Start(tick) = base * NumChannels
  BY DEF Start
<1>4. Start(tick + 1) = (base + MaxMatches) * NumChannels
  <2>1. tick * MaxMatches = (tick - 1) * MaxMatches + MaxMatches
    BY <1>1
  <2>2. tick + 1 - 1 = tick
    BY <1>1
  <2>. QED  BY <1>1, <1>2, <2>1, <2>2 DEF Start
<1>5. \A m \in 1..MaxMatches :
        SlotsOf(tick, m) = [c \in 1..NumChannels |-> block(m) * NumChannels + c]
  BY DEF SlotsOf
<1>. HIDE DEF base
<1>6. \A m \in 1..MaxMatches :
        /\ block(m) \in Nat /\ block(m) < base + MaxMatches
        /\ base <= block(m) /\ \A l \in 1..MaxMatches : m < l => block(m) < block(l)
  BY <1>1, <1>2
<1>. HIDE DEF block
<1>7. ASSUME NEW m \in 1..MaxMatches
      PROVE  /\ base * NumChannels \in Nat /\ block(m) * NumChannels \in Nat
             /\ base * NumChannels <= block(m) * NumChannels
             /\ (base + MaxMatches) * NumChannels \in Nat
             /\ block(m) * NumChannels + NumChannels <= (base + MaxMatches) * NumChannels
  <2>1. base + MaxMatches \in Nat /\ block(m) \in Nat
    BY <1>1, <1>2, <1>6
  <2>2. base * NumChannels \in Nat /\ block(m) * NumChannels \in Nat
        /\ (base + MaxMatches) * NumChannels \in Nat
    BY <1>1, <1>2, <2>1
  <2>3. base < block(m) \/ base = block(m)
    BY <1>2, <1>6
  <2>4. base * NumChannels <= block(m) * NumChannels
    <3>1. CASE base = block(m)
      BY <2>2, <3>1
    <3>2. CASE base < block(m)
      <4>1. base * NumChannels + NumChannels <= block(m) * NumChannels
        BY <1>1, <1>2, <2>1, <3>2, Blocks
      <4>. QED  BY <1>1, <2>2, <4>1
    <3>. QED  BY <2>3, <3>1, <3>2
  <2>5. block(m) * NumChannels + NumChannels <= (base + MaxMatches) * NumChannels
    BY <1>1, <1>6, <2>1, Blocks
  <2>. QED  BY <2>2, <2>4, <2>5
<1>8. ASSUME NEW m \in 1..MaxMatches, NEW c \in 1..NumChannels
      PROVE  /\ SlotsOf(tick, m)[c] = block(m) * NumChannels + c
             /\ SlotsOf(tick, m)[c] > Start(tick) /\ SlotsOf(tick, m)[c] <= Start(tick + 1)
  <2>1. SlotsOf(tick, m)[c] = block(m) * NumChannels + c
    BY <1>5
  <2>2. c \in Nat \ {0} /\ c <= NumChannels
    BY <1>1
  <2>. QED  BY <1>1, <1>3, <1>4, <1>7, <2>1, <2>2
<1>9. Start(tick) \in Nat /\ Start(tick + 1) <= LastSlot
  <2>1. tick < MaxTicks + 1 /\ MaxTicks + 1 \in Nat \ {0}
    BY <1>1
  <2>2. Start(tick + 1) <= Start(MaxTicks + 1)
    BY <1>1, <2>1, StartAscends
  <2>. QED  BY <1>1, <2>2, LastSlotSpec, StartSpec
<1>10. \A m \in 1..MaxMatches : DOMAIN SlotsOf(tick, m) = 1..NumChannels
  BY <1>5
<1>11. SlotsOf(tick, match) \in Match
  <2>1. ASSUME NEW c \in 1..NumChannels
        PROVE  block(match) * NumChannels + c \in Slot
    <3>1. block(match) * NumChannels + c \in Int
      BY <1>1, <1>7
    <3>2. Start(tick) < block(match) * NumChannels + c /\ block(match) * NumChannels + c <= LastSlot
      <4>1. LastSlot \in Nat /\ Start(tick + 1) \in Nat
        BY <1>1, LastSlotSpec, StartSpec
      <4>. QED  BY <1>8, <1>9, <3>1, <4>1
    <3>. QED  BY <1>9, <3>1, <3>2, LastSlotSpec DEF Slot
  <2>. QED  BY <1>5, <2>1 DEF Match
<1>12. Increasing(SlotsOf(tick, match))
  <2>1. ASSUME NEW c \in 1..NumChannels, NEW d \in 1..NumChannels, c < d
        PROVE  SlotsOf(tick, match)[c] < SlotsOf(tick, match)[d]
    BY <1>1, <1>7, <1>8, <2>1
  <2>. QED  BY <1>10, <2>1 DEF Increasing
<1>13. ASSUME NEW later \in 1..MaxMatches, match < later,
              NEW c \in 1..NumChannels, NEW d \in 1..NumChannels
       PROVE  SlotsOf(tick, match)[c] < SlotsOf(tick, later)[d]
  <2>1. block(match) * NumChannels + NumChannels <= block(later) * NumChannels
    BY <1>1, <1>6, <1>13, Blocks
  <2>2. c \in Nat /\ d \in Nat \ {0} /\ c <= NumChannels
    BY <1>1
  <2>. QED  BY <1>1, <1>7, <1>8, <2>1, <2>2
<1>14. \A slot \in Range(SlotsOf(tick, match)) : slot > Start(tick) /\ slot <= Start(tick + 1)
  BY <1>8, <1>10 DEF Range
<1>15. \A later \in 1..MaxMatches :
        match < later => Before(Range(SlotsOf(tick, match)), Range(SlotsOf(tick, later)))
  BY <1>10, <1>13 DEF Before, Range
<1>. QED  BY <1>11, <1>12, <1>14, <1>15

(* The batch run_evaluator sends for a tick.                               *)
LEMMA BatchOfTick ==
  ASSUME NEW tick \in Tick, NEW n \in 1..MaxMatches
  PROVE  LET batch == [m \in 1..n |-> SlotsOf(tick, m)]
         IN  /\ batch \in Seq(Match) \ {<<>>} /\ MatchesAscend(batch)
             /\ \A slot \in SlotsIn(batch) : slot > Start(tick) /\ slot <= Start(tick + 1)
<1>. DEFINE batch == [m \in 1..n |-> SlotsOf(tick, m)]
<1>1. n \in Nat \ {0} /\ \A m \in 1..n : m \in 1..MaxMatches
  BY Bounds
<1>2. \A m \in 1..n : SlotsOf(tick, m) \in Match
  BY <1>1, MatchOfTick
<1>3. batch \in Seq(Match) /\ Len(batch) = n /\ \A m \in 1..n : batch[m] = SlotsOf(tick, m)
  BY <1>1, <1>2
<1>. HIDE DEF batch
<1>4. batch # <<>>
  BY <1>1, <1>3
<1>5. MatchesAscend(batch)
  BY <1>1, <1>3, MatchOfTick DEF MatchesAscend
<1>6. \A slot \in SlotsIn(batch) : slot > Start(tick) /\ slot <= Start(tick + 1)
  BY <1>1, <1>3, MatchOfTick DEF SlotsIn
<1>. QED  BY <1>3, <1>4, <1>5, <1>6 DEF batch
-----------------------------------------------------------------------------
(* The fields run_delivery has after each of its steps.                    *)
LEMMA NextRequestSpec ==
  ASSUME Shaped, delivery.requests # <<>>
  PROVE  /\ NextRequest \in Delivery /\ StageFits(NextRequest) /\ NextRequest.stage # "dead"
         /\ NextRequest.matches = delivery.matches /\ ~NextRequest.success
         /\ NextRequest.requests = Tail(delivery.requests)
<1>1. delivery \in Delivery
  BY DEF Shaped, Types
<1>2. Tail(delivery.requests) \in Seq(Slot)
  BY <1>1, HeadAndTail DEF Delivery
<1>3. 0 \in 0..(MaxAttempts - 1)
  BY Bounds
<1>. QED
  BY <1>1, <1>2, <1>3 DEF NextRequest, AfterMatch, Delivery, StageFits

(* Resolving takes one match out of the batch and asks for some of its     *)
(* channels, in order.                                                     *)
LEMMA ResolveSpec ==
  ASSUME Shaped, Resolve
  PROVE  /\ delivery.requests = <<>> /\ delivery.matches # <<>>
         /\ delivery' \in Delivery /\ StageFits(delivery') /\ delivery'.stage # "dead"
         /\ delivery'.matches = Tail(delivery.matches) /\ ~delivery'.success
         /\ Range(delivery'.requests) \subseteq Range(Head(delivery.matches))
         /\ Increasing(Head(delivery.matches)) => Increasing(delivery'.requests)
<1>. DEFINE slots == Head(delivery.matches)
<1>1. delivery \in Delivery /\ delivery.requests = <<>> /\ delivery.matches # <<>>
  BY DEF Shaped, Types, Resolve, StageFits
<1>2. slots \in Match /\ Tail(delivery.matches) \in Seq(Match)
  BY <1>1, HeadAndTail DEF Delivery
<1>3. PICK channels \in Resolvable :
        delivery' = [delivery EXCEPT
                       !.matches = Tail(@), !.requests = [k \in DOMAIN channels |-> slots[channels[k]]],
                       !.attempt = 0, !.success = FALSE,
                       !.stage = IF [k \in DOMAIN channels |-> slots[channels[k]]] = <<>>
                                 THEN AfterMatch(Tail(delivery.matches))
                                 ELSE IF Configured THEN "send" ELSE "log"]
  BY DEF Resolve
<1>4. PICK n \in 0..NumChannels :
        /\ channels \in [1..n -> 1..NumChannels]
        /\ \A j, k \in 1..n : j < k => channels[j] < channels[k]
  BY <1>3 DEF Resolvable
<1>. DEFINE requests == [k \in DOMAIN channels |-> slots[channels[k]]]
<1>5. n \in Nat /\ DOMAIN channels = 1..n
  BY <1>4, Bounds
<1>6. \A k \in 1..n : channels[k] \in 1..NumChannels /\ slots[channels[k]] \in Slot
  BY <1>2, <1>4 DEF Match
<1>7. /\ requests \in Seq(Slot) /\ DOMAIN requests = 1..n
      /\ \A k \in 1..n : requests[k] = slots[channels[k]]
  BY <1>5, <1>6
<1>8. DOMAIN slots = 1..NumChannels
  BY <1>2 DEF Match
<1>9. Range(requests) \subseteq Range(slots)
  BY <1>6, <1>7, <1>8 DEF Range
<1>10. ASSUME Increasing(slots) PROVE Increasing(requests)
  BY <1>4, <1>6, <1>7, <1>8, <1>10 DEF Increasing
<1>. HIDE DEF requests, slots
<1>11. 0 \in 0..(MaxAttempts - 1)
  BY Bounds
<1>12. delivery' = [delivery EXCEPT
                      !.matches = Tail(@), !.requests = requests, !.attempt = 0, !.success = FALSE,
                      !.stage = IF requests = <<>> THEN AfterMatch(Tail(delivery.matches))
                                ELSE IF Configured THEN "send" ELSE "log"]
  BY <1>3 DEF requests, slots
<1>13. delivery'.requests = requests /\ delivery'.matches = Tail(delivery.matches)
       /\ ~delivery'.success
  BY <1>1, <1>12 DEF Delivery
<1>14. delivery' \in Delivery /\ StageFits(delivery') /\ delivery'.stage # "dead"
  BY <1>1, <1>2, <1>7, <1>11, <1>12 DEF Delivery, StageFits, AfterMatch
<1>. QED  BY <1>1, <1>9, <1>10, <1>13, <1>14 DEF slots

(* One attempt to post the request at the head: it stays there, and may    *)
(* be accepted.                                                            *)
LEMMA AttemptSpec ==
  ASSUME Shaped, Attempt
  PROVE  /\ delivery.stage = "send" /\ delivery.requests # <<>>
         /\ Head(delivery.requests) \in Slot
         /\ delivery' \in Delivery /\ StageFits(delivery') /\ delivery'.stage \in {"send", "log"}
         /\ delivery'.matches = delivery.matches /\ delivery'.requests = delivery.requests
         /\ posted' = posted \cup {Head(delivery.requests)}
         /\ accepted' \in {accepted, accepted \cup {Head(delivery.requests)}}
         /\ delivery'.success => delivery.success \/ Head(delivery.requests) \in accepted'
<1>1. delivery \in Delivery /\ delivery.stage = "send" /\ delivery.requests # <<>>
  BY DEF Shaped, Types, Attempt, StageFits
<1>2. Head(delivery.requests) \in Slot
  BY <1>1, HeadAndTail DEF Delivery
<1>3. PICK taken \in BOOLEAN, answered \in BOOLEAN, retryable \in BOOLEAN :
        /\ posted' = posted \cup {Head(delivery.requests)}
        /\ accepted' = IF taken THEN accepted \cup {Head(delivery.requests)} ELSE accepted
        /\ delivery' =
             IF taken /\ answered
             THEN [delivery EXCEPT !.stage = "log", !.success = TRUE]
             ELSE IF retryable /\ RetryLeft
             THEN [delivery EXCEPT !.attempt = @ + 1]
             ELSE [delivery EXCEPT !.stage = "log"]
  BY DEF Attempt
<1>4. CASE taken /\ answered
  BY <1>1, <1>2, <1>3, <1>4 DEF Delivery, StageFits, Shaped
<1>5. CASE ~(taken /\ answered) /\ retryable /\ RetryLeft
  <2>1. delivery' = [delivery EXCEPT !.attempt = @ + 1]
    BY <1>3, <1>5
  <2>2. delivery.attempt + 1 \in 0..(MaxAttempts - 1)
    BY <1>1, <1>5, Bounds DEF RetryLeft, Delivery
  <2>3. /\ delivery'.stage = "send" /\ delivery'.matches = delivery.matches
        /\ delivery'.requests = delivery.requests /\ delivery'.success = delivery.success
    BY <1>1, <2>1 DEF Delivery
  <2>4. delivery' \in Delivery
    BY <1>1, <2>1, <2>2 DEF Delivery
  <2>5. StageFits(delivery')
    BY <1>1, <2>3 DEF StageFits
  <2>6. accepted' \in {accepted, accepted \cup {Head(delivery.requests)}}
    BY <1>3
  <2>. QED
    BY <1>1, <1>2, <1>3, <2>3, <2>4, <2>5, <2>6
<1>6. CASE ~(taken /\ answered) /\ ~(retryable /\ RetryLeft)
  BY <1>1, <1>2, <1>3, <1>6 DEF Delivery, StageFits, Shaped
<1>. QED  BY <1>4, <1>5, <1>6
-----------------------------------------------------------------------------
(* The types, and the counters of the health endpoint.                     *)
LEMMA InitShaped == Init => Shaped
<1>. SUFFICES ASSUME Init PROVE Shaped
  OBVIOUS
<1>1. 0 \in 0..(MaxAttempts - 1) /\ 0 \in 0..BufferSize /\ 0 \in 0..MaxTicks /\ 0 <= DeliveryCap
      /\ 0 <= BufferSize
  BY Bounds
<1>2. Resting \in Delivery /\ StageFits(Resting)
  BY <1>1 DEF Resting, Delivery, StageFits
<1>3. NoStats \in Counts
  BY DEF NoStats, Counts
<1>4. /\ Reading \in Ingesting /\ Waking \in Evaluating
      /\ Reading.stage = "next" /\ Waking.stage = "recv"
  BY Bounds DEF Reading, Waking, Ingesting, Evaluating
<1>5. Types
  BY <1>1, <1>2, <1>3, <1>4 DEF Init, Types
<1>6. StatsAccount
  <2>1. BeingSent = 0 /\ BeingEvaluated = 0 /\ Len(ticks) = 0
    BY <1>4 DEF Init, BeingSent, BeingEvaluated
  <2>2. NoStats.ingested = 0 /\ NoStats.evaluated = 0 /\ NoStats.dropped = 0
    BY DEF NoStats
  <2>. QED  BY <2>1, <2>2 DEF Init, StatsAccount
<1>. QED  BY <1>2, <1>4, <1>5, <1>6 DEF Init, Shaped, HandsFit

(* What the shape of the state says of the two channels, of the tasks'    *)
(* hands and of the counters.                                              *)
LEMMA ChannelTypes ==
  ASSUME Shaped
  PROVE  /\ queue \in Seq(Tick) /\ ticks \in Seq(Tick)
         /\ Len(ticks) \in Nat /\ Len(ticks) <= BufferSize
         /\ batches \in Seq(Seq(Match) \ {<<>>})
         /\ Len(batches) \in Nat /\ Len(batches) <= DeliveryCap
         /\ stats \in Counts /\ ingest \in Ingesting /\ evaluator \in Evaluating
         /\ BeingSent \in {0, 1} /\ BeingEvaluated \in {0, 1}
         /\ stats.ingested = stats.evaluated + stats.dropped + Len(ticks) + BeingSent + BeingEvaluated
<1>1. ticks \in Seq(Tick) /\ batches \in Seq(Seq(Match) \ {<<>>})
  BY DEF Shaped, Types
<1>2. Len(ticks) \in Nat /\ Len(batches) \in Nat
  BY <1>1
<1>3. BeingSent \in {0, 1} /\ BeingEvaluated \in {0, 1}
  BY DEF BeingSent, BeingEvaluated
<1>. QED  BY <1>1, <1>2, <1>3 DEF Shaped, Types, StatsAccount

(* A counter that is increased is still a counter.                         *)
LEMMA StatsPlus ==
  ASSUME NEW counts \in Counts,
         NEW field \in {"ingested", "evaluated", "found", "dropped"}, NEW n \in Nat
  PROVE  [counts EXCEPT ![field] = @ + n] \in Counts
<1>1. counts[field] + n \in Nat
  BY DEF Counts
<1>. QED  BY <1>1 DEF Counts

(* The producer, the connection and the ingest task leave the evaluator's  *)
(* hand alone and keep the shape.                                          *)
LEMMA IngestShaped ==
  ASSUME Shaped, Produce \/ LoseConnection \/ IngestStep
  PROVE  Shaped'
<1>0. stats \in Counts /\ ingest \in Ingesting /\ Len(ticks) \in Nat
  BY ChannelTypes
<1>9. /\ Len(ticks) \in Nat /\ stats.ingested \in Nat /\ stats.dropped \in Nat
      /\ stats.evaluated \in Nat /\ BeingSent \in {0, 1} /\ BeingEvaluated \in {0, 1}
      /\ stats.ingested = stats.evaluated + stats.dropped + Len(ticks) + BeingSent + BeingEvaluated
  BY ChannelTypes DEF Counts
<1>1. CASE Produce
  <2>1. produced + 1 \in Tick /\ produced + 1 \in 0..MaxTicks
    BY <1>1, Bounds DEF Produce, Shaped, Types, Tick
  <2>2. queue' = queue \/ queue' = Append(queue, produced + 1)
    BY <1>1 DEF Produce
  <2>3. queue' \in Seq(Tick)
    <3>1. queue \in Seq(Tick) /\ Append(queue, produced + 1) \in Seq(Tick)
      BY <2>1, AppendSpec, ChannelTypes
    <3>. QED  BY <2>2, <3>1, Zenon
  <2>4. /\ UNCHANGED <<ingest, ticks, evaluator, stats>> /\ Types'
    BY <1>1, <2>1, <2>3 DEF Produce, front, redis, history, Shaped, Types
  <2>. QED
    BY <1>1, <2>4 DEF Produce, Shaped, HandsFit, StatsAccount, BeingSent, BeingEvaluated
<1>2. CASE LoseConnection
  <2>1. queue' = <<>> \/ queue' = queue \/ (queue # <<>> /\ queue' = Tail(queue))
    BY <1>2 DEF LoseConnection
  <2>2. queue # <<>> => Tail(queue) \in Seq(Tick)
    BY HeadAndTail, ChannelTypes
  <2>3. queue' \in Seq(Tick)
    <3>1. <<>> \in Seq(Tick) /\ queue \in Seq(Tick)
      BY ChannelTypes
    <3>. QED  BY <2>1, <2>2, <3>1, Zenon
  <2>4. /\ UNCHANGED <<ingest, ticks, evaluator, stats>> /\ Types'
    BY <1>2, <2>3 DEF LoseConnection, front, redis, history, Shaped, Types
  <2>. QED
    BY <1>2, <2>4 DEF LoseConnection, Shaped, HandsFit, StatsAccount, BeingSent, BeingEvaluated
<1>3. CASE NextTick
  <2>1. Head(queue) \in Tick /\ Tail(queue) \in Seq(Tick)
    BY <1>3, HeadAndTail, ChannelTypes DEF NextTick
  <2>2. ingest' \in Ingesting /\ ingest'.stage = "count" /\ ingest'.tick = Head(queue)
    BY <1>3, <2>1 DEF NextTick, Ingesting, Tick
  <2>3. /\ UNCHANGED <<ticks, evaluator, stats, delivery>> /\ Types'
    BY <1>3, <2>1, <2>2 DEF NextTick, redis, history, Shaped, Types
  <2>4. BeingSent = 0 /\ BeingSent' = 0 /\ BeingEvaluated' = BeingEvaluated
    BY <1>3, <2>2, <2>3 DEF NextTick, BeingSent, BeingEvaluated
  <2>. QED  BY <2>1, <2>2, <2>3, <2>4 DEF Shaped, HandsFit, StatsAccount
<1>4. CASE CountIngested
  <2>1. /\ ingest' \in Ingesting /\ ingest'.stage = "send" /\ ingest'.tick = ingest.tick
        /\ ingest.stage = "count"
    BY <1>0, <1>4 DEF CountIngested, Ingesting
  <2>2. stats' \in Counts
    BY <1>0, <1>4, StatsPlus DEF CountIngested
  <2>0. /\ stats'.ingested = stats.ingested + 1
        /\ stats'.evaluated = stats.evaluated /\ stats'.dropped = stats.dropped
    BY <1>0, <1>4 DEF CountIngested, Counts
  <2>3. /\ UNCHANGED <<ticks, evaluator, delivery>> /\ Types'
    BY <1>4, <2>1, <2>2 DEF CountIngested, source, redis, history, Shaped, Types
  <2>4. BeingSent = 0 /\ BeingSent' = 1 /\ BeingEvaluated' = BeingEvaluated
    BY <2>1, <2>3 DEF BeingSent, BeingEvaluated
  <2>5. StatsAccount'
    BY <1>9, <2>0, <2>3, <2>4 DEF StatsAccount
  <2>. QED  BY <2>1, <2>3, <2>5 DEF Shaped, HandsFit
<1>5. CASE SendTick
  <2>1. ingest.stage = "send" /\ ingest.tick \in Tick
    BY <1>5 DEF SendTick, Shaped, HandsFit
  <2>2. CASE Len(ticks) < BufferSize
    <3>1. ticks' = Append(ticks, ingest.tick) /\ ingest' = Reading
      BY <1>5, <2>2 DEF SendTick
    <3>2. ticks' \in Seq(Tick)
      BY <2>1, <3>1, AppendSpec, ChannelTypes
    <3>0. Len(ticks') = Len(ticks) + 1
      BY <2>1, <3>1, AppendSpec, ChannelTypes
    <3>3. Len(ticks') <= BufferSize
      BY <1>0, <2>2, <3>0, Bounds
    <3>4. ingest' \in Ingesting /\ ingest'.stage = "next"
      BY <3>1, Bounds DEF Reading, Ingesting
    <3>5. UNCHANGED <<evaluator, stats, delivery>> /\ Types'
      BY <1>5, <3>2, <3>3, <3>4 DEF SendTick, source, redis, history, Shaped, Types
    <3>6. BeingSent = 1 /\ BeingSent' = 0 /\ BeingEvaluated' = BeingEvaluated
      BY <2>1, <3>4, <3>5 DEF BeingSent, BeingEvaluated
    <3>7. StatsAccount'
      BY <1>9, <3>0, <3>5, <3>6 DEF StatsAccount
    <3>. QED  BY <3>4, <3>5, <3>7 DEF Shaped, HandsFit
  <2>3. CASE ~(Len(ticks) < BufferSize)
    <3>1. ticks' = ticks /\ ingest' = [stage |-> "dropped", tick |-> 0]
      BY <1>5, <2>3 DEF SendTick
    <3>2. ingest' \in Ingesting /\ ingest'.stage = "dropped"
      BY <3>1, Bounds DEF Ingesting
    <3>3. UNCHANGED <<evaluator, stats, delivery>> /\ Types'
      BY <1>5, <3>1, <3>2 DEF SendTick, source, redis, history, Shaped, Types
    <3>4. BeingSent = 1 /\ BeingSent' = 1 /\ BeingEvaluated' = BeingEvaluated
      BY <2>1, <3>2, <3>3 DEF BeingSent, BeingEvaluated
    <3>. QED  BY <3>1, <3>2, <3>3, <3>4 DEF Shaped, HandsFit, StatsAccount
  <2>. QED  BY <2>2, <2>3
<1>6. CASE CountDropped
  <2>1. ingest' \in Ingesting /\ ingest'.stage = "next" /\ ingest.stage = "dropped"
    BY <1>6, Bounds DEF CountDropped, Reading, Ingesting
  <2>2. stats' \in Counts
    BY <1>0, <1>6, StatsPlus DEF CountDropped
  <2>0. /\ stats'.ingested = stats.ingested
        /\ stats'.evaluated = stats.evaluated /\ stats'.dropped = stats.dropped + 1
    BY <1>0, <1>6 DEF CountDropped, Counts
  <2>3. /\ UNCHANGED <<ticks, evaluator, delivery>> /\ Types'
    BY <1>6, <2>1, <2>2 DEF CountDropped, source, redis, history, Shaped, Types
  <2>4. BeingSent = 1 /\ BeingSent' = 0 /\ BeingEvaluated' = BeingEvaluated
    BY <2>1, <2>3 DEF BeingSent, BeingEvaluated
  <2>5. StatsAccount'
    BY <1>9, <2>0, <2>3, <2>4 DEF StatsAccount
  <2>. QED  BY <2>1, <2>3, <2>5 DEF Shaped, HandsFit
<1>7. CASE IngestUnparsable
  <2>1. Tail(queue) \in Seq(Tick)
    BY <1>7, HeadAndTail, ChannelTypes DEF IngestUnparsable
  <2>2. UNCHANGED <<ingest, ticks, evaluator, stats, delivery>> /\ Types'
    BY <1>7, <2>1 DEF IngestUnparsable, front, redis, history, Shaped, Types
  <2>. QED  BY <2>2 DEF Shaped, HandsFit, StatsAccount, BeingSent, BeingEvaluated
<1>8. CASE Reconnect
  <2>1. UNCHANGED <<ingest, ticks, evaluator, stats, delivery>> /\ Types'
    BY <1>8 DEF Reconnect, front, redis, history, Shaped, Types
  <2>. QED  BY <2>1 DEF Shaped, HandsFit, StatsAccount, BeingSent, BeingEvaluated
<1>. QED  BY <1>1, <1>2, <1>3, <1>4, <1>5, <1>6, <1>7, <1>8 DEF IngestStep

(* The evaluation task keeps the shape: the tick it takes out of the       *)
(* channel is in its hand until it is counted.                             *)
LEMMA EvaluateShaped ==
  ASSUME Shaped, EvaluateStep
  PROVE  Shaped'
<1>0. /\ stats \in Counts /\ evaluator \in Evaluating /\ ticks \in Seq(Tick)
      /\ Len(ticks) \in Nat
  BY ChannelTypes
<1>9. /\ Len(ticks) \in Nat /\ stats.ingested \in Nat /\ stats.dropped \in Nat
      /\ stats.evaluated \in Nat /\ BeingSent \in {0, 1} /\ BeingEvaluated \in {0, 1}
      /\ stats.ingested = stats.evaluated + stats.dropped + Len(ticks) + BeingSent + BeingEvaluated
  BY ChannelTypes DEF Counts
<1>1. CASE Receive
  <2>1. ticks # <<>> /\ ticks' = Tail(ticks) /\ evaluator.stage = "recv"
    BY <1>1 DEF Receive
  <2>2. Head(ticks) \in Tick /\ ticks' \in Seq(Tick)
    BY <1>0, <2>1, HeadAndTail
  <2>0. Len(ticks') = Len(ticks) - 1
    BY <1>0, <2>1, HeadAndTail
  <2>3. /\ evaluator' \in Evaluating /\ evaluator'.stage = "evaluate"
        /\ evaluator'.tick = Head(ticks)
    BY <1>1, <2>2, Bounds DEF Receive, Evaluating, Tick
  <2>4. Len(ticks') <= BufferSize
    BY <1>0, <2>0, Bounds, ChannelTypes
  <2>5. UNCHANGED <<ingest, stats, delivery>> /\ Types'
    BY <1>1, <2>2, <2>3, <2>4 DEF Receive, source, redis, history, Shaped, Types
  <2>6. BeingEvaluated = 0 /\ BeingEvaluated' = 1 /\ BeingSent' = BeingSent
    BY <2>1, <2>3, <2>5 DEF BeingSent, BeingEvaluated
  <2>7. StatsAccount'
    BY <1>9, <2>0, <2>5, <2>6 DEF StatsAccount
  <2>. QED  BY <2>2, <2>3, <2>5, <2>7 DEF Shaped, HandsFit
<1>2. ASSUME NEW n \in 0..MaxMatches, Evaluate(n) PROVE Shaped'
  <2>1. evaluator.stage = "evaluate"
    BY <1>2 DEF Evaluate
  <2>2. /\ evaluator' \in Evaluating /\ evaluator'.stage = "count"
        /\ evaluator'.tick = evaluator.tick
    BY <1>0, <1>2 DEF Evaluate, Evaluating
  <2>3. unread' \in 0..BufferSize
    <3>1. unread' \in {unread} \/ (unread < BufferSize /\ unread' = unread + 1)
      BY <1>2 DEF Evaluate
    <3>. QED  BY <3>1, Bounds DEF Shaped, Types
  <2>4. UNCHANGED <<ingest, ticks, stats, delivery>> /\ Types'
    BY <1>2, <2>2, <2>3 DEF Evaluate, source, redis, history, Shaped, Types
  <2>5. BeingEvaluated = 1 /\ BeingEvaluated' = 1 /\ BeingSent' = BeingSent
    BY <2>1, <2>2, <2>4 DEF BeingSent, BeingEvaluated
  <2>. QED  BY <2>1, <2>2, <2>4, <2>5 DEF Shaped, HandsFit, StatsAccount
<1>3. CASE CountEvaluated
  <2>1. evaluator.stage = "count"
    BY <1>3 DEF CountEvaluated
  <2>2. /\ evaluator' \in Evaluating /\ evaluator'.stage \in {"recv", "found"}
        /\ evaluator'.stage = "found" => evaluator'.tick = evaluator.tick /\ evaluator'.matches # 0
    <3>1. CASE evaluator.matches = 0
      <4>1. evaluator' = Waking
        BY <1>3, <3>1 DEF CountEvaluated
      <4>. QED  BY <4>1, Bounds DEF Waking, Evaluating
    <3>2. CASE evaluator.matches # 0
      <4>1. evaluator' = [evaluator EXCEPT !.stage = "found"]
        BY <1>3, <3>2 DEF CountEvaluated
      <4>. QED  BY <1>0, <3>2, <4>1 DEF Evaluating
    <3>. QED  BY <3>1, <3>2
  <2>3. stats' \in Counts
    BY <1>0, <1>3, StatsPlus DEF CountEvaluated
  <2>0. /\ stats'.ingested = stats.ingested
        /\ stats'.evaluated = stats.evaluated + 1 /\ stats'.dropped = stats.dropped
    BY <1>0, <1>3 DEF CountEvaluated, Counts
  <2>4. UNCHANGED <<ingest, ticks, delivery>> /\ Types'
    BY <1>3, <2>2, <2>3 DEF CountEvaluated, source, redis, history, Shaped, Types
  <2>5. BeingEvaluated = 1 /\ BeingEvaluated' = 0 /\ BeingSent' = BeingSent
    BY <2>1, <2>2, <2>4 DEF BeingSent, BeingEvaluated
  <2>6. StatsAccount'
    BY <1>9, <2>0, <2>4, <2>5 DEF StatsAccount
  <2>. QED  BY <2>1, <2>2, <2>4, <2>6 DEF Shaped, HandsFit
<1>4. CASE CountFound
  <2>1. evaluator.stage = "found" /\ evaluator.matches \in Nat
    BY <1>0, <1>4, Bounds DEF CountFound, Evaluating
  <2>2. /\ evaluator' \in Evaluating /\ evaluator'.stage = "send"
        /\ evaluator'.tick = evaluator.tick /\ evaluator'.matches = evaluator.matches
    BY <1>0, <1>4 DEF CountFound, Evaluating
  <2>3. stats' \in Counts
    BY <1>0, <1>4, <2>1, StatsPlus DEF CountFound
  <2>0. /\ stats'.ingested = stats.ingested
        /\ stats'.evaluated = stats.evaluated /\ stats'.dropped = stats.dropped
    BY <1>0, <1>4, <2>1 DEF CountFound, Counts
  <2>4. UNCHANGED <<ingest, ticks, delivery>> /\ Types'
    BY <1>4, <2>2, <2>3 DEF CountFound, source, redis, history, Shaped, Types
  <2>5. BeingEvaluated' = BeingEvaluated /\ BeingSent' = BeingSent
    BY <2>1, <2>2, <2>4 DEF BeingSent, BeingEvaluated
  <2>. QED  BY <2>0, <2>1, <2>2, <2>4, <2>5 DEF Shaped, HandsFit, StatsAccount
<1>5. CASE SendMatches
  <2>1. /\ evaluator.stage = "send" /\ evaluator.tick \in Tick
        /\ evaluator.matches \in 1..MaxMatches
    BY <1>0, <1>5, Bounds DEF SendMatches, Shaped, HandsFit, Evaluating
  <2>2. evaluator' \in Evaluating /\ evaluator'.stage = "recv"
    BY <1>5, Bounds DEF SendMatches, Waking, Evaluating
  <2>3. batches' \in Seq(Seq(Match) \ {<<>>}) /\ Len(batches') <= DeliveryCap
    <3>1. CASE Len(batches) < DeliveryCap
      <4>. DEFINE batch == [m \in 1..evaluator.matches |-> SlotsOf(evaluator.tick, m)]
      <4>1. batch \in Seq(Match) \ {<<>>}
        BY <2>1, BatchOfTick
      <4>2. batches' = Append(batches, batch)
        BY <1>5, <3>1 DEF SendMatches
      <4>. HIDE DEF batch
      <4>3. batches' \in Seq(Seq(Match) \ {<<>>}) /\ Len(batches') = Len(batches) + 1
        BY <4>1, <4>2, AppendSpec, ChannelTypes
      <4>. QED  BY <3>1, <4>3, Bounds, ChannelTypes
    <3>2. CASE ~(Len(batches) < DeliveryCap)
      BY <1>5, <3>2, ChannelTypes DEF SendMatches
    <3>. QED  BY <3>1, <3>2
  <2>4. UNCHANGED <<ingest, ticks, stats, delivery>> /\ Types'
    BY <1>5, <2>2, <2>3 DEF SendMatches, source, redis, history, Shaped, Types
  <2>5. BeingEvaluated = 0 /\ BeingEvaluated' = 0 /\ BeingSent' = BeingSent
    BY <2>1, <2>2, <2>4 DEF BeingSent, BeingEvaluated
  <2>. QED  BY <2>2, <2>4, <2>5 DEF Shaped, HandsFit, StatsAccount
<1>. QED  BY <1>1, <1>2, <1>3, <1>4, <1>5 DEF EvaluateStep

(* The delivery loop keeps the shape.                                      *)
LEMMA DeliveryShaped ==
  ASSUME Shaped, DeliveryStep
  PROVE  Shaped'
<1>0. delivery \in Delivery /\ StageFits(delivery)
  BY DEF Shaped, Types
<1>1. CASE TakeBatch
  <2>1. /\ Head(batches) \in Seq(Match) \ {<<>>} /\ batches' \in Seq(Seq(Match) \ {<<>>})
        /\ Len(batches') = Len(batches) - 1
    BY <1>1, HeadAndTail, ChannelTypes DEF TakeBatch
  <2>2. delivery' \in Delivery /\ StageFits(delivery')
    BY <1>0, <1>1, <2>1 DEF TakeBatch, Delivery, StageFits
  <2>3. Len(batches') <= DeliveryCap
    BY <2>1, Bounds, ChannelTypes
  <2>. QED
    BY <1>1, <2>1, <2>2, <2>3 DEF TakeBatch, source, front, redis, history, Shaped, Types,
            HandsFit, StatsAccount, BeingSent, BeingEvaluated
<1>2. CASE Resolve
  <2>1. delivery' \in Delivery /\ StageFits(delivery')
    BY <1>2, ResolveSpec
  <2>. QED  BY <1>2, <2>1 DEF Resolve, source, front, redis, history, Shaped, Types,
          HandsFit, StatsAccount, BeingSent, BeingEvaluated
<1>3. CASE Attempt
  <2>1. /\ delivery' \in Delivery /\ StageFits(delivery')
        /\ accepted' \subseteq posted' /\ posted' \subseteq Slot
    BY <1>3, AttemptSpec DEF Shaped, Types
  <2>. QED  BY <1>3, <2>1 DEF Attempt, source, front, redis, Shaped, Types,
          HandsFit, StatsAccount, BeingSent, BeingEvaluated
<1>4. CASE LogDelivery
  <2>1. delivery.requests # <<>>
    BY <1>0, <1>4 DEF LogDelivery, StageFits
  <2>2. Head(delivery.requests) \in Slot
    BY <1>0, <2>1, HeadAndTail DEF Delivery
  <2>3. delivery' \in {NextRequest, [delivery EXCEPT !.stage = "dead"]}
    BY <1>4 DEF LogDelivery, AfterLog
  <2>4. delivery' \in Delivery /\ StageFits(delivery')
    <3>1. CASE delivery' = NextRequest
      BY <2>1, <3>1, NextRequestSpec
    <3>2. CASE delivery' = [delivery EXCEPT !.stage = "dead"]
      BY <1>0, <2>1, <3>2 DEF Delivery, StageFits
    <3>. QED  BY <2>3, <3>1, <3>2
  <2>. DEFINE event == [slot |-> Head(delivery.requests), success |-> delivery.success]
  <2>5. event \in Event
    BY <1>0, <2>2 DEF Event, Delivery
  <2>6. events' \in {events, Append(events, event)}
    BY <1>4 DEF LogDelivery
  <2>. HIDE DEF event
  <2>7. events' \in Seq(Event)
    <3>1. events \in Seq(Event)
      BY DEF Shaped, Types
    <3>. QED  BY <2>5, <2>6, <3>1, AppendSpec
  <2>8. faults' \in Nat
    BY <1>4 DEF LogDelivery, Command, Shaped, Types
  <2>. QED  BY <1>4, <2>4, <2>7, <2>8 DEF LogDelivery, source, front, history, Shaped, Types,
          HandsFit, StatsAccount, BeingSent, BeingEvaluated
<1>5. CASE PushDeadLetter
  <2>1. delivery.requests # <<>>
    BY <1>0, <1>5 DEF PushDeadLetter, StageFits
  <2>2. Head(delivery.requests) \in Slot
    BY <1>0, <2>1, HeadAndTail DEF Delivery
  <2>3. delivery' = NextRequest /\ faults' \in Nat
    BY <1>5 DEF PushDeadLetter, Command, Shaped, Types
  <2>4. delivery' \in Delivery /\ StageFits(delivery')
    BY <2>1, <2>3, NextRequestSpec
  <2>5. dlq' \in Seq(Slot) /\ unpushed' \subseteq Slot
    BY <1>5, <2>2 DEF PushDeadLetter, Shaped, Types
  <2>. QED
    BY <1>5, <2>3, <2>4, <2>5 DEF PushDeadLetter, source, front, history, Shaped, Types,
            HandsFit, StatsAccount, BeingSent, BeingEvaluated
<1>. QED  BY <1>1, <1>2, <1>3, <1>4, <1>5 DEF DeliveryStep

(* A crash empties the channels and the task, and keeps the shape.         *)
LEMMA CrashShaped ==
  ASSUME Shaped, Crash
  PROVE  Shaped'
<1>1. 0 \in 0..(MaxAttempts - 1) /\ 0 \in 0..BufferSize /\ 0 <= DeliveryCap /\ 0 <= BufferSize
  BY Bounds
<1>2. Resting \in Delivery /\ StageFits(Resting)
  BY <1>1 DEF Resting, Delivery, StageFits
<1>3. NoStats \in Counts
  BY DEF NoStats, Counts
<1>4. queue' \in Seq(Tick) /\ crashes' \in Nat
  <2>1. queue' \in {<<>>, queue}
    BY DEF Crash
  <2>. QED  BY <2>1, ChannelTypes DEF Crash, Shaped, Types
<1>5. ticks' \in Seq(Tick) /\ Len(ticks') = 0 /\ Len(batches') = 0
      /\ batches' \in Seq(Seq(Match) \ {<<>>})
  BY DEF Crash
<1>6. /\ Reading \in Ingesting /\ Waking \in Evaluating
      /\ Reading.stage = "next" /\ Waking.stage = "recv"
  BY Bounds DEF Reading, Waking, Ingesting, Evaluating
<1>7. unpushed' \subseteq Slot
  <2>1. delivery.stage = "dead" => Head(delivery.requests) \in Slot
    BY HeadAndTail DEF Shaped, Types, StageFits, Delivery
  <2>. QED  BY <2>1 DEF Crash, Shaped, Types
<1>8. Types'
  BY <1>1, <1>2, <1>3, <1>4, <1>5, <1>6, <1>7 DEF Crash, Shaped, Types, redis
<1>9. StatsAccount'
  <2>1. BeingSent' = 0 /\ BeingEvaluated' = 0
    BY <1>6 DEF Crash, BeingSent, BeingEvaluated
  <2>2. NoStats.ingested = 0 /\ NoStats.evaluated = 0 /\ NoStats.dropped = 0 /\ stats' = NoStats
    BY DEF NoStats, Crash
  <2>3. Len(ticks') = 0
    BY <1>5
  <2>. QED  BY <2>1, <2>2, <2>3 DEF StatsAccount
<1>. QED  BY <1>2, <1>6, <1>8, <1>9 DEF Crash, Shaped, HandsFit

(* Every step keeps the shape.                                             *)
LEMMA NextShaped == Shaped /\ [Next]_vars => Shaped'
<1>. SUFFICES ASSUME Shaped, [Next]_vars PROVE Shaped'
  OBVIOUS
<1>1. CASE UNCHANGED vars
  BY <1>1 DEF Shaped, Types, HandsFit, StatsAccount, BeingSent, BeingEvaluated, vars, source, front,
              redis, history
<1>2. CASE Next
  BY <1>2, IngestShaped, EvaluateShaped, DeliveryShaped, CrashShaped DEF Next
<1>. QED  BY <1>1, <1>2

-----------------------------------------------------------------------------
(* The order of slots, place by place.                                     *)
LEMMA SlotsInType ==
  ASSUME NEW matches \in Seq(Match)
  PROVE  SlotsIn(matches) \subseteq Slot
<1>1. \A i \in 1..Len(matches) : matches[i] \in Match
  OBVIOUS
<1>2. \A i \in 1..Len(matches) : Range(matches[i]) \subseteq Slot
  BY <1>1 DEF Match, Range
<1>. QED  BY <1>2 DEF SlotsIn

(* The places a slot or a tick may be in hold integers.                    *)
LEMMA Places ==
  ASSUME Shaped
  PROVE  /\ Done \subseteq Nat /\ Asked \subseteq Nat /\ Matched \subseteq Nat
         /\ Batched \subseteq Nat /\ Waiting \subseteq Nat \ {0} /\ produced \in Nat
         /\ delivery.requests \in Seq(Nat) /\ ticks \in Seq(Nat) /\ queue \in Seq(Nat)
<1>1. Tick \subseteq Nat \ {0} /\ Slot \subseteq Nat /\ produced \in Nat
  BY Bounds, LastSlotSpec, SMTT(30) DEF Tick, Slot, Shaped, Types
<1>2. /\ queue \in Seq(Tick) /\ ticks \in Seq(Tick) /\ delivery.requests \in Seq(Slot)
      /\ delivery.matches \in Seq(Match) /\ events \in Seq(Event) /\ dlq \in Seq(Slot)
      /\ batches \in Seq(Seq(Match) \ {<<>>})
  BY DEF Shaped, Types, Delivery
<1>3. Waiting \subseteq Tick
  BY <1>2 DEF Waiting, Leaving, Entering, Range, Shaped, HandsFit
<1>4. Asked \subseteq Slot /\ Range(dlq) \subseteq Slot
  BY <1>2 DEF Asked, Range
<1>5. InStream \subseteq Slot
  <2>1. \A i \in 1..Len(events) : events[i] \in Event
    BY <1>2
  <2>2. \A i \in 1..Len(events) : events[i].slot \in Slot
    BY <2>1 DEF Event
  <2>. QED  BY <2>2 DEF InStream
<1>7. Matched \subseteq Slot
  BY <1>2, SlotsInType DEF Matched
<1>8. Batched \subseteq Slot
  <2>1. \A i \in 1..Len(batches) : batches[i] \in Seq(Match)
    BY <1>2
  <2>2. \A i \in 1..Len(batches) : SlotsIn(batches[i]) \subseteq Slot
    BY <2>1, SlotsInType
  <2>3. ASSUME NEW slot \in Batched PROVE slot \in Slot
    <3>1. PICK i \in 1..Len(batches) : slot \in SlotsIn(batches[i])
      BY DEF Batched, SlotsOfAll
    <3>. QED  BY <2>2, <3>1
  <2>. QED  BY <2>3
<1>9. delivery.requests \in Seq(Nat) /\ ticks \in Seq(Nat) /\ queue \in Seq(Nat)
  <2>1. Tick \subseteq Nat
    BY <1>1
  <2>. QED  BY <1>1, <1>2, <2>1, SeqOfSuperset
<1>. QED  BY <1>1, <1>3, <1>4, <1>5, <1>7, <1>8, <1>9 DEF Done

(* Empty places hold nothing and are in order.                             *)
LEMMA EmptyPlaces ==
  /\ Range(<<>>) = {} /\ SlotsIn(<<>>) = {} /\ SlotsOfAll(<<>>) = {}
  /\ Increasing(<<>>) /\ MatchesAscend(<<>>) /\ BatchesAscend(<<>>)
<1>1. Len(<<>>) = 0 /\ DOMAIN <<>> = {} /\ 1..0 = {}
  OBVIOUS
<1>. QED
  BY <1>1 DEF Range, SlotsIn, SlotsOfAll, Increasing, MatchesAscend, BatchesAscend

(* An empty pipeline is in order.                                          *)
LEMMA InitOrdered == Init => Ordered
<1>. SUFFICES ASSUME Init PROVE Ordered
  OBVIOUS
<1>1. /\ Waiting = {} /\ Asked = {} /\ Matched = {} /\ Batched = {}
      /\ Leaving = {} /\ Entering = {}
  BY EmptyPlaces
     DEF Init, Reading, Waking, Resting, Waiting, Leaving, Entering, Asked, Matched, Batched
<1>2. Done = {}
  BY EmptyPlaces DEF Init, Done, InStream
<1>3. TicksInOrder
  BY <1>1, EmptyPlaces DEF Init, TicksInOrder, Before
<1>4. SlotsInOrder
  BY <1>1, <1>2, EmptyPlaces DEF Init, Resting, SlotsInOrder, Before
<1>5. HeadIsFresh
  BY DEF Init, Resting, HeadIsFresh
<1>. QED  BY <1>3, <1>4, <1>5 DEF Ordered

(* Ticks may leave the source and the tick channel, and a new one is later *)
(* than everything before it.                                              *)
LEMMA SourceOrdered ==
  ASSUME Shaped, Ordered, TicksInOrder', UNCHANGED <<delivery, batches, events, dlq>>,
         produced' = produced \/ produced' = produced + 1,
         \A tick \in Waiting' : tick \in Waiting \/ tick = produced + 1
  PROVE  Ordered'
<1>1. /\ Done' = Done /\ Asked' = Asked /\ Matched' = Matched /\ Batched' = Batched
      /\ HeadIsFresh'
  BY DEF Done, InStream, Asked, Matched, Batched, Ordered, HeadIsFresh
<1>2. produced + 1 \in Nat \ {0} /\ produced + 1 < produced + 2 /\ produced + 2 \in Nat \ {0}
  BY Places
<1>3. Start(produced + 1) \in Nat /\ Start(produced + 1) < Start(produced + 2)
      /\ Start(produced + 2) \in Nat
  <2>1. (produced + 1) + 1 = produced + 2
    BY Places
  <2>. QED  BY <1>2, <2>1, StartSpec
<1>4. ASSUME NEW slot \in Done \cup Asked \cup Matched \cup Batched
      PROVE  slot <= Start(produced' + 1) /\ \A tick \in Waiting' : slot <= Start(tick)
  <2>1. slot <= Start(produced + 1) /\ \A tick \in Waiting : slot <= Start(tick)
    BY DEF Ordered, SlotsInOrder
  <2>2. slot \in Nat
    BY Places
  <2>3. produced' + 1 = produced + 1 \/ produced' + 1 = produced + 2
    BY Places
  <2>4. slot <= Start(produced' + 1)
    <3>1. slot <= Start(produced + 2)
      BY <1>3, <2>1, <2>2
    <3>. QED  BY <2>1, <2>3, <3>1, Zenon
  <2>. QED  BY <2>1, <2>4
<1>5. SlotsInOrder'
  BY <1>1, <1>4 DEF Ordered, SlotsInOrder
<1>. QED  BY <1>1, <1>5 DEF Ordered

(* Where ticks only leave a place, or stay, the order holds.               *)
LEMMA SourceShrinks ==
  ASSUME Shaped, Ordered, UNCHANGED <<delivery, batches, events, dlq, produced>>,
         Increasing(ticks'), Increasing(queue'),
         Range(ticks') \subseteq Range(ticks), Range(queue') \subseteq Range(queue),
         Leaving' \subseteq Leaving, Entering' \subseteq Entering
  PROVE  Ordered'
<1>1. Waiting' \subseteq Waiting
  BY DEF Waiting
<1>2. TicksInOrder'
  BY <1>1 DEF Ordered, TicksInOrder, Before
<1>. QED  BY <1>1, <1>2, SourceOrdered

(* A tick enters behind the ones before it, or is dropped.                 *)
LEMMA IngestOrdered ==
  ASSUME Shaped, Ordered, Produce \/ LoseConnection \/ IngestStep
  PROVE  Ordered'
<1>0. /\ ticks \in Seq(Nat) /\ queue \in Seq(Nat) /\ produced \in Nat
      /\ Increasing(ticks) /\ Increasing(queue)
      /\ \A tick \in Waiting : tick \in Nat /\ tick <= produced
  BY Places DEF Ordered, TicksInOrder
<1>1. CASE Produce
  <2>1. /\ UNCHANGED <<ingest, ticks, evaluator, delivery, batches, events, dlq>>
        /\ produced' = produced + 1
        /\ queue' = queue \/ queue' = Append(queue, produced + 1)
    BY <1>1 DEF Produce, front, redis
  <2>2. \A tick \in Waiting : tick \in Nat /\ tick < produced + 1
    BY <1>0
  <2>3. Leaving' = Leaving /\ Entering' = Entering
    BY <2>1 DEF Leaving, Entering
  <2>4. CASE queue' = queue
    <3>1. Waiting' = Waiting
      BY <2>1, <2>3, <2>4 DEF Waiting
    <3>2. TicksInOrder'
      BY <1>0, <2>1, <2>3, <2>4, <3>1 DEF Ordered, TicksInOrder
    <3>. QED  BY <2>1, <3>1, <3>2, SourceOrdered
  <2>5. CASE queue' = Append(queue, produced + 1)
    <3>1. Range(queue') = Range(queue) \cup {produced + 1}
      BY <1>0, <2>5, AppendSpec, SMTT(30)
    <3>2. Waiting' = Waiting \cup {produced + 1}
      BY <2>1, <2>3, <3>1 DEF Waiting
    <3>3. Increasing(queue')
      BY <1>0, <2>2, <2>5, IncreasingAppend DEF Waiting
    <3>4. /\ Before(Leaving', Range(queue')) /\ Before(Range(ticks'), Range(queue'))
          /\ Before(Entering', Range(queue'))
      BY <2>1, <2>2, <2>3, <3>1 DEF Ordered, TicksInOrder, Before, Waiting
    <3>5. \A tick \in Waiting' : tick <= produced'
      BY <1>0, <2>1, <3>2
    <3>6. TicksInOrder'
      BY <1>0, <2>1, <2>3, <3>3, <3>4, <3>5 DEF Ordered, TicksInOrder
    <3>. QED  BY <2>1, <3>2, <3>6, SourceOrdered
  <2>. QED  BY <2>1, <2>4, <2>5
<1>2. CASE LoseConnection
  <2>1. /\ UNCHANGED <<ingest, ticks, evaluator, delivery, batches, events, dlq, produced>>
        /\ queue' = <<>> \/ queue' = queue \/ (queue # <<>> /\ queue' = Tail(queue))
    BY <1>2 DEF LoseConnection, front, redis
  <2>2. Increasing(queue') /\ Range(queue') \subseteq Range(queue)
    <3>1. CASE queue' = <<>>
      BY <3>1, EmptyPlaces
    <3>2. CASE queue # <<>> /\ queue' = Tail(queue)
      BY <1>0, <3>2, IncreasingTail, HeadAndTail
    <3>. QED  BY <1>0, <2>1, <3>1, <3>2
  <2>. QED  BY <1>0, <2>1, <2>2, SourceShrinks DEF Leaving, Entering
<1>3. CASE NextTick
  <2>1. /\ UNCHANGED <<ticks, evaluator, delivery, batches, events, dlq, produced>>
        /\ queue # <<>> /\ queue' = Tail(queue) /\ Entering = {} /\ Entering' = {Head(queue)}
    BY <1>3 DEF NextTick, redis, Entering
  <2>2. /\ Increasing(queue') /\ Head(queue) \in Nat
        /\ Range(queue) = {Head(queue)} \cup Range(queue')
        /\ \A tick \in Range(queue') : Head(queue) < tick
    BY <1>0, <2>1, IncreasingTail, HeadAndTail
  <2>3. Leaving' = Leaving /\ Waiting' = Waiting
    BY <2>1, <2>2 DEF Leaving, Waiting
  <2>4. /\ Before(Leaving', Entering') /\ Before(Leaving', Range(queue'))
        /\ Before(Range(ticks'), Entering') /\ Before(Range(ticks'), Range(queue'))
        /\ Before(Entering', Range(queue'))
    BY <2>1, <2>2, <2>3 DEF Ordered, TicksInOrder, Before
  <2>5. TicksInOrder'
    BY <1>0, <2>1, <2>2, <2>3, <2>4 DEF Ordered, TicksInOrder
  <2>. QED  BY <2>1, <2>3, <2>5, SourceOrdered
<1>4. CASE CountIngested
  <2>1. /\ UNCHANGED <<ticks, queue, evaluator, delivery, batches, events, dlq, produced>>
        /\ ingest.stage = "count" /\ ingest'.tick = ingest.tick
    BY <1>4, ChannelTypes DEF CountIngested, source, redis, Ingesting
  <2>. QED  BY <1>0, <2>1, SourceShrinks DEF Leaving, Entering
<1>5. CASE SendTick
  <2>1. /\ UNCHANGED <<queue, evaluator, delivery, batches, events, dlq, produced>>
        /\ ingest.stage = "send" /\ ingest'.stage \in {"next", "dropped"}
        /\ ticks' = ticks \/ ticks' = Append(ticks, ingest.tick)
    BY <1>5 DEF SendTick, Reading, source, redis
  <2>2. Leaving' = Leaving /\ Entering = {ingest.tick} /\ Entering' = {}
    BY <2>1 DEF Leaving, Entering
  <2>3. CASE ticks' = ticks
    BY <1>0, <2>1, <2>2, <2>3, SourceShrinks
  <2>4. CASE ticks' = Append(ticks, ingest.tick)
    <3>1. /\ ingest.tick \in Nat /\ \A tick \in Range(ticks) : tick < ingest.tick
      BY <1>0, <2>2 DEF Waiting, Ordered, TicksInOrder, Before
    <3>2. Increasing(ticks') /\ Range(ticks') = Range(ticks) \cup {ingest.tick}
      <4>. DEFINE sent == ingest.tick
      <4>1. /\ ticks \in Seq(Nat) /\ sent \in Nat /\ Increasing(ticks)
            /\ \A tick \in Range(ticks) : tick < sent
        BY <1>0, <3>1
      <4>. HIDE DEF sent
      <4>2. Increasing(Append(ticks, sent)) /\ Range(Append(ticks, sent)) = Range(ticks) \cup {sent}
        BY <4>1, IncreasingAppend, AppendSpec
      <4>. QED  BY <2>4, <4>2 DEF sent
    <3>3. Waiting' = Waiting
      BY <2>1, <2>2, <3>2 DEF Waiting
    <3>4. /\ Before(Leaving', Range(ticks')) /\ Before(Range(ticks'), Range(queue'))
          /\ Before(Leaving', Range(queue'))
      BY <2>1, <2>2, <3>2 DEF Ordered, TicksInOrder, Before
    <3>5. TicksInOrder'
      BY <1>0, <2>1, <2>2, <3>2, <3>3, <3>4 DEF Ordered, TicksInOrder, Before
    <3>. QED  BY <2>1, <3>3, <3>5, SourceOrdered
  <2>. QED  BY <2>1, <2>3, <2>4
<1>6. CASE CountDropped
  <2>1. /\ UNCHANGED <<ticks, queue, evaluator, delivery, batches, events, dlq, produced>>
        /\ ingest'.stage = "next"
    BY <1>6 DEF CountDropped, Reading, source, redis
  <2>. QED  BY <1>0, <2>1, SourceShrinks DEF Leaving, Entering
<1>7. CASE IngestUnparsable
  <2>1. /\ UNCHANGED <<ingest, ticks, evaluator, delivery, batches, events, dlq, produced>>
        /\ queue # <<>> /\ queue' = Tail(queue)
    BY <1>7 DEF IngestUnparsable, front, redis
  <2>2. Increasing(queue') /\ Range(queue') \subseteq Range(queue)
    BY <1>0, <2>1, IncreasingTail, HeadAndTail
  <2>. QED  BY <1>0, <2>1, <2>2, SourceShrinks DEF Leaving, Entering
<1>8. CASE Reconnect
  <2>1. UNCHANGED <<ingest, ticks, queue, evaluator, delivery, batches, events, dlq, produced>>
    BY <1>8 DEF Reconnect, front, redis
  <2>. QED  BY <1>0, <2>1, SourceShrinks DEF Leaving, Entering
<1>. QED  BY <1>1, <1>2, <1>3, <1>4, <1>5, <1>6, <1>7, <1>8 DEF IngestStep

(* The slots of the tick in hand come after those of every earlier tick    *)
(* and before those of every later one, so its batch is in order at the    *)
(* channel's end.                                                          *)
LEMMA SendMatchesOrdered ==
  ASSUME Shaped, Ordered, SendMatches
  PROVE  Ordered'
<1>. DEFINE head == evaluator.tick
            n == evaluator.matches
<1>1. /\ UNCHANGED <<ingest, ticks, produced, queue, delivery, events, dlq>>
      /\ evaluator.stage = "send" /\ evaluator'.stage = "recv"
  BY DEF SendMatches, Waking, source, redis
<1>2. /\ Increasing(ticks) /\ Increasing(queue) /\ \A tick \in Waiting : tick <= produced
      /\ Waiting \subseteq Nat \ {0} /\ produced \in Nat
  BY Places DEF Ordered, TicksInOrder
<1>3. head \in Tick /\ n \in 1..MaxMatches
  BY <1>1, Bounds, ChannelTypes DEF Shaped, HandsFit, Evaluating
<1>4. /\ Waiting = {head} \cup Waiting' /\ \A tick \in Waiting' : head < tick
      /\ Leaving' = {} /\ Entering' = Entering
  <2>1. Leaving = {head} /\ Leaving' = {} /\ Entering' = Entering
    BY <1>1 DEF Leaving, Entering
  <2>2. Waiting' = Range(ticks) \cup Entering \cup Range(queue)
    BY <1>1, <2>1 DEF Waiting
  <2>3. \A tick \in Range(ticks) \cup Entering \cup Range(queue) : head < tick
    BY <2>1 DEF Ordered, TicksInOrder, Before
  <2>. QED  BY <2>1, <2>2, <2>3 DEF Waiting
<1>5. TicksInOrder'
  BY <1>1, <1>2, <1>4 DEF Ordered, TicksInOrder, Before
<1>6. /\ Done' = Done /\ Asked' = Asked /\ Matched' = Matched /\ HeadIsFresh'
  BY <1>1 DEF Done, InStream, Asked, Matched, Ordered, HeadIsFresh
<1>9. batches' = batches \/ batches' = Append(batches, [m \in 1..n |-> SlotsOf(head, m)])
  BY DEF SendMatches
<1>. HIDE DEF head, n
<1>7. CASE batches' = batches
  <2>1. Batched' = Batched
    BY <1>7 DEF Batched
  <2>2. SlotsInOrder'
    BY <1>1, <1>4, <1>6, <1>7, <2>1 DEF Ordered, SlotsInOrder
  <2>. QED  BY <1>5, <1>6, <2>2 DEF Ordered
<1>8. CASE batches' = Append(batches, [m \in 1..n |-> SlotsOf(head, m)])
  <2>. DEFINE batch == [m \in 1..n |-> SlotsOf(head, m)]
  <2>1. n \in 1..MaxMatches
    BY <1>3
  <2>2. /\ batch \in Seq(Match) \ {<<>>} /\ MatchesAscend(batch)
        /\ \A slot \in SlotsIn(batch) : slot > Start(head) /\ slot <= Start(head + 1)
    BY <1>3, <2>1, BatchOfTick
  <2>3. batches' = Append(batches, batch)
    BY <1>8
  <2>. HIDE DEF batch
  <2>4. head \in Nat \ {0} /\ head <= produced /\ head < produced + 1 /\ produced + 1 \in Nat \ {0}
    <3>1. head \in Waiting
      BY <1>4
    <3>2. head \in Nat \ {0} /\ head <= produced /\ produced \in Nat
      BY <1>2, <3>1
    <3>. QED  BY <3>2
  <2>5. Start(head) \in Nat /\ Start(head + 1) \in Nat
    <3>1. head + 1 \in Nat \ {0}
      BY <2>4
    <3>. QED  BY <2>4, <3>1, StartSpec
  <2>6. Start(head + 1) <= Start(produced + 1) /\ Start(produced + 1) \in Nat
    BY <2>4, StartAscends, StartSpec
  <2>7. \A tick \in Waiting' : Start(head + 1) <= Start(tick) /\ Start(tick) \in Nat
    <3>1. \A tick \in Waiting' : tick \in Nat \ {0} /\ head < tick
      BY <1>2, <1>4
    <3>. QED  BY <2>4, <3>1, StartAscends, StartSpec
  <2>8. Batched' = Batched \cup SlotsIn(batch)
    BY <2>2, <2>3, BatchesAppend, ChannelTypes DEF Batched
  <2>9. SlotsIn(batch) \subseteq Nat
    <3>1. SlotsIn(batch) \subseteq Slot
      BY <2>2, SlotsInType
    <3>. QED  BY <3>1, LastSlotSpec DEF Slot
  <2>10. \A old \in Done \cup Asked \cup Matched \cup Batched, slot \in SlotsIn(batch) : old < slot
    <3>1. \A old \in Done \cup Asked \cup Matched \cup Batched : old <= Start(head) /\ old \in Nat
      BY <1>4, Places DEF Ordered, SlotsInOrder
    <3>. QED  BY <2>2, <2>5, <2>9, <3>1
  <2>11. BatchesAscend(batches')
    <3>1. Before(SlotsOfAll(batches), SlotsIn(batch))
      BY <2>10 DEF Before, Batched
    <3>2. BatchesAscend(batches)
      BY DEF Ordered, SlotsInOrder
    <3>. QED  BY <2>2, <2>3, <3>1, <3>2, BatchesAppend, ChannelTypes
  <2>12. /\ Before(Done, Batched') /\ Before(Asked, Batched') /\ Before(Matched, Batched')
    BY <2>8, <2>10 DEF Ordered, SlotsInOrder, Before
  <2>13. ASSUME NEW slot \in SlotsIn(batch)
         PROVE  slot <= Start(produced + 1) /\ \A tick \in Waiting' : slot <= Start(tick)
    BY <2>2, <2>5, <2>6, <2>7, <2>9
  <2>14. ASSUME NEW slot \in Done' \cup Asked' \cup Matched' \cup Batched'
         PROVE  slot <= Start(produced' + 1) /\ \A tick \in Waiting' : slot <= Start(tick)
    <3>1. CASE slot \in SlotsIn(batch)
      BY <1>1, <2>13, <3>1
    <3>2. CASE slot \in Done \cup Asked \cup Matched \cup Batched
      BY <1>1, <1>4, <3>2 DEF Ordered, SlotsInOrder
    <3>. QED  BY <1>6, <2>8, <3>1, <3>2
  <2>15. SlotsInOrder'
    BY <1>1, <1>6, <2>11, <2>12, <2>14 DEF Ordered, SlotsInOrder
  <2>. QED  BY <1>5, <1>6, <2>15 DEF Ordered
<1>. QED  BY <1>7, <1>8, <1>9

(* A tick is taken, looked at and counted without leaving its place in the *)
(* order.                                                                  *)
LEMMA EvaluateOrdered ==
  ASSUME Shaped, Ordered, EvaluateStep
  PROVE  Ordered'
<1>0. /\ ticks \in Seq(Nat) /\ Increasing(ticks) /\ Increasing(queue) /\ evaluator \in Evaluating
  BY Places, ChannelTypes DEF Ordered, TicksInOrder
<1>1. CASE Receive
  <2>1. /\ UNCHANGED <<ingest, queue, delivery, batches, events, dlq, produced>>
        /\ ticks # <<>> /\ ticks' = Tail(ticks) /\ Leaving = {} /\ Leaving' = {Head(ticks)}
    BY <1>1 DEF Receive, source, redis, Leaving
  <2>2. /\ Range(ticks) = {Head(ticks)} \cup Range(ticks') /\ Increasing(ticks')
        /\ \A tick \in Range(ticks') : Head(ticks) < tick
    BY <1>0, <2>1, HeadAndTail, IncreasingTail
  <2>3. Entering' = Entering /\ Waiting' = Waiting
    BY <2>1, <2>2 DEF Entering, Waiting
  <2>4. /\ Before(Leaving', Range(ticks')) /\ Before(Leaving', Entering')
        /\ Before(Leaving', Range(queue')) /\ Before(Range(ticks'), Entering')
        /\ Before(Range(ticks'), Range(queue'))
    BY <2>1, <2>2, <2>3 DEF Ordered, TicksInOrder, Before
  <2>5. TicksInOrder'
    BY <1>0, <2>1, <2>2, <2>3, <2>4 DEF Ordered, TicksInOrder
  <2>. QED  BY <2>1, <2>3, <2>5, SourceOrdered
<1>2. ASSUME NEW n \in 0..MaxMatches, Evaluate(n) PROVE Ordered'
  <2>1. /\ UNCHANGED <<ingest, ticks, queue, delivery, batches, events, dlq, produced>>
        /\ evaluator.stage # "recv" /\ evaluator'.tick = evaluator.tick
    BY <1>0, <1>2 DEF Evaluate, Evaluating, source, redis
  <2>. QED  BY <1>0, <2>1, SourceShrinks DEF Leaving, Entering
<1>3. CASE CountEvaluated
  <2>1. /\ UNCHANGED <<ingest, ticks, queue, delivery, batches, events, dlq, produced>>
        /\ evaluator.stage # "recv"
        /\ evaluator'.stage = "recv" \/ evaluator'.tick = evaluator.tick
    BY <1>0, <1>3 DEF CountEvaluated, Waking, Evaluating, source, redis
  <2>. QED  BY <1>0, <2>1, SourceShrinks DEF Leaving, Entering
<1>4. CASE CountFound
  <2>1. /\ UNCHANGED <<ingest, ticks, queue, delivery, batches, events, dlq, produced>>
        /\ evaluator.stage # "recv" /\ evaluator'.tick = evaluator.tick
    BY <1>0, <1>4 DEF CountFound, Evaluating, source, redis
  <2>. QED  BY <1>0, <2>1, SourceShrinks DEF Leaving, Entering
<1>. QED  BY <1>1, <1>2, <1>3, <1>4, SendMatchesOrdered DEF EvaluateStep

(* What the delivery loop does to the places leaves every slot that moved  *)
(* below those the source still has to send.                               *)
LEMMA DeliveryOrdered ==
  ASSUME Shaped, Ordered, UNCHANGED <<ingest, ticks, evaluator, queue, produced>>,
         Increasing(delivery'.requests), MatchesAscend(delivery'.matches), BatchesAscend(batches'),
         \A asked \in Asked' : \A slot \in Done' \ {Head(delivery'.requests)} : slot < asked,
         Before(Done', Matched'), Before(Done', Batched'), Before(Asked', Matched'),
         Before(Asked', Batched'), Before(Matched', Batched'),
         Done' \cup Asked' \cup Matched' \cup Batched' \subseteq Done \cup Asked \cup Matched \cup Batched,
         HeadIsFresh'
  PROVE  Ordered'
<1>1. Waiting' = Waiting
  BY DEF Waiting, Leaving, Entering
<1>2. TicksInOrder'
  BY <1>1 DEF Ordered, TicksInOrder, Leaving, Entering
<1>3. SlotsInOrder'
  BY <1>1 DEF Ordered, SlotsInOrder
<1>. QED  BY <1>2, <1>3 DEF Ordered

(* The delivery loop takes the first waiting batch.                        *)
LEMMA TakeBatchOrdered ==
  ASSUME Shaped, Ordered, TakeBatch
  PROVE  Ordered'
<1>1. /\ UNCHANGED <<ingest, ticks, evaluator, queue, produced, events, dlq>> /\ batches # <<>>
      /\ batches' = Tail(batches) /\ delivery.stage = "recv"
      /\ delivery' = [delivery EXCEPT !.stage = "resolve", !.matches = Head(batches)]
      /\ delivery \in Delivery /\ delivery.requests = <<>>
  BY DEF TakeBatch, source, front, redis, Shaped, Types, StageFits
<1>2. delivery'.requests = <<>> /\ delivery'.matches = Head(batches) /\ delivery'.stage = "resolve"
  BY <1>1 DEF Delivery
<1>3. /\ Done' = Done /\ Asked' = {}
  BY <1>1, <1>2, EmptyPlaces DEF Done, InStream, Asked
<1>4. /\ Batched = Matched' \cup Batched' /\ MatchesAscend(delivery'.matches)
      /\ BatchesAscend(batches') /\ Before(Matched', Batched')
  BY <1>1, <1>2, BatchesTail, ChannelTypes DEF Batched, Matched, Ordered, SlotsInOrder
<1>5. Before(Done', Matched') /\ Before(Done', Batched')
  BY <1>3, <1>4 DEF Ordered, SlotsInOrder, Before
<1>6. HeadIsFresh'
  BY <1>2 DEF HeadIsFresh
<1>7. Increasing(delivery'.requests) /\ Before(Asked', Matched') /\ Before(Asked', Batched')
  BY <1>2, <1>3, EmptyPlaces DEF Before
<1>. QED  BY <1>1, <1>3, <1>4, <1>5, <1>6, <1>7, DeliveryOrdered

(* The requests of the first match come before the matches left.           *)
LEMMA ResolveOrdered ==
  ASSUME Shaped, Ordered, Resolve
  PROVE  Ordered'
<1>1. /\ UNCHANGED <<ingest, ticks, evaluator, queue, produced, events, dlq, batches>>
  BY DEF Resolve, source, front, redis
<1>2. /\ delivery.requests = <<>> /\ delivery.matches # <<>> /\ delivery.matches \in Seq(Match)
      /\ delivery' \in Delivery /\ StageFits(delivery') /\ delivery'.stage # "dead"
      /\ delivery'.matches = Tail(delivery.matches)
      /\ Asked' \subseteq Range(Head(delivery.matches))
      /\ Increasing(Head(delivery.matches)) => Increasing(delivery'.requests)
  BY ResolveSpec DEF Asked, Shaped, Types, Delivery
<1>3. Done' = Done /\ Batched' = Batched
  BY <1>1 DEF Done, InStream, Batched
<1>4. /\ Matched = Range(Head(delivery.matches)) \cup Matched'
      /\ Increasing(delivery'.requests) /\ MatchesAscend(delivery'.matches)
      /\ Before(Range(Head(delivery.matches)), Matched')
  BY <1>2, MatchesTail DEF Matched, Ordered, SlotsInOrder
<1>5. /\ Before(Done', Asked') /\ Before(Done', Matched') /\ Before(Asked', Matched')
      /\ Before(Asked', Batched') /\ Before(Matched', Batched') /\ Before(Done', Batched')
  BY <1>2, <1>3, <1>4 DEF Ordered, SlotsInOrder, Before
<1>6. HeadIsFresh'
  <2>1. CASE delivery'.requests # <<>>
    <3>1. Head(delivery'.requests) \in Asked'
      <4>1. delivery'.requests \in Seq(Slot)
        BY <1>2 DEF Delivery
      <4>. QED  BY <2>1, <4>1, HeadAndTail DEF Asked
    <3>2. Done' \subseteq Nat
      BY <1>3, Places
    <3>3. \A x \in Nat : ~(x < x)
      OBVIOUS
    <3>4. Head(delivery'.requests) \notin Done'
      BY <1>5, <3>1, <3>2, <3>3 DEF Before
    <3>. QED  BY <1>2, <3>4 DEF HeadIsFresh
  <2>2. CASE delivery'.requests = <<>>
    BY <1>2, <2>2 DEF StageFits, HeadIsFresh
  <2>. QED  BY <2>1, <2>2
<1>7. BatchesAscend(batches')
  BY <1>1 DEF Ordered, SlotsInOrder
<1>8. \A asked \in Asked' : \A slot \in Done' \ {Head(delivery'.requests)} : slot < asked
  BY <1>5 DEF Before
<1>9. Done' \cup Asked' \cup Matched' \cup Batched' \subseteq Done \cup Asked \cup Matched \cup Batched
  BY <1>2, <1>3, <1>4
<1>. QED  BY <1>1, <1>4, <1>5, <1>6, <1>7, <1>8, <1>9, DeliveryOrdered

(* An attempt moves no slot from its place.                                *)
LEMMA AttemptOrdered ==
  ASSUME Shaped, Ordered, Attempt
  PROVE  Ordered'
<1>1. /\ UNCHANGED <<ingest, ticks, evaluator, queue, produced, events, dlq, batches>>
  BY DEF Attempt, source, front, redis
<1>2. /\ delivery.stage = "send" /\ delivery'.stage \in {"send", "log"}
      /\ delivery'.matches = delivery.matches /\ delivery'.requests = delivery.requests
  BY AttemptSpec
<1>3. Done' = Done /\ Batched' = Batched /\ Asked' = Asked /\ Matched' = Matched
  BY <1>1, <1>2 DEF Done, InStream, Batched, Asked, Matched
<1>4. HeadIsFresh'
  BY <1>1, <1>2, <1>3 DEF HeadIsFresh, Ordered
<1>5. Waiting' = Waiting /\ Leaving' = Leaving /\ Entering' = Entering
  BY <1>1 DEF Waiting, Leaving, Entering
<1>6. TicksInOrder' /\ SlotsInOrder'
  BY <1>1, <1>2, <1>3, <1>5 DEF Ordered, TicksInOrder, SlotsInOrder
<1>. QED  BY <1>4, <1>6 DEF Ordered

(* Once the request in hand is done with, it is below the next one.        *)
LEMMA NextRequestOrdered ==
  ASSUME Shaped, Ordered, UNCHANGED <<ingest, ticks, evaluator, queue, produced, batches>>,
         delivery.requests # <<>>, delivery' = NextRequest,
         Done' \subseteq Done \cup {Head(delivery.requests)}
  PROVE  Ordered'
<1>. DEFINE head == Head(delivery.requests)
<1>1. /\ delivery' \in Delivery /\ StageFits(delivery') /\ delivery'.stage # "dead"
      /\ delivery'.matches = delivery.matches /\ delivery'.requests = Tail(delivery.requests)
  BY NextRequestSpec
<1>2. /\ Asked = {head} \cup Asked' /\ head \in Nat /\ Increasing(delivery'.requests)
      /\ \A asked \in Asked' : head < asked
  BY <1>1, Places, HeadAndTail, IncreasingTail DEF Asked, Ordered, SlotsInOrder
<1>. HIDE DEF head
<1>3. Batched' = Batched /\ Matched' = Matched
  BY <1>1 DEF Batched, Matched
<1>4. Done' \subseteq Done \cup {head}
  BY DEF head
<1>5. Before(Done', Asked')
  <2>1. \A asked \in Asked : \A slot \in Done \ {head} : slot < asked
    BY DEF Ordered, SlotsInOrder, head
  <2>. QED  BY <1>2, <1>4, <2>1 DEF Before
<1>6. /\ Before(Done', Matched') /\ Before(Asked', Matched') /\ Before(Asked', Batched')
      /\ Before(Matched', Batched') /\ Before(Done', Batched')
  BY <1>2, <1>3, <1>4 DEF Ordered, SlotsInOrder, Before
<1>7. HeadIsFresh'
  <2>1. CASE delivery'.requests # <<>>
    <3>1. Head(delivery'.requests) \in Asked'
      <4>1. delivery'.requests \in Seq(Slot)
        BY <1>1 DEF Delivery
      <4>. QED  BY <2>1, <4>1, HeadAndTail DEF Asked
    <3>2. Done' \subseteq Nat
      BY <1>2, <1>4, Places
    <3>3. \A x \in Nat : ~(x < x)
      OBVIOUS
    <3>4. Head(delivery'.requests) \notin Done'
      BY <1>5, <3>1, <3>2, <3>3 DEF Before
    <3>. QED  BY <1>1, <3>4 DEF HeadIsFresh
  <2>2. CASE delivery'.requests = <<>>
    BY <1>1, <2>2 DEF StageFits, HeadIsFresh
  <2>. QED  BY <2>1, <2>2
<1>8. BatchesAscend(batches') /\ MatchesAscend(delivery'.matches)
  BY <1>1 DEF Ordered, SlotsInOrder
<1>9. \A asked \in Asked' : \A slot \in Done' \ {Head(delivery'.requests)} : slot < asked
  BY <1>5 DEF Before
<1>10. Done' \cup Asked' \cup Matched' \cup Batched' \subseteq Done \cup Asked \cup Matched \cup Batched
  BY <1>2, <1>3, <1>4
<1>. QED  BY <1>2, <1>6, <1>7, <1>8, <1>9, <1>10, DeliveryOrdered

(* What LogDelivery does to the stream.                                    *)
LEMMA LogDeliverySpec ==
  ASSUME Shaped, LogDelivery
  PROVE  LET event == [slot |-> Head(delivery.requests), success |-> delivery.success]
         IN  /\ UNCHANGED <<ingest, ticks, evaluator, queue, produced, batches, dlq, posted, accepted, unpushed, crashes>>
             /\ delivery.stage = "log" /\ delivery.requests # <<>> /\ delivery \in Delivery
             /\ events \in Seq(Event) /\ event \in Event /\ event.slot = Head(delivery.requests)
             /\ event.success = delivery.success /\ Head(delivery.requests) \in Slot
             /\ (events' = events /\ faults' = faults + 1) \/ events' = Append(events, event)
             /\ faults' \in Nat /\ faults' >= faults
             /\ IF delivery.success THEN delivery' = NextRequest
                ELSE delivery' = [delivery EXCEPT !.stage = "dead"]
<1>. DEFINE event == [slot |-> Head(delivery.requests), success |-> delivery.success]
<1>1. /\ delivery \in Delivery /\ delivery.stage = "log" /\ delivery.requests # <<>>
      /\ events \in Seq(Event) /\ faults \in Nat
  BY DEF LogDelivery, Shaped, Types, StageFits
<1>2. Head(delivery.requests) \in Slot
  BY <1>1, HeadAndTail DEF Delivery
<1>3. event \in Event /\ event.slot = Head(delivery.requests) /\ event.success = delivery.success
  BY <1>1, <1>2 DEF Event, Delivery
<1>4. /\ UNCHANGED <<ingest, ticks, evaluator, queue, produced, batches, dlq, posted, accepted, unpushed, crashes>>
      /\ \E done, failed \in BOOLEAN :
           /\ done \/ failed
           /\ faults' = IF failed THEN faults + 1 ELSE faults
           /\ events' = IF done THEN Append(events, event) ELSE events
      /\ delivery' = IF delivery.success THEN NextRequest ELSE [delivery EXCEPT !.stage = "dead"]
  BY DEF LogDelivery, AfterLog, Command, source, front, history
<1>. HIDE DEF event
<1>5. /\ (events' = events /\ faults' = faults + 1) \/ events' = Append(events, event)
      /\ faults' \in Nat /\ faults' >= faults
  BY <1>1, <1>4
<1>. QED  BY <1>1, <1>2, <1>3, <1>4, <1>5 DEF event

(* What appending one event does to the stream.                            *)
LEMMA AppendToStream ==
  ASSUME events \in Seq(Event), NEW event \in Event, events' = Append(events, event)
  PROVE  /\ InStream' = InStream \cup {event.slot} /\ Len(events) \in Nat
         /\ Len(events') = Len(events) + 1 /\ events'[Len(events) + 1] = event
         /\ \A i \in 1..Len(events) : events'[i] = events[i] /\ i \in 1..Len(events')
         /\ \A i \in 1..Len(events') : i \in 1..Len(events) \/ i = Len(events) + 1
<1>1. /\ Len(events) \in Nat /\ Len(events') = Len(events) + 1
      /\ \A i \in 1..Len(events) : events'[i] = events[i]
      /\ events'[Len(events) + 1] = event
  BY AppendSpec
<1>2. /\ \A i \in 1..Len(events) : i \in 1..Len(events')
      /\ \A i \in 1..Len(events') : i \in 1..Len(events) \/ i = Len(events) + 1
      /\ Len(events) + 1 \in 1..Len(events')
  BY <1>1
<1>3. InStream' = InStream \cup {event.slot}
  BY <1>1, <1>2 DEF InStream
<1>. QED  BY <1>1, <1>2, <1>3

(* The event of the first request goes to the end of the stream.           *)
LEMMA LogDeliveryOrdered ==
  ASSUME Shaped, Ordered, LogDelivery
  PROVE  Ordered'
<1>. DEFINE head == Head(delivery.requests)
            event == [slot |-> head, success |-> delivery.success]
<1>1. /\ UNCHANGED <<ingest, ticks, evaluator, queue, produced, batches, dlq>>
      /\ delivery.stage = "log" /\ delivery.requests # <<>> /\ delivery \in Delivery
      /\ events \in Seq(Event) /\ event \in Event /\ event.slot = head
      /\ event.success = delivery.success
      /\ events' = events \/ events' = Append(events, event)
      /\ IF delivery.success THEN delivery' = NextRequest
         ELSE delivery' = [delivery EXCEPT !.stage = "dead"]
  BY LogDeliverySpec
<1>2. head \notin Done
  BY <1>1 DEF Ordered, HeadIsFresh
<1>. HIDE DEF event, head
<1>3. InStream' \subseteq InStream \cup {head}
  <2>1. CASE events' = events
    BY <2>1 DEF InStream
  <2>2. CASE events' = Append(events, event)
    BY <1>1, <2>2, AppendToStream
  <2>. QED  BY <1>1, <2>1, <2>2
<1>4. Done' \subseteq Done \cup {head}
  BY <1>1, <1>3 DEF Done
<1>5. CASE delivery.success
  BY <1>1, <1>4, <1>5, NextRequestOrdered DEF head
<1>6. CASE ~delivery.success
  <2>1. /\ delivery'.requests = delivery.requests /\ delivery'.matches = delivery.matches
        /\ delivery'.stage = "dead"
    BY <1>1, <1>6 DEF Delivery
  <2>2. Batched' = Batched /\ Matched' = Matched /\ Asked' = Asked
    BY <1>1, <2>1 DEF Batched, Matched, Asked
  <2>3. head \in Asked /\ Head(delivery'.requests) = head
    BY <1>1, <2>1, Places, HeadAndTail DEF Asked, head
  <2>4. \A asked \in Asked' : \A slot \in Done' \ {Head(delivery'.requests)} : slot < asked
    BY <1>4, <2>2, <2>3 DEF Ordered, SlotsInOrder, head
  <2>5. Before(Done', Matched') /\ Before(Done', Batched')
    BY <1>4, <2>2, <2>3 DEF Ordered, SlotsInOrder, Before
  <2>6. \A i \in 1..Len(events') : events'[i].slot = head => ~events'[i].success
    <3>1. \A i \in 1..Len(events) : events[i].slot # head
      BY <1>2 DEF Done, InStream
    <3>2. CASE events' = events
      BY <3>1, <3>2
    <3>3. CASE events' = Append(events, event)
      BY <1>1, <1>6, <3>1, <3>3, AppendToStream
    <3>. QED  BY <1>1, <3>2, <3>3
  <2>7. HeadIsFresh'
    BY <1>1, <1>2, <2>1, <2>3, <2>6 DEF HeadIsFresh, Done
  <2>8. Done' \cup Asked' \cup Matched' \cup Batched' \subseteq Done \cup Asked \cup Matched \cup Batched
    BY <1>4, <2>2, <2>3
  <2>9. /\ Increasing(delivery'.requests) /\ MatchesAscend(delivery'.matches) /\ BatchesAscend(batches')
        /\ Before(Asked', Matched') /\ Before(Asked', Batched') /\ Before(Matched', Batched')
    BY <1>1, <2>1, <2>2 DEF Ordered, SlotsInOrder
  <2>. QED  BY <1>1, <2>4, <2>5, <2>7, <2>8, <2>9, DeliveryOrdered
<1>. QED  BY <1>5, <1>6

(* What PushDeadLetter does to the list.                                   *)
LEMMA PushDeadLetterSpec ==
  ASSUME Shaped, PushDeadLetter
  PROVE  /\ UNCHANGED <<ingest, ticks, evaluator, queue, produced, batches, events, posted, accepted, crashes>>
         /\ delivery.stage = "dead" /\ delivery.requests # <<>> /\ delivery' = NextRequest
         /\ Head(delivery.requests) \in Slot /\ dlq \in Seq(Slot)
         /\ \/ /\ dlq' = dlq /\ faults' = faults + 1
               /\ unpushed' = unpushed \cup {Head(delivery.requests)}
            \/ dlq' = <<Head(delivery.requests)>> \o dlq /\ unpushed' = unpushed
         /\ faults' \in Nat /\ faults' >= faults /\ faults \in Nat
<1>1. /\ delivery \in Delivery /\ delivery.stage = "dead" /\ delivery.requests # <<>>
      /\ dlq \in Seq(Slot) /\ faults \in Nat
  BY DEF PushDeadLetter, Shaped, Types, StageFits
<1>2. Head(delivery.requests) \in Slot
  BY <1>1, HeadAndTail DEF Delivery
<1>3. /\ UNCHANGED <<ingest, ticks, evaluator, queue, produced, batches, events, posted, accepted, crashes>>
      /\ \E done, failed \in BOOLEAN :
           /\ done \/ failed
           /\ faults' = IF failed THEN faults + 1 ELSE faults
           /\ dlq' = IF done THEN <<Head(delivery.requests)>> \o dlq ELSE dlq
           /\ unpushed' = IF done THEN unpushed ELSE unpushed \cup {Head(delivery.requests)}
      /\ delivery' = NextRequest
  BY DEF PushDeadLetter, Command, source, front, history
<1>4. /\ \/ /\ dlq' = dlq /\ faults' = faults + 1
            /\ unpushed' = unpushed \cup {Head(delivery.requests)}
         \/ dlq' = <<Head(delivery.requests)>> \o dlq /\ unpushed' = unpushed
      /\ faults' \in Nat /\ faults' >= faults
  BY <1>1, <1>3
<1>. QED  BY <1>1, <1>2, <1>3, <1>4

(* What pushing one entry in front does to the dead letters.               *)
LEMMA PushInFront ==
  ASSUME dlq \in Seq(Slot), NEW slot \in Slot, dlq' = <<slot>> \o dlq
  PROVE  /\ Len(dlq) \in Nat /\ DOMAIN dlq = 1..Len(dlq) /\ Len(dlq') = Len(dlq) + 1
         /\ dlq'[1] = slot /\ \A i \in 1..Len(dlq) : dlq'[i + 1] = dlq[i]
         /\ Range(dlq') = Range(dlq) \cup {slot}
<1>1. /\ Len(dlq) \in Nat /\ DOMAIN dlq = 1..Len(dlq) /\ Len(dlq') = Len(dlq) + 1
      /\ dlq' \in Seq(Slot) /\ dlq'[1] = slot /\ \A i \in 1..Len(dlq) : dlq'[i + 1] = dlq[i]
  OBVIOUS
<1>. DEFINE longer == dlq'
<1>2. /\ longer \in Seq(Slot) /\ Len(longer) = Len(dlq) + 1
      /\ longer[1] = slot /\ \A i \in 1..Len(dlq) : longer[i + 1] = dlq[i]
  BY <1>1
<1>. HIDE DEF longer
<1>3. Range(longer) = Range(dlq) \cup {slot}
  BY <1>2, PrependSpec
<1>. QED  BY <1>1, <1>3 DEF longer

(* The dead letter of the first request goes in front of the list.         *)
LEMMA PushDeadLetterOrdered ==
  ASSUME Shaped, Ordered, PushDeadLetter
  PROVE  Ordered'
<1>1. /\ UNCHANGED <<ingest, ticks, evaluator, queue, produced, batches, events>>
      /\ delivery.requests # <<>> /\ delivery' = NextRequest
      /\ Head(delivery.requests) \in Slot /\ dlq \in Seq(Slot)
      /\ dlq' = dlq \/ dlq' = <<Head(delivery.requests)>> \o dlq
  BY PushDeadLetterSpec
<1>2. Range(dlq') \subseteq Range(dlq) \cup {Head(delivery.requests)}
  BY <1>1, PushInFront
<1>3. Done' \subseteq Done \cup {Head(delivery.requests)}
  BY <1>1, <1>2 DEF Done, InStream
<1>. QED  BY <1>1, <1>3, NextRequestOrdered

(* A crash empties the places before the stream.                           *)
LEMMA CrashOrdered ==
  ASSUME Shaped, Ordered, Crash
  PROVE  Ordered'
<1>1. /\ UNCHANGED <<produced, events, dlq>> /\ ticks' = <<>> /\ batches' = <<>>
      /\ queue' = queue \/ queue' = <<>>
      /\ ingest' = Reading /\ evaluator' = Waking /\ delivery' = Resting
  BY DEF Crash, redis
<1>2. delivery'.requests = <<>> /\ delivery'.matches = <<>> /\ delivery'.stage = "recv"
  BY <1>1 DEF Resting
<1>3. /\ Done' = Done /\ Asked' = {} /\ Matched' = {} /\ Batched' = {} /\ Range(ticks') = {}
      /\ Leaving' = {} /\ Entering' = {}
  BY <1>1, <1>2, EmptyPlaces
     DEF Done, InStream, Asked, Matched, Batched, Leaving, Entering, Waking, Reading
<1>4. Waiting' \subseteq Waiting /\ Increasing(queue')
  BY <1>1, <1>3, EmptyPlaces DEF Waiting, Ordered, TicksInOrder
<1>5. TicksInOrder'
  BY <1>1, <1>3, <1>4, EmptyPlaces DEF Ordered, TicksInOrder, Before
<1>6. SlotsInOrder'
  BY <1>1, <1>2, <1>3, <1>4, EmptyPlaces DEF Ordered, SlotsInOrder, Before
<1>7. HeadIsFresh'
  BY <1>2 DEF HeadIsFresh
<1>. QED  BY <1>5, <1>6, <1>7 DEF Ordered

(* Every step keeps the slots in order.                                    *)
LEMMA NextOrdered == Shaped /\ Ordered /\ [Next]_vars => Ordered'
<1>. SUFFICES ASSUME Shaped, Ordered, [Next]_vars PROVE Ordered'
  OBVIOUS
<1>1. CASE UNCHANGED vars
  <2>1. UNCHANGED <<ingest, ticks, evaluator, queue, produced, batches, delivery, events, dlq>>
    BY <1>1 DEF vars, source, front, redis
  <2>2. UNCHANGED <<Waiting, Leaving, Entering, Done, Asked, Matched, Batched>>
    BY <2>1 DEF Waiting, Leaving, Entering, Done, InStream, Asked, Matched, Batched
  <2>. QED  BY <2>1, <2>2 DEF Ordered, TicksInOrder, SlotsInOrder, HeadIsFresh
<1>2. CASE Next
  <2>1. CASE EvaluateStep
    BY <2>1, EvaluateOrdered
  <2>2. CASE DeliveryStep
    BY <2>2, TakeBatchOrdered, ResolveOrdered, AttemptOrdered, LogDeliveryOrdered,
       PushDeadLetterOrdered DEF DeliveryStep
  <2>. QED  BY <1>2, <2>1, <2>2, IngestOrdered, CrashOrdered DEF Next
<1>. QED  BY <1>1, <1>2

-----------------------------------------------------------------------------
(* What the failures leave behind.                                         *)
LEMMA InitTraced == Init => Traced
<1>1. Range(<<>>) = {} /\ 1..Len(<<>>) = {} /\ Cardinality({}) = 0
  BY EmptyPlaces, FS_EmptySet
<1>. QED
  BY <1>1 DEF Init, Resting, Traced, HeadIsKnown, DeadLettersFailed, FailuresDeadLettered, UntakenLeavesATrace

(* The failures without a dead letter are finitely many, and one more      *)
(* counts one more at most.                                                *)
LEMMA UnpushedFinite ==
  ASSUME Shaped
  PROVE  IsFiniteSet(unpushed) /\ Cardinality(unpushed) \in Nat
<1>1. IsFiniteSet(Slot)
  BY LastSlotSpec, FS_Interval DEF Slot
<1>2. unpushed \subseteq Slot
  BY DEF Shaped, Types
<1>. QED  BY <1>1, <1>2, FS_Subset, FS_CardinalityType

LEMMA OneMoreUnpushed ==
  ASSUME Shaped, NEW slot
  PROVE  /\ Cardinality(unpushed \cup {slot}) \in Nat
         /\ Cardinality(unpushed \cup {slot}) <= Cardinality(unpushed) + 1
<1>. QED  BY UnpushedFinite, FS_AddElement

(* The steps that move nothing durable and take no request from the loop.  *)
LEMMA QuietTraced ==
  ASSUME Shaped, Traced, UNCHANGED <<events, dlq, posted, accepted, unpushed, faults, crashes>>,
         Asked \subseteq Asked',
         delivery'.stage \in {"send", "log"} /\ delivery'.success =>
           Head(delivery'.requests) \in accepted',
         delivery'.stage = "dead" => delivery' = delivery
  PROVE  Traced'
<1>1. /\ HeadIsKnown'
  BY DEF Traced, HeadIsKnown, Logged
<1>2. DeadLettersFailed'
  BY DEF Traced, DeadLettersFailed
<1>3. FailuresDeadLettered'
  BY DEF Traced, FailuresDeadLettered, InHand, Asked
<1>4. UntakenLeavesATrace'
  BY DEF Traced, UntakenLeavesATrace, InHand, Logged, Asked
<1>. QED  BY <1>1, <1>2, <1>3, <1>4 DEF Traced

(* An attempt may post the first request; the one in hand may have no      *)
(* trace yet.                                                              *)
LEMMA AttemptTraced ==
  ASSUME Shaped, Traced, Ordered, Attempt
  PROVE  Traced'
<1>1. UNCHANGED <<events, dlq, unpushed, faults, crashes>>
  BY DEF Attempt, redis
<1>2. /\ delivery.requests # <<>> /\ Head(delivery.requests) \in Slot
      /\ delivery'.stage \in {"send", "log"} /\ delivery'.requests = delivery.requests
      /\ posted' = posted \cup {Head(delivery.requests)}
      /\ accepted \subseteq accepted'
      /\ delivery'.success => delivery.success \/ Head(delivery.requests) \in accepted'
  BY AttemptSpec
<1>3. Head(delivery.requests) \in Range(delivery.requests)
  BY <1>2, Places, HeadAndTail
<1>4. HeadIsKnown'
  <2>1. delivery.stage = "send" /\ (delivery.success => Head(delivery.requests) \in accepted)
    BY DEF Attempt, Traced, HeadIsKnown
  <2>. QED  BY <1>2, <2>1 DEF HeadIsKnown
<1>5. DeadLettersFailed'
  BY <1>1 DEF Traced, DeadLettersFailed
<1>6. FailuresDeadLettered'
  BY <1>1, <1>2 DEF Traced, FailuresDeadLettered, InHand
<1>7. UntakenLeavesATrace'
  BY <1>1, <1>2, <1>3 DEF Traced, UntakenLeavesATrace, InHand, Logged
<1>. QED  BY <1>4, <1>5, <1>6, <1>7 DEF Traced

(* The event logged is the trace of a request taken.                       *)
LEMMA LogDeliveryTraced ==
  ASSUME Shaped, Traced, Ordered, LogDelivery
  PROVE  Traced'
<1>. DEFINE head == Head(delivery.requests)
            event == [slot |-> head, success |-> delivery.success]
<1>1. /\ UNCHANGED <<dlq, posted, accepted, unpushed, crashes>>
      /\ delivery.stage = "log" /\ delivery.requests # <<>> /\ delivery \in Delivery
      /\ events \in Seq(Event) /\ event \in Event /\ event.slot = head
      /\ event.success = delivery.success
      /\ (events' = events /\ faults' = faults + 1) \/ events' = Append(events, event)
      /\ faults' \in Nat /\ faults' >= faults /\ faults \in Nat
      /\ IF delivery.success THEN delivery' = NextRequest
         ELSE delivery' = [delivery EXCEPT !.stage = "dead"]
  BY LogDeliverySpec DEF Shaped, Types
<1>2. /\ head \notin InStream /\ head \notin Range(dlq)
      /\ delivery.success => head \in accepted
      /\ Asked = {head} \cup Range(Tail(delivery.requests))
  BY <1>1, Places, HeadAndTail DEF Ordered, HeadIsFresh, Done, Traced, HeadIsKnown, Asked
<1>. HIDE DEF event, head
<1>3. /\ \A i \in 1..Len(events) : i \in 1..Len(events') /\ events'[i] = events[i]
      /\ \A i \in 1..Len(events') :
           i \in 1..Len(events) \/ (events' = Append(events, event) /\ events'[i] = event)
  <2>1. CASE events' = events
    BY <2>1
  <2>2. CASE events' = Append(events, event)
    BY <1>1, <2>2, AppendToStream
  <2>. QED  BY <1>1, <2>1, <2>2
<1>4. \A i \in 1..Len(events) : events[i].slot # head
  BY <1>2 DEF InStream
<1>5. DeadLettersFailed'
  <2>1. \A i \in 1..Len(dlq) : dlq[i] # head
    <3>1. DOMAIN dlq = 1..Len(dlq)
      BY DEF Shaped, Types
    <3>. QED  BY <1>2, <3>1 DEF Range
  <2>2. ASSUME NEW i \in 1..Len(dlq), NEW j \in 1..Len(events'), events'[j].slot = dlq[i]
        PROVE  ~events'[j].success
    BY <1>1, <1>3, <2>1, <2>2 DEF Traced, DeadLettersFailed
  <2>. QED  BY <1>1, <2>2 DEF Traced, DeadLettersFailed
<1>6. /\ Asked \subseteq Asked' \cup {head}
      /\ ~delivery.success => Asked' = Asked /\ delivery'.stage = "dead" /\ Head(delivery'.requests) = head
      /\ delivery.success => delivery'.stage # "dead" /\ ~delivery'.success
  <2>1. CASE delivery.success
    BY <1>1, <1>2, <2>1, NextRequestSpec DEF Asked
  <2>2. CASE ~delivery.success
    BY <1>1, <2>2 DEF Asked, Delivery, head
  <2>. QED  BY <2>1, <2>2
<1>7. \A slot : Logged(slot) => Logged(slot)'
  BY <1>3 DEF Logged
<1>8. faults' = 0 => faults = 0 /\ events' = Append(events, event)
  BY <1>1
<1>9. HeadIsKnown'
  <2>1. CASE delivery.success
    BY <1>6, <2>1 DEF HeadIsKnown
  <2>2. CASE ~delivery.success
    <3>1. ASSUME events' = Append(events, event)
          PROVE  \E i \in 1..Len(events') : events'[i].slot = head
      <4>1. /\ Len(events) \in Nat /\ Len(events') = Len(events) + 1
            /\ events'[Len(events) + 1] = event
        BY <1>1, <3>1, AppendToStream
      <4>2. Len(events) + 1 \in 1..Len(events') /\ events'[Len(events) + 1].slot = head
        BY <1>1, <4>1
      <4>. QED  BY <4>2, Zenon
    <3>2. Head(delivery'.requests) = head /\ delivery'.stage = "dead"
      BY <1>6, <2>2
    <3>3. faults' = 0 => \E i \in 1..Len(events') : events'[i].slot = head
      BY <1>8, <3>1
    <3>. QED  BY <3>2, <3>3 DEF HeadIsKnown, Logged
  <2>. QED  BY <2>1, <2>2
<1>10. FailuresDeadLettered'
  <2>1. Cardinality(unpushed') <= faults' + crashes'
    BY <1>1, UnpushedFinite DEF Traced, FailuresDeadLettered, Shaped, Types
  <2>2. SUFFICES ASSUME NEW i \in 1..Len(events'), ~events'[i].success, events'[i].slot \notin Asked'
                 PROVE  events'[i].slot \in Range(dlq') \cup unpushed'
    BY <2>1 DEF FailuresDeadLettered, InHand, Asked
  <2>3. CASE i \in 1..Len(events)
    <3>1. events[i].slot \notin Asked
      BY <1>3, <1>4, <1>6, <2>2, <2>3
    <3>. QED  BY <1>1, <1>3, <2>2, <2>3, <3>1 DEF Traced, FailuresDeadLettered, InHand, Asked
  <2>4. CASE events'[i] = event
    BY <1>1, <1>2, <1>6, <2>2, <2>4
  <2>. QED  BY <1>3, <2>3, <2>4
<1>11. UntakenLeavesATrace'
  <2>1. SUFFICES ASSUME faults' <= 1, crashes' = 0, NEW slot \in posted' \ accepted'
                 PROVE  slot \in Asked' \/ Logged(slot)' \/ slot \in Range(dlq')
    BY DEF UntakenLeavesATrace, InHand, Asked
  <2>2. slot \in Asked \/ Logged(slot) \/ slot \in Range(dlq)
    BY <1>1, <2>1 DEF Traced, UntakenLeavesATrace, InHand, Asked
  <2>3. CASE slot \in Asked
    BY <1>1, <1>2, <1>6, <2>1, <2>3
  <2>. QED  BY <1>1, <1>7, <2>2, <2>3
<1>. QED  BY <1>5, <1>9, <1>10, <1>11 DEF Traced

(* The dead letter pushed is the trace of a request that failed.           *)
LEMMA PushDeadLetterTraced ==
  ASSUME Shaped, Traced, Ordered, PushDeadLetter
  PROVE  Traced'
<1>. DEFINE head == Head(delivery.requests)
<1>1. /\ UNCHANGED <<events, posted, accepted, crashes>> /\ crashes \in Nat
      /\ delivery.stage = "dead" /\ delivery.requests # <<>> /\ delivery' = NextRequest
      /\ head \in Slot /\ dlq \in Seq(Slot)
      /\ \/ dlq' = dlq /\ faults' = faults + 1 /\ unpushed' = unpushed \cup {head}
         \/ dlq' = <<head>> \o dlq /\ unpushed' = unpushed
      /\ faults' \in Nat /\ faults' >= faults /\ faults \in Nat
  BY PushDeadLetterSpec DEF Shaped, Types
<1>2. /\ head \notin Range(dlq) /\ (faults = 0 => Logged(head))
      /\ \A i \in 1..Len(events) : events[i].slot = head => ~events[i].success
      /\ Asked = {head} \cup Range(Tail(delivery.requests))
  BY <1>1, Places, HeadAndTail DEF Ordered, HeadIsFresh, Traced, HeadIsKnown, Asked
<1>3. Asked = {head} \cup Asked' /\ delivery'.stage # "dead" /\ ~delivery'.success
  BY <1>1, <1>2, NextRequestSpec DEF Asked
<1>. HIDE DEF head
<1>4. CASE dlq' = dlq /\ faults' = faults + 1 /\ unpushed' = unpushed \cup {head}
  <2>1. HeadIsKnown'
    BY <1>3 DEF HeadIsKnown
  <2>2. DeadLettersFailed'
    BY <1>1, <1>4 DEF Traced, DeadLettersFailed
  <2>3. FailuresDeadLettered'
    <3>1. Cardinality(unpushed') <= faults' + crashes'
      <4>1. Cardinality(unpushed) \in Nat /\ Cardinality(unpushed) <= faults + crashes
        BY UnpushedFinite DEF Traced, FailuresDeadLettered
      <4>2. /\ Cardinality(unpushed') \in Nat
            /\ Cardinality(unpushed') <= Cardinality(unpushed) + 1
        BY <1>4, OneMoreUnpushed
      <4>. QED  BY <1>1, <1>4, <4>1, <4>2
    <3>2. SUFFICES ASSUME NEW i \in 1..Len(events), ~events[i].success, events[i].slot \notin Asked'
                   PROVE  events[i].slot \in Range(dlq') \cup unpushed'
      BY <1>1, <3>1 DEF FailuresDeadLettered, InHand, Asked
    <3>. QED
      BY <1>3, <1>4, <3>2 DEF Traced, FailuresDeadLettered, InHand, Asked
  <2>4. UntakenLeavesATrace'
    <3>1. SUFFICES ASSUME faults' <= 1, crashes' = 0, NEW slot \in posted' \ accepted'
                   PROVE  slot \in Asked' \/ Logged(slot) \/ slot \in Range(dlq)
      BY <1>1, <1>4 DEF UntakenLeavesATrace, InHand, Logged, Asked
    <3>2. faults = 0
      BY <1>1, <1>4, <3>1
    <3>3. slot \in Asked \/ Logged(slot) \/ slot \in Range(dlq)
      BY <1>1, <3>1, <3>2 DEF Traced, UntakenLeavesATrace, InHand, Asked
    <3>. QED  BY <1>2, <1>3, <3>2, <3>3
  <2>. QED  BY <2>1, <2>2, <2>3, <2>4 DEF Traced
<1>5. CASE dlq' = <<head>> \o dlq /\ unpushed' = unpushed
  <2>1. /\ Len(dlq') = Len(dlq) + 1 /\ Len(dlq) \in Nat /\ dlq'[1] = head
        /\ \A i \in 1..Len(dlq) : dlq'[i + 1] = dlq[i]
        /\ Range(dlq') = Range(dlq) \cup {head} /\ DOMAIN dlq = 1..Len(dlq)
    BY <1>1, <1>5, PushInFront
  <2>2. \A i \in 1..Len(dlq') : i = 1 \/ (i - 1 \in 1..Len(dlq) /\ dlq'[i] = dlq[i - 1])
    <3>1. ASSUME NEW i \in 1..Len(dlq'), i # 1
          PROVE  i - 1 \in 1..Len(dlq) /\ dlq'[i] = dlq[i - 1]
      <4>1. i - 1 \in 1..Len(dlq) /\ (i - 1) + 1 = i
        BY <2>1, <3>1
      <4>. QED  BY <2>1, <4>1
    <3>. QED  BY <3>1
  <2>3. \A i \in 1..Len(dlq) : dlq[i] # head
    BY <1>2, <2>1 DEF Range
  <2>4. ASSUME NEW i \in 1..Len(dlq'), NEW j \in 1..Len(dlq'), dlq'[i] = dlq'[j]
        PROVE  i = j
    <3>1. CASE i = 1 \/ j = 1
      BY <2>1, <2>2, <2>3, <2>4, <3>1
    <3>2. CASE i # 1 /\ j # 1
      <4>1. i - 1 \in 1..Len(dlq) /\ j - 1 \in 1..Len(dlq) /\ dlq[i - 1] = dlq[j - 1]
        BY <2>2, <2>4, <3>2
      <4>2. i - 1 = j - 1
        BY <4>1 DEF Traced, DeadLettersFailed
      <4>. QED  BY <4>2
    <3>. QED  BY <3>1, <3>2
  <2>5. ASSUME NEW i \in 1..Len(dlq'), NEW j \in 1..Len(events), events[j].slot = dlq'[i]
        PROVE  ~events[j].success
    BY <1>2, <2>1, <2>2, <2>5 DEF Traced, DeadLettersFailed
  <2>6. DeadLettersFailed'
    BY <1>1, <2>4, <2>5 DEF DeadLettersFailed
  <2>7. HeadIsKnown'
    BY <1>3 DEF HeadIsKnown
  <2>8. FailuresDeadLettered'
    <3>1. Cardinality(unpushed') <= faults' + crashes'
      BY <1>1, <1>5, UnpushedFinite DEF Traced, FailuresDeadLettered
    <3>2. SUFFICES ASSUME NEW i \in 1..Len(events), ~events[i].success, events[i].slot \notin Asked'
                   PROVE  events[i].slot \in Range(dlq') \cup unpushed'
      BY <1>1, <3>1 DEF FailuresDeadLettered, InHand, Asked
    <3>3. CASE events[i].slot = head
      BY <2>1, <3>3
    <3>4. CASE events[i].slot # head
      BY <1>1, <1>3, <1>5, <2>1, <3>2, <3>4 DEF Traced, FailuresDeadLettered, InHand, Asked
    <3>. QED  BY <3>3, <3>4
  <2>9. UntakenLeavesATrace'
    <3>1. SUFFICES ASSUME faults' <= 1, crashes' = 0, NEW slot \in posted' \ accepted'
                   PROVE  slot \in Asked' \/ Logged(slot) \/ slot \in Range(dlq')
      BY <1>1 DEF UntakenLeavesATrace, InHand, Logged, Asked
    <3>2. slot \in Asked \/ Logged(slot) \/ slot \in Range(dlq)
      BY <1>1, <3>1 DEF Traced, UntakenLeavesATrace, InHand, Asked
    <3>. QED  BY <1>3, <2>1, <3>2
  <2>. QED  BY <2>6, <2>7, <2>8, <2>9 DEF Traced
<1>. QED  BY <1>1, <1>4, <1>5

(* A crash drops the request in hand; one that failed and was logged joins *)
(* those without a dead letter.                                            *)
LEMMA CrashTraced ==
  ASSUME Shaped, Ordered, Traced, Crash
  PROVE  Traced'
<1>. DEFINE head == Head(delivery.requests)
<1>1. /\ UNCHANGED <<events, dlq, posted, accepted, faults>> /\ crashes' = crashes + 1
      /\ delivery'.stage = "recv" /\ crashes \in Nat /\ faults \in Nat
      /\ IF delivery.stage = "dead" THEN unpushed' = unpushed \cup {head} ELSE unpushed' = unpushed
  BY DEF Crash, Resting, redis, Shaped, Types
<1>2. crashes' # 0
  BY <1>1
<1>3. delivery.stage = "dead" => head \in Slot
  BY HeadAndTail DEF Shaped, Types, StageFits, Delivery
<1>4. Cardinality(unpushed') <= faults' + crashes'
  <2>1. Cardinality(unpushed) \in Nat /\ Cardinality(unpushed) <= faults + crashes
    BY UnpushedFinite DEF Traced, FailuresDeadLettered
  <2>2. /\ Cardinality(unpushed') \in Nat
        /\ Cardinality(unpushed') <= Cardinality(unpushed) + 1
    <3>1. /\ Cardinality(unpushed \cup {head}) \in Nat
          /\ Cardinality(unpushed \cup {head}) <= Cardinality(unpushed) + 1
      BY OneMoreUnpushed
    <3>2. CASE delivery.stage = "dead"
      <4>1. unpushed' = unpushed \cup {head}
        BY <1>1, <3>2
      <4>. QED  BY <3>1, <4>1
    <3>3. CASE delivery.stage # "dead"
      <4>1. unpushed' = unpushed
        BY <1>1, <3>3
      <4>. QED  BY <2>1, <4>1
    <3>. QED  BY <3>2, <3>3
  <2>3. faults' = faults /\ faults \in Nat /\ crashes' = crashes + 1 /\ crashes \in Nat
    BY <1>1
  <2>. QED  BY <2>1, <2>2, <2>3
<1>5. ASSUME NEW i \in 1..Len(events), ~events[i].success
      PROVE  events[i].slot \in Range(dlq) \cup unpushed'
  <2>1. events[i].slot \in Done /\ events[i].slot \in Nat
    BY Places DEF Done, InStream
  <2>2. CASE events[i].slot \notin Asked
    BY <1>1, <1>5, <2>2 DEF Traced, FailuresDeadLettered, InHand, Asked
  <2>3. CASE events[i].slot \in Asked
    <3>1. events[i].slot = head
      BY <2>1, <2>3 DEF Ordered, SlotsInOrder
    <3>2. delivery.stage \notin {"recv", "resolve"}
      <4>1. Range(<<>>) = {}
        BY EmptyPlaces
      <4>. QED  BY <2>3, <4>1 DEF Asked, Shaped, StageFits
    <3>3. delivery.stage = "dead"
      BY <2>1, <3>1, <3>2 DEF Ordered, HeadIsFresh, Shaped, Types, Delivery
    <3>. QED  BY <1>1, <3>1, <3>3
  <2>. QED  BY <2>2, <2>3
<1>6. FailuresDeadLettered'
  BY <1>1, <1>4, <1>5 DEF FailuresDeadLettered
<1>. QED
  BY <1>1, <1>2, <1>6 DEF Traced, HeadIsKnown, DeadLettersFailed, UntakenLeavesATrace

(* Every step keeps the traces.                                            *)
LEMMA NextTraced == Shaped /\ Ordered /\ Traced /\ [Next]_vars => Traced'
<1>. SUFFICES ASSUME Shaped, Ordered, Traced, [Next]_vars PROVE Traced'
  OBVIOUS
<1>1. CASE UNCHANGED <<delivery, events, dlq, posted, accepted, unpushed, faults, crashes>>
  <2>1. Asked' = Asked /\ HeadIsKnown
    BY <1>1 DEF Asked, Traced
  <2>. QED  BY <1>1, <2>1, QuietTraced DEF HeadIsKnown
<1>2. CASE TakeBatch
  <2>1. /\ UNCHANGED <<events, dlq, posted, accepted, unpushed, faults, crashes>>
        /\ delivery'.stage = "resolve" /\ delivery'.requests = delivery.requests
    BY <1>2 DEF TakeBatch, redis, history, Shaped, Types, Delivery
  <2>2. Asked' = Asked
    BY <2>1 DEF Asked
  <2>. QED  BY <2>1, <2>2, QuietTraced
<1>3. CASE Resolve
  <2>1. /\ UNCHANGED <<events, dlq, posted, accepted, unpushed, faults, crashes>>
        /\ delivery'.stage # "dead" /\ ~delivery'.success /\ delivery.requests = <<>>
    BY <1>3, ResolveSpec DEF Resolve, redis, history
  <2>2. Asked = {}
    BY <2>1, EmptyPlaces DEF Asked
  <2>. QED  BY <2>1, <2>2, QuietTraced
<1>4. CASE UNCHANGED vars
  BY <1>1, <1>4 DEF vars, redis, history
<1>5. CASE Produce \/ LoseConnection \/ IngestStep \/ EvaluateStep
  <2>1. UNCHANGED <<delivery, events, dlq, posted, accepted, unpushed, faults, crashes>>
    BY <1>5 DEF Produce, LoseConnection, IngestStep, IngestUnparsable, Reconnect,
                NextTick, CountIngested, SendTick, CountDropped,
                EvaluateStep, Receive, Evaluate, CountEvaluated, CountFound, SendMatches,
                redis, history
  <2>. QED  BY <1>1, <2>1
<1>. QED
  BY <1>2, <1>3, <1>4, <1>5, AttemptTraced, LogDeliveryTraced, PushDeadLetterTraced, CrashTraced
     DEF Next, DeliveryStep

-----------------------------------------------------------------------------
(* The invariant holds in every reachable state.                           *)
LEMMA Inductive == Spec => []IInv
<1>1. Init => IInv
  BY InitShaped, InitOrdered, InitTraced DEF IInv
<1>2. IInv /\ [Next]_vars => IInv'
  BY NextShaped, NextOrdered, NextTraced DEF IInv
<1>. QED  BY <1>1, <1>2, PTL DEF Spec

(* Whatever the sizes of the channels, the retries, the faults of Redis and*)
(* the restarts: between any two steps of the tasks the counters of /health*)
(* and what the tasks hold account for every tick; a dead letter is a      *)
(* failed delivery, and one only once; and each logged failure the loop is *)
(* done with has one, but for at most one for each fault and each restart. *)
THEOREM SpecAccounted == Spec => []Accounted
<1>1. IInv => Accounted
  BY DEF IInv, Shaped, Types, Traced, Accounted, TypeOK, Counts, Ingesting,
         Evaluating, Delivery, Tick, Slot
<1>. QED  BY <1>1, Inductive, PTL

(* What a provider never took is in the stream or among the dead letters,  *)
(* even when one Redis command failed.                                     *)
THEOREM SpecUntakenLeavesATrace == Spec => []UntakenLeavesATrace
<1>1. IInv => UntakenLeavesATrace
  BY DEF IInv, Traced
<1>. QED  BY <1>1, Inductive, PTL

(* From the source to the event stream the runtime implements LossyFifo.   *)
THEOREM SpecInOrderAtMostOnce == Spec => InOrderAtMostOnce
<1>. DEFINE sent == produced * MaxMatches * NumChannels
            got == [i \in 1..Len(events) |-> events[i].slot]
            latest == IF got = <<>> THEN 0 ELSE got[Len(got)]
<1>1. Init => Fifo!Init
  <2>1. 0 * MaxMatches * NumChannels = 0 /\ Len(<<>>) = 0 /\ 1..0 = {}
    BY Bounds
  <2>. QED  BY <2>1 DEF Init, Fifo!Init
<1>2. ASSUME IInv, [Next]_vars PROVE [Fifo!Next]_<<sent, got>>
  <2>0. Shaped /\ Ordered /\ produced \in Nat
    BY <1>2, Places DEF IInv
  <2>1. CASE UNCHANGED <<produced, events>>
    BY <2>1
  <2>2. CASE Produce
    <3>1. produced' = produced + 1 /\ events' = events
      BY <2>2 DEF Produce, redis
    <3>2. sent = Start(produced + 1) /\ sent' = Start((produced + 1) + 1)
      BY <2>0, <3>1 DEF Start
    <3>3. produced + 1 \in Nat \ {0} /\ (produced + 1) + 1 \in Nat \ {0}
      BY <2>0
    <3>4. sent' \in Nat /\ sent' > sent
      BY <3>2, <3>3, StartSpec
    <3>5. got' = got
      BY <3>1
    <3>. QED  BY <3>4, <3>5 DEF Fifo!Next, Fifo!Send
  <2>3. CASE LogDelivery
    <3>. DEFINE head == Head(delivery.requests)
                event == [slot |-> head, success |-> delivery.success]
    <3>1. /\ produced' = produced /\ events \in Seq(Event) /\ event \in Event /\ event.slot = head
          /\ events' = events \/ events' = Append(events, event)
          /\ delivery.stage = "log" /\ head \in Nat /\ head \in Asked
      <4>1. head \in Asked /\ head \in Nat
        BY <2>0, <2>3, LogDeliverySpec, Places, HeadAndTail DEF Asked
      <4>. QED  BY <2>0, <2>3, <4>1, LogDeliverySpec
    <3>. HIDE DEF head, event
    <3>2. CASE events' = events
      BY <2>1, <3>1, <3>2
    <3>3. CASE events' = Append(events, event)
      <4>1. got' = Append(got, head)
        BY <3>1, <3>3, AppendToStream
      <4>2. head <= sent
        BY <2>0, <3>1 DEF Ordered, SlotsInOrder, Start
      <4>3. latest \in Nat /\ latest < head
        <5>1. Len(got) = Len(events) /\ Len(events) \in Nat
          BY <3>1
        <5>2. CASE events = <<>>
          <6>1. got = <<>>
            BY <5>1, <5>2
          <6>2. head # 0
            BY <2>0, <2>3, LogDeliverySpec DEF Slot, head
          <6>. QED  BY <3>1, <6>1, <6>2
        <5>3. CASE events # <<>>
          <6>1. Len(events) \in 1..Len(events) /\ got # <<>>
            BY <3>1, <5>1, <5>3
          <6>2. latest = events[Len(events)].slot
            BY <5>1, <6>1
          <6>3. latest \in Done
            BY <6>1, <6>2 DEF Done, InStream
          <6>4. head \notin Done
            BY <2>0, <3>1 DEF Ordered, HeadIsFresh, head
          <6>5. \A slot \in Done \ {head} : slot < head
            BY <2>0, <3>1 DEF Ordered, SlotsInOrder, head
          <6>. QED  BY <2>0, <6>3, <6>4, <6>5, Places
        <5>. QED  BY <5>2, <5>3
      <4>4. latest = Fifo!Latest
        BY DEF Fifo!Latest
      <4>5. sent \in Nat /\ sent' = sent
        <5>1. sent = Start(produced + 1) /\ produced + 1 \in Nat \ {0}
          BY <2>0 DEF Start
        <5>. QED  BY <3>1, <5>1, StartSpec
      <4>. HIDE DEF sent, got, latest
      <4>6. head \in (Fifo!Latest + 1)..sent
        BY <3>1, <4>2, <4>3, <4>4, <4>5
      <4>. QED  BY <4>1, <4>5, <4>6 DEF Fifo!Next, Fifo!Arrive, sent, got
    <3>. QED  BY <3>1, <3>2, <3>3
  <2>4. CASE ~Produce /\ ~LogDelivery /\ Next
    BY <2>1, <2>4
       DEF Next, LoseConnection, Crash, IngestStep, NextTick, CountIngested, SendTick, CountDropped,
           IngestUnparsable, Reconnect, EvaluateStep, Receive, Evaluate, CountEvaluated, CountFound,
           SendMatches, DeliveryStep, TakeBatch, Resolve, Attempt, PushDeadLetter, source, front, redis
  <2>5. CASE UNCHANGED vars
    BY <2>1, <2>5 DEF vars, source, front, redis
  <2>. QED
    BY <1>2, <2>2, <2>3, <2>4, <2>5
<1>. QED  BY <1>1, <1>2, Inductive, PTL DEF Spec, InOrderAtMostOnce, Fifo!Spec

=============================================================================
