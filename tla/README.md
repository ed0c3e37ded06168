# A TLA+ model of Notiflo

Notiflo watches a stream of ticks (prices or other values) for conditions its
users have configured and notifies them when a condition is met.  These modules
model the parts of it where the order of events matters: the threshold engine,
the strategies around it, the loader that keeps the engine in step with
MongoDB, the runtime's routing and its pipeline from tick to delivery, the
API's services and its consumer of delivery events, and the alerts page of the
web UI.  Every definition is translated from the source; file and
line of each are in `PROJECT.json` under `map`.

Paths below are relative to the repository: `engine-core` is
`libs/engine/engine-core/src`, `runtime` is `libs/engine/notiflo-runtime/src`,
`api` is `apps/notiflo/src/app`.

## 1. The system

    web UI --REST--> API (NestJS) ----writes----> MongoDB (alertconditions, subscribers, ...)
                      |     ^                        |  polled
                      |     |                        v
             engine (napi)  |                   ConfigLoader --> engine (StrategyRegistry)
                            |                                         ^ evaluate
             reads with a   |      source --> run_ingest --> tick ch. --> run_evaluator
             consumer group |                                              |
                            |                                        delivery channel
                            |                                              v
                     Redis stream  <------- event, dead letter ------- run_delivery --> HTTP provider

There are two processes with an engine.  The **runtime** (Rust, tokio) loads
conditions, takes ticks and delivers notifications.  The **API** (NestJS) owns
MongoDB's collections, tracks deliveries, and has an engine of its own behind a
native addon.  They share no memory: the runtime polls MongoDB, and the API reads
the stream the runtime writes to Redis.

### Components, their state and operations

| Component | State | Operations | What makes it correct |
|---|---|---|---|
| Threshold array (`engine-core/condition/threshold_crossing.rs`) | sorted levels with the ids at each, last price, two sentinel indices | add, remove, evaluate (drift sentinel or binary search) | array sorted, indices in bounds after any mix of calls, a tick returns exactly the levels the price crossed |
| Threshold strategy (same file) | `conditions` map, `trees` per symbol, a counter | add, remove, update, evaluate | the two maps agree although no lock covers both; calls do not disturb the evaluation of other ids; cooldown |
| Expression and script strategies | `conditions`, `symbol_index`, a counter | the same four | the same, with the id list cloned before the look-ups |
| Strategy registry, condition store (`evaluator.rs`, `store.rs`) | strategies by type, a match channel | dispatch by type, broadcast removal | each condition reaches its strategy and can be removed |
| Config loader (`runtime/config_loader.rs`) | `known_ids`, `last_poll_time`, a reconcile counter | initial load, delta poll, reconcile | the engine ends up holding what MongoDB holds |
| Ingest and evaluator (`runtime/pipeline.rs`, `ingest/`) | source connection, tick channel, counters | next tick, reconnect, evaluate | counters account for every tick; ticks keep flowing |
| Delivery (`runtime/delivery/`, `event_log.rs`) | delivery channel, the batch in hand, event stream, dead letter lists | resolve, POST with retries, log, dead-letter | events in order and once; failures leave a trace |
| Retry policy (`runtime/delivery/retry.rs`) | none | delay of an attempt | monotone and capped, jitter in range, no overflow |
| Subscriber cache, template renderer (`runtime/`) | maps filled on demand | look up, render | what is cached is what MongoDB holds |
| Notification consumer (`api/notifications/redis-stream.consumer.ts`) | consumer group, batch in hand, `running` | start, read, persist, acknowledge, stop | each event kept once, none acknowledged unread |
| Alerts API, engine bridge (`api/alerts`, `napi-bridge`) | documents, the API's engine (native or mock) | start, create, update, toggle, remove | documents and engine agree under concurrent requests |
| Notifications API, dashboard (`api/notifications`, `api/dashboard`) | notification documents | status updates, views computed by several aggregates | a sentAt is kept; the views agree with each other |
| Channel registry (`api/channels`) | ordered providers per channel, the in-app store | register, unregister, send | the earliest is primary, an answered message is stored |
| Organizations, API keys (`api/organizations`) | organizations, keys | create, remove, generate, revoke, the guard | a revoked key is not accepted |
| Subscribers and templates API | documents | CRUD, segment queries, variable extraction | a segment narrows; what is extracted is enough to render |
| Web UI (`apps/notiflo-web`) | lists, forms, a load test panel | fetch, submit, start, cancel, stream events | what is shown is what the API holds, or says it is not |
| Health, metrics, configuration | counters | reads | read-only |

### What is hard in it

- **Carried indices.** The drift sentinel keeps two array indices from tick to
  tick while adds and removes move the array under them.
- **Two maps, two locks.** Each strategy changes its maps one after the other
  while an evaluate may be half way through an id list.
- **Polling by timestamp.** The loader asks for documents whose `updatedAt` is
  later than the latest it has seen, from a collection that is written while its
  cursor is open.
- **Loss by design.** Full channels drop ticks and batches, Redis commands may
  fail and are not repeated, a task that ends ends the process.
- **Awaits between two writes.** An alert handler writes MongoDB and then calls
  the engine; requests overlap, another process writes too, and the native and
  the mock engine do different things with the same calls.
- **Caches that live as long as the process.** Subscribers and templates are
  looked up once and never again.
- **One answer out of several reads.** The dashboard's views run several
  aggregates, and the web pages several requests, while the data changes.
- **At-least-once reading turned into at-most-once.** The consumer acknowledges
  after it has persisted, but never asks for what it read before a restart.

`PROJECT.json` lists each hazard at its line under `hazards`, with the properties
that would catch it.

## 2. The modules

| Module | Models | State against the code |
|---|---|---|
| `SentinelTree` | `ThresholdTree`'s functions | a tree is a record: `entries`, `upper_idx`, `lower_idx`, `last_price`. Thresholds and prices are integers (the code compares `OrderedFloat` values and never computes with them); an id list is a function from ids to a number of copies, since `remove_threshold` removes every copy and the order within a level is not looked at. `DriftAfter`/`DriftWalked` are the state and the levels a tick leaves and returns |
| `ThresholdTree` | the same under its `RwLock` | one action per operation; `algorithm` is the field of that name, chosen when the tree is made |
| `ThresholdStrategy` | `ThresholdCrossingStrategy` | `conditions`, `trees`, `count` as in the struct; a call has one step per map it locks (`call`), an evaluate one step for the walk and one per crossed id (`evaluation`). `evaluate` keeps the guard of the symbol's map entry, which keeps `IndexCondition` of that symbol out until it returns; `UnindexCondition` uses the same read access and may come in between |
| `IndexedStrategy` | `ExpressionStrategy`, `ScriptStrategy` | a compiled test is the set of values it accepts; `symbol_index` holds id lists, `Retained` is `Vec::retain` by positions |
| `ConfigLoader` | `ConfigLoader`, with `StrategyRegistry` as it uses it | a document is its active flag, type, revision and stamp; `step` is the place of the loader task, `unread` and `batch` its open cursor |
| `Pipeline` | `run_ingest`, `run_evaluator`, `run_delivery` and both channels | `ticks` and `batches` are the channels; `ingest`, `evaluator` and `delivery` the locals of the three loops, with the tick or batch in hand. Each `fetch_add`, `try_send`, `recv` and `evaluate` is a step, since the other tasks and the health endpoint run between them. `events` and `dlq` are what is in Redis; a slot numbers each (tick, match, channel); `unpushed` remembers the failed slots whose dead letter push failed or was cut off |
| `NotificationConsumer` | `RedisStreamConsumer` and the stream it reads | the group's last id and pending list (`unacked`), and per API process the place of its loop and, in order, what it has `saved` |
| `LossyFifo` | the abstract promise of the notification path | what arrives was sent, arrives once and in order; anything may be lost |
| `AlertsApi` | `AlertsService` with both engines behind the bridge | `pending` holds, per request, the engine call still to make after MongoDB answered; a slot `None` is a request served by another process. `engine` is, per strategy, its conditions, its index and its counter, with the same add, remove and update as `ThresholdStrategy` and `IndexedStrategy` without their interleavings: napi calls do not overlap in one event loop |
| `MockEngine` | `MockEngineBridgeService`'s tests of a tick, next to the native ones | a question is one condition and one tick |
| `Organizations` | `OrganizationsService`, `ApiKeyGuard` | `guard` is where each request is between its three awaits |
| `Channels` | `ChannelRegistryService`, `ChannelsService`, providers | a registration is numbered as it comes |
| `Notifications` | `NotificationsService`, the notification views of `DashboardService` | `updating` is an `updateStatus` between its read and its write, `view` a dashboard request between its aggregates |
| `Routing` | `SubscriberCache`, `TemplateRenderer`, `DeliveryRouter` and the API's writes | a document is its revision and what routing asks of it; `resolving` is the match under way, with what it has looked up. Subscribers are shared by API and runtime; templates are not: `templates` is the API's collection `notiflotemplates`, `runtimeTemplates` the `notiflo_templates` that `main.rs` opens and nothing in the repository writes |
| `Segments` | `SubscribersService.findBySegment` | a query has one filter per field, the last that names it, as the assignments of the code's loop leave it |
| `TemplateText` | `TemplateEngineService.extractVariables` | Handlebars' syntax trees to a depth of two; rendering is external, modelled as Handlebars does it |
| `AlertsPage` | `useAlerts`, `CreateAlertForm`, `AlertsList` | a list is known by its length, an answer on its way carries it as it was when it was read; the form by whether it may be submitted, since neither the form nor `create` looks at the condition it describes |
| `LoadTest` | `LoadTestPanel` | the load test service is not in the repository: it does what the panel's types expect |
| `ThresholdTreeProofs`, `ThresholdStrategyProofs`, `IndexedStrategyProofs`, `PipelineProofs` | theorems about the module of that name | see section 5 |
| `FollowerProofs` | theorems about what follows MongoDB or the API: `ConfigLoader`, `Routing`, `AlertsPage`, `LoadTest` | the four share no state, and no name either |
| `ServiceProofs` | theorems about the API: `Organizations`, `Channels`, `AlertsApi`, `MockEngine`, `Segments`, `Notifications`, `NotificationConsumer` | the same |
| `SentinelTreeProofs`, `SequenceLemmas` | lemmas about `SentinelTree`'s functions, and about sequences | what the theorems above share |
| `MC*` | values for the model checker | |

`MCApi`, `MCRuntime` and `MCWeb` each check several modules in one run.  Those
modules share neither state nor locks, so a behaviour follows one of them, the one
in `focus`: interleaving them would multiply states and show nothing.

`LossyFifo` is implemented twice: `Pipeline` refines it from ticks to the event
stream (`InOrderAtMostOnce`), `NotificationConsumer` from the stream to MongoDB
(`TrackedInOrderAtMostOnce`).  Together they say that nothing is notified out of
order or recorded twice between the two ends, whatever is lost on the way.

Operators marked `mutant` next to a definition are variants with a plausible
mistake, kept to show that the properties notice it; `PROJECT.json` pairs each
property with one.

## 3. The runs

Each run is `tlc -config <run>.cfg <module>.tla`.

| Run | States | Question |
|---|---|---|
| `ThresholdTree_ticks` | 86 000 | do the carried sentinels stay in bounds and bracket the price, and which crossings can a tick miss |
| `ThresholdStrategy_runtime` | 1 010 000 | do maps, counter, cooldown and matches stay right while the loader's calls interleave with an evaluate |
| `ConfigLoader_polls` | 1 261 000 | does the engine follow MongoDB, and what exactly makes it fall behind |
| `Pipeline_faults` | 1 773 000 | what survives full channels, Redis faults, a lost connection and a restart |
| `NotificationConsumer_faults` | 281 000 | are events tracked once and in order by two processes that fail and stop |
| `Api_requests` | 1 228 000 | do engine and documents, registry and store, key and guard, and the dashboard's views agree while requests overlap |
| `Runtime_lookups` | 934 000 | the same as in `ThresholdStrategy_runtime` for expressions and scripts, which look ids up later; is what a match is routed and rendered with one revision, and why a default is used; do segments narrow and extracted variables suffice |
| `Web_clicks` | 768 000 | does the page show what the API holds, and does the panel show one test, whatever is clicked while a request is under way |

What they show, property by property, is in the comments of the modules.
Invariants that make one statement together are checked as one, under the name
of that statement; its parts keep names of their own, which section 4 uses:

| Run | Invariant | Parts, after the type invariant |
|---|---|---|
| `ThresholdTree_ticks` | `TreeConsistent` | `WellFormed`, `IndexInBounds`, `Bracketed` |
| `ThresholdStrategy_runtime` | `Consistent` | `TreesMirrorConditions`, `CountIsConditions` |
| | `MatchesSound` | `OneMatchPerTick`, `StaleMatchOnlyIfDisturbed` (no type) |
| `Runtime_lookups` | `Consistent` | `IndexMirrorsConditions`, `CountIsIndexed` |
| | `OneRevisionUsed` | `OneRevisionRouted`, `OneRevisionRendered` |
| `ConfigLoader_polls` | `Consistent` | `NoOrphans` |
| `Pipeline_faults` | `Accounted` | `StatsAccount`, `DeadLettersFailed`, `FailuresDeadLettered` |
| `NotificationConsumer_faults` | `Consistent` | `AckedWasHandled`, `NoDoubleTracking` |
| `Api_requests` | `EngineConsistent` | `CountOffByReadds` |
| | `EngineAgreesUnlessLapsed` | `AgreesUnlessLapsed`, `StoppedNeverMatches` (no type) |
| | `ChannelsConsistent` | `PrimaryIsEarliest`, `AnsweredIsStored` |
| | `NotificationsConsistent` | `SentHasSentAt`, `TrafficHasProvider` |
| | `ViewsAgree` | `CountsAgree`, `DownChannelHasFailingProvider`, `OverviewOffByWrites` (no type) |
| `Web_clicks` | `PageConsistent` | `LoadingWhileFetching`, `StoredIsAccountedFor` |
| | `CreatedIsShown` | `NoOlderThanFirstFetch`, and the newest list after a success without overlap (no type) |
| | `ShownIsOneRun` | `ShownStepsAreOneRun`, `ProgressAtMostOneOver` |
| | `ButtonAgrees` | `IdleHearsNothing`, `RunningIsSomething` (no type) |

`OrganizationsTypeOK`, `RevokedForGood` and `NamesakeStays` are proved (section 5)
and not in a run.

The bounds and why they suffice:

- `ThresholdTree_ticks`: three thresholds {2, 4, 6} and prices 1..7, so that a
  price can be on each level, between any two and outside; two ids and up to two
  copies of one, so that a level has others left when one goes.  A gap holds one
  level and has at most one neighbour that matters on each side: three levels
  show all of them.  The state is finite without other bounds, and section 5
  proves the same properties without any.
- `ThresholdStrategy_runtime`: two ids, so that a call on one meets an evaluate
  that has the other still to do; two symbols, two levels in one tree and a
  config without threshold, so that updates move a condition within a tree, to
  another, and out.  Feed times 0, 1, 3 with a cooldown of 2 give spacings on both
  sides of it and timestamps that go back.
- `ConfigLoader_polls`: two documents, chunks of one, two writes and any number
  of deletions, one cursor error, one restart, two types, reconcile every second
  poll.  One document is behind the scan while the other is ahead of it; the
  second write is the one that can be missed.  Each of the three lapses that
  `NothingBehindFilter` names occurs within these bounds.  A write may leave a
  document that does not deserialize (`Unreadable`): it ends every poll and
  reconcile that meets it, and `main` when `initial_load` meets it.  The other
  document is then the one that can no longer be removed.
- `Pipeline_faults`: both sources, channels of one, two ticks, two matches in all
  and two channels each, two attempts, one fault, one lost connection, one
  restart.  One of each fault is enough for the properties, which speak of one
  delivery at a time; two ticks fill a channel of one, with one of them in the
  hands of either task.  The health endpoint loads the four counters one after
  another (`health.rs:26-31`), so one response may mix moments; `StatsAccount`
  speaks of what the counters are at each moment, and says what either task has
  in hand then (`BeingSent`, `BeingEvaluated`).
- `NotificationConsumer_faults`: two processes, batches of two, four events of
  which the stream keeps three, one fault of each kind, one stop.
- `Api_requests`: two alerts, two slots and other processes, three requests, one
  restart, five configs (two symbols, a script, an expression that does not parse,
  a type nobody registered).  Three requests are two that overlap and one that
  reveals what they left.  One organization and one key with two requests at the
  guard: each request's three awaits can have any handler between them.  Four
  providers, two of one name, four registrations, two sends.  Two notifications,
  two updaters and three writes let one write fall between another's read and
  write, and up to three between two aggregates.  So few notifications never
  reach the counts at which two roundings meet: of those a theorem speaks
  (`DownSucceedsAtMostHalf`, section 5).  Expressions have up to two conjunctions of up to two
  comparisons.  Notifications and updaters are symmetric: no property names one.
- `Runtime_lookups`, the strategies: two ids, two symbols, three configs, one of which
  does not compile.  Routing: one subscriber, one template id, two channels, three writes (of
  which two may be of the subscriber, the others in either template collection), two
  starts; the two channels resolve differently, and a second start has a cache that differs from
  the first's.  Segments of up to two filters over two fields; template texts with
  two names, blocks nested to a depth of two.
- `Web_clicks`: three fetches at once, two submits; two tests of two steps, one
  cancel at a time.  Fetches and tests are symmetric: no property names one.

The remaining runs each show that the program does not do what its own
documentation, comments or tests say; see section 4.

Deadlock is not checked where a model's environment runs out of ticks, events,
writes or requests (`Pipeline`, `NotificationConsumer`, the API, lookup and web
runs): quiet states there are the end of a finished history.  Nor is it in
`ConfigLoader`, where an unreadable document ends the process and restarts are
bounded.  It is checked in the threshold engine's runs.

### Fairness

The engine's, the API's and the web modules are checked for safety only.  Elsewhere fairness is on the program's tasks, never on its environment:

- `ConfigLoader`: weak fairness of the loader's next step.  It is a tokio task on
  an interval timer; each await is a MongoDB call that answers or fails.
- `Pipeline`: weak fairness of each of the three tasks.  Channel operations wait
  only for the other task, the HTTP client has a timeout, a Redis command answers
  or fails, and reconnecting is retried with a bounded backoff.
- `Routing_optout`: weak fairness of the delivery loop with a match in hand, and
  of the arrival of matches for a subscriber (`FairRouting`): the run is about a
  subscriber whose alerts keep matching.
- `NotificationConsumer`: weak fairness of each process's loop and of its start:
  the event loop runs, and a process that ended is started again, as its
  deployment does.

Ticks, writes, faults, lost connections, crashes and shutdowns have no fairness.

## 4. Where code and documentation disagree

Each is a run whose one property TLC violates; the trace is the explanation.

- `ThresholdTree_missed`: a level equal to the price when the sentinels are
  recomputed is in neither sentinel's range.  If the price leaves it and comes back
  across it, the crossing is not returned.
- `Pipeline_unconfigured`: `main` never gives `HttpProvider` a configuration, so
  every delivery becomes a dead letter without one POST.
- `Routing_optout`: the subscriber cache is never cleared, so a subscriber who
  opts out of a channel goes on being notified on it until the runtime restarts.
- `Routing_templates`: the runtime loads templates from `notiflo_templates`
  (`main.rs:86`), the API's `NotifloTemplate` is registered without a collection name
  and stored by Mongoose in `notiflotemplates`.  A template created through the API is
  not in the cache after a start, and the default payload goes out for it.

Other properties are stated with the exception the code needs:

- `cross_above` is tested as `value >= threshold` on a level the walk returns, and
  a falling walk returns the level it lands on: a condition fires on a falling
  price that lands on its level (`CrossAboveRisesOrLands`).
- A write with the `updatedAt` of the latest document already polled is behind
  `$gt` for good; so is one behind an open scan, and one a failed poll did not
  reach (`NothingBehindFilter`, `FollowsUnlessLapsed`).
- While one active document does not deserialize, what was deleted meanwhile stays
  in the engine (`StaleEventuallyRemoved`).
- The Redis source does not connect again: after one break `run_ingest` loops on
  the error (`DrainsUnlessRedisLost`).
- What was read and not acknowledged when a consumer ended is never read again
  (`AckedWasHandled` and `CatchesUp` speak of what is read after).
- An update of a paused alert makes the native engine match it, resuming one that
  runs indexes it twice, a changed type leaves the old strategy matching, and a
  toggle without a body stops an alert the document says is active
  (`EngineAgreesUnlessLapsed`, `CountOffByReadds`).
- Two updates to SENT that both read before either wrote set `sentAt` twice
  (`SentAtKeptUnlessOverlap`); the totals and the breakdown of one overview differ by
  up to as many notifications as were written between its two aggregates
  (`OverviewOffByWrites`).
- The channel view and the provider view round apart: with 10001 failures of 20000
  the channel's error rate is 50.01 (down), its only provider's success rate 50
  (degraded, not in error).  `DownChannelHasFailingProvider` allows a provider at
  just 50.
- A channel entry without `enabled`, which an update may store, is enabled for the
  runtime and disabled for the API's `isChannelEnabled` (`Fits` allows both).
- A name that was unregistered still has a provider when two had it
  (`NamesakeStays`).
- Overlapping fetches may show an older list, though none older than the first of
  them (`CreatedIsShown`).
- The form's `isValid` does not ask for the field of the chosen strategy, and nothing
  on the way parses it: an alert whose field is empty or does not compile is stored,
  the engine's refusal is logged (`alerts.service.ts:73-77`), the form reports success,
  and the alert never matches.  No property of `AlertsPage` speaks of it.

Further: an expression's match may watch another symbol than the tick's when an
update moved it meanwhile (`MatchWatchesTickSymbol`), a delivery the provider
took can be missing from the stream after one failed command
(`UntakenLeavesATrace` covers only untaken ones), and an update that changes
`strategyType` leaves the old strategy matching until the condition is removed
(`NoOrphans` says it can still be removed).

## 5. What is proved

The theorems below hold for every value of the constants, and are checked by
TLAPS to the last leaf.  Constants are assumed to have their types, queue sizes,
retry limits and batch sizes to be above zero, and values such as `None` to be no
document, record or number; `IsFiniteSet(Ids)` (of conditions) and
`IsFiniteSet(Alerts)` because a counter counts them, `IsFiniteSet(Notes)` because
a collection is finite and the dashboard counts its documents; at least one API
process and one strategy type.  Nothing else is assumed, and TLC evaluates the assumptions in
every run.  Bounds such as `MaxFaults` are constants too: the theorems hold for any.

Each theorem is `Spec => []P` or `Spec => [][A]_vars` from an inductive invariant,
called `IInv` where no other name is given: it holds initially, every action keeps it,
and it implies the property.  Each was first an invariant of a TLC run.  The
sections say why the property is not inductive by itself.

### The threshold array

`ThresholdTreeProofs`, for every set of ids, every set of integer thresholds and
prices, any number of copies and both algorithms:

| Theorem | States |
|---|---|
| `TypeCorrect` | `[]TypeOK` |
| `ArrayWellFormed` | `[]WellFormed`: strictly ascending, no empty level |
| `NoIndexPanic` | `[]IndexInBounds`: no index the walk uses is out of bounds |
| `SentinelsBracket` | `[]Bracketed`: the sentinels bracket the price with at most one level between them |
| `TreeStaysConsistent` | `[]TreeConsistent`: these four together |
| `CrossingsReturned` | `MissedOnlyInGap`: a crossed level is returned unless it is the one in the gap |
| `NothingSpurious` | `NoSpuriousMatch`: nothing outside the prices' interval is returned |
| `TicksExact` | `ExactCrossing`: a tick is exact with the binary search, and with the drift sentinel when the gap is empty and the last price was off every level |

The inductive invariant: the tree has its type, its array is strictly
ascending without empty levels, its indices are in bounds (`Shape`), and for the
drift sentinel the sentinels bracket the last price (`Bracket`).  None of the
properties is inductive alone.  `IndexInBounds` needs the bracket, because the
walk down stores `idx + 1` without looking; the bracket needs the order of the
array, because a walk that stops at the first level out of reach says something
about the rest only if they are sorted; and order needs the type.

The argument goes up from the data, in `SentinelTreeProofs`: `LeastNat` gives the
minimum a walk stops at; `CountBelowSpec` and `CountUpToSpec` say what
`partition_point` returns on a sorted array; `WithLevelSpec` and `WithoutLevelSpec`
that adding and removing keep the array sorted, `WithLevelHeld` and
`WithoutLevelHeld` how many copies of an id each level holds then;
`RecomputeSpec` that recomputing the sentinels brackets the price; `WalkUpOutcome`,
`WalkDownOutcome` and `StayOutcome` that the three cases of a drift tick restore
the bracket and return every level passed, joined in `DriftOutcome`;
`BinaryOutcome` does the binary search.  `EditStep` and `EvaluateStep` lift them to
the actions.

### The threshold strategy

`ThresholdStrategyProofs`, for any ids, symbols, configs, prices and timestamps,
and any interleaving of the two halves of a call with the steps of an evaluate:

| Theorem | States |
|---|---|
| `SpecConsistent` | `[]Consistent`: the trees hold each condition once, at its symbol and threshold, and nothing else; the counter counts them |
| `SpecUndisturbedExact` | `[]UndisturbedExact`: an evaluate is exact for every condition no call touched meanwhile |
| `SpecMatchesSound` | `[]MatchesSound`: at most one match to a condition and tick, at its own threshold |
| `SpecCooldownSpacing` | `[]CooldownSpacing`, whatever the order of the timestamps |
| `SpecCrossAboveRisesOrLands` | `CrossAboveRisesOrLands` |

The inductive invariant has three parts.

`Maps`: every tree is one the array's lemmas speak of (`TreesShaped`), what a half
finished call carries fits the condition it is about (`CallFits`), the trees mirror
the conditions at every integer and not only at the thresholds in use (`Mirrored`),
and the counter equals what the trees hold in the middle of a call as well
(`Counted`).  `CountIsConditions` alone is not inductive: it says nothing while a
call is under way, which is when the counter changes.

`Walk`: of the ids an evaluate still has to look at, each is there once, has not
matched, and stands at its condition's threshold unless a call touched it
(`ExaminedOnce`); an undisturbed id is expected to match exactly when it has, or is
still to be looked at and would (`ExactSoFar`).  The first is what makes
`OneMatchPerTick` inductive, and follows at the start of a walk from `Mirrored`:
if trees held an id twice, a tick could match it twice.  `WalkedLevelsSpec` says
that a walk returns levels of the tree, each once, all between the two prices.

`Firing`: with a cooldown above zero, `last_triggered_us` is the latest of the
matches (`LastIsLatest`).  Spacing to the last match implies spacing to all only
because of it, and it holds although timestamps go back, because a saturating
subtraction makes an earlier one count as too soon.

### Expressions and scripts

`IndexedStrategyProofs`, for any ids, symbols, configs, values and timestamps, and
any interleaving of a call's steps with those of an evaluate:

| Theorem | States |
|---|---|
| `SpecConsistent` | `[]Consistent`: the lists hold each condition once, under its own symbol, and nothing else; the counter counts them |
| `SpecUndisturbedExact` | `[]UndisturbedExact`: an evaluate is exact for every condition no call touched meanwhile |
| `SpecMatchWatchesTickSymbol` | `[]MatchWatchesTickSymbol`, which names the one exception |

The invariant has two parts.  `Maps`: a call between its two locks fits the
condition it is about (`CallFits`), the lists mirror the conditions, also in the
middle of a call, and the counter counts the ids listed (`CountIsIndexed`).
`IndexMirrorsConditions` has to say that no list holds an id twice: `retain` takes
every copy, the counter one.  `Walk`: an id still to be examined is in the clone
once and has not matched, and unless a call touched it, it still watches the
tick's symbol (`ExaminedOnce`); an undisturbed id is expected to match exactly when
it has, or is still to be examined and would (`ExactSoFar`).  The first needs the
lists to hold an id once, which is what joins the two parts.  `RetainedSpec` says of
`Vec::retain` that it keeps every other id, each once: it is stated by counting
positions, and proved by the cardinality theorems.

### The config loader

`FollowerProofs`, for any conditions, strategy types, chunk size, reconcile
period and number of writes, cursor errors and restarts:

| Theorem | States |
|---|---|
| `LoaderStaysConsistent` | `[]Consistent`: `known_ids` has whatever the engine holds |
| `LoaderNothingBehindFilter` | `[]NothingBehindFilter`: nothing active is behind `last_poll_time` unapplied, without one of the three lapses |

`NothingBehindFilter` speaks of the time between scans.  While one runs the
invariant (`LoaderInv`) follows its cursor: stamps are in the past (`StampsInPast`), what was
scanned is applied or in the batch (`ScannedApplied`), the batch is as in the
collection unless a write came that the loader's time will not reach
(`BatchCurrent`), and what the filter skips was applied before
(`SkippedApplied`).  `ReconcileSees` is needed because a reconcile removes: it
must have every such document among those it keeps.

### Routing and rendering

`FollowerProofs`, for any subscribers, templates and channels, and any number of
writes and starts:

| Theorem | States |
|---|---|
| `RoutingOneRevisionUsed` | `[]OneRevisionUsed`: all requests to a subscriber since the start fit one revision of its document, its override where it has one; all renderings of a template are of one revision |
| `RoutingDefaultHasReason` | `[]DefaultHasReason`: the reason is in MongoDB's answer or in `notiflo_templates` |

Both speak of the templates the runtime reads.  What the API stores as a template is
not among them (`Routing_templates`), and no theorem says otherwise.

Neither property speaks of the caches; the invariant (`RoutingIInv`) does.  What is
cached of a subscriber is what `to_routing` makes of a revision known since the
start, and the match in hand and every request so far carry exactly that
(`RoutedByCache`); what was rendered is the cached version (`RenderedByCache`).  A
channel missing in a template, or in what is cached of it, is on record as lacking
(`LackingKnown`): that is why the default has a reason whichever of cache and
collection it was taken from.  `ToRoutingSpec` says that what `to_routing` makes of
a document fits the document.

### Ingest, evaluator, delivery

`PipelineProofs`, for any sizes of the channels, retry limit, number of channels,
ticks, matches, faults and restarts, both sources:

| Theorem | States |
|---|---|
| `SpecAccounted` | `[]Accounted`: between any two steps of the tasks the counters, the channel and the ticks in hand account for every tick ingested; a dead letter is a failed delivery, and one once; a failure the loop is done with is one, but for one at most per failed Redis command and per restart |
| `SpecUntakenLeavesATrace` | `[]UntakenLeavesATrace` |
| `SpecInOrderAtMostOnce` | `InOrderAtMostOnce`: the pipeline implements `LossyFifo` |

The inductive invariant orders the places a slot passes, from the source to the
stream: everything in the stream or the dead letters comes before what is asked
for, before the matches in hand, before the batches that wait, before what the
waiting ticks can still produce (`TicksInOrder`, `SlotsInOrder`).  The request in
hand is the one exception, in the stream only on its way to the dead letters
(`HeadIsFresh`).  With this order a slot that arrives is later than all that
arrived, which is `LossyFifo`'s `Arrive`; every other step is a `Send` or a
stutter.  A tick in the evaluator's hands comes before those in the channel, one in
`run_ingest`'s hands after them.  `HeadIsKnown` adds what a success and a failure have
already left behind, for the traces.  Slots are numbers, `(tick - 1) * matches * channels` and on;
`Blocks` and `StartSpec` do the arithmetic that keeps those of different ticks
apart.

### The notification consumer

`ServiceProofs`, for any set of processes, batch size, stream length
and number of events, faults and stops:

| Theorem | States |
|---|---|
| `ConsumerStaysConsistent` | `[]Consistent`: nothing kept twice, nothing acknowledged unhandled, no batch above `COUNT` |
| `ConsumerInOrderForEach` | each process, by itself, implements `LossyFifo` |
| `ConsumerInOrderAtMostOnce` | `TrackedInOrderAtMostOnce`, which watches one of them |

The invariant is `ConsumerInv`.  `NoDoubleTracking` follows from two facts: no event was given to two processes
(`Apart`, since what the group hands out is later than all it handed out), and
each works through its own in order (`InOrder`).  `CollectedWasHandled` says of the
ids gathered for `XACK` what `AckedWasHandled` says after it.

### The API's services

`ServiceProofs` proves, for any organizations, keys and number of requests at the
guard:

| Theorem | States |
|---|---|
| `OrganizationsTypeCorrect` | `[]OrganizationsTypeOK` |
| `RefusedWhenHopeless` | `[]NoStaleAcceptance` |
| `RevocationIsFinal` | `RevokedForGood` |

`NoStaleAcceptance` speaks of the end of a request only.  The inductive invariant
(`GuardInv`) adds what is true half way: a hopeless request that got past the
first read has a key of a removed organization (`DoomedByOrganization`; a revoked
key does not get past it), and the key it read is still there (`FoundKeysExist`),
without which saving `lastUsedAt` would have nothing to save to.  Removed
organizations do not come back, so the third read refuses.

For any providers, channels and senders:

| Theorem | States |
|---|---|
| `ChannelsTypeCorrect` | `[]ChannelsTypeOK` |
| `PrimaryEarliest` | `[]PrimaryIsEarliest` |
| `AnswersAreStored` | `[]AnsweredIsStored` |
| `ChannelsStayConsistent` | `[]ChannelsConsistent`: these three together |
| `NamesakesStay` | `NamesakeStays` |

`PrimaryIsEarliest` is inductive with the types (`RegistryInv`), which bound every
number in the registry by the count of registrations; `AnsweredIsStored` needs to
hold from the moment a send is under way (`UnderWayIsStored`).

For any alerts, symbols, configs, strategies and slots, and any number of requests
and restarts:

| Theorem | States |
|---|---|
| `SpecEngineConsistent` | `[]EngineConsistent`: a strategy's count is off by the adds of what it held, and by nothing else |
| `SpecEngineAgreesUnlessLapsed` | `[]EngineAgreesUnlessLapsed`: a tick matches what the documents say, in both engines, but for the lapses it names |

The second says something of alerts no handler is working on.  The inductive
invariant (`AlertsInv`) adds what is true while one is: there is only one unless
requests overlapped (`OneCall`), it carries the document as it is, and the engine
is where its call expects it (`NativeFits`, `MockFits`), with weaker statements for
alerts whose calls did not fit (`GoneIsGone`, `PausedIsQuiet`).  For the first,
`AddKeeps`, `RemoveKeeps` and `UpdateKeeps` say by how much each engine call moves a
count away from what is held, by the cardinality theorems of finite sets.

For any documents, routes and updates under way:

| Theorem | States |
|---|---|
| `NotificationsStayConsistent` | `[]NotificationsConsistent`: what is marked sent has a `sentAt`, traffic shown has a provider shown |
| `SentAtIsKept` | `SentAtKeptUnlessOverlap` |

The invariant (`NotesInv`) has to say what an update to SENT knows between its read
and its write (`UpdatesKnow`): if it is not going to set `sentAt`, the document has
one, and nothing takes it away; if it is, the document has none yet, unless another
update wrote it meanwhile and made this one late.  The first half gives
`SentHasSentAt`, the second the action property.  For the health view, the traffic
counted first is still in the window when the providers are counted
(`TrafficStays`): nothing is deleted and the cutoff is one.

For any counts, `DownSucceedsAtMostHalf` states that notifications whose error rate
makes their channel down have a success rate of 50 percent at most, however the two
are rounded: it is what `DownChannelHasFailingProvider` rests on where a channel has one
provider, at counts no run reaches.

For any numbers, operators and expressions of any size, `MockMatchesNative` states
`[]MockMatchesAreNative`: the mock lets nothing fire that the native engine does
not allow, and decides a plain conjunction as it does.  The invariant only says
that a question is one (`Posed`); the theorem is about the two evaluations.

For filter lists of any length over any fields and values, `SegmentNarrows` states
`SegmentInit => SegmentOnlyNarrows`: there is no step, the list is an argument.
`QueryGrows` says by how much a query grows with a filter on a new field.

### The alerts page

`FollowerProofs`, for any number of fetches and submits:

| Theorem | States |
|---|---|
| `AlertsPageConsistent` | `[]PageConsistent` |
| `AlertsPageCreatedIsShown` | `[]CreatedIsShown` |

`CreatedIsShown` speaks of a quiet page.  The invariant (`PageIInv`) says what leads
there: without overlap one fetch is under way (`OneFetch`), and after a success what
it brings is the whole list, because it was asked after the alert was stored and
nothing is submitted meanwhile (`SuccessShown`).  With overlap, no answer on its way
is older than what was stored when the first fetch began, and once one of them has
come the data shown is not either (`NewerThanFirst`).

For any tests, steps and cancels:

| Theorem | States |
|---|---|
| `LoadTestShownIsOneRun` | `[]ShownIsOneRun` |
| `LoadTestButtonAgrees` | `[]ButtonAgrees` |

Unless clicks were hurried, a start under way is the only thing under way and shows
no step (`StartingAlone`), an open stream is that of the test shown, and each three
events it delivered are one completed step (`StreamingAlone`): this ties the steps
shown to the stream they come from.  `RunningIsSomething` holds without that
exception, and needs only that a stream opens after its start has answered
(`StreamAfterAnswer`).

### What is only model-checked

- `ViewsAgree`: the counts of five pipelines are compared by sums, which are folds;
  that a fold over a partition adds up is induction over data, with an operator as
  parameter, which the installed provers cannot instantiate.
- `ExtractedAreEnough`: `TemplateText` walks syntax trees with RECURSIVE operators,
  and what they compute for every text is induction over data as well.
- Liveness (`StaleEventuallyRemoved`, `FollowsUnlessLapsed`, `DrainsUnlessRedisLost`,
  `CatchesUp`, `PendingDrains`): it needs fairness and `ENABLED`, which the provers
  do not treat.
- The four violations of section 4, which are single behaviours.

## 6. What is not modelled, and why

- Text of notifications, message bodies, logging, metrics accessors, layout and
  formatting: data no property speaks of.
- Backoff delays and timers: they decide when, not whether, a step is taken.  The
  one retry policy in use has the same delays each time.
- Whether a failed POST is retryable: decided by searching an error text that
  quotes the other side; `Pipeline` allows both.
- Dead letter and stream expiry other than `MAXLEN`.
- The Rhai engine, the expression parser, Handlebars' parser, MongoDB, Redis and
  the HTTP endpoint: external or not yet written, modelled by what the code relies
  on.
- The addon's match callback: nothing in the API listens to the event it emits.
- `recordTrigger`, which nothing calls; `getAvailableChannels`, whose answer never
  changes; finders that read one document.
- The dashboard's latencies and subscriber growth: averages of what was read.
- `condition/index.rs`: no other module uses it.
- Health endpoint, command line, the other web pages (one fetch each, as in
  `AlertsPage`), deployment: read-only or presentation.

## 7. What is left

Every safety property a passing run checks is proved, except `ViewsAgree` and
`ExtractedAreEnough`.  A theorem still worth having: in `ThresholdTree`, with no
price on a threshold the gap stays empty, hence every tick is exact.

Next modules:

1. `Expression`: the expression parser and evaluator as recursive functions
   against a reference evaluation, over bounded inputs.
2. `RetryDelay`: the arithmetic of `delay_for_attempt` in 64 bits.
3. `ConfigLoader` composed with `ThresholdStrategy` as its engine.
