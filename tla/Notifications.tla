--------------------------- MODULE Notifications ----------------------------
(***************************************************************************)
(* Notifications: NotificationsService and the views DashboardService      *)
(* computes of the same collection (apps/notiflo/src/app/notifications,    *)
(* .../dashboard).                                                         *)
(*                                                                         *)
(* A handler is one MongoDB command, except updateStatus to SENT, which    *)
(* reads and then writes, getOverview, whose aggregates run side by side,  *)
(* and getChannelHealth, whose aggregates run one after the other.         *)
(* Statuses stand for their group: pending for queued and sending, opened  *)
(* for clicked.  A route is a channel and the provider used on it.  The    *)
(* times of delivery and opening, which no view reads, are left out.       *)
(***************************************************************************)
EXTENDS Integers, FiniteSets, FiniteSetsExt

CONSTANTS Notes, Routes, NoNote,
          Updaters,                   \* updateStatus calls under way at once
          FiveMinutes,                \* the health window, in ticks of the clock
          MaxClock, MaxNoteWrites     \* bounds

Statuses == {"pending", "sent", "delivered", "opened", "failed", "bounced"}
Times == 0..MaxClock
NoteChannels == {route.channel : route \in Routes}

Notification == [route : Routes, status : Statuses, createdAt : Times,
                 sentAt : Times \cup {NoNote}]

(* An updateStatus(SENT) between its read and its write.                   *)
SentUpdate == [id : Notes, sentAt : Times \cup {NoNote}, late : BOOLEAN]

ASSUME NotificationsAssumption ==
  /\ {FiveMinutes, MaxClock, MaxNoteWrites} \subseteq Nat /\ IsFiniteSet(Notes)
  /\ NoNote \notin Int /\ NoNote \notin Notification /\ NoNote \notin SentUpdate

VARIABLES notes,      \* the collection: id -> document, or NoNote
          time, noteWrites,
          updating,   \* per updateStatus(SENT), what it is about to write
          view        \* the dashboard request under way or answered last

notificationsVars == <<notes, time, noteWrites, updating, view>>

NotAsked == [step |-> "none"]

NotificationsInit ==
  /\ notes = [n \in Notes |-> NoNote] /\ time = 0 /\ noteWrites = 0
  /\ updating = [u \in Updaters |-> NoNote]
  /\ view = NotAsked

-----------------------------------------------------------------------------
(***************************************************************************)
(* Writes.  One that falls between the two aggregates of an overview is    *)
(* seen by one of them only: the view counts those.  An answered view is   *)
(* over with the next event.                                               *)
(***************************************************************************)
Free == view.step \in {"none", "overviewed", "shown"}

Unanswered == IF Free THEN NotAsked ELSE view

HalfRead == view.step = "overview" /\ ((view.totals = NoNote) # (view.breakdown = NoNote))

Put(n, note) ==
  /\ noteWrites < MaxNoteWrites /\ noteWrites' = noteWrites + 1
  /\ notes' = [notes EXCEPT ![n] = note]
  /\ view' = IF HalfRead THEN [view EXCEPT !.writes = @ + 1] ELSE Unanswered
  /\ UNCHANGED time

CreateNotification(n, route) ==
  /\ notes[n] = NoNote
  /\ Put(n, [route |-> route, status |-> "pending", createdAt |-> time,
             sentAt |-> NoNote])
  /\ UNCHANGED updating

PersistNotification(n, route, success) ==   \* RedisStreamConsumer
  /\ notes[n] = NoNote
  /\ Put(n, [route |-> route, status |-> IF success THEN "delivered" ELSE "failed",
             createdAt |-> time, sentAt |-> time])
  /\ UNCHANGED updating

UpdateStatus(n, status) ==
  /\ notes[n] # NoNote /\ status # "sent"
  /\ Put(n, [notes[n] EXCEPT !.status = status])
  /\ UNCHANGED updating

SentAtAlways(note) == time                                              \* mutant: no guard

SentAtFor(note) == IF note.sentAt = NoNote THEN time ELSE NoNote

ReadBeforeSent(u, n) ==
  /\ updating[u] = NoNote /\ notes[n] # NoNote
  /\ updating' = [updating EXCEPT ![u] = [id |-> n, sentAt |-> SentAtFor(notes[n]), late |-> FALSE]]
  /\ view' = Unanswered
  /\ UNCHANGED <<notes, time, noteWrites>>

WriteSent(u) ==
  /\ updating[u] # NoNote
  /\ LET update == updating[u]
     IN  /\ Put(update.id, [notes[update.id] EXCEPT !.status = "sent",
                              !.sentAt = IF update.sentAt = NoNote THEN @ ELSE update.sentAt])
         /\ updating' = [other \in Updaters |->
              IF other = u THEN NoNote
              ELSE IF updating[other] # NoNote /\ updating[other].id = update.id
                   THEN [updating[other] EXCEPT !.late = TRUE] ELSE updating[other]]

Elapse ==
  /\ time < MaxClock /\ time' = time + 1 /\ view' = Unanswered
  /\ UNCHANGED <<notes, noteWrites, updating>>

-----------------------------------------------------------------------------
(***************************************************************************)
(* The aggregates, each with the status lists its own pipeline spells out. *)
(***************************************************************************)
CountWith(ids, statuses) == Cardinality({n \in ids : notes[n].status \in statuses})

Existing == {n \in Notes : notes[n] # NoNote}

OnChannel(ids, channel) == {n \in ids : notes[n].route.channel = channel}

(* buildDateFilter: without a start there is no end either.                *)
Selected(from, to) ==
  IF from = NoNote THEN Existing ELSE {n \in Existing : notes[n].createdAt \in from..to}

Since(cutoff) == {n \in Existing : notes[n].createdAt >= cutoff}

SumOver(S, op(_)) == FoldSet(LAMBDA x, sum : op(x) + sum, 0, S)

OverviewTotals(ids) ==
  [sent      |-> CountWith(ids, {"sent", "delivered", "opened"}),
   delivered |-> CountWith(ids, {"delivered", "opened"}),
   failed    |-> CountWith(ids, {"failed", "bounced"})]

ChannelBreakdown(ids) == [channel \in NoteChannels |->
  [sent      |-> CountWith(OnChannel(ids, channel), {"sent", "delivered", "opened"}),
   delivered |-> CountWith(OnChannel(ids, channel), {"delivered", "opened"}),
   failed    |-> CountWith(OnChannel(ids, channel), {"failed", "bounced"})]]

TimelineWithoutOpened(ids) == [createdAt \in Times |->   \* mutant: a status is missing in one list
  LET bucket == {n \in ids : notes[n].createdAt = createdAt}
  IN  [sent |-> CountWith(bucket, {"sent", "delivered"}), delivered |-> CountWith(bucket, {"delivered"}),
       failed |-> CountWith(bucket, {"failed", "bounced"})]]

Timeline(ids) == [createdAt \in Times |->
  LET bucket == {n \in ids : notes[n].createdAt = createdAt}
  IN  [sent      |-> CountWith(bucket, {"sent", "delivered", "opened"}),
       delivered |-> CountWith(bucket, {"delivered", "opened"}),
       failed    |-> CountWith(bucket, {"failed", "bounced"})]]

Stats(ids) ==
  [total |-> Cardinality(ids), byStatus |-> [status \in Statuses |-> CountWith(ids, {status})],
   byChannel |-> [channel \in NoteChannels |-> Cardinality(OnChannel(ids, channel))]]

(* Hundredths of a percent: Math.round(part / whole * 10000).              *)
Rate(part, whole) == (20000 * part + whole) \div (2 * whole)

HealthOf(total, failed) ==
  IF total = 0 THEN "healthy"
  ELSE IF Rate(failed, total) > 5000 THEN "down"
  ELSE IF Rate(failed, total) > 1000 THEN "degraded" ELSE "healthy"

ChannelStats(cutoff) == [channel \in NoteChannels |->
  [total |-> Cardinality(OnChannel(Since(cutoff), channel)),
   failed |-> CountWith(OnChannel(Since(cutoff), channel), {"failed", "bounced"})]]

ProviderCountsNow(cutoff) ==   \* mutant: a window of its own
  [channel \in NoteChannels |-> Cardinality({notes[n].route.provider : n \in OnChannel(Since(time), channel)})]

ProviderCounts(cutoff) ==
  [channel \in NoteChannels |-> Cardinality({notes[n].route.provider : n \in OnChannel(Since(cutoff), channel)})]

ProviderHealth(cutoff) == [route \in {notes[n].route : n \in Since(cutoff)} |->
  LET ids == {n \in Since(cutoff) : notes[n].route = route}
      rate == Rate(CountWith(ids, {"sent", "delivered", "opened"}), Cardinality(ids))
  IN  [succeeded |-> CountWith(ids, {"sent", "delivered", "opened"}), successRate |-> rate,
       status |-> IF rate >= 8000 THEN "active" ELSE IF rate >= 5000 THEN "degraded" ELSE "error"]]

(***************************************************************************)
(* getOverview and getChannelHealth.                                       *)
(***************************************************************************)
GetOverview(from) ==
  /\ Free
  /\ view' = [step |-> "overview", from |-> from, to |-> IF from = NoNote THEN NoNote ELSE time,
              totals |-> NoNote, breakdown |-> NoNote, writes |-> 0]
  /\ UNCHANGED <<notes, time, noteWrites, updating>>

AfterRead(asked) ==
  IF ~HalfRead THEN asked
  ELSE [step |-> "overviewed", totals |-> asked.totals, breakdown |-> asked.breakdown,
        writes |-> asked.writes]

AggregateOverview ==
  /\ view.step = "overview"
  /\ LET ids == Selected(view.from, view.to)
     IN  \/ view.totals = NoNote /\ view' = AfterRead([view EXCEPT !.totals = OverviewTotals(ids)])
         \/ /\ view.breakdown = NoNote
            /\ view' = AfterRead([view EXCEPT !.breakdown = ChannelBreakdown(ids)])
  /\ UNCHANGED <<notes, time, noteWrites, updating>>

GetChannelHealth ==
  /\ Free
  /\ LET cutoff == IF time < FiveMinutes THEN 0 ELSE time - FiveMinutes
     IN  view' = [step |-> "health", cutoff |-> cutoff, stats |-> ChannelStats(cutoff)]
  /\ UNCHANGED <<notes, time, noteWrites, updating>>

CountProviders ==
  /\ view.step = "health"
  /\ view' = [step |-> "shown", stats |-> view.stats, providers |-> ProviderCounts(view.cutoff)]
  /\ UNCHANGED <<notes, time, noteWrites, updating>>

NotificationsNext ==
  \/ \E n \in Notes, route \in Routes :
       CreateNotification(n, route) \/ \E success \in BOOLEAN : PersistNotification(n, route, success)
  \/ \E n \in Notes : (\E status \in Statuses : UpdateStatus(n, status))
                      \/ \E u \in Updaters : ReadBeforeSent(u, n)
  \/ \E u \in Updaters : WriteSent(u)
  \/ Elapse
  \/ \E from \in {0, NoNote} : GetOverview(from)
  \/ AggregateOverview \/ GetChannelHealth \/ CountProviders

NotificationsSpec == NotificationsInit /\ [][NotificationsNext]_notificationsVars

-----------------------------------------------------------------------------
NotificationsTypeOK ==
  /\ notes \in [Notes -> Notification \cup {NoNote}]
  /\ time \in Times /\ noteWrites \in 0..MaxNoteWrites
  /\ updating \in [Updaters -> SentUpdate \cup {NoNote}]
  /\ view.step \in {"none", "overview", "overviewed", "health", "shown"}

(* notifications.service.ts:94, "Only set sentAt if not already set": a    *)
(* sentAt stays what it is, unless two updates to SENT both read the       *)
(* document before either wrote it.                                        *)
SentAtKeptUnlessOverlap ==
  [][\A n \in Notes : notes[n] # NoNote /\ notes[n].sentAt # NoNote =>
       \/ notes'[n].sentAt = notes[n].sentAt
       \/ \E u \in Updaters : /\ updating[u] # NoNote /\ updating'[u] = NoNote
                              /\ updating[u].id = n /\ updating[u].late]_notificationsVars

(* Statuses may be set in any order, also back, and updates overlap: what  *)
(* is marked sent has a sentAt all the same.                               *)
SentHasSentAt ==
  \A n \in Notes : notes[n] # NoNote /\ notes[n].status = "sent" => notes[n].sentAt # NoNote

(* The totals of an overview and the sums of its channels come from two    *)
(* aggregates side by side: each differs from the other by at most the     *)
(* writes that fell between the two, and not at all when there was none.   *)
OverviewOffByWrites ==
  view.step = "overviewed" =>
    \A field \in {"sent", "delivered", "failed"} :
      LET sum == SumOver(NoteChannels, LAMBDA channel : view.breakdown[channel][field])
      IN  view.totals[field] - sum \in (-view.writes)..view.writes

(* A channel shown with traffic is shown with a provider, although the     *)
(* providers are counted later: both counts use one window and nothing is  *)
(* deleted.                                                                *)
TrafficHasProvider ==
  view.step = "shown" =>
    \A channel \in NoteChannels : view.stats[channel].total > 0 => view.providers[channel] > 0

(* The documents stay consistent under overlapping updates, and so does the*)
(* view whose two queries run one after the other.                         *)
NotificationsConsistent == NotificationsTypeOK /\ SentHasSentAt /\ TrafficHasProvider

(* A channel that is down, with its circuit shown open, has a provider     *)
(* shown in error or with a success rate of just 50.  The views have lists *)
(* and thresholds of their own and round apart (:282 errorRate, :504       *)
(* successRate): at 10001 failures of 20000 the channel's 50.01 is down,   *)
(* and the 50 of its only provider still counts as degraded.               *)
DownChannelHasFailingProvider ==
  \A cutoff \in Times, channel \in NoteChannels :
    LET stats == ChannelStats(cutoff)[channel]
        providers == ProviderHealth(cutoff)
    IN  HealthOf(stats.total, stats.failed) = "down" =>
          \E route \in DOMAIN providers :
            /\ route.channel = channel
            /\ providers[route].status = "error" \/ providers[route].successRate = 5000

(* Five pipelines repeat the lists of statuses that count as sent,         *)
(* delivered and failed: over the same documents they count the same.      *)
CountsAgree ==
  \A from \in Times :
    LET ids == Selected(from, MaxClock)
        totals == OverviewTotals(ids)
        timeline == Timeline(ids)
        stats == Stats(ids)
        providers == ProviderHealth(from)
    IN  /\ \A field \in {"sent", "delivered", "failed"} :
             totals[field] = SumOver(Times, LAMBDA at : timeline[at][field])
        /\ totals.sent = SumOver(DOMAIN providers, LAMBDA route : providers[route].succeeded)
        /\ totals.failed = SumOver(NoteChannels, LAMBDA channel : ChannelStats(from)[channel].failed)
        /\ stats.total = totals.sent + totals.failed + stats.byStatus["pending"]
        /\ stats.total = SumOver(NoteChannels, LAMBDA channel : stats.byChannel[channel])

(* Over the same documents no view of the dashboard contradicts another,   *)
(* and an overview contradicts itself by no more than was written then.   *)
ViewsAgree == CountsAgree /\ DownChannelHasFailingProvider /\ OverviewOffByWrites

=============================================================================
