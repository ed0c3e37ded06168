------------------------------- MODULE Routing -------------------------------
(***************************************************************************)
(* Routing: what the runtime makes of a match - which channels, whose      *)
(* provider, which content - from documents the API writes meanwhile       *)
(* (notiflo-runtime subscriber_cache.rs, template.rs, delivery/router.rs;  *)
(* apps/notiflo subscribers and templates).                                *)
(*                                                                         *)
(* Both caches are filled on demand and live as long as the process.  The  *)
(* delivery loop resolves one match at a time and awaits MongoDB for each  *)
(* miss.  Endpoints and contents stand for the document revision they come *)
(* from; Pipeline delivers the requests.                                   *)
(*                                                                         *)
(* The API's templates are not those the runtime reads.  Mongoose stores   *)
(* the model NotifloTemplate in "notiflotemplates"; main.rs opens          *)
(* "notiflo_templates", which nothing of the repository writes: what is    *)
(* there, somebody else put there.                                         *)
(***************************************************************************)
EXTENDS Integers, FiniteSets

CONSTANTS Subscribers, Templates, Channels, Override,
          NoDoc, Deleted,     \* never created; deleted, and the id does not come back
          NoPrefs,            \* channelPreferences is null
          MaxSubscriberWrites, MaxDocWrites, MaxStarts   \* bounds

ASSUME RoutingAssumption ==
  /\ Channels \subseteq {"email", "sms", "push", "in_app", "webhook"}
  /\ {MaxSubscriberWrites, MaxDocWrites, MaxStarts} \subseteq Nat

NoEntry == [enabled |-> "absent", providerId |-> "none"]

(* An entry may come without enabled: no update runs the schema's          *)
(* validators, only create does.                                           *)
Entries == {NoEntry} \cup [enabled : {"no", "unset"}, providerId : {"none"}]
           \cup [enabled : {"yes"}, providerId : {"none", Override}]

Contacts == Channels \cap {"email", "sms", "push"}

(* contacts: of email, phone and pushTokens, those the document has.       *)
Subscriber == [channelPreferences : [Channels -> Entries] \cup {NoPrefs}, contacts : SUBSET Contacts]

Template == [version : Nat \ {0}, active : BOOLEAN, channels : SUBSET Channels]

Routing == {r \in UNION {[some -> Channels \cup {Override}] : some \in SUBSET Channels} :
              \A c \in DOMAIN r : r[c] \in {c, Override}}

Rendering == [version : Nat \ {0}, channels : SUBSET Channels]

(* What stands for no document is none.                                    *)
ASSUME NoDocAssumption ==
  /\ NoDoc # Deleted
  /\ \A none \in {NoDoc, Deleted} : none \notin Subscriber /\ none \notin Template
  /\ NoDoc \notin Routing /\ NoDoc \notin Rendering

VARIABLES subscribers,
          templates,         \* the API's collection, "notiflotemplates"
          runtimeTemplates,  \* the runtime's, "notiflo_templates"
          routings,    \* SubscriberCache: id -> routing, or NoDoc
          renderings,  \* TemplateRenderer's cache: id -> version and channels, or NoDoc
          resolving,   \* the match under way, or NoDoc
          requested,   \* history: per subscriber, <<channel, provider>> requested since the start
          rendered,    \* history: per template, versions rendered since the start
          lacking,     \* history: <<template, channel>> a default payload has a reason for
          known,       \* history: per subscriber, revisions since the start
          subscriberWrites, docWrites, starts

collections == <<subscribers, templates, runtimeTemplates, known, lacking, subscriberWrites, docWrites>>
runtime == <<routings, renderings, resolving, requested, rendered, starts>>
routingVars == <<collections, runtime>>

Existing(docs) == {id \in DOMAIN docs : docs[id] \notin {NoDoc, Deleted}}

ActiveTemplates == [t \in Templates |->
  IF t \in Existing(runtimeTemplates) /\ runtimeTemplates[t].active
  THEN [version |-> runtimeTemplates[t].version, channels |-> runtimeTemplates[t].channels]
  ELSE NoDoc]

RoutingInit ==
  /\ subscribers = [s \in Subscribers |-> NoDoc] /\ templates = [t \in Templates |-> NoDoc]
  /\ runtimeTemplates = templates
  /\ routings = subscribers /\ renderings = templates /\ resolving = NoDoc
  /\ requested = [s \in Subscribers |-> {}] /\ rendered = [t \in Templates |-> {}]
  /\ known = [s \in Subscribers |-> {}] /\ lacking = Templates \X Channels
  /\ subscriberWrites = 0 /\ docWrites = 0 /\ starts = 0

-----------------------------------------------------------------------------
(***************************************************************************)
(* SubscribersService and TemplatesService: one MongoDB command each.      *)
(***************************************************************************)
WriteSubscriber(s, doc) ==
  /\ subscriberWrites < MaxSubscriberWrites /\ subscriberWrites' = subscriberWrites + 1
  /\ docWrites < MaxDocWrites /\ docWrites' = docWrites + 1
  /\ subscribers' = [subscribers EXCEPT ![s] = doc]
  /\ known' = IF doc = Deleted \/ starts = 0 THEN known ELSE [known EXCEPT ![s] = @ \cup {doc}]
  /\ UNCHANGED <<templates, runtimeTemplates, lacking, runtime>>

(* Without preferences in the request the schema stores an empty map; with *)
(* an entry that has no enabled it refuses the document.                   *)
Valid(doc) == \A c \in Channels : doc.channelPreferences # NoPrefs =>
                                  doc.channelPreferences[c].enabled # "unset"

CreateSubscriber(s, doc) == subscribers[s] = NoDoc /\ Valid(doc) /\ WriteSubscriber(s, doc)

UpdateSubscriber(s, doc) == s \in Existing(subscribers) /\ WriteSubscriber(s, doc)

(* MongoDB refuses to set a field of null.                                 *)
UpdatePreferences(s, entries) ==
  /\ s \in Existing(subscribers) /\ subscribers[s].channelPreferences # NoPrefs
  /\ WriteSubscriber(s, [subscribers[s] EXCEPT !.channelPreferences =
       [channel \in Channels |-> IF channel \in DOMAIN entries THEN entries[channel] ELSE @[channel]]])

RemoveSubscriber(s) == s \in Existing(subscribers) /\ WriteSubscriber(s, Deleted)

WriteTemplate(t, doc) ==
  /\ docWrites < MaxDocWrites /\ docWrites' = docWrites + 1
  /\ templates' = [templates EXCEPT ![t] = doc]
  /\ UNCHANGED <<subscribers, runtimeTemplates, known, lacking, subscriberWrites, runtime>>

CreateTemplate(t, channels) ==
  /\ templates[t] = NoDoc
  /\ WriteTemplate(t, [version |-> 1, active |-> TRUE, channels |-> channels])

UpdateTemplate(t, channels) ==
  /\ t \in Existing(templates)
  /\ WriteTemplate(t, [templates[t] EXCEPT !.version = @ + 1, !.channels = channels])

SetTemplateActive(t, active) ==   \* activate and deactivate
  /\ t \in Existing(templates)
  /\ WriteTemplate(t, [templates[t] EXCEPT !.active = active])

RemoveTemplate(t) == t \in Existing(templates) /\ WriteTemplate(t, Deleted)

(* channel-preferences.ts: what the API's own helpers say.                 *)
IsChannelEnabled(preferences, channel) == preferences[channel].enabled = "yes"

(* External: whoever fills the collection the runtime reads.  A revision is*)
(* a write.                                                                *)
WriteRuntimeTemplate(t, doc) ==
  /\ docWrites < MaxDocWrites /\ docWrites' = docWrites + 1
  /\ runtimeTemplates' = [runtimeTemplates EXCEPT ![t] = doc]
  /\ lacking' =
       LET missing == {t} \X (IF doc = Deleted THEN Channels ELSE Channels \ doc.channels)
       IN  IF starts = 0 THEN lacking
           ELSE IF runtimeTemplates[t] = NoDoc THEN (lacking \ ({t} \X Channels)) \cup missing
           ELSE lacking \cup missing
  /\ UNCHANGED <<subscribers, templates, known, subscriberWrites, runtime>>

StoreRuntimeTemplate(t, active, channels) ==
  /\ runtimeTemplates[t] # Deleted
  /\ LET version == IF runtimeTemplates[t] = NoDoc THEN 1 ELSE runtimeTemplates[t].version + 1
     IN  WriteRuntimeTemplate(t, [version |-> version, active |-> active, channels |-> channels])

RemoveRuntimeTemplate(t) == t \in Existing(runtimeTemplates) /\ WriteRuntimeTemplate(t, Deleted)

-----------------------------------------------------------------------------
(***************************************************************************)
(* The runtime.                                                            *)
(***************************************************************************)
HasEndpoint(doc, channel) == channel \in doc.contacts \/ channel = "in_app"

ToRoutingOptOut(doc) ==   \* mutant: an entry counts, whatever enabled says
  [channel \in {c \in Channels : HasEndpoint(doc, c)} |-> channel]

(* From the channels enabled to their providers; an entry without enabled  *)
(* counts as enabled.                                                      *)
ToRouting(doc) ==
  IF doc.channelPreferences = NoPrefs THEN [channel \in doc.contacts |-> channel]
  ELSE [channel \in {c \in Channels : /\ doc.channelPreferences[c].enabled \in {"yes", "unset"}
                                      /\ HasEndpoint(doc, c)} |->
          LET override == doc.channelPreferences[channel].providerId
          IN  IF override = "none" THEN channel ELSE override]

Cached(cache, id, value) == [cache EXCEPT ![id] = value]

(* main.rs loads the active templates before anything is delivered.        *)
Start ==
  /\ starts < MaxStarts /\ starts' = starts + 1
  /\ routings' = [s \in Subscribers |-> NoDoc] /\ renderings' = ActiveTemplates
  /\ resolving' = NoDoc
  /\ requested' = [s \in Subscribers |-> {}] /\ rendered' = [t \in Templates |-> {}]
  /\ known' = [s \in Subscribers |-> IF s \in Existing(subscribers) THEN {subscribers[s]} ELSE {}]
  /\ lacking' = UNION {{t} \X (IF t \in Existing(runtimeTemplates)
                               THEN Channels \ runtimeTemplates[t].channels ELSE Channels)
                       : t \in Templates}
  /\ UNCHANGED <<subscribers, templates, runtimeTemplates, subscriberWrites, docWrites>>

(* resolve, up to its first render: channels without routing are skipped.  *)
(* A subscriber nobody finds, or an error, ends the match.                 *)
Resolve(s, t, channels) ==
  /\ starts > 0 /\ resolving = NoDoc
  /\ routings[s] # NoDoc \/ s \in Existing(subscribers)
  /\ LET routing == IF routings[s] # NoDoc THEN routings[s] ELSE ToRouting(subscribers[s])
         left == channels \cap DOMAIN routing
     IN  /\ routings' = Cached(routings, s, routing)
         /\ resolving' = IF left = {} THEN NoDoc
                         ELSE [subscriber |-> s, template |-> t, routing |-> routing, left |-> left]
  /\ UNCHANGED <<renderings, requested, rendered, starts, collections>>

DefaultPayload == 0   \* where a version would be

FoundActive(t) ==   \* mutant: find_one with active
  t \in Existing(runtimeTemplates) /\ runtimeTemplates[t].active

FoundTemplate(t) == t \in Existing(runtimeTemplates)

(* render_for_match and the request it goes into.  ok: find_one succeeded. *)
Request(channel, ok) ==
  /\ resolving # NoDoc /\ channel \in resolving.left
  /\ LET t == resolving.template
         loaded == renderings[t] = NoDoc /\ ok /\ FoundTemplate(t)
         use == IF ~loaded THEN renderings[t]
                ELSE [version |-> runtimeTemplates[t].version, channels |-> runtimeTemplates[t].channels]
         default == use = NoDoc \/ channel \notin use.channels
     IN  /\ renderings' = IF loaded THEN Cached(renderings, t, use) ELSE renderings
         /\ rendered' = [rendered EXCEPT ![t] = @ \cup
              IF default THEN IF <<t, channel>> \in lacking \/ ~ok THEN {} ELSE {DefaultPayload}
              ELSE {use.version}]
         /\ requested' = [requested EXCEPT ![resolving.subscriber] =
              @ \cup {<<channel, resolving.routing[channel]>>}]
         /\ resolving' = IF resolving.left = {channel} THEN NoDoc
                         ELSE [resolving EXCEPT !.left = @ \ {channel}]
  /\ UNCHANGED <<routings, starts, collections>>

RoutingNext ==
  \/ \E s \in Subscribers :
       \/ \E doc \in Subscriber : CreateSubscriber(s, doc) \/ UpdateSubscriber(s, doc)
       \/ \E some \in SUBSET Channels : \E entries \in [some -> Entries \ {NoEntry}] :
            UpdatePreferences(s, entries)
       \/ RemoveSubscriber(s)
  \/ \E t \in Templates :
       \/ \E channels \in SUBSET Channels : CreateTemplate(t, channels) \/ UpdateTemplate(t, channels)
       \/ \E active \in BOOLEAN : SetTemplateActive(t, active)
       \/ RemoveTemplate(t) \/ RemoveRuntimeTemplate(t)
       \/ \E active \in BOOLEAN, channels \in SUBSET Channels : StoreRuntimeTemplate(t, active, channels)
  \/ Start
  \/ \E s \in Subscribers, t \in Templates, channels \in SUBSET Channels : Resolve(s, t, channels)
  \/ \E channel \in Channels, ok \in BOOLEAN : Request(channel, ok)

RoutingSpec == RoutingInit /\ [][RoutingNext]_routingVars

(* The delivery loop goes on with a match it has taken, and with a         *)
(* subscriber whose alerts go on matching there is a next one.             *)
FairRouting ==
  /\ RoutingSpec
  /\ WF_routingVars(\E channel \in Channels, ok \in BOOLEAN : Request(channel, ok))
  /\ \A s \in Subscribers, t \in Templates : WF_routingVars(Resolve(s, t, Channels))

-----------------------------------------------------------------------------
RoutingTypeOK ==
  /\ subscribers \in [Subscribers -> Subscriber \cup {NoDoc, Deleted}]
  /\ \A t \in Templates : {templates[t], runtimeTemplates[t]} \subseteq Template \cup {NoDoc, Deleted}
  /\ \A s \in Subscribers : routings[s] \in Routing \cup {NoDoc}
  /\ \A t \in Templates : renderings[t] \in Rendering \cup {NoDoc}
  /\ resolving # NoDoc => resolving.left \in (SUBSET DOMAIN resolving.routing) \ {{}}
  /\ starts \in 0..MaxStarts

(* All requests to a subscriber since the runtime started fit one revision *)
(* of its document, current then or later: a channel the API's             *)
(* isChannelEnabled calls enabled, one whose entry does not say, or no     *)
(* preferences at all; and exactly that revision's provider, the override  *)
(* where it has one (router.rs:81-86).  So an opt-out made before the start*)
(* is honoured, and no request mixes two revisions.                        *)
Fits(doc, request) ==
  LET preferences == doc.channelPreferences
      channel == request[1]
  IN  IF preferences = NoPrefs THEN channel \in doc.contacts /\ request[2] = channel
      ELSE /\ IsChannelEnabled(preferences, channel) \/ preferences[channel].enabled = "unset"
           /\ request[2] = IF preferences[channel].providerId = "none" THEN channel
                           ELSE preferences[channel].providerId

OneRevisionRouted ==
  \A s \in Subscribers : requested[s] # {} =>
    \E doc \in known[s] : \A request \in requested[s] : Fits(doc, request)

(* template.rs:21, "Caches templates from MongoDB in memory": channels of  *)
(* one match, and matches of one run of the process, never carry two       *)
(* revisions of a template, whatever is written between two renders.       *)
OneRevisionRendered == \A t \in Templates : Cardinality(rendered[t] \ {DefaultPayload}) <= 1

(* A match is routed by one revision and rendered by one revision.         *)
OneRevisionUsed == RoutingTypeOK /\ OneRevisionRouted /\ OneRevisionRendered

(* The default payload goes out only if MongoDB failed or some revision in *)
(* "notiflo_templates" since the start lacked the channel, or there was    *)
(* none; a template that is not active is rendered all the same.  What the *)
(* API stores is no revision there: see StartLoadsActive.                  *)
DefaultHasReason == \A t \in Templates : DefaultPayload \notin rendered[t]

(* template.rs:39, "Load all active templates from MongoDB into cache": the*)
(* templates the API manages are in the cache after a start.               *)
StartLoadsActive ==
  [][starts' # starts =>
       \A t \in Templates : t \in Existing(templates) /\ templates[t].active =>
         renderings'[t] # NoDoc]_routingVars

(* subscriber_cache.rs:142, "Clear the entire cache (called on periodic    *)
(* refresh)": once a subscriber has opted out of a channel for good, the   *)
(* requests on it end.                                                     *)
OptedOut(s, channel) ==
  /\ s \in Existing(subscribers) /\ subscribers[s].channelPreferences # NoPrefs
  /\ subscribers[s].channelPreferences[channel].enabled = "no"

OptOutHonoured ==
  \A s \in Subscribers, channel \in Channels :
    <>[]OptedOut(s, channel) =>
      <>[](resolving = NoDoc \/ resolving.subscriber # s \/ channel \notin resolving.left)

=============================================================================
