---------------------------- MODULE ServiceProofs ---------------------------
(***************************************************************************)
(* Theorems about the services of the API, which share no state:           *)
(* Organizations, for any organizations and keys and any number of requests*)
(* at the guard; Channels, for any providers, channels and number of sends *)
(* under way; AlertsApi, for any alerts, symbols, configs, registered      *)
(* strategies and slots and any number of requests and restarts; MockEngine*)
(* for any numbers and expressions; Segments, for any fields and lists of  *)
(* filters; Notifications, for any documents, routes and updates under way;*)
(* and NotificationConsumer, for any set of processes, batch size and      *)
(* stream length and any number of events, faults and stops.               *)
(***************************************************************************)
EXTENDS Organizations, Channels, AlertsApi, MockEngine, Segments, Notifications,
        NotificationConsumer,
        SequenceLemmas, SequenceTheorems, FiniteSetTheorems, TLAPS

-----------------------------------------------------------------------------
(***************************************************************************)
(* Organizations and API keys.                                             *)
(***************************************************************************)
(* A hopeless request that got past the first read did so on a key that was*)
(* active, of an organization already removed: the third read refuses it.  *)
DoomedByOrganization ==
  \A g \in Guards :
    guard[g].step \in {"found", "saved"} /\ dead[g] => guard[g].doc.organizationId \in removedOrgs

(* No handler deletes a key: the one a request found is there when it saves*)
(* lastUsedAt.                                                             *)
FoundKeysExist ==
  \A g \in Guards : guard[g].step \in {"found", "saved"} => apiKeys[guard[g].key] # OrgNone

GuardInv == OrganizationsTypeOK /\ DoomedByOrganization /\ FoundKeysExist /\ NoStaleAcceptance

(* Where a request is says which fields its record has.                    *)
LEMMA GuardFields ==
  ASSUME NEW state \in GuardState
  PROVE  /\ state.step \in {"idle", "found", "saved", "accepted", "refused"}
         /\ state.step \in {"found", "saved"} =>
              state \in [step : {"found", "saved"}, key : Keys, doc : ApiKey]
  BY DEF GuardState, Idle

(* No organization, no key and no guard at work satisfies the invariant.   *)
LEMMA GuardInit == OrganizationsInit => GuardInv
<1>. SUFFICES ASSUME OrganizationsInit PROVE GuardInv
  OBVIOUS
<1>1. Idle \in GuardState /\ Idle.step = "idle"
  BY DEF GuardState, Idle
<1>. QED
  BY <1>1 DEF OrganizationsInit, GuardInv, OrganizationsTypeOK, DoomedByOrganization, FoundKeysExist,
           NoStaleAcceptance

(* An organization is created or removed.                                  *)
LEMMA OrganizationStep ==
  ASSUME GuardInv, NEW org \in Orgs, CreateOrganization(org) \/ RemoveOrganization(org)
  PROVE  GuardInv'
<1>1. CASE CreateOrganization(org)
  BY <1>1
     DEF CreateOrganization, GuardInv, OrganizationsTypeOK, DoomedByOrganization, FoundKeysExist,
         NoStaleAcceptance
<1>2. CASE RemoveOrganization(org)
  BY <1>2
     DEF RemoveOrganization, GuardInv, OrganizationsTypeOK, DoomedByOrganization, FoundKeysExist,
         NoStaleAcceptance
<1>. QED  BY <1>1, <1>2

(* A key is generated for an organization.                                 *)
LEMMA GenerateApiKeyStep ==
  ASSUME GuardInv, NEW org \in Orgs, NEW key \in Keys, GenerateApiKey(key, org)
  PROVE  GuardInv'
<1>1. [organizationId |-> org, active |-> TRUE, lastUsedAt |-> FALSE] \in ApiKey
  BY DEF ApiKey
<1>. QED
  BY <1>1, OrganizationsAssumption, GuardFields
     DEF GenerateApiKey, GuardInv, OrganizationsTypeOK, DoomedByOrganization, FoundKeysExist,
         NoStaleAcceptance

(* A key is revoked.                                                       *)
LEMMA RevokeApiKeyStep ==
  ASSUME GuardInv, NEW key \in Keys, RevokeApiKey(key)
  PROVE  GuardInv'
<1>1. [apiKeys[key] EXCEPT !.active = FALSE] \in ApiKey
  BY DEF RevokeApiKey, ApiKey, GuardInv, OrganizationsTypeOK
<1>. QED
  BY <1>1, OrganizationsAssumption, GuardFields
     DEF RevokeApiKey, GuardInv, OrganizationsTypeOK, DoomedByOrganization, FoundKeysExist,
         NoStaleAcceptance

(* What the guard's first read answers decides what dead says of it.       *)
LEMMA FindApiKeyStep ==
  ASSUME GuardInv, NEW g \in Guards, NEW key \in Keys, FindApiKey(g, key)
  PROVE  GuardInv'
<1>. DEFINE state == guard'[g]
<1>1. guard' = [guard EXCEPT ![g] = state] /\ dead' = [dead EXCEPT ![g] = Hopeless(key)]
  BY DEF FindApiKey, GuardInv, OrganizationsTypeOK
<1>2. Hopeless(key) \in BOOLEAN
  BY DEF Hopeless
<1>3. /\ state \in GuardState /\ state.step # "accepted"
      /\ state.step \in {"found", "saved"} /\ Hopeless(key) => state.doc.organizationId \in removedOrgs
      /\ state.step \in {"found", "saved"} => apiKeys[state.key] # OrgNone
  <2>1. CASE FoundKey(key)
    <3>1. state = [step |-> "found", key |-> key, doc |-> apiKeys[key]]
      BY <2>1 DEF FindApiKey, GuardInv, OrganizationsTypeOK
    <3>2. apiKeys[key] \in ApiKey
      BY <2>1 DEF FoundKey, GuardInv, OrganizationsTypeOK
    <3>. QED
      BY <2>1, <3>1, <3>2 DEF FoundKey, Hopeless, GuardState
  <2>2. CASE ~FoundKey(key)
    <3>1. state = [step |-> "refused", key |-> key]
      BY <2>2 DEF FindApiKey, GuardInv, OrganizationsTypeOK
    <3>. QED
      BY <3>1 DEF GuardState
  <2>. QED  BY <2>1, <2>2
<1>4. OrganizationsTypeOK'
  BY <1>1, <1>2, <1>3 DEF FindApiKey, GuardInv, OrganizationsTypeOK
<1>5. DoomedByOrganization' /\ FoundKeysExist' /\ NoStaleAcceptance'
  <2>. SUFFICES ASSUME NEW other \in Guards
                PROVE  /\ guard'[other].step \in {"found", "saved"} /\ dead'[other]
                          => guard'[other].doc.organizationId \in removedOrgs'
                       /\ guard'[other].step \in {"found", "saved"} => apiKeys'[guard'[other].key] # OrgNone
                       /\ guard'[other].step = "accepted" => ~dead'[other]
    BY DEF DoomedByOrganization, FoundKeysExist,
           NoStaleAcceptance
  <2>1. removedOrgs' = removedOrgs /\ apiKeys' = apiKeys
    BY DEF FindApiKey
  <2>2. CASE other = g
    BY <1>1, <1>3, <2>1, <2>2 DEF GuardInv, OrganizationsTypeOK
  <2>3. CASE other # g
    BY <1>1, <2>1, <2>3 DEF GuardInv, OrganizationsTypeOK, DoomedByOrganization, FoundKeysExist,
           NoStaleAcceptance
  <2>. QED  BY <2>2, <2>3
<1>. QED  BY <1>4, <1>5 DEF GuardInv

(* A guard saves the time of use into the key it has read.                 *)
LEMMA SaveLastUsedAtStep ==
  ASSUME GuardInv, NEW g \in Guards, SaveLastUsedAt(g)
  PROVE  GuardInv'
<1>. DEFINE key == guard[g].key
<1>1. guard[g] \in [step : {"found", "saved"}, key : Keys, doc : ApiKey]
  BY GuardFields DEF SaveLastUsedAt, GuardInv, OrganizationsTypeOK
<1>2. guard' = [guard EXCEPT ![g].step = "saved"]
  BY DEF SaveLastUsedAt
<1>3. guard'[g] \in [step : {"found", "saved"}, key : Keys, doc : ApiKey]
      /\ guard'[g].doc = guard[g].doc /\ guard'[g].key = key /\ guard'[g].step = "saved"
  BY <1>1, <1>2 DEF GuardInv, OrganizationsTypeOK
<1>4. /\ apiKeys' \in [Keys -> ApiKey \cup {OrgNone}]
      /\ \A other \in Keys : apiKeys[other] # OrgNone => apiKeys'[other] # OrgNone
  <2>1. key \in Keys /\ apiKeys[key] \in ApiKey
    BY <1>1 DEF GuardInv, OrganizationsTypeOK, FoundKeysExist
  <2>2. apiKeys' = [apiKeys EXCEPT ![key] = [apiKeys[key] EXCEPT !.lastUsedAt = TRUE]]
    BY <1>1 DEF SaveLastUsedAt, SavedKey, ApiKey
  <2>3. [apiKeys[key] EXCEPT !.lastUsedAt = TRUE] \in ApiKey
    BY <2>1 DEF ApiKey
  <2>. QED
    BY <2>1, <2>2, <2>3, OrganizationsAssumption DEF GuardInv, OrganizationsTypeOK
<1>5. OrganizationsTypeOK'
  BY <1>2, <1>3, <1>4 DEF SaveLastUsedAt, GuardState, GuardInv, OrganizationsTypeOK
<1>6. DoomedByOrganization' /\ FoundKeysExist' /\ NoStaleAcceptance'
  <2>. SUFFICES ASSUME NEW other \in Guards
                PROVE  /\ guard'[other].step \in {"found", "saved"} /\ dead'[other]
                          => guard'[other].doc.organizationId \in removedOrgs'
                       /\ guard'[other].step \in {"found", "saved"} => apiKeys'[guard'[other].key] # OrgNone
                       /\ guard'[other].step = "accepted" => ~dead'[other]
    BY DEF DoomedByOrganization, FoundKeysExist, NoStaleAcceptance
  <2>1. removedOrgs' = removedOrgs /\ dead' = dead /\ guard[g].step = "found"
    BY DEF SaveLastUsedAt
  <2>2. CASE other = g
    BY <1>1, <1>3, <1>4, <2>1, <2>2 DEF GuardInv, DoomedByOrganization, FoundKeysExist
  <2>3. CASE other # g
    <3>1. guard'[other] = guard[other]
      BY <1>2, <2>3 DEF GuardInv, OrganizationsTypeOK
    <3>2. guard[other].step \in {"found", "saved"} => guard[other].key \in Keys
      BY GuardFields DEF GuardInv, OrganizationsTypeOK
    <3>. QED
      BY <1>4, <2>1, <3>1, <3>2 DEF GuardInv, DoomedByOrganization, FoundKeysExist, NoStaleAcceptance
  <2>. QED  BY <2>2, <2>3
<1>. QED  BY <1>5, <1>6 DEF GuardInv

(* The third read finds no organization that was removed.                  *)
LEMMA FindOrganizationStep ==
  ASSUME GuardInv, NEW g \in Guards, FindOrganization(g)
  PROVE  GuardInv'
<1>1. guard[g] \in [step : {"found", "saved"}, key : Keys, doc : ApiKey]
  BY GuardFields DEF FindOrganization, GuardInv, OrganizationsTypeOK
<1>2. /\ guard'[g] \in [step : {"accepted", "refused"}, key : Keys]
      /\ guard'[g].step = "accepted" => guard[g].doc.organizationId \in orgs
  BY <1>1 DEF FindOrganization, GuardInv, OrganizationsTypeOK
<1>3. guard' = [guard EXCEPT ![g] = guard'[g]]
  BY DEF FindOrganization, GuardInv, OrganizationsTypeOK
<1>4. OrganizationsTypeOK'
  BY <1>2, <1>3 DEF FindOrganization, GuardState, GuardInv, OrganizationsTypeOK
<1>5. guard'[g].step = "accepted" => ~dead[g]
  BY <1>2 DEF FindOrganization, GuardInv, OrganizationsTypeOK, DoomedByOrganization
<1>6. DoomedByOrganization' /\ FoundKeysExist' /\ NoStaleAcceptance'
  BY <1>2, <1>3, <1>5
     DEF FindOrganization, GuardInv, OrganizationsTypeOK, DoomedByOrganization, FoundKeysExist,
           NoStaleAcceptance
<1>. QED  BY <1>4, <1>6 DEF GuardInv

(* Every step on organizations, keys and guards preserves the invariant.   *)
LEMMA GuardStep == GuardInv /\ [OrganizationsNext]_organizationsVars => GuardInv'
<1>. SUFFICES ASSUME GuardInv, [OrganizationsNext]_organizationsVars PROVE GuardInv'
  OBVIOUS
<1>1. CASE OrganizationsNext
  BY <1>1, OrganizationStep, GenerateApiKeyStep, RevokeApiKeyStep, FindApiKeyStep,
     SaveLastUsedAtStep, FindOrganizationStep
     DEF OrganizationsNext
<1>2. CASE UNCHANGED organizationsVars
  BY <1>2 DEF organizationsVars, GuardInv, OrganizationsTypeOK, DoomedByOrganization, FoundKeysExist,
           NoStaleAcceptance
<1>. QED  BY <1>1, <1>2

(* The invariant of the guards holds in every reachable state.             *)
LEMMA GuardAlways == OrganizationsSpec => []GuardInv
  BY GuardInit, GuardStep, PTL DEF OrganizationsSpec

-----------------------------------------------------------------------------
(* Type correctness of the collections and of every request at the guard.  *)
THEOREM OrganizationsTypeCorrect == OrganizationsSpec => []OrganizationsTypeOK
<1>1. GuardInv => OrganizationsTypeOK
  BY DEF GuardInv
<1>. QED  BY <1>1, GuardAlways, PTL

(* ApiKeyGuard never lets a request pass whose key was revoked, or whose   *)
(* organization was removed, before it came (validateApiKey).              *)
THEOREM RefusedWhenHopeless == OrganizationsSpec => []NoStaleAcceptance
<1>1. GuardInv => NoStaleAcceptance
  BY DEF GuardInv
<1>. QED  BY <1>1, GuardAlways, PTL

(* revokeApiKey is final: saving lastUsedAt on a document read before does *)
(* not bring the key back.                                                 *)
THEOREM RevocationIsFinal == OrganizationsSpec => RevokedForGood
<1>. DEFINE Kept == \A key \in Keys :
       apiKeys[key] # OrgNone /\ ~apiKeys[key].active => ~apiKeys'[key].active
<1>1. GuardInv /\ [OrganizationsNext]_organizationsVars => Kept
  <2>. SUFFICES ASSUME GuardInv, [OrganizationsNext]_organizationsVars, NEW key \in Keys,
                       apiKeys[key] # OrgNone, ~apiKeys[key].active
                PROVE  ~apiKeys'[key].active
    OBVIOUS
  <2>1. apiKeys[key] \in ApiKey
    BY DEF GuardInv, OrganizationsTypeOK
  <2>2. ASSUME NEW other \in Keys, RevokeApiKey(other) PROVE ~apiKeys'[key].active
    BY <2>1, <2>2 DEF RevokeApiKey, ApiKey, GuardInv, OrganizationsTypeOK
  <2>3. ASSUME NEW other \in Keys, NEW org \in Orgs, GenerateApiKey(other, org)
        PROVE  ~apiKeys'[key].active
    BY <2>1, <2>3 DEF GenerateApiKey, GuardInv, OrganizationsTypeOK
  <2>4. ASSUME NEW g \in Guards, SaveLastUsedAt(g) PROVE ~apiKeys'[key].active
    <3>1. guard[g].key \in Keys
      BY <2>4, GuardFields DEF SaveLastUsedAt, GuardInv, OrganizationsTypeOK
    <3>. QED
      BY <2>1, <2>4, <3>1 DEF SaveLastUsedAt, SavedKey, ApiKey, GuardInv, OrganizationsTypeOK
  <2>5. CASE UNCHANGED apiKeys
    BY <2>5
  <2>. QED
    BY <2>2, <2>3, <2>4, <2>5
       DEF OrganizationsNext, CreateOrganization, RemoveOrganization, FindApiKey, FindOrganization,
           organizationsVars
<1>. QED  BY <1>1, GuardAlways, PTL DEF OrganizationsSpec, RevokedForGood

-----------------------------------------------------------------------------
(***************************************************************************)
(* Channels and their providers.                                           *)
(***************************************************************************)
Entry(channel) == [provider : {p \in Providers : p.channel = channel}, at : 1..registrations]

(* An in-app message is stored while its send is still under way.          *)
UnderWayIsStored ==
  \A sender \in Senders :
    /\ sending[sender] # ChNone /\ sending[sender].provider.channel = "in_app"
    => sending[sender].send \in stored \cup cleared

RegistryInv == ChannelsTypeOK /\ PrimaryIsEarliest /\ UnderWayIsStored

-----------------------------------------------------------------------------
(***************************************************************************)
(* The registry's sequences.                                               *)
(***************************************************************************)

(* FirstOf is the least of a set of positions.                             *)
LEMMA FirstOfSpec ==
  ASSUME NEW indices \in SUBSET Nat, indices # {}
  PROVE  FirstOf(indices) \in indices /\ \A j \in indices : FirstOf(indices) <= j
<1>1. \E i \in indices : \A j \in indices : i <= j
  BY LeastNat
<1>. QED  BY <1>1 DEF FirstOf

(* Unregistering drops the first entry of the name, if there is one.       *)
LEMMA UnregisteredSpec ==
  ASSUME ChannelsTypeOK, NEW channel \in ChannelNames, NEW name, Named(channel, name) # {}
  PROVE  LET first == FirstOf(Named(channel, name))
             rest == WithoutProvider(channel, Named(channel, name))
         IN  /\ first \in 1..Len(registered[channel])
             /\ registered[channel][first].provider.name = name
             /\ \A i \in 1..Len(registered[channel]) :
                  registered[channel][i].provider.name = name => first <= i
             /\ rest \in Seq(Entry(channel)) /\ Len(rest) = Len(registered[channel]) - 1
             /\ \A j \in 1..(Len(registered[channel]) - 1) :
                  rest[j] = IF j < first THEN registered[channel][j] ELSE registered[channel][j + 1]
<1>. DEFINE first == FirstOf(Named(channel, name))
<1>1. registered[channel] \in Seq(Entry(channel))
  BY DEF ChannelsTypeOK, Entry
<1>2. Len(registered[channel]) \in Nat /\ DOMAIN registered[channel] = 1..Len(registered[channel])
  BY <1>1
<1>3. Named(channel, name) \in SUBSET Nat
  BY <1>2 DEF Named
<1>4. first \in Named(channel, name) /\ \A j \in Named(channel, name) : first <= j
  BY <1>3, FirstOfSpec
<1>5. first \in 1..Len(registered[channel])
  BY <1>2, <1>4 DEF Named
<1>. QED
  BY <1>1, <1>2, <1>4, <1>5, RemoveAtSpec DEF Named, WithoutProvider

-----------------------------------------------------------------------------
(* An empty registry satisfies its invariant.                              *)
LEMMA RegistryInit == ChannelsInit => RegistryInv
<1>. SUFFICES ASSUME ChannelsInit PROVE RegistryInv
  OBVIOUS
<1>1. \A channel \in ChannelNames : registered[channel] = <<>> /\ DOMAIN registered[channel] = {}
  BY DEF ChannelsInit
<1>2. ChannelsTypeOK
  BY ChannelsAssumption, <1>1 DEF ChannelsInit, ChannelsTypeOK, SendState
<1>. QED
  BY <1>1, <1>2 DEF ChannelsInit, RegistryInv, PrimaryIsEarliest, UnderWayIsStored

(* Registering appends with the highest number so far.                     *)
LEMMA RegisterStep ==
  ASSUME RegistryInv, NEW provider \in Providers, Register(provider)
  PROVE  RegistryInv'
<1>. DEFINE channel == provider.channel
            entry == [provider |-> provider, at |-> registrations + 1]
<1>1. channel \in ChannelNames /\ registrations \in Nat /\ MaxRegistrations \in Nat
  BY ChannelsAssumption DEF RegistryInv, ChannelsTypeOK
<1>2. /\ registrations' = registrations + 1
      /\ registered' = [registered EXCEPT ![channel] = Append(registered[channel], entry)]
      /\ UNCHANGED <<stored, cleared, sending, sends>>
  BY DEF Register, WithProvider
<1>3. \A other \in ChannelNames : registered[other] \in Seq(Entry(other)')
  <2>. SUFFICES ASSUME NEW other \in ChannelNames PROVE registered[other] \in Seq(Entry(other)')
    OBVIOUS
  <2>1. registered[other] \in Seq(Entry(other))
    BY DEF RegistryInv, ChannelsTypeOK, Entry
  <2>2. Entry(other) \subseteq Entry(other)'
    BY <1>1, <1>2 DEF Entry
  <2>. QED  BY <2>1, <2>2
<1>4. entry \in Entry(channel)'
  BY <1>1, <1>2 DEF Entry
<1>5. /\ Append(registered[channel], entry) \in Seq(Entry(channel)')
      /\ Len(Append(registered[channel], entry)) = Len(registered[channel]) + 1
      /\ \A i \in 1..Len(registered[channel]) :
           Append(registered[channel], entry)[i] = registered[channel][i]
      /\ Append(registered[channel], entry)[Len(registered[channel]) + 1] = entry
  BY <1>1, <1>3, <1>4, AppendProperties
<1>6. ChannelsTypeOK'
  <2>1. \A other \in ChannelNames : registered'[other] \in Seq(Entry(other)')
    BY <1>1, <1>2, <1>3, <1>5 DEF RegistryInv, ChannelsTypeOK
  <2>2. DOMAIN registered' = ChannelNames /\ registrations' \in 0..MaxRegistrations
    BY <1>1, <1>2 DEF Register, RegistryInv, ChannelsTypeOK
  <2>3. \A other \in ChannelNames :
          registered'[other] \in Seq([provider : {p \in Providers : p.channel = other},
                                     at : 1..registrations'])
    BY <2>1 DEF Entry
  <2>. QED  BY <1>2, <2>2, <2>3 DEF RegistryInv, ChannelsTypeOK
<1>7. PrimaryIsEarliest'
  <2>. SUFFICES ASSUME NEW other \in ChannelNames,
                       NEW i \in DOMAIN registered'[other], NEW j \in DOMAIN registered'[other], i < j
                PROVE  registered'[other][i].at < registered'[other][j].at
    BY DEF PrimaryIsEarliest
  <2>1. CASE other # channel
    BY <1>1, <1>2, <2>1 DEF RegistryInv, ChannelsTypeOK, PrimaryIsEarliest
  <2>2. CASE other = channel
    <3>1. registered'[other] = Append(registered[channel], entry)
      BY <1>1, <1>2, <2>2 DEF RegistryInv, ChannelsTypeOK
    <3>2. /\ Len(registered[channel]) \in Nat
          /\ DOMAIN registered[channel] = 1..Len(registered[channel])
          /\ DOMAIN registered'[other] = 1..(Len(registered[channel]) + 1)
          /\ \A k \in 1..Len(registered[channel]) : registered[channel][k] \in Entry(channel)
      <4>1. registered[channel] \in Seq(Entry(channel))
        BY <1>1 DEF RegistryInv, ChannelsTypeOK, Entry
      <4>2. registered'[other] \in Seq(Entry(channel)')
        BY <1>5, <3>1
      <4>3. Len(registered'[other]) = Len(registered[channel]) + 1
        BY <1>5, <3>1
      <4>. QED  BY <4>1, <4>2, <4>3
    <3>3. registered'[other][i] = registered[channel][i] /\ i \in 1..Len(registered[channel])
      BY <1>5, <3>1, <3>2
    <3>4. registered[channel][i].at < registrations + 1 /\ registered[channel][i].at \in Nat
      BY <1>1, <3>2, <3>3 DEF Entry
    <3>5. CASE j = Len(registered[channel]) + 1
      BY <1>5, <3>1, <3>3, <3>4, <3>5
    <3>6. CASE j # Len(registered[channel]) + 1
      <4>1. j \in 1..Len(registered[channel]) /\ registered'[other][j] = registered[channel][j]
        BY <1>5, <3>1, <3>2, <3>6
      <4>. QED
        BY <1>1, <3>2, <3>3, <4>1 DEF RegistryInv, PrimaryIsEarliest
    <3>. QED  BY <3>5, <3>6
  <2>. QED  BY <2>1, <2>2
<1>8. UnderWayIsStored'
  BY <1>2 DEF RegistryInv, UnderWayIsStored
<1>. QED  BY <1>6, <1>7, <1>8 DEF RegistryInv

(* Unregistering keeps the order of those that stay.                       *)
LEMMA UnregisterStep ==
  ASSUME RegistryInv, NEW channel \in ChannelNames, NEW name, Unregister(channel, name)
  PROVE  RegistryInv'
<1>. DEFINE first == FirstOf(Named(channel, name))
            old == registered[channel]
            rest == WithoutProvider(channel, Named(channel, name))
<1>1. /\ registered' = [registered EXCEPT ![channel] = rest] /\ Named(channel, name) # {}
      /\ UNCHANGED <<registrations, stored, cleared, sending, sends>>
  BY DEF Unregister
<1>2. /\ first \in 1..Len(old) /\ rest \in Seq(Entry(channel)) /\ Len(rest) = Len(old) - 1
      /\ \A j \in 1..(Len(old) - 1) : rest[j] = IF j < first THEN old[j] ELSE old[j + 1]
  BY <1>1, UnregisteredSpec DEF RegistryInv
<1>3. ChannelsTypeOK'
  BY <1>1, <1>2, ZenonT(30) DEF RegistryInv, ChannelsTypeOK, Entry
<1>4. PrimaryIsEarliest'
  <2>. SUFFICES ASSUME NEW other \in ChannelNames,
                       NEW i \in DOMAIN registered'[other], NEW j \in DOMAIN registered'[other], i < j
                PROVE  registered'[other][i].at < registered'[other][j].at
    BY DEF PrimaryIsEarliest
  <2>1. CASE other # channel
    BY <1>1, <2>1 DEF RegistryInv, ChannelsTypeOK, PrimaryIsEarliest
  <2>2. CASE other = channel
    <3>1. /\ registered'[other] = rest /\ DOMAIN rest = 1..Len(rest)
          /\ old \in Seq(Entry(channel)) /\ DOMAIN old = 1..Len(old) /\ Len(old) \in Nat
      BY <1>1, <1>2, <2>2 DEF RegistryInv, ChannelsTypeOK, Entry
    <3>2. PICK k \in DOMAIN old, l \in DOMAIN old : k < l /\ rest[i] = old[k] /\ rest[j] = old[l]
      <4>. DEFINE k == IF i < first THEN i ELSE i + 1
                  l == IF j < first THEN j ELSE j + 1
      <4>1. k \in 1..Len(old) /\ l \in 1..Len(old) /\ k < l
        BY <1>2, <3>1, SMTT(30)
      <4>2. rest[i] = old[k] /\ rest[j] = old[l]
        BY <1>2, <3>1
      <4>. QED  BY <3>1, <4>1, <4>2
    <3>. QED
      BY <3>1, <3>2, <2>2 DEF RegistryInv, PrimaryIsEarliest
  <2>. QED  BY <2>1, <2>2
<1>5. UnderWayIsStored'
  BY <1>1 DEF RegistryInv, UnderWayIsStored
<1>. QED  BY <1>3, <1>4, <1>5 DEF RegistryInv

-----------------------------------------------------------------------------
(***************************************************************************)
(* Sends.                                                                  *)
(***************************************************************************)
(* The provider a send asks is one of the channel.                         *)
LEMMA SendStep ==
  ASSUME RegistryInv, NEW sender \in Senders, NEW channel \in ChannelNames, NEW name,
         Send(sender, channel, name)
  PROVE  RegistryInv'
<1>. DEFINE first == FirstOf(Candidates(channel, name))
            provider == registered[channel][first].provider
            send == [step |-> "sending", provider |-> provider, send |-> sends + 1]
<1>1. /\ sends' = sends + 1 /\ sends < MaxSends
      /\ sending' = [sending EXCEPT ![sender] = send]
      /\ stored' = IF channel = "in_app" THEN stored \cup {sends + 1} ELSE stored
      /\ UNCHANGED <<registered, registrations, cleared>>
  BY DEF Send, StoredWith
<1>2. sends \in Nat /\ sends + 1 \in 1..MaxSends
  BY <1>1, ChannelsAssumption DEF RegistryInv, ChannelsTypeOK
<1>3. provider \in Providers /\ provider.channel = channel
  <2>1. registered[channel] \in Seq(Entry(channel))
    BY DEF RegistryInv, ChannelsTypeOK, Entry
  <2>2. Candidates(channel, name) \in SUBSET DOMAIN registered[channel]
    BY DEF Candidates, Named
  <2>3. DOMAIN registered[channel] \in SUBSET Nat /\ Candidates(channel, name) # {}
    BY <2>1 DEF Send
  <2>4. first \in DOMAIN registered[channel]
    BY <2>2, <2>3, FirstOfSpec
  <2>5. registered[channel][first] \in Entry(channel)
    BY <2>1, <2>4
  <2>. QED  BY <2>5 DEF Entry
<1>4. send \in SendState
  BY <1>2, <1>3 DEF SendState
<1>5. ChannelsTypeOK'
  <2>1. sending' \in [Senders -> SendState]
    BY <1>1, <1>4 DEF RegistryInv, ChannelsTypeOK
  <2>2. stored' \subseteq 1..sends' /\ cleared' \subseteq 1..sends' /\ sends' \in 0..MaxSends
    BY <1>1, <1>2 DEF RegistryInv, ChannelsTypeOK
  <2>. QED  BY <1>1, <2>1, <2>2 DEF RegistryInv, ChannelsTypeOK
<1>6. PrimaryIsEarliest'
  BY <1>1 DEF RegistryInv, PrimaryIsEarliest
<1>7. UnderWayIsStored'
  <2>. SUFFICES ASSUME NEW other \in Senders, sending'[other] # ChNone,
                       sending'[other].provider.channel = "in_app"
                PROVE  sending'[other].send \in stored' \cup cleared'
    BY DEF UnderWayIsStored
  <2>1. CASE other = sender
    BY <1>1, <1>3, <2>1 DEF RegistryInv, ChannelsTypeOK
  <2>2. CASE other # sender
    BY <1>1, <2>2 DEF RegistryInv, ChannelsTypeOK, UnderWayIsStored
  <2>. QED  BY <2>1, <2>2
<1>. QED  BY <1>5, <1>6, <1>7 DEF RegistryInv

(* A provider answers a send.                                              *)
LEMMA FinishSendStep ==
  ASSUME RegistryInv, NEW sender \in Senders, NEW success \in BOOLEAN, FinishSend(sender, success)
  PROVE  RegistryInv'
<1>. DEFINE answer == AnswerOf(sending[sender], success)
<1>1. /\ sending[sender] # ChNone /\ sending[sender].step = "sending"
      /\ sending' = [sending EXCEPT ![sender] = answer]
      /\ UNCHANGED <<registered, registrations, stored, cleared, sends>>
  BY DEF FinishSend, RegistryInv, ChannelsTypeOK
<1>2. sending[sender].provider \in Providers /\ sending[sender].send \in 1..MaxSends
  BY <1>1 DEF RegistryInv, ChannelsTypeOK, SendState
<1>3. /\ answer \in SendState /\ answer.provider = sending[sender].provider
      /\ answer.send = sending[sender].send
  BY <1>2 DEF AnswerOf, SendState
<1>4. ChannelsTypeOK'
  BY <1>1, <1>3 DEF RegistryInv, ChannelsTypeOK
<1>5. PrimaryIsEarliest'
  BY <1>1 DEF RegistryInv, PrimaryIsEarliest
<1>6. UnderWayIsStored'
  BY <1>1, <1>3 DEF RegistryInv, ChannelsTypeOK, UnderWayIsStored
<1>. QED  BY <1>4, <1>5, <1>6 DEF RegistryInv

(* Every step of the registry and of the senders preserves the invariant.  *)
LEMMA RegistryStep == RegistryInv /\ [ChannelsNext]_channelsVars => RegistryInv'
<1>. SUFFICES ASSUME RegistryInv, [ChannelsNext]_channelsVars PROVE RegistryInv'
  OBVIOUS
<1>1. ASSUME NEW provider \in Providers, Register(provider) \/ Unregister(provider.channel, provider.name)
      PROVE  RegistryInv'
  BY <1>1, RegisterStep, UnregisterStep, ChannelsAssumption
<1>2. CASE ClearStoredMessages
  BY <1>2 DEF ClearStoredMessages, RegistryInv, ChannelsTypeOK, PrimaryIsEarliest, UnderWayIsStored
<1>3. CASE UNCHANGED channelsVars
  BY <1>3 DEF channelsVars, RegistryInv, ChannelsTypeOK, PrimaryIsEarliest, UnderWayIsStored
<1>. QED
  BY <1>1, <1>2, <1>3, SendStep, FinishSendStep DEF ChannelsNext

(* The invariant of the registry holds in every reachable state.           *)
LEMMA RegistryAlways == ChannelsSpec => []RegistryInv
  BY RegistryInit, RegistryStep, PTL DEF ChannelsSpec

-----------------------------------------------------------------------------
(* The registry holds entries of the right channel, numbered as they came. *)
THEOREM ChannelsTypeCorrect == ChannelsSpec => []ChannelsTypeOK
<1>1. RegistryInv => ChannelsTypeOK
  BY DEF RegistryInv
<1>. QED  BY <1>1, RegistryAlways, PTL

(* getPrimaryProvider answers the one registered earliest of those still   *)
(* registered, after any sequence of register and unregister.              *)
THEOREM PrimaryEarliest == ChannelsSpec => []PrimaryIsEarliest
<1>1. RegistryInv => PrimaryIsEarliest
  BY DEF RegistryInv
<1>. QED  BY <1>1, RegistryAlways, PTL

(* An in-app send that answered has stored its message, unless the store   *)
(* was cleared, whatever happens to its provider meanwhile.                *)
THEOREM AnswersAreStored == ChannelsSpec => []AnsweredIsStored
<1>1. RegistryInv => AnsweredIsStored
  BY DEF RegistryInv, UnderWayIsStored, AnsweredIsStored
<1>. QED  BY <1>1, RegistryAlways, PTL

(* Types, order and the in-app store together, as the run checks them.     *)
THEOREM ChannelsStayConsistent == ChannelsSpec => []ChannelsConsistent
<1>. QED  BY ChannelsTypeCorrect, PrimaryEarliest, AnswersAreStored, PTL DEF ChannelsConsistent

-----------------------------------------------------------------------------
(* Unregistering a name removes its first entry, so the later of two stays.*)
LEMMA UnregisterKeepsNamesake ==
  ASSUME RegistryInv, NEW gone \in ChannelNames, NEW name, Unregister(gone, name),
         NEW channel \in ChannelNames,
         NEW i \in DOMAIN registered[channel], NEW j \in DOMAIN registered[channel], i < j,
         registered[channel][i].provider.name = registered[channel][j].provider.name
  PROVE  \E k \in DOMAIN registered'[channel] : registered'[channel][k] = registered[channel][j]
<1>. DEFINE first == FirstOf(Named(channel, name))
            old == registered[channel]
            rest == WithoutProvider(channel, Named(channel, name))
<1>1. registered' = [registered EXCEPT ![gone] = WithoutProvider(gone, Named(gone, name))]
      /\ Named(gone, name) # {}
  BY DEF Unregister
<1>2. CASE channel # gone
  BY <1>1, <1>2 DEF RegistryInv, ChannelsTypeOK
<1>3. CASE channel = gone
  <2>1. /\ registered'[channel] = rest /\ first \in 1..Len(old) /\ old[first].provider.name = name
        /\ \A k \in 1..Len(old) : old[k].provider.name = name => first <= k
        /\ rest \in Seq(Entry(channel)) /\ Len(rest) = Len(old) - 1
        /\ \A k \in 1..(Len(old) - 1) : rest[k] = IF k < first THEN old[k] ELSE old[k + 1]
    <3>1. ChannelsTypeOK /\ Named(channel, name) # {}
      BY <1>1, <1>3 DEF RegistryInv
    <3>2. registered'[channel] = rest
      BY <1>1, <1>3, <3>1 DEF ChannelsTypeOK
    <3>3. /\ first \in 1..Len(old) /\ old[first].provider.name = name
          /\ \A k \in 1..Len(old) : old[k].provider.name = name => first <= k
      BY <3>1, UnregisteredSpec
    <3>4. /\ rest \in Seq(Entry(channel)) /\ Len(rest) = Len(old) - 1
          /\ \A k \in 1..(Len(old) - 1) : rest[k] = IF k < first THEN old[k] ELSE old[k + 1]
      BY <3>1, UnregisteredSpec
    <3>. QED  BY <3>2, <3>3, <3>4
  <2>2. /\ old \in Seq(Entry(channel)) /\ Len(old) \in Nat /\ DOMAIN old = 1..Len(old)
        /\ DOMAIN rest = 1..(Len(old) - 1)
    BY <2>1 DEF RegistryInv, ChannelsTypeOK, Entry
  <2>3. j # first
    BY <2>1, <2>2
  <2>4. CASE j < first
    BY <2>1, <2>2, <2>4, SMTT(30)
  <2>5. CASE j > first
    <3>1. j - 1 \in 1..(Len(old) - 1) /\ ~(j - 1 < first) /\ (j - 1) + 1 = j
      BY <2>1, <2>2, <2>5
    <3>2. rest[j - 1] = old[(j - 1) + 1]
      BY <2>1, <3>1
    <3>3. rest[j - 1] = old[j]
      BY <3>1, <3>2, Zenon
    <3>. QED  BY <2>1, <2>2, <3>1, <3>3
  <2>. QED
    BY <2>1, <2>2, <2>3, <2>4, <2>5
<1>. QED  BY <1>2, <1>3

(* register puts a provider in and throws none out of a channel.           *)
LEMMA RegisterKeepsEntries ==
  ASSUME RegistryInv, NEW provider \in Providers, Register(provider),
         NEW channel \in ChannelNames, NEW j \in DOMAIN registered[channel]
  PROVE  \E k \in DOMAIN registered'[channel] : registered'[channel][k] = registered[channel][j]
<1>. DEFINE old == registered[channel]
<1>1. \/ registered'[channel] = old
      \/ \E entry : registered'[channel] = Append(old, entry)
  BY DEF Register, WithProvider, RegistryInv, ChannelsTypeOK
<1>2. old \in Seq(Entry(channel)) /\ DOMAIN old = 1..Len(old) /\ Len(old) \in Nat
  BY DEF RegistryInv, ChannelsTypeOK, Entry
<1>3. ASSUME NEW entry, registered'[channel] = Append(old, entry)
      PROVE  j \in DOMAIN registered'[channel] /\ registered'[channel][j] = old[j]
  <2>1. old \in Seq(Entry(channel) \cup {entry})
    BY <1>2
  <2>2. /\ Append(old, entry) \in Seq(Entry(channel) \cup {entry})
        /\ Len(Append(old, entry)) = Len(old) + 1
        /\ \A k \in 1..Len(old) : Append(old, entry)[k] = old[k]
    BY <2>1, AppendProperties
  <2>3. DOMAIN Append(old, entry) = 1..(Len(old) + 1)
    BY <2>2
  <2>. QED  BY <1>2, <1>3, <2>2, <2>3
<1>. QED  BY <1>1, <1>3

(* Unregistering a name takes its earliest provider only: a namesake that  *)
(* registered later is still found by that name.                           *)
THEOREM NamesakesStay == ChannelsSpec => NamesakeStays
<1>. DEFINE Kept == \A channel \in ChannelNames : \A i, j \in DOMAIN registered[channel] :
       /\ i < j /\ registered[channel][i].provider.name = registered[channel][j].provider.name
       => \E k \in DOMAIN registered'[channel] : registered'[channel][k] = registered[channel][j]
<1>1. RegistryInv /\ [ChannelsNext]_channelsVars => Kept
  <2>. SUFFICES ASSUME RegistryInv, [ChannelsNext]_channelsVars, NEW channel \in ChannelNames,
                       NEW i \in DOMAIN registered[channel], NEW j \in DOMAIN registered[channel], i < j,
                       registered[channel][i].provider.name = registered[channel][j].provider.name
                PROVE  \E k \in DOMAIN registered'[channel] : registered'[channel][k] = registered[channel][j]
    OBVIOUS
  <2>1. CASE UNCHANGED registered
    BY <2>1
  <2>2. ASSUME NEW provider \in Providers, Register(provider)
        PROVE  \E k \in DOMAIN registered'[channel] : registered'[channel][k] = registered[channel][j]
    BY <2>2, RegisterKeepsEntries
  <2>3. ASSUME NEW provider \in Providers, Unregister(provider.channel, provider.name)
        PROVE  \E k \in DOMAIN registered'[channel] : registered'[channel][k] = registered[channel][j]
    BY <2>3, UnregisterKeepsNamesake, ChannelsAssumption
  <2>. QED
    BY <2>1, <2>2, <2>3
       DEF ChannelsNext, Send, FinishSend, ClearStoredMessages, channelsVars
<1>. QED  BY <1>1, RegistryAlways, PTL DEF ChannelsSpec, NamesakeStays

-----------------------------------------------------------------------------
(***************************************************************************)
(* Alerts and the engine behind them.                                      *)
(***************************************************************************)
(* The engine, strategy by strategy: what it holds, and how.               *)
Engine == [conditions : [Registered -> [Alerts -> Configs \cup {None}]],
           index : [Registered -> [Symbols -> [Alerts -> Nat]]],
           count : [Registered -> Nat]]

HeldIn(e, type) == {id \in Alerts : e.conditions[type][id] # None}

SameEntry(e, f, type, id) ==
  /\ f.conditions[type][id] = e.conditions[type][id]
  /\ \A symbol \in Symbols : f.index[type][symbol][id] = e.index[type][symbol][id]

(* A strategy's surplus: what its count says beyond what it holds.         *)
Surplus(e, type) == e.count[type] - Cardinality(HeldIn(e, type))

OneEntryIn(e, type, id) ==
  \A symbol \in Symbols : e.index[type][symbol][id] =
    IF e.conditions[type][id] # None /\ e.conditions[type][id].symbol = symbol THEN 1 ELSE 0

OthersSame(e, f, id) == \A type \in Registered, other \in Alerts \ {id} : SameEntry(e, f, type, other)

-----------------------------------------------------------------------------
Call(slot, id) == pending[slot] # None /\ pending[slot].id = id

(* A handler adds or updates with the document it wrote.                   *)
CallsCarryDocs ==
  \A slot \in Slots : pending[slot] # None /\ pending[slot].op # "remove" => pending[slot].doc \in AlertDoc

(* Until the bulk load both engines are empty and no handler runs.         *)
Unloaded ==
  /\ engine = EmptyEngine /\ mock = NothingFound /\ readds = [type \in Registered |-> 0]
  /\ pending = [slot \in Slots |-> None]

Phases ==
  /\ bridge = "mock" => ready
  /\ phase = "load" => ready
  /\ phase \in {"wait", "load"} => Unloaded

(* What find answered is still so, except where another process wrote.     *)
FindStands == phase = "load" => \A id \in Alerts \ raced : found[id] = FoundActive[id]

(* Only one handler at a time for an alert that no requests overlap on.    *)
OneCall ==
  \A id \in Alerts \ raced, one, other \in Slots : Call(one, id) /\ Call(other, id) => one = other

Running(id) == alerts[id] \in AlertDoc /\ alerts[id].active

Expected(type, id) ==
  IF Running(id) /\ alerts[id].config.type = type /\ alerts[id].config.valid THEN alerts[id].config ELSE None

NativeFits(id) ==
  \A type \in Registered :
    /\ OneEntryIn(engine, type, id)
    /\ (\A slot \in Slots : ~Call(slot, id)) => engine.conditions[type][id] = Expected(type, id)
    /\ \A slot \in Slots : Call(slot, id) =>
         LET call == pending[slot] IN
         /\ call.op = "remove" => ~Running(id)
         /\ call.op # "remove" => Running(id) /\ call.doc = alerts[id]
         /\ call.op = "add" => engine.conditions[type][id] = None
         /\ call.op = "update" /\ call.doc.config.type # type => engine.conditions[type][id] = None

MockFits(id) ==
  /\ (\A slot \in Slots : ~Call(slot, id)) => (Running(id) => mock[id] = alerts[id])
  /\ \A slot \in Slots : Call(slot, id) =>
       /\ pending[slot].op = "remove" => ~Running(id)
       /\ pending[slot].op = "update" /\ Running(id) => mock[id] # None

(* These two hold of strayed alerts as well.                               *)
GoneIsGone(id) ==
  alerts[id] = Gone =>
    /\ \A slot \in Slots : Call(slot, id) => pending[slot].op = "remove"
    /\ (\A slot \in Slots : ~Call(slot, id)) => \A type \in Registered : engine.conditions[type][id] = None

PausedIsQuiet(id) ==
  /\ (\A slot \in Slots : ~Call(slot, id)) /\ ~Running(id) => mock[id] = None \/ ~mock[id].active
  /\ \A slot \in Slots : Call(slot, id) /\ pending[slot].op # "remove" => pending[slot].doc = alerts[id]

Serving == phase = "serve" /\ ready

Fits ==
  Serving =>
    /\ bridge = "native" => /\ \A id \in Alerts \ raced : GoneIsGone(id)
                            /\ \A id \in Alerts \ (raced \cup strayed) : NativeFits(id)
    /\ bridge = "mock" => /\ \A id \in Alerts \ raced : PausedIsQuiet(id)
                          /\ \A id \in Alerts \ (raced \cup strayed) : MockFits(id)

Stores == EngineConsistent /\ CallsCarryDocs /\ Phases

AlertsInv == Stores /\ FindStands /\ OneCall /\ Fits

-----------------------------------------------------------------------------
(* The fields of a condition.                                              *)
LEMMA ConfigFields ==
  ASSUME NEW config \in Configs
  PROVE  config.symbol \in Symbols /\ config.valid \in BOOLEAN /\ config # None
BY AlertsAssumption, NoneAssumption

(* The types of the three maps the strategies of the engine keep.          *)
LEMMA EngineFields ==
  ASSUME NEW e \in Engine
  PROVE  /\ e.conditions \in [Registered -> [Alerts -> Configs \cup {None}]]
         /\ e.index \in [Registered -> [Symbols -> [Alerts -> Nat]]]
         /\ e.count \in [Registered -> Nat]
         /\ \A type \in Registered : e.count[type] \in Nat
BY DEF Engine

(* Adding a valid condition stores it, adds one copy to the index and      *)
(* counts it.                                                              *)
LEMMA AddedToSpec ==
  ASSUME NEW e \in Engine, NEW id \in Alerts, NEW config \in Configs,
         config.type \in Registered, config.valid
  PROVE  LET f == AddedTo(e, id, config)
             on == config.type
         IN  /\ f \in Engine
             /\ f.conditions[on][id] = config
             /\ \A symbol \in Symbols : f.index[on][symbol][id] =
                  e.index[on][symbol][id] + (IF symbol = config.symbol THEN 1 ELSE 0)
             /\ \A type \in Registered, other \in Alerts :
                  type # on \/ other # id => SameEntry(e, f, type, other)
             /\ \A type \in Registered : f.count[type] = e.count[type] + (IF type = on THEN 1 ELSE 0)
<1>. DEFINE on == config.type
            f == AddedTo(e, id, config)
            conditions == [e.conditions EXCEPT ![on][id] = config]
            index == [e.index EXCEPT ![on][config.symbol][id] = @ + 1]
            count == [e.count EXCEPT ![on] = @ + 1]
<1>1. f = [conditions |-> conditions, index |-> index, count |-> count]
  BY DEF AddedTo, Engine
<1>2. f.conditions = conditions /\ f.index = index /\ f.count = count
  BY <1>1
<1>3. /\ conditions \in [Registered -> [Alerts -> Configs \cup {None}]]
      /\ conditions[on][id] = config
      /\ \A type \in Registered, other \in Alerts :
           type # on \/ other # id => conditions[type][other] = e.conditions[type][other]
  BY EngineFields
<1>4. /\ index \in [Registered -> [Symbols -> [Alerts -> Nat]]]
      /\ \A symbol \in Symbols : index[on][symbol][id] =
           e.index[on][symbol][id] + (IF symbol = config.symbol THEN 1 ELSE 0)
      /\ \A type \in Registered, symbol \in Symbols, other \in Alerts :
           type # on \/ other # id => index[type][symbol][other] = e.index[type][symbol][other]
  <2>1. e.index \in [Registered -> [Symbols -> [Alerts -> Nat]]] /\ config.symbol \in Symbols
    BY EngineFields, ConfigFields
  <2>2. index \in [Registered -> [Symbols -> [Alerts -> Nat]]]
    BY <2>1
  <2>3. \A symbol \in Symbols : index[on][symbol][id] =
           e.index[on][symbol][id] + (IF symbol = config.symbol THEN 1 ELSE 0)
    BY <2>1
  <2>4. \A type \in Registered, symbol \in Symbols, other \in Alerts :
           type # on \/ other # id => index[type][symbol][other] = e.index[type][symbol][other]
    BY <2>1
  <2>. QED  BY <2>2, <2>3, <2>4
<1>5. /\ count \in [Registered -> Nat]
      /\ \A type \in Registered : count[type] = e.count[type] + (IF type = on THEN 1 ELSE 0)
  BY EngineFields
<1>. HIDE DEF conditions, index, count
<1>6. f \in Engine
  BY <1>1, <1>3, <1>4, <1>5 DEF Engine
<1>. HIDE DEF f
<1>7. \A type \in Registered, other \in Alerts :
        type # on \/ other # id => SameEntry(e, f, type, other)
  BY <1>2, <1>3, <1>4 DEF SameEntry
<1>. QED  BY <1>2, <1>3, <1>4, <1>5, <1>6, <1>7 DEF f

(* Removing a condition takes its map entry and every copy from its own    *)
(* symbol.                                                                 *)
LEMMA RemovedFromSpec ==
  ASSUME NEW e \in Engine, NEW id \in Alerts, NEW types \in SUBSET Registered,
         \A type \in types : e.conditions[type][id] # None => e.count[type] >= 1
  PROVE  LET f == RemovedFrom(e, id, types)
             held == {type \in types : e.conditions[type][id] # None}
         IN  /\ f \in Engine
             /\ \A type \in types : f.conditions[type][id] = None
             /\ \A type \in held, symbol \in Symbols : f.index[type][symbol][id] =
                  IF symbol = e.conditions[type][id].symbol THEN 0 ELSE e.index[type][symbol][id]
             /\ \A type \in Registered, other \in Alerts :
                  type \notin held \/ other # id => SameEntry(e, f, type, other)
             /\ \A type \in Registered : f.count[type] = e.count[type] - (IF type \in held THEN 1 ELSE 0)
<1>. DEFINE f == RemovedFrom(e, id, types)
            held == {type \in types : e.conditions[type][id] # None}
            conditions == [type \in Registered |->
              IF type \in held THEN [e.conditions[type] EXCEPT ![id] = None] ELSE e.conditions[type]]
            index == [type \in Registered |->
              IF type \in held THEN [e.index[type] EXCEPT ![e.conditions[type][id].symbol][id] = 0]
              ELSE e.index[type]]
            count == [type \in Registered |-> e.count[type] - (IF type \in held THEN 1 ELSE 0)]
<1>1. f = [conditions |-> conditions, index |-> index, count |-> count]
  BY DEF RemovedFrom
<1>. HIDE DEF conditions, index, count
<1>2. f.conditions = conditions /\ f.index = index /\ f.count = count
  BY <1>1
<1>. USE DEF conditions, index, count
<1>3. /\ conditions \in [Registered -> [Alerts -> Configs \cup {None}]]
      /\ \A type \in types : conditions[type][id] = None
      /\ \A type \in Registered, other \in Alerts :
           type \notin held \/ other # id => conditions[type][other] = e.conditions[type][other]
  <2>1. /\ e.conditions \in [Registered -> [Alerts -> Configs \cup {None}]]
        /\ \A type \in types : type \notin held => e.conditions[type][id] = None
    BY EngineFields
  <2>. HIDE DEF held
  <2>. QED  BY <2>1
<1>4. \A type \in held : type \in Registered /\ e.conditions[type][id].symbol \in Symbols
  BY EngineFields, ConfigFields
<1>. HIDE DEF held
<1>5. /\ index \in [Registered -> [Symbols -> [Alerts -> Nat]]]
      /\ \A type \in held, symbol \in Symbols : index[type][symbol][id] =
           IF symbol = e.conditions[type][id].symbol THEN 0 ELSE e.index[type][symbol][id]
      /\ \A type \in Registered, symbol \in Symbols, other \in Alerts :
           type \notin held \/ other # id => index[type][symbol][other] = e.index[type][symbol][other]
  <2>1. e.index \in [Registered -> [Symbols -> [Alerts -> Nat]]]
    BY EngineFields
  <2>2. index \in [Registered -> [Symbols -> [Alerts -> Nat]]]
    <3>1. ASSUME NEW row \in [Symbols -> [Alerts -> Nat]], NEW symbol
          PROVE  [row EXCEPT ![symbol][id] = 0] \in [Symbols -> [Alerts -> Nat]]
      OBVIOUS
    <3>2. \A type \in Registered : index[type] \in [Symbols -> [Alerts -> Nat]]
      BY <2>1, <3>1
    <3>. QED  BY <3>2
  <2>3. \A type \in held, symbol \in Symbols : index[type][symbol][id] =
           IF symbol = e.conditions[type][id].symbol THEN 0 ELSE e.index[type][symbol][id]
    <3>1. ASSUME NEW row \in [Symbols -> [Alerts -> Nat]], NEW on \in Symbols, NEW symbol \in Symbols
          PROVE  [row EXCEPT ![on][id] = 0][symbol][id] = IF symbol = on THEN 0 ELSE row[symbol][id]
      OBVIOUS
    <3>2. \A type \in held : /\ index[type] = [e.index[type] EXCEPT ![e.conditions[type][id].symbol][id] = 0]
                             /\ e.index[type] \in [Symbols -> [Alerts -> Nat]]
      BY <2>1, <1>4
    <3>. HIDE DEF index
    <3>3. ASSUME NEW type \in held, NEW symbol \in Symbols
          PROVE  index[type][symbol][id] =
                   IF symbol = e.conditions[type][id].symbol THEN 0 ELSE e.index[type][symbol][id]
      <4>. DEFINE row == e.index[type]
                  on == e.conditions[type][id].symbol
      <4>1. row \in [Symbols -> [Alerts -> Nat]] /\ on \in Symbols /\ index[type] = [row EXCEPT ![on][id] = 0]
        BY <1>4, <3>2
      <4>. HIDE DEF row, on
      <4>2. [row EXCEPT ![on][id] = 0][symbol][id] = IF symbol = on THEN 0 ELSE row[symbol][id]
        BY <3>1, <4>1
      <4>3. index[type][symbol][id] = IF symbol = on THEN 0 ELSE row[symbol][id]
        BY <4>1, <4>2
      <4>. QED  BY <4>3 DEF row, on
    <3>. QED  BY <3>3
  <2>4. \A type \in Registered, symbol \in Symbols, other \in Alerts :
           type \notin held \/ other # id => index[type][symbol][other] = e.index[type][symbol][other]
    BY <2>1, <1>4
  <2>. QED  BY <2>2, <2>3, <2>4
<1>6. /\ count \in [Registered -> Nat]
      /\ \A type \in Registered : count[type] = e.count[type] - (IF type \in held THEN 1 ELSE 0)
  <2>1. \A type \in held : e.count[type] >= 1
    BY DEF held
  <2>. QED  BY <2>1, EngineFields
<1>. HIDE DEF conditions, index, count
<1>7. f \in Engine
  BY <1>1, <1>3, <1>5, <1>6 DEF Engine
<1>. HIDE DEF f
<1>8. \A type \in Registered, other \in Alerts :
        type \notin held \/ other # id => SameEntry(e, f, type, other)
  BY <1>2, <1>3, <1>5 DEF SameEntry
<1>. QED  BY <1>2, <1>3, <1>5, <1>6, <1>7, <1>8 DEF f, held

(* The counts stay right as conditions come and go.                        *)
LEMMA HeldGrows ==
  ASSUME NEW e \in Engine, NEW f \in Engine, NEW type \in Registered, NEW id \in Alerts,
         \A other \in Alerts \ {id} : f.conditions[type][other] = e.conditions[type][other]
  PROVE  /\ Cardinality(HeldIn(e, type)) \in Nat
         /\ f.conditions[type][id] # None /\ e.conditions[type][id] = None =>
              Cardinality(HeldIn(f, type)) = Cardinality(HeldIn(e, type)) + 1
         /\ f.conditions[type][id] = None /\ e.conditions[type][id] # None =>
              Cardinality(HeldIn(f, type)) = Cardinality(HeldIn(e, type)) - 1
         /\ (f.conditions[type][id] = None <=> e.conditions[type][id] = None) =>
              HeldIn(f, type) = HeldIn(e, type)
         /\ e.conditions[type][id] # None => Cardinality(HeldIn(e, type)) >= 1
<1>1. IsFiniteSet(HeldIn(e, type)) /\ IsFiniteSet(HeldIn(f, type))
  BY AlertsAssumption, FS_Subset DEF HeldIn
<1>2. Cardinality(HeldIn(e, type)) \in Nat /\ Cardinality(HeldIn(f, type)) \in Nat
  BY <1>1, FS_CardinalityType
<1>3. (f.conditions[type][id] = None <=> e.conditions[type][id] = None) => HeldIn(f, type) = HeldIn(e, type)
  BY DEF HeldIn
<1>4. ASSUME f.conditions[type][id] # None, e.conditions[type][id] = None
      PROVE  Cardinality(HeldIn(f, type)) = Cardinality(HeldIn(e, type)) + 1
  <2>1. HeldIn(f, type) = HeldIn(e, type) \cup {id} /\ id \notin HeldIn(e, type)
    BY <1>4 DEF HeldIn
  <2>. QED  BY <1>1, <2>1, FS_AddElement
<1>5. ASSUME e.conditions[type][id] # None
      PROVE  id \in HeldIn(e, type) /\ Cardinality(HeldIn(e, type)) >= 1
  <2>1. id \in HeldIn(e, type)
    BY <1>5 DEF HeldIn
  <2>2. Cardinality(HeldIn(e, type)) # 0
    BY <1>1, <2>1, FS_EmptySet
  <2>. QED  BY <1>2, <2>1, <2>2
<1>6. ASSUME f.conditions[type][id] = None, e.conditions[type][id] # None
      PROVE  Cardinality(HeldIn(f, type)) = Cardinality(HeldIn(e, type)) - 1
  <2>1. HeldIn(f, type) = HeldIn(e, type) \ {id} /\ id \in HeldIn(e, type)
    BY <1>6 DEF HeldIn
  <2>. QED  BY <1>1, <2>1, FS_RemoveElement
<1>. QED  BY <1>2, <1>3, <1>4, <1>5, <1>6

(* An entry nothing has touched has the copies in the index that it had.   *)
LEMMA SameEntryKeeps ==
  ASSUME NEW e, NEW f, NEW type, NEW id, SameEntry(e, f, type, id)
  PROVE  OneEntryIn(e, type, id) => OneEntryIn(f, type, id)
BY DEF SameEntry, OneEntryIn

(* Adding what is held already raises the surplus.                         *)
LEMMA AddKeeps ==
  ASSUME NEW e \in Engine, NEW id \in Alerts, NEW config \in Configs
  PROVE  LET f == AddedTo(e, id, config)
         IN  /\ f \in Engine /\ OthersSame(e, f, id)
             /\ \A type \in Registered :
                  /\ type # config.type \/ ~config.valid => SameEntry(e, f, type, id)
                  /\ type = config.type /\ config.valid => f.conditions[type][id] = config
                  /\ e.conditions[type][id] = None /\ OneEntryIn(e, type, id) => OneEntryIn(f, type, id)
                  /\ Surplus(f, type) = Surplus(e, type) +
                       (IF type = config.type /\ config.valid /\ e.conditions[type][id] # None THEN 1 ELSE 0)
<1>. DEFINE f == AddedTo(e, id, config)
<1>1. CASE config.type \notin Registered \/ ~config.valid
  <2>1. f = e
    BY <1>1 DEF AddedTo
  <2>. HIDE DEF f
  <2>2. \A type \in Registered, other \in Alerts : SameEntry(e, f, type, other)
    BY <2>1 DEF SameEntry
  <2>3. \A type \in Registered : ~(type = config.type /\ config.valid)
    BY <1>1
  <2>4. \A type \in Registered : Cardinality(HeldIn(e, type)) \in Nat /\ e.count[type] \in Nat
    BY HeldGrows, EngineFields
  <2>5. \A type \in Registered : Surplus(f, type) = Surplus(e, type) + 0
    BY <2>1, <2>4 DEF Surplus
  <2>. QED  BY <2>1, <2>2, <2>3, <2>5, SameEntryKeeps DEF f, OthersSame
<1>2. CASE config.type \in Registered /\ config.valid
  <2>1. /\ f \in Engine
        /\ f.conditions[config.type][id] = config
        /\ \A symbol \in Symbols : f.index[config.type][symbol][id] =
             e.index[config.type][symbol][id] + (IF symbol = config.symbol THEN 1 ELSE 0)
        /\ \A type \in Registered, other \in Alerts :
             type # config.type \/ other # id => SameEntry(e, f, type, other)
        /\ \A type \in Registered :
             f.count[type] = e.count[type] + (IF type = config.type THEN 1 ELSE 0)
    BY <1>2, AddedToSpec
  <2>. HIDE DEF f
  <2>2. config # None
    BY ConfigFields
  <2>3. ASSUME NEW type \in Registered
        PROVE  /\ e.conditions[type][id] = None /\ OneEntryIn(e, type, id) => OneEntryIn(f, type, id)
               /\ Surplus(f, type) = Surplus(e, type) +
                    (IF type = config.type /\ config.valid /\ e.conditions[type][id] # None THEN 1 ELSE 0)
    <3>1. \A other \in Alerts \ {id} : f.conditions[type][other] = e.conditions[type][other]
      BY <2>1 DEF SameEntry
    <3>2. Cardinality(HeldIn(e, type)) \in Nat /\ e.count[type] \in Nat
      BY <3>1, HeldGrows, EngineFields
    <3>3. CASE type # config.type
      <4>1. SameEntry(e, f, type, id) /\ f.count[type] = e.count[type]
        BY <2>1, <3>2, <3>3
      <4>2. HeldIn(f, type) = HeldIn(e, type)
        BY <2>1, <3>1, <4>1, HeldGrows DEF SameEntry
      <4>. QED  BY <3>2, <3>3, <4>1, <4>2, SameEntryKeeps DEF Surplus
    <3>4. CASE type = config.type
      <4>1. f.conditions[type][id] # None /\ f.count[type] = e.count[type] + 1
        BY <2>1, <2>2, <3>4
      <4>2. CASE e.conditions[type][id] = None
        <5>1. Cardinality(HeldIn(f, type)) = Cardinality(HeldIn(e, type)) + 1
          BY <2>1, <3>1, <4>1, <4>2, HeldGrows
        <5>2. OneEntryIn(e, type, id) => OneEntryIn(f, type, id)
          BY <2>1, <2>2, <3>4, <4>2 DEF OneEntryIn
        <5>. QED  BY <3>2, <3>4, <4>1, <4>2, <5>1, <5>2 DEF Surplus
      <4>3. CASE e.conditions[type][id] # None
        <5>1. HeldIn(f, type) = HeldIn(e, type)
          BY <2>1, <3>1, <4>1, <4>3, HeldGrows
        <5>2. Surplus(f, type) = Surplus(e, type) + 1
          BY <3>2, <4>1, <5>1 DEF Surplus
        <5>. QED  BY <1>2, <3>4, <4>3, <5>2
      <4>. QED  BY <4>2, <4>3
    <3>. QED  BY <3>3, <3>4
  <2>4. \A type \in Registered : type # config.type \/ ~config.valid => SameEntry(e, f, type, id)
    BY <1>2, <2>1
  <2>. QED  BY <2>1, <2>3, <2>4 DEF f, OthersSame
<1>. QED  BY <1>1, <1>2, ConfigFields

(* Removing a condition keeps the engine consistent, and leaves the        *)
(* others alone.                                                           *)
LEMMA RemoveKeeps ==
  ASSUME NEW e \in Engine, NEW id \in Alerts, NEW types \in SUBSET Registered,
         \A type \in Registered : Surplus(e, type) \in Nat
  PROVE  LET f == RemovedFrom(e, id, types)
         IN  /\ f \in Engine /\ OthersSame(e, f, id)
             /\ \A type \in types : f.conditions[type][id] = None
             /\ \A type \in Registered :
                  /\ type \notin types => SameEntry(e, f, type, id)
                  /\ OneEntryIn(e, type, id) => OneEntryIn(f, type, id)
                  /\ Surplus(f, type) = Surplus(e, type)
<1>. DEFINE f == RemovedFrom(e, id, types)
            held == {type \in types : e.conditions[type][id] # None}
<1>1. \A type \in Registered : /\ Cardinality(HeldIn(e, type)) \in Nat /\ e.count[type] \in Nat
                               /\ e.conditions[type][id] # None => Cardinality(HeldIn(e, type)) >= 1
  BY HeldGrows, EngineFields
<1>2. \A type \in types : e.conditions[type][id] # None => e.count[type] >= 1
  <2>1. ASSUME NEW type \in types, e.conditions[type][id] # None PROVE e.count[type] >= 1
    <3>1. type \in Registered
      OBVIOUS
    <3>. QED  BY <1>1, <2>1, <3>1 DEF Surplus
  <2>. QED  BY <2>1
<1>3. /\ f \in Engine
      /\ \A type \in types : f.conditions[type][id] = None
      /\ \A type \in held, symbol \in Symbols : f.index[type][symbol][id] =
           IF symbol = e.conditions[type][id].symbol THEN 0 ELSE e.index[type][symbol][id]
      /\ \A type \in Registered, other \in Alerts :
           type \notin held \/ other # id => SameEntry(e, f, type, other)
      /\ \A type \in Registered : f.count[type] = e.count[type] - (IF type \in held THEN 1 ELSE 0)
  BY <1>2, RemovedFromSpec
<1>4. \A type \in held : type \in types /\ e.conditions[type][id] # None
  OBVIOUS
<1>. HIDE DEF f
<1>5. ASSUME NEW type \in Registered
      PROVE  /\ type \notin types => SameEntry(e, f, type, id)
             /\ OneEntryIn(e, type, id) => OneEntryIn(f, type, id)
             /\ Surplus(f, type) = Surplus(e, type)
  <2>. HIDE DEF held
  <2>1. \A other \in Alerts \ {id} : f.conditions[type][other] = e.conditions[type][other]
    BY <1>3 DEF SameEntry
  <2>2. CASE type \notin held
    <3>1. SameEntry(e, f, type, id) /\ f.count[type] = e.count[type]
      BY <1>1, <1>3, <2>2
    <3>2. HeldIn(f, type) = HeldIn(e, type)
      BY <1>3, <2>1, <3>1, HeldGrows DEF SameEntry
    <3>. QED  BY <3>1, <3>2, SameEntryKeeps DEF Surplus
  <2>3. CASE type \in held
    <3>1. type \in types /\ f.conditions[type][id] = None /\ e.conditions[type][id] # None
      BY <1>3, <1>4, <2>3
    <3>2. Cardinality(HeldIn(f, type)) = Cardinality(HeldIn(e, type)) - 1
      BY <1>3, <2>1, <3>1, HeldGrows
    <3>3. f.count[type] = e.count[type] - 1
      BY <1>3, <2>3
    <3>4. Surplus(f, type) = Surplus(e, type)
      BY <1>1, <3>2, <3>3 DEF Surplus
    <3>5. OneEntryIn(e, type, id) => OneEntryIn(f, type, id)
      BY <1>3, <2>3, <3>1 DEF OneEntryIn
    <3>. QED  BY <3>1, <3>4, <3>5
  <2>. QED  BY <2>2, <2>3
<1>6. OthersSame(e, f, id)
  BY <1>3 DEF OthersSame
<1>. QED  BY <1>3, <1>5, <1>6 DEF f

(* Updating a condition keeps the engine consistent, and leaves the        *)
(* others alone.                                                           *)
LEMMA UpdateKeeps ==
  ASSUME NEW e \in Engine, NEW id \in Alerts, NEW config \in Configs,
         \A type \in Registered : Surplus(e, type) \in Nat
  PROVE  LET f == UpdatedIn(e, id, config)
         IN  /\ f \in Engine /\ OthersSame(e, f, id)
             /\ \A type \in Registered :
                  /\ type # config.type => SameEntry(e, f, type, id)
                  /\ type = config.type =>
                       f.conditions[type][id] = IF config.valid THEN config ELSE None
                  /\ OneEntryIn(e, type, id) => OneEntryIn(f, type, id)
                  /\ Surplus(f, type) = Surplus(e, type)
<1>. DEFINE types == {config.type} \cap Registered
            g == RemovedFrom(e, id, types)
            f == AddedTo(g, id, config)
<1>1. /\ g \in Engine /\ OthersSame(e, g, id)
      /\ \A type \in types : g.conditions[type][id] = None
      /\ \A type \in Registered :
           /\ type \notin types => SameEntry(e, g, type, id)
           /\ OneEntryIn(e, type, id) => OneEntryIn(g, type, id)
           /\ Surplus(g, type) = Surplus(e, type)
  BY RemoveKeeps
<1>. HIDE DEF g
<1>2. /\ f \in Engine /\ OthersSame(g, f, id)
      /\ \A type \in Registered :
           /\ type # config.type \/ ~config.valid => SameEntry(g, f, type, id)
           /\ type = config.type /\ config.valid => f.conditions[type][id] = config
           /\ g.conditions[type][id] = None /\ OneEntryIn(g, type, id) => OneEntryIn(f, type, id)
           /\ Surplus(f, type) = Surplus(g, type) +
                (IF type = config.type /\ config.valid /\ g.conditions[type][id] # None THEN 1 ELSE 0)
  BY <1>1, AddKeeps
<1>. HIDE DEF f
<1>3. OthersSame(e, f, id)
  BY <1>1, <1>2 DEF OthersSame, SameEntry
<1>4. ASSUME NEW type \in Registered
      PROVE  /\ type # config.type => SameEntry(e, f, type, id)
             /\ type = config.type =>
                  f.conditions[type][id] = IF config.valid THEN config ELSE None
             /\ OneEntryIn(e, type, id) => OneEntryIn(f, type, id)
             /\ Surplus(f, type) = Surplus(e, type)
  <2>1. CASE type # config.type
    <3>1. SameEntry(e, f, type, id)
      BY <1>1, <1>2, <2>1 DEF SameEntry
    <3>. QED  BY <1>1, <1>2, <2>1, <3>1, SameEntryKeeps
  <2>2. CASE type = config.type
    <3>1. type \in types /\ g.conditions[type][id] = None
      BY <1>1, <2>2
    <3>2. f.conditions[type][id] = IF config.valid THEN config ELSE None
      BY <1>2, <2>2, <3>1 DEF SameEntry
    <3>. QED  BY <1>1, <1>2, <2>2, <3>1, <3>2
  <2>. QED  BY <2>1, <2>2
<1>5. f = UpdatedIn(e, id, config)
  BY DEF UpdatedIn, f, g
<1>. QED  BY <1>2, <1>3, <1>4, <1>5

(* A bulk load stores exactly the valid conditions it is given, each       *)
(* once.                                                                   *)
LEMMA LoadedAllSpec ==
  ASSUME NEW docs \in [Alerts -> AlertDoc \cup {None}]
  PROVE  LET f == LoadedAll(docs)
         IN  /\ f \in Engine
             /\ \A type \in Registered :
                  /\ Surplus(f, type) = 0
                  /\ \A id \in Alerts :
                       /\ OneEntryIn(f, type, id)
                       /\ f.conditions[type][id] =
                            IF docs[id] # None /\ docs[id].config.type = type /\ docs[id].config.valid
                            THEN docs[id].config ELSE None
<1>. DEFINE InType(type) == {id \in Alerts : docs[id] # None /\ docs[id].config.type = type
                                             /\ docs[id].config.valid}
            conditions == [type \in Registered |-> [id \in Alerts |->
                             IF id \in InType(type) THEN docs[id].config ELSE None]]
            index == [type \in Registered |-> [symbol \in Symbols |-> [id \in Alerts |->
                        IF id \in InType(type) /\ docs[id].config.symbol = symbol THEN 1 ELSE 0]]]
            count == [type \in Registered |-> Cardinality(InType(type))]
            f == LoadedAll(docs)
<1>1. f = [conditions |-> conditions, index |-> index, count |-> count]
  BY DEF LoadedAll
<1>2. f.conditions = conditions /\ f.index = index /\ f.count = count
  BY <1>1
<1>3. \A id \in Alerts : docs[id] # None => docs[id].config \in Configs /\ docs[id].config # None
  BY ConfigFields DEF AlertDoc
<1>4. \A type : /\ \A id \in Alerts : id \in InType(type) <=>
                     docs[id] # None /\ docs[id].config.type = type /\ docs[id].config.valid
                /\ InType(type) \subseteq Alerts /\ Cardinality(InType(type)) \in Nat
  <2>1. \A type : InType(type) \in SUBSET Alerts
    OBVIOUS
  <2>. QED  BY <2>1, AlertsAssumption, FS_Subset, FS_CardinalityType
<1>. HIDE DEF InType
<1>5. /\ \A type \in Registered, id \in Alerts :
           conditions[type][id] = IF id \in InType(type) THEN docs[id].config ELSE None
      /\ \A type \in Registered, symbol \in Symbols, id \in Alerts :
           index[type][symbol][id] = IF id \in InType(type) /\ docs[id].config.symbol = symbol THEN 1 ELSE 0
      /\ \A type \in Registered : count[type] = Cardinality(InType(type))
  OBVIOUS
<1>6. conditions \in [Registered -> [Alerts -> Configs \cup {None}]]
  BY <1>3, <1>4
<1>7. index \in [Registered -> [Symbols -> [Alerts -> Nat]]]
  OBVIOUS
<1>8. count \in [Registered -> Nat]
  BY <1>4
<1>. HIDE DEF conditions, index, count
<1>9. f \in Engine
  BY <1>1, <1>6, <1>7, <1>8 DEF Engine
<1>. HIDE DEF f
<1>10. ASSUME NEW type \in Registered
       PROVE  Surplus(f, type) = 0 /\ \A id \in Alerts : OneEntryIn(f, type, id)
  <2>1. HeldIn(f, type) = InType(type)
    BY <1>2, <1>3, <1>4, <1>5 DEF HeldIn
  <2>2. Surplus(f, type) = 0
    BY <1>2, <1>4, <1>5, <2>1 DEF Surplus
  <2>3. \A id \in Alerts : OneEntryIn(f, type, id)
    BY <1>2, <1>3, <1>4, <1>5 DEF OneEntryIn
  <2>. QED  BY <2>2, <2>3
<1>11. \A type \in Registered, id \in Alerts : f.conditions[type][id] =
         IF docs[id] # None /\ docs[id].config.type = type /\ docs[id].config.valid
         THEN docs[id].config ELSE None
  <2>1. \A type \in Registered, id \in Alerts :
          f.conditions[type][id] = IF id \in InType(type) THEN docs[id].config ELSE None
    BY <1>2, <1>5
  <2>. QED  BY <1>4, <2>1
<1>. QED  BY <1>9, <1>10, <1>11 DEF f

-----------------------------------------------------------------------------
(* The consistency of the engine, read as types and as its surplus.        *)
LEMMA EngineFacts ==
  ASSUME EngineConsistent
  PROVE  /\ engine \in Engine
         /\ \A type \in Registered : Surplus(engine, type) = readds[type] /\ readds[type] \in Nat
<1>1. engine \in Engine
  BY DEF EngineConsistent, AlertsTypeOK, Engine
<1>2. ASSUME NEW type \in Registered PROVE Surplus(engine, type) = readds[type] /\ readds[type] \in Nat
  <2>1. engine.count[type] = readds[type] + Cardinality(HeldIn(engine, type))
    BY DEF EngineConsistent, CountOffByReadds, HeldIn
  <2>2. readds[type] \in Nat
    BY DEF EngineConsistent, AlertsTypeOK
  <2>3. IsFiniteSet(HeldIn(engine, type))
    BY AlertsAssumption, FS_Subset DEF HeldIn
  <2>4. Cardinality(HeldIn(engine, type)) \in Nat
    BY <2>3, FS_CardinalityType
  <2>. QED  BY <2>1, <2>2, <2>4 DEF Surplus
<1>. QED  BY <1>1, <1>2

(* And back: an engine with the surpluses of readds is consistent.         *)
LEMMA EngineCounts ==
  ASSUME engine' \in Engine, readds' \in [Registered -> Nat],
         \A type \in Registered : Surplus(engine', type) = readds'[type]
  PROVE  CountOffByReadds'
<1>1. SUFFICES ASSUME NEW type \in Registered
               PROVE  engine'.count[type] = readds'[type] + Cardinality(HeldIn(engine', type))
  BY DEF CountOffByReadds, HeldIn
<1>2. IsFiniteSet(HeldIn(engine', type))
  BY AlertsAssumption, FS_Subset DEF HeldIn
<1>3. Cardinality(HeldIn(engine', type)) \in Nat
  BY <1>2, FS_CardinalityType
<1>4. engine'.count[type] \in Nat /\ readds'[type] \in Nat
  BY EngineFields
<1>. QED  BY <1>3, <1>4 DEF Surplus

(* An engine without conditions has no surplus.                            *)
LEMMA EmptySpec ==
  /\ EmptyEngine \in Engine
  /\ \A type \in Registered : Surplus(EmptyEngine, type) = 0
  /\ NothingFound \in [Alerts -> AlertDoc \cup {None}]
<1>1. EmptyEngine \in Engine
  BY DEF EmptyEngine, Engine
<1>2. ASSUME NEW type \in Registered PROVE Surplus(EmptyEngine, type) = 0
  <2>1. HeldIn(EmptyEngine, type) = {} /\ EmptyEngine.count[type] = 0
    BY DEF HeldIn, EmptyEngine
  <2>2. Cardinality({}) = 0
    BY FS_EmptySet
  <2>. QED  BY <2>1, <2>2 DEF Surplus
<1>. QED  BY <1>1, <1>2 DEF NothingFound

(* An empty collection and an empty engine satisfy the invariant.          *)
LEMMA InitInvariant == AlertsInit => AlertsInv
<1>. SUFFICES ASSUME AlertsInit PROVE AlertsInv
  OBVIOUS
<1>1. /\ alerts = [id \in Alerts |-> None] /\ bridge \in {"native", "mock"}
      /\ ready = (bridge = "mock") /\ phase = "wait" /\ found = NothingFound
      /\ engine = EmptyEngine /\ mock = NothingFound /\ pending = [slot \in Slots |-> None]
      /\ raced = {} /\ strayed = {} /\ readds = [type \in Registered |-> 0]
      /\ requests = 0 /\ restarts = 0
  BY DEF AlertsInit
<1>2. AlertsTypeOK
  BY <1>1, EmptySpec, AlertsAssumption DEF AlertsTypeOK, Engine
<1>3. CountOffByReadds
  <2>1. ASSUME NEW type \in Registered PROVE HeldIn(engine, type) = {} /\ engine.count[type] = 0 /\ readds[type] = 0
    BY <1>1 DEF HeldIn, EmptyEngine
  <2>2. Cardinality({}) = 0
    BY FS_EmptySet
  <2>. QED  BY <2>1, <2>2, SMTT(30) DEF CountOffByReadds, HeldIn
<1>4. CallsCarryDocs /\ Phases
  BY <1>1 DEF CallsCarryDocs, Phases, Unloaded
<1>5. FindStands /\ OneCall /\ Fits
  BY <1>1 DEF FindStands, OneCall, Call, Fits, Serving
<1>. QED  BY <1>2, <1>3, <1>4, <1>5 DEF AlertsInv, Stores, EngineConsistent

(* What the query for active alerts finds.                                 *)
LEMMA FoundActiveSpec ==
  ASSUME AlertsTypeOK
  PROVE  /\ FoundActive \in [Alerts -> AlertDoc \cup {None}]
         /\ \A id \in Alerts : FoundActive[id] = IF Running(id) THEN alerts[id] ELSE None
BY DEF FoundActive, Running, AlertsTypeOK

(* The bridge comes up, gives up, or the service restarts.                 *)
LEMMA StartStep ==
  ASSUME AlertsInv, BridgeUp \/ GiveUp \/ Restart
  PROVE  AlertsInv'
<1>1. /\ UNCHANGED <<alerts, bridge, raced, strayed, requests>>
      /\ engine' = engine \/ engine' = EmptyEngine
      /\ mock' = mock \/ mock' = NothingFound
      /\ found' = found \/ found' = NothingFound
      /\ pending' = pending \/ pending' = [slot \in Slots |-> None]
      /\ restarts' \in 0..MaxRestarts /\ ready' \in BOOLEAN
      /\ phase' = "wait" \/ (phase' = "serve" /\ ~ready')
      /\ bridge = "mock" => ready'
  <2>1. /\ restarts \in 0..MaxRestarts /\ MaxRestarts \in Nat
        /\ ready \in BOOLEAN /\ (bridge = "mock" => ready)
    BY AlertsAssumption DEF AlertsInv, Stores, EngineConsistent, AlertsTypeOK, Phases
  <2>2. CASE BridgeUp
    BY <2>1, <2>2 DEF BridgeUp, engines
  <2>3. CASE GiveUp
    BY <2>1, <2>3 DEF GiveUp, engines
  <2>4. CASE Restart
    <3>1. restarts' \in 0..MaxRestarts
      BY <2>1, <2>4 DEF Restart
    <3>2. ready' \in BOOLEAN /\ (bridge = "mock" => ready')
      BY <2>4 DEF Restart
    <3>. QED  BY <2>4, <3>1, <3>2 DEF Restart
  <2>. QED  BY <2>2, <2>3, <2>4
<1>2. \/ UNCHANGED <<engine, readds>>
      \/ engine' = EmptyEngine /\ readds' = [type \in Registered |-> 0]
  BY DEF BridgeUp, GiveUp, Restart, engines
<1>3. phase' = "wait" => Unloaded'
  BY DEF BridgeUp, GiveUp, Restart, engines, AlertsInv, Stores, Phases, Unloaded
<1>4. AlertsTypeOK'
  BY <1>1, <1>2, EmptySpec DEF AlertsInv, Stores, EngineConsistent, AlertsTypeOK, Engine
<1>5. CountOffByReadds'
  <2>1. CASE UNCHANGED <<engine, readds>>
    BY <2>1 DEF AlertsInv, Stores, EngineConsistent, CountOffByReadds
  <2>2. CASE engine' = EmptyEngine /\ readds' = [type \in Registered |-> 0]
    BY <2>2, EmptySpec, EngineCounts
  <2>. QED  BY <1>2, <2>1, <2>2
<1>6. CallsCarryDocs' /\ Phases'
  BY <1>1, <1>3 DEF AlertsInv, Stores, CallsCarryDocs, Phases
<1>7. FindStands' /\ OneCall' /\ Fits'
  BY <1>1 DEF AlertsInv, FindStands, OneCall, Call, Fits, Serving
<1>. QED  BY <1>4, <1>5, <1>6, <1>7 DEF AlertsInv, Stores, EngineConsistent

(* The loader queries the active alerts.                                   *)
LEMMA FindActiveStep ==
  ASSUME AlertsInv, FindActive
  PROVE  AlertsInv'
<1>1. /\ phase = "wait" /\ ready /\ phase' = "load" /\ found' = FoundActive /\ raced' = {} /\ strayed' = {}
      /\ UNCHANGED <<alerts, bridge, ready, engine, mock, readds, pending, requests, restarts>>
  BY DEF FindActive, engines
<1>2. EngineConsistent'
  BY <1>1, FoundActiveSpec
     DEF AlertsInv, Stores, EngineConsistent, AlertsTypeOK, CountOffByReadds
<1>3. CallsCarryDocs' /\ Phases'
  BY <1>1 DEF AlertsInv, Stores, CallsCarryDocs, Phases, Unloaded
<1>4. FindStands'
  BY <1>1 DEF FindStands, FoundActive
<1>5. OneCall' /\ Fits'
  BY <1>1 DEF AlertsInv, Stores, Phases, Unloaded, OneCall, Call, Fits, Serving
<1>. QED  BY <1>2, <1>3, <1>4, <1>5 DEF AlertsInv, Stores

(* The loader hands what it found to the engine.                           *)
LEMMA BulkLoadStep ==
  ASSUME AlertsInv, BulkLoad
  PROVE  AlertsInv'
<1>1. /\ phase = "load" /\ phase' = "serve" /\ found' = NothingFound
      /\ IF bridge = "native" THEN engine' = LoadedAll(found) /\ mock' = mock
                              ELSE mock' = found /\ engine' = engine
      /\ UNCHANGED <<alerts, bridge, ready, pending, raced, strayed, readds, requests, restarts>>
  BY DEF BulkLoad
<1>2. /\ Unloaded /\ \A slot \in Slots, id \in Alerts : ~Call(slot, id) /\ ~Call(slot, id)'
  BY <1>1 DEF AlertsInv, Stores, Phases, Unloaded, Call
<1>3. /\ AlertsTypeOK /\ found \in [Alerts -> AlertDoc \cup {None}]
      /\ \A id \in Alerts \ raced : found[id] = IF Running(id) THEN alerts[id] ELSE None
  BY <1>1, FoundActiveSpec DEF AlertsInv, Stores, EngineConsistent, AlertsTypeOK, FindStands
<1>4. /\ LoadedAll(found) \in Engine
      /\ \A type \in Registered :
           /\ Surplus(LoadedAll(found), type) = 0
           /\ \A id \in Alerts :
                /\ OneEntryIn(LoadedAll(found), type, id)
                /\ LoadedAll(found).conditions[type][id] =
                     IF found[id] # None /\ found[id].config.type = type /\ found[id].config.valid
                     THEN found[id].config ELSE None
  BY <1>3, LoadedAllSpec
<1>5. AlertsTypeOK'
  BY <1>1, <1>3, <1>4, EmptySpec DEF AlertsTypeOK, Engine
<1>6. CountOffByReadds'
  <2>1. CASE engine' = engine
    BY <1>1, <2>1 DEF AlertsInv, Stores, EngineConsistent, CountOffByReadds
  <2>2. CASE engine' = LoadedAll(found)
    <3>1. readds' = [type \in Registered |-> 0]
      BY <1>1, <1>2 DEF Unloaded
    <3>. QED  BY <1>4, <2>2, <3>1, EngineCounts
  <2>. QED  BY <1>1, <2>1, <2>2
<1>7. CallsCarryDocs' /\ Phases' /\ FindStands' /\ OneCall'
  BY <1>1, <1>2 DEF AlertsInv, Stores, CallsCarryDocs, Phases, FindStands, OneCall
<1>8. ASSUME bridge = "native"
      PROVE  /\ \A id \in Alerts \ raced' : GoneIsGone(id)'
             /\ \A id \in Alerts \ (raced' \cup strayed') : NativeFits(id)'
  <2>1. engine' = LoadedAll(found)
    BY <1>1, <1>8
  <2>2. \A id \in Alerts \ raced, type \in Registered :
          /\ OneEntryIn(engine', type, id)
          /\ engine'.conditions[type][id] = Expected(type, id)
    BY <1>3, <1>4, <2>1, NoneAssumption DEF Expected, Running
  <2>3. \A id \in Alerts \ raced' : GoneIsGone(id)'
    BY <1>1, <1>2, <2>2, NoneAssumption DEF GoneIsGone, Expected, Running
  <2>4. \A id \in Alerts \ (raced' \cup strayed') : NativeFits(id)'
    BY <1>1, <1>2, <2>2 DEF NativeFits, OneEntryIn, Expected, Running
  <2>. QED  BY <2>3, <2>4
<1>9. ASSUME bridge = "mock"
      PROVE  /\ \A id \in Alerts \ raced' : PausedIsQuiet(id)'
             /\ \A id \in Alerts \ (raced' \cup strayed') : MockFits(id)'
  <2>1. mock' = found
    BY <1>1, <1>9
  <2>. QED
    BY <1>1, <1>2, <1>3, <2>1 DEF PausedIsQuiet, MockFits, Running
<1>10. Fits'
  BY <1>1, <1>8, <1>9 DEF Fits
<1>. QED  BY <1>5, <1>6, <1>7, <1>10 DEF AlertsInv, Stores, EngineConsistent

-----------------------------------------------------------------------------
(* A request up to MongoDB's answer, for what the handlers pass to Commit. *)
Requested(id, op, doc) ==
  /\ alerts[id] # Gone
  /\ op \in {"add", "update", "remove", "none"}
  /\ op = "remove" => doc \in AlertDoc \cup {Gone}
  /\ op # "remove" => doc \in AlertDoc
  /\ op = "update" => alerts[id] \in AlertDoc
  /\ op = "add" => doc.active
  /\ op = "none" => ~Running(id) /\ ~doc.active

(* A request writes its document, and may owe the engine a call.           *)
LEMMA CommitStep ==
  ASSUME AlertsInv, NEW slot \in Slots \cup {None}, NEW id \in Alerts, NEW op, NEW doc,
         Requested(id, op, doc), Commit(slot, id, op, doc)
  PROVE  AlertsInv'
<1>1. /\ requests < MaxRequests /\ requests' = requests + 1
      /\ IF slot = None THEN pending' = pending
         ELSE /\ phase = "serve" /\ pending[slot] = None
              /\ pending' = IF op = "none" THEN pending
                            ELSE [pending EXCEPT ![slot] = [op |-> op, id |-> id, doc |-> doc]]
      /\ alerts' = [alerts EXCEPT ![id] = doc]
      /\ raced' = IF Overlaps(slot, id) THEN raced \cup {id} ELSE raced
      /\ strayed' = IF Misfits(id, op, doc) THEN strayed \cup {id} ELSE strayed
      /\ UNCHANGED <<bridge, ready, phase, found, engine, mock, readds, restarts>>
  BY DEF Commit, engines
<1>2. /\ EngineConsistent /\ CallsCarryDocs /\ Phases /\ AlertsTypeOK
      /\ alerts \in [Alerts -> AlertDoc \cup {None, Gone}]
      /\ doc \in AlertDoc \cup {Gone}
  BY DEF AlertsInv, Stores, EngineConsistent, AlertsTypeOK, Requested
<1>3. alerts'[id] = doc /\ \A other \in Alerts \ {id} : alerts'[other] = alerts[other]
  BY <1>1, <1>2
<1>. DEFINE call == [op |-> op, id |-> id, doc |-> doc]
<1>4. call.op = op /\ call.id = id /\ call.doc = doc
  OBVIOUS
<1>5. op # "none" => call \in EngineCall /\ call # None
  BY <1>2, NoneAssumption DEF Requested, EngineCall
<1>. HIDE DEF call
<1>6. pending \in [Slots -> EngineCall \cup {None}] /\ None \notin Slots
  BY <1>2, NoneAssumption DEF AlertsTypeOK
<1>7. \/ pending' = pending /\ (slot = None \/ op = "none")
      \/ slot \in Slots /\ op # "none" /\ pending[slot] = None /\ pending' = [pending EXCEPT ![slot] = call]
  BY <1>1 DEF call
<1>8. AlertsTypeOK'
  <2>1. alerts' \in [Alerts -> AlertDoc \cup {None, Gone}]
    BY <1>1, <1>2
  <2>2. pending' \in [Slots -> EngineCall \cup {None}]
    BY <1>5, <1>6, <1>7
  <2>3. requests' \in 0..MaxRequests
    BY <1>1, <1>2, AlertsAssumption DEF AlertsTypeOK
  <2>4. raced' \subseteq Alerts /\ strayed' \subseteq Alerts
    BY <1>1, <1>2 DEF AlertsTypeOK
  <2>. QED  BY <1>1, <1>2, <2>1, <2>2, <2>3, <2>4 DEF AlertsTypeOK
<1>9. CountOffByReadds'
  BY <1>1, <1>2 DEF EngineConsistent, CountOffByReadds
<1>10. CallsCarryDocs'
  BY <1>2, <1>4, <1>6, <1>7 DEF CallsCarryDocs, Requested
<1>11. slot # None => phase = "serve"
  BY <1>1
<1>12. Phases'
  <2>1. CASE slot = None
    BY <1>1, <1>2, <2>1 DEF Phases, Unloaded
  <2>2. CASE slot # None
    BY <1>1, <1>2, <1>11, <2>2 DEF Phases
  <2>. QED  BY <2>1, <2>2
(* For every other alert nothing changed; for this one, unless requests    *)
(* overlap, no handler was running, and now this one is.                   *)
<1>13. ASSUME NEW other \in Alerts \ {id}, NEW one \in Slots
       PROVE  /\ Call(one, other)' <=> Call(one, other)
              /\ Call(one, other) => pending'[one] = pending[one]
  <2>1. CASE pending' = pending
    BY <2>1 DEF Call
  <2>2. CASE slot \in Slots /\ pending[slot] = None /\ pending' = [pending EXCEPT ![slot] = call]
    BY <1>4, <1>6, <2>2 DEF Call
  <2>. QED  BY <1>7, <2>1, <2>2
<1>14. ASSUME id \notin raced'
       PROVE  /\ id \notin raced /\ slot \in Slots
              /\ \A one \in Slots : ~Call(one, id)
              /\ op = "none" => \A one \in Slots : ~Call(one, id)'
              /\ op # "none" => \A one \in Slots : Call(one, id)' => one = slot /\ pending'[one] = call
              /\ op # "none" => Call(slot, id)'
  <2>1. ~Overlaps(slot, id) /\ id \notin raced
    BY <1>1, <1>14
  <2>2. slot \in Slots /\ \A one \in Slots \ {slot} : ~Call(one, id)
    BY <2>1 DEF Overlaps, Call
  <2>3. pending[slot] = None
    BY <1>1, <1>6, <2>2
  <2>4. \A one \in Slots : ~Call(one, id)
    BY <2>2, <2>3 DEF Call
  <2>5. ASSUME op = "none" PROVE \A one \in Slots : ~Call(one, id)'
    BY <1>7, <2>4, <2>5 DEF Call
  <2>6. ASSUME op # "none"
        PROVE  Call(slot, id)' /\ \A one \in Slots : Call(one, id)' => one = slot /\ pending'[one] = call
    <3>1. pending' = [pending EXCEPT ![slot] = call] /\ call # None
      BY <1>5, <1>6, <1>7, <2>2, <2>6
    <3>. QED  BY <1>4, <1>6, <2>2, <2>4, <3>1 DEF Call
  <2>. QED  BY <2>1, <2>2, <2>4, <2>5, <2>6
<1>15. \A other \in Alerts \ {id} : (Running(other)' <=> Running(other)) /\ (other \notin raced' => other \notin raced)
  BY <1>1, <1>3 DEF Running
<1>16. FindStands'
  <2>1. CASE slot = None
    <3>1. id \in raced'
      BY <1>1, <2>1 DEF Overlaps
    <3>. QED  BY <1>1, <1>3, <3>1 DEF AlertsInv, FindStands, FoundActive
  <2>2. CASE slot # None
    BY <1>1, <1>11, <2>2 DEF FindStands
  <2>. QED  BY <2>1, <2>2
<1>17. OneCall'
  <2>. SUFFICES ASSUME NEW other \in Alerts, other \notin raced', NEW one \in Slots, NEW two \in Slots,
                       Call(one, other)', Call(two, other)'
                PROVE  one = two
    BY DEF OneCall
  <2>1. CASE other = id
    BY <1>14, <2>1
  <2>2. CASE other # id
    BY <1>13, <1>15, <2>2 DEF AlertsInv, OneCall
  <2>. QED  BY <2>1, <2>2
<1>18. Running(id)' <=> doc \in AlertDoc /\ doc.active
  BY <1>3 DEF Running
<1>19. ASSUME Serving, bridge = "native", NEW other \in Alerts, other \notin raced' PROVE GoneIsGone(other)'
  <2>1. other \notin raced /\ GoneIsGone(other)
    BY <1>1, <1>19 DEF AlertsInv, Fits
  <2>2. CASE other # id
    BY <1>1, <1>3, <1>13, <2>1, <2>2 DEF GoneIsGone
  <2>3. CASE other = id
    BY <1>3, <1>4, <1>14, <1>19, <2>3, NoneAssumption DEF GoneIsGone, Requested
  <2>. QED  BY <2>2, <2>3
<1>20. ASSUME Serving, bridge = "native", NEW other \in Alerts, other \notin raced', other \notin strayed'
       PROVE  NativeFits(other)'
  <2>1. other \notin raced /\ other \notin strayed /\ NativeFits(other)
    BY <1>1, <1>20 DEF AlertsInv, Fits
  <2>2. CASE other # id
    BY <1>1, <1>3, <1>13, <1>15, <2>1, <2>2 DEF NativeFits, OneEntryIn, Expected
  <2>3. CASE other = id
    <3>1. ~Misfits(id, op, doc)
      BY <1>1, <1>20, <2>3
    <3>2. \A type \in Registered : OneEntryIn(engine, type, id) /\ engine.conditions[type][id] = Expected(type, id)
      BY <1>14, <1>20, <2>1, <2>3 DEF NativeFits
    <3>3. CASE op = "none"
      <4>1. ~Running(id) /\ ~Running(id)'
        BY <1>18, <3>3 DEF Requested
      <4>. QED  BY <1>1, <1>14, <1>20, <2>3, <3>2, <3>3, <4>1 DEF NativeFits, OneEntryIn, Expected
    <3>4. CASE op = "add"
      <4>1. ~Running(id) /\ Running(id)'
        BY <1>18, <1>20, <3>1, <3>4, NoneAssumption DEF Misfits, Running, Requested
      <4>. QED  BY <1>1, <1>3, <1>4, <1>14, <1>20, <2>3, <3>2, <3>4, <4>1 DEF NativeFits, OneEntryIn, Expected
    <3>5. CASE op = "update"
      <4>1. Running(id)' /\ (Running(id) => doc.config.type = alerts[id].config.type)
        BY <1>18, <1>20, <3>1, <3>5 DEF Misfits, Running, Requested
      <4>. QED  BY <1>1, <1>3, <1>4, <1>14, <1>20, <2>3, <3>2, <3>5, <4>1 DEF NativeFits, OneEntryIn, Expected
    <3>6. CASE op = "remove"
      <4>1. ~Running(id)'
        BY <1>18, <3>1, <3>6, NoneAssumption DEF Misfits
      <4>. QED  BY <1>1, <1>3, <1>4, <1>14, <1>20, <2>3, <3>2, <3>6, <4>1 DEF NativeFits, OneEntryIn, Expected
    <3>. QED  BY <3>3, <3>4, <3>5, <3>6 DEF Requested
  <2>. QED  BY <2>2, <2>3
<1>21. ASSUME Serving, bridge = "mock", NEW other \in Alerts, other \notin raced' PROVE PausedIsQuiet(other)'
  <2>1. other \notin raced /\ PausedIsQuiet(other)
    BY <1>1, <1>21 DEF AlertsInv, Fits
  <2>2. CASE other # id
    BY <1>1, <1>3, <1>13, <1>15, <2>1, <2>2 DEF PausedIsQuiet
  <2>3. CASE other = id /\ op = "none"
    BY <1>1, <1>14, <1>21, <2>1, <2>3 DEF PausedIsQuiet, Requested
  <2>4. CASE other = id /\ op # "none"
    BY <1>3, <1>4, <1>14, <1>21, <2>4 DEF PausedIsQuiet
  <2>. QED  BY <2>2, <2>3, <2>4
<1>22. ASSUME Serving, bridge = "mock", NEW other \in Alerts, other \notin raced', other \notin strayed'
       PROVE  MockFits(other)'
  <2>1. other \notin raced /\ other \notin strayed /\ MockFits(other)
    BY <1>1, <1>22 DEF AlertsInv, Fits
  <2>2. CASE other # id
    BY <1>1, <1>3, <1>13, <1>15, <2>1, <2>2 DEF MockFits
  <2>3. CASE other = id
    <3>1. ~Misfits(id, op, doc) /\ (Running(id) => mock[id] = alerts[id])
      BY <1>1, <1>14, <1>22, <2>1, <2>3 DEF MockFits
    <3>2. op = "none" => ~Running(id)'
      BY <1>18 DEF Requested
    <3>3. op = "remove" => ~Running(id)'
      BY <1>18, <3>1, NoneAssumption DEF Misfits
    <3>4. op = "update" /\ Running(id)' => mock[id] # None
      <4>1. ASSUME op = "update", Running(id)' PROVE mock[id] # None
        <5>1. alerts[id].active /\ doc.active
          BY <1>18, <1>22, <3>1, <4>1 DEF Misfits
        <5>. QED  BY <3>1, <4>1, <5>1, NoneAssumption DEF Running, Requested
      <4>. QED  BY <4>1
    <3>. QED  BY <1>1, <1>4, <1>14, <1>22, <2>3, <3>2, <3>3, <3>4 DEF MockFits
  <2>. QED  BY <2>2, <2>3
<1>23. Fits'
  BY <1>1, <1>19, <1>20, <1>21, <1>22 DEF Fits, Serving
<1>. QED  BY <1>8, <1>9, <1>10, <1>12, <1>16, <1>17, <1>23 DEF AlertsInv, Stores, EngineConsistent

(* A create, an update, a removal or a toggle, from any process.           *)
LEMMA RequestStep ==
  ASSUME AlertsInv, AlertRequests
  PROVE  AlertsInv'
<1>1. PICK slot \in Slots \cup {None}, id \in Alerts :
        \/ \E doc \in AlertDoc : Create(slot, id, doc) \/ Update(slot, id, doc)
        \/ RemoveAlert(slot, id)
        \/ \E active \in BOOLEAN \cup {None} : ToggleActive(slot, id, active)
  BY DEF AlertRequests
<1>2. ASSUME NEW doc \in AlertDoc, Create(slot, id, doc) PROVE AlertsInv'
  <2>1. Commit(slot, id, IF doc.active THEN "add" ELSE "none", doc)
    BY <1>2 DEF Create
  <2>2. Requested(id, IF doc.active THEN "add" ELSE "none", doc)
    BY <1>2, NoneAssumption DEF Create, Requested, Running
  <2>. QED  BY <2>1, <2>2, CommitStep
<1>3. ASSUME NEW doc \in AlertDoc, Update(slot, id, doc) PROVE AlertsInv'
  <2>1. Requested(id, "update", doc)
    BY <1>3, NoneAssumption DEF Update, Requested
  <2>. QED  BY <1>3, <2>1, CommitStep DEF Update
<1>4. ASSUME RemoveAlert(slot, id) PROVE AlertsInv'
  <2>1. Requested(id, "remove", Gone)
    BY <1>4, NoneAssumption DEF RemoveAlert, Requested
  <2>. QED  BY <1>4, <2>1, CommitStep DEF RemoveAlert
<1>5. ASSUME NEW active \in BOOLEAN \cup {None}, ToggleActive(slot, id, active) PROVE AlertsInv'
  <2>. DEFINE op == IF active = TRUE THEN "add" ELSE "remove"
              doc == IF active = None THEN alerts[id] ELSE [alerts[id] EXCEPT !.active = active]
  <2>1. alerts[id] \in AlertDoc /\ Commit(slot, id, op, doc)
    BY <1>5 DEF ToggleActive
  <2>2. doc \in AlertDoc
    BY <2>1 DEF AlertDoc
  <2>3. active = TRUE => doc.active
    BY <2>1, NoneAssumption DEF AlertDoc
  <2>. HIDE DEF doc
  <2>4. Requested(id, op, doc)
    BY <2>1, <2>2, <2>3, NoneAssumption DEF Requested
  <2>. QED  BY <2>1, <2>4, CommitStep
<1>. QED  BY <1>1, <1>2, <1>3, <1>4, <1>5

-----------------------------------------------------------------------------
(* The native call, by what it does to the alert's entries.                *)
LEMMA NativeCall ==
  ASSUME AlertsInv, NEW slot \in Slots, CallEngine(slot), ready, bridge = "native"
  PROVE  LET call == pending[slot]
         IN  /\ engine' \in Engine /\ OthersSame(engine, engine', call.id)
             /\ readds' \in [Registered -> Nat]
             /\ \A type \in Registered :
                  /\ Surplus(engine', type) = readds'[type]
                  /\ call.op = "remove" => engine'.conditions[type][call.id] = None
                  /\ call.op # "remove" =>
                       /\ type # call.doc.config.type => SameEntry(engine, engine', type, call.id)
                       /\ call.op = "add" /\ ~call.doc.config.valid => SameEntry(engine, engine', type, call.id)
                       /\ type = call.doc.config.type /\ call.doc.config.valid =>
                            engine'.conditions[type][call.id] = call.doc.config
                       /\ type = call.doc.config.type /\ ~call.doc.config.valid /\ call.op = "update" =>
                            engine'.conditions[type][call.id] = None
                  /\ OneEntryIn(engine, type, call.id)
                     /\ (call.op = "add" => engine.conditions[type][call.id] = None)
                     => OneEntryIn(engine', type, call.id)
<1>. DEFINE call == pending[slot]
<1>1. /\ call # None /\ engine' = NativeAfter(call)
      /\ readds' = IF call.op = "add" THEN Readds(call) ELSE readds
  BY DEF CallEngine
<1>2. /\ call \in EngineCall
      /\ call.op # "remove" => call.doc \in AlertDoc
  BY <1>1 DEF AlertsInv, Stores, EngineConsistent, AlertsTypeOK, CallsCarryDocs
<1>3. /\ call.op \in {"add", "update", "remove"} /\ call.id \in Alerts
      /\ call.op # "remove" => call.doc.config \in Configs /\ call.doc.config.valid \in BOOLEAN
  BY <1>2, ConfigFields DEF EngineCall, AlertDoc
<1>4. /\ engine \in Engine /\ readds \in [Registered -> Nat]
      /\ \A type \in Registered : Surplus(engine, type) = readds[type] /\ Surplus(engine, type) \in Nat
  BY EngineFacts DEF AlertsInv, Stores, EngineConsistent, AlertsTypeOK
<1>. HIDE DEF call
<1>5. CASE call.op = "add"
  <2>1. engine' = AddedTo(engine, call.id, call.doc.config)
    BY <1>1, <1>5 DEF NativeAfter
  <2>2. /\ engine' \in Engine /\ OthersSame(engine, engine', call.id)
        /\ \A type \in Registered :
             /\ type # call.doc.config.type \/ ~call.doc.config.valid => SameEntry(engine, engine', type, call.id)
             /\ type = call.doc.config.type /\ call.doc.config.valid =>
                  engine'.conditions[type][call.id] = call.doc.config
             /\ engine.conditions[type][call.id] = None /\ OneEntryIn(engine, type, call.id)
                => OneEntryIn(engine', type, call.id)
             /\ Surplus(engine', type) = Surplus(engine, type) +
                  (IF type = call.doc.config.type /\ call.doc.config.valid /\ engine.conditions[type][call.id] # None
                   THEN 1 ELSE 0)
    BY <1>3, <1>4, <1>5, <2>1, AddKeeps
  <2>3. readds' = IF call.doc.config.type \in Registered /\ call.doc.config.valid
                     /\ engine.conditions[call.doc.config.type][call.id] # None
                  THEN [readds EXCEPT ![call.doc.config.type] = @ + 1] ELSE readds
    BY <1>1, <1>5 DEF Readds
  <2>4. readds' \in [Registered -> Nat] /\ \A type \in Registered : Surplus(engine', type) = readds'[type]
    BY <1>4, <2>2, <2>3
  <2>. QED  BY <1>5, <2>2, <2>4 DEF call
<1>6. CASE call.op = "update"
  <2>1. engine' = UpdatedIn(engine, call.id, call.doc.config) /\ readds' = readds
    BY <1>1, <1>6 DEF NativeAfter
  <2>2. /\ engine' \in Engine /\ OthersSame(engine, engine', call.id)
        /\ \A type \in Registered :
             /\ type # call.doc.config.type => SameEntry(engine, engine', type, call.id)
             /\ type = call.doc.config.type =>
                  engine'.conditions[type][call.id] = IF call.doc.config.valid THEN call.doc.config ELSE None
             /\ OneEntryIn(engine, type, call.id) => OneEntryIn(engine', type, call.id)
             /\ Surplus(engine', type) = Surplus(engine, type)
    BY <1>3, <1>4, <1>6, <2>1, UpdateKeeps
  <2>. QED  BY <1>4, <1>6, <2>1, <2>2 DEF call
<1>7. CASE call.op = "remove"
  <2>1. engine' = RemovedFrom(engine, call.id, Registered) /\ readds' = readds
    BY <1>1, <1>7 DEF NativeAfter
  <2>2. /\ engine' \in Engine /\ OthersSame(engine, engine', call.id)
        /\ \A type \in Registered :
             /\ engine'.conditions[type][call.id] = None
             /\ OneEntryIn(engine, type, call.id) => OneEntryIn(engine', type, call.id)
             /\ Surplus(engine', type) = Surplus(engine, type)
    BY <1>3, <1>4, <2>1, RemoveKeeps
  <2>. QED  BY <1>4, <1>7, <2>1, <2>2 DEF call
<1>. QED  BY <1>3, <1>5, <1>6, <1>7

(* A request makes the call it owes.                                       *)
LEMMA CallEngineStep ==
  ASSUME AlertsInv, NEW slot \in Slots, CallEngine(slot)
  PROVE  AlertsInv'
<1>0. PICK call, id : call = pending[slot] /\ id = call.id
  OBVIOUS
<1>1. /\ call # None /\ pending' = [pending EXCEPT ![slot] = None]
      /\ mock' = IF bridge = "mock" THEN MockAfter(call) ELSE mock
      /\ UNCHANGED <<alerts, bridge, ready, phase, found, raced, strayed, requests, restarts>>
      /\ (ready /\ bridge = "native") \/ UNCHANGED <<engine, readds>>
  BY <1>0 DEF CallEngine, Readds
<1>2. /\ EngineConsistent /\ AlertsTypeOK /\ CallsCarryDocs /\ Phases
      /\ pending \in [Slots -> EngineCall \cup {None}] /\ mock \in [Alerts -> AlertDoc \cup {None}]
  BY DEF AlertsInv, Stores, EngineConsistent, AlertsTypeOK
<1>3. /\ call \in EngineCall /\ id \in Alerts /\ call.op \in {"add", "update", "remove"}
      /\ call.op # "remove" => call.doc \in AlertDoc
  BY <1>0, <1>1, <1>2 DEF EngineCall, CallsCarryDocs
<1>4. phase \notin {"wait", "load"}
  BY <1>0, <1>1, <1>2 DEF Phases, Unloaded
<1>5. engine' \in Engine /\ readds' \in [Registered -> Nat]
      /\ \A type \in Registered : Surplus(engine', type) = readds'[type]
  <2>1. CASE ready /\ bridge = "native"
    BY <2>1, NativeCall
  <2>2. CASE UNCHANGED <<engine, readds>>
    BY <1>2, <2>2, EngineFacts DEF AlertsTypeOK
  <2>. QED  BY <1>1, <2>1, <2>2
<1>6. mock' \in [Alerts -> AlertDoc \cup {None}] /\ \A other \in Alerts \ {id} : mock'[other] = mock[other]
  BY <1>0, <1>1, <1>2, <1>3 DEF MockAfter
<1>7. AlertsTypeOK'
  <2>1. pending' \in [Slots -> EngineCall \cup {None}]
    BY <1>1, <1>2
  <2>. QED  BY <1>1, <1>2, <1>5, <1>6, <2>1 DEF AlertsTypeOK, Engine
<1>8. CountOffByReadds'
  BY <1>5, EngineCounts
<1>9. CallsCarryDocs' /\ Phases' /\ FindStands'
  BY <1>1, <1>2, <1>4 DEF CallsCarryDocs, Phases, FindStands
<1>10. \A one \in Slots, other \in Alerts :
         /\ Call(one, other)' => Call(one, other) /\ pending'[one] = pending[one] /\ one # slot
         /\ other # id => (Call(one, other) => Call(one, other)')
  BY <1>0, <1>1, <1>2 DEF Call
<1>11. OneCall'
  BY <1>1, <1>10 DEF AlertsInv, OneCall
<1>12. Call(slot, id)
  BY <1>0, <1>1 DEF Call
<1>13. id \notin raced => \A one \in Slots : ~Call(one, id)'
  BY <1>3, <1>10, <1>12 DEF AlertsInv, OneCall
<1>14. \A other : Running(other)' <=> Running(other)
  BY <1>1 DEF Running
<1>15. ASSUME Serving, bridge = "native", NEW other \in Alerts, other \notin raced PROVE GoneIsGone(other)'
  <2>1. GoneIsGone(other) /\ ready
    BY <1>15 DEF AlertsInv, Fits, Serving
  <2>2. /\ OthersSame(engine, engine', id)
        /\ call.op = "remove" => \A type \in Registered : engine'.conditions[type][id] = None
    BY <1>15, <2>1, <1>0, NativeCall
  <2>3. CASE other # id
    BY <1>1, <1>10, <2>1, <2>2, <2>3 DEF GoneIsGone, OthersSame, SameEntry
  <2>4. CASE other = id
    BY <1>0, <1>1, <1>12, <1>13, <1>15, <2>1, <2>2, <2>4 DEF GoneIsGone
  <2>. QED  BY <2>3, <2>4
<1>16. ASSUME Serving, bridge = "native", NEW other \in Alerts, other \notin raced, other \notin strayed
       PROVE  NativeFits(other)'
  <2>1. NativeFits(other) /\ ready
    BY <1>16 DEF AlertsInv, Fits, Serving
  <2>2. OthersSame(engine, engine', id)
    BY <1>16, <2>1, <1>0, NativeCall
  <2>3. CASE other # id
    <3>1. \A type \in Registered : SameEntry(engine, engine', type, other)
      BY <2>2, <2>3 DEF OthersSame
    <3>2. \A type \in Registered : /\ engine'.conditions[type][other] = engine.conditions[type][other]
                                   /\ OneEntryIn(engine, type, other) => OneEntryIn(engine', type, other)
      BY <3>1, SameEntryKeeps DEF SameEntry
    <3>. QED  BY <1>1, <1>10, <1>14, <2>1, <2>3, <3>2 DEF NativeFits, OneEntryIn, Expected
  <2>4. CASE other = id
    <3>1. ASSUME NEW type \in Registered
          PROVE  OneEntryIn(engine', type, id) /\ engine'.conditions[type][id] = Expected(type, id)
      <4>1. /\ OneEntryIn(engine, type, id)
            /\ call.op = "remove" => ~Running(id)
            /\ call.op # "remove" => Running(id) /\ call.doc = alerts[id]
            /\ call.op = "add" => engine.conditions[type][id] = None
            /\ call.op = "update" /\ call.doc.config.type # type => engine.conditions[type][id] = None
        BY <1>0, <1>12, <2>1, <2>4 DEF NativeFits
      <4>2. /\ call.op = "remove" => engine'.conditions[type][id] = None
            /\ call.op # "remove" =>
                 /\ type # call.doc.config.type => SameEntry(engine, engine', type, id)
                 /\ call.op = "add" /\ ~call.doc.config.valid => SameEntry(engine, engine', type, id)
                 /\ type = call.doc.config.type /\ call.doc.config.valid =>
                      engine'.conditions[type][id] = call.doc.config
                 /\ type = call.doc.config.type /\ ~call.doc.config.valid /\ call.op = "update" =>
                      engine'.conditions[type][id] = None
            /\ OneEntryIn(engine, type, id) /\ (call.op = "add" => engine.conditions[type][id] = None)
               => OneEntryIn(engine', type, id)
        BY <1>16, <2>1, <1>0, NativeCall
      <4>3. OneEntryIn(engine', type, id)
        BY <4>1, <4>2
      <4>4. engine'.conditions[type][id] = Expected(type, id)
        BY <1>3, <4>1, <4>2 DEF Expected, SameEntry
      <4>. QED  BY <4>3, <4>4
    <3>2. \A type \in Registered : OneEntryIn(engine, type, id)' /\ engine'.conditions[type][id] = Expected(type, id)'
      BY <1>1, <1>14, <3>1 DEF OneEntryIn, Expected
    <3>. QED  BY <1>1, <1>13, <1>16, <2>4, <3>2 DEF NativeFits
  <2>. QED  BY <2>3, <2>4
<1>17. ASSUME Serving, bridge = "mock", NEW other \in Alerts, other \notin raced PROVE PausedIsQuiet(other)'
  <2>1. PausedIsQuiet(other) /\ mock' = MockAfter(call)
    BY <1>1, <1>17 DEF AlertsInv, Fits
  <2>2. CASE other # id
    BY <1>1, <1>6, <1>10, <1>14, <2>1, <2>2 DEF PausedIsQuiet
  <2>3. CASE other = id
    <3>1. call.op # "remove" => call.doc = alerts[id]
      BY <1>0, <1>12, <2>1, <2>3 DEF PausedIsQuiet
    <3>2. ~Running(id) => mock'[id] = None \/ ~mock'[id].active
      BY <1>0, <1>2, <1>3, <2>1, <3>1 DEF MockAfter, Running
    <3>. QED  BY <1>1, <1>13, <1>14, <1>17, <2>3, <3>2 DEF PausedIsQuiet
  <2>. QED  BY <2>2, <2>3
<1>18. ASSUME Serving, bridge = "mock", NEW other \in Alerts, other \notin raced, other \notin strayed
       PROVE  MockFits(other)'
  <2>1. PausedIsQuiet(other) /\ MockFits(other) /\ mock' = MockAfter(call)
    BY <1>1, <1>18 DEF AlertsInv, Fits
  <2>2. CASE other # id
    BY <1>1, <1>6, <1>10, <1>14, <2>1, <2>2 DEF MockFits
  <2>3. CASE other = id
    <3>1. /\ call.op # "remove" => call.doc = alerts[id]
          /\ call.op = "remove" => ~Running(id)
          /\ call.op = "update" /\ Running(id) => mock[id] # None
      BY <1>0, <1>12, <2>1, <2>3 DEF PausedIsQuiet, MockFits
    <3>2. Running(id) => mock'[id] = alerts[id]
      BY <1>0, <1>2, <1>3, <2>1, <3>1 DEF MockAfter
    <3>. QED  BY <1>1, <1>13, <1>14, <1>18, <2>3, <3>2 DEF MockFits
  <2>. QED  BY <2>2, <2>3
<1>19. Fits'
  BY <1>1, <1>15, <1>16, <1>17, <1>18 DEF Fits, Serving
<1>. QED  BY <1>7, <1>8, <1>9, <1>11, <1>19 DEF AlertsInv, Stores, EngineConsistent

-----------------------------------------------------------------------------
(* Every step of the service or of a client preserves the invariant.       *)
LEMMA NextInvariant == AlertsInv /\ [AlertsNext]_alertsVars => AlertsInv'
<1>. SUFFICES ASSUME AlertsInv, [AlertsNext]_alertsVars PROVE AlertsInv'
  OBVIOUS
<1>1. CASE AlertsNext
  BY <1>1, StartStep, FindActiveStep, BulkLoadStep, RequestStep, CallEngineStep DEF AlertsNext
<1>2. CASE UNCHANGED alertsVars
  <2>1. UNCHANGED <<alerts, bridge, ready, phase, found, engine, mock, readds, pending, raced, strayed,
                    requests, restarts>>
    BY <1>2 DEF alertsVars, engines
  <2>2. EngineConsistent' /\ CallsCarryDocs' /\ Phases' /\ FindStands' /\ OneCall'
    <3>1. AlertsTypeOK' <=> AlertsTypeOK
      BY <2>1 DEF AlertsTypeOK
    <3>2. CountOffByReadds' <=> CountOffByReadds
      BY <2>1 DEF CountOffByReadds
    <3>3. /\ CallsCarryDocs' <=> CallsCarryDocs
          /\ Phases' <=> Phases
      BY <2>1 DEF CallsCarryDocs, Phases, Unloaded
    <3>4. /\ FindStands' <=> FindStands
          /\ OneCall' <=> OneCall
      BY <2>1 DEF FindStands, FoundActive, OneCall, Call
    <3>. QED  BY <3>1, <3>2, <3>3, <3>4 DEF AlertsInv, Stores, EngineConsistent
  <2>3. \A id : /\ GoneIsGone(id)' <=> GoneIsGone(id)
                /\ PausedIsQuiet(id)' <=> PausedIsQuiet(id)
    BY <2>1 DEF GoneIsGone, PausedIsQuiet, Call, Running
  <2>4. \A id : /\ NativeFits(id)' <=> NativeFits(id)
                /\ MockFits(id)' <=> MockFits(id)
    BY <2>1 DEF NativeFits, MockFits, OneEntryIn, Expected, Call, Running
  <2>5. Fits'
    BY <2>1, <2>3, <2>4 DEF AlertsInv, Fits, Serving
  <2>. QED  BY <2>2, <2>5 DEF AlertsInv, Stores
<1>. QED  BY <1>1, <1>2

(* The invariant of the alerts holds in every reachable state.             *)
LEMMA AlertsAlways == AlertsSpec => []AlertsInv
<1>. QED  BY InitInvariant, NextInvariant, PTL DEF AlertsSpec

(* Whichever requests overlap, the stores keep their types and the count   *)
(* of a strategy is off by the adds of what it already held.               *)
THEOREM SpecEngineConsistent == AlertsSpec => []EngineConsistent
<1>. QED  BY AlertsAlways, PTL DEF AlertsInv, Stores

(* A native tick matches an alert as often as it is indexed.               *)
LEMMA MatchesOnce ==
  ASSUME AlertsInv, Serving, bridge = "native", NEW id \in Alerts, id \notin raced, id \notin strayed, NEW symbol \in Symbols,
         \A slot \in Slots : ~Call(slot, id)
  PROVE  Matches(id, symbol) = IF ShouldMatch(id, symbol) THEN 1 ELSE 0
<1>1. \A type \in Registered : OneEntryIn(engine, type, id) /\ engine.conditions[type][id] = Expected(type, id)
  BY DEF AlertsInv, Fits, NativeFits
<1>. DEFINE type == alerts[id].config.type
<1>2. ShouldMatch(id, symbol) <=>
        Running(id) /\ alerts[id].config.valid /\ alerts[id].config.symbol = symbol /\ type \in Registered
  BY DEF ShouldMatch, Running
<1>3. Running(id) => alerts[id].config \in Configs /\ alerts[id].config # None
  BY ConfigFields DEF Running, AlertDoc
<1>4. ASSUME NEW one \in Registered
      PROVE  Copies(one, id, symbol) = IF ShouldMatch(id, symbol) /\ one = type THEN 1 ELSE 0
  BY <1>1, <1>2, <1>3 DEF Copies, OneEntryIn, Expected
<1>. HIDE DEF type
<1>5. CASE ShouldMatch(id, symbol)
  <2>1. type \in Registered
    BY <1>2, <1>5
  <2>2. \A one \in Registered : 1..Copies(one, id, symbol) = IF one = type THEN {1} ELSE {}
    <3>1. 1..1 = {1} /\ 1..0 = {}
      OBVIOUS
    <3>2. \A one \in Registered : Copies(one, id, symbol) = IF one = type THEN 1 ELSE 0
      BY <1>4, <1>5
    <3>. QED  BY <3>1, <3>2, Zenon
  <2>3. NativeMatches(id, symbol) = {<<type, 1>>}
    <3>1. \A one \in Registered : {<<one, copy>> : copy \in 1..Copies(one, id, symbol)} =
                                    IF one = type THEN {<<type, 1>>} ELSE {}
      BY <2>2
    <3>. QED  BY <2>1, <3>1 DEF NativeMatches
  <2>4. Cardinality({<<type, 1>>}) = 1
    BY FS_Singleton
  <2>. QED  BY <1>5, <2>3, <2>4 DEF Matches
<1>6. CASE ~ShouldMatch(id, symbol)
  <2>1. \A one \in Registered : 1..Copies(one, id, symbol) = {}
    BY <1>4, <1>6
  <2>2. NativeMatches(id, symbol) = {}
    <3>1. \A one \in Registered : {<<one, copy>> : copy \in 1..Copies(one, id, symbol)} = {}
      BY <2>1
    <3>. QED  BY <3>1 DEF NativeMatches
  <2>. QED  BY <1>6, <2>2, FS_EmptySet DEF Matches
<1>. QED  BY <1>5, <1>6

(* A deleted alert that no request raced for, and no call is owed for,     *)
(* matches nothing.                                                        *)
LEMMA MatchesNever ==
  ASSUME AlertsInv, Serving, bridge = "native", NEW id \in Alerts, id \notin raced, NEW symbol \in Symbols,
         \A slot \in Slots : ~Call(slot, id), alerts[id] = Gone
  PROVE  Matches(id, symbol) = 0
<1>1. \A type \in Registered : engine.conditions[type][id] = None
  BY DEF AlertsInv, Fits, GoneIsGone
<1>2. \A type \in Registered : 1..Copies(type, id, symbol) = {}
  BY <1>1 DEF Copies
<1>3. NativeMatches(id, symbol) = {}
  <2>1. \A type \in Registered : {<<type, copy>> : copy \in 1..Copies(type, id, symbol)} = {}
    BY <1>2
  <2>. QED  BY <2>1 DEF NativeMatches
<1>. QED  BY <1>3, FS_EmptySet DEF Matches

(* A tick matches what the documents say, once, unless requests overlapped *)
(* or an engine call did not fit its write; and a deleted alert, or one    *)
(* paused in the mock, matches nothing unless requests overlapped.         *)
THEOREM SpecEngineAgreesUnlessLapsed == AlertsSpec => []EngineAgreesUnlessLapsed
<1>1. ASSUME AlertsInv, NEW id \in Alerts, id \notin raced, NEW symbol \in Symbols, Settled(id)
      PROVE  /\ id \notin strayed => Matches(id, symbol) = IF ShouldMatch(id, symbol) THEN 1 ELSE 0
             /\ alerts[id] = Gone \/ (bridge = "mock" /\ alerts[id] # None /\ ~alerts[id].active)
                => Matches(id, symbol) = 0
  <2>1. Serving /\ \A slot \in Slots : ~Call(slot, id)
    BY <1>1 DEF Settled, Serving, Call
  <2>2. bridge \in {"native", "mock"} /\ mock[id] \in AlertDoc \cup {None} /\ Gone \notin AlertDoc
    BY <1>1, NoneAssumption DEF AlertsInv, Stores, EngineConsistent, AlertsTypeOK
  <2>3. CASE bridge = "native"
    BY <1>1, <2>1, <2>3, MatchesOnce, MatchesNever
  <2>4. CASE bridge = "mock"
    <3>1. PausedIsQuiet(id)
      BY <1>1, <2>1, <2>4 DEF AlertsInv, Fits
    <3>2. ~Running(id) => ~MockMatches(id, symbol)
      BY <2>1, <3>1 DEF PausedIsQuiet, MockMatches
    <3>3. ASSUME id \notin strayed PROVE MockMatches(id, symbol) <=> ShouldMatch(id, symbol)
      <4>1. MockFits(id)
        BY <1>1, <2>1, <2>4, <3>3 DEF AlertsInv, Fits
      <4>2. CASE Running(id)
        <5>1. mock[id] = alerts[id] /\ mock[id] # None
          BY <2>1, <4>1, <4>2, NoneAssumption DEF MockFits, Running
        <5>. QED  BY <2>4, <4>2, <5>1 DEF MockMatches, ShouldMatch, Running
      <4>3. CASE ~Running(id)
        BY <3>2, <4>3 DEF ShouldMatch, Running
      <4>. QED  BY <4>2, <4>3
    <3>4. Matches(id, symbol) = IF MockMatches(id, symbol) THEN 1 ELSE 0
      BY <2>4 DEF Matches
    <3>5. alerts[id] = Gone \/ ~alerts[id].active => ~Running(id)
      BY <2>2 DEF Running
    <3>. QED  BY <3>2, <3>3, <3>4, <3>5
  <2>. QED  BY <2>2, <2>3, <2>4
<1>2. AlertsInv => EngineAgreesUnlessLapsed
  BY <1>1 DEF EngineAgreesUnlessLapsed, AgreesUnlessLapsed, StoppedNeverMatches
<1>. QED  BY <1>2, AlertsAlways, PTL

-----------------------------------------------------------------------------
(***************************************************************************)
(* The engine the end-to-end tests run with.                               *)
(***************************************************************************)
(* An expression asked has at least one part, and a part is a conjunction. *)
LEMMA Expressions ==
  ASSUME NEW parts \in SeqOf(SeqOf(Comparisons, MaxTerms) \ {<<>>}, MaxTerms)
  PROVE  DOMAIN parts = 1..Len(parts)
<1>1. PICK m \in 0..MaxTerms : parts \in [1..m -> SeqOf(Comparisons, MaxTerms) \ {<<>>}]
  BY DEF SeqOf
<1>2. DOMAIN parts = 1..m /\ m \in Nat
  BY <1>1, MockAssumption
<1>3. Len(parts) = m
  BY <1>2
<1>4. QED
  BY <1>2, <1>3

Posed == question \in Questions

(* The next tick asks the same of another value.                           *)
LEMMA MockAlways == MockSpec => []Posed
<1>1. MockInit => Posed
  BY DEF MockInit, Posed
<1>2. Posed /\ [MockNext]_question => Posed'
  BY DEF MockNext, Posed, Questions
<1>3. QED
  BY <1>1, <1>2, PTL DEF MockSpec

(* What the mock says of a threshold, the native strategy allows.          *)
LEMMA ThresholdMatches ==
  ASSUME NEW operator \in Operators \cup {"unknown"}, NEW threshold \in Numbers, NEW value \in Numbers,
         threshold # MockNone, MockThreshold(operator, threshold, value)
  PROVE  NativeDirection(operator, threshold, value)
<1>1. threshold \in Int /\ value \in Int
  BY MockAssumption
<1>2. QED
  BY <1>1 DEF Operators, MockThreshold, NativeDirection

(* mock-engine-bridge.service.ts:13: for all thresholds, numbers and       *)
(* expressions of any size, what the mock lets fire may fire in the engine,*)
(* and a plain conjunction is decided alike.                               *)
THEOREM MockMatchesNative == MockSpec => []MockMatchesAreNative
<1>1. Posed => MockMatchesAreNative
  <2> SUFFICES ASSUME question \in Questions PROVE MockMatchesAreNative
    BY DEF Posed
  <2>1. CASE question.kind = "threshold"
    <3>1. /\ question.operator \in Operators \cup {"unknown"} /\ question.value \in Numbers
          /\ question.threshold \in Numbers \cup {MockNone}
      BY <2>1 DEF Questions
    <3>2. CASE question.threshold = MockNone
      BY <2>1, <3>2 DEF MockMatchesAreNative, MockTests, MockThreshold
    <3>3. CASE question.threshold # MockNone
      BY <2>1, <3>1, <3>3, ThresholdMatches DEF MockMatchesAreNative, MockTests, NativeAllows
    <3>4. QED
      BY <3>2, <3>3
  <2>2. CASE question.kind = "expression"
    <3> DEFINE parts == question.expression
               Meets(c) == Compared(c, question.value)
    <3>1. DOMAIN parts = 1..Len(parts)
      BY <2>2, Expressions DEF Questions
    <3>2. /\ MockTests(question) <=> /\ Len(parts) = 1
                                     /\ \A c \in Range(parts[1]) : c.plain /\ Meets(c)
          /\ NativeAllows(question) <=> \E part \in Range(parts) : \A c \in Range(part) : Meets(c)
      BY <2>2 DEF MockTests, NativeAllows, MockExpression, NativeExpression
    <3>3. Len(parts) = 1 => Range(parts) = {parts[1]}
      BY <3>1 DEF Range
    <3> HIDE DEF parts, Meets
    <3>4. MockTests(question) => NativeAllows(question)
      BY <3>2, <3>3
    <3>5. ASSUME Len(parts) = 1, \A c \in Range(parts[1]) : c.plain
          PROVE  MockTests(question) <=> NativeAllows(question)
      BY <3>2, <3>3, <3>5
    <3>6. MockTests(question) \in BOOLEAN /\ NativeAllows(question) \in BOOLEAN
      BY <2>2 DEF MockTests, NativeAllows, MockExpression, NativeExpression
    <3>7. QED
      BY <2>2, <3>4, <3>5, <3>6 DEF MockMatchesAreNative, parts
  <2>3. QED
    BY <2>1, <2>2 DEF Questions
<1>2. QED
  BY <1>1, MockAlways, PTL

-----------------------------------------------------------------------------
(***************************************************************************)
(* The segments of subscribers.                                            *)
(***************************************************************************)
(* A filter on a new field adds a condition and leaves the others.         *)
LEMMA QueryGrows ==
  ASSUME NEW organization, NEW list \in Seq(Filters), NEW i \in 1..Len(list),
         NEW new, new = list[i].field, new # "organizationId", new \notin NamedFields(SubSeq(list, 1, i - 1))
  PROVE  /\ \A field : field \in DOMAIN Query(organization, SubSeq(list, 1, i))
              <=> field \in DOMAIN Query(organization, SubSeq(list, 1, i - 1)) \/ field = new
         /\ Query(organization, SubSeq(list, 1, i))[new] = list[i]
         /\ new \notin DOMAIN Query(organization, SubSeq(list, 1, i - 1))
         /\ \A field \in DOMAIN Query(organization, SubSeq(list, 1, i - 1)) :
              Query(organization, SubSeq(list, 1, i))[field]
                = Query(organization, SubSeq(list, 1, i - 1))[field]
<1> DEFINE short == SubSeq(list, 1, i - 1)
           long == SubSeq(list, 1, i)
<1>1. Len(list) \in Nat /\ i \in Nat /\ i >= 1 /\ i <= Len(list)
  OBVIOUS
<1>2. DOMAIN long = 1..i /\ \A j \in 1..i : long[j] = list[j]
  BY <1>1
<1>3. DOMAIN short = 1..(i - 1) /\ \A j \in 1..(i - 1) : short[j] = list[j]
  BY <1>1
<1>4. new \notin NamedFields(short)
  OBVIOUS
<1> HIDE DEF short, long
<1>5. /\ new \notin NamedFields(short) /\ NamedFields(long) = NamedFields(short) \cup {new}
  BY <1>1, <1>2, <1>3, <1>4 DEF NamedFields
<1>6. DOMAIN Query(organization, long) = DOMAIN Query(organization, short) \cup {new}
      /\ new \notin DOMAIN Query(organization, short)
  BY <1>5 DEF Query
<1>7. Query(organization, long)[new] = list[i]
  <2>1. {j \in DOMAIN long : long[j].field = new} = {i}
    <3>1. \A j \in 1..i : j \in 1..(i - 1) \/ j = i
      BY <1>1
    <3>2. \A j \in 1..(i - 1) : short[j].field # new
      BY <1>3, <1>4 DEF NamedFields
    <3>3. \A j \in 1..(i - 1) : long[j] = short[j]
      BY <1>1, <1>2, <1>3
    <3>4. \A j \in 1..(i - 1) : long[j].field # new
      BY <3>2, <3>3
    <3>5. i \in 1..i /\ long[i].field = new
      BY <1>1, <1>2
    <3>6. QED
      BY <1>2, <3>1, <3>4, <3>5
  <2>2. Max({i}) = i
    BY <1>1 DEF Max
  <2>3. Query(organization, long)[new] = long[Max({i})]
    BY <1>5, <2>1 DEF Query
  <2>4. QED
    BY <1>1, <1>2, <2>2, <2>3
<1>8. ASSUME NEW field \in DOMAIN Query(organization, short)
      PROVE  Query(organization, long)[field] = Query(organization, short)[field]
  <2> DEFINE naming == {j \in DOMAIN short : short[j].field = field}
  <2>1. field # new /\ field \in {"organizationId"} \cup NamedFields(short)
    BY <1>5, <1>6 DEF Query
  <2>2. CASE field \notin NamedFields(short)
    <3>1. field \notin NamedFields(long)
      BY <1>5, <2>1, <2>2
    <3>2. QED
      BY <2>1, <2>2, <3>1 DEF Query
  <2>3. CASE field \in NamedFields(short)
    <3>1. {j \in DOMAIN long : long[j].field = field} = naming
      <4>1. \A j \in 1..i : j \in 1..(i - 1) \/ j = i
        BY <1>1
      <4>2. 1..(i - 1) \subseteq 1..i
        BY <1>1
      <4>3. QED
        BY <1>1, <1>2, <1>3, <2>1, <4>1, <4>2
    <3>2. naming \in SUBSET (1..(i - 1)) /\ naming # {} /\ i - 1 \in Nat
      BY <1>1, <1>3, <2>3 DEF NamedFields
    <3>3. Query(organization, long)[field] = long[Max(naming)]
      BY <1>5, <2>3, <3>1 DEF Query
    <3>4. Query(organization, short)[field] = short[Max(naming)]
      BY <2>3 DEF Query
    <3> HIDE DEF naming
    <3>5. Max(naming) \in 1..(i - 1)
      BY <3>2, LastPosition
    <3>6. QED
      BY <1>1, <1>2, <1>3, <3>3, <3>4, <3>5
  <2>4. QED
    BY <2>2, <2>3
<1>9. QED
  BY <1>6, <1>7, <1>8 DEF short, long

(* subscribers.service.ts findBySegment: each filter on a new field keeps  *)
(* of the segment before it exactly who meets it, for lists of any length. *)
THEOREM SegmentNarrows == SegmentInit => SegmentOnlyNarrows
<1> SUFFICES ASSUME SegmentInit PROVE SegmentOnlyNarrows
  OBVIOUS
<1>1. filters \in Seq(Filters) /\ DOMAIN filters = 1..Len(filters)
  <2>1. PICK m \in 0..MaxFilters : filters \in [1..m -> Filters]
    BY DEF SegmentInit, SeqOf
  <2>2. m \in Nat /\ DOMAIN filters = 1..m
    BY <2>1, SegmentsAssumption
  <2>3. filters \in Seq(Filters) /\ Len(filters) = m
    BY <2>1, <2>2
  <2>4. QED
    BY <2>2, <2>3
<1> SUFFICES ASSUME NEW organization \in FieldValues, NEW i \in 1..Len(filters),
                    filters[i].field # "organizationId",
                    \A j \in 1..(i - 1) : filters[j].field # filters[i].field
             PROVE  FindBySegment(organization, SubSeq(filters, 1, i))
                      = {hit \in FindBySegment(organization, SubSeq(filters, 1, i - 1)) :
                           Holds(filters[i], hit[2][filters[i].field])}
  BY <1>1 DEF SegmentOnlyNarrows
<1> DEFINE before == Query(organization, SubSeq(filters, 1, i - 1))
           after == Query(organization, SubSeq(filters, 1, i))
           new == filters[i].field
           Of(hit, field) == IF field = "organizationId" THEN hit[1] ELSE hit[2][field]
<1>2. /\ \A field : field \in DOMAIN after <=> field \in DOMAIN before \/ field = new
      /\ after[new] = filters[i]
      /\ new \notin DOMAIN before /\ \A field \in DOMAIN before : after[field] = before[field]
  <2>1. new \notin NamedFields(SubSeq(filters, 1, i - 1))
    BY <1>1 DEF NamedFields
  <2> HIDE DEF new
  <2>2. QED
    BY <1>1, <2>1, QueryGrows DEF new
<1>3. /\ FindBySegment(organization, SubSeq(filters, 1, i - 1))
           = {hit \in FieldValues \X Documents :
                \A field \in DOMAIN before : Holds(before[field], Of(hit, field))}
      /\ FindBySegment(organization, SubSeq(filters, 1, i))
           = {hit \in FieldValues \X Documents :
                \A field \in DOMAIN after : Holds(after[field], Of(hit, field))}
  BY DEF FindBySegment
<1> HIDE DEF before, after
<1>4. ASSUME NEW hit
      PROVE  (\A field \in DOMAIN after : Holds(after[field], Of(hit, field)))
             <=> /\ \A field \in DOMAIN before : Holds(before[field], Of(hit, field))
                 /\ Holds(filters[i], hit[2][new])
  <2> HIDE DEF Of
  <2>1. Of(hit, new) = hit[2][new]
    BY DEF Of
  <2>2. \A field \in DOMAIN before : Holds(after[field], Of(hit, field)) = Holds(before[field], Of(hit, field))
    BY <1>2
  <2>3. Holds(after[new], Of(hit, new)) = Holds(filters[i], hit[2][new])
    BY <1>2, <2>1
  <2>4. QED
    BY <1>2, <2>2, <2>3
<1>5. QED
  BY <1>3, <1>4

-----------------------------------------------------------------------------
(***************************************************************************)
(* Notifications and the dashboard.  An update to SENT under way knows     *)
(* whether the document it read had a sentAt; if it has got one since, the *)
(* update is late.                                                         *)
(***************************************************************************)
UpdatesKnow ==
  \A u \in Updaters : updating[u] # NoNote =>
    LET note == notes[updating[u].id]
    IN  /\ note # NoNote
        /\ updating[u].sentAt = NoNote => note.sentAt # NoNote
        /\ updating[u].sentAt # NoNote => note.sentAt = NoNote \/ updating[u].late

(* The traffic a health view counted is still there while it goes on.      *)
TrafficStays ==
  view.step = "health" =>
    \A channel \in NoteChannels :
      view.stats[channel].total > 0 => OnChannel(Since(view.cutoff), channel) # {}

ViewIsRecord == view = [field \in DOMAIN view |-> view[field]] /\ "step" \in DOMAIN view

NotesInv ==
  /\ NotificationsTypeOK /\ ViewIsRecord
  /\ SentHasSentAt /\ UpdatesKnow /\ TrafficStays /\ TrafficHasProvider

-----------------------------------------------------------------------------
(* The fields of a document, and its versions after an update.             *)
LEMMA NoteFields ==
  ASSUME NEW note \in Notification
  PROVE  /\ note # NoNote /\ note.route \in Routes /\ note.status \in Statuses /\ note.createdAt \in Times
         /\ note.sentAt \in Times \cup {NoNote}
         /\ \A status \in Statuses, sentAt \in Times \cup {NoNote} :
              LET new == [note EXCEPT !.status = status, !.sentAt = sentAt]
              IN  /\ new \in Notification /\ new.status = status /\ new.sentAt = sentAt
                  /\ new.route = note.route /\ new.createdAt = note.createdAt
         /\ \A status \in Statuses :
              LET new == [note EXCEPT !.status = status]
              IN  /\ new \in Notification /\ new.status = status /\ new.sentAt = note.sentAt
                  /\ new.route = note.route /\ new.createdAt = note.createdAt
<1>1. note # NoNote
  BY NotificationsAssumption
<1>2. QED
  BY <1>1 DEF Notification

(* Nothing is stored, asked or under way at first.                         *)
LEMMA NotesInit == NotificationsInit => NotesInv
<1> SUFFICES ASSUME NotificationsInit PROVE NotesInv
  OBVIOUS
<1>1. /\ notes = [n \in Notes |-> NoNote] /\ time = 0 /\ noteWrites = 0
      /\ updating = [u \in Updaters |-> NoNote] /\ view = [step |-> "none"]
  BY DEF NotificationsInit, NotAsked
<1>2. MaxClock \in Nat /\ MaxNoteWrites \in Nat
  BY NotificationsAssumption
<1>3. NotificationsTypeOK
  BY <1>1, <1>2 DEF NotificationsTypeOK, Times
<1>4. ViewIsRecord /\ TrafficStays /\ TrafficHasProvider
  BY <1>1 DEF ViewIsRecord, TrafficStays, TrafficHasProvider
<1>5. SentHasSentAt /\ UpdatesKnow
  BY <1>1 DEF SentHasSentAt, UpdatesKnow
<1>6. QED
  BY <1>3, <1>4, <1>5 DEF NotesInv

(* A request that is not a view leaves the views as they are, or forgets an*)
(* answered one; a write is counted by an overview it falls in.            *)
LEMMA UnansweredSpec ==
  ASSUME ViewIsRecord, view.step \in {"none", "overview", "overviewed", "health", "shown"},
         \/ view' = Unanswered
         \/ HalfRead /\ view' = [view EXCEPT !.writes = @ + 1]
  PROVE  /\ ViewIsRecord' /\ view'.step \in {"none", "overview", "health"}
         /\ view'.step = "health" => view' = view
<1>1. CASE view' = Unanswered /\ Free
  BY <1>1 DEF Unanswered, NotAsked, ViewIsRecord
<1>2. CASE view' = Unanswered /\ ~Free
  BY <1>2 DEF Unanswered, Free, ViewIsRecord
<1>3. CASE HalfRead /\ view' = [view EXCEPT !.writes = @ + 1]
  <2>1. view.step = "overview" /\ view'.step = "overview"
    BY <1>3 DEF HalfRead, ViewIsRecord
  <2>2. QED
    BY <1>3, <2>1 DEF ViewIsRecord
<1>4. QED
  BY <1>1, <1>2, <1>3

(* A write puts a document in place: one that is there keeps its route and *)
(* its age, so no view in progress loses what it counted.                  *)
LEMMA PutStep ==
  ASSUME NotesInv, NEW n \in Notes, NEW note \in Notification, Put(n, note),
         notes[n] # NoNote => note.route = notes[n].route /\ note.createdAt = notes[n].createdAt
  PROVE  /\ notes' \in [Notes -> Notification \cup {NoNote}]
         /\ notes'[n] = note /\ \A m \in Notes : m # n => notes'[m] = notes[m]
         /\ time' \in Times /\ noteWrites' \in 0..MaxNoteWrites
         /\ view'.step \in {"none", "overview", "health"}
         /\ ViewIsRecord' /\ TrafficStays' /\ TrafficHasProvider'
<1>1. /\ notes \in [Notes -> Notification \cup {NoNote}] /\ time \in Times
      /\ noteWrites \in 0..MaxNoteWrites
      /\ view.step \in {"none", "overview", "overviewed", "health", "shown"}
      /\ ViewIsRecord /\ MaxNoteWrites \in Nat
  BY NotificationsAssumption DEF NotesInv, NotificationsTypeOK
<1>2. /\ notes' = [notes EXCEPT ![n] = note] /\ time' = time
      /\ noteWrites < MaxNoteWrites /\ noteWrites' = noteWrites + 1
      /\ view' = IF HalfRead THEN [view EXCEPT !.writes = @ + 1] ELSE Unanswered
  BY DEF Put
<1>3. /\ notes' \in [Notes -> Notification \cup {NoNote}]
      /\ notes'[n] = note /\ \A m \in Notes : m # n => notes'[m] = notes[m]
  BY <1>1, <1>2
<1>4. noteWrites' \in 0..MaxNoteWrites
  BY <1>1, <1>2
<1>5. /\ ViewIsRecord' /\ view'.step \in {"none", "overview", "health"}
      /\ view'.step = "health" => view' = view
  BY <1>1, <1>2, UnansweredSpec
<1>6. TrafficHasProvider'
  BY <1>5 DEF TrafficHasProvider
<1>7. ASSUME view'.step = "health", NEW channel \in NoteChannels, view'.stats[channel].total > 0
      PROVE  OnChannel(Since(view.cutoff), channel)' # {}
  <2>1. view' = view /\ OnChannel(Since(view.cutoff), channel) # {}
    BY <1>5, <1>7 DEF NotesInv, TrafficStays
  <2>2. PICK m \in Notes : /\ notes[m] # NoNote /\ notes[m].createdAt >= view.cutoff
                           /\ notes[m].route.channel = channel
    BY <2>1 DEF OnChannel, Since, Existing
  <2>3. /\ notes'[m] # NoNote /\ notes'[m].createdAt >= view.cutoff /\ notes'[m].route.channel = channel
    BY <1>3, <2>2, NoteFields
  <2>4. m \in OnChannel(Since(view.cutoff), channel)'
    BY <2>1, <2>3 DEF OnChannel, Since, Existing
  <2>5. QED
    BY <2>4
<1>8. TrafficStays'
  BY <1>7 DEF TrafficStays, NoteChannels
<1>9. QED
  BY <1>1, <1>2, <1>3, <1>4, <1>5, <1>6, <1>8

(* A document that is new, or whose sentAt stays.                          *)
LEMMA PlainPutStep ==
  ASSUME NotesInv, NEW n \in Notes, NEW note \in Notification, Put(n, note), UNCHANGED updating,
         notes[n] # NoNote => /\ note.route = notes[n].route /\ note.createdAt = notes[n].createdAt
                              /\ note.sentAt = notes[n].sentAt,
         note.status = "sent" => note.sentAt # NoNote
  PROVE  NotesInv'
<1>1. /\ notes' \in [Notes -> Notification \cup {NoNote}]
      /\ notes'[n] = note /\ \A m \in Notes : m # n => notes'[m] = notes[m]
      /\ time' \in Times /\ noteWrites' \in 0..MaxNoteWrites
      /\ view'.step \in {"none", "overview", "health"}
      /\ ViewIsRecord' /\ TrafficStays' /\ TrafficHasProvider'
  BY PutStep
<1>2. NotificationsTypeOK'
  BY <1>1 DEF NotesInv, NotificationsTypeOK
<1>3. SentHasSentAt'
  BY <1>1 DEF NotesInv, SentHasSentAt
<1>4. UpdatesKnow'
  <2> SUFFICES ASSUME NEW u \in Updaters, updating[u] # NoNote
               PROVE  LET new == notes'[updating[u].id]
                      IN  /\ new # NoNote
                          /\ updating[u].sentAt = NoNote => new.sentAt # NoNote
                          /\ updating[u].sentAt # NoNote => new.sentAt = NoNote \/ updating[u].late
    BY DEF UpdatesKnow
  <2> DEFINE id == updating[u].id
  <2>1. id \in Notes
    BY DEF NotesInv, NotificationsTypeOK, SentUpdate
  <2>2. /\ notes[id] # NoNote
        /\ updating[u].sentAt = NoNote => notes[id].sentAt # NoNote
        /\ updating[u].sentAt # NoNote => notes[id].sentAt = NoNote \/ updating[u].late
    BY DEF NotesInv, UpdatesKnow
  <2>3. notes'[id] # NoNote /\ notes'[id].sentAt = notes[id].sentAt
    BY <1>1, <2>1, <2>2, NoteFields
  <2>4. QED
    BY <2>2, <2>3
<1>5. QED
  BY <1>1, <1>2, <1>3, <1>4 DEF NotesInv

(* Create, persist, and an update to any other status than SENT.           *)
LEMMA WriteStep ==
  ASSUME NotesInv, NEW n \in Notes,
         \/ \E route \in Routes : \/ CreateNotification(n, route)
                                  \/ \E success \in BOOLEAN : PersistNotification(n, route, success)
         \/ \E status \in Statuses : UpdateStatus(n, status)
  PROVE  NotesInv'
<1>1. time \in Times /\ notes \in [Notes -> Notification \cup {NoNote}]
  BY DEF NotesInv, NotificationsTypeOK
<1>2. ASSUME NEW route \in Routes, CreateNotification(n, route) PROVE NotesInv'
  <2> DEFINE note == [route |-> route, status |-> "pending", createdAt |-> time, sentAt |-> NoNote]
  <2>1. note \in Notification /\ note.status # "sent"
    BY <1>1 DEF Notification, Statuses
  <2>2. notes[n] = NoNote /\ Put(n, note) /\ UNCHANGED updating
    BY <1>2 DEF CreateNotification
  <2> HIDE DEF note
  <2>3. QED
    BY <2>1, <2>2, PlainPutStep
<1>3. ASSUME NEW route \in Routes, NEW success \in BOOLEAN, PersistNotification(n, route, success)
      PROVE  NotesInv'
  <2> DEFINE note == [route |-> route, status |-> IF success THEN "delivered" ELSE "failed",
                      createdAt |-> time, sentAt |-> time]
  <2>1. note \in Notification /\ note.status # "sent"
    BY <1>1 DEF Notification, Statuses
  <2>2. notes[n] = NoNote /\ Put(n, note) /\ UNCHANGED updating
    BY <1>3 DEF PersistNotification
  <2> HIDE DEF note
  <2>3. QED
    BY <2>1, <2>2, PlainPutStep
<1>4. ASSUME NEW status \in Statuses, UpdateStatus(n, status) PROVE NotesInv'
  <2> DEFINE note == [notes[n] EXCEPT !.status = status]
  <2>1. notes[n] \in Notification /\ status # "sent" /\ Put(n, note) /\ UNCHANGED updating
    BY <1>1, <1>4 DEF UpdateStatus
  <2>2. /\ note \in Notification /\ note.status = status /\ note.sentAt = notes[n].sentAt
        /\ note.route = notes[n].route /\ note.createdAt = notes[n].createdAt
    BY <2>1, NoteFields
  <2> HIDE DEF note
  <2>3. QED
    BY <2>1, <2>2, PlainPutStep
<1>5. QED
  BY <1>2, <1>3, <1>4

-----------------------------------------------------------------------------
(* updateStatus(SENT) reads: it will write a sentAt if there is none.      *)
LEMMA ReadBeforeSentStep ==
  ASSUME NotesInv, NEW u \in Updaters, NEW n \in Notes, ReadBeforeSent(u, n)
  PROVE  NotesInv'
<1> DEFINE update == [id |-> n, sentAt |-> SentAtFor(notes[n]), late |-> FALSE]
<1>1. /\ notes[n] # NoNote /\ updating' = [updating EXCEPT ![u] = update]
      /\ view' = Unanswered /\ UNCHANGED <<notes, time, noteWrites>>
  BY DEF ReadBeforeSent
<1>2. /\ NotificationsTypeOK /\ time \in Times /\ NoNote \notin Times /\ notes[n] \in Notification
  BY <1>1, NotificationsAssumption DEF NotesInv, NotificationsTypeOK, Times
<1>3. /\ update \in SentUpdate /\ update.id = n
      /\ update.sentAt = NoNote => notes[n].sentAt # NoNote
      /\ update.sentAt # NoNote => notes[n].sentAt = NoNote
  BY <1>2 DEF SentUpdate, SentAtFor
<1> HIDE DEF update
<1>4. /\ updating' \in [Updaters -> SentUpdate \cup {NoNote}] /\ updating'[u] = update
      /\ \A other \in Updaters : other # u => updating'[other] = updating[other]
  BY <1>1, <1>2, <1>3 DEF NotificationsTypeOK
<1>5. /\ ViewIsRecord' /\ view'.step \in {"none", "overview", "health"}
      /\ view'.step = "health" => view' = view
  BY <1>1, UnansweredSpec DEF NotesInv, NotificationsTypeOK
<1>6. NotificationsTypeOK'
  BY <1>1, <1>2, <1>4, <1>5 DEF NotificationsTypeOK
<1>7. SentHasSentAt' /\ TrafficHasProvider'
  BY <1>1, <1>5 DEF NotesInv, SentHasSentAt, TrafficHasProvider
<1>8. TrafficStays'
  BY <1>1, <1>5 DEF NotesInv, TrafficStays, OnChannel, Since, Existing
<1>9. UpdatesKnow'
  BY <1>1, <1>3, <1>4 DEF NotesInv, UpdatesKnow
<1>10. QED
  BY <1>5, <1>6, <1>7, <1>8, <1>9 DEF NotesInv

(* It writes, and the other updates of the document that have read are late*)
(* from then on.                                                           *)
LEMMA WriteSentStep ==
  ASSUME NotesInv, NEW u \in Updaters, WriteSent(u)
  PROVE  NotesInv'
<1> DEFINE update == updating[u]
           n == update.id
           sentAt == IF update.sentAt = NoNote THEN notes[n].sentAt ELSE update.sentAt
           note == [notes[n] EXCEPT !.status = "sent", !.sentAt = sentAt]
<1>1. /\ update # NoNote /\ Put(n, note)
      /\ updating' = [other \in Updaters |->
           IF other = u THEN NoNote
           ELSE IF updating[other] # NoNote /\ updating[other].id = n
                THEN [updating[other] EXCEPT !.late = TRUE] ELSE updating[other]]
  BY DEF WriteSent
<1>2. /\ notes \in [Notes -> Notification \cup {NoNote}] /\ updating \in [Updaters -> SentUpdate \cup {NoNote}]
      /\ UpdatesKnow
  BY DEF NotesInv, NotificationsTypeOK
<1>3. update \in SentUpdate /\ n \in Notes /\ update.sentAt \in Times \cup {NoNote}
  BY <1>1, <1>2 DEF SentUpdate
<1>4. /\ notes[n] \in Notification /\ notes[n].sentAt \in Times \cup {NoNote}
      /\ update.sentAt = NoNote => notes[n].sentAt # NoNote
  <2>1. notes[n] # NoNote /\ (update.sentAt = NoNote => notes[n].sentAt # NoNote)
    BY <1>1, <1>2 DEF UpdatesKnow
  <2>2. notes[n] \in Notification
    BY <1>2, <1>3, <2>1
  <2>3. QED
    BY <2>1, <2>2 DEF Notification
<1>5. sentAt \in Times \cup {NoNote} /\ sentAt # NoNote
  BY <1>3, <1>4
<1> HIDE DEF sentAt
<1>6. /\ note \in Notification /\ note.status = "sent" /\ note.sentAt = sentAt
      /\ note.route = notes[n].route /\ note.createdAt = notes[n].createdAt
  BY <1>4, <1>5 DEF Statuses, Notification
<1> HIDE DEF note
<1>7. /\ notes' \in [Notes -> Notification \cup {NoNote}]
      /\ notes'[n] = note /\ \A m \in Notes : m # n => notes'[m] = notes[m]
      /\ time' \in Times /\ noteWrites' \in 0..MaxNoteWrites
      /\ view'.step \in {"none", "overview", "health"}
      /\ ViewIsRecord' /\ TrafficStays' /\ TrafficHasProvider'
  BY <1>1, <1>3, <1>6, PutStep
<1>8. \A old \in SentUpdate : LET late == [old EXCEPT !.late = TRUE]
                          IN  /\ late \in SentUpdate /\ late.id = old.id /\ late.sentAt = old.sentAt
                              /\ late.late = TRUE
  BY DEF SentUpdate
<1>9. updating' \in [Updaters -> SentUpdate \cup {NoNote}]
  BY <1>1, <1>2, <1>8
<1>10. NotificationsTypeOK'
  BY <1>7, <1>9 DEF NotificationsTypeOK
<1>11. SentHasSentAt'
  BY <1>5, <1>6, <1>7 DEF NotesInv, SentHasSentAt
<1>12. UpdatesKnow'
  <2> SUFFICES ASSUME NEW other \in Updaters, updating'[other] # NoNote
               PROVE  LET new == notes'[updating'[other].id]
                      IN  /\ new # NoNote
                          /\ updating'[other].sentAt = NoNote => new.sentAt # NoNote
                          /\ updating'[other].sentAt # NoNote =>
                               new.sentAt = NoNote \/ updating'[other].late
    BY DEF UpdatesKnow
  <2>1. /\ other # u /\ updating[other] # NoNote /\ updating[other] \in SentUpdate
        /\ updating[other].id \in Notes
    BY <1>1, <1>2 DEF SentUpdate
  <2>2. CASE updating[other].id = n
    <3>1. updating'[other] = [updating[other] EXCEPT !.late = TRUE]
      BY <1>1, <2>1, <2>2
    <3>2. updating'[other].id = n /\ updating'[other].late = TRUE
      BY <1>8, <2>1, <2>2, <3>1
    <3>3. QED
      BY <1>5, <1>6, <1>7, <3>2, NoteFields
  <2>3. CASE updating[other].id # n
    <3>1. updating'[other] = updating[other] /\ notes'[updating[other].id] = notes[updating[other].id]
      BY <1>1, <1>7, <2>1, <2>3
    <3>2. QED
      BY <1>2, <2>1, <3>1 DEF UpdatesKnow
  <2>4. QED
    BY <2>2, <2>3
<1>13. QED
  BY <1>7, <1>10, <1>11, <1>12 DEF NotesInv

-----------------------------------------------------------------------------
(* The clock, and every view but the two health queries: documents and     *)
(* updates stay, and no view shows a channel's health.                     *)
LEMMA ReadingStep ==
  ASSUME NotesInv, UNCHANGED <<notes, noteWrites, updating>>, time' \in Times, ViewIsRecord',
         \/ view'.step \in {"none", "overview", "overviewed"}
         \/ view' = view
  PROVE  NotesInv'
<1>1. NotificationsTypeOK'
  BY DEF NotesInv, NotificationsTypeOK
<1>2. SentHasSentAt' /\ UpdatesKnow'
  BY DEF NotesInv, SentHasSentAt, UpdatesKnow
<1>3. TrafficStays' /\ TrafficHasProvider'
  BY DEF NotesInv, TrafficStays, TrafficHasProvider, OnChannel, Since, Existing
<1>4. QED
  BY <1>1, <1>2, <1>3 DEF NotesInv

(* getOverview and its two aggregates, in either order.                    *)
LEMMA OverviewStep ==
  ASSUME NotesInv, \/ AggregateOverview
                   \/ \E from \in {0, NoNote} : GetOverview(from)
                   \/ Elapse
  PROVE  NotesInv'
<1>1. /\ ViewIsRecord /\ time \in Times /\ MaxClock \in Nat
      /\ view.step \in {"none", "overview", "overviewed", "health", "shown"}
  BY NotificationsAssumption DEF NotesInv, NotificationsTypeOK
<1>2. ASSUME NEW from \in {0, NoNote}, GetOverview(from) PROVE NotesInv'
  <2>1. /\ view' = [step |-> "overview", from |-> from, to |-> IF from = NoNote THEN NoNote ELSE time,
                    totals |-> NoNote, breakdown |-> NoNote, writes |-> 0]
        /\ UNCHANGED <<notes, time, noteWrites, updating>>
    BY <1>2 DEF GetOverview
  <2>2. ViewIsRecord' /\ view'.step = "overview"
    BY <2>1 DEF ViewIsRecord
  <2>3. QED
    BY <1>1, <2>1, <2>2, ReadingStep
<1>3. CASE Elapse
  <2>1. /\ time < MaxClock /\ time' = time + 1 /\ view' = Unanswered
        /\ UNCHANGED <<notes, noteWrites, updating>>
    BY <1>3 DEF Elapse
  <2>2. time' \in Times
    BY <1>1, <2>1 DEF Times
  <2>3. ViewIsRecord' /\ (view'.step \in {"none", "overview"} \/ view' = view)
    BY <1>1, <2>1, UnansweredSpec
  <2>4. QED
    BY <2>1, <2>2, <2>3, ReadingStep
<1>4. CASE AggregateOverview
  <2>1. UNCHANGED <<notes, time, noteWrites, updating>>
    BY <1>4 DEF AggregateOverview
  <2>2. PICK asked : /\ view' = AfterRead(asked)
                     /\ view.step = "overview"
                     /\ \E answer : \/ asked = [view EXCEPT !.totals = answer]
                                    \/ asked = [view EXCEPT !.breakdown = answer]
    BY <1>4 DEF AggregateOverview
  <2>3. ViewIsRecord' /\ view'.step \in {"none", "overview", "overviewed"}
    <3>1. CASE view' = asked
      BY <1>1, <2>2, <3>1 DEF ViewIsRecord
    <3>2. CASE view' = [step |-> "overviewed", totals |-> asked.totals,
                        breakdown |-> asked.breakdown, writes |-> asked.writes]
      BY <3>2 DEF ViewIsRecord
    <3>3. QED
      BY <2>2, <3>1, <3>2 DEF AfterRead
  <2>4. QED
    BY <1>1, <2>1, <2>3, ReadingStep
<1>5. QED
  BY <1>2, <1>3, <1>4

(* getChannelHealth: what the first query counts the second one finds.     *)
LEMMA ChannelHealthStep ==
  ASSUME NotesInv, GetChannelHealth \/ CountProviders
  PROVE  NotesInv'
<1>1. UNCHANGED <<notes, time, noteWrites, updating>>
  BY DEF GetChannelHealth, CountProviders
<1>2. SentHasSentAt' /\ UpdatesKnow'
  BY <1>1 DEF NotesInv, SentHasSentAt, UpdatesKnow
<1>3. CASE GetChannelHealth
  <2>1. PICK cutoff : view' = [step |-> "health", cutoff |-> cutoff, stats |-> ChannelStats(cutoff)]
    BY <1>3 DEF GetChannelHealth
  <2>2. ViewIsRecord' /\ view'.step = "health"
    BY <2>1 DEF ViewIsRecord
  <2>3. ASSUME NEW channel \in NoteChannels, view'.stats[channel].total > 0
        PROVE  OnChannel(Since(view.cutoff), channel)' # {}
    <3>1. view'.stats[channel].total = Cardinality(OnChannel(Since(cutoff), channel))
      BY <2>1 DEF ChannelStats
    <3>2. OnChannel(Since(cutoff), channel) # {}
      BY <2>3, <3>1, FS_EmptySet
    <3>3. OnChannel(Since(view.cutoff), channel)' = OnChannel(Since(cutoff), channel)
      BY <1>1, <2>1 DEF OnChannel, Since, Existing
    <3>4. QED
      BY <3>2, <3>3
  <2>4. TrafficStays' /\ TrafficHasProvider'
    BY <2>2, <2>3 DEF TrafficStays, TrafficHasProvider, NoteChannels
  <2>5. NotificationsTypeOK'
    BY <1>1, <2>2 DEF NotesInv, NotificationsTypeOK
  <2>6. QED
    BY <1>2, <2>2, <2>4, <2>5 DEF NotesInv
<1>4. CASE CountProviders
  <2>1. /\ view.step = "health"
        /\ view' = [step |-> "shown", stats |-> view.stats, providers |-> ProviderCounts(view.cutoff)]
    BY <1>4 DEF CountProviders
  <2>2. ViewIsRecord' /\ view'.step = "shown"
    BY <2>1 DEF ViewIsRecord
  <2>3. ASSUME NEW channel \in NoteChannels, view.stats[channel].total > 0
        PROVE  ProviderCounts(view.cutoff)[channel] > 0
    <3> DEFINE ids == OnChannel(Since(view.cutoff), channel)
               providers == {notes[n].route.provider : n \in ids}
    <3>1. ids # {}
      BY <2>1, <2>3 DEF NotesInv, TrafficStays
    <3>2. ids \subseteq Notes
      BY DEF OnChannel, Since, Existing
    <3>3. IsFiniteSet(ids)
      BY <3>2, NotificationsAssumption, FS_Subset
    <3>4. ProviderCounts(view.cutoff)[channel] = Cardinality(providers)
      BY DEF ProviderCounts
    <3> HIDE DEF ids
    <3>5. IsFiniteSet(providers)
      <4> DEFINE providerOf == [n \in ids |-> notes[n].route.provider]
      <4>1. providerOf \in Surjection(ids, providers)
        BY DEF Surjection
      <4>2. QED
        BY <3>3, <4>1, FS_Surjection
    <3>6. providers # {}
      BY <3>1
    <3> HIDE DEF providers
    <3>7. Cardinality(providers) \in Nat /\ Cardinality(providers) # 0
      BY <3>5, <3>6, FS_CardinalityType, FS_EmptySet
    <3>8. QED
      BY <3>4, <3>7
  <2>4. TrafficStays' /\ TrafficHasProvider'
    BY <2>1, <2>2, <2>3 DEF TrafficStays, TrafficHasProvider, NoteChannels
  <2>5. NotificationsTypeOK'
    BY <1>1, <2>2 DEF NotesInv, NotificationsTypeOK
  <2>6. QED
    BY <1>2, <2>2, <2>4, <2>5 DEF NotesInv
<1>5. QED
  BY <1>3, <1>4

-----------------------------------------------------------------------------
(* Every step keeps the invariant.                                         *)
LEMMA NotesStep == NotesInv /\ [NotificationsNext]_notificationsVars => NotesInv'
<1> SUFFICES ASSUME NotesInv, [NotificationsNext]_notificationsVars PROVE NotesInv'
  OBVIOUS
<1>1. ASSUME NEW n \in Notes,
             \/ \E route \in Routes : \/ CreateNotification(n, route)
                                      \/ \E success \in BOOLEAN : PersistNotification(n, route, success)
             \/ \E status \in Statuses : UpdateStatus(n, status)
      PROVE  NotesInv'
  BY <1>1, WriteStep
<1>2. ASSUME NEW u \in Updaters, NEW n \in Notes, ReadBeforeSent(u, n) PROVE NotesInv'
  BY <1>2, ReadBeforeSentStep
<1>3. ASSUME NEW u \in Updaters, WriteSent(u) PROVE NotesInv'
  BY <1>3, WriteSentStep
<1>4. CASE Elapse \/ AggregateOverview \/ \E from \in {0, NoNote} : GetOverview(from)
  BY <1>4, OverviewStep
<1>5. CASE GetChannelHealth \/ CountProviders
  BY <1>5, ChannelHealthStep
<1>6. CASE UNCHANGED notificationsVars
  <2>1. UNCHANGED <<notes, time, noteWrites, updating, view>>
    BY <1>6 DEF notificationsVars
  <2>2. time' \in Times /\ ViewIsRecord'
    BY <2>1 DEF NotesInv, NotificationsTypeOK, ViewIsRecord
  <2>3. QED
    BY <2>1, <2>2, ReadingStep
<1>7. QED
  BY <1>1, <1>2, <1>3, <1>4, <1>5, <1>6 DEF NotificationsNext

(* The invariant holds of every run.                                       *)
LEMMA NotesAlways == NotificationsSpec => []NotesInv
<1>1. NotificationsInit => NotesInv
  BY NotesInit
<1>2. NotesInv /\ [NotificationsNext]_notificationsVars => NotesInv'
  BY NotesStep
<1>3. QED
  BY <1>1, <1>2, PTL DEF NotificationsSpec

(* notifications.service.ts updateStatus, dashboard.service.ts             *)
(* getChannelHealth: whatever overlaps, what is marked sent has a sentAt,  *)
(* and a channel shown with traffic is shown with a provider.              *)
THEOREM NotificationsStayConsistent == NotificationsSpec => []NotificationsConsistent
<1>1. NotesInv => NotificationsConsistent
  BY DEF NotesInv, NotificationsConsistent
<1>2. QED
  BY <1>1, NotesAlways, PTL

(* A step that writes no late update leaves every sentAt as it is.         *)
LEMMA SentAtStep ==
  ASSUME NotesInv, NotificationsNext, NEW n \in Notes, notes[n] # NoNote, notes[n].sentAt # NoNote
  PROVE  \/ notes'[n].sentAt = notes[n].sentAt
         \/ \E u \in Updaters : /\ updating[u] # NoNote /\ updating'[u] = NoNote
                                /\ updating[u].id = n /\ updating[u].late
<1>1. /\ notes \in [Notes -> Notification \cup {NoNote}] /\ updating \in [Updaters -> SentUpdate \cup {NoNote}]
      /\ notes[n] \in Notification
  BY DEF NotesInv, NotificationsTypeOK
<1>2. CASE UNCHANGED notes
  BY <1>2
<1>3. ASSUME NEW m \in Notes, NEW route \in Routes,
             CreateNotification(m, route) \/ \E success \in BOOLEAN : PersistNotification(m, route, success)
      PROVE  notes'[n].sentAt = notes[n].sentAt
  <2>1. notes[m] = NoNote /\ \E note : notes' = [notes EXCEPT ![m] = note]
    BY <1>3 DEF CreateNotification, PersistNotification, Put
  <2>2. notes'[n] = notes[n]
    BY <1>1, <2>1
  <2>3. QED
    BY <2>2
<1>4. ASSUME NEW m \in Notes, NEW status \in Statuses, UpdateStatus(m, status)
      PROVE  notes'[n].sentAt = notes[n].sentAt
  <2>1. notes' = [notes EXCEPT ![m] = [notes[m] EXCEPT !.status = status]]
    BY <1>4 DEF UpdateStatus, Put
  <2>2. CASE m = n
    <3>1. notes'[n] = [notes[n] EXCEPT !.status = status]
      BY <1>1, <2>1, <2>2
    <3>2. QED
      BY <1>1, <3>1 DEF Notification
  <2>3. CASE m # n
    BY <1>1, <2>1, <2>3
  <2>4. QED
    BY <2>2, <2>3
<1>5. ASSUME NEW u \in Updaters, WriteSent(u)
      PROVE  \/ notes'[n].sentAt = notes[n].sentAt
             \/ /\ updating[u] # NoNote /\ updating'[u] = NoNote
                /\ updating[u].id = n /\ updating[u].late
  <2> DEFINE update == updating[u]
             m == update.id
             sentAt == IF update.sentAt = NoNote THEN notes[m].sentAt ELSE update.sentAt
  <2>1. /\ update # NoNote /\ updating'[u] = NoNote
        /\ notes' = [notes EXCEPT ![m] = [notes[m] EXCEPT !.status = "sent", !.sentAt = sentAt]]
    BY <1>5 DEF WriteSent, Put
  <2>2. update \in SentUpdate /\ m \in Notes /\ update.sentAt \in Times \cup {NoNote}
    BY <1>1, <2>1 DEF SentUpdate
  <2>3. CASE m # n
    BY <1>1, <2>1, <2>2, <2>3
  <2>4. CASE m = n
    <3>1. update.sentAt # NoNote => update.late
      BY <2>1, <2>4 DEF NotesInv, UpdatesKnow
    <3>2. ASSUME update.sentAt = NoNote PROVE notes'[n].sentAt = notes[n].sentAt
      <4>1. notes'[n] = [notes[n] EXCEPT !.status = "sent", !.sentAt = notes[n].sentAt]
        BY <1>1, <2>1, <2>4, <3>2
      <4>2. QED
        BY <1>1, <4>1 DEF Notification
    <3>3. QED
      BY <2>1, <2>4, <3>1, <3>2
  <2>5. QED
    BY <2>3, <2>4
<1>6. QED
  BY <1>2, <1>3, <1>4, <1>5 DEF NotificationsNext, ReadBeforeSent, Elapse, GetOverview, AggregateOverview,
     GetChannelHealth, CountProviders

(* notifications.service.ts:94, "Only set sentAt if not already set": a    *)
(* sentAt changes only by an update to SENT that read before another wrote.*)
THEOREM SentAtIsKept == NotificationsSpec => SentAtKeptUnlessOverlap
<1> DEFINE Kept == \A n \in Notes : notes[n] # NoNote /\ notes[n].sentAt # NoNote =>
                     \/ notes'[n].sentAt = notes[n].sentAt
                     \/ \E u \in Updaters : /\ updating[u] # NoNote /\ updating'[u] = NoNote
                                            /\ updating[u].id = n /\ updating[u].late
<1>1. NotesInv /\ [NotificationsNext]_notificationsVars => [Kept]_notificationsVars
  <2>1. NotesInv /\ NotificationsNext => Kept
    BY SentAtStep
  <2>2. QED
    BY <2>1
<1>2. QED
  BY <1>1, NotesAlways, PTL DEF NotificationsSpec, SentAtKeptUnlessOverlap

(* The quotient the two rates round to.                                    *)
LEMMA Quotient ==
  ASSUME NEW a \in Nat, NEW b \in Nat, b > 0
  PROVE  a \div b \in Nat /\ (a \div b) * b <= a /\ a < (a \div b) * b + b
OBVIOUS

(* dashboard.service.ts:282 errorRate, :504 successRate: the two are       *)
(* rounded apart, but no number of notifications makes a channel down whose*)
(* provider succeeds at more than 50 percent.                              *)
THEOREM DownSucceedsAtMostHalf ==
  ASSUME NEW total \in Nat, NEW failed \in Nat, NEW succeeded \in Nat,
         failed + succeeded <= total, HealthOf(total, failed) = "down"
  PROVE  Rate(succeeded, total) <= 5000
<1>1. total > 0 /\ Rate(failed, total) > 5000
  BY DEF HealthOf
<1> DEFINE whole == 2 * total
           errors == (20000 * failed + total) \div whole
           successes == (20000 * succeeded + total) \div whole
<1>2. /\ errors \in Nat /\ errors * whole <= 20000 * failed + total
      /\ successes \in Nat /\ successes * whole <= 20000 * succeeded + total
  BY <1>1, Quotient
<1>3. errors >= 5001 /\ Rate(succeeded, total) = successes
  BY <1>1, <1>2 DEF Rate
<1> HIDE DEF errors, successes
<1>4. 5001 * whole <= errors * whole
  <2>1. errors * whole = 5001 * whole + (errors - 5001) * whole
    BY <1>2, <1>1
  <2>2. (errors - 5001) * whole >= 0
    BY <1>2, <1>3, <1>1
  <2>3. QED
    BY <1>2, <2>1, <2>2, <1>1
<1>5. 10001 * total <= 20000 * failed
  BY <1>2, <1>4, <1>1
<1>6. successes * whole <= 10000 * total
  BY <1>2, <1>5, <1>1
<1>7. successes <= 5000
  <2>1. ASSUME successes >= 5001 PROVE FALSE
    <3>1. successes * whole = 5001 * whole + (successes - 5001) * whole
      BY <1>2, <1>1
    <3>2. (successes - 5001) * whole >= 0
      BY <1>2, <2>1, <1>1
    <3>3. QED
      BY <1>1, <1>2, <1>6, <3>1, <3>2
  <2>2. QED
    BY <1>2, <2>1
<1>8. QED
  BY <1>3, <1>7

-----------------------------------------------------------------------------
(***************************************************************************)
(* The consumer of the event stream.                                       *)
(***************************************************************************)
StreamTypes ==
  /\ written \in 0..MaxEvents /\ trimmed \in 0..written /\ last \in 0..written
  /\ unacked \subseteq given /\ given \subseteq 1..last /\ unsaved \subseteq given

ProcessTypes ==
  /\ running \in [Apis -> BOOLEAN]
  /\ stage \in [Apis -> {"off", "never", "read", "persist", "ack", "sleep"}]
  /\ entries \in [Apis -> Seq(given)] /\ saved \in [Apis -> Seq(given)]
  /\ ackIds \in [Apis -> SUBSET given]

(* What a process holds between two awaits of consumeLoop: the entries and *)
(* the ids it collected come from one batch.                               *)
HoldsOneBatch(api) ==
  /\ (stage[api] = "persist") = (entries[api] # <<>>)
  /\ stage[api] \notin {"persist", "ack"} => ackIds[api] = {}
  /\ IsFiniteSet(ackIds[api]) /\ Cardinality(ackIds[api]) + Len(entries[api]) <= Count

(* An id is collected once its create was answered.                        *)
CollectedWasHandled == \A api \in Apis : ackIds[api] \subseteq Tracked \cup unsaved

(* Each process works through the stream from front to back, and no two    *)
(* processes were ever given the same event.                               *)
Own(api) == Range(saved[api]) \cup Range(entries[api])

InOrder(api) ==
  /\ Increasing(entries[api]) /\ Increasing(saved[api])
  /\ Before(Range(saved[api]), Range(entries[api]))

Apart == \A a, b \in Apis : a # b => Own(a) \cap Own(b) = {}

Shaped == StreamTypes /\ ProcessTypes /\ \A api \in Apis : HoldsOneBatch(api)

Ordered == Apart /\ \A api \in Apis : InOrder(api)

ConsumerInv == Shaped /\ Ordered /\ CollectedWasHandled /\ AckedWasHandled

-----------------------------------------------------------------------------
(* What the shape of the state says of the identifiers in the list and in  *)
(* the stores.                                                             *)
LEMMA ConsumerFacts ==
  ASSUME Shaped
  PROVE  /\ {written, trimmed, last, Count, MaxEvents} \subseteq Nat /\ given \subseteq Nat
         /\ \A id \in given : id <= last
         /\ \A api \in Apis :
              /\ entries[api] \in Seq(given) /\ entries[api] \in Seq(Nat)
              /\ saved[api] \in Seq(given) /\ saved[api] \in Seq(Nat)
              /\ Range(entries[api]) \subseteq given /\ Range(saved[api]) \subseteq given
              /\ Own(api) \subseteq given
<1>1. {written, trimmed, last, Count, MaxEvents} \subseteq Nat
  BY ConsumerAssumption DEF Shaped, StreamTypes
<1>2. given \subseteq Nat /\ \A id \in given : id <= last
  BY <1>1 DEF Shaped, StreamTypes
<1>3. ASSUME NEW s \in Seq(given) PROVE s \in Seq(Nat) /\ Range(s) \subseteq given
  <2>1. s \in Seq(Nat)
    BY <1>2, SeqOfSuperset
  <2>2. DOMAIN s = 1..Len(s) /\ \A i \in 1..Len(s) : s[i] \in given
    BY ElementOfSeq
  <2>. QED  BY <2>1, <2>2 DEF Range
<1>. QED  BY <1>1, <1>2, <1>3 DEF Shaped, ProcessTypes, Own

(* An XREADGROUP hands out, in order, ids that nobody was handed before.   *)
LEMMA UnreadSpec ==
  ASSUME Shaped, Unread # <<>>
  PROVE  /\ Unread \in Seq(Nat) /\ Len(Unread) <= Count /\ Increasing(Unread)
         /\ Unread[Len(Unread)] \in (last + 1)..written
         /\ \A id \in Range(Unread) : id > last /\ id <= Unread[Len(Unread)]
<1>. DEFINE from == IF last < trimmed THEN trimmed ELSE last
            size == IF written - from < Count THEN written - from ELSE Count
<1>1. /\ from \in Nat /\ from >= last /\ from <= written /\ Count \in Nat \ {0} /\ written \in Nat
      /\ last \in Nat
  BY ConsumerFacts, ConsumerAssumption DEF Shaped, StreamTypes
<1>2. size \in Nat /\ size <= Count /\ from + size <= written
  BY <1>1
<1>3. Unread = [i \in 1..size |-> from + i]
  BY DEF Unread
<1>. HIDE DEF from, size
<1>4. Unread \in Seq(Nat) /\ Len(Unread) = size /\ DOMAIN Unread = 1..size
  BY <1>1, <1>2, <1>3
<1>5. size # 0
  BY <1>3, <1>4
<1>6. \A i \in 1..size : Unread[i] = from + i
  BY <1>3
<1>7. Increasing(Unread)
  BY <1>1, <1>2, <1>4, <1>6 DEF Increasing
<1>8. Unread[Len(Unread)] = from + size
  BY <1>2, <1>4, <1>5, <1>6
<1>9. ASSUME NEW id \in Range(Unread) PROVE id > last /\ id <= from + size
  <2>1. PICK i \in 1..size : id = from + i
    BY <1>4, <1>6 DEF Range
  <2>. QED  BY <1>1, <1>2, <2>1
<1>. QED  BY <1>1, <1>2, <1>4, <1>5, <1>7, <1>8, <1>9

-----------------------------------------------------------------------------
(* An empty stream and empty stores satisfy the invariant.                 *)
LEMMA ConsumerInit == Init => ConsumerInv
<1>. SUFFICES ASSUME Init PROVE ConsumerInv
  OBVIOUS
<1>1. /\ written = 0 /\ trimmed = 0 /\ last = 0 /\ unacked = {} /\ given = {} /\ unsaved = {}
      /\ \A api \in Apis : entries[api] = <<>> /\ saved[api] = <<>> /\ ackIds[api] = {} /\ stage[api] = "off"
  BY DEF Init
<1>2. StreamTypes
  BY <1>1, ConsumerAssumption DEF StreamTypes
<1>3. ProcessTypes
  BY DEF ProcessTypes, Init
<1>4. \A api \in Apis : HoldsOneBatch(api)
  <2>1. Cardinality({}) + Len(<<>>) <= Count
    BY ConsumerAssumption, FS_EmptySet
  <2>. QED  BY <1>1, <2>1, FS_EmptySet DEF HoldsOneBatch
<1>5. \A api \in Apis : InOrder(api) /\ Own(api) = {}
  BY <1>1 DEF InOrder, Own, Increasing, Before, Range
<1>6. Apart
  BY <1>5 DEF Apart
<1>7. AckedWasHandled /\ CollectedWasHandled
  BY <1>1 DEF AckedWasHandled, CollectedWasHandled
<1>. QED  BY <1>2, <1>3, <1>4, <1>5, <1>6, <1>7 DEF ConsumerInv, Shaped, Ordered

(* Steps that move no entry.                                               *)
LEMMA QuietStep ==
  ASSUME ConsumerInv, UNCHANGED <<last, unacked, given, entries, ackIds, saved, unsaved>>,
         written' \in written..MaxEvents, trimmed' \in 0..written',
         running' \in [Apis -> BOOLEAN],
         stage' \in [Apis -> {"off", "never", "read", "persist", "ack", "sleep"}],
         \A api \in Apis : \/ stage'[api] = stage[api]
                           \/ {stage[api], stage'[api]} \cap {"persist", "ack"} = {}
  PROVE  ConsumerInv'
<1>1. StreamTypes' /\ ProcessTypes'
  BY ConsumerFacts DEF ConsumerInv, Shaped, StreamTypes, ProcessTypes
<1>2. \A api \in Apis : HoldsOneBatch(api)'
  BY DEF ConsumerInv, Shaped, HoldsOneBatch
<1>3. Ordered'
  BY DEF ConsumerInv, Ordered, Apart, Own, InOrder
<1>4. AckedWasHandled' /\ CollectedWasHandled'
  BY DEF ConsumerInv, AckedWasHandled, CollectedWasHandled, Tracked
<1>. QED  BY <1>1, <1>2, <1>3, <1>4 DEF ConsumerInv, Shaped

(* The engine appends an event, and trims the oldest of a full stream.     *)
LEMMA LogDeliveryStep == ConsumerInv /\ LogDelivery => ConsumerInv'
<1>. SUFFICES ASSUME ConsumerInv, LogDelivery PROVE ConsumerInv'
  OBVIOUS
<1>1. /\ written' = written + 1 /\ written < MaxEvents
      /\ trimmed' \in {trimmed} \cup {t \in trimmed..written : t <= written + 1 - MaxLen}
      /\ UNCHANGED <<last, unacked, given, running, stage, entries, ackIds, saved, unsaved>>
  BY DEF LogDelivery, group, process, mongo
<1>2. written' \in written..MaxEvents /\ trimmed' \in 0..written'
  BY <1>1, ConsumerFacts DEF ConsumerInv, Shaped, StreamTypes
<1>. QED  BY <1>1, <1>2, QuietStep DEF ConsumerInv, Shaped, ProcessTypes

(* A process starts, wakes, leaves or shuts down: no entry and no record   *)
(* moves.                                                                  *)
LEMMA QuietProcessStep ==
  ASSUME ConsumerInv, NEW api \in Apis, Start(api) \/ Wake(api) \/ Leave(api) \/ Shutdown(api)
  PROVE  ConsumerInv'
<1>1. /\ UNCHANGED <<written, trimmed, last, unacked, given, entries, ackIds, saved, unsaved>>
      /\ \/ running' = running
         \/ \E b \in BOOLEAN : running' = [running EXCEPT ![api] = b]
      /\ \/ stage' = stage
         \/ \E p \in {"off", "never", "read"} :
               stage' = [stage EXCEPT ![api] = p] /\ stage[api] \in {"off", "sleep", "read"}
  BY DEF Start, Wake, Wakes, Leave, Shutdown, stream, group, mongo
<1>2. written' \in written..MaxEvents /\ trimmed' \in 0..written'
  BY <1>1, ConsumerFacts DEF ConsumerInv, Shaped, StreamTypes
<1>3. /\ running' \in [Apis -> BOOLEAN]
      /\ stage' \in [Apis -> {"off", "never", "read", "persist", "ack", "sleep"}]
  BY <1>1 DEF ConsumerInv, Shaped, ProcessTypes
<1>4. \A other \in Apis : \/ stage'[other] = stage[other]
                          \/ {stage[other], stage'[other]} \cap {"persist", "ack"} = {}
  BY <1>1 DEF ConsumerInv, Shaped, ProcessTypes
<1>. QED  BY <1>1, <1>2, <1>3, <1>4, QuietStep

-----------------------------------------------------------------------------
(* A batch handed out, whether or not its answer arrives.                  *)
LEMMA HandOut ==
  ASSUME ConsumerInv, NEW api \in Apis, Unread # <<>>,
         last' = Unread[Len(Unread)], unacked' = PendingAfter(Unread), given' = given \cup Range(Unread),
         UNCHANGED <<written, trimmed, running, ackIds, saved, unsaved>>,
         stage[api] = "read",
         \/ stage' = [stage EXCEPT ![api] = "sleep"] /\ entries' = entries
         \/ stage' = [stage EXCEPT ![api] = "persist"] /\ entries' = [entries EXCEPT ![api] = Unread]
  PROVE  ConsumerInv'
<1>1. /\ Unread \in Seq(Nat) /\ Len(Unread) <= Count /\ Increasing(Unread)
      /\ last' \in (last + 1)..written
      /\ \A id \in Range(Unread) : id > last /\ id <= last'
  BY UnreadSpec DEF ConsumerInv
<1>2. Range(Unread) \subseteq Nat /\ Unread \in Seq(given')
  <2>1. Len(Unread) \in Nat /\ DOMAIN Unread = 1..Len(Unread) /\ \A i \in 1..Len(Unread) : Unread[i] \in Nat
    BY <1>1, ElementOfSeq
  <2>2. \A i \in 1..Len(Unread) : Unread[i] \in Range(Unread)
    BY <2>1 DEF Range
  <2>3. Unread = [i \in 1..Len(Unread) |-> Unread[i]]
    BY <1>1
  <2>4. \A i \in 1..Len(Unread) : Unread[i] \in given'
    BY <2>2
  <2>5. Unread \in Seq(given')
    BY <2>1, <2>3, <2>4
  <2>6. Range(Unread) \subseteq Nat
    BY <2>1 DEF Range
  <2>. QED  BY <2>5, <2>6
<1>. HIDE DEF Unread
<1>3. /\ last \in Nat /\ last' \in 0..written /\ given \subseteq 1..last' /\ Range(Unread) \subseteq 1..last'
  BY <1>1, <1>2, ConsumerFacts DEF ConsumerInv, Shaped, StreamTypes
<1>4. StreamTypes'
  BY <1>3, ConsumerFacts DEF ConsumerInv, Shaped, StreamTypes, PendingAfter
<1>5. \A s : s \in Seq(given) => s \in Seq(given')
  BY SeqOfSuperset
<1>6. ProcessTypes'
  <2>1. entries \in [Apis -> Seq(given)] /\ saved \in [Apis -> Seq(given)] /\ ackIds \in [Apis -> SUBSET given]
    BY DEF ConsumerInv, Shaped, ProcessTypes
  <2>2. entries' \in [Apis -> Seq(given')] /\ saved' \in [Apis -> Seq(given')]
    BY <1>2, <1>5, <2>1
  <2>3. ackIds' \in [Apis -> SUBSET given']
    BY <2>1
  <2>4. stage' \in [Apis -> {"off", "never", "read", "persist", "ack", "sleep"}] /\ running' \in [Apis -> BOOLEAN]
    BY DEF ConsumerInv, Shaped, ProcessTypes
  <2>. QED  BY <2>2, <2>3, <2>4 DEF ProcessTypes
<1>7. entries'[api] = <<>> \/ entries'[api] = Unread
  BY DEF ConsumerInv, Shaped, ProcessTypes, HoldsOneBatch
<1>8. \A other \in Apis \ {api} : entries'[other] = entries[other] /\ stage'[other] = stage[other]
  BY DEF ConsumerInv, Shaped, ProcessTypes
<1>9. ASSUME NEW other \in Apis PROVE HoldsOneBatch(other)'
  <2>1. CASE other # api
    BY <1>8, <2>1 DEF ConsumerInv, Shaped, HoldsOneBatch
  <2>2. CASE other = api
    <3>1. ackIds[api] = {} /\ entries[api] = <<>>
      BY DEF ConsumerInv, Shaped, HoldsOneBatch
    <3>2. \/ stage'[api] = "sleep" /\ entries'[api] = <<>>
          \/ stage'[api] = "persist" /\ entries'[api] = Unread
      BY <3>1 DEF ConsumerInv, Shaped, ProcessTypes
    <3>3. IsFiniteSet({}) /\ Cardinality({}) = 0 /\ Len(<<>>) = 0
      BY FS_EmptySet
    <3>4. Cardinality({}) + Len(entries'[api]) <= Count
      BY <1>1, <3>2, <3>3, ConsumerFacts DEF ConsumerInv
    <3>. QED  BY <2>2, <3>1, <3>2, <3>3, <3>4 DEF HoldsOneBatch
  <2>. QED  BY <2>1, <2>2
<1>10. ASSUME NEW other \in Apis PROVE InOrder(other)'
  <2>1. CASE entries'[other] = entries[other]
    BY <2>1 DEF ConsumerInv, Ordered, InOrder
  <2>2. CASE entries'[other] = Unread
    <3>1. \A x \in Range(saved[other]) : x \in Nat /\ x <= last
      BY ConsumerFacts DEF ConsumerInv
    <3>2. \A x \in Range(saved[other]), id \in Range(Unread) : x < id
      BY <1>1, <1>2, <1>3, <3>1
    <3>. QED  BY <1>1, <2>2, <3>2 DEF ConsumerInv, Ordered, InOrder, Before
  <2>3. CASE entries'[other] = <<>>
    BY <2>3 DEF ConsumerInv, Ordered, InOrder, Increasing, Before, Range
  <2>. QED  BY <1>7, <1>8, <2>1, <2>2, <2>3
<1>11. \A other \in Apis \ {api} : Own(other)' = Own(other)
  BY <1>8 DEF Own
<1>12. Own(api)' \subseteq Own(api) \cup Range(Unread)
  <2>1. Range(<<>>) = {}
    BY DEF Range
  <2>. QED  BY <1>7, <2>1 DEF Own
<1>13. \A other \in Apis : Own(other) \cap Range(Unread) = {}
  BY <1>1, <1>2, <1>3, ConsumerFacts DEF ConsumerInv
<1>14. Apart'
  BY <1>11, <1>12, <1>13 DEF ConsumerInv, Ordered, Apart
<1>15. AckedWasHandled' /\ CollectedWasHandled'
  BY DEF ConsumerInv, AckedWasHandled, CollectedWasHandled, Tracked, PendingAfter
<1>. QED  BY <1>4, <1>6, <1>9, <1>10, <1>14, <1>15 DEF ConsumerInv, Shaped, Ordered

(* A process is given the entries the group has given to nobody yet.       *)
LEMMA ReadStep ==
  ASSUME ConsumerInv, NEW api \in Apis, Read(api)
  PROVE  ConsumerInv'
<1>1. PICK done \in BOOLEAN, failed \in BOOLEAN :
        /\ Command(done, failed)
        /\ IF done
           THEN /\ last' = Unread[Len(Unread)]
                /\ unacked' = PendingAfter(Unread) /\ given' = given \cup Range(Unread)
           ELSE UNCHANGED group
        /\ IF failed
           THEN /\ stage' = [stage EXCEPT ![api] = "sleep"] /\ UNCHANGED entries
           ELSE /\ stage' = [stage EXCEPT ![api] = "persist"]
                /\ entries' = [entries EXCEPT ![api] = Unread]
  BY DEF Read
<1>2. /\ stage[api] = "read" /\ Unread # <<>>
      /\ UNCHANGED <<written, trimmed, running, ackIds, saved, unsaved>>
  BY DEF Read, stream, mongo
<1>3. CASE done
  BY <1>1, <1>2, <1>3, HandOut
<1>4. CASE ~done
  <2>1. /\ UNCHANGED <<written, trimmed, last, unacked, given, running, entries, ackIds, saved, unsaved>>
        /\ stage' = [stage EXCEPT ![api] = "sleep"]
    BY <1>1, <1>2, <1>4 DEF Command, group
  <2>2. written' \in written..MaxEvents /\ trimmed' \in 0..written'
    BY <2>1, ConsumerFacts DEF ConsumerInv, Shaped, StreamTypes
  <2>3. /\ running' \in [Apis -> BOOLEAN]
        /\ stage' \in [Apis -> {"off", "never", "read", "persist", "ack", "sleep"}]
    BY <2>1 DEF ConsumerInv, Shaped, ProcessTypes
  <2>4. \A other \in Apis : \/ stage'[other] = stage[other]
                            \/ {stage[other], stage'[other]} \cap {"persist", "ack"} = {}
    BY <1>2, <2>1 DEF ConsumerInv, Shaped, ProcessTypes
  <2>. QED  BY <2>1, <2>2, <2>3, <2>4, QuietStep
<1>. QED  BY <1>3, <1>4

-----------------------------------------------------------------------------
(* The create of the entry at hand, answered or not.                       *)
LEMMA PersistStep ==
  ASSUME ConsumerInv, NEW api \in Apis, Persist(api)
  PROVE  ConsumerInv'
<1>. DEFINE id == Head(entries[api])
            rest == Tail(entries[api])
<1>1. /\ stage[api] = "persist"
      /\ \/ saved' = [saved EXCEPT ![api] = Append(@, id)] /\ unsaved' = unsaved
         \/ saved' = saved /\ unsaved' = unsaved \cup {id}
      /\ ackIds' = [ackIds EXCEPT ![api] = ackIds[api] \cup {id}]
      /\ entries' = [entries EXCEPT ![api] = rest]
      /\ stage' = [stage EXCEPT ![api] = IF Len(entries[api]) = 1 THEN "ack" ELSE "persist"]
      /\ UNCHANGED <<written, trimmed, last, unacked, given, running>>
  BY DEF Persist, AckIt, stream, group
<1>2. /\ entries[api] \in Seq(given) /\ entries[api] \in Seq(Nat) /\ entries[api] # <<>>
      /\ saved[api] \in Seq(given) /\ saved[api] \in Seq(Nat)
  BY <1>1, ConsumerFacts DEF ConsumerInv, Shaped, HoldsOneBatch
<1>3. /\ id \in given /\ id \in Nat /\ rest \in Seq(given) /\ Len(entries[api]) \in Nat
      /\ Len(rest) = Len(entries[api]) - 1 /\ Range(entries[api]) = {id} \cup Range(rest)
  BY <1>2, HeadAndTail
<1>4. Increasing(rest) /\ \A x \in Range(rest) : id < x
  BY <1>2, IncreasingTail DEF ConsumerInv, Ordered, InOrder
<1>. HIDE DEF id, rest
<1>5. /\ Append(saved[api], id) \in Seq(given)
      /\ Range(Append(saved[api], id)) = Range(saved[api]) \cup {id}
  BY <1>2, <1>3, AppendSpec
<1>6. Increasing(Append(saved[api], id))
  BY <1>2, <1>3, IncreasingAppend DEF ConsumerInv, Ordered, InOrder, Before
<1>7. /\ entries'[api] = rest /\ ackIds'[api] = ackIds[api] \cup {id}
      /\ \/ saved'[api] = Append(saved[api], id) /\ unsaved' = unsaved
         \/ saved'[api] = saved[api] /\ unsaved' = unsaved \cup {id}
      /\ \A other \in Apis \ {api} :
           /\ entries'[other] = entries[other] /\ ackIds'[other] = ackIds[other]
           /\ saved'[other] = saved[other] /\ stage'[other] = stage[other]
      /\ stage'[api] = IF Len(entries[api]) = 1 THEN "ack" ELSE "persist"
  BY <1>1 DEF ConsumerInv, Shaped, ProcessTypes
<1>8. StreamTypes'
  BY <1>1, <1>3 DEF ConsumerInv, Shaped, StreamTypes
<1>9. ProcessTypes'
  <2>1. entries' \in [Apis -> Seq(given)]
    BY <1>1, <1>3 DEF ConsumerInv, Shaped, ProcessTypes
  <2>2. saved' \in [Apis -> Seq(given)]
    BY <1>1, <1>5 DEF ConsumerInv, Shaped, ProcessTypes
  <2>3. ackIds' \in [Apis -> SUBSET given]
    BY <1>1, <1>3 DEF ConsumerInv, Shaped, ProcessTypes
  <2>4. stage' \in [Apis -> {"off", "never", "read", "persist", "ack", "sleep"}] /\ running' \in [Apis -> BOOLEAN]
    BY <1>1 DEF ConsumerInv, Shaped, ProcessTypes
  <2>. QED  BY <1>1, <2>1, <2>2, <2>3, <2>4 DEF ProcessTypes
<1>10. HoldsOneBatch(api)'
  <2>1. (Len(entries[api]) = 1) <=> (rest = <<>>)
    <3>0. rest \in Seq(given)
      BY <1>3
    <3>1. Len(<<>>) = 0 /\ (rest # <<>> => Len(rest) >= 1)
      BY <3>0
    <3>2. rest # <<>> => Len(rest) # 0
      <4>1. \A n \in {0} : ~(n >= 1)
        OBVIOUS
      <4>. QED  BY <3>1, <4>1, Zenon
    <3>3. Len(entries[api]) = 1 <=> Len(rest) = 0
      BY <1>3
    <3>4. rest = <<>> => Len(rest) = 0
      <4>1. ASSUME rest = <<>> PROVE Len(rest) = 0
        BY <3>1, <4>1, Zenon
      <4>. QED  BY <4>1
    <3>. QED  BY <3>2, <3>3, <3>4, Zenon
  <2>2. /\ IsFiniteSet(ackIds[api] \cup {id}) /\ Cardinality(ackIds[api]) \in Nat
        /\ Cardinality(ackIds[api] \cup {id}) <= Cardinality(ackIds[api]) + 1
        /\ Cardinality(ackIds[api] \cup {id}) \in Nat
    <3>1. ASSUME NEW S, IsFiniteSet(S), NEW x
          PROVE  /\ IsFiniteSet(S \cup {x}) /\ Cardinality(S) \in Nat
                 /\ Cardinality(S \cup {x}) <= Cardinality(S) + 1 /\ Cardinality(S \cup {x}) \in Nat
      <4>1. /\ IsFiniteSet(S \cup {x})
            /\ Cardinality(S \cup {x}) = IF x \in S THEN Cardinality(S) ELSE Cardinality(S) + 1
        BY <3>1, FS_AddElement
      <4>2. Cardinality(S) \in Nat
        BY <3>1, FS_CardinalityType
      <4>. QED  BY <4>1, <4>2
    <3>2. IsFiniteSet(ackIds[api])
      BY DEF ConsumerInv, Shaped, HoldsOneBatch
    <3>. QED  BY <3>1, <3>2
  <2>3. Cardinality(ackIds'[api]) + Len(entries'[api]) <= Count
    BY <1>3, <1>7, <2>2, ConsumerFacts DEF ConsumerInv, Shaped, HoldsOneBatch
  <2>. QED  BY <1>7, <2>1, <2>2, <2>3 DEF HoldsOneBatch
<1>11. \A other \in Apis : HoldsOneBatch(other)'
  BY <1>7, <1>10, ZenonT(30) DEF ConsumerInv, Shaped, HoldsOneBatch
<1>12. InOrder(api)'
  <2>1. Before(Range(saved[api]) \cup {id}, Range(rest))
    BY <1>3, <1>4 DEF ConsumerInv, Ordered, InOrder, Before
  <2>2. CASE saved'[api] = Append(saved[api], id)
    BY <1>4, <1>5, <1>6, <1>7, <2>1, <2>2 DEF InOrder
  <2>3. CASE saved'[api] = saved[api]
    BY <1>4, <1>7, <2>1, <2>3 DEF InOrder, ConsumerInv, Ordered, Before
  <2>. QED  BY <1>7, <2>2, <2>3
<1>13. \A other \in Apis : InOrder(other)'
  BY <1>7, <1>12 DEF ConsumerInv, Ordered, InOrder
<1>14. Own(api)' \subseteq Own(api) /\ \A other \in Apis \ {api} : Own(other)' = Own(other)
  BY <1>3, <1>5, <1>7 DEF Own
<1>15. Apart'
  BY <1>14 DEF ConsumerInv, Ordered, Apart
<1>16. Tracked \cup unsaved \cup {id} \subseteq Tracked' \cup unsaved'
  <2>1. Range(saved[api]) \subseteq Range(saved'[api]) /\ id \in Range(saved'[api]) \cup unsaved'
    BY <1>5, <1>7
  <2>2. \A other \in Apis : Range(saved[other]) \subseteq Range(saved'[other])
    BY <1>7, <2>1
  <2>. QED  BY <1>7, <2>1, <2>2 DEF Tracked
<1>17. AckedWasHandled' /\ CollectedWasHandled'
  BY <1>1, <1>7, <1>16 DEF ConsumerInv, AckedWasHandled, CollectedWasHandled
<1>. QED  BY <1>8, <1>9, <1>11, <1>13, <1>15, <1>17 DEF ConsumerInv, Shaped, Ordered

(* A process acknowledges the entries of its batch.                        *)
LEMMA AckStep ==
  ASSUME ConsumerInv, NEW api \in Apis, Ack(api)
  PROVE  ConsumerInv'
<1>1. /\ stage[api] = "ack"
      /\ unacked' = unacked \/ unacked' = unacked \ ackIds[api]
      /\ ackIds' = [ackIds EXCEPT ![api] = {}]
      /\ \E p \in {"sleep", "read"} : stage' = [stage EXCEPT ![api] = p]
      /\ UNCHANGED <<written, trimmed, last, given, running, entries, saved, unsaved>>
  BY DEF Ack, stream, mongo
<1>2. StreamTypes' /\ ProcessTypes'
  BY <1>1 DEF ConsumerInv, Shaped, StreamTypes, ProcessTypes
<1>3. ASSUME NEW other \in Apis PROVE HoldsOneBatch(other)'
  <2>1. CASE other # api
    BY <1>1, <2>1 DEF ConsumerInv, Shaped, ProcessTypes, HoldsOneBatch
  <2>2. CASE other = api
    <3>1. ackIds'[api] = {} /\ entries'[api] = <<>> /\ stage'[api] \in {"sleep", "read"}
      BY <1>1 DEF ConsumerInv, Shaped, ProcessTypes, HoldsOneBatch
    <3>2. IsFiniteSet({}) /\ Cardinality({}) + Len(<<>>) <= Count
      BY FS_EmptySet, ConsumerAssumption
    <3>. QED  BY <2>2, <3>1, <3>2 DEF HoldsOneBatch
  <2>. QED  BY <2>1, <2>2
<1>4. Ordered'
  BY <1>1 DEF ConsumerInv, Ordered, Apart, Own, InOrder
<1>5. AckedWasHandled' /\ CollectedWasHandled'
  <2>1. \A other \in Apis : ackIds'[other] \subseteq ackIds[other]
    BY <1>1 DEF ConsumerInv, Shaped, ProcessTypes
  <2>. QED  BY <1>1, <2>1 DEF ConsumerInv, AckedWasHandled, CollectedWasHandled, Tracked
<1>. QED  BY <1>2, <1>3, <1>4, <1>5 DEF ConsumerInv, Shaped

(* A process dies, and drops the batch it had in hand.                     *)
LEMMA CrashStep ==
  ASSUME ConsumerInv, NEW api \in Apis, Crash(api)
  PROVE  ConsumerInv'
<1>1. /\ running' = [running EXCEPT ![api] = FALSE] /\ stage' = [stage EXCEPT ![api] = "off"]
      /\ entries' = [entries EXCEPT ![api] = <<>>] /\ ackIds' = [ackIds EXCEPT ![api] = {}]
      /\ UNCHANGED <<written, trimmed, last, unacked, given, saved, unsaved>>
  BY DEF Crash, stream, group, mongo
<1>2. /\ entries'[api] = <<>> /\ ackIds'[api] = {} /\ stage'[api] = "off" /\ Range(<<>>) = {}
      /\ \A other \in Apis \ {api} :
           entries'[other] = entries[other] /\ ackIds'[other] = ackIds[other] /\ stage'[other] = stage[other]
  BY <1>1 DEF ConsumerInv, Shaped, ProcessTypes, Range
<1>3. <<>> \in Seq(given)
  OBVIOUS
<1>4. StreamTypes' /\ ProcessTypes'
  BY <1>1, <1>3 DEF ConsumerInv, Shaped, StreamTypes, ProcessTypes
<1>5. ASSUME NEW other \in Apis PROVE HoldsOneBatch(other)'
  <2>1. IsFiniteSet({}) /\ Cardinality({}) + Len(<<>>) <= Count
    BY FS_EmptySet, ConsumerAssumption
  <2>. QED  BY <1>2, <2>1 DEF ConsumerInv, Shaped, HoldsOneBatch
<1>6. \A other \in Apis : InOrder(other)' /\ Own(other)' \subseteq Own(other)
  BY <1>1, <1>2 DEF ConsumerInv, Ordered, InOrder, Own, Increasing, Before
<1>7. Apart'
  BY <1>6 DEF ConsumerInv, Ordered, Apart
<1>8. AckedWasHandled' /\ CollectedWasHandled'
  BY <1>1, <1>2 DEF ConsumerInv, AckedWasHandled, CollectedWasHandled, Tracked
<1>. QED  BY <1>4, <1>5, <1>6, <1>7, <1>8 DEF ConsumerInv, Shaped, Ordered

-----------------------------------------------------------------------------
(* Every step of the engine or of a process preserves the invariant.       *)
LEMMA ConsumerNext == ConsumerInv /\ [Next]_vars => ConsumerInv'
<1>. SUFFICES ASSUME ConsumerInv, [Next]_vars PROVE ConsumerInv'
  OBVIOUS
<1>1. CASE LogDelivery
  BY <1>1, LogDeliveryStep
<1>2. ASSUME NEW api \in Apis, Start(api) \/ Loop(api) \/ Shutdown(api) \/ Crash(api)
      PROVE  ConsumerInv'
  BY <1>2, QuietProcessStep, ReadStep, PersistStep, AckStep, CrashStep DEF Loop
<1>3. CASE UNCHANGED vars
  <2>1. UNCHANGED <<written, trimmed, last, unacked, given, running, stage, entries, ackIds, saved, unsaved>>
    BY <1>3 DEF vars, stream, group, process, mongo
  <2>2. written' \in written..MaxEvents /\ trimmed' \in 0..written'
    BY <2>1, ConsumerFacts DEF ConsumerInv, Shaped, StreamTypes
  <2>. QED  BY <2>1, <2>2, QuietStep DEF ConsumerInv, Shaped, ProcessTypes
<1>. QED  BY <1>1, <1>2, <1>3 DEF Next

(* The invariant holds in every reachable state.                           *)
LEMMA ConsumerAlways == Spec => []ConsumerInv
<1>. QED  BY ConsumerInit, ConsumerNext, PTL DEF Spec

(* What a process created is in stream order, and two processes have       *)
(* nothing in common, so no event was kept twice.                          *)
LEMMA KeptOnce == ConsumerInv => NoDoubleTracking
<1>. SUFFICES ASSUME ConsumerInv, NEW a \in Apis, NEW b \in Apis, NEW i \in 1..Len(saved[a]), NEW j \in 1..Len(saved[b]),
                     saved[a][i] = saved[b][j]
              PROVE  a = b /\ i = j
  BY DEF NoDoubleTracking
<1>1. /\ saved[a] \in Seq(Nat) /\ saved[b] \in Seq(Nat)
  BY ConsumerFacts DEF ConsumerInv
<1>2. /\ DOMAIN saved[a] = 1..Len(saved[a]) /\ DOMAIN saved[b] = 1..Len(saved[b])
      /\ saved[a][i] \in Nat /\ saved[b][j] \in Nat
  <2>1. \A s \in Seq(Nat) : DOMAIN s = 1..Len(s) /\ \A k \in 1..Len(s) : s[k] \in Nat
    BY ElementOfSeq
  <2>. QED  BY <1>1, <2>1
<1>3. saved[a][i] \in Own(a) /\ saved[b][j] \in Own(b)
  BY <1>2 DEF Own, Range
<1>4. a = b
  BY <1>3 DEF ConsumerInv, Ordered, Apart
<1>5. ~(i < j) /\ ~(j < i)
  BY <1>2, <1>4 DEF ConsumerInv, Ordered, InOrder, Increasing
<1>. QED  BY <1>4, <1>5

(* Whatever fails, stops or crashes, no event is kept twice, none leaves   *)
(* the pending list unhandled, and no batch exceeds COUNT.                 *)
THEOREM ConsumerStaysConsistent == Spec => []Consistent
<1>1. ASSUME ConsumerInv PROVE Consistent
  <2>1. ASSUME NEW api \in Apis PROVE Len(entries[api]) <= Count /\ Cardinality(ackIds[api]) <= Count
    <3>1. /\ Len(entries[api]) \in Nat /\ Cardinality(ackIds[api]) \in Nat
          /\ Cardinality(ackIds[api]) + Len(entries[api]) <= Count /\ Count \in Nat
      BY <1>1, ConsumerFacts, FS_CardinalityType DEF ConsumerInv, Shaped, HoldsOneBatch
    <3>. QED  BY <3>1
  <2>2. TypeOK
    BY <1>1, <2>1 DEF ConsumerInv, Shaped, StreamTypes, ProcessTypes, HoldsOneBatch, TypeOK
  <2>. QED  BY <1>1, <2>2, KeptOnce DEF ConsumerInv, Consistent
<1>. QED  BY <1>1, ConsumerAlways, PTL

(* What any one process of the API creates is a lossy but ordered and      *)
(* duplicate-free copy of the stream.                                      *)
FifoOf(api) == INSTANCE LossyFifo WITH sent <- written, got <- saved[api]

(* Every step maps to a step of the lossy queue or to a stutter,           *)
(* whichever process is watched.                                           *)
LEMMA FifoStep ==
  ASSUME ConsumerInv, [Next]_vars, NEW api \in Apis
  PROVE  [FifoOf(api)!Next]_<<written, saved[api]>>
<1>1. CASE UNCHANGED <<written, saved>>
  BY <1>1
<1>2. CASE LogDelivery
  <2>1. written' = written + 1 /\ saved' = saved /\ written \in Nat
    BY <1>2, ConsumerFacts DEF LogDelivery, mongo, ConsumerInv
  <2>. QED  BY <2>1 DEF FifoOf!Next, FifoOf!Send
<1>3. ASSUME NEW other \in Apis, Persist(other) PROVE [FifoOf(api)!Next]_<<written, saved[api]>>
  <2>. DEFINE id == Head(entries[other])
  <2>1. /\ entries[other] # <<>> /\ entries[other] \in Seq(given) /\ saved[other] \in Seq(Nat)
        /\ written' = written
        /\ saved' = saved \/ saved' = [saved EXCEPT ![other] = Append(@, id)]
    BY <1>3, ConsumerFacts DEF Persist, ConsumerInv, Shaped, HoldsOneBatch, stream
  <2>2. id \in given /\ id \in Range(entries[other])
    BY <2>1, HeadAndTail
  <2>3. id \in Nat /\ id <= written /\ written \in Nat /\ id >= 1
    <3>1. /\ written \in Nat /\ last \in Nat /\ given \subseteq 1..last /\ last <= written
      BY ConsumerFacts DEF ConsumerInv, Shaped, StreamTypes
    <3>2. \A x \in 1..last : x \in Nat /\ x <= last /\ x >= 1
      BY <3>1
    <3>. HIDE DEF id
    <3>3. id \in 1..last
      BY <2>2, <3>1
    <3>. QED  BY <3>1, <3>2, <3>3
  <2>4. FifoOf(other)!Latest < id /\ FifoOf(other)!Latest \in Nat
    <3>1. CASE saved[other] = <<>>
      BY <2>3, <3>1 DEF FifoOf!Latest
    <3>2. CASE saved[other] # <<>>
      <4>1. Len(saved[other]) \in 1..Len(saved[other]) /\ DOMAIN saved[other] = 1..Len(saved[other])
        BY <2>1, <3>2
      <4>2. saved[other][Len(saved[other])] \in Range(saved[other])
        BY <4>1 DEF Range
      <4>3. saved[other][Len(saved[other])] < id /\ saved[other][Len(saved[other])] \in Nat
        BY <2>1, <2>2, <4>1, <4>2 DEF ConsumerInv, Ordered, InOrder, Before
      <4>. QED  BY <3>2, <4>3 DEF FifoOf!Latest
    <3>. QED  BY <3>1, <3>2
  <2>. HIDE DEF id
  <2>5. CASE saved'[api] = saved[api]
    BY <2>1, <2>5
  <2>6. CASE saved'[api] # saved[api]
    <3>1. other = api /\ saved'[api] = Append(saved[api], id)
      BY <2>1, <2>6 DEF ConsumerInv, Shaped, ProcessTypes
    <3>2. id \in (FifoOf(api)!Latest + 1)..written
      BY <2>3, <2>4, <3>1
    <3>. QED  BY <2>1, <3>1, <3>2 DEF FifoOf!Next, FifoOf!Arrive
  <2>. QED  BY <2>5, <2>6
<1>4. ASSUME NEW other \in Apis, ~Persist(other), Start(other) \/ Loop(other) \/ Shutdown(other) \/ Crash(other)
      PROVE  UNCHANGED <<written, saved>>
  BY <1>4 DEF Start, Loop, Shutdown, Crash, Read, Ack, Wake, Leave, stream, mongo
<1>5. CASE UNCHANGED vars
  BY <1>1, <1>5 DEF vars, stream, mongo
<1>. QED  BY <1>1, <1>2, <1>3, <1>4, <1>5 DEF Next

(* What each process of the API creates in MongoDB is, by itself, what     *)
(* LossyFifo allows: events of the stream, each once and in order.         *)
THEOREM ConsumerInOrderForEach ==
  ASSUME NEW api \in Apis
  PROVE  Spec => FifoOf(api)!Spec
<1>1. Init => FifoOf(api)!Init
  BY DEF Init, FifoOf!Init
<1>2. ConsumerInv /\ [Next]_vars => [FifoOf(api)!Next]_<<written, saved[api]>>
  BY FifoStep
<1>. QED  BY <1>1, <1>2, ConsumerAlways, PTL DEF Spec, FifoOf!Spec

(* The process the run watches is one of them.                             *)
THEOREM ConsumerInOrderAtMostOnce == Spec => TrackedInOrderAtMostOnce
<1>1. Mine \in Apis
  BY ConsumerAssumption DEF Mine
<1>2. Init => Fifo!Init
  BY <1>1 DEF Init, Fifo!Init
<1>3. ConsumerInv /\ [Next]_vars => [Fifo!Next]_<<written, saved[Mine]>>
  BY <1>1, FifoStep DEF FifoOf!Next, FifoOf!Send, FifoOf!Arrive, FifoOf!Latest,
                        Fifo!Next, Fifo!Send, Fifo!Arrive, Fifo!Latest
<1>. QED  BY <1>2, <1>3, ConsumerAlways, PTL DEF Spec, TrackedInOrderAtMostOnce, Fifo!Spec
=============================================================================
