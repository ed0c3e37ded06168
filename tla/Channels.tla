------------------------------ MODULE Channels ------------------------------
(***************************************************************************)
(* Channels: ChannelRegistryService, ChannelsService and the providers     *)
(* (apps/notiflo/src/app/channels).  The registry keeps, per channel, the  *)
(* providers in the order they registered; the first is the primary.       *)
(* Nothing stops two from having one name.  A send awaits its provider     *)
(* while others register and leave.                                        *)
(***************************************************************************)
EXTENDS Integers, Sequences, SequencesExt

CONSTANTS Providers,        \* records: id, channel, name
          ChannelNames, ChNone,
          Senders,          \* sends under way at once
          MaxRegistrations, MaxSends   \* bounds

ASSUME ChannelsAssumption ==
  /\ \A p \in Providers : p.channel \in ChannelNames
  /\ {MaxRegistrations, MaxSends} \subseteq Nat

VARIABLES registered,   \* channel -> sequence of [provider, at]
          registrations,
          stored,       \* InAppProvider's storedMessages, as the numbers of the sends
          cleared,      \* history: sends whose message clearStoredMessages dropped
          sending,      \* per sender, its send or answer
          sends

channelsVars == <<registered, registrations, stored, cleared, sending, sends>>

SendState == {ChNone} \cup [step : {"sending"}, provider : Providers, send : 1..MaxSends]
                      \cup [step : {"answered"}, provider : Providers, send : 1..MaxSends, success : BOOLEAN]

ChannelsInit ==
  /\ registered = [channel \in ChannelNames |-> <<>>] /\ registrations = 0
  /\ stored = {} /\ cleared = {}
  /\ sending = [sender \in Senders |-> ChNone] /\ sends = 0

RegisteredFirst(channel, entry) == <<entry>> \o registered[channel]   \* mutant: newest is primary
WithProvider(channel, entry) == Append(registered[channel], entry)

Register(provider) ==
  /\ registrations < MaxRegistrations
  /\ registrations' = registrations + 1
  /\ registered' = [registered EXCEPT ![provider.channel] =
       WithProvider(provider.channel, [provider |-> provider, at |-> registrations'])]
  /\ UNCHANGED <<stored, cleared, sending, sends>>

Named(channel, name) == {i \in DOMAIN registered[channel] : registered[channel][i].provider.name = name}

FirstOf(indices) == CHOOSE i \in indices : \A j \in indices : i <= j

WithoutProvider(channel, indices) == RemoveAt(registered[channel], FirstOf(indices))

Unregister(channel, name) ==
  /\ Named(channel, name) # {}
  /\ registered' = [registered EXCEPT ![channel] = WithoutProvider(channel, Named(channel, name))]
  /\ UNCHANGED <<registrations, stored, cleared, sending, sends>>

-----------------------------------------------------------------------------
(* getProvider: by name, or the primary, whatever its status.              *)
Candidates(channel, name) ==
  IF name = ChNone THEN DOMAIN registered[channel] ELSE Named(channel, name)

StoredWith(send) == stored \cup {send}

(* ChannelsService.send throws ChannelNotConfiguredError without a         *)
(* candidate.  doSend of the in-app provider stores before it answers.     *)
Send(sender, channel, name) ==
  /\ sends < MaxSends /\ sends' = sends + 1
  /\ sending[sender] # ChNone => sending[sender].step = "answered"
  /\ Candidates(channel, name) # {}
  /\ LET provider == registered[channel][FirstOf(Candidates(channel, name))].provider
     IN  /\ sending' = [sending EXCEPT ![sender] = [step |-> "sending", provider |-> provider, send |-> sends']]
         /\ stored' = IF channel = "in_app" THEN StoredWith(sends') ELSE stored
  /\ UNCHANGED <<registered, registrations, cleared>>

(* BaseProvider.send: an error of doSend is an answer without success.     *)
AnswerOf(send, success) ==
  [step |-> "answered", provider |-> send.provider, send |-> send.send, success |-> success]

FinishSend(sender, success) ==
  /\ sending[sender] # ChNone /\ sending[sender].step = "sending"
  /\ sending[sender].provider.channel = "in_app" => success
  /\ sending' = [sending EXCEPT ![sender] = AnswerOf(@, success)]
  /\ UNCHANGED <<registered, registrations, stored, cleared, sends>>

ClearStoredMessages ==
  /\ stored # {}
  /\ cleared' = cleared \cup stored /\ stored' = {}
  /\ UNCHANGED <<registered, registrations, sending, sends>>

ChannelsNext ==
  \/ \E provider \in Providers : Register(provider) \/ Unregister(provider.channel, provider.name)
  \/ \E sender \in Senders, channel \in ChannelNames,
        name \in {p.name : p \in Providers} \cup {ChNone} : Send(sender, channel, name)
  \/ \E sender \in Senders, success \in BOOLEAN : FinishSend(sender, success)
  \/ ClearStoredMessages

ChannelsSpec == ChannelsInit /\ [][ChannelsNext]_channelsVars

-----------------------------------------------------------------------------
ChannelsTypeOK ==
  /\ DOMAIN registered = ChannelNames
  /\ \A channel \in ChannelNames :
       registered[channel] \in Seq([provider : {p \in Providers : p.channel = channel},
                                   at : 1..registrations])
  /\ registrations \in 0..MaxRegistrations /\ sends \in 0..MaxSends
  /\ stored \subseteq 1..sends /\ cleared \subseteq 1..sends
  /\ sending \in [Senders -> SendState]

(* channel-registry.service.ts:12, "First registered provider for a channel*)
(* is the primary": whatever registers and leaves in between, the one that *)
(* registered earliest of those still there is asked first.                *)
PrimaryIsEarliest ==
  \A channel \in ChannelNames : \A i, j \in DOMAIN registered[channel] :
    i < j => registered[channel][i].at < registered[channel][j].at

(* unregister takes one provider, the earliest of that name: a namesake    *)
(* that registered later stays, and getProvider still finds the name after *)
(* it was unregistered.                                                    *)
NamesakeStays ==
  [][\A channel \in ChannelNames : \A i, j \in DOMAIN registered[channel] :
       /\ i < j /\ registered[channel][i].provider.name = registered[channel][j].provider.name
       => \E k \in DOMAIN registered'[channel] : registered'[channel][k] = registered[channel][j]
    ]_channelsVars

(* An in-app message is there for the subscriber as soon as its send has   *)
(* been answered, unless the store was cleared, even when the provider left*)
(* the registry while the send was under way.                              *)
AnsweredIsStored ==
  \A sender \in Senders :
    /\ sending[sender] # ChNone /\ sending[sender].step = "answered"
    /\ sending[sender].provider.channel = "in_app" /\ sending[sender].success
    => sending[sender].send \in stored \cup cleared

(* Registry and in-app store stay consistent while providers come and go   *)
(* under sends that are under way.                                         *)
ChannelsConsistent == ChannelsTypeOK /\ PrimaryIsEarliest /\ AnsweredIsStored

=============================================================================
