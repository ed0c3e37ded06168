--------------------------- MODULE Organizations ----------------------------
(***************************************************************************)
(* Organizations: OrganizationsService and ApiKeyGuard                     *)
(* (apps/notiflo/src/app/organizations).  Every handler is one MongoDB     *)
(* command but validateApiKey, which awaits three: find the key, save      *)
(* lastUsedAt, find the organization.  A raw key stands for its hash.      *)
(***************************************************************************)
EXTENDS Integers, FiniteSets

CONSTANTS Orgs, Keys, OrgNone, Guards   \* Guards: requests at the guard at once

ApiKey == [organizationId : Orgs, active : BOOLEAN, lastUsedAt : BOOLEAN]

ASSUME OrganizationsAssumption == OrgNone \notin ApiKey   \* null is no document

VARIABLES orgs,         \* organization documents that exist
          removedOrgs,  \* ids that do not come back
          apiKeys,      \* key -> document, or OrgNone
          guard,        \* per request, where canActivate is
          dead          \* history: per request, was it hopeless when it came

organizationsVars == <<orgs, removedOrgs, apiKeys, guard, dead>>

Idle == [step |-> "idle"]

GuardState == {Idle} \cup [step : {"found", "saved"}, key : Keys, doc : ApiKey]
                     \cup [step : {"accepted", "refused"}, key : Keys]

OrganizationsInit ==
  /\ orgs = {} /\ removedOrgs = {}
  /\ apiKeys = [key \in Keys |-> OrgNone]
  /\ guard = [g \in Guards |-> Idle] /\ dead = [g \in Guards |-> FALSE]

CreateOrganization(org) ==
  /\ org \notin orgs \cup removedOrgs
  /\ orgs' = orgs \cup {org}
  /\ UNCHANGED <<removedOrgs, apiKeys, guard, dead>>

(* Its keys stay.                                                          *)
RemoveOrganization(org) ==
  /\ org \in orgs
  /\ orgs' = orgs \ {org} /\ removedOrgs' = removedOrgs \cup {org}
  /\ UNCHANGED <<apiKeys, guard, dead>>

(* The organization is not looked up.                                      *)
GenerateApiKey(key, org) ==
  /\ apiKeys[key] = OrgNone
  /\ apiKeys' = [apiKeys EXCEPT
       ![key] = [organizationId |-> org, active |-> TRUE, lastUsedAt |-> FALSE]]
  /\ UNCHANGED <<orgs, removedOrgs, guard, dead>>

RevokeApiKey(key) ==
  /\ apiKeys[key] # OrgNone
  /\ apiKeys' = [apiKeys EXCEPT ![key].active = FALSE]
  /\ UNCHANGED <<orgs, removedOrgs, guard, dead>>

-----------------------------------------------------------------------------
(***************************************************************************)
(* The guard.  save writes what changed on the document it read, which is  *)
(* lastUsedAt.                                                             *)
(***************************************************************************)
Hopeless(key) ==
  \/ apiKeys[key] = OrgNone \/ ~apiKeys[key].active \/ apiKeys[key].organizationId \in removedOrgs

FoundRevoked(key) == apiKeys[key] # OrgNone                  \* mutant: findOne without active

FoundKey(key) == apiKeys[key] # OrgNone /\ apiKeys[key].active

SavedKey(key, found) == [apiKeys[key] EXCEPT !.lastUsedAt = found.lastUsedAt]

FindApiKey(g, key) ==
  /\ guard[g].step \in {"idle", "accepted", "refused"}
  /\ guard' = [guard EXCEPT ![g] =
       IF FoundKey(key) THEN [step |-> "found", key |-> key, doc |-> apiKeys[key]]
       ELSE [step |-> "refused", key |-> key]]
  /\ dead' = [dead EXCEPT ![g] = Hopeless(key)]
  /\ UNCHANGED <<orgs, removedOrgs, apiKeys>>

SaveLastUsedAt(g) ==
  /\ guard[g].step = "found"
  /\ apiKeys' = [apiKeys EXCEPT
       ![guard[g].key] = SavedKey(guard[g].key, [guard[g].doc EXCEPT !.lastUsedAt = TRUE])]
  /\ guard' = [guard EXCEPT ![g].step = "saved"]
  /\ UNCHANGED <<orgs, removedOrgs, dead>>

FindOrganization(g) ==
  /\ guard[g].step = "saved"
  /\ guard' = [guard EXCEPT ![g] =
       [step |-> IF guard[g].doc.organizationId \in orgs THEN "accepted" ELSE "refused",
        key  |-> guard[g].key]]
  /\ UNCHANGED <<orgs, removedOrgs, apiKeys, dead>>

OrganizationsNext ==
  \/ \E org \in Orgs : CreateOrganization(org) \/ RemoveOrganization(org)
  \/ \E key \in Keys : RevokeApiKey(key) \/ \E org \in Orgs : GenerateApiKey(key, org)
  \/ \E g \in Guards : (\E key \in Keys : FindApiKey(g, key)) \/ SaveLastUsedAt(g)
                       \/ FindOrganization(g)

OrganizationsSpec == OrganizationsInit /\ [][OrganizationsNext]_organizationsVars

-----------------------------------------------------------------------------
OrganizationsTypeOK ==
  /\ orgs \subseteq Orgs /\ removedOrgs \subseteq Orgs /\ orgs \cap removedOrgs = {}
  /\ apiKeys \in [Keys -> ApiKey \cup {OrgNone}]
  /\ dead \in [Guards -> BOOLEAN] /\ guard \in [Guards -> GuardState]

(* validateApiKey, "Returns the associated organization if valid": a       *)
(* request whose key was revoked, or whose organization was removed,       *)
(* before it came is refused, whatever other requests do between its three *)
(* reads and writes.  One that was under way may still pass.               *)
NoStaleAcceptance == \A g \in Guards : guard[g].step = "accepted" => ~dead[g]

(* A revocation is final: no validation that read the key before it and    *)
(* saves it afterwards makes the key active again.                         *)
RevokedForGood ==
  [][\A key \in Keys : apiKeys[key] # OrgNone /\ ~apiKeys[key].active
                       => ~apiKeys'[key].active]_organizationsVars

=============================================================================
