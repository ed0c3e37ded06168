----------------------------- MODULE AlertsPage ------------------------------
(***************************************************************************)
(* AlertsPage: the list of alerts and the form that creates one            *)
(* (apps/notiflo-web pages/alerts.tsx, hooks/useAlerts.ts,                 *)
(* components/alerts/CreateAlertForm.tsx, AlertsList.tsx).                 *)
(*                                                                         *)
(* fetchData may run several times at once: on mount, for the refresh      *)
(* button and for every alert created.  Each run sets loading, data and    *)
(* error when its own answer comes.  A list is known by how many alerts it *)
(* has, a form by whether it may be submitted: what it says of the         *)
(* condition the page passes on unread.  The other pages' hooks are        *)
(* fetchData again, run once.                                              *)
(***************************************************************************)
EXTENDS Integers, FiniteSets

CONSTANTS Fetches, Nothing, MaxSubmits   \* fetches at once; bound

ASSUME AlertsPageAssumption == MaxSubmits \in Nat /\ Nothing \notin Int

VARIABLES stored,      \* how many alerts the API has
          fetches,     \* per fetchData: Nothing, Asked, or the answer on its way
          data, loading, fetchError,
          overlapped,  \* history: since fetchData last started alone, it started twice
          since,       \* history: what was stored when it last started alone
          isValid,     \* the form has a symbol and a subscriber
          submitting,  \* the POST: "no", "asked", or "taken" by the API
          message,     \* "none", "success" or "error"
          submits, confirmed, lost   \* counters: clicks; successes; answers lost

Asked == -1   \* not answered yet

hook == <<fetches, data, loading, fetchError, overlapped, since>>
submission == <<submitting, message, submits, confirmed, lost>>
alertsPageVars == <<stored, hook, isValid, submission>>

InFlight == {f \in Fetches : fetches[f] # Nothing}

(* Mounted: loading, its first fetch asked.                                *)
AlertsPageInit ==
  /\ stored = 0
  /\ \E first \in Fetches : fetches = [f \in Fetches |-> IF f = first THEN Asked ELSE Nothing]
  /\ data = 0 /\ loading = TRUE /\ fetchError = FALSE /\ overlapped = FALSE /\ since = 0
  /\ isValid = FALSE
  /\ submitting = "no" /\ message = "none" /\ submits = 0 /\ confirmed = 0 /\ lost = 0

-----------------------------------------------------------------------------
(***************************************************************************)
(* useAlerts.                                                              *)
(***************************************************************************)
FetchData(f) ==
  /\ fetches[f] = Nothing
  /\ fetches' = [fetches EXCEPT ![f] = Asked]
  /\ loading' = TRUE /\ fetchError' = FALSE
  /\ overlapped' = (InFlight # {}) /\ UNCHANGED data
  /\ since' = IF InFlight = {} THEN stored ELSE since

Refresh == \E f \in Fetches : FetchData(f) /\ UNCHANGED <<stored, isValid, submission>>

FindAlerts(f) ==   \* the API answers
  /\ fetches[f] = Asked
  /\ fetches' = [fetches EXCEPT ![f] = stored]
  /\ UNCHANGED <<stored, data, loading, fetchError, overlapped, since, isValid, submission>>

DataAfter(f, ok) == IF ok THEN fetches[f] ELSE data

FetchEnds(f, ok) ==
  /\ fetches[f] # Nothing
  /\ ok => fetches[f] # Asked
  /\ fetches' = [fetches EXCEPT ![f] = Nothing]
  /\ data' = DataAfter(f, ok) /\ loading' = FALSE
  /\ fetchError' = (fetchError \/ ~ok)
  /\ UNCHANGED <<stored, overlapped, since, isValid, submission>>

-----------------------------------------------------------------------------
(***************************************************************************)
(* CreateAlertForm.  Its fields can be edited while a POST is under way;   *)
(* nothing clears them.                                                    *)
(***************************************************************************)
Edit(valid) ==
  /\ isValid' = valid
  /\ UNCHANGED <<stored, hook, submission>>

SubmittableAgain == isValid   \* mutant: the button stays enabled
Submittable == isValid /\ submitting = "no"

HandleSubmit ==
  /\ Submittable
  /\ submits < MaxSubmits /\ submits' = submits + 1
  /\ submitting' = "asked" /\ message' = "none"
  /\ UNCHANGED <<stored, hook, isValid, confirmed, lost>>

(* The API stores whatever condition the form describes, one the engine    *)
(* refuses included: create logs the engine's error and answers.           *)
CreateTakes ==
  /\ submitting = "asked" /\ submitting' = "taken"
  /\ stored' = stored + 1
  /\ UNCHANGED <<hook, isValid, message, submits, confirmed, lost>>

OnCreatedNever == UNCHANGED hook   \* mutant: the list is not told
OnCreated == \E f \in Fetches : FetchData(f)

CreateSucceeds ==
  /\ submitting = "taken"
  /\ submitting' = "no" /\ message' = "success" /\ confirmed' = confirmed + 1
  /\ OnCreated
  /\ UNCHANGED <<stored, isValid, submits, lost>>

CreateFails ==
  /\ submitting # "no"
  /\ submitting' = "no" /\ message' = "error"
  /\ lost' = IF submitting = "taken" THEN lost + 1 ELSE lost
  /\ UNCHANGED <<stored, hook, isValid, submits, confirmed>>

AlertsPageNext ==
  \/ Refresh
  \/ \E f \in Fetches : FindAlerts(f) \/ \E ok \in BOOLEAN : FetchEnds(f, ok)
  \/ \E valid \in BOOLEAN : Edit(valid)
  \/ HandleSubmit \/ CreateTakes \/ CreateSucceeds \/ CreateFails

AlertsPageSpec == AlertsPageInit /\ [][AlertsPageNext]_alertsPageVars

-----------------------------------------------------------------------------
AlertsPageTypeOK ==
  /\ stored \in Nat /\ since \in 0..stored
  /\ fetches \in [Fetches -> {Nothing, Asked} \cup 0..stored]
  /\ data \in 0..stored /\ {loading, fetchError, overlapped, isValid} \subseteq BOOLEAN
  /\ submitting \in {"no", "asked", "taken"}
  /\ message \in {"none", "success", "error"} /\ submits \in 0..MaxSubmits

(* Answers come in any order, and an older one may replace a newer list:   *)
(* yet once all is quiet and nothing failed since the last start, the list *)
(* shown is no older than the first of the fetches that overlapped.        *)
NoOlderThanFirstFetch == InFlight = {} /\ ~fetchError => data >= since

(* CreateAlertForm.tsx:139, "Alert created successfully": the list shown   *)
(* once all is quiet again has that alert, unless a second fetch ran beside*)
(* the first, whose older answer may come last, or a fetch failed; with    *)
(* fetches beside each other it has what was there before the first.       *)
CreatedIsShown ==
  /\ NoOlderThanFirstFetch
  /\ message = "success" /\ InFlight = {} /\ ~fetchError /\ ~overlapped => data = stored

(* Loading... is shown exactly while a fetch is under way, unless two of   *)
(* them overlapped: then the first answer ends it for both, but it is still*)
(* never shown with nothing under way.                                     *)
LoadingWhileFetching ==
  /\ loading => InFlight # {}
  /\ overlapped \/ loading = (InFlight # {})

(* Every alert stored was reported, or its answer was lost and an error    *)
(* shown in its place, or its POST is still under way: one click never     *)
(* stores two.                                                             *)
StoredIsAccountedFor ==
  stored = confirmed + lost + (IF submitting = "taken" THEN 1 ELSE 0)

(* The form and the list never show what is not so, whatever is clicked    *)
(* while requests are under way.                                           *)
PageConsistent == AlertsPageTypeOK /\ LoadingWhileFetching /\ StoredIsAccountedFor

=============================================================================
