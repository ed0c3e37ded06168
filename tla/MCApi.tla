------------------------------- MODULE MCApi --------------------------------
(* The services of the API share neither state nor locks: a behaviour      *)
(* follows one of them, the one in focus.                                  *)
EXTENDS AlertsApi, MockEngine, Organizations, Channels, Notifications, TLC

CONSTANTS s, t

MCConfigs ==
  {[type |-> type, symbol |-> symbol, valid |-> TRUE] :
     type \in {"threshold_crossing"}, symbol \in {s, t}}
  \cup {[type |-> "script", symbol |-> s, valid |-> TRUE],
        [type |-> "expression", symbol |-> s, valid |-> FALSE],
        [type |-> "volume_spike", symbol |-> s, valid |-> TRUE]}

MCProviders ==
  {[id |-> 1, channel |-> "in_app", name |-> "notiflo-in-app"],
   [id |-> 2, channel |-> "email", name |-> "sendgrid"],
   [id |-> 3, channel |-> "email", name |-> "sendgrid"],
   [id |-> 4, channel |-> "email", name |-> "ses"]}

MCRoutes ==
  {[channel |-> "email", provider |-> "sendgrid"], [channel |-> "email", provider |-> "ses"],
   [channel |-> "sms", provider |-> "twilio"]}

MCQuestion == [kind |-> "threshold", operator |-> "equal", threshold |-> 1, value |-> 1]

VARIABLE focus

Init ==
  /\ focus \in {"alerts", "mock", "organizations", "channels", "notifications"}
  /\ AlertsInit /\ (focus = "alerts" \/ bridge = "mock")
  /\ IF focus = "mock" THEN MockInit ELSE question = MCQuestion
  /\ OrganizationsInit /\ ChannelsInit /\ NotificationsInit

Next ==
  \/ /\ focus = "alerts" /\ AlertsNext
     /\ UNCHANGED <<focus, question, organizationsVars, channelsVars, notificationsVars>>
  \/ /\ focus = "mock" /\ MockNext
     /\ UNCHANGED <<focus, alertsVars, organizationsVars, channelsVars, notificationsVars>>
  \/ /\ focus = "organizations" /\ OrganizationsNext
     /\ UNCHANGED <<focus, question, alertsVars, channelsVars, notificationsVars>>
  \/ /\ focus = "channels" /\ ChannelsNext
     /\ UNCHANGED <<focus, question, alertsVars, organizationsVars, notificationsVars>>
  \/ /\ focus = "notifications" /\ NotificationsNext
     /\ UNCHANGED <<focus, question, alertsVars, organizationsVars, channelsVars>>

Spec == Init /\ [][Next]_<<focus, question, alertsVars, organizationsVars, channelsVars, notificationsVars>>

Symmetry == Permutations(Notes) \cup Permutations(Updaters)

=============================================================================
