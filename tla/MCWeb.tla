-------------------------------- MODULE MCWeb --------------------------------
(* The page's list and form, and its load test panel, share no state: a    *)
(* behaviour is about the one in focus.                                    *)
EXTENDS AlertsPage, LoadTest, TLC

Symmetry == Permutations(Fetches) \cup Permutations(Tests)

VARIABLE focus

Init == focus \in {"page", "panel"} /\ AlertsPageInit /\ LoadTestInit

Next ==
  \/ focus = "page" /\ AlertsPageNext /\ UNCHANGED <<focus, loadTestVars>>
  \/ focus = "panel" /\ LoadTestNext /\ UNCHANGED <<focus, alertsPageVars>>

Spec == Init /\ [][Next]_<<focus, alertsPageVars, loadTestVars>>

=============================================================================
