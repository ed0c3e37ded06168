------------------------------ MODULE MCRuntime ------------------------------
(* What the runtime looks up and uses later, in a strategy's index and in  *)
(* its caches, and two pure parts of the services that write what is       *)
(* cached: a behaviour is about one of them, the one in focus.             *)
EXTENDS IndexedStrategy, Routing, Segments, TemplateText

CONSTANTS s1, s2

(* Two symbols, so that an update moves a condition between their lists.   *)
MCConfigs == {[symbol |-> s1, accepts |-> {1}, cooldown |-> 2],
              [symbol |-> s2, accepts |-> {1, 2}, cooldown |-> None],
              [symbol |-> s1, accepts |-> None, cooldown |-> None]}

VARIABLE focus

MCVars == <<focus, indexedVars, filters, text, routingVars>>

Init ==
  /\ focus \in {"strategy", "routing", "segment", "text"}
  /\ IndexedInit /\ RoutingInit
  /\ IF focus = "segment" THEN SegmentInit ELSE filters = <<>>
  /\ IF focus = "text" THEN TextInit ELSE text = <<>>

Next ==
  \/ focus = "strategy" /\ IndexedNext /\ UNCHANGED <<focus, filters, text, routingVars>>
  \/ focus = "routing" /\ RoutingNext /\ UNCHANGED <<focus, filters, text, indexedVars>>

Spec == Init /\ [][Next]_MCVars

=============================================================================
