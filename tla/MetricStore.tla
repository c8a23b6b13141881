---------------------------- MODULE MetricStore ----------------------------
(* What a MetricDatabase promises of its contents, whatever the order in  *)
(* which it keeps them: groups and metrics are told apart by their keys,  *)
(* and a call adds or removes the one it names and touches nothing else.  *)

CONSTANTS GroupKeys, MetricKeys

VARIABLES groups, metrics

vars == <<groups, metrics>>

Init == groups = {} /\ metrics = {}

CreateGroup(g) == groups' = groups \cup {g} /\ UNCHANGED metrics
DeleteGroup(g) == groups' = groups \ {g} /\ UNCHANGED metrics
CreateMetric(m) == metrics' = metrics \cup {m} /\ UNCHANGED groups
DeleteMetric(m) == metrics' = metrics \ {m} /\ UNCHANGED groups

Next ==
  \/ \E g \in GroupKeys : CreateGroup(g) \/ DeleteGroup(g)
  \/ \E m \in MetricKeys : CreateMetric(m) \/ DeleteMetric(m)

Spec == Init /\ [][Next]_vars
=============================================================================
