-------------------------- MODULE MCMetricDatabase --------------------------
(* MetricDatabase, and the two conversions of database types, of which one *)
(* undoes the other; an unknown number or text is the type Unknown.        *)
EXTENDS MetricDatabase

ASSUME TypesRoundTrip ==
  /\ \A type \in 0..3 : TypeFromString(TypeToString(type)) = type
  /\ TypeFromString(TypeToString(4)) = 0
  /\ TypeFromString("") = 0
=============================================================================
