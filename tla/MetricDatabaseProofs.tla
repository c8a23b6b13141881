------------------------ MODULE MetricDatabaseProofs ------------------------
(***************************************************************************)
(* The safety of a MetricDatabase, for any names, identities and bounds.   *)
(*                                                                         *)
(* DatabaseInv is inductive.  What SortedUntilCreate says of a sorted list *)
(* is not kept by itself when an element is erased; that no later element  *)
(* is less than an earlier one is, and it says the same of keys, of which  *)
(* none is twice in the list.                                              *)
(***************************************************************************)
EXTENDS MetricDatabase, ListProofs

\* What std::ranges::sort leaves, and what erase then keeps.
InOrder ==
  /\ order = "group" =>
       \A i, j \in DOMAIN metrics : i < j => ~LessByGroup(metrics[j], metrics[i])
  /\ order = "name" =>
       \A i, j \in DOMAIN metrics : i < j => ~LessByName(metrics[j], metrics[i])

DatabaseInv == DatabaseTypeOK /\ OneEachKey /\ InOrder

-----------------------------------------------------------------------------
(* DatabaseInv is inductive.                                               *)

LEMMA InitInv == Init => DatabaseInv
<1>1. IsInjective(<<>>)
  BY DEF IsInjective
<1>2. Init => DatabaseTypeOK
  <2>1. <<>> \in Seq(GroupKey) /\ <<>> \in Seq(MetricKey) /\ Len(<<>>) = 0
    OBVIOUS
  <2>2. NothingCreated \in [asked : SUBSET (GroupKey \cup MetricKey),
                           got : SUBSET (GroupKey \cup MetricKey)]
    BY DEF NothingCreated
  <2>3. 0 <= MaxGroups /\ 0 <= MaxMetrics
    BY BoundsAssumption
  <2>4. QED
    BY <2>1, <2>2, <2>3 DEF Init, DatabaseTypeOK
<1>3. QED
  BY <1>1, <1>2 DEF Init, DatabaseInv, OneEachKey, InOrder

LEMMA EnableInv ==
  ASSUME DatabaseInv, NEW e \in BOOLEAN, Enable(e)
  PROVE  DatabaseInv'
BY DEF Enable, DatabaseInv, DatabaseTypeOK, OneEachKey, InOrder

LEMMA CreateGroupInv ==
  ASSUME DatabaseInv, NEW g \in GroupKey, CreateGroup(g)
  PROVE  DatabaseInv' /\ Range(groups)' = Range(groups) \cup {g}
<1>1. /\ groups' = IF g \in Range(groups) THEN groups ELSE Append(groups, g)
      /\ g \in Range(groups) \/ Len(groups) < MaxGroups
      /\ groups \in Seq(GroupKey) /\ Len(groups) <= MaxGroups /\ IsInjective(groups)
      /\ MaxGroups \in Nat
  BY BoundsAssumption DEF DatabaseInv, DatabaseTypeOK, OneEachKey, CreateGroup
<1>2. /\ groups' \in Seq(GroupKey) /\ Len(groups') <= MaxGroups /\ IsInjective(groups')
      /\ groups'[Len(groups')] \in GroupKey
  BY <1>1, CreateKeeps
<1>3. Range(groups') = Range(groups) \cup {g}
  BY <1>1, CreateKeeps DEF Range
<1>4. QED
  BY <1>2, <1>3 DEF CreateGroup, Created, DatabaseInv, DatabaseTypeOK, OneEachKey, InOrder

LEMMA DeleteGroupInv ==
  ASSUME DatabaseInv, NEW g \in GroupKey, DeleteGroup(g)
  PROVE  DatabaseInv' /\ Range(groups)' = Range(groups) \ {g}
<1>1. /\ groups' = Without(groups, g) /\ groups \in Seq(GroupKey)
      /\ Len(groups) <= MaxGroups /\ IsInjective(groups) /\ MaxGroups \in Nat
  BY BoundsAssumption DEF DatabaseInv, DatabaseTypeOK, OneEachKey, DeleteGroup
<1>2. /\ groups' \in Seq(GroupKey) /\ Len(groups') <= Len(groups) /\ IsInjective(groups')
      /\ Range(groups') = Range(groups) \ {g}
  BY <1>1, WithoutLeaves
<1>3. Len(groups') <= MaxGroups
  BY <1>1, <1>2
<1>4. QED
  BY <1>2, <1>3
  DEF DeleteGroup, NothingCreated, DatabaseInv, DatabaseTypeOK, OneEachKey, InOrder

\* A metric that is appended ends the order.
LEMMA CreateMetricInv ==
  ASSUME DatabaseInv, NEW m \in MetricKey, CreateMetric(m)
  PROVE  DatabaseInv' /\ Range(metrics)' = Range(metrics) \cup {m}
<1>1. /\ metrics' = IF m \in Range(metrics) THEN metrics ELSE Append(metrics, m)
      /\ m \in Range(metrics) \/ Len(metrics) < MaxMetrics
      /\ metrics \in Seq(MetricKey) /\ Len(metrics) <= MaxMetrics /\ IsInjective(metrics)
      /\ MaxMetrics \in Nat
  BY BoundsAssumption DEF DatabaseInv, DatabaseTypeOK, OneEachKey, CreateMetric
<1>2. /\ metrics' \in Seq(MetricKey) /\ Len(metrics') <= MaxMetrics /\ IsInjective(metrics')
      /\ metrics'[Len(metrics')] \in MetricKey
  BY <1>1, CreateKeeps
<1>4. Range(metrics') = Range(metrics) \cup {m}
  BY <1>1, CreateKeeps DEF Range
<1>3. InOrder'
  <2>1. CASE m \in Range(metrics)
    BY <2>1 DEF CreateMetric, DatabaseInv, InOrder
  <2>2. CASE m \notin Range(metrics)
    BY <2>2 DEF CreateMetric, InOrder
  <2>3. QED
    BY <2>1, <2>2
<1>5. QED
  BY <1>2, <1>3, <1>4 DEF CreateMetric, Created, DatabaseInv, DatabaseTypeOK, OneEachKey

\* What is not erased stays in its order.
LEMMA DeleteMetricInv ==
  ASSUME DatabaseInv, NEW m \in MetricKey, DeleteMetric(m)
  PROVE  DatabaseInv' /\ Range(metrics)' = Range(metrics) \ {m}
<1>1. /\ metrics' = Without(metrics, m)
      /\ metrics \in Seq(MetricKey) /\ Len(metrics) <= MaxMetrics /\ IsInjective(metrics)
      /\ MaxMetrics \in Nat
  BY BoundsAssumption DEF DatabaseInv, DatabaseTypeOK, OneEachKey, DeleteMetric
<1>2. /\ metrics' \in Seq(MetricKey) /\ Len(metrics') <= Len(metrics) /\ IsInjective(metrics')
      /\ Range(metrics') = Range(metrics) \ {m}
  BY <1>1, WithoutLeaves
<1>3. Len(metrics') <= MaxMetrics
  BY <1>1, <1>2
<1>4. \A k, l \in DOMAIN metrics' : k < l =>
        \E i, j \in DOMAIN metrics :
          i < j /\ metrics'[k] = metrics[i] /\ metrics'[l] = metrics[j]
  BY <1>1, WithoutOrders
<1>5. InOrder'
  <2>1. ASSUME order = "group", NEW k \in DOMAIN metrics', NEW l \in DOMAIN metrics', k < l
        PROVE  ~LessByGroup(metrics'[l], metrics'[k])
    BY <1>4, <2>1 DEF DatabaseInv, InOrder
  <2>2. ASSUME order = "name", NEW k \in DOMAIN metrics', NEW l \in DOMAIN metrics', k < l
        PROVE  ~LessByName(metrics'[l], metrics'[k])
    BY <1>4, <2>2 DEF DatabaseInv, InOrder
  <2>3. QED
    BY <2>1, <2>2 DEF InOrder, DeleteMetric
<1>6. QED
  BY <1>2, <1>3, <1>5 DEF DeleteMetric, NothingCreated, DatabaseInv, DatabaseTypeOK, OneEachKey

LEMMA SortGroupsInv ==
  ASSUME DatabaseInv, SortGroups
  PROVE  DatabaseInv' /\ Range(groups)' = Range(groups)
<1>1. groups' \in Arrangements(groups)
  BY DEF SortGroups, Sorts
<1>2. /\ groups' \in Seq(GroupKey) /\ Len(groups') = Len(groups) /\ IsInjective(groups')
      /\ Range(groups') = Range(groups)
  BY <1>1, ArrangementHolds DEF DatabaseInv, DatabaseTypeOK, OneEachKey
<1>3. QED
  BY <1>2 DEF SortGroups, DatabaseInv, DatabaseTypeOK, OneEachKey, InOrder

LEMMA SortMetricsInv ==
  ASSUME DatabaseInv, SortMetricsByGroup \/ SortMetricsByName
  PROVE  DatabaseInv' /\ Range(metrics)' = Range(metrics)
<1>1. metrics' \in Arrangements(metrics)
  BY DEF SortMetricsByGroup, SortMetricsByName, Sorts
<1>2. /\ metrics' \in Seq(MetricKey) /\ Len(metrics') = Len(metrics) /\ IsInjective(metrics')
      /\ Range(metrics') = Range(metrics)
  BY <1>1, ArrangementHolds DEF DatabaseInv, DatabaseTypeOK, OneEachKey
<1>3. InOrder'
  BY DEF SortMetricsByGroup, SortMetricsByName, Sorts, InOrder
<1>4. QED
  BY <1>2, <1>3
  DEF SortMetricsByGroup, SortMetricsByName, DatabaseInv, DatabaseTypeOK, OneEachKey

\* DatabaseInv holds of every database, in whatever order its operations are
\* called.
THEOREM DatabaseInvariant == Spec => []DatabaseInv
<1>1. DatabaseInv /\ [Next]_vars => DatabaseInv'
  <2>1. SUFFICES ASSUME DatabaseInv, [Next]_vars PROVE DatabaseInv'
    OBVIOUS
  <2>2. ASSUME NEW e \in BOOLEAN, Enable(e) PROVE DatabaseInv'
    BY <2>1, <2>2, EnableInv
  <2>3. ASSUME NEW g \in GroupKey, CreateGroup(g) \/ DeleteGroup(g) PROVE DatabaseInv'
    BY <2>1, <2>3, CreateGroupInv, DeleteGroupInv
  <2>4. ASSUME NEW m \in MetricKey, CreateMetric(m) \/ DeleteMetric(m) PROVE DatabaseInv'
    BY <2>1, <2>4, CreateMetricInv, DeleteMetricInv
  <2>5. ASSUME SortGroups \/ SortMetricsByGroup \/ SortMetricsByName PROVE DatabaseInv'
    BY <2>1, <2>5, SortGroupsInv, SortMetricsInv
  <2>6. ASSUME UNCHANGED vars PROVE DatabaseInv'
    BY <2>1, <2>6 DEF vars, DatabaseInv, DatabaseTypeOK, OneEachKey, InOrder
  <2>7. QED
    BY <2>1, <2>2, <2>3, <2>4, <2>5, <2>6 DEF Next
<1>2. QED
  BY <1>1, InitInv, PTL DEF Spec

-----------------------------------------------------------------------------
(* What the invariant says of a reachable database.                        *)

\* The lists hold keys of groups and metrics, no more than the bounds allow.
THEOREM DatabaseTypes == Spec => []DatabaseTypeOK
BY DatabaseInvariant, PTL DEF DatabaseInv

\* CreateGroup and CreateMetric add no key twice, and no later call of the
\* database makes two of one.
THEOREM KeysAreUnique == Spec => []OneEachKey
BY DatabaseInvariant, PTL DEF DatabaseInv

\* Any two names or identities are in an order.
LEMMA GroupsOrdered ==
  ASSUME NEW g \in GroupKey, NEW h \in GroupKey, ~GroupLess(g, h), ~GroupLess(h, g)
  PROVE  g = h
<1>1. g.name = h.name /\ g.identity = h.identity
  <2>1. /\ g.name \in Nat /\ h.name \in Nat
        /\ g.identity \in Nat /\ h.identity \in Nat
    BY NamesAssumption DEF GroupKey
  <2>2. QED
    BY <2>1 DEF GroupLess
<1>2. QED
  BY <1>1 DEF GroupKey

\* Sorted by group, the metrics of a group are next to each other, their names
\* ascending; sorted by name, the names ascend; and DeleteMetric keeps both.
THEOREM ListsStaySorted == Spec => []SortedUntilCreate
<1>1. ASSUME DatabaseInv PROVE SortedUntilCreate
  <2>1. /\ \A i \in DOMAIN metrics : metrics[i] \in MetricKey /\ i \in Nat
        /\ \A i, j \in DOMAIN metrics : metrics[i] = metrics[j] => i = j
        /\ Len(metrics) \in Nat /\ DOMAIN metrics = 1..Len(metrics)
    BY <1>1 DEF DatabaseInv, DatabaseTypeOK, OneEachKey, IsInjective
  <2>2. ASSUME order = "group", NEW i \in DOMAIN metrics, NEW j \in DOMAIN metrics, i < j,
               metrics[i].group = metrics[j].group
        PROVE  /\ metrics[i].name < metrics[j].name
               /\ \A k \in i..j : metrics[k].group = metrics[i].group
    <3>1. \A k, l \in DOMAIN metrics : k < l =>
            /\ ~GroupLess(metrics[l].group, metrics[k].group)
            /\ metrics[k].group = metrics[l].group => ~(metrics[l].name < metrics[k].name)
      BY <1>1, <2>2 DEF DatabaseInv, InOrder, LessByGroup
    <3>2. metrics[i].name < metrics[j].name
      <4>1. metrics[i].name # metrics[j].name
        BY <2>1, <2>2 DEF MetricKey
      <4>2. ~(metrics[j].name < metrics[i].name)
        BY <2>2, <3>1
      <4>3. metrics[i].name \in Nat /\ metrics[j].name \in Nat
        BY <2>1, NamesAssumption DEF MetricKey
      <4>4. QED
        BY <4>1, <4>2, <4>3
    <3>3. ASSUME NEW k \in i..j, i < k, k < j PROVE metrics[k].group = metrics[i].group
      <4>1. k \in DOMAIN metrics
        BY <2>1, <3>3
      <4>2. ~GroupLess(metrics[k].group, metrics[i].group)
        BY <3>1, <3>3, <4>1
      <4>3. ~GroupLess(metrics[i].group, metrics[k].group)
        BY <2>2, <3>1, <3>3, <4>1
      <4>4. metrics[i].group \in GroupKey /\ metrics[k].group \in GroupKey
        BY <2>1, <4>1 DEF MetricKey
      <4>5. QED
        BY <4>2, <4>3, <4>4, GroupsOrdered
    <3>4. QED
      BY <2>1, <2>2, <3>2, <3>3
  <2>3. ASSUME order = "name", NEW i \in DOMAIN metrics, NEW j \in DOMAIN metrics, i < j
        PROVE  metrics[i].name <= metrics[j].name
    <3>1. ~(metrics[j].name < metrics[i].name)
      BY <1>1, <2>3 DEF DatabaseInv, InOrder, LessByName
    <3>2. metrics[i].name \in Nat /\ metrics[j].name \in Nat
      BY <2>1, NamesAssumption DEF MetricKey
    <3>3. QED
      BY <3>1, <3>2
  <2>4. QED
    BY <2>2, <2>3 DEF SortedUntilCreate
<1>2. QED
  BY <1>1, DatabaseInvariant, PTL

-----------------------------------------------------------------------------
(* The look-ups.                                                           *)

\* A search for the metric of a group and a name finds it, and there is only
\* one to be found.
LEMMA SearchFinds ==
  ASSUME metrics \in Seq(MetricKey), NEW g, NEW n
  PROVE  FirstOf(metrics, {i \in DOMAIN metrics : metrics[i].group = g} \cap AtName(n)) =
           {m \in Range(metrics) : m.group = g /\ m.name = n}
<1> DEFINE found == {m \in Range(metrics) : m.group = g /\ m.name = n}
           I == {i \in DOMAIN metrics : metrics[i].group = g} \cap AtName(n)
<1>1. \A i \in I : metrics[i] \in found
  BY DEF Range, AtName
<1>2. \A m \in found : \E i \in I : metrics[i] = m
  BY DEF Range, AtName
<1>3. \A m, o \in found : m = o
  <2>1. \A m \in found : m \in MetricKey /\ m.group = g /\ m.name = n
    BY DEF Range
  <2>2. QED
    BY <2>1 DEF MetricKey
<1>4. I \in SUBSET Nat
  OBVIOUS
<1> HIDE DEF I, found
<1>5. CASE I = {}
  <2>1. found = {}
    BY <1>2, <1>5
  <2>2. QED
    BY <1>5, <2>1 DEF FirstOf, found, I
<1>6. CASE I # {}
  <2>1. First(I) \in I
    BY <1>4, <1>6, FirstInList
  <2>2. found = {metrics[First(I)]}
    BY <1>1, <1>3, <2>1
  <2>3. QED
    BY <1>6, <2>2 DEF FirstOf, found, I
<1>7. QED
  BY <1>5, <1>6

\* A group that owns metrics and shares neither name nor identity with another
\* such group is found under both alike.
THEOREM LookupsAreEqual == Spec => []LookupsAgree
<1>1. ASSUME DatabaseInv PROVE LookupsAgree
  <2>1. metrics \in Seq(MetricKey)
    BY <1>1 DEF DatabaseInv, DatabaseTypeOK
  <2>2. SUFFICES ASSUME NEW g \in Owning,
                        \A h \in Owning : h.name = g.name \/ h.identity = g.identity => h = g
        PROVE  /\ MetricsByGroupName(g.name) = MetricsByGroupIdentity(g.identity)
               /\ \A n \in Names :
                    /\ GetMetricByGroupName(g.name, n) =
                         {m \in Range(metrics) : m.group = g /\ m.name = n}
                    /\ GetMetricByGroupIdentity(g.identity, n) =
                         {m \in Range(metrics) : m.group = g /\ m.name = n}
    BY DEF LookupsAgree
  <2>3. \A i \in DOMAIN metrics : metrics[i].group \in Owning
    BY DEF Owning, Range
  <2>4. /\ AtGroupName(g.name) = {i \in DOMAIN metrics : metrics[i].group = g}
        /\ AtGroupIdentity(g.identity) = {i \in DOMAIN metrics : metrics[i].group = g}
    BY <2>2, <2>3 DEF AtGroupName, AtGroupIdentity
  <2>5. MetricsByGroupName(g.name) = MetricsByGroupIdentity(g.identity)
    BY <2>4 DEF MetricsByGroupName, MetricsByGroupIdentity
  <2>6. ASSUME NEW n \in Names
        PROVE  FirstOf(metrics, {i \in DOMAIN metrics : metrics[i].group = g} \cap AtName(n)) =
                 {m \in Range(metrics) : m.group = g /\ m.name = n}
    BY <2>1, SearchFinds
  <2>7. QED
    BY <2>4, <2>5, <2>6 DEF GetMetricByGroupName, GetMetricByGroupIdentity
<1>2. QED
  BY <1>1, DatabaseInvariant, PTL

-----------------------------------------------------------------------------
(* The database implements a store of groups and metrics told by key.      *)

\* Every call adds or removes the one key it names, or changes nothing in the
\* sets of groups and metrics (ImplementsStore).
THEOREM DatabaseIsStore == Spec => ImplementsStore
<1>1. Init => Store!Init
  BY DEF Init, Store!Init, Range
<1>2. ASSUME DatabaseInv, [Next]_vars PROVE [Store!Next]_(Store!vars)
  <2>1. ASSUME NEW e \in BOOLEAN, Enable(e) PROVE UNCHANGED Store!vars
    BY <2>1 DEF Enable, Store!vars
  <2>2. ASSUME NEW g \in GroupKey, CreateGroup(g) PROVE Store!CreateGroup(g)
    BY <1>2, <2>2, CreateGroupInv DEF CreateGroup, Store!CreateGroup
  <2>3. ASSUME NEW g \in GroupKey, DeleteGroup(g) PROVE Store!DeleteGroup(g)
    BY <1>2, <2>3, DeleteGroupInv DEF DeleteGroup, Store!DeleteGroup
  <2>4. ASSUME NEW m \in MetricKey, CreateMetric(m) PROVE Store!CreateMetric(m)
    BY <1>2, <2>4, CreateMetricInv DEF CreateMetric, Store!CreateMetric
  <2>5. ASSUME NEW m \in MetricKey, DeleteMetric(m) PROVE Store!DeleteMetric(m)
    BY <1>2, <2>5, DeleteMetricInv DEF DeleteMetric, Store!DeleteMetric
  <2>6. ASSUME SortGroups PROVE UNCHANGED Store!vars
    BY <1>2, <2>6, SortGroupsInv DEF SortGroups, Store!vars
  <2>7. ASSUME SortMetricsByGroup \/ SortMetricsByName PROVE UNCHANGED Store!vars
    BY <1>2, <2>7, SortMetricsInv DEF SortMetricsByGroup, SortMetricsByName, Store!vars
  <2>8. ASSUME UNCHANGED vars PROVE UNCHANGED Store!vars
    BY <2>8 DEF vars, Store!vars
  <2>9. QED
    BY <1>2, <2>1, <2>2, <2>3, <2>4, <2>5, <2>6, <2>7, <2>8 DEF Next, Store!Next
<1>3. QED
  BY <1>1, <1>2, DatabaseInvariant, PTL DEF Spec, ImplementsStore, Store!Spec
=============================================================================
