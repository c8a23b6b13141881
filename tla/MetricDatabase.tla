--------------------------- MODULE MetricDatabase ---------------------------
(***************************************************************************)
(* A metric::MetricDatabase: its lists of groups and metrics, which one    *)
(* application creates, deletes, looks up and sorts.                       *)
(*                                                                         *)
(* A group is told by its name and identity, a metric by those of its      *)
(* group and its own name; the application leaves all of them as they are  *)
(* once the object is created.  Names are numbers, ordered as the strings  *)
(* are.  The lists never hold a null pointer.                              *)
(***************************************************************************)
EXTENDS Integers, Vector

CONSTANTS
  Names, Identities,
  MaxGroups, MaxMetrics   \* bounds on what the lists hold

ASSUME NamesAssumption == Names \subseteq Nat /\ Identities \subseteq Nat
ASSUME BoundsAssumption == MaxGroups \in Nat /\ MaxMetrics \in Nat

GroupKey == [name : Names, identity : Identities]
MetricKey == [group : GroupKey, name : Names]

VARIABLES
  groups, metrics,     \* group_list_ and metric_list_
  enabled, operable,   \* enabled_ and operable_
  created,             \* the last group or metric asked for and the one returned
  order                \* history: how the metrics were last sorted, if none was
                       \* created since

vars == <<groups, metrics, enabled, operable, created, order>>

NothingCreated == [asked |-> {}, got |-> {}]

DatabaseTypeOK ==
  /\ groups \in Seq(GroupKey) /\ Len(groups) <= MaxGroups
  /\ metrics \in Seq(MetricKey) /\ Len(metrics) <= MaxMetrics
  /\ enabled \in BOOLEAN
  /\ operable = enabled
  /\ created \in [asked : SUBSET (GroupKey \cup MetricKey),
                  got : SUBSET (GroupKey \cup MetricKey)]
  /\ order \in {"none", "group", "name"}

Init ==
  /\ groups = <<>> /\ metrics = <<>>
  /\ enabled = FALSE /\ operable = FALSE
  /\ created = NothingCreated
  /\ order = "none"

-----------------------------------------------------------------------------

\* Mutant: the database becomes enabled, but not operable.
EnableOnly(e) ==
  /\ enabled' = e
  /\ UNCHANGED <<groups, metrics, operable, created, order>>

Enable(e) ==
  /\ enabled' = e /\ operable' = e
  /\ UNCHANGED <<groups, metrics, created, order>>

\* The caller is given the last element of the list.
Created(key, list) == created' = [asked |-> {key}, got |-> {list[Len(list)]}]

CreateGroup(g) ==
  /\ g \in Range(groups) \/ Len(groups) < MaxGroups
  /\ groups' = IF g \in Range(groups) THEN groups ELSE Append(groups, g)
  /\ Created(g, groups')
  /\ UNCHANGED <<metrics, enabled, operable, order>>

\* The metrics of the group stay.
DeleteGroup(g) ==
  /\ groups' = Without(groups, g)
  /\ created' = NothingCreated
  /\ UNCHANGED <<metrics, enabled, operable, order>>

\* Mutant: CreateMetric does not look for the metric.
AppendAnyway(m) ==
  /\ Len(metrics) < MaxMetrics
  /\ metrics' = Append(metrics, m)
  /\ Created(m, metrics')
  /\ order' = "none"
  /\ UNCHANGED <<groups, enabled, operable>>

\* The group given need not be one of the database.
CreateMetric(m) ==
  /\ m \in Range(metrics) \/ Len(metrics) < MaxMetrics
  /\ IF m \in Range(metrics)
     THEN UNCHANGED <<metrics, order>>
     ELSE metrics' = Append(metrics, m) /\ order' = "none"
  /\ Created(m, metrics')
  /\ UNCHANGED <<groups, enabled, operable>>

\* Mutant: the identity of the group is not compared.
DeleteByName(m) ==
  /\ metrics' = Keep(metrics,
                   {i \in DOMAIN metrics : \/ metrics[i].group.name # m.group.name
                                           \/ metrics[i].name # m.name})
  /\ created' = NothingCreated
  /\ UNCHANGED <<groups, enabled, operable, order>>

DeleteMetric(m) ==
  /\ metrics' = Without(metrics, m)
  /\ created' = NothingCreated
  /\ UNCHANGED <<groups, enabled, operable, order>>

-----------------------------------------------------------------------------
(* The orders.                                                             *)

GroupLess(g, h) == g.name < h.name \/ (g.name = h.name /\ g.identity < h.identity)

\* Mutant: metrics of a group are left unordered.
ByGroupOnly(m, n) == GroupLess(m.group, n.group)

LessByGroup(m, n) ==
  GroupLess(m.group, n.group) \/ (m.group = n.group /\ m.name < n.name)

LessByName(m, n) == m.name < n.name

SortGroups ==
  /\ groups' \in Sorts(groups, GroupLess)
  /\ UNCHANGED <<metrics, enabled, operable, created, order>>

SortMetricsByGroup ==
  /\ metrics' \in Sorts(metrics, LessByGroup)
  /\ order' = "group"
  /\ UNCHANGED <<groups, enabled, operable, created>>

SortMetricsByName ==
  /\ metrics' \in Sorts(metrics, LessByName)
  /\ order' = "name"
  /\ UNCHANGED <<groups, enabled, operable, created>>

-----------------------------------------------------------------------------
(* Look-ups: what may be returned, as a set; empty if nothing is found.    *)

GetGroupByName(n) == FirstOf(groups, {i \in DOMAIN groups : groups[i].name = n})
GetGroupByIdentity(id) == FirstOf(groups, {i \in DOMAIN groups : groups[i].identity = id})

\* Metrics of the groups of a name or of an identity
AtGroupName(g) == {i \in DOMAIN metrics : metrics[i].group.name = g}
AtGroupIdentity(id) == {i \in DOMAIN metrics : metrics[i].group.identity = id}
AtName(n) == {i \in DOMAIN metrics : metrics[i].name = n}

GetMetricByGroupName(g, n) == FirstOf(metrics, AtGroupName(g) \cap AtName(n))

\* Mutant: the first metric of that name, whatever its group.
AnyOfName(id, n) == FirstOf(metrics, AtName(n))

GetMetricByGroupIdentity(id, n) == FirstOf(metrics, AtGroupIdentity(id) \cap AtName(n))

MetricsByName == Sorts(metrics, LessByName)
MetricsByGroupName(g) == Sorts(Keep(metrics, AtGroupName(g)), LessByName)
MetricsByGroupIdentity(id) == Sorts(Keep(metrics, AtGroupIdentity(id)), LessByName)

-----------------------------------------------------------------------------
(* The types of databases.                                                  *)

TypeList == <<"Unknown", "SQLite Database", "DBC File", "A2L File">>

TypeToString(type) == TypeList[IF type + 1 \in DOMAIN TypeList THEN type + 1 ELSE 1]

TypeFromString(text) ==
  LET found == {i \in DOMAIN TypeList : TypeList[i] = text}
  IN IF found = {} THEN 0 ELSE First(found) - 1

-----------------------------------------------------------------------------

Next ==
  \/ \E e \in BOOLEAN : Enable(e)
  \/ \E g \in GroupKey : CreateGroup(g) \/ DeleteGroup(g)
  \/ \E m \in MetricKey : CreateMetric(m) \/ DeleteMetric(m)
  \/ SortGroups \/ SortMetricsByGroup \/ SortMetricsByName

Spec == Init /\ [][Next]_vars

-----------------------------------------------------------------------------
(* Properties.                                                             *)

\* No two metrics and no two groups have the same key (CreateGroup,
\* CreateMetric), in whatever order the lists were sorted meanwhile.
OneEachKey == IsInjective(groups) /\ IsInjective(metrics)

\* The lists hold what was created and not deleted; sorting, enabling and
\* the deletion of a group leave the metrics alone.
Store == INSTANCE MetricStore WITH
  GroupKeys <- GroupKey, MetricKeys <- MetricKey,
  groups <- Range(groups), metrics <- Range(metrics)

ImplementsStore == Store!Spec

\* A sorted list stays sorted until a metric is created: DeleteMetric keeps
\* the order, and by group means by name and identity of the group, then by
\* name, so that the metrics of a group are next to each other.
SortedUntilCreate ==
  /\ order = "group" =>
       \A i, j \in DOMAIN metrics :
         i < j /\ metrics[i].group = metrics[j].group =>
           /\ metrics[i].name < metrics[j].name
           /\ \A k \in i..j : metrics[k].group = metrics[i].group
  /\ order = "name" => \A i, j \in DOMAIN metrics : i < j => metrics[i].name <= metrics[j].name

\* The groups with a metric
Owning == {m.group : m \in Range(metrics)}

\* The name and the identity of a group are as good as each other when no
\* other group that owns metrics, be it a deleted one, shares either: all
\* look-ups then find the group's metrics, the same ones, and no others.
LookupsAgree ==
  \A g \in Owning :
    (\A h \in Owning : h.name = g.name \/ h.identity = g.identity => h = g) =>
      /\ MetricsByGroupName(g.name) = MetricsByGroupIdentity(g.identity)
      /\ \A n \in Names :
           LET found == {m \in Range(metrics) : m.group = g /\ m.name = n}
           IN /\ GetMetricByGroupName(g.name, n) = found
              /\ GetMetricByGroupIdentity(g.identity, n) = found

-----------------------------------------------------------------------------
(* A claim of the repository that the code does not meet.                  *)

\* A group or metric that is asked for is the one returned: the test of
\* CreateGroup expects the name and the identity it asked for.
ReturnedIsAsked == created.got = created.asked
=============================================================================
