----------------------------- MODULE ListProofs -----------------------------
(***************************************************************************)
(* Facts about the lists of the library, whatever their elements are: the  *)
(* first of a list, and what erase and sort leave of one.                  *)
(***************************************************************************)
EXTENDS Vector, FiniteSetTheorems, TLAPS

\* A list of objects that is not empty has a first element (front(), and the
\* searches of std::ranges::find_if).
THEOREM FirstInList ==
  ASSUME NEW S \in SUBSET Nat, S # {}
  PROVE  First(S) \in S /\ \A o \in S : First(S) <= o
<1>1. PICK x \in S : \A y \in S : <<y, x>> \notin OpToRel(<, Nat)
  <2>1. IsWellFoundedOn(OpToRel(<, Nat), Nat)
    BY NatLessThanWellFounded, Zenon
  <2>2. QED
    BY <2>1, WFMin, Zenon
<1>2. \A y \in S : ~(y < x)
  <2>1. SUFFICES ASSUME NEW y \in S, y < x
                 PROVE  <<y, x>> \in OpToRel(<, Nat)
    BY <1>1, Zenon
  <2>2. <<y, x>> \in Nat \X Nat /\ <<y, x>>[1] = y /\ <<y, x>>[2] = x
    OBVIOUS
  <2>3. QED
    BY <2>1, <2>2, Zenon DEF OpToRel
<1>3. \A y \in S : x <= y
  BY <1>2
<1>4. QED
  BY <1>3 DEF First

-----------------------------------------------------------------------------
(* Indices, in their order.                                                *)

\* Elements of I below i
Below(I, i) == {j \in I : j < i}

\* Indices below a greater index are more.
LEMMA BelowGrows ==
  ASSUME NEW n \in Nat, NEW I \in SUBSET (1..n), NEW i \in I
  PROVE  /\ IsFiniteSet(I) /\ Cardinality(I) \in Nat /\ Cardinality(I) <= n
         /\ Cardinality(Below(I, i)) \in Nat
         /\ Cardinality(Below(I, i)) < Cardinality(I)
         /\ \A j \in I : i < j => Cardinality(Below(I, i)) < Cardinality(Below(I, j))
<1>1. IsFiniteSet(1..n) /\ Cardinality(1..n) = n
  BY FS_Interval
<1>2. IsFiniteSet(I) /\ Cardinality(I) <= n
  BY <1>1, FS_Subset
<1>3. \A S \in SUBSET I : IsFiniteSet(S) /\ Cardinality(S) \in Nat
  BY <1>2, FS_Subset, FS_CardinalityType
<1>4. ASSUME NEW S \in SUBSET I, NEW T \in SUBSET S, S # T
      PROVE  Cardinality(T) < Cardinality(S)
  <2>1. IsFiniteSet(S) /\ IsFiniteSet(T) /\ Cardinality(S) \in Nat /\ Cardinality(T) \in Nat
    BY <1>3, <1>4
  <2>2. Cardinality(T) <= Cardinality(S) /\ Cardinality(S) # Cardinality(T)
    BY <1>4, <2>1, FS_Subset
  <2>3. QED
    BY <2>1, <2>2
<1>5. Below(I, i) \in SUBSET I /\ i \notin Below(I, i)
  BY DEF Below
<1>6. ASSUME NEW j \in I, i < j
      PROVE  Cardinality(Below(I, i)) < Cardinality(Below(I, j))
  <2>1. \A k \in I : k \in Int
    OBVIOUS
  <2>2. \A k \in I : k < i => k < j
    BY <1>6, <2>1
  <2>3. Below(I, j) \in SUBSET I /\ i \in Below(I, j)
    BY <1>6 DEF Below
  <2>4. Below(I, i) \in SUBSET Below(I, j)
    BY <2>2 DEF Below
  <2>5. QED
    BY <1>4, <1>5, <2>3, <2>4
<1>7. QED
  BY <1>2, <1>3, <1>4, <1>5, <1>6

\* Nth lists the indices without gaps, from the least to the greatest.
LEMMA NthLists ==
  ASSUME NEW n \in Nat, NEW I \in SUBSET (1..n)
  PROVE  /\ IsFiniteSet(I) /\ Cardinality(I) \in Nat /\ Cardinality(I) <= n
         /\ \A k \in 1..Cardinality(I) :
              Nth(I, k) \in I /\ Cardinality(Below(I, Nth(I, k))) = k - 1
         /\ \A i \in I : \E k \in 1..Cardinality(I) : Nth(I, k) = i
         /\ \A k, l \in 1..Cardinality(I) : k < l => Nth(I, k) < Nth(I, l)
<1>1. IsFiniteSet(I) /\ Cardinality(I) \in Nat /\ Cardinality(I) <= n
  <2>1. IsFiniteSet(1..n) /\ Cardinality(1..n) = n
    BY FS_Interval
  <2>2. IsFiniteSet(I) /\ Cardinality(I) <= n
    BY <2>1, FS_Subset
  <2>3. QED
    BY <2>2, FS_CardinalityType
<1> DEFINE rank == [i \in I |-> Cardinality(Below(I, i)) + 1]
<1>2. \A i, j \in I : i \in Nat /\ rank[i] \in 1..Cardinality(I) /\ (i < j => rank[i] < rank[j])
  BY <1>1, BelowGrows
<1>3. rank \in Injection(I, 1..Cardinality(I))
  <2>1. \A i, j \in I : rank[i] = rank[j] => i = j
    BY <1>2
  <2>2. rank \in [I -> 1..Cardinality(I)] /\ DOMAIN rank = I
    BY <1>2
  <2>3. QED
    BY <2>1, <2>2 DEF Injection, IsInjective
<1>4. rank \in Surjection(I, 1..Cardinality(I))
  <2>1. IsFiniteSet(1..Cardinality(I)) /\ Cardinality(1..Cardinality(I)) = Cardinality(I)
    BY <1>1, FS_Interval
  <2>2. QED
    BY <1>3, <2>1, FS_Injection
<1>5. \A k \in 1..Cardinality(I) : \E i \in I : rank[i] = k
  BY <1>4 DEF Surjection
<1>6. \A i \in I : rank[i] = Cardinality(Below(I, i)) + 1 /\ Cardinality(Below(I, i)) \in Nat
  BY BelowGrows
<1>7. ASSUME NEW k \in 1..Cardinality(I)
      PROVE  Nth(I, k) \in I /\ Cardinality(Below(I, Nth(I, k))) = k - 1 /\ rank[Nth(I, k)] = k
  <2>1. \E i \in I : Cardinality(Below(I, i)) = k - 1
    BY <1>5, <1>6
  <2>2. Nth(I, k) \in I /\ Cardinality(Below(I, Nth(I, k))) = k - 1
    BY <2>1 DEF Nth, Below
  <2>3. QED
    BY <1>6, <2>2
<1>8. ASSUME NEW i \in I PROVE \E k \in 1..Cardinality(I) : Nth(I, k) = i
  <2>1. rank[i] \in 1..Cardinality(I)
    BY <1>2
  <2>2. Nth(I, rank[i]) \in I /\ rank[Nth(I, rank[i])] = rank[i]
    BY <1>7, <2>1
  <2>3. Nth(I, rank[i]) = i
    BY <1>3, <2>2 DEF Injection, IsInjective
  <2>4. QED
    BY <2>1, <2>3
<1> HIDE DEF rank
<1>9. ASSUME NEW k \in 1..Cardinality(I), NEW l \in 1..Cardinality(I), k < l
      PROVE  Nth(I, k) < Nth(I, l)
  <2>1. Nth(I, k) \in I /\ rank[Nth(I, k)] = k /\ Nth(I, l) \in I /\ rank[Nth(I, l)] = l
    BY <1>7
  <2>2. Nth(I, k) \in Nat /\ Nth(I, l) \in Nat
    BY <1>2, <2>1
  <2>3. Nth(I, l) < Nth(I, k) => rank[Nth(I, l)] < rank[Nth(I, k)]
    BY <1>2, <2>1
  <2>4. ~(Nth(I, l) < Nth(I, k)) /\ Nth(I, l) # Nth(I, k)
    BY <1>9, <2>1, <2>3
  <2>5. QED
    BY <2>2, <2>4
<1>10. QED
  BY <1>1, <1>7, <1>8, <1>9

-----------------------------------------------------------------------------
(* erase, sort and push_back.                                              *)

\* Erasing leaves the other elements, none of them twice.
THEOREM KeepLeaves ==
  ASSUME NEW S, NEW list \in Seq(S), NEW I \in SUBSET DOMAIN list
  PROVE  /\ Keep(list, I) \in Seq(S) /\ Len(Keep(list, I)) <= Len(list)
         /\ Len(Keep(list, I)) = Cardinality(I)
         /\ \A k \in DOMAIN Keep(list, I) : \E i \in I : Keep(list, I)[k] = list[i]
         /\ \A i \in I : \E k \in DOMAIN Keep(list, I) : Keep(list, I)[k] = list[i]
         /\ IsInjective(list) => IsInjective(Keep(list, I))
<1>1. Len(list) \in Nat /\ DOMAIN list = 1..Len(list) /\ \A i \in I : list[i] \in S
  OBVIOUS
<1> DEFINE n == Cardinality(I)
           kept == Keep(list, I)
<1>2. n \in Nat /\ n <= Len(list) /\ \A k \in 1..n : Nth(I, k) \in I
  BY <1>1, NthLists
<1>3. kept = [k \in 1..n |-> list[Nth(I, k)]]
  BY DEF Keep
<1>4. kept \in Seq(S) /\ Len(kept) = n /\ DOMAIN kept = 1..n
        /\ \A k \in 1..n : kept[k] = list[Nth(I, k)]
  BY <1>1, <1>2, <1>3
<1>5. \A i \in I : \E k \in 1..n : Nth(I, k) = i
  BY <1>1, NthLists
<1>6. \A k, l \in 1..n : k < l => Nth(I, k) < Nth(I, l)
  BY <1>1, NthLists
<1>7. ASSUME IsInjective(list), NEW k \in DOMAIN kept, NEW l \in DOMAIN kept, kept[k] = kept[l]
      PROVE  k = l
  <2>1. k \in Nat /\ l \in Nat /\ Nth(I, k) = Nth(I, l) /\ Nth(I, k) \in Nat
    BY <1>1, <1>2, <1>4, <1>7 DEF IsInjective
  <2>2. QED
    BY <1>4, <1>6, <2>1
<1>8. QED
  BY <1>2, <1>4, <1>5, <1>7 DEF IsInjective

\* ... in the order they had.
THEOREM KeepOrders ==
  ASSUME NEW S, NEW list \in Seq(S), NEW I \in SUBSET DOMAIN list
  PROVE  \A k, l \in DOMAIN Keep(list, I) : k < l =>
           \E i, j \in DOMAIN list :
             i < j /\ Keep(list, I)[k] = list[i] /\ Keep(list, I)[l] = list[j]
<1>1. Len(list) \in Nat /\ I \in SUBSET (1..Len(list))
  OBVIOUS
<1>2. DOMAIN Keep(list, I) = 1..Cardinality(I)
  BY DEF Keep
<1>3. SUFFICES ASSUME NEW k \in DOMAIN Keep(list, I), NEW l \in DOMAIN Keep(list, I), k < l
               PROVE  \E i, j \in DOMAIN list :
                        i < j /\ Keep(list, I)[k] = list[i] /\ Keep(list, I)[l] = list[j]
  OBVIOUS
<1>4. Nth(I, k) \in I /\ Nth(I, l) \in I /\ Nth(I, k) < Nth(I, l)
  BY <1>1, <1>2, <1>3, NthLists
<1>5. QED
  BY <1>2, <1>4 DEF Keep

\* The erase-remove of DeleteGroup and DeleteMetric: the key is gone, and
\* nothing else is lost or doubled ...
THEOREM WithoutLeaves ==
  ASSUME NEW Keys, NEW list \in Seq(Keys), NEW key
  PROVE  /\ Without(list, key) \in Seq(Keys) /\ Len(Without(list, key)) <= Len(list)
         /\ IsInjective(list) => IsInjective(Without(list, key))
         /\ Range(Without(list, key)) = Range(list) \ {key}
<1> DEFINE I == {i \in DOMAIN list : list[i] # key}
           next == Without(list, key)
<1>1. I \in SUBSET DOMAIN list /\ next = Keep(list, I)
  BY DEF Without
<1>2. \A i \in DOMAIN list : i \in I <=> list[i] # key
  OBVIOUS
<1> HIDE DEF I
<1>3. /\ Keep(list, I) \in Seq(Keys) /\ Len(Keep(list, I)) <= Len(list)
      /\ IsInjective(list) => IsInjective(Keep(list, I))
      /\ \A k \in DOMAIN Keep(list, I) : \E i \in I : Keep(list, I)[k] = list[i]
      /\ \A i \in I : \E k \in DOMAIN Keep(list, I) : Keep(list, I)[k] = list[i]
  BY <1>1, KeepLeaves
<1>4. ASSUME NEW y \in Range(Keep(list, I)) PROVE y \in Range(list) \ {key}
  <2>1. PICK i \in I : y = list[i]
    BY <1>3 DEF Range
  <2>2. QED
    BY <1>1, <1>2, <2>1 DEF Range
<1>5. ASSUME NEW y \in Range(list) \ {key} PROVE y \in Range(Keep(list, I))
  <2>1. PICK i \in I : y = list[i]
    BY <1>2 DEF Range
  <2>2. PICK k \in DOMAIN Keep(list, I) : Keep(list, I)[k] = y
    BY <1>3, <2>1
  <2>3. QED
    BY <2>2 DEF Range
<1>6. QED
  BY <1>1, <1>3, <1>4, <1>5

\* ... or moved.
THEOREM WithoutOrders ==
  ASSUME NEW Keys, NEW list \in Seq(Keys), NEW key
  PROVE  \A k, l \in DOMAIN Without(list, key) : k < l =>
           \E i, j \in DOMAIN list :
             i < j /\ Without(list, key)[k] = list[i] /\ Without(list, key)[l] = list[j]
<1> DEFINE I == {i \in DOMAIN list : list[i] # key}
<1>1. I \in SUBSET DOMAIN list /\ Without(list, key) = Keep(list, I)
  BY DEF Without
<1> HIDE DEF I
<1>2. QED
  BY <1>1, KeepOrders

\* A sorted list holds the same elements, as often.
THEOREM ArrangementHolds ==
  ASSUME NEW S, NEW list \in Seq(S), NEW s \in Arrangements(list)
  PROVE  /\ s \in Seq(S) /\ Len(s) = Len(list)
         /\ Range(s) = Range(list)
         /\ IsInjective(list) => IsInjective(s)
<1>1. Len(list) \in Nat /\ DOMAIN list = 1..Len(list) /\ \A i \in DOMAIN list : list[i] \in S
  OBVIOUS
<1>2. PICK p \in Injection(DOMAIN list, DOMAIN list) : s = [i \in DOMAIN list |-> list[p[i]]]
  BY DEF Arrangements
<1>3. /\ p \in [DOMAIN list -> DOMAIN list]
      /\ \A i, j \in DOMAIN list : p[i] = p[j] => i = j
  BY <1>2 DEF Injection, IsInjective
<1>4. \A j \in DOMAIN list : \E i \in DOMAIN list : p[i] = j
  <2>1. IsFiniteSet(DOMAIN list)
    BY <1>1, FS_Interval
  <2>2. p \in Surjection(DOMAIN list, DOMAIN list)
    BY <1>2, <2>1, FS_Injection
  <2>3. QED
    BY <2>2 DEF Surjection
<1>5. s \in Seq(S) /\ Len(s) = Len(list) /\ DOMAIN s = DOMAIN list
  BY <1>1, <1>2, <1>3
<1>6. Range(s) = Range(list)
  BY <1>2, <1>3, <1>4, <1>5 DEF Range
<1>7. IsInjective(list) => IsInjective(s)
  BY <1>2, <1>3, <1>5 DEF IsInjective
<1>8. QED
  BY <1>5, <1>6, <1>7

\* push_back adds an element, and none is twice in the list if it is new.
THEOREM AppendAdds ==
  ASSUME NEW S, NEW list \in Seq(S), NEW x \in S
  PROVE  /\ Append(list, x) \in Seq(S) /\ Len(Append(list, x)) = Len(list) + 1
         /\ Append(list, x)[Len(list) + 1] = x
         /\ Range(Append(list, x)) = Range(list) \cup {x}
         /\ IsInjective(list) /\ x \notin Range(list) => IsInjective(Append(list, x))
<1> DEFINE longer == Append(list, x)
<1>1. /\ longer \in Seq(S) /\ Len(longer) = Len(list) + 1 /\ Len(list) \in Nat
      /\ DOMAIN list = 1..Len(list) /\ DOMAIN longer = 1..(Len(list) + 1)
      /\ longer[Len(list) + 1] = x /\ \A i \in 1..Len(list) : longer[i] = list[i]
  OBVIOUS
<1>2. \A i \in DOMAIN longer : i \in DOMAIN list \/ i = Len(list) + 1
  BY <1>1
<1>3. DOMAIN list \subseteq DOMAIN longer /\ Len(list) + 1 \in DOMAIN longer
  BY <1>1
<1>4. Range(longer) = Range(list) \cup {x}
  BY <1>1, <1>2, <1>3 DEF Range
<1>5. ASSUME IsInjective(list), x \notin Range(list) PROVE IsInjective(longer)
  <2>1. \A i \in DOMAIN list : longer[i] # x /\ longer[i] = list[i]
    BY <1>1, <1>5 DEF Range
  <2>2. QED
    BY <1>1, <1>2, <1>5, <2>1 DEF IsInjective
<1>6. QED
  BY <1>1, <1>4, <1>5

\* CreateGroup, CreateMetric: the key asked for is in the list afterwards.
THEOREM CreateKeeps ==
  ASSUME NEW Keys, NEW list \in Seq(Keys), IsInjective(list), NEW max \in Nat,
         NEW key \in Keys, Len(list) <= max, key \in Range(list) \/ Len(list) < max,
         NEW next, next = IF key \in Range(list) THEN list ELSE Append(list, key)
  PROVE  /\ next \in Seq(Keys) /\ Len(next) <= max /\ IsInjective(next)
         /\ next[Len(next)] \in Keys
         /\ Range(next) = Range(list) \cup {key}
<1>1. Len(list) \in Nat /\ DOMAIN list = 1..Len(list) /\ \A i \in 1..Len(list) : list[i] \in Keys
  OBVIOUS
<1>2. CASE key \in Range(list)
  <2>1. Len(list) \in 1..Len(list)
    BY <1>1, <1>2 DEF Range
  <2>2. QED
    BY <1>1, <1>2, <2>1
<1>3. CASE key \notin Range(list)
  BY <1>1, <1>3, AppendAdds
<1>4. QED
  BY <1>2, <1>3
=============================================================================
