-------------------------- MODULE TopicNameProofs ---------------------------
(***************************************************************************)
(* The name of a topic tells its levels, for any parts that levels are set *)
(* to.                                                                     *)
(*                                                                         *)
(* NameInv is inductive: as long as levels are only set one by one, the    *)
(* name is what Name() made of the levels, and these did not change since. *)
(* The rest is about Keep: the levels that are set are listed without      *)
(* gaps, so the parts of the name are the levels when the set ones come    *)
(* first, and those at 1, 3 and 4 in a STATE message.                      *)
(***************************************************************************)
EXTENDS TopicName, ListProofs

NameInv ==
  single => /\ level \in [Depth -> Parts]
            /\ name = <<>> \/ name = Joined(level)

\* Name() is asked for once; a level that is set afterwards, or a name that is
\* given, ends the history that ReceiverAgrees is about.
THEOREM NameInvariant == Spec => []NameInv
<1>1. Init => NameInv
  BY PartsAssumption DEF Init, NameInv, NoLevels
<1>2. NameInv /\ [Next]_vars => NameInv'
  <2>1. SUFFICES ASSUME NameInv, [Next]_vars PROVE NameInv'
    OBVIOUS
  <2>2. ASSUME NEW parts \in Given, GiveName(parts) PROVE NameInv'
    BY <2>2 DEF GiveName, NameInv
  <2>3. CASE AskName
    BY <2>1, <2>3 DEF AskName, NameInv
  <2>4. ASSUME NEW i \in Depth, NEW part \in Parts, SetLevel(i, part) PROVE NameInv'
    BY <2>1, <2>4 DEF SetLevel, NameInv
  <2>5. CASE UNCHANGED vars
    BY <2>1, <2>5 DEF vars, NameInv, Joined
  <2>6. QED
    BY <2>1, <2>2, <2>3, <2>4, <2>5 DEF Next
<1>3. QED
  BY <1>1, <1>2, PTL DEF Spec

-----------------------------------------------------------------------------
(* The parts of a name.                                                    *)

LEMMA Indices ==
  /\ 1 \in Depth /\ 2 \in Depth /\ 3 \in Depth /\ 4 \in Depth /\ 5 \in Depth
  /\ \A i \in Depth : i \in Nat /\ (i = 1 \/ i = 2 \/ i = 3 \/ i = 4 \/ i = 5)
BY DEF Depth

\* The k-th of the first n indices is k.
LEMMA NthOfFirst ==
  ASSUME NEW n \in Nat
  PROVE  Cardinality(1..n) = n /\ \A k \in 1..n : Nth(1..n, k) = k
<1>1. Cardinality(1..n) = n
  BY FS_Interval
<1>2. ASSUME NEW k \in 1..n PROVE Nth(1..n, k) = k
  <2>1. Nth(1..n, k) \in 1..n /\ Cardinality(Below(1..n, Nth(1..n, k))) = k - 1
    BY <1>1, NthLists
  <2>2. PICK i \in 1..n : i = Nth(1..n, k)
    BY <2>1
  <2>3. Below(1..n, i) = 1..(i - 1)
    BY DEF Below
  <2>4. Cardinality(1..(i - 1)) = i - 1
    BY FS_Interval
  <2>5. i - 1 = k - 1
    BY <2>1, <2>2, <2>3, <2>4
  <2>6. QED
    BY <2>2, <2>5
<1>3. QED
  BY <1>1, <1>2

\* Those of a STATE message
LEMMA NthOfState ==
  /\ Cardinality({1, 3, 4}) = 3
  /\ Nth({1, 3, 4}, 1) = 1 /\ Nth({1, 3, 4}, 2) = 3 /\ Nth({1, 3, 4}, 3) = 4
<1> DEFINE I == {1, 3, 4}
<1>1. Cardinality(I) = 3
  <2>1. Cardinality({1}) = 1 /\ IsFiniteSet({1})
    BY FS_Singleton
  <2>2. Cardinality({1} \cup {3}) = 2 /\ IsFiniteSet({1} \cup {3})
    BY <2>1, FS_AddElement
  <2>3. Cardinality(({1} \cup {3}) \cup {4}) = 3
    BY <2>2, FS_AddElement
  <2>4. ({1} \cup {3}) \cup {4} = I
    OBVIOUS
  <2>5. QED
    BY <2>3, <2>4
<1>2. I \in SUBSET (1..4)
  OBVIOUS
<1> HIDE DEF I
<1>3. /\ \A k \in 1..3 : Nth(I, k) \in I
      /\ \A k, l \in 1..3 : k < l => Nth(I, k) < Nth(I, l)
  BY <1>1, <1>2, NthLists
<1>4. /\ Nth(I, 1) \in I /\ Nth(I, 2) \in I /\ Nth(I, 3) \in I
      /\ Nth(I, 1) < Nth(I, 2) /\ Nth(I, 2) < Nth(I, 3)
  BY <1>3
<1>5. Nth(I, 1) = 1 /\ Nth(I, 2) = 3 /\ Nth(I, 3) = 4
  BY <1>4 DEF I
<1>6. QED
  BY <1>1, <1>5 DEF I

-----------------------------------------------------------------------------
(* What the receiver makes of them.                                        *)

\* Levels without a gap: the parts of the name are the levels.
LEMMA FirstLevels ==
  ASSUME NEW levels \in [Depth -> Parts], NEW n \in 2..5,
         \A i \in Depth : levels[i] # Unset <=> i <= n,
         ~(levels[1] = Sparkplug /\ levels[2] = State)
  PROVE  Levels(NoLevels, Joined(levels)) = levels
<1>1. {i \in Depth : levels[i] # Unset} = 1..n
  <2>1. \A i : i \in 1..n <=> i \in Depth /\ i <= n
    BY DEF Depth
  <2>2. QED
    BY <2>1
<1>2. Joined(levels) = [k \in 1..n |-> levels[k]]
  <2>1. n \in Nat /\ Cardinality(1..n) = n /\ \A k \in 1..n : Nth(1..n, k) = k
    BY NthOfFirst
  <2>2. Joined(levels) = Keep(levels, 1..n)
    BY <1>1 DEF Joined
  <2>3. Keep(levels, 1..n) = [k \in 1..n |-> levels[Nth(1..n, k)]]
    BY <2>1 DEF Keep
  <2>4. QED
    BY <2>1, <2>2, <2>3
<1>3. Len(Joined(levels)) = n /\ \A k \in 1..n : Joined(levels)[k] = levels[k]
  BY <1>2
<1>4. Assign(NoLevels, Joined(levels)) = levels
  <2>1. \A i \in Depth : i \in 1..n \/ (n < i /\ levels[i] = Unset)
    BY DEF Depth
  <2>2. QED
    BY <1>3, <2>1 DEF Assign, NoLevels
<1>5. QED
  BY <1>4 DEF Levels, StateCase

\* The levels of a STATE message, with the special case of both directions
LEMMA StateLevels ==
  ASSUME NEW node \in Parts \ {Unset}, NEW levels \in [Depth -> Parts],
         levels = <<Sparkplug, Unset, State, node, Unset>>
  PROVE  Levels(NoLevels, Joined(levels)) = levels
<1>1. /\ levels[1] = Sparkplug /\ levels[2] = Unset /\ levels[3] = State
      /\ levels[4] = node /\ levels[5] = Unset
  OBVIOUS
<1>2. {i \in Depth : levels[i] # Unset} = {1, 3, 4}
  <2>1. Sparkplug # Unset /\ State # Unset
    BY PartsAssumption, Zenon DEF State, Unset
  <2>2. QED
    BY <1>1, <2>1, Indices
<1>3. Joined(levels) = [k \in 1..3 |-> levels[Nth({1, 3, 4}, k)]]
  BY <1>2, NthOfState DEF Joined, Keep
<1>4. /\ Len(Joined(levels)) = 3
      /\ Joined(levels)[1] = Sparkplug /\ Joined(levels)[2] = State /\ Joined(levels)[3] = node
  BY <1>1, <1>3, NthOfState
<1> DEFINE taken == Assign(NoLevels, Joined(levels))
<1>5. taken = [i \in Depth |-> IF i <= 3 THEN Joined(levels)[i] ELSE Unset]
  BY <1>4 DEF Assign, NoLevels, Depth
<1>6. /\ taken[1] = Sparkplug /\ taken[2] = State /\ taken[3] = node
      /\ taken[4] = Unset /\ taken[5] = Unset /\ DOMAIN taken = Depth
  BY <1>4, <1>5, Indices
<1> HIDE DEF taken
<1>7. StateCase(taken) = [taken EXCEPT ![2] = Unset, ![3] = State, ![4] = node]
  BY <1>6 DEF StateCase
<1>8. /\ StateCase(taken)[1] = Sparkplug /\ StateCase(taken)[2] = Unset
      /\ StateCase(taken)[3] = State /\ StateCase(taken)[4] = node
      /\ StateCase(taken)[5] = Unset /\ DOMAIN StateCase(taken) = Depth
  BY <1>6, <1>7, Indices
<1>9. StateCase(taken) = [i \in Depth |-> StateCase(taken)[i]]
  BY <1>7, <1>8
<1>10. \A i \in Depth : StateCase(taken)[i] = levels[i]
  BY <1>1, <1>8, Indices
<1>11. StateCase(taken) = levels
  BY <1>9, <1>10
<1>12. QED
  BY <1>11 DEF Levels, taken

\* A receiver finds the levels in the name that the sender set one by one.
THEOREM NameTellsLevels == Spec => []ReceiverAgrees
<1>1. ASSUME NameInv PROVE ReceiverAgrees
  <2>1. SUFFICES ASSUME single, name # <<>>, Telling(level)
                 PROVE  Levels(NoLevels, name) = level
    BY DEF ReceiverAgrees
  <2>2. level \in [Depth -> Parts] /\ name = Joined(level)
    BY <1>1, <2>1 DEF NameInv
  <2>3. ASSUME /\ level[1] # Unset /\ level[2] # Unset
               /\ ~(level[1] = Sparkplug /\ level[2] = State)
               /\ \A i \in 3..4 : level[i] = Unset => level[i + 1] = Unset
        PROVE  Levels(NoLevels, name) = level
    <3>1. (level[3] = Unset => level[4] = Unset) /\ (level[4] = Unset => level[5] = Unset)
      <4>1. 3 \in 3..4 /\ 4 \in 3..4 /\ 3 + 1 = 4 /\ 4 + 1 = 5
        OBVIOUS
      <4>2. QED
        BY <2>3, <4>1
    <3>2. \E n \in 2..5 : \A i \in Depth : level[i] # Unset <=> i <= n
      <4>1. CASE level[3] = Unset
        <5>1. \A i \in Depth : level[i] # Unset <=> i <= 2
          BY <2>3, <3>1, <4>1, Indices
        <5>2. QED
          BY <5>1
      <4>2. CASE level[3] # Unset /\ level[4] = Unset
        <5>1. \A i \in Depth : level[i] # Unset <=> i <= 3
          BY <2>3, <3>1, <4>2, Indices
        <5>2. QED
          BY <5>1
      <4>3. CASE level[3] # Unset /\ level[4] # Unset /\ level[5] = Unset
        <5>1. \A i \in Depth : level[i] # Unset <=> i <= 4
          BY <2>3, <4>3, Indices
        <5>2. QED
          BY <5>1
      <4>4. CASE level[3] # Unset /\ level[4] # Unset /\ level[5] # Unset
        <5>1. \A i \in Depth : level[i] # Unset <=> i <= 5
          BY <2>3, <4>4, Indices
        <5>2. QED
          BY <5>1
      <4>5. QED
        BY <4>1, <4>2, <4>3, <4>4
    <3>3. QED
      BY <2>2, <2>3, <3>2, FirstLevels
  <2>4. ASSUME NEW node \in Parts \ {Unset}, level = <<Sparkplug, Unset, State, node, Unset>>
        PROVE  Levels(NoLevels, name) = level
    BY <2>2, <2>4, StateLevels
  <2>5. QED
    BY <2>1, <2>3, <2>4 DEF Telling
<1>2. QED
  BY <1>1, NameInvariant, PTL
=============================================================================
