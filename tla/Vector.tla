------------------------------- MODULE Vector -------------------------------
(***************************************************************************)
(* What the library does to its std::vectors: erase, find_if and sort of   *)
(* the standard library.  Elements are picked by their indices.            *)
(***************************************************************************)
EXTENDS ObjectList, Sequences, FiniteSets, Functions

\* The k-th of a set of indices
Nth(I, k) == CHOOSE i \in I : Cardinality({j \in I : j < i}) = k - 1

\* The elements of a list at I, in its order: what a loop with `continue' copies
\* and what erase_if leaves
Keep(list, I) == [k \in 1..Cardinality(I) |-> list[Nth(I, k)]]

\* What is left of a list when an element is erased wherever it is
Without(list, x) == Keep(list, {i \in DOMAIN list : list[i] # x})

\* The element that a search finds whose test is met at I, if there is one
FirstOf(list, I) == IF I = {} THEN {} ELSE {list[First(I)]}

\* The elements of a list in any order
Arrangements(list) ==
  {[i \in DOMAIN list |-> list[p[i]]] : p \in Injection(DOMAIN list, DOMAIN list)}

\* std::ranges::sort leaves open how it arranges elements of which none is
\* less than the other.
Sorts(list, Less(_, _)) ==
  {s \in Arrangements(list) : \A i, j \in DOMAIN s : i < j => ~Less(s[j], s[i])}
=============================================================================
