---------------------------- MODULE MCNodeTopics ----------------------------
(* NodeTopics with filters that can be told apart by nothing.  Messages of *)
(* one name arrive, a topic of the other is the application's own.         *)
EXTENDS NodeTopics, TLC

CONSTANT ReceivedName

MCCovers == [f \in Filters |-> {ReceivedName}]

FilterSymmetry == Permutations(Filters)
=============================================================================
