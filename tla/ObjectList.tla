----------------------------- MODULE ObjectList -----------------------------
(* metric_list_ and topic_list_ keep their objects in the order of their    *)
(* creation.  Objects are numbered as they are made, so such a list is the  *)
(* set of its objects, and its first element the least of them.             *)
EXTENDS Naturals

First(S) == CHOOSE o \in S : \A p \in S : o <= p
=============================================================================
