----------------------------- MODULE TopicName ------------------------------
(***************************************************************************)
(* The name of a metric::Topic and its five Sparkplug levels: either is    *)
(* derived from the other, the levels when a name is given, the name when  *)
(* it is first asked for.  The node that publishes a topic sends its name, *)
(* from which the one that receives it makes a topic of its own.           *)
(*                                                                         *)
(* A name is the sequence of its parts, <<>> the empty one; the levels are *)
(* in their order: namespace, group, message type, node, device.           *)
(***************************************************************************)
EXTENDS Vector

CONSTANTS
  Sparkplug,   \* the Sparkplug namespace
  Parts,       \* what the application sets levels to
  Given        \* names that are given to topics

State == "STATE"
Unset == ""
Depth == 1..5
NoLevels == [i \in Depth |-> Unset]

ASSUME PartsAssumption ==
  Parts \subseteq STRING /\ {Sparkplug, State, Unset} \subseteq Parts /\ Sparkplug # Unset
ASSUME GivenAssumption == Given \subseteq Seq(STRING) \ {<<>>}

VARIABLES
  name,    \* name_
  level,   \* name_space_, group_id_, message_type_, node_id_, device_id_
  single   \* history: the levels were set one by one, then the name was asked
           \* for, and nothing was set since

vars == <<name, level, single>>

Init == name = <<>> /\ level = NoLevels /\ single = TRUE

-----------------------------------------------------------------------------

\* AssignLevelName for each part of a name that has a separator: a level that
\* is set already stays.
Assign(levels, parts) ==
  [i \in Depth |-> IF levels[i] = Unset /\ 1 < Len(parts) /\ i <= Len(parts)
                   THEN parts[i] ELSE levels[i]]

\* Mutant: the names of STATE messages are taken as any other.
NoSpecialCase(levels) == levels

\* The special case of STATE messages: <namespace>/STATE/<node>
StateCase(levels) ==
  IF levels[1] = Sparkplug /\ levels[2] = State
  THEN [levels EXCEPT ![2] = Unset, ![3] = State, ![4] = levels[3]]
  ELSE levels

\* What Name(parts) makes of the levels
Levels(levels, parts) == StateCase(Assign(levels, parts))

\* What Name() makes of them: the parts that are set
Joined(levels) == Keep(levels, {i \in Depth : levels[i] # Unset})

GiveName(parts) ==
  /\ name' = parts
  /\ level' = Levels(level, parts)
  /\ single' = FALSE

\* Name() is asked by the application, by every search of the node's topics
\* and by OnPublish.
AskName ==
  /\ name = <<>>
  /\ name' = Joined(level)
  /\ UNCHANGED <<level, single>>

\* Namespace, GroupId, MessageType, NodeId, DeviceId; what they are given has
\* no '/', which would make two parts of it in the name.  (Assumed.)
SetLevel(i, part) ==
  /\ level' = [level EXCEPT ![i] = part]
  /\ single' = (single /\ name = <<>>)
  /\ UNCHANGED name

Next ==
  \/ \E parts \in Given : GiveName(parts)
  \/ AskName
  \/ \E i \in Depth, part \in Parts : SetLevel(i, part)

Spec == Init /\ [][Next]_vars

-----------------------------------------------------------------------------
(* Properties.                                                             *)

\* Levels that a name can tell: two at least and no gap; or those of a STATE
\* message; no group of the Sparkplug namespace may be called STATE.
Telling(levels) ==
  \/ /\ levels[1] # Unset /\ levels[2] # Unset
     /\ ~(levels[1] = Sparkplug /\ levels[2] = State)
     /\ \A i \in 3..4 : levels[i] = Unset => levels[i + 1] = Unset
  \/ \E node \in Parts \ {Unset} : levels = <<Sparkplug, Unset, State, node, Unset>>

\* A receiver of a topic whose levels were set one by one finds the same
\* levels in the name (Name(name) after Name()): GetTopicByMessageType at
\* the receiver finds what the sender meant, STATE messages included.
ReceiverAgrees ==
  single /\ name # <<>> /\ Telling(level) => Levels(NoLevels, name) = level
=============================================================================
