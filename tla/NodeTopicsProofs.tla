-------------------------- MODULE NodeTopicsProofs --------------------------
(***************************************************************************)
(* The safety of the topic and subscription lists, for any names, filters  *)
(* and number of topics.                                                   *)
(*                                                                         *)
(* TopicsInv is inductive.  Besides the properties it says who holds       *)
(* topic_mutex_ and what for, that PublishTopics only holds topics of the  *)
(* list, from which none is deleted meanwhile, and that nothing but the    *)
(* owner acts while there is no worker.  Its conjuncts are shown one by    *)
(* one, the types first.                                                   *)
(***************************************************************************)
EXTENDS NodeTopics, ListProofs

USE NamesAssumption, FiltersAssumption, MaxTopicsAssumption

\* topic_mutex_ is held by the thread that appends, to what it found missing.
LockHeld ==
  \A t \in Threads :
    InCall(t, "append") => mutex = t /\ Named(wanted[t]) = {}

\* What the worker holds is in the list, and stays there.
WorkerHolds ==
  /\ mutex = "worker" <=> worker \in {"publish", "reset", "send"}
  /\ worker \in {"publish", "reset", "send"} => phase = "open" /\ rest \subseteq topics
  /\ worker \in {"reset", "send"} => topic \in topics
  /\ worker = "subscribe" => phase = "opening" /\ subscriptions \subseteq tried \cup left
  /\ worker # "wait" => thread = "running"

\* No thread, no client: nobody but the owner does anything.
Quiet ==
  /\ phase # "stopped" <=> thread = "running"
  /\ phase = "stopped" => sending = {} /\ InCall("library", "idle") /\ session = "none"
  /\ InCall("owner", "destroyed") => thread = "none"

TopicsInv ==
  /\ NodeTopicsTypeOK
  /\ LockHeld
  /\ WorkerHolds
  /\ Quiet
  /\ UniqueTopics
  /\ PointersAlive
  /\ DestroyedInvalid
  /\ SubscribedWhenOpen

-----------------------------------------------------------------------------
(* Types.                                                                  *)

LEMMA ANameType == AName \in Names
BY DEF AName

\* What a search of the topics finds is one of them.
LEMMA GetTopicType ==
  ASSUME ListsOK, NEW n \in Names, GetTopic(n) # NoTopic
  PROVE  GetTopic(n) \in Objects /\ GetTopic(n) \in Named(n)
<1>1. topics \in SUBSET Nat /\ topics \in SUBSET Objects
  BY DEF ListsOK, Objects
<1>2. Named(n) \in SUBSET Nat /\ Named(n) # {} /\ GetTopic(n) = First(Named(n))
  BY <1>1 DEF Named, GetTopic
<1>3. GetTopic(n) \in Named(n)
  BY <1>2, FirstInList
<1>4. QED
  BY <1>1, <1>3 DEF Named

\* And it finds nothing only if there is none.
LEMMA NotFound ==
  ASSUME ListsOK, NEW n \in Names, GetTopic(n) = NoTopic
  PROVE  Named(n) = {}
<1>1. Named(n) \in SUBSET Nat /\ Named(n) \in SUBSET Objects
  <2>1. topics \in SUBSET Nat /\ topics \in SUBSET Objects
    BY DEF ListsOK, Objects
  <2>2. QED
    BY <2>1 DEF Named
<1>2. SUFFICES ASSUME Named(n) # {} PROVE FALSE
  OBVIOUS
<1>3. NoTopic \in Named(n)
  BY <1>1, <1>2, FirstInList DEF GetTopic
<1>4. QED
  BY <1>1, <1>3 DEF Objects, NoTopic

\* The topic PublishTopics turns to is the first of those it has not seen.
LEMMA NextTopicType ==
  ASSUME ListsOK, rest # {}
  PROVE  First(rest) \in rest /\ First(rest) \in Objects
<1>1. rest \in SUBSET Nat /\ rest \in SUBSET Objects
  BY DEF ListsOK, Objects
<1>2. QED
  BY <1>1, FirstInList

\* Every step is one of the session, or leaves it alone.
LEMMA SessionStep ==
  ASSUME TRUE, [Next]_vars
  PROVE  [S!Next]_(S!vars)
<1>1. CASE InitNode
  BY <1>1 DEF InitNode, OwnerFree, S!Ask, S!Next, S!Node, S!vars,
     sessionVars
<1>2. CASE BeginExit("exit")
  BY <1>2 DEF BeginExit, Goto, OwnerFree, S!Ask, S!Next, S!Node, S!vars,
     sessionVars
<1>3. CASE BeginExit("destroy")
  BY <1>3 DEF BeginExit, Goto, OwnerFree, S!Ask, S!Next, S!Node, S!vars,
     sessionVars
<1>4. CASE StartTask
  BY <1>4 DEF StartTask, DropClient, S!Start, S!Go, S!Next, S!Node,
     sessionVars
<1>5. CASE DoIdle
  BY <1>5 DEF DoIdle, Between, DropClient, S!StayIdle, S!Open, S!Go,
     S!Next, S!Node, sessionVars
<1>6. CASE SessionScan
  BY <1>6 DEF SessionScan, Between, S!GiveUp, S!Close, S!Closed, S!Stop,
     S!LastGoodbye, S!EndSession, S!Go, S!Next, S!Node, sessionVars
<1>7. CASE EndTask
  BY <1>7 DEF EndTask, Between, DropClient, S!Stopped, S!Go, S!Next,
     S!Node, sessionVars
<1>8. CASE GoOnline
  BY <1>8 DEF GoOnline, S!Opened, S!Go, S!Next, S!Node, sessionVars
<1>9. CASE Broker
  BY <1>9 DEF Broker, S!Broker, S!Becomes, S!Next, S!Node, sessionVars
<1>10. CASE (\E n \in Names : CreateTopic(n))
          \/ (\E n \in Names : DeleteTopic(n))
          \/ (\E o \in topics : Publishing(o)) \/ (\E o \in topics : Write(o))
          \/ (\E f \in Filters : AddSubscription(f))
          \/ (\E f \in Filters : DeleteSubscription(f)) \/ ExitNode \/ Destroy
  BY <1>10, Zenon DEF CreateTopic, CallCreate, OwnerFree, DeleteTopic,
     Named, Publishing, Write, Fresh, AddSubscription, Subscribing,
     DeleteSubscription, ExitNode, Goto, Destroy, AllInvalid, S!Next, S!Node,
     S!vars, sessionVars
<1>11. CASE BeginSubscribe \/ (\E f \in left : StartSubscription(f))
          \/ BeginPublish \/ NextTopic \/ ResetUpdated \/ OnPublish
          \/ EndPublish
  BY <1>11, Zenon DEF BeginSubscribe, Between, StartSubscription,
     BeginPublish, NextTopic, ResetUpdated, OnPublish, SetAllMetricsInvalid,
     EndPublish, S!Next, S!Node, S!vars, sessionVars
<1>12. CASE (\E n \in Names : Message(n)) \/ OnMessage
          \/ (\E o \in sending : OnSendFailure(o))
          \/ (\E o \in sending : Delivered(o)) \/ (\E t \in Threads : Find(t))
          \/ (\E t \in Threads : AppendNew(t))
  BY <1>12, Zenon DEF Message, CallCreate, OnMessage, Fresh, OnSendFailure,
     SetAllMetricsInvalid, Delivered, Find, Found, Goto, AppendNew, S!Next,
     S!Node, S!vars, sessionVars
<1>13. CASE UNCHANGED vars
  BY <1>13 DEF vars, S!Next, S!Node, S!vars, sessionVars
<1>14. QED
  BY <1>1, <1>2, <1>3, <1>4, <1>5, <1>6, <1>7, <1>8, <1>9, <1>10, <1>11,
     <1>12, <1>13 DEF Next, Owner, Worker, Library

LEMMA SessionTypes == ASSUME S!TypeOK, [S!Next]_(S!vars) PROVE S!TypeOK'
BY DEF S!TypeOK, S!Phase, S!Session, S!Next, S!Node, S!Ask, S!Broker,
   S!vars, S!Start, S!StayIdle, S!Open, S!GiveUp, S!Opened, S!Close,
   S!EndSession, S!Closed, S!Stop, S!LastGoodbye, S!Stopped, S!Go, S!Becomes

\* Objects are numbered as they are made.
LEMMA ListsStep ==
  ASSUME NodeTopicsTypeOK, [Next]_vars
  PROVE  ListsOK'
<1>1. CASE \E n \in Names : DeleteTopic(n)
  BY <1>1 DEF DeleteTopic, OwnerFree, Named, NodeTopicsTypeOK, ListsOK,
     sessionVars, listVars, flagVars, callVars, scanVars, subVars, sendVars
<1>2. CASE BeginPublish
  BY <1>2 DEF BeginPublish, Between, NodeTopicsTypeOK, ListsOK,
     sessionVars, listVars, flagVars, callVars, scanVars, subVars, sendVars
<1>3. CASE NextTopic
  BY <1>3 DEF NextTopic, NodeTopicsTypeOK, ListsOK, sessionVars, listVars,
     flagVars, callVars, scanVars, subVars, sendVars
<1>4. CASE \E t \in Threads : AppendNew(t)
  BY <1>4 DEF AppendNew, Found, NodeTopicsTypeOK, ListsOK, Objects, CallsOK,
     sessionVars, listVars, flagVars, callVars, scanVars, subVars, sendVars
<1>5. CASE (\E n \in Names : CreateTopic(n))
          \/ (\E o \in topics : Publishing(o)) \/ (\E o \in topics : Write(o))
          \/ (\E f \in Filters : AddSubscription(f))
          \/ (\E f \in Filters : DeleteSubscription(f)) \/ InitNode
          \/ BeginExit("exit") \/ BeginExit("destroy") \/ ExitNode \/ Destroy
  BY <1>5 DEF CreateTopic, CallCreate, OwnerFree, Publishing, Write, Fresh,
     AddSubscription, Subscribing, DeleteSubscription, InitNode, S!Ask,
     BeginExit, Goto, ExitNode, Destroy, AllInvalid, NodeTopicsTypeOK,
     ListsOK, sessionVars, listVars, flagVars, callVars, scanVars, subVars,
     sendVars
<1>6. CASE StartTask \/ DoIdle \/ SessionScan \/ EndTask \/ BeginSubscribe
          \/ (\E f \in left : StartSubscription(f)) \/ GoOnline
          \/ ResetUpdated \/ OnPublish \/ EndPublish
  BY <1>6 DEF StartTask, DropClient, S!Start, S!Go, DoIdle, Between,
     S!StayIdle, S!Open, SessionScan, S!GiveUp, S!Close, S!Closed, S!Stop,
     S!LastGoodbye, S!EndSession, EndTask, S!Stopped, BeginSubscribe,
     StartSubscription, GoOnline, S!Opened, ResetUpdated, OnPublish,
     SetAllMetricsInvalid, EndPublish, NodeTopicsTypeOK, ListsOK, sessionVars,
     listVars, flagVars, callVars, scanVars, subVars, sendVars
<1>7. CASE Broker \/ (\E n \in Names : Message(n)) \/ OnMessage
          \/ (\E o \in sending : OnSendFailure(o))
          \/ (\E o \in sending : Delivered(o)) \/ (\E t \in Threads : Find(t))
  BY <1>7 DEF Broker, S!Broker, S!Becomes, Message, CallCreate, OnMessage,
     Fresh, OnSendFailure, SetAllMetricsInvalid, Delivered, Find, Found, Goto,
     NodeTopicsTypeOK, ListsOK, sessionVars, listVars, flagVars, callVars,
     scanVars, subVars, sendVars
<1>8. CASE UNCHANGED vars
  BY <1>8 DEF vars, NodeTopicsTypeOK, ListsOK, sessionVars, listVars,
     flagVars, callVars, scanVars, subVars, sendVars
<1>9. QED
  BY <1>1, <1>2, <1>3, <1>4, <1>5, <1>6, <1>7, <1>8 DEF Next, Owner,
     Worker, Library

\* The flags of the topics hold booleans.
LEMMA FlagsStep ==
  ASSUME FlagsOK, [Next]_vars
  PROVE  FlagsOK'
<1>1. CASE \E o \in topics : Publishing(o)
  BY <1>1 DEF Publishing, OwnerFree, FlagsOK, sessionVars, listVars,
     flagVars, callVars, scanVars, subVars, sendVars
<1>2. CASE \E o \in topics : Write(o)
  BY <1>2 DEF Write, Fresh, OwnerFree, FlagsOK, sessionVars, listVars,
     flagVars, callVars, scanVars, subVars, sendVars
<1>3. CASE Destroy
  BY <1>3 DEF Destroy, AllInvalid, Goto, FlagsOK, sessionVars, listVars,
     flagVars, callVars, scanVars, subVars, sendVars
<1>4. CASE ResetUpdated
  BY <1>4 DEF ResetUpdated, FlagsOK, sessionVars, listVars, flagVars,
     callVars, scanVars, subVars, sendVars
<1>5. CASE OnPublish
  BY <1>5 DEF OnPublish, SetAllMetricsInvalid, FlagsOK, sessionVars,
     listVars, flagVars, callVars, scanVars, subVars, sendVars
<1>6. CASE OnMessage
  BY <1>6 DEF OnMessage, Fresh, FlagsOK, sessionVars, listVars, flagVars,
     callVars, scanVars, subVars, sendVars
<1>7. CASE \E o \in sending : OnSendFailure(o)
  BY <1>7 DEF OnSendFailure, SetAllMetricsInvalid, FlagsOK, sessionVars,
     listVars, flagVars, callVars, scanVars, subVars, sendVars
<1>8. CASE (\E n \in Names : CreateTopic(n))
          \/ (\E n \in Names : DeleteTopic(n))
          \/ (\E f \in Filters : AddSubscription(f))
          \/ (\E f \in Filters : DeleteSubscription(f)) \/ InitNode
          \/ BeginExit("exit") \/ BeginExit("destroy") \/ ExitNode
  BY <1>8 DEF CreateTopic, CallCreate, OwnerFree, DeleteTopic, Named,
     AddSubscription, Subscribing, DeleteSubscription, InitNode, S!Ask,
     BeginExit, Goto, ExitNode, FlagsOK, sessionVars, listVars, flagVars,
     callVars, scanVars, subVars, sendVars
<1>9. CASE StartTask \/ DoIdle \/ SessionScan \/ EndTask \/ BeginSubscribe
          \/ (\E f \in left : StartSubscription(f)) \/ GoOnline
          \/ BeginPublish \/ NextTopic \/ EndPublish
  BY <1>9 DEF StartTask, DropClient, S!Start, S!Go, DoIdle, Between,
     S!StayIdle, S!Open, SessionScan, S!GiveUp, S!Close, S!Closed, S!Stop,
     S!LastGoodbye, S!EndSession, EndTask, S!Stopped, BeginSubscribe,
     StartSubscription, GoOnline, S!Opened, BeginPublish, NextTopic,
     EndPublish, FlagsOK, sessionVars, listVars, flagVars, callVars,
     scanVars, subVars, sendVars
<1>10. CASE Broker \/ (\E n \in Names : Message(n))
          \/ (\E o \in sending : Delivered(o)) \/ (\E t \in Threads : Find(t))
          \/ (\E t \in Threads : AppendNew(t))
  BY <1>10 DEF Broker, S!Broker, S!Becomes, Message, CallCreate, Delivered,
     Find, Found, Goto, AppendNew, FlagsOK, sessionVars, listVars, flagVars,
     callVars, scanVars, subVars, sendVars
<1>11. CASE UNCHANGED vars
  BY <1>11 DEF vars, FlagsOK, sessionVars, listVars, flagVars, callVars,
     scanVars, subVars, sendVars
<1>12. QED
  BY <1>1, <1>2, <1>3, <1>4, <1>5, <1>6, <1>7, <1>8, <1>9, <1>10, <1>11 DEF
     Next, Owner, Worker, Library

\* So do the calls of the owner and the library.
LEMMA CallsStep ==
  ASSUME NodeTopicsTypeOK, [Next]_vars
  PROVE  CallsOK'
<1>1. CASE \E n \in Names : CreateTopic(n)
  BY <1>1 DEF CreateTopic, CallCreate, OwnerFree, NodeTopicsTypeOK,
     CallsOK, Step, Threads, Nobody, sessionVars, listVars, flagVars,
     callVars, scanVars, subVars, sendVars
<1>2. CASE BeginExit("exit")
  BY <1>2 DEF BeginExit, Goto, OwnerFree, S!Ask, NodeTopicsTypeOK, CallsOK,
     Step, Threads, Nobody, sessionVars, listVars, flagVars, callVars,
     scanVars, subVars, sendVars
<1>3. CASE BeginExit("destroy")
  BY <1>3 DEF BeginExit, Goto, OwnerFree, S!Ask, NodeTopicsTypeOK, CallsOK,
     Step, Threads, Nobody, sessionVars, listVars, flagVars, callVars,
     scanVars, subVars, sendVars
<1>4. CASE ExitNode
  BY <1>4 DEF ExitNode, Goto, NodeTopicsTypeOK, CallsOK, Step, Threads,
     Nobody, sessionVars, listVars, flagVars, callVars, scanVars, subVars,
     sendVars
<1>5. CASE Destroy
  BY <1>5 DEF Destroy, AllInvalid, Goto, NodeTopicsTypeOK, CallsOK, Step,
     Threads, Nobody, sessionVars, listVars, flagVars, callVars, scanVars,
     subVars, sendVars
<1>6. CASE BeginPublish
  BY <1>6 DEF BeginPublish, Between, NodeTopicsTypeOK, CallsOK, Step,
     Threads, Nobody, sessionVars, listVars, flagVars, callVars, scanVars,
     subVars, sendVars
<1>7. CASE EndPublish
  BY <1>7 DEF EndPublish, NodeTopicsTypeOK, CallsOK, Step, Threads, Nobody,
     sessionVars, listVars, flagVars, callVars, scanVars, subVars, sendVars
<1>8. CASE \E n \in Names : Message(n)
  BY <1>8 DEF Message, CallCreate, NodeTopicsTypeOK, CallsOK, Step, Threads,
     Nobody, sessionVars, listVars, flagVars, callVars, scanVars, subVars,
     sendVars
<1>9. CASE OnMessage
  BY <1>9 DEF OnMessage, Fresh, NodeTopicsTypeOK, CallsOK, Step, Threads,
     Nobody, sessionVars, listVars, flagVars, callVars, scanVars, subVars,
     sendVars
<1>10. CASE \E t \in Threads : Find(t)
  BY <1>10, GetTopicType, ANameType DEF Find, Found, Goto,
     NodeTopicsTypeOK, CallsOK, Step, Threads, Nobody, sessionVars, listVars,
     flagVars, callVars, scanVars, subVars, sendVars
<1>11. CASE \E t \in Threads : AppendNew(t)
  BY <1>11, ANameType DEF AppendNew, Found, NodeTopicsTypeOK, CallsOK,
     Step, Threads, Nobody, ListsOK, Objects, sessionVars, listVars, flagVars,
     callVars, scanVars, subVars, sendVars
<1>12. CASE (\E n \in Names : DeleteTopic(n))
          \/ (\E o \in topics : Publishing(o)) \/ (\E o \in topics : Write(o))
          \/ (\E f \in Filters : AddSubscription(f))
          \/ (\E f \in Filters : DeleteSubscription(f)) \/ InitNode
  BY <1>12 DEF DeleteTopic, OwnerFree, Named, Publishing, Write, Fresh,
     AddSubscription, Subscribing, DeleteSubscription, InitNode, S!Ask,
     NodeTopicsTypeOK, CallsOK, Step, Threads, Nobody, sessionVars, listVars,
     flagVars, callVars, scanVars, subVars, sendVars
<1>13. CASE StartTask \/ DoIdle \/ SessionScan \/ EndTask \/ BeginSubscribe
          \/ (\E f \in left : StartSubscription(f)) \/ GoOnline \/ NextTopic
          \/ ResetUpdated \/ OnPublish
  BY <1>13 DEF StartTask, DropClient, S!Start, S!Go, DoIdle, Between,
     S!StayIdle, S!Open, SessionScan, S!GiveUp, S!Close, S!Closed, S!Stop,
     S!LastGoodbye, S!EndSession, EndTask, S!Stopped, BeginSubscribe,
     StartSubscription, GoOnline, S!Opened, NextTopic, ResetUpdated,
     OnPublish, SetAllMetricsInvalid, NodeTopicsTypeOK, CallsOK, Step,
     Threads, Nobody, sessionVars, listVars, flagVars, callVars, scanVars,
     subVars, sendVars
<1>14. CASE Broker \/ (\E o \in sending : OnSendFailure(o))
          \/ (\E o \in sending : Delivered(o))
  BY <1>14 DEF Broker, S!Broker, S!Becomes, OnSendFailure,
     SetAllMetricsInvalid, Delivered, NodeTopicsTypeOK, CallsOK, Step,
     Threads, Nobody, sessionVars, listVars, flagVars, callVars, scanVars,
     subVars, sendVars
<1>15. CASE UNCHANGED vars
  BY <1>15 DEF vars, NodeTopicsTypeOK, CallsOK, Step, Threads, Nobody,
     sessionVars, listVars, flagVars, callVars, scanVars, subVars, sendVars
<1>16. QED
  BY <1>1, <1>2, <1>3, <1>4, <1>5, <1>6, <1>7, <1>8, <1>9, <1>10, <1>11,
     <1>12, <1>13, <1>14, <1>15 DEF Next, Owner, Worker, Library

\* And what the worker does.
LEMMA WorkerStep ==
  ASSUME NodeTopicsTypeOK, [Next]_vars
  PROVE  WorkerOK'
<1>1. CASE \E f \in Filters : AddSubscription(f)
  BY <1>1 DEF AddSubscription, Subscribing, OwnerFree, NodeTopicsTypeOK,
     WorkerOK, Scan, NoTopic, Objects, sessionVars, listVars, flagVars,
     callVars, scanVars, subVars, sendVars
<1>2. CASE \E f \in Filters : DeleteSubscription(f)
  BY <1>2 DEF DeleteSubscription, Subscribing, OwnerFree, NodeTopicsTypeOK,
     WorkerOK, Scan, NoTopic, Objects, sessionVars, listVars, flagVars,
     callVars, scanVars, subVars, sendVars
<1>3. CASE InitNode
  BY <1>3 DEF InitNode, OwnerFree, S!Ask, NodeTopicsTypeOK, WorkerOK, Scan,
     NoTopic, Objects, sessionVars, listVars, flagVars, callVars, scanVars,
     subVars, sendVars
<1>4. CASE StartTask
  BY <1>4 DEF StartTask, DropClient, S!Start, S!Go, NodeTopicsTypeOK,
     WorkerOK, Scan, NoTopic, Objects, sessionVars, listVars, flagVars,
     callVars, scanVars, subVars, sendVars
<1>5. CASE DoIdle
  BY <1>5 DEF DoIdle, Between, DropClient, S!StayIdle, S!Open, S!Go,
     NodeTopicsTypeOK, WorkerOK, Scan, NoTopic, Objects, sessionVars,
     listVars, flagVars, callVars, scanVars, subVars, sendVars
<1>6. CASE EndTask
  BY <1>6 DEF EndTask, Between, DropClient, S!Stopped, S!Go,
     NodeTopicsTypeOK, WorkerOK, Scan, NoTopic, Objects, sessionVars,
     listVars, flagVars, callVars, scanVars, subVars, sendVars
<1>7. CASE BeginSubscribe
  BY <1>7 DEF BeginSubscribe, Between, NodeTopicsTypeOK, WorkerOK, Scan,
     NoTopic, Objects, sessionVars, listVars, flagVars, callVars, scanVars,
     subVars, sendVars
<1>8. CASE \E f \in left : StartSubscription(f)
  BY <1>8 DEF StartSubscription, NodeTopicsTypeOK, WorkerOK, Scan, NoTopic,
     Objects, sessionVars, listVars, flagVars, callVars, scanVars, subVars,
     sendVars
<1>9. CASE GoOnline
  BY <1>9 DEF GoOnline, S!Opened, S!Go, NodeTopicsTypeOK, WorkerOK, Scan,
     NoTopic, Objects, sessionVars, listVars, flagVars, callVars, scanVars,
     subVars, sendVars
<1>10. CASE BeginPublish
  BY <1>10 DEF BeginPublish, Between, NodeTopicsTypeOK, WorkerOK, Scan,
     NoTopic, Objects, sessionVars, listVars, flagVars, callVars, scanVars,
     subVars, sendVars
<1>11. CASE NextTopic
  BY <1>11, NextTopicType DEF NextTopic, NodeTopicsTypeOK, WorkerOK, Scan,
     NoTopic, Objects, sessionVars, listVars, flagVars, callVars, scanVars,
     subVars, sendVars
<1>12. CASE ResetUpdated
  BY <1>12 DEF ResetUpdated, NodeTopicsTypeOK, WorkerOK, Scan, NoTopic,
     Objects, sessionVars, listVars, flagVars, callVars, scanVars, subVars,
     sendVars
<1>13. CASE OnPublish
  BY <1>13 DEF OnPublish, SetAllMetricsInvalid, NodeTopicsTypeOK, WorkerOK,
     Scan, NoTopic, Objects, sessionVars, listVars, flagVars, callVars,
     scanVars, subVars, sendVars
<1>14. CASE EndPublish
  BY <1>14 DEF EndPublish, NodeTopicsTypeOK, WorkerOK, Scan, NoTopic,
     Objects, sessionVars, listVars, flagVars, callVars, scanVars, subVars,
     sendVars
<1>15. CASE \E o \in sending : OnSendFailure(o)
  BY <1>15 DEF OnSendFailure, SetAllMetricsInvalid, NodeTopicsTypeOK,
     WorkerOK, Scan, NoTopic, Objects, sessionVars, listVars, flagVars,
     callVars, scanVars, subVars, sendVars
<1>16. CASE \E o \in sending : Delivered(o)
  BY <1>16 DEF Delivered, NodeTopicsTypeOK, WorkerOK, Scan, NoTopic, Objects,
     sessionVars, listVars, flagVars, callVars, scanVars, subVars, sendVars
<1>17. CASE (\E n \in Names : CreateTopic(n))
          \/ (\E n \in Names : DeleteTopic(n))
          \/ (\E o \in topics : Publishing(o)) \/ (\E o \in topics : Write(o))
          \/ BeginExit("exit") \/ BeginExit("destroy") \/ ExitNode \/ Destroy
  BY <1>17 DEF CreateTopic, CallCreate, OwnerFree, DeleteTopic, Named,
     Publishing, Write, Fresh, BeginExit, Goto, S!Ask, ExitNode, Destroy,
     AllInvalid, NodeTopicsTypeOK, WorkerOK, Scan, NoTopic, Objects,
     sessionVars, listVars, flagVars, callVars, scanVars, subVars, sendVars
<1>18. CASE SessionScan
  BY <1>18 DEF SessionScan, Between, S!GiveUp, S!Close, S!Closed, S!Stop,
     S!LastGoodbye, S!EndSession, S!Go, NodeTopicsTypeOK, WorkerOK, Scan,
     NoTopic, Objects, sessionVars, listVars, flagVars, callVars, scanVars,
     subVars, sendVars
<1>19. CASE Broker \/ (\E n \in Names : Message(n)) \/ OnMessage
          \/ (\E t \in Threads : Find(t)) \/ (\E t \in Threads : AppendNew(t))
  BY <1>19 DEF Broker, S!Broker, S!Becomes, Message, CallCreate, OnMessage,
     Fresh, Find, Found, Goto, AppendNew, NodeTopicsTypeOK, WorkerOK, Scan,
     NoTopic, Objects, sessionVars, listVars, flagVars, callVars, scanVars,
     subVars, sendVars
<1>20. CASE UNCHANGED vars
  BY <1>20 DEF vars, NodeTopicsTypeOK, WorkerOK, Scan, NoTopic, Objects,
     sessionVars, listVars, flagVars, callVars, scanVars, subVars, sendVars
<1>21. QED
  BY <1>1, <1>2, <1>3, <1>4, <1>5, <1>6, <1>7, <1>8, <1>9, <1>10, <1>11,
     <1>12, <1>13, <1>14, <1>15, <1>16, <1>17, <1>18, <1>19, <1>20 DEF Next,
     Owner, Worker, Library

\* Every step keeps the types.
LEMMA TypeStep == ASSUME NodeTopicsTypeOK, [Next]_vars PROVE NodeTopicsTypeOK'
BY SessionStep, SessionTypes, ListsStep, FlagsStep, CallsStep, WorkerStep
   DEF NodeTopicsTypeOK

-----------------------------------------------------------------------------
(* The lock, the worker and the library.                                   *)

\* Who appends a topic holds the lock, and has looked under it.
LEMMA LockStep ==
  ASSUME TopicsInv, NodeTopicsTypeOK', [Next]_vars
  PROVE  LockHeld'
<1>1. CASE \E n \in Names : CreateTopic(n)
  BY <1>1 DEF CreateTopic, CallCreate, OwnerFree, TopicsInv, LockHeld,
     InCall, Named, Threads, Nobody, NodeTopicsTypeOK, CallsOK, Step,
     sessionVars, listVars, flagVars, callVars, scanVars, subVars, sendVars
<1>2. CASE \E n \in Names : DeleteTopic(n)
  BY <1>2 DEF DeleteTopic, OwnerFree, Named, TopicsInv, LockHeld, InCall,
     Threads, Nobody, NodeTopicsTypeOK, CallsOK, sessionVars, listVars,
     flagVars, callVars, scanVars, subVars, sendVars
<1>3. CASE BeginExit("exit")
  BY <1>3 DEF BeginExit, Goto, OwnerFree, S!Ask, TopicsInv, LockHeld,
     InCall, Named, Threads, Nobody, NodeTopicsTypeOK, CallsOK, Step,
     sessionVars, listVars, flagVars, callVars, scanVars, subVars, sendVars
<1>4. CASE BeginExit("destroy")
  BY <1>4 DEF BeginExit, Goto, OwnerFree, S!Ask, TopicsInv, LockHeld,
     InCall, Named, Threads, Nobody, NodeTopicsTypeOK, CallsOK, Step,
     sessionVars, listVars, flagVars, callVars, scanVars, subVars, sendVars
<1>5. CASE ExitNode
  BY <1>5 DEF ExitNode, Goto, TopicsInv, LockHeld, InCall, Named, Threads,
     Nobody, NodeTopicsTypeOK, CallsOK, Step, sessionVars, listVars, flagVars,
     callVars, scanVars, subVars, sendVars
<1>6. CASE Destroy
  BY <1>6 DEF Destroy, AllInvalid, Goto, TopicsInv, LockHeld, InCall,
     Named, Threads, Nobody, NodeTopicsTypeOK, CallsOK, Step, sessionVars,
     listVars, flagVars, callVars, scanVars, subVars, sendVars
<1>7. CASE BeginPublish
  BY <1>7 DEF BeginPublish, Between, TopicsInv, LockHeld, InCall, Named,
     Threads, Nobody, NodeTopicsTypeOK, CallsOK, sessionVars, listVars,
     flagVars, callVars, scanVars, subVars, sendVars
<1>8. CASE EndPublish
  BY <1>8 DEF EndPublish, TopicsInv, LockHeld, InCall, Named, Threads,
     Nobody, NodeTopicsTypeOK, CallsOK, WorkerHolds, sessionVars, listVars,
     flagVars, callVars, scanVars, subVars, sendVars
<1>9. CASE \E n \in Names : Message(n)
  BY <1>9 DEF Message, CallCreate, TopicsInv, LockHeld, InCall, Named,
     Threads, Nobody, NodeTopicsTypeOK, CallsOK, Step, sessionVars, listVars,
     flagVars, callVars, scanVars, subVars, sendVars
<1>10. CASE OnMessage
  BY <1>10 DEF OnMessage, Fresh, TopicsInv, LockHeld, InCall, Named,
     Threads, Nobody, NodeTopicsTypeOK, CallsOK, Step, sessionVars, listVars,
     flagVars, callVars, scanVars, subVars, sendVars
<1>11. CASE \E t \in Threads : Find(t)
  <2>1. PICK t \in Threads : Find(t)
    BY <1>11
  <2>2. mutex = Nobody /\ \A u \in Threads : ~InCall(u, "append")
    BY <2>1 DEF Find, TopicsInv, LockHeld, Nobody, Threads
  <2>3. wanted[t] \in Names /\ ListsOK
    BY DEF TopicsInv, NodeTopicsTypeOK, CallsOK
  <2>4. CASE GetTopic(wanted[t]) # NoTopic
    BY <2>1, <2>2, <2>4
       DEF Find, Found, LockHeld, InCall, Threads, TopicsInv, NodeTopicsTypeOK,
           CallsOK
  <2>5. CASE GetTopic(wanted[t]) = NoTopic
    <3>1. Named(wanted[t])' = {} /\ mutex' = t
      BY <2>1, <2>3, <2>5, NotFound DEF Find, Goto, Named, listVars
    <3>2. \A u \in Threads : u # t => ~InCall(u, "append")'
      BY <2>1, <2>2, <2>5
         DEF Find, Goto, InCall, Threads, TopicsInv, NodeTopicsTypeOK, CallsOK
    <3>3. QED
      BY <3>1, <3>2 DEF LockHeld
  <2>6. QED
    BY <2>4, <2>5
<1>12. CASE \E t \in Threads : AppendNew(t)
  BY <1>12 DEF AppendNew, Found, TopicsInv, LockHeld, InCall, Named,
     Threads, Nobody, NodeTopicsTypeOK, CallsOK, Step, sessionVars, listVars,
     flagVars, callVars, scanVars, subVars, sendVars
<1>13. CASE (\E o \in topics : Publishing(o)) \/ (\E o \in topics : Write(o))
          \/ (\E f \in Filters : AddSubscription(f))
          \/ (\E f \in Filters : DeleteSubscription(f)) \/ InitNode
  BY <1>13 DEF Publishing, OwnerFree, Write, Fresh, AddSubscription,
     Subscribing, DeleteSubscription, InitNode, S!Ask, TopicsInv, LockHeld,
     InCall, Named, Threads, Nobody, NodeTopicsTypeOK, CallsOK, sessionVars,
     listVars, flagVars, callVars, scanVars, subVars, sendVars
<1>14. CASE StartTask \/ DoIdle \/ SessionScan \/ EndTask \/ BeginSubscribe
          \/ (\E f \in left : StartSubscription(f)) \/ GoOnline \/ NextTopic
          \/ ResetUpdated \/ OnPublish
  BY <1>14 DEF StartTask, DropClient, S!Start, S!Go, DoIdle, Between,
     S!StayIdle, S!Open, SessionScan, S!GiveUp, S!Close, S!Closed, S!Stop,
     S!LastGoodbye, S!EndSession, EndTask, S!Stopped, BeginSubscribe,
     StartSubscription, GoOnline, S!Opened, NextTopic, ResetUpdated,
     OnPublish, SetAllMetricsInvalid, TopicsInv, LockHeld, InCall, Named,
     Threads, Nobody, NodeTopicsTypeOK, CallsOK, sessionVars, listVars,
     flagVars, callVars, scanVars, subVars, sendVars
<1>15. CASE Broker \/ (\E o \in sending : OnSendFailure(o))
          \/ (\E o \in sending : Delivered(o))
  BY <1>15 DEF Broker, S!Broker, S!Becomes, OnSendFailure,
     SetAllMetricsInvalid, Delivered, TopicsInv, LockHeld, InCall, Named,
     Threads, Nobody, NodeTopicsTypeOK, CallsOK, sessionVars, listVars,
     flagVars, callVars, scanVars, subVars, sendVars
<1>16. CASE UNCHANGED vars
  BY <1>16 DEF vars, TopicsInv, LockHeld, InCall, Named, Threads, Nobody,
     NodeTopicsTypeOK, CallsOK, sessionVars, listVars, flagVars, callVars,
     scanVars, subVars, sendVars
<1>17. QED
  BY <1>1, <1>2, <1>3, <1>4, <1>5, <1>6, <1>7, <1>8, <1>9, <1>10, <1>11,
     <1>12, <1>13, <1>14, <1>15, <1>16 DEF Next, Owner, Worker, Library

\* What the worker publishes is in the list all the while.
LEMMA HoldsStep ==
  ASSUME TopicsInv, NodeTopicsTypeOK', [Next]_vars
  PROVE  WorkerHolds'
<1>1. CASE \E n \in Names : DeleteTopic(n)
  BY <1>1 DEF DeleteTopic, OwnerFree, Named, TopicsInv, WorkerHolds,
     NodeTopicsTypeOK, CallsOK, WorkerOK, Threads, Nobody, Scan, InCall,
     sessionVars, listVars, flagVars, callVars, scanVars, subVars, sendVars
<1>2. CASE \E o \in topics : Publishing(o)
  BY <1>2 DEF Publishing, OwnerFree, TopicsInv, WorkerHolds,
     NodeTopicsTypeOK, CallsOK, WorkerOK, Threads, Nobody, Scan, InCall,
     FlagsOK, sessionVars, listVars, flagVars, callVars, scanVars, subVars,
     sendVars
<1>3. CASE \E f \in Filters : AddSubscription(f)
  BY <1>3 DEF AddSubscription, Subscribing, OwnerFree, TopicsInv,
     WorkerHolds, NodeTopicsTypeOK, CallsOK, WorkerOK, Threads, Nobody, Scan,
     InCall, sessionVars, listVars, flagVars, callVars, scanVars, subVars,
     sendVars
<1>4. CASE \E f \in Filters : DeleteSubscription(f)
  BY <1>4 DEF DeleteSubscription, Subscribing, OwnerFree, TopicsInv,
     WorkerHolds, NodeTopicsTypeOK, CallsOK, WorkerOK, Threads, Nobody, Scan,
     InCall, sessionVars, listVars, flagVars, callVars, scanVars, subVars,
     sendVars
<1>5. CASE InitNode
  BY <1>5 DEF InitNode, OwnerFree, S!Ask, TopicsInv, WorkerHolds,
     NodeTopicsTypeOK, CallsOK, WorkerOK, Threads, Nobody, Scan, InCall,
     sessionVars, listVars, flagVars, callVars, scanVars, subVars, sendVars
<1>6. CASE StartTask
  BY <1>6 DEF StartTask, DropClient, S!Start, S!Go, TopicsInv, WorkerHolds,
     NodeTopicsTypeOK, CallsOK, WorkerOK, Threads, Nobody, Scan, InCall,
     Quiet, sessionVars, listVars, flagVars, callVars, scanVars, subVars,
     sendVars
<1>7. CASE DoIdle
  BY <1>7 DEF DoIdle, Between, DropClient, S!StayIdle, S!Open, S!Go,
     TopicsInv, WorkerHolds, NodeTopicsTypeOK, CallsOK, WorkerOK, Threads,
     Nobody, Scan, InCall, sessionVars, listVars, flagVars, callVars,
     scanVars, subVars, sendVars
<1>8. CASE SessionScan
  BY <1>8 DEF SessionScan, Between, S!GiveUp, S!Close, S!Closed, S!Stop,
     S!LastGoodbye, S!EndSession, S!Go, TopicsInv, WorkerHolds,
     NodeTopicsTypeOK, CallsOK, WorkerOK, Threads, Nobody, Scan, InCall,
     sessionVars, listVars, flagVars, callVars, scanVars, subVars, sendVars
<1>9. CASE EndTask
  BY <1>9 DEF EndTask, Between, DropClient, S!Stopped, S!Go, TopicsInv,
     WorkerHolds, NodeTopicsTypeOK, CallsOK, WorkerOK, Threads, Nobody, Scan,
     InCall, sessionVars, listVars, flagVars, callVars, scanVars, subVars,
     sendVars
<1>10. CASE BeginSubscribe
  BY <1>10 DEF BeginSubscribe, Between, TopicsInv, WorkerHolds,
     NodeTopicsTypeOK, CallsOK, WorkerOK, Threads, Nobody, Scan, InCall,
     sessionVars, listVars, flagVars, callVars, scanVars, subVars, sendVars
<1>11. CASE \E f \in left : StartSubscription(f)
  BY <1>11 DEF StartSubscription, TopicsInv, WorkerHolds, NodeTopicsTypeOK,
     CallsOK, WorkerOK, Threads, Nobody, Scan, InCall, sessionVars, listVars,
     flagVars, callVars, scanVars, subVars, sendVars
<1>12. CASE GoOnline
  BY <1>12 DEF GoOnline, S!Opened, S!Go, TopicsInv, WorkerHolds,
     NodeTopicsTypeOK, CallsOK, WorkerOK, Threads, Nobody, Scan, InCall,
     sessionVars, listVars, flagVars, callVars, scanVars, subVars, sendVars
<1>13. CASE BeginPublish
  BY <1>13 DEF BeginPublish, Between, TopicsInv, WorkerHolds,
     NodeTopicsTypeOK, CallsOK, WorkerOK, Threads, Nobody, Scan, InCall,
     sessionVars, listVars, flagVars, callVars, scanVars, subVars, sendVars
<1>14. CASE NextTopic
  BY <1>14, NextTopicType DEF NextTopic, TopicsInv, WorkerHolds,
     NodeTopicsTypeOK, CallsOK, WorkerOK, Threads, Nobody, Scan, InCall,
     FlagsOK, sessionVars, listVars, flagVars, callVars, scanVars, subVars,
     sendVars
<1>15. CASE EndPublish
  BY <1>15 DEF EndPublish, TopicsInv, WorkerHolds, NodeTopicsTypeOK,
     CallsOK, WorkerOK, Threads, Nobody, Scan, InCall, sessionVars, listVars,
     flagVars, callVars, scanVars, subVars, sendVars
<1>16. CASE \E t \in Threads : Find(t)
  BY <1>16 DEF Find, Found, Goto, TopicsInv, WorkerHolds, NodeTopicsTypeOK,
     CallsOK, WorkerOK, Threads, Nobody, Scan, InCall, sessionVars, listVars,
     flagVars, callVars, scanVars, subVars, sendVars
<1>17. CASE \E t \in Threads : AppendNew(t)
  BY <1>17 DEF AppendNew, Found, TopicsInv, WorkerHolds, NodeTopicsTypeOK,
     CallsOK, WorkerOK, Threads, Nobody, Scan, InCall, LockHeld, ListsOK,
     sessionVars, listVars, flagVars, callVars, scanVars, subVars, sendVars
<1>18. CASE (\E n \in Names : CreateTopic(n)) \/ (\E o \in topics : Write(o))
          \/ BeginExit("exit") \/ BeginExit("destroy") \/ ExitNode \/ Destroy
  BY <1>18 DEF CreateTopic, CallCreate, OwnerFree, Write, Fresh, BeginExit,
     Goto, S!Ask, ExitNode, Destroy, AllInvalid, TopicsInv, WorkerHolds,
     NodeTopicsTypeOK, CallsOK, WorkerOK, Threads, Nobody, Scan, InCall,
     sessionVars, listVars, flagVars, callVars, scanVars, subVars, sendVars
<1>19. CASE ResetUpdated \/ OnPublish
  BY <1>19 DEF ResetUpdated, OnPublish, SetAllMetricsInvalid, TopicsInv,
     WorkerHolds, NodeTopicsTypeOK, CallsOK, WorkerOK, Threads, Nobody, Scan,
     InCall, sessionVars, listVars, flagVars, callVars, scanVars, subVars,
     sendVars
<1>20. CASE Broker \/ (\E n \in Names : Message(n)) \/ OnMessage
          \/ (\E o \in sending : OnSendFailure(o))
          \/ (\E o \in sending : Delivered(o))
  BY <1>20 DEF Broker, S!Broker, S!Becomes, Message, CallCreate, OnMessage,
     Fresh, OnSendFailure, SetAllMetricsInvalid, Delivered, TopicsInv,
     WorkerHolds, NodeTopicsTypeOK, CallsOK, WorkerOK, Threads, Nobody, Scan,
     InCall, sessionVars, listVars, flagVars, callVars, scanVars, subVars,
     sendVars
<1>21. CASE UNCHANGED vars
  BY <1>21 DEF vars, TopicsInv, WorkerHolds, NodeTopicsTypeOK, CallsOK,
     WorkerOK, Threads, Nobody, Scan, InCall, sessionVars, listVars, flagVars,
     callVars, scanVars, subVars, sendVars
<1>22. QED
  BY <1>1, <1>2, <1>3, <1>4, <1>5, <1>6, <1>7, <1>8, <1>9, <1>10, <1>11,
     <1>12, <1>13, <1>14, <1>15, <1>16, <1>17, <1>18, <1>19, <1>20, <1>21 DEF
     Next, Owner, Worker, Library

\* Without a worker there is no client, and nothing is reported.
LEMMA QuietStep ==
  ASSUME TopicsInv, NodeTopicsTypeOK', [Next]_vars
  PROVE  Quiet'
<1>1. CASE \E n \in Names : CreateTopic(n)
  BY <1>1 DEF CreateTopic, CallCreate, OwnerFree, TopicsInv, Quiet,
     NodeTopicsTypeOK, CallsOK, WorkerOK, Threads, Step, InCall, S!TypeOK,
     S!Phase, S!Session, sessionVars, listVars, flagVars, callVars, scanVars,
     subVars, sendVars
<1>2. CASE \E o \in topics : Publishing(o)
  BY <1>2 DEF Publishing, OwnerFree, TopicsInv, Quiet, NodeTopicsTypeOK,
     CallsOK, WorkerOK, Threads, Step, InCall, S!TypeOK, S!Phase, S!Session,
     sessionVars, listVars, flagVars, callVars, scanVars, subVars, sendVars
<1>3. CASE InitNode
  BY <1>3 DEF InitNode, OwnerFree, S!Ask, TopicsInv, Quiet, NodeTopicsTypeOK,
     CallsOK, WorkerOK, Threads, Step, InCall, S!TypeOK, S!Phase, S!Session,
     sessionVars, listVars, flagVars, callVars, scanVars, subVars, sendVars
<1>4. CASE BeginExit("exit")
  BY <1>4 DEF BeginExit, Goto, OwnerFree, S!Ask, TopicsInv, Quiet,
     NodeTopicsTypeOK, CallsOK, WorkerOK, Threads, Step, InCall, S!TypeOK,
     S!Phase, S!Session, sessionVars, listVars, flagVars, callVars, scanVars,
     subVars, sendVars
<1>5. CASE BeginExit("destroy")
  BY <1>5 DEF BeginExit, Goto, OwnerFree, S!Ask, TopicsInv, Quiet,
     NodeTopicsTypeOK, CallsOK, WorkerOK, Threads, Step, InCall, S!TypeOK,
     S!Phase, S!Session, sessionVars, listVars, flagVars, callVars, scanVars,
     subVars, sendVars
<1>6. CASE ExitNode
  BY <1>6 DEF ExitNode, Goto, TopicsInv, Quiet, NodeTopicsTypeOK, CallsOK,
     WorkerOK, Threads, Step, InCall, S!TypeOK, S!Phase, S!Session,
     sessionVars, listVars, flagVars, callVars, scanVars, subVars, sendVars
<1>7. CASE Destroy
  BY <1>7 DEF Destroy, AllInvalid, Goto, TopicsInv, Quiet, NodeTopicsTypeOK,
     CallsOK, WorkerOK, Threads, Step, InCall, S!TypeOK, S!Phase, S!Session,
     sessionVars, listVars, flagVars, callVars, scanVars, subVars, sendVars
<1>8. CASE StartTask
  BY <1>8 DEF StartTask, DropClient, S!Start, S!Go, TopicsInv, Quiet,
     NodeTopicsTypeOK, CallsOK, WorkerOK, Threads, Step, InCall, S!TypeOK,
     S!Phase, S!Session, sessionVars, listVars, flagVars, callVars, scanVars,
     subVars, sendVars
<1>9. CASE DoIdle
  BY <1>9 DEF DoIdle, Between, DropClient, S!StayIdle, S!Open, S!Go,
     TopicsInv, Quiet, NodeTopicsTypeOK, CallsOK, WorkerOK, Threads, Step,
     InCall, S!TypeOK, S!Phase, S!Session, sessionVars, listVars, flagVars,
     callVars, scanVars, subVars, sendVars
<1>10. CASE SessionScan
  BY <1>10 DEF SessionScan, Between, S!GiveUp, S!Close, S!Closed, S!Stop,
     S!LastGoodbye, S!EndSession, S!Go, TopicsInv, Quiet, NodeTopicsTypeOK,
     CallsOK, WorkerOK, Threads, Step, InCall, S!TypeOK, S!Phase, S!Session,
     sessionVars, listVars, flagVars, callVars, scanVars, subVars, sendVars
<1>11. CASE EndTask
  BY <1>11 DEF EndTask, Between, DropClient, S!Stopped, S!Go, TopicsInv,
     Quiet, NodeTopicsTypeOK, CallsOK, WorkerOK, Threads, Step, InCall,
     S!TypeOK, S!Phase, S!Session, sessionVars, listVars, flagVars, callVars,
     scanVars, subVars, sendVars
<1>12. CASE GoOnline
  BY <1>12 DEF GoOnline, S!Opened, S!Go, TopicsInv, Quiet, NodeTopicsTypeOK,
     CallsOK, WorkerOK, Threads, Step, InCall, S!TypeOK, S!Phase, S!Session,
     sessionVars, listVars, flagVars, callVars, scanVars, subVars, sendVars
<1>13. CASE OnPublish
  BY <1>13 DEF OnPublish, SetAllMetricsInvalid, TopicsInv, Quiet,
     NodeTopicsTypeOK, CallsOK, WorkerOK, Threads, Step, InCall, S!TypeOK,
     S!Phase, S!Session, WorkerHolds, Scan, sessionVars, listVars, flagVars,
     callVars, scanVars, subVars, sendVars
<1>14. CASE Broker
  BY <1>14 DEF Broker, S!Broker, S!Becomes, TopicsInv, Quiet,
     NodeTopicsTypeOK, CallsOK, WorkerOK, Threads, Step, InCall, S!TypeOK,
     S!Phase, S!Session, sessionVars, listVars, flagVars, callVars, scanVars,
     subVars, sendVars
<1>15. CASE \E n \in Names : Message(n)
  BY <1>15 DEF Message, CallCreate, TopicsInv, Quiet, NodeTopicsTypeOK,
     CallsOK, WorkerOK, Threads, Step, InCall, S!TypeOK, S!Phase, S!Session,
     sessionVars, listVars, flagVars, callVars, scanVars, subVars, sendVars
<1>16. CASE OnMessage
  BY <1>16 DEF OnMessage, Fresh, TopicsInv, Quiet, NodeTopicsTypeOK,
     CallsOK, WorkerOK, Threads, Step, InCall, S!TypeOK, S!Phase, S!Session,
     sessionVars, listVars, flagVars, callVars, scanVars, subVars, sendVars
<1>17. CASE \E o \in sending : OnSendFailure(o)
  BY <1>17 DEF OnSendFailure, SetAllMetricsInvalid, TopicsInv, Quiet,
     NodeTopicsTypeOK, CallsOK, WorkerOK, Threads, Step, InCall, S!TypeOK,
     S!Phase, S!Session, sessionVars, listVars, flagVars, callVars, scanVars,
     subVars, sendVars
<1>18. CASE \E o \in sending : Delivered(o)
  BY <1>18 DEF Delivered, TopicsInv, Quiet, NodeTopicsTypeOK, CallsOK,
     WorkerOK, Threads, Step, InCall, S!TypeOK, S!Phase, S!Session,
     sessionVars, listVars, flagVars, callVars, scanVars, subVars, sendVars
<1>19. CASE \E t \in Threads : Find(t)
  BY <1>19 DEF Find, Found, Goto, TopicsInv, Quiet, NodeTopicsTypeOK,
     CallsOK, WorkerOK, Threads, Step, InCall, S!TypeOK, S!Phase, S!Session,
     sessionVars, listVars, flagVars, callVars, scanVars, subVars, sendVars
<1>20. CASE \E t \in Threads : AppendNew(t)
  BY <1>20 DEF AppendNew, Found, TopicsInv, Quiet, NodeTopicsTypeOK,
     CallsOK, WorkerOK, Threads, Step, InCall, S!TypeOK, S!Phase, S!Session,
     sessionVars, listVars, flagVars, callVars, scanVars, subVars, sendVars
<1>21. CASE (\E n \in Names : DeleteTopic(n)) \/ (\E o \in topics : Write(o))
          \/ (\E f \in Filters : AddSubscription(f))
          \/ (\E f \in Filters : DeleteSubscription(f))
  BY <1>21 DEF DeleteTopic, OwnerFree, Named, Write, Fresh, AddSubscription,
     Subscribing, DeleteSubscription, TopicsInv, Quiet, NodeTopicsTypeOK,
     CallsOK, WorkerOK, Threads, Step, InCall, S!TypeOK, S!Phase, S!Session,
     sessionVars, listVars, flagVars, callVars, scanVars, subVars, sendVars
<1>22. CASE BeginSubscribe \/ (\E f \in left : StartSubscription(f))
          \/ BeginPublish \/ NextTopic \/ ResetUpdated \/ EndPublish
  BY <1>22 DEF BeginSubscribe, Between, StartSubscription, BeginPublish,
     NextTopic, ResetUpdated, EndPublish, TopicsInv, Quiet, NodeTopicsTypeOK,
     CallsOK, WorkerOK, Threads, Step, InCall, S!TypeOK, S!Phase, S!Session,
     sessionVars, listVars, flagVars, callVars, scanVars, subVars, sendVars
<1>23. CASE UNCHANGED vars
  BY <1>23 DEF vars, TopicsInv, Quiet, NodeTopicsTypeOK, CallsOK, WorkerOK,
     Threads, Step, InCall, S!TypeOK, S!Phase, S!Session, sessionVars,
     listVars, flagVars, callVars, scanVars, subVars, sendVars
<1>24. QED
  BY <1>1, <1>2, <1>3, <1>4, <1>5, <1>6, <1>7, <1>8, <1>9, <1>10, <1>11,
     <1>12, <1>13, <1>14, <1>15, <1>16, <1>17, <1>18, <1>19, <1>20, <1>21,
     <1>22, <1>23 DEF Next, Owner, Worker, Library

-----------------------------------------------------------------------------
(* The properties.                                                         *)

\* A topic is appended only when no other has its name.
LEMMA UniqueStep ==
  ASSUME TopicsInv, NodeTopicsTypeOK', [Next]_vars
  PROVE  UniqueTopics'
<1>1. CASE \E n \in Names : DeleteTopic(n)
  BY <1>1 DEF DeleteTopic, OwnerFree, Named, TopicsInv, UniqueTopics,
     sessionVars, listVars, flagVars, callVars, scanVars, subVars, sendVars
<1>2. CASE \E t \in Threads : AppendNew(t)
  <2>1. PICK t \in Threads : AppendNew(t)
    BY <1>2
  <2>2. Named(wanted[t]) = {} /\ UniqueTopics /\ ListsOK
    BY <2>1 DEF AppendNew, TopicsInv, LockHeld, NodeTopicsTypeOK
  <2>3. made' \in Objects /\ topics \in SUBSET Objects /\ made' \notin topics
    BY <2>1, <2>2 DEF AppendNew, ListsOK, Objects
  <2>4. name'[made'] = wanted[t] /\ \A o \in topics : name'[o] = name[o]
    BY <2>1, <2>2, <2>3 DEF AppendNew, ListsOK
  <2>5. \A o \in topics : name[o] # wanted[t]
    BY <2>2 DEF Named
  <2>6. topics' = topics \cup {made'}
    BY <2>1 DEF AppendNew
  <2>7. QED
    BY <2>2, <2>4, <2>5, <2>6 DEF UniqueTopics
<1>3. CASE (\E n \in Names : CreateTopic(n))
          \/ (\E o \in topics : Publishing(o)) \/ (\E o \in topics : Write(o))
          \/ (\E f \in Filters : AddSubscription(f))
          \/ (\E f \in Filters : DeleteSubscription(f)) \/ InitNode
          \/ BeginExit("exit") \/ BeginExit("destroy") \/ ExitNode \/ Destroy
  BY <1>3 DEF CreateTopic, CallCreate, OwnerFree, Publishing, Write, Fresh,
     AddSubscription, Subscribing, DeleteSubscription, InitNode, S!Ask,
     BeginExit, Goto, ExitNode, Destroy, AllInvalid, TopicsInv, UniqueTopics,
     sessionVars, listVars, flagVars, callVars, scanVars, subVars, sendVars
<1>4. CASE StartTask \/ DoIdle \/ SessionScan \/ EndTask \/ BeginSubscribe
          \/ (\E f \in left : StartSubscription(f)) \/ GoOnline
          \/ BeginPublish \/ NextTopic \/ ResetUpdated \/ OnPublish
          \/ EndPublish
  BY <1>4 DEF StartTask, DropClient, S!Start, S!Go, DoIdle, Between,
     S!StayIdle, S!Open, SessionScan, S!GiveUp, S!Close, S!Closed, S!Stop,
     S!LastGoodbye, S!EndSession, EndTask, S!Stopped, BeginSubscribe,
     StartSubscription, GoOnline, S!Opened, BeginPublish, NextTopic,
     ResetUpdated, OnPublish, SetAllMetricsInvalid, EndPublish, TopicsInv,
     UniqueTopics, sessionVars, listVars, flagVars, callVars, scanVars,
     subVars, sendVars
<1>5. CASE Broker \/ (\E n \in Names : Message(n)) \/ OnMessage
          \/ (\E o \in sending : OnSendFailure(o))
          \/ (\E o \in sending : Delivered(o)) \/ (\E t \in Threads : Find(t))
  BY <1>5 DEF Broker, S!Broker, S!Becomes, Message, CallCreate, OnMessage,
     Fresh, OnSendFailure, SetAllMetricsInvalid, Delivered, Find, Found, Goto,
     TopicsInv, UniqueTopics, sessionVars, listVars, flagVars, callVars,
     scanVars, subVars, sendVars
<1>6. CASE UNCHANGED vars
  BY <1>6 DEF vars, TopicsInv, UniqueTopics, sessionVars, listVars,
     flagVars, callVars, scanVars, subVars, sendVars
<1>7. QED
  BY <1>1, <1>2, <1>3, <1>4, <1>5, <1>6 DEF Next, Owner, Worker, Library

\* A topic is sent only while it is in the list, and a stopped node has sent
\* nothing that could still fail.
LEMMA PointersStep ==
  ASSUME TopicsInv, NodeTopicsTypeOK', [Next]_vars
  PROVE  PointersAlive'
<1>1. CASE \E n \in Names : DeleteTopic(n)
  BY <1>1 DEF DeleteTopic, OwnerFree, Named, TopicsInv, PointersAlive,
     Quiet, NodeTopicsTypeOK, WorkerOK, sessionVars, listVars, flagVars,
     callVars, scanVars, subVars, sendVars
<1>2. CASE OnPublish
  BY <1>2 DEF OnPublish, SetAllMetricsInvalid, TopicsInv, PointersAlive,
     WorkerHolds, sessionVars, listVars, flagVars, callVars, scanVars,
     subVars, sendVars
<1>3. CASE \E o \in sending : OnSendFailure(o)
  BY <1>3 DEF OnSendFailure, SetAllMetricsInvalid, TopicsInv, PointersAlive,
     sessionVars, listVars, flagVars, callVars, scanVars, subVars, sendVars
<1>4. CASE \E o \in sending : Delivered(o)
  BY <1>4 DEF Delivered, TopicsInv, PointersAlive, sessionVars, listVars,
     flagVars, callVars, scanVars, subVars, sendVars
<1>5. CASE \E t \in Threads : AppendNew(t)
  BY <1>5 DEF AppendNew, Found, TopicsInv, PointersAlive, sessionVars,
     listVars, flagVars, callVars, scanVars, subVars, sendVars
<1>6. CASE (\E n \in Names : CreateTopic(n))
          \/ (\E o \in topics : Publishing(o)) \/ (\E o \in topics : Write(o))
          \/ (\E f \in Filters : AddSubscription(f))
          \/ (\E f \in Filters : DeleteSubscription(f)) \/ InitNode
          \/ BeginExit("exit") \/ BeginExit("destroy") \/ ExitNode \/ Destroy
  BY <1>6 DEF CreateTopic, CallCreate, OwnerFree, Publishing, Write, Fresh,
     AddSubscription, Subscribing, DeleteSubscription, InitNode, S!Ask,
     BeginExit, Goto, ExitNode, Destroy, AllInvalid, TopicsInv, PointersAlive,
     sessionVars, listVars, flagVars, callVars, scanVars, subVars, sendVars
<1>7. CASE StartTask \/ DoIdle \/ SessionScan \/ EndTask \/ BeginSubscribe
          \/ (\E f \in left : StartSubscription(f)) \/ GoOnline
          \/ BeginPublish \/ NextTopic \/ ResetUpdated \/ EndPublish
  BY <1>7 DEF StartTask, DropClient, S!Start, S!Go, DoIdle, Between,
     S!StayIdle, S!Open, SessionScan, S!GiveUp, S!Close, S!Closed, S!Stop,
     S!LastGoodbye, S!EndSession, EndTask, S!Stopped, BeginSubscribe,
     StartSubscription, GoOnline, S!Opened, BeginPublish, NextTopic,
     ResetUpdated, EndPublish, TopicsInv, PointersAlive, sessionVars,
     listVars, flagVars, callVars, scanVars, subVars, sendVars
<1>8. CASE Broker \/ (\E n \in Names : Message(n)) \/ OnMessage
          \/ (\E t \in Threads : Find(t))
  BY <1>8 DEF Broker, S!Broker, S!Becomes, Message, CallCreate, OnMessage,
     Fresh, Find, Found, Goto, TopicsInv, PointersAlive, sessionVars,
     listVars, flagVars, callVars, scanVars, subVars, sendVars
<1>9. CASE UNCHANGED vars
  BY <1>9 DEF vars, TopicsInv, PointersAlive, sessionVars, listVars,
     flagVars, callVars, scanVars, subVars, sendVars
<1>10. QED
  BY <1>1, <1>2, <1>3, <1>4, <1>5, <1>6, <1>7, <1>8, <1>9 DEF Next, Owner,
     Worker, Library

\* After the destructor's loop nothing is made valid again.
LEMMA DestroyedStep ==
  ASSUME TopicsInv, NodeTopicsTypeOK', [Next]_vars
  PROVE  DestroyedInvalid'
<1>1. CASE \E n \in Names : CreateTopic(n)
  BY <1>1 DEF CreateTopic, CallCreate, OwnerFree, TopicsInv,
     DestroyedInvalid, InCall, Quiet, NodeTopicsTypeOK, CallsOK, WorkerOK,
     Threads, Step, sessionVars, listVars, flagVars, callVars, scanVars,
     subVars, sendVars
<1>2. CASE \E n \in Names : DeleteTopic(n)
  BY <1>2 DEF DeleteTopic, OwnerFree, Named, TopicsInv, DestroyedInvalid,
     InCall, Quiet, NodeTopicsTypeOK, CallsOK, WorkerOK, Threads, Step,
     sessionVars, listVars, flagVars, callVars, scanVars, subVars, sendVars
<1>3. CASE \E o \in topics : Write(o)
  BY <1>3 DEF Write, Fresh, OwnerFree, TopicsInv, DestroyedInvalid, InCall,
     Quiet, NodeTopicsTypeOK, CallsOK, WorkerOK, Threads, Step, sessionVars,
     listVars, flagVars, callVars, scanVars, subVars, sendVars
<1>4. CASE BeginExit("exit")
  BY <1>4 DEF BeginExit, Goto, OwnerFree, S!Ask, TopicsInv, DestroyedInvalid,
     InCall, Quiet, NodeTopicsTypeOK, CallsOK, WorkerOK, Threads, Step,
     sessionVars, listVars, flagVars, callVars, scanVars, subVars, sendVars
<1>5. CASE BeginExit("destroy")
  BY <1>5 DEF BeginExit, Goto, OwnerFree, S!Ask, TopicsInv, DestroyedInvalid,
     InCall, Quiet, NodeTopicsTypeOK, CallsOK, WorkerOK, Threads, Step,
     sessionVars, listVars, flagVars, callVars, scanVars, subVars, sendVars
<1>6. CASE ExitNode
  BY <1>6 DEF ExitNode, Goto, TopicsInv, DestroyedInvalid, InCall, Quiet,
     NodeTopicsTypeOK, CallsOK, WorkerOK, Threads, Step, sessionVars,
     listVars, flagVars, callVars, scanVars, subVars, sendVars
<1>7. CASE Destroy
  <2>1. topics' = topics /\ topics \in SUBSET Objects
    BY <1>7 DEF Destroy, listVars, TopicsInv, NodeTopicsTypeOK, ListsOK,
       Objects
  <2>2. \A o \in Objects : valid'[o] = (valid[o] /\ o \notin topics)
    BY <1>7, Zenon DEF Destroy, AllInvalid
  <2>3. QED
    BY <2>1, <2>2, Zenon DEF DestroyedInvalid
<1>8. CASE OnPublish
  BY <1>8 DEF OnPublish, SetAllMetricsInvalid, TopicsInv, DestroyedInvalid,
     InCall, Quiet, NodeTopicsTypeOK, CallsOK, WorkerOK, Threads, Step,
     FlagsOK, Objects, ListsOK, WorkerHolds, Scan, sessionVars, listVars,
     flagVars, callVars, scanVars, subVars, sendVars
<1>9. CASE \E n \in Names : Message(n)
  BY <1>9 DEF Message, CallCreate, TopicsInv, DestroyedInvalid, InCall,
     Quiet, NodeTopicsTypeOK, CallsOK, WorkerOK, Threads, Step, sessionVars,
     listVars, flagVars, callVars, scanVars, subVars, sendVars
<1>10. CASE OnMessage
  BY <1>10 DEF OnMessage, Fresh, TopicsInv, DestroyedInvalid, InCall,
     Quiet, NodeTopicsTypeOK, CallsOK, WorkerOK, Threads, Step, sessionVars,
     listVars, flagVars, callVars, scanVars, subVars, sendVars
<1>11. CASE \E o \in sending : OnSendFailure(o)
  BY <1>11 DEF OnSendFailure, SetAllMetricsInvalid, TopicsInv,
     DestroyedInvalid, InCall, Quiet, NodeTopicsTypeOK, CallsOK, WorkerOK,
     Threads, Step, sessionVars, listVars, flagVars, callVars, scanVars,
     subVars, sendVars
<1>12. CASE \E t \in Threads : Find(t)
  BY <1>12 DEF Find, Found, Goto, TopicsInv, DestroyedInvalid, InCall,
     Quiet, NodeTopicsTypeOK, CallsOK, WorkerOK, Threads, Step, sessionVars,
     listVars, flagVars, callVars, scanVars, subVars, sendVars
<1>13. CASE \E t \in Threads : AppendNew(t)
  BY <1>13 DEF AppendNew, Found, TopicsInv, DestroyedInvalid, InCall,
     Quiet, NodeTopicsTypeOK, CallsOK, WorkerOK, Threads, Step, sessionVars,
     listVars, flagVars, callVars, scanVars, subVars, sendVars
<1>14. CASE (\E o \in topics : Publishing(o))
          \/ (\E f \in Filters : AddSubscription(f))
          \/ (\E f \in Filters : DeleteSubscription(f)) \/ InitNode
  BY <1>14 DEF Publishing, OwnerFree, AddSubscription, Subscribing,
     DeleteSubscription, InitNode, S!Ask, TopicsInv, DestroyedInvalid, InCall,
     Quiet, NodeTopicsTypeOK, CallsOK, WorkerOK, Threads, Step, sessionVars,
     listVars, flagVars, callVars, scanVars, subVars, sendVars
<1>15. CASE StartTask \/ DoIdle \/ SessionScan \/ EndTask \/ BeginSubscribe
          \/ (\E f \in left : StartSubscription(f)) \/ GoOnline
          \/ BeginPublish \/ NextTopic \/ ResetUpdated \/ EndPublish
  BY <1>15 DEF StartTask, DropClient, S!Start, S!Go, DoIdle, Between,
     S!StayIdle, S!Open, SessionScan, S!GiveUp, S!Close, S!Closed, S!Stop,
     S!LastGoodbye, S!EndSession, EndTask, S!Stopped, BeginSubscribe,
     StartSubscription, GoOnline, S!Opened, BeginPublish, NextTopic,
     ResetUpdated, EndPublish, TopicsInv, DestroyedInvalid, InCall, Quiet,
     NodeTopicsTypeOK, CallsOK, WorkerOK, Threads, Step, sessionVars,
     listVars, flagVars, callVars, scanVars, subVars, sendVars
<1>16. CASE Broker \/ (\E o \in sending : Delivered(o))
  BY <1>16 DEF Broker, S!Broker, S!Becomes, Delivered, TopicsInv,
     DestroyedInvalid, InCall, Quiet, NodeTopicsTypeOK, CallsOK, WorkerOK,
     Threads, Step, sessionVars, listVars, flagVars, callVars, scanVars,
     subVars, sendVars
<1>17. CASE UNCHANGED vars
  BY <1>17 DEF vars, TopicsInv, DestroyedInvalid, InCall, Quiet,
     NodeTopicsTypeOK, CallsOK, WorkerOK, Threads, Step, sessionVars,
     listVars, flagVars, callVars, scanVars, subVars, sendVars
<1>18. QED
  BY <1>1, <1>2, <1>3, <1>4, <1>5, <1>6, <1>7, <1>8, <1>9, <1>10, <1>11,
     <1>12, <1>13, <1>14, <1>15, <1>16, <1>17 DEF Next, Owner, Worker, Library

\* A node goes online after the last of its subscriptions.
LEMMA SubscribedStep ==
  ASSUME TopicsInv, NodeTopicsTypeOK', [Next]_vars
  PROVE  SubscribedWhenOpen'
<1>1. CASE \E f \in Filters : AddSubscription(f)
  BY <1>1 DEF AddSubscription, Subscribing, OwnerFree, TopicsInv,
     SubscribedWhenOpen, NodeTopicsTypeOK, S!TypeOK, S!Phase, WorkerOK,
     Quiet, WorkerHolds, sessionVars, listVars, flagVars, callVars, scanVars,
     subVars, sendVars
<1>2. CASE \E f \in Filters : DeleteSubscription(f)
  BY <1>2 DEF DeleteSubscription, Subscribing, OwnerFree, TopicsInv,
     SubscribedWhenOpen, NodeTopicsTypeOK, S!TypeOK, S!Phase, WorkerOK,
     Quiet, WorkerHolds, sessionVars, listVars, flagVars, callVars, scanVars,
     subVars, sendVars
<1>3. CASE InitNode
  BY <1>3 DEF InitNode, OwnerFree, S!Ask, TopicsInv, SubscribedWhenOpen,
     NodeTopicsTypeOK, S!TypeOK, S!Phase, WorkerOK, Quiet, WorkerHolds,
     sessionVars, listVars, flagVars, callVars, scanVars, subVars, sendVars
<1>4. CASE StartTask
  BY <1>4 DEF StartTask, DropClient, S!Start, S!Go, TopicsInv,
     SubscribedWhenOpen, NodeTopicsTypeOK, S!TypeOK, S!Phase, WorkerOK,
     Quiet, WorkerHolds, sessionVars, listVars, flagVars, callVars, scanVars,
     subVars, sendVars
<1>5. CASE DoIdle
  BY <1>5 DEF DoIdle, Between, DropClient, S!StayIdle, S!Open, S!Go,
     TopicsInv, SubscribedWhenOpen, NodeTopicsTypeOK, S!TypeOK, S!Phase,
     WorkerOK, Quiet, WorkerHolds, sessionVars, listVars, flagVars, callVars,
     scanVars, subVars, sendVars
<1>6. CASE SessionScan
  BY <1>6 DEF SessionScan, Between, S!GiveUp, S!Close, S!Closed, S!Stop,
     S!LastGoodbye, S!EndSession, S!Go, TopicsInv, SubscribedWhenOpen,
     NodeTopicsTypeOK, S!TypeOK, S!Phase, WorkerOK, Quiet, WorkerHolds,
     sessionVars, listVars, flagVars, callVars, scanVars, subVars, sendVars
<1>7. CASE EndTask
  BY <1>7 DEF EndTask, Between, DropClient, S!Stopped, S!Go, TopicsInv,
     SubscribedWhenOpen, NodeTopicsTypeOK, S!TypeOK, S!Phase, WorkerOK,
     Quiet, WorkerHolds, sessionVars, listVars, flagVars, callVars, scanVars,
     subVars, sendVars
<1>8. CASE \E f \in left : StartSubscription(f)
  BY <1>8 DEF StartSubscription, TopicsInv, SubscribedWhenOpen,
     NodeTopicsTypeOK, S!TypeOK, S!Phase, WorkerOK, Quiet, WorkerHolds,
     sessionVars, listVars, flagVars, callVars, scanVars, subVars, sendVars
<1>9. CASE GoOnline
  BY <1>9 DEF GoOnline, S!Opened, S!Go, TopicsInv, SubscribedWhenOpen,
     NodeTopicsTypeOK, S!TypeOK, S!Phase, WorkerOK, Quiet, WorkerHolds,
     sessionVars, listVars, flagVars, callVars, scanVars, subVars, sendVars
<1>10. CASE Broker
  BY <1>10 DEF Broker, S!Broker, S!Becomes, TopicsInv, SubscribedWhenOpen,
     NodeTopicsTypeOK, S!TypeOK, S!Phase, WorkerOK, Quiet, WorkerHolds,
     sessionVars, listVars, flagVars, callVars, scanVars, subVars, sendVars
<1>11. CASE (\E n \in Names : CreateTopic(n))
          \/ (\E n \in Names : DeleteTopic(n))
          \/ (\E o \in topics : Publishing(o)) \/ (\E o \in topics : Write(o))
          \/ BeginExit("exit") \/ BeginExit("destroy") \/ ExitNode \/ Destroy
  BY <1>11 DEF CreateTopic, CallCreate, OwnerFree, DeleteTopic, Named,
     Publishing, Write, Fresh, BeginExit, Goto, S!Ask, ExitNode, Destroy,
     AllInvalid, TopicsInv, SubscribedWhenOpen, NodeTopicsTypeOK, S!TypeOK,
     S!Phase, WorkerOK, Quiet, WorkerHolds, sessionVars, listVars, flagVars,
     callVars, scanVars, subVars, sendVars
<1>12. CASE BeginSubscribe \/ BeginPublish \/ NextTopic \/ ResetUpdated
          \/ OnPublish \/ EndPublish
  BY <1>12 DEF BeginSubscribe, Between, BeginPublish, NextTopic,
     ResetUpdated, OnPublish, SetAllMetricsInvalid, EndPublish, TopicsInv,
     SubscribedWhenOpen, NodeTopicsTypeOK, S!TypeOK, S!Phase, WorkerOK,
     Quiet, WorkerHolds, sessionVars, listVars, flagVars, callVars, scanVars,
     subVars, sendVars
<1>13. CASE (\E n \in Names : Message(n)) \/ OnMessage
          \/ (\E o \in sending : OnSendFailure(o))
          \/ (\E o \in sending : Delivered(o)) \/ (\E t \in Threads : Find(t))
          \/ (\E t \in Threads : AppendNew(t))
  BY <1>13 DEF Message, CallCreate, OnMessage, Fresh, OnSendFailure,
     SetAllMetricsInvalid, Delivered, Find, Found, Goto, AppendNew,
     TopicsInv, SubscribedWhenOpen, NodeTopicsTypeOK, S!TypeOK, S!Phase,
     WorkerOK, Quiet, WorkerHolds, sessionVars, listVars, flagVars, callVars,
     scanVars, subVars, sendVars
<1>14. CASE UNCHANGED vars
  BY <1>14 DEF vars, TopicsInv, SubscribedWhenOpen, NodeTopicsTypeOK,
     S!TypeOK, S!Phase, WorkerOK, Quiet, WorkerHolds, sessionVars, listVars,
     flagVars, callVars, scanVars, subVars, sendVars
<1>15. QED
  BY <1>1, <1>2, <1>3, <1>4, <1>5, <1>6, <1>7, <1>8, <1>9, <1>10, <1>11,
     <1>12, <1>13, <1>14 DEF Next, Owner, Worker, Library

-----------------------------------------------------------------------------
LEMMA TopicsInit == Init => TopicsInv
<1> SUFFICES ASSUME Init PROVE TopicsInv
  OBVIOUS
<1>1. NodeTopicsTypeOK
  BY ANameType
     DEF Init, NodeTopicsTypeOK, S!Init, S!TypeOK, S!Phase, S!Session, ListsOK,
     FlagsOK, CallsOK, WorkerOK, Objects, Step, Scan, Nobody
<1>2. QED
  BY <1>1
     DEF Init, S!Init, TopicsInv, LockHeld, WorkerHolds, Quiet, InCall, Nobody,
     Threads, UniqueTopics, PointersAlive, DestroyedInvalid, SubscribedWhenOpen

\* TopicsInv is inductive.
THEOREM TopicsInvariant == Spec => []TopicsInv
<1>1. ASSUME TopicsInv, [Next]_vars PROVE TopicsInv'
  <2>1. NodeTopicsTypeOK'
    BY <1>1, TypeStep DEF TopicsInv
  <2>2. QED
    BY <1>1, <2>1, LockStep, HoldsStep, QuietStep, UniqueStep, PointersStep,
       DestroyedStep, SubscribedStep DEF TopicsInv
<1>2. QED
  BY <1>1, TopicsInit, PTL DEF Spec

\* Every variable stays in its range.
THEOREM TopicsTypes == Spec => []NodeTopicsTypeOK
<1>1. TopicsInv => NodeTopicsTypeOK
  BY DEF TopicsInv
<1>2. QED
  BY <1>1, TopicsInvariant, PTL

\* However many threads create topics, no two topics have one name.
THEOREM TopicsAreUnique == Spec => []UniqueTopics
<1>1. TopicsInv => UniqueTopics
  BY DEF TopicsInv
<1>2. QED
  BY <1>1, TopicsInvariant, PTL

\* A failure callback is given a pointer to a deleted topic only if it was
\* deleted in this session, under a running node.
THEOREM PointersStayAlive == Spec => []PointersAlive
<1>1. TopicsInv => PointersAlive
  BY DEF TopicsInv
<1>2. QED
  BY <1>1, TopicsInvariant, PTL

\* A destroyed node leaves no valid metric behind.
THEOREM DestroyedStaysInvalid == Spec => []DestroyedInvalid
<1>1. TopicsInv => DestroyedInvalid
  BY DEF TopicsInv
<1>2. QED
  BY <1>1, TopicsInvariant, PTL

\* An online node has sent every subscription it did not get while online.
THEOREM OpenIsSubscribed == Spec => []SubscribedWhenOpen
<1>1. TopicsInv => SubscribedWhenOpen
  BY DEF TopicsInv
<1>2. QED
  BY <1>1, TopicsInvariant, PTL

\* The topics and subscriptions leave the session what it is: every behaviour
\* is one of MqttSession, but for its fairness.
THEOREM TopicsKeepSession == Spec => KeepsSession
<1>1. Init => S!Init
  BY DEF Init
<1>2. [Next]_vars => [S!Next]_(S!vars)
  BY SessionStep
<1>3. QED
  BY <1>1, <1>2, PTL DEF Spec, KeepsSession, S!SafeSpec
=============================================================================
