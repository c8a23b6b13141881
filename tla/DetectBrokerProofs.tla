------------------------- MODULE DetectBrokerProofs -------------------------
(***************************************************************************)
(* DetectBroker is a MqttNode whose owner calls it in a certain order, so  *)
(* what is proved of the node holds of it; on top of that, its own         *)
(* inductive invariant and what a caller of its Init may rely on.          *)
(***************************************************************************)
EXTENDS DetectBroker, MqttNodeProofs

USE MaxDelayAssumption, TornPollAssumption

-----------------------------------------------------------------------------
(* A node like any other.                                                  *)

LEMMA NodeStep == [DetectNext]_allVars => [Next]_vars
<1> SUFFICES ASSUME [DetectNext]_allVars PROVE [Next]_vars
  OBVIOUS
<1>1. CASE BeginDetect \/ GoOn
  BY <1>1, Zenon DEF BeginDetect, GoOn, StartNode, NodeStarted, PollLost,
     PollHandle, PollConnected, StopFound, ReturnFound, Next, Owner
<1>2. CASE OtherCalls
  BY <1>2, Zenon DEF OtherCalls, Next, Owner
<1>3. CASE WorkerGoesOn \/ TimeGoesOn
  BY <1>3, Zenon DEF WorkerGoesOn, TimeGoesOn, Next
<1>4. CASE LibraryGoesOn
  BY <1>4, Zenon DEF LibraryGoesOn, Next, Library, Answers
<1>5. CASE UNCHANGED allVars
  BY <1>5, Zenon DEF allVars
<1>6. QED
  BY <1>1, <1>2, <1>3, <1>4, <1>5 DEF DetectNext

\* DetectBroker::Init only makes calls that any owner of a node may make.
THEOREM DetectIsNode == DetectSpec => Spec
<1>1. DetectInit => Init
  BY DEF DetectInit
<1>2. [DetectNext]_allVars => [Next]_vars
  BY NodeStep
<1>3. QED
  BY <1>1, <1>2, PTL DEF DetectSpec, Spec

\* So the node that detects a broker behaves as one session with it, too.
THEOREM DetectKeepsSession == DetectSpec => SafeSession
BY DetectIsNode, NodeRefinesSession, PTL

-----------------------------------------------------------------------------
(* The inductive invariant.                                                *)

LEMMA DetectInvInit == DetectInit => DetectInv
<1> SUFFICES ASSUME DetectInit PROVE DetectInv
  OBVIOUS
<1>1. NodeInv
  BY InvInit DEF DetectInit
<1>2. QED
  BY <1>1 DEF DetectInit, Init, DetectInv, NodeInv, DetectTypeOK, Detecting,
     Polling, FoundIsQuiet, AttemptKnown, AnswerKnown, FoundTrue

\* Init of DetectBroker itself takes a step.
LEMMA DetectOwnStep ==
  ASSUME DetectInv, NodeInv', BeginDetect \/ GoOn
  PROVE  DetectInv'
<1> USE DEF DetectInv, NodeInv, SingleClient, LiveClients, ClientKept,
       DetectTypeOK, Detecting, Polling, FoundIsQuiet, AttemptKnown,
       AnswerKnown, FoundTrue
<1>1. CASE BeginDetect
  BY <1>1 DEF BeginDetect, InService, nodeVars, libVars
<1>2. CASE StartNode
  BY <1>2 DEF StartNode, RequestStop, nodeVars, libVars
<1>3. CASE NodeStarted
  BY <1>3 DEF NodeStarted, FinishInit, Joined, libVars
<1>4. CASE PollLost
  BY <1>4 DEF PollLost, vars, nodeVars, libVars
<1>5. CASE PollHandle
  BY <1>5 DEF PollHandle, NotYet, vars, nodeVars, libVars, TypeOK
<1>6. CASE PollConnected
  BY <1>6 DEF PollConnected, NotYet, LinkUp, vars, nodeVars, libVars, TypeOK
<1>7. CASE StopFound
  BY <1>7 DEF StopFound, RequestStop, nodeVars, libVars
<1>8. CASE ReturnFound
  BY <1>8 DEF ReturnFound, FinishExit, Joined, Destroyed
<1>9. QED
  BY <1>1, <1>2, <1>3, <1>4, <1>5, <1>6, <1>7, <1>8 DEF GoOn

\* The worker takes a step.
LEMMA DetectWorkerStep ==
  ASSUME DetectInv, NodeInv', WorkerGoesOn
  PROVE  DetectInv'
<1> USE DEF DetectInv, NodeInv, SingleClient, LiveClients, ClientKept,
       DetectTypeOK, Detecting, Polling, FoundIsQuiet, AttemptKnown,
       AnswerKnown, FoundTrue, WorkerGoesOn, NotTorn, TypeOK
<1>1. CASE StartTask \/ EndTask
  BY <1>1 DEF StartTask, EndTask, Destroyed
<1>2. CASE DoIdleWait
  BY <1>2 DEF DoIdleWait, Scan, Destroyed
<1>3. CASE DoIdleFail \/ DoIdleConnect
  BY <1>3 DEF DoIdleFail, DoIdleConnect, Scan, Destroyed, ResetFlags
<1>4. CASE GiveUpConnect \/ GoOnline \/ DoWaitOnDisconnect
  BY <1>4 DEF GiveUpConnect, GoOnline, DoWaitOnDisconnect, Scan, libVars
<1>5. CASE GoOffline \/ CloseConnection
  BY <1>5 DEF GoOffline, CloseConnection, Scan, SendDisconnect, ResetFlags,
     IsConnected, libVars
<1>6. CASE LeaveLoop \/ SkipDisconnect \/ AwaitDisconnect
  BY <1>6 DEF LeaveLoop, SkipDisconnect, AwaitDisconnect, nodeVars, libVars
<1>7. QED
  BY <1>1, <1>2, <1>3, <1>4, <1>5, <1>6 DEF Worker

\* The library takes a step.
LEMMA DetectLibraryStep ==
  ASSUME DetectInv, NodeInv', LibraryGoesOn
  PROVE  DetectInv'
<1> USE DEF DetectInv, NodeInv, SingleClient, LiveClients, ClientKept,
       OnlyOwed, DetectTypeOK, Detecting, Polling, FoundIsQuiet, AttemptKnown,
       AnswerKnown, FoundTrue, TypeOK, Link
<1>1. PICK h \in Handles :
        \/ Accept(h) /\ attempt' = "accepted"
        \/ /\ Refuse(h) \/ Close(h) \/ Drop(h) \/ Callbacks(h) \/ Traffic(h)
           /\ UNCHANGED attempt
  BY DEF LibraryGoesOn
<1>2. UNCHANGED <<detect, delay, seen, found>>
  BY DEF LibraryGoesOn
<1>3. CASE Accept(h) /\ attempt' = "accepted"
  BY <1>2, <1>3 DEF Accept, nodeVars
<1>4. CASE (Refuse(h) \/ Close(h) \/ Drop(h)) /\ UNCHANGED attempt
  BY <1>2, <1>4 DEF Refuse, Close, Drop, nodeVars
<1>5. CASE Callbacks(h) /\ UNCHANGED attempt
  BY <1>2, <1>5 DEF Callbacks, Connect, ConnectFailure, ConnectionLost,
     Disconnect, DisconnectFailure, Runs
<1>6. CASE Traffic(h) /\ UNCHANGED attempt
  BY <1>2, <1>6 DEF Traffic, libVars
<1>7. QED
  BY <1>1, <1>3, <1>4, <1>5, <1>6

\* Another call of the owner, time, or nothing.
LEMMA DetectOtherStep ==
  ASSUME DetectInv, NodeInv', OtherCalls \/ TimeGoesOn \/ UNCHANGED allVars
  PROVE  DetectInv'
<1> USE DEF DetectInv, NodeInv, SingleClient, LiveClients, ClientKept,
       DetectTypeOK, Detecting, Polling, FoundIsQuiet, AttemptKnown,
       AnswerKnown, FoundTrue, detectVars
<1>1. CASE OtherCalls
  <2>1. CASE InService \/ OutOfService
    BY <1>1, <2>1 DEF OtherCalls, InService, OutOfService, nodeVars, libVars
  <2>2. CASE detect = "idle" /\ FinishExit
    BY <1>1, <2>2 DEF OtherCalls, FinishExit, Joined, Destroyed
  <2>3. ASSUME NEW call \in {"exit", "destruct"}, detect = "idle" /\ RequestStop(call)
        PROVE  DetectInv'
    BY <1>1, <2>3 DEF OtherCalls, RequestStop, nodeVars, libVars
  <2>4. QED
    BY <1>1, <2>1, <2>2, <2>3 DEF OtherCalls
<1>2. CASE TimeGoesOn
  BY <1>2 DEF TimeGoesOn, TimerExpires, BrokerChanges, nodeVars, libVars
<1>3. CASE UNCHANGED allVars
  BY <1>3 DEF allVars, vars, nodeVars, libVars
<1>4. QED
  BY <1>1, <1>2, <1>3

LEMMA DetectInvStep == DetectInv /\ [DetectNext]_allVars => DetectInv'
<1> SUFFICES ASSUME DetectInv, [DetectNext]_allVars PROVE DetectInv'
  OBVIOUS
<1>1. NodeInv'
  BY NodeStep, InvStep DEF DetectInv
<1>2. QED
  BY <1>1, DetectOwnStep, DetectWorkerStep, DetectLibraryStep,
     DetectOtherStep DEF DetectNext

\* Together with the node's own invariant, what DetectBroker knows at each
\* point of its Init.
THEOREM DetectInvariant == DetectSpec => []DetectInv
<1>1. DetectInit => DetectInv
  BY DetectInvInit
<1>2. DetectInv /\ [DetectNext]_allVars => DetectInv'
  BY DetectInvStep
<1>3. QED
  BY <1>1, <1>2, PTL DEF DetectSpec

\* Every variable of DetectBroker stays in its range.
THEOREM DetectTypes == DetectSpec => []DetectTypeOK
<1>1. DetectInv => DetectTypeOK
  BY DEF DetectInv
<1>2. QED
  BY <1>1, DetectInvariant, PTL

\* A caller who was told that the broker exists is left with a node that has
\* neither a worker nor a client (DetectBroker::Init, Exit).
THEOREM FoundNodeIsQuiet == DetectSpec => []FoundIsQuiet
<1>1. DetectInv => FoundIsQuiet
  BY DEF DetectInv
<1>2. QED
  BY <1>1, DetectInvariant, PTL

\* No Init is answered by what an earlier one left in connection_lost_ or
\* handle_ (ResetConnectionLost after join in MqttNode::Init).
THEOREM AnswersAreOwn == DetectSpec => []OwnAnswer
<1>1. DetectInv => OwnAnswer
  BY DEF DetectInv, NodeInv, TypeOK, AttemptKnown, OwnAnswer, IsConnected,
     LinkUp
<1>2. QED
  BY <1>1, DetectInvariant, PTL

\* If the worker never destroys the client under IsConnected, a broker that
\* is found did accept a connection of this Init.
THEOREM FoundBrokerAnswered ==
  ASSUME ~TornPoll
  PROVE  DetectSpec => []FoundTrue
<1>1. DetectInv => FoundTrue
  BY DEF DetectInv, AnswerKnown
<1>2. QED
  BY <1>1, DetectInvariant, PTL
=============================================================================
