--------------------------- MODULE MqttNodeProofs ---------------------------
(***************************************************************************)
(* The safety properties of MqttNode, for any set of client addresses, any *)
(* bound on the shutdown wait, and with or without failing library calls.  *)
(*                                                                         *)
(* NodeInv is inductive.  The flags, which any thread writes, are handled  *)
(* first and by themselves; then the types; then NodeInv, with one lemma   *)
(* for each kind of thread.                                                *)
(*                                                                         *)
(* Last, every step of MqttNode is a step of MqttSession or leaves it      *)
(* unchanged.  The steps of the shutdown sequence, of the timer and of the *)
(* owner's switches are invisible there; each other step is one step of    *)
(* the session.  NodeInv says which states a step can start from.          *)
(***************************************************************************)
EXTENDS MqttNodeRefinement, TLAPS

USE HandleAssumption, ClosePollsAssumption

-----------------------------------------------------------------------------
(* Types.                                                                  *)

\* Whatever thread writes them, the atomics hold booleans.
LEMMA FlagsStep == FlagsOK /\ [Next]_vars => FlagsOK'
<1> SUFFICES ASSUME FlagsOK, [Next]_vars PROVE FlagsOK'
  OBVIOUS
<1> USE DEF FlagsOK
<1>1. CASE Worker
  BY <1>1, Zenon DEF Worker, StartTask, DoIdleWait, DoIdleFail, DoIdleConnect,
     GiveUpConnect, GoOnline, GoOffline, DoWaitOnDisconnect, LeaveLoop,
     SkipDisconnect, CloseConnection, AwaitDisconnect, EndTask, Scan,
     SendDisconnect, ResetFlags, nodeVars
<1>2. CASE Owner
  BY <1>2, Zenon DEF Owner, InService, OutOfService, RequestStop, FinishInit,
     FinishExit, nodeVars
<1>3. ASSUME NEW h \in Handles, Library(h) PROVE FlagsOK'
  BY <1>3, Zenon DEF Library, Answers, Callbacks, Accept, Refuse, Close, Drop,
     Traffic, Connect, ConnectFailure, ConnectionLost, Disconnect,
     DisconnectFailure, Runs, nodeVars
<1>4. CASE TimerExpires \/ BrokerChanges \/ UNCHANGED vars
  BY <1>4, Zenon DEF TimerExpires, BrokerChanges, vars, nodeVars
<1>5. QED
  BY <1>1, <1>2, <1>3, <1>4 DEF Next

\* Every step keeps every variable in its range.
LEMMA TypeStep == TypeOK /\ [Next]_vars => TypeOK'
<1> SUFFICES ASSUME TypeOK, [Next]_vars PROVE TypeOK'
  OBVIOUS
<1>0. FlagsOK'
  BY FlagsStep DEF TypeOK
<1> USE DEF TypeOK, ClientState, WorkerState, OwnerState, Link, Callback
<1>1. CASE Worker
  <2>1. CASE StartTask \/ DoIdleWait \/ EndTask
    BY <1>0, <2>1 DEF StartTask, DoIdleWait, EndTask, Scan, Destroyed
  <2>2. CASE DoIdleFail \/ DoIdleConnect
    BY <1>0, <2>2 DEF DoIdleFail, DoIdleConnect, Scan, Destroyed
  <2>3. CASE GiveUpConnect \/ GoOnline \/ DoWaitOnDisconnect
    BY <1>0, <2>3 DEF GiveUpConnect, GoOnline, DoWaitOnDisconnect, Scan, libVars
  <2>4. CASE GoOffline \/ CloseConnection
    BY <1>0, <2>4 DEF GoOffline, CloseConnection, Scan, SendDisconnect, libVars
  <2>5. CASE LeaveLoop \/ SkipDisconnect \/ AwaitDisconnect
    BY <1>0, <2>5 DEF LeaveLoop, SkipDisconnect, AwaitDisconnect, nodeVars, libVars
  <2>6. QED
    BY <1>1, <2>1, <2>2, <2>3, <2>4, <2>5 DEF Worker
<1>2. CASE Owner
  BY <1>0, <1>2 DEF Owner, InService, OutOfService, RequestStop, FinishInit,
     FinishExit, Destroyed, nodeVars, libVars
<1>3. ASSUME NEW h \in Handles, Library(h) PROVE TypeOK'
  <2>1. CASE Answers(h) \/ Drop(h)
    BY <1>0, <2>1 DEF Answers, Accept, Refuse, Close, Drop, nodeVars
  <2>2. CASE Callbacks(h) \/ Traffic(h)
    BY <1>0, <2>2 DEF Callbacks, Connect, ConnectFailure, ConnectionLost,
       Disconnect, DisconnectFailure, Runs, Traffic, libVars
  <2>3. QED
    BY <1>3, <2>1, <2>2 DEF Library
<1>4. CASE TimerExpires \/ BrokerChanges \/ UNCHANGED vars
  BY <1>0, <1>4 DEF TimerExpires, BrokerChanges, vars, nodeVars, libVars
<1>5. QED
  BY <1>1, <1>2, <1>3, <1>4 DEF Next

LEMMA TypeInit == Init => TypeOK
<1> SUFFICES ASSUME Init PROVE TypeOK
  OBVIOUS
<1>1. FlagsOK
  BY Zenon DEF Init, FlagsOK
<1>2. QED
  BY <1>1 DEF Init, TypeOK, ClientState, WorkerState, OwnerState, Link

\* Every variable of the node and of the library stays in its range.
THEOREM TypeCorrect == Spec => []TypeOK
<1>1. Init => TypeOK
  BY TypeInit
<1>2. TypeOK /\ [Next]_vars => TypeOK'
  BY TypeStep
<1>3. QED
  BY <1>1, <1>2, PTL DEF Spec
-----------------------------------------------------------------------------
(* The inductive invariant.                                                *)

LEMMA InvInit == Init => NodeInv
<1> SUFFICES ASSUME Init PROVE NodeInv
  OBVIOUS
<1>1. TypeOK
  BY TypeInit
<1>2. SingleClient
  BY DEF Init, SingleClient, LiveClients
<1>3. OnlyOwed
  BY DEF Init, OnlyOwed
<1>4. QED
  BY <1>1, <1>2, <1>3 DEF Init, NodeInv, ClientKept, ConnectOutstanding,
     OnlineAnswered, DisconnectOutstanding, DisconnectAnswered, InLoop

\* The library answers requests and calls the node back.
LEMMA LibraryStep ==
  ASSUME NodeInv, TypeOK', NEW h \in Handles, Library(h)
  PROVE  NodeInv'
<1> USE DEF NodeInv, SingleClient, LiveClients, OnlyOwed, ClientKept, InLoop,
       ConnectOutstanding, OnlineAnswered, DisconnectOutstanding,
       DisconnectAnswered, TypeOK, Link, Callback, ClientState
<1>1. CASE Accept(h)
  BY <1>1 DEF Accept, nodeVars
<1>2. CASE Refuse(h)
  BY <1>2 DEF Refuse, nodeVars
<1>3. CASE Close(h)
  BY <1>3 DEF Close, nodeVars
<1>4. CASE Drop(h)
  BY <1>4 DEF Drop, nodeVars
<1>5. CASE Connect(h)
  BY <1>5 DEF Connect, Runs
<1>6. CASE ConnectFailure(h)
  BY <1>6 DEF ConnectFailure, Runs
<1>7. CASE ConnectionLost(h)
  BY <1>7 DEF ConnectionLost, Runs
<1>8. CASE Disconnect(h)
  BY <1>8 DEF Disconnect, Runs
<1>9. CASE DisconnectFailure(h)
  BY <1>9 DEF DisconnectFailure, Runs
<1>10. CASE Traffic(h)
  BY <1>10 DEF Traffic, libVars
<1>11. QED
  BY <1>1, <1>2, <1>3, <1>4, <1>5, <1>6, <1>7, <1>8, <1>9, <1>10
     DEF Library, Answers, Callbacks

\* The worker scans, and shuts down.
LEMMA WorkerStep ==
  ASSUME NodeInv, TypeOK', Worker
  PROVE  NodeInv'
<1> USE DEF NodeInv, SingleClient, LiveClients, OnlyOwed, ClientKept, InLoop,
       ConnectOutstanding, OnlineAnswered, DisconnectOutstanding,
       DisconnectAnswered, TypeOK, Link, Callback, ClientState
<1>1. CASE StartTask
  BY <1>1 DEF StartTask, Destroyed
<1>2. CASE DoIdleWait
  BY <1>2 DEF DoIdleWait, Scan, Destroyed
<1>3. CASE DoIdleFail
  BY <1>3 DEF DoIdleFail, Scan, Destroyed
<1>4. CASE DoIdleConnect
  BY <1>4 DEF DoIdleConnect, Scan, Destroyed, ResetFlags
<1>5. CASE GiveUpConnect
  BY <1>5 DEF GiveUpConnect, Scan, libVars
<1>6. CASE GoOnline
  BY <1>6 DEF GoOnline, Scan, libVars, IsConnected, LinkUp
<1>7. CASE GoOffline
  BY <1>7 DEF GoOffline, Scan, SendDisconnect, ResetFlags
<1>8. CASE DoWaitOnDisconnect
  BY <1>8 DEF DoWaitOnDisconnect, Scan, libVars
<1>9. CASE LeaveLoop
  BY <1>9 DEF LeaveLoop, nodeVars, libVars
<1>10. CASE SkipDisconnect
  BY <1>10 DEF SkipDisconnect, nodeVars, libVars
<1>11. CASE CloseConnection
  BY <1>11 DEF CloseConnection, SendDisconnect, ResetFlags, IsConnected, libVars
<1>12. CASE AwaitDisconnect
  BY <1>12 DEF AwaitDisconnect, nodeVars, libVars
<1>13. CASE EndTask
  BY <1>13 DEF EndTask, Destroyed
<1>14. QED
  BY <1>1, <1>2, <1>3, <1>4, <1>5, <1>6, <1>7, <1>8, <1>9, <1>10, <1>11, <1>12, <1>13
     DEF Worker

\* The owner calls, and its calls return once the worker was joined.
LEMMA OwnerStep ==
  ASSUME NodeInv, TypeOK', Owner \/ TimerExpires \/ BrokerChanges \/ UNCHANGED vars
  PROVE  NodeInv'
<1> USE DEF NodeInv, SingleClient, LiveClients, OnlyOwed, ClientKept, InLoop,
       ConnectOutstanding, OnlineAnswered, DisconnectOutstanding,
       DisconnectAnswered, TypeOK, Link, Callback, ClientState
<1>1. CASE InService \/ OutOfService
  BY <1>1 DEF InService, OutOfService, nodeVars, libVars
<1>2. CASE \E call \in {"init", "exit", "destruct"} : RequestStop(call)
  BY <1>2 DEF RequestStop, nodeVars, libVars
<1>3. CASE FinishInit
  BY <1>3 DEF FinishInit, Joined, libVars
<1>4. CASE FinishExit
  BY <1>4 DEF FinishExit, Joined, Destroyed
<1>5. CASE TimerExpires \/ BrokerChanges \/ UNCHANGED vars
  BY <1>5 DEF TimerExpires, BrokerChanges, vars, nodeVars, libVars
<1>6. QED
  BY <1>1, <1>2, <1>3, <1>4, <1>5 DEF Owner

LEMMA InvStep == NodeInv /\ [Next]_vars => NodeInv'
<1> SUFFICES ASSUME NodeInv, [Next]_vars PROVE NodeInv'
  OBVIOUS
<1>1. TypeOK'
  BY TypeStep DEF NodeInv
<1>2. QED
  BY <1>1, LibraryStep, WorkerStep, OwnerStep DEF Next

\* The strengthened invariant of the node holds in every reachable state.
THEOREM NodeInvariant == Spec => []NodeInv
<1>1. Init => NodeInv
  BY InvInit
<1>2. NodeInv /\ [Next]_vars => NodeInv'
  BY InvStep
<1>3. QED
  BY <1>1, <1>2, PTL DEF Spec

\* The node never loses track of a client (ClientTask, DoIdle, Exit).
THEOREM NoClientLeaks == Spec => []SingleClient
<1>1. NodeInv => SingleClient
  BY DEF NodeInv
<1>2. QED
  BY <1>1, NodeInvariant, PTL

\* No callback can reach a node whose worker was joined, nor a destroyed one.
THEOREM QuietWithoutWorker == Spec => []QuietAfterExit
<1>1. NodeInv => QuietAfterExit
  BY DEF NodeInv, QuietAfterExit, TypeOK, Callback, ClientKept, SingleClient,
     LiveClients, OnlyOwed
<1>2. QED
  BY <1>1, NodeInvariant, PTL

\* Online means that this client's own connect request was answered.
THEOREM OnlineMeansAnswered == Spec => []OnlineAnswered
<1>1. NodeInv => OnlineAnswered
  BY DEF NodeInv
<1>2. QED
  BY <1>1, NodeInvariant, PTL

\* The wait for the disconnect ends early on its own answer only.
THEOREM DisconnectMeansAnswered == Spec => []DisconnectAnswered
<1>1. NodeInv => DisconnectAnswered
  BY DEF NodeInv
<1>2. QED
  BY <1>1, NodeInvariant, PTL

-----------------------------------------------------------------------------
(* The contract of a session.                                              *)

LEMMA WorkerMaps ==
  ASSUME NodeInv, NodeInv', Worker
  PROVE  Session!Node \/ UNCHANGED Session!vars
<1> USE DEF Phase, SessionState, SessionOf, Session!Go, NodeInv, SingleClient,
       LiveClients, OnlyOwed, ClientKept, InLoop, ConnectOutstanding,
       OnlineAnswered, DisconnectOutstanding, TypeOK, Link, Callback,
       ClientState, WorkerState
<1>1. StartTask => Session!Start
  BY DEF StartTask, Session!Start, Destroyed
<1>2. DoIdleWait \/ DoIdleFail => Session!StayIdle
  BY DEF Session!StayIdle, DoIdleWait, DoIdleFail, Scan, Destroyed
<1>3. DoIdleConnect => Session!Open
  BY DEF DoIdleConnect, Session!Open, Scan, Destroyed
<1>4. GiveUpConnect => Session!GiveUp
  BY DEF GiveUpConnect, Session!GiveUp, Scan, libVars
<1>5. GoOnline => Session!Opened
  BY DEF GoOnline, Session!Opened, Scan, libVars, IsConnected, LinkUp
<1>6. GoOffline => Session!Close
  BY DEF GoOffline, Session!Close, Session!EndSession, Scan, SendDisconnect
<1>7. DoWaitOnDisconnect => Session!Closed
  BY DEF DoWaitOnDisconnect, Session!Closed, Scan, libVars
<1>8. LeaveLoop => Session!Stop
  BY DEF LeaveLoop, Session!Stop, nodeVars, libVars
<1>9. SkipDisconnect \/ AwaitDisconnect => UNCHANGED Session!vars
  BY DEF Session!vars, SkipDisconnect, AwaitDisconnect, nodeVars, libVars
<1>10. CloseConnection => Session!LastGoodbye \/ UNCHANGED Session!vars
  BY DEF CloseConnection, Session!LastGoodbye, Session!vars,
     Session!EndSession, SendDisconnect, IsConnected, LinkUp, libVars
<1>11. EndTask => Session!Stopped
  BY DEF EndTask, Session!Stopped, Destroyed
<1>12. QED
  BY <1>1, <1>2, <1>3, <1>4, <1>5, <1>6, <1>7, <1>8, <1>9, <1>10, <1>11 DEF
     Worker, Session!Node

LEMMA LibraryMaps ==
  ASSUME NodeInv, NodeInv', NEW h \in Handles, Library(h)
  PROVE  Session!Broker \/ UNCHANGED Session!vars
<1> USE DEF Phase, SessionState, SessionOf, Session!Go, NodeInv, SingleClient,
       LiveClients, OnlyOwed, ClientKept, InLoop, ConnectOutstanding,
       OnlineAnswered, DisconnectOutstanding, TypeOK, Link, Callback,
       ClientState, WorkerState
<1>1. Accept(h) \/ Refuse(h) \/ Drop(h) \/ Close(h) => Session!Broker
  BY DEF Session!Broker, Session!Becomes, Accept, Refuse, Drop, Close,
     nodeVars
<1>2. Connect(h) => Session!Broker \/ UNCHANGED Session!vars
  BY DEF Connect, Session!Broker, Session!vars, Session!Becomes, Runs
<1>3. ConnectFailure(h) \/ ConnectionLost(h) => UNCHANGED Session!vars
  BY DEF Session!vars, ConnectFailure, ConnectionLost, Runs
<1>4. Disconnect(h) \/ DisconnectFailure(h) => UNCHANGED Session!vars
  BY DEF Session!vars, Disconnect, DisconnectFailure, Runs
<1>5. Traffic(h) => UNCHANGED Session!vars
  BY DEF Traffic, Session!vars, libVars
<1>6. QED
  BY <1>1, <1>2, <1>3, <1>4, <1>5 DEF Library, Answers, Callbacks

LEMMA OwnerMaps ==
  ASSUME NodeInv, NodeInv',
         Owner \/ TimerExpires \/ BrokerChanges \/ UNCHANGED vars
  PROVE  Session!Ask \/ UNCHANGED Session!vars
<1> USE DEF Phase, SessionState, SessionOf, Session!Go, NodeInv, SingleClient,
       LiveClients, OnlyOwed, ClientKept, InLoop, ConnectOutstanding,
       OnlineAnswered, DisconnectOutstanding, TypeOK, Link, Callback,
       ClientState, WorkerState
<1>1. InService \/ OutOfService => UNCHANGED Session!vars
  BY DEF Session!vars, InService, OutOfService, nodeVars, libVars
<1>2. (\E call \in {"init", "exit", "destruct"} : RequestStop(call)) => Session!Ask
  BY DEF Session!Ask, RequestStop, nodeVars, libVars
<1>3. FinishInit => Session!Ask
  BY DEF FinishInit, Session!Ask, Joined, libVars
<1>4. FinishExit => UNCHANGED Session!vars
  BY DEF FinishExit, Session!vars, Joined, Destroyed
<1>5. TimerExpires \/ BrokerChanges \/ UNCHANGED vars => UNCHANGED Session!vars
  BY DEF Session!vars, TimerExpires, BrokerChanges, vars, nodeVars, libVars
<1>6. QED
  BY <1>1, <1>2, <1>3, <1>4, <1>5 DEF Owner

LEMMA InitMaps == Init => Session!Init
BY DEF Init, Session!Init, Phase, SessionState

\* The safety part of ImplementsSession: the worker, its client and the
\* library together behave as one session with the broker (ClientTask).
THEOREM NodeRefinesSession == Spec => SafeSession
<1>1. Init => Session!Init
  BY InitMaps
<1>2. NodeInv /\ NodeInv' /\ [Next]_vars => [Session!Next]_(Session!vars)
  BY WorkerMaps, LibraryMaps, OwnerMaps DEF Next, Session!Next
<1>3. QED
  BY <1>1, <1>2, NodeInvariant, PTL DEF Spec, SafeSession, Session!SafeSpec
=============================================================================
