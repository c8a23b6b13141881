------------------------------ MODULE MqttNode ------------------------------
(***************************************************************************)
(* mqtt::MqttNode (mqtt/src/mqttnode.cpp): a node owns one worker thread   *)
(* (ClientTask) that creates, connects, disconnects and destroys a client  *)
(* of the asynchronous Paho library.  Three kinds of threads take steps:   *)
(*                                                                         *)
(*   - the owner, the application thread calling Init, Exit, InService,    *)
(*     OutOfService and the destructor;                                    *)
(*   - the worker, which scans client_state_ every 100 ms;                 *)
(*   - the library, whose threads answer requests and run the On...        *)
(*     callbacks of the node.                                              *)
(*                                                                         *)
(* One pass of the worker through the switch of ClientTask is one action:  *)
(* the only variables it shares with the other threads while it runs are   *)
(* atomics that it reads once (stop_client_task_ twice, see GoOffline),    *)
(* and requests to the library, whose answers cannot precede them.         *)
(* The shutdown sequence after the loop sleeps between reads: it is split  *)
(* at every sleep.                                                         *)
(*                                                                         *)
(* client_timer_ is abstracted to whether `now >= client_timer_' holds.    *)
(* Publishing is the subject of module MetricPublish.                      *)
(***************************************************************************)
EXTENDS Naturals

CONSTANTS
  Handles,        \* addresses MQTTAsync_createWithOptions may return
  NoHandle,       \* nullptr
  ClosePolls,     \* iterations of the shutdown wait (50 in the code)
  CallsMayFail,   \* may a library call itself return an error code?
  PromptBroker    \* does a reachable broker answer within the 5 s timer?

ASSUME HandleAssumption == NoHandle \notin Handles
ASSUME ClosePollsAssumption == ClosePolls \in Nat
ASSUME SwitchAssumption == CallsMayFail \in BOOLEAN /\ PromptBroker \in BOOLEAN

VARIABLES
  handle,             \* handle_
  client_state,       \* client_state_
  stop_client_task,   \* stop_client_task_
  client_timer,       \* "due" iff now >= client_timer_, else "armed"
  delivered,          \* delivered_
  connection_lost,    \* connection_lost_
  in_service,         \* in_service_
  worker,             \* where ClientTask is; "none" if not joinable
  polls,              \* `timeout' of the shutdown wait
  owner,              \* the call the owner thread is in
  link,               \* the library's client behind each address
  pending,            \* callbacks the library still owes the node
  broker              \* whether the broker can be reached

nodeVars  == <<handle, client_state, client_timer, delivered, connection_lost>>
libVars   == <<link, pending>>
vars == <<nodeVars, libVars, stop_client_task, in_service, worker, polls,
          owner, broker>>

ClientState == {"Idle", "WaitOnConnect", "Online", "WaitOnDisconnect"}
WorkerState == {"none", "start", "loop", "closing", "await", "destroy", "ended"}
OwnerState  == {"ready", "init", "exit", "destruct", "gone"}
Link == {"none",        \* not allocated
         "new",         \* created
         "connecting",  \* MQTTAsync_connect accepted the request
         "refused",     \* the connect attempt failed
         "up",          \* connected
         "lost",        \* the connection broke
         "closing",     \* MQTTAsync_disconnect accepted the request
         "closed"}      \* disconnected on request
Callback == {"onConnect", "onConnectFailure", "onConnectionLost",
             "onDisconnect", "onDisconnectFailure"}

FlagsOK ==
  /\ stop_client_task \in BOOLEAN /\ in_service \in BOOLEAN
  /\ delivered \in BOOLEAN /\ connection_lost \in BOOLEAN

TypeOK ==
  /\ handle \in Handles \cup {NoHandle}
  /\ client_state \in ClientState
  /\ client_timer \in {"due", "armed"}
  /\ FlagsOK
  /\ worker \in WorkerState
  /\ owner \in OwnerState
  /\ polls \in 0..ClosePolls
  /\ link \in [Handles -> Link]
  /\ pending \in [Handles -> SUBSET Callback]
  /\ broker \in {"up", "down"}

(* MqttNode::MqttNode() puts the node in service; no thread, no client.    *)
Init ==
  /\ handle = NoHandle
  /\ client_state = "Idle"
  /\ client_timer = "due"
  /\ stop_client_task = TRUE
  /\ delivered = FALSE
  /\ connection_lost = FALSE
  /\ in_service = TRUE
  /\ worker = "none"
  /\ polls = 0
  /\ owner = "ready"
  /\ link = [h \in Handles |-> "none"]
  /\ pending = [h \in Handles |-> {}]
  /\ broker \in {"up", "down"}

-----------------------------------------------------------------------------
(* The Paho library, as the code uses it.                                  *)

LiveClients == {h \in Handles : link[h] # "none"}

LinkUp(h) == link[h] \in {"up", "closing"}

\* Mutant: the client is forgotten but never destroyed.
Leaked(f, h, empty) == f

\* MQTTAsync_destroy frees the client; the library calls no callback of it
\* afterwards.  It is called only when handle_ is not null.
Destroyed(f, h, empty) == IF h = NoHandle THEN f ELSE [f EXCEPT ![h] = empty]

\* Mutant: any client counts as connected.
HasClient == handle # NoHandle

\* MqttNode::IsConnected()
IsConnected == handle # NoHandle /\ LinkUp(handle)

Accept(h) ==
  /\ link[h] = "connecting" /\ broker = "up"
  /\ link' = [link EXCEPT ![h] = "up"]
  /\ pending' = [pending EXCEPT ![h] = @ \cup {"onConnect"}]
  /\ UNCHANGED <<nodeVars, stop_client_task, in_service, worker, polls, owner, broker>>

Refuse(h) ==
  /\ link[h] = "connecting" /\ broker = "down"
  /\ link' = [link EXCEPT ![h] = "refused"]
  /\ pending' = [pending EXCEPT ![h] = @ \cup {"onConnectFailure"}]
  /\ UNCHANGED <<nodeVars, stop_client_task, in_service, worker, polls, owner, broker>>

Drop(h) ==
  /\ link[h] = "up" /\ broker = "down"
  /\ link' = [link EXCEPT ![h] = "lost"]
  /\ pending' = [pending EXCEPT ![h] = @ \cup {"onConnectionLost"}]
  /\ UNCHANGED <<nodeVars, stop_client_task, in_service, worker, polls, owner, broker>>

Close(h) ==
  /\ link[h] = "closing"
  /\ link' = [link EXCEPT ![h] = "closed"]
  /\ \E answer \in {"onDisconnect", "onDisconnectFailure"} :
       pending' = [pending EXCEPT ![h] = @ \cup {answer}]
  /\ UNCHANGED <<nodeVars, stop_client_task, in_service, worker, polls, owner, broker>>

BrokerChanges ==
  /\ broker' = IF broker = "up" THEN "down" ELSE "up"
  /\ UNCHANGED <<nodeVars, libVars, stop_client_task, in_service, worker, polls, owner>>

-----------------------------------------------------------------------------
(* Callbacks, run on the library's threads.  The MQTT 5 variants set the   *)
(* same flags as the MQTT 3 ones.                                          *)

\* The library calls a client's callbacks in the order of their causes.
Runs(h, callback) ==
  /\ callback \in pending[h]
  /\ callback = "onConnect" \/ "onConnect" \notin pending[h]
  /\ pending' = [pending EXCEPT ![h] = @ \ {callback}]
  /\ UNCHANGED <<link, handle, client_state, client_timer, stop_client_task,
                 in_service, worker, polls, owner, broker>>

\* Mutant: the answer to the connect request is not recorded.
ConnectForgotten(h) ==
  /\ Runs(h, "onConnect")
  /\ connection_lost' = FALSE
  /\ UNCHANGED delivered

Connect(h) ==
  /\ Runs(h, "onConnect")
  /\ connection_lost' = FALSE
  /\ delivered' = TRUE

ConnectFailure(h) ==
  /\ Runs(h, "onConnectFailure")
  /\ connection_lost' = TRUE
  /\ delivered' = TRUE

ConnectionLost(h) ==
  /\ Runs(h, "onConnectionLost")
  /\ connection_lost' = TRUE
  /\ UNCHANGED delivered

Disconnect(h) ==
  /\ Runs(h, "onDisconnect")
  /\ connection_lost' = FALSE
  /\ delivered' = TRUE

DisconnectFailure(h) ==
  /\ Runs(h, "onDisconnectFailure")
  /\ connection_lost' = TRUE
  /\ delivered' = TRUE

\* Message and DeliveryComplete: any traffic clears connection_lost_ (what
\* Message does to its topic is not the state of this module).
Traffic(h) ==
  /\ LinkUp(h)
  /\ "onConnect" \notin pending[h]
  /\ connection_lost' = FALSE
  /\ UNCHANGED <<libVars, handle, client_state, client_timer, delivered,
                 stop_client_task, in_service, worker, polls, owner, broker>>

-----------------------------------------------------------------------------
(* The worker thread.                                                      *)

\* Mutant: the answer to the previous request stays in delivered_.
ResetLostOnly == connection_lost' = FALSE /\ UNCHANGED delivered

\* How SendConnect and SendDisconnect begin
ResetFlags == connection_lost' = FALSE /\ delivered' = FALSE

\* ClientTask before its loop
StartTask ==
  /\ worker = "start"
  /\ worker' = "loop"
  /\ client_timer' = "due"
  /\ client_state' = "Idle"
  /\ handle' = NoHandle
  /\ link' = Destroyed(link, handle, "none")
  /\ pending' = Destroyed(pending, handle, {})
  /\ UNCHANGED <<delivered, connection_lost, stop_client_task, in_service,
                 polls, owner, broker>>

\* A pass of the loop in client state s: the wait ended and stop is not set.
Scan(s) ==
  /\ worker = "loop"
  /\ ~stop_client_task
  /\ client_state = s
  /\ UNCHANGED <<stop_client_task, in_service, worker, polls, owner, broker>>

\* DoIdle returns early: out of service, retry timer running, or no client.
DoIdleWait ==
  /\ Scan("Idle")
  /\ handle' = NoHandle
  /\ link' = Destroyed(link, handle, "none")
  /\ pending' = Destroyed(pending, handle, {})
  /\ \/ ~in_service /\ client_timer' = "due"
     \/ in_service /\ client_timer = "armed" /\ UNCHANGED client_timer
     \/ in_service /\ client_timer = "due" /\ CallsMayFail /\ client_timer' = "armed"
  /\ UNCHANGED <<client_state, delivered, connection_lost>>

\* The previous client is destroyed and CreateClient made a new one, but a
\* later call (set callbacks, or SendConnect) failed: retry in 10 s.
DoIdleFail ==
  /\ Scan("Idle")
  /\ in_service /\ client_timer = "due" /\ CallsMayFail
  /\ LET free == Destroyed(link, handle, "none")
     IN \E h \in {a \in Handles : free[a] = "none"} :
          /\ handle' = h
          /\ link' = [free EXCEPT ![h] = "new"]
  /\ pending' = Destroyed(pending, handle, {})
  /\ client_timer' = "armed"
  /\ \/ UNCHANGED <<connection_lost, delivered>>  \* CreateClient
     \/ ResetFlags                                \* SendConnect
  /\ UNCHANGED client_state

\* CreateClient and SendConnect succeed
DoIdleConnect ==
  /\ Scan("Idle")
  /\ in_service /\ client_timer = "due"
  /\ LET free == Destroyed(link, handle, "none")
     IN \E h \in {a \in Handles : free[a] = "none"} :
          /\ handle' = h
          /\ link' = [free EXCEPT ![h] = "connecting"]
  /\ pending' = Destroyed(pending, handle, {})
  /\ ResetFlags
  /\ client_timer' = "armed"
  /\ client_state' = "WaitOnConnect"

\* DoWaitOnConnect: give up after 5 s; the client is destroyed by DoIdle.
GiveUpConnect ==
  /\ Scan("WaitOnConnect")
  /\ client_timer = "due"
  /\ client_timer' = "armed"
  /\ client_state' = "Idle"
  /\ UNCHANGED <<handle, delivered, connection_lost, libVars>>

\* Mutant: online as soon as connected, before the answer arrived.
GoOnlineEarly ==
  /\ Scan("WaitOnConnect")
  /\ client_timer = "armed"
  /\ IsConnected
  /\ client_state' = "Online"
  /\ UNCHANGED <<handle, client_timer, delivered, connection_lost, libVars>>

\* DoWaitOnConnect: connected and answered, so subscribe and go online.
GoOnline ==
  /\ Scan("WaitOnConnect")
  /\ client_timer = "armed"
  /\ IsConnected /\ delivered
  /\ client_state' = "Online"
  /\ UNCHANGED <<handle, client_timer, delivered, connection_lost, libVars>>

\* SendDisconnect resets both flags, then requests the disconnect; the call
\* fails if there is no connection.
SendDisconnect ==
  /\ ResetFlags
  /\ \/ link[handle] = "up" /\ link' = [link EXCEPT ![handle] = "closing"]
     \/ (CallsMayFail \/ link[handle] # "up") /\ UNCHANGED link
  /\ UNCHANGED pending

\* DoOnline, out of service or asked to stop since the pass began, for it
\* reads stop_client_task_ again.  Otherwise it only publishes.
GoOffline ==
  /\ worker = "loop" /\ client_state = "Online"
  /\ stop_client_task \/ ~in_service
  /\ SendDisconnect
  /\ client_timer' = "armed"
  /\ client_state' = "WaitOnDisconnect"
  /\ UNCHANGED <<handle, stop_client_task, in_service, worker, polls, owner, broker>>

\* Mutant: wait for the answer however long it takes.
DoWaitOnAnswer ==
  /\ Scan("WaitOnDisconnect")
  /\ delivered
  /\ client_timer' = "armed"
  /\ client_state' = "Idle"
  /\ UNCHANGED <<handle, delivered, connection_lost, libVars>>

DoWaitOnDisconnect ==
  /\ Scan("WaitOnDisconnect")
  /\ client_timer = "due" \/ delivered
  /\ client_timer' = "armed"
  /\ client_state' = "Idle"
  /\ UNCHANGED <<handle, delivered, connection_lost, libVars>>

\* The loop ends when stop_client_task_ is seen.
LeaveLoop ==
  /\ worker = "loop"
  /\ stop_client_task
  /\ worker' = "closing"
  /\ UNCHANGED <<nodeVars, libVars, stop_client_task, in_service, polls, owner, broker>>

\* Idle or not connected: nothing to disconnect.
SkipDisconnect ==
  /\ worker = "closing"
  /\ client_state = "Idle" \/ ~IsConnected
  /\ worker' = "destroy"
  /\ UNCHANGED <<nodeVars, libVars, stop_client_task, in_service, polls, owner, broker>>

CloseConnection ==
  /\ worker = "closing"
  /\ client_state # "Idle" /\ IsConnected
  /\ IF client_state = "WaitOnDisconnect"
     THEN UNCHANGED <<delivered, connection_lost, libVars>>
     ELSE SendDisconnect
  /\ worker' = "await"
  /\ polls' = 0
  /\ UNCHANGED <<handle, client_state, client_timer, stop_client_task,
                 in_service, owner, broker>>

\* Mutant: one poll too many.
AwaitOneMore ==
  /\ worker = "await"
  /\ IF connection_lost /\ polls <= ClosePolls
     THEN polls' = polls + 1 /\ UNCHANGED worker
     ELSE worker' = "destroy" /\ UNCHANGED polls
  /\ UNCHANGED <<nodeVars, libVars, stop_client_task, in_service, owner, broker>>

\* Mutant: the wait has no time limit.
AwaitForever ==
  /\ worker = "await"
  /\ worker' = IF connection_lost THEN "await" ELSE "destroy"
  /\ UNCHANGED <<nodeVars, libVars, stop_client_task, in_service, polls, owner, broker>>

\* for (timeout = 0; IsConnectionLost() && timeout < 50; ++timeout)
AwaitDisconnect ==
  /\ worker = "await"
  /\ IF connection_lost /\ polls < ClosePolls
     THEN polls' = polls + 1 /\ UNCHANGED worker
     ELSE worker' = "destroy" /\ UNCHANGED polls
  /\ UNCHANGED <<nodeVars, libVars, stop_client_task, in_service, owner, broker>>

EndTask ==
  /\ worker = "destroy"
  /\ worker' = "ended"
  /\ handle' = NoHandle
  /\ link' = Destroyed(link, handle, "none")
  /\ pending' = Destroyed(pending, handle, {})
  /\ UNCHANGED <<client_state, client_timer, delivered, connection_lost,
                 stop_client_task, in_service, polls, owner, broker>>

\* NowMs() reaches client_timer_.
TimerExpires ==
  /\ client_timer = "armed"
  /\ PromptBroker /\ worker = "loop" /\ client_state = "WaitOnConnect" =>
       handle = NoHandle \/ link[handle] \notin {"connecting", "up"}
  /\ client_timer' = "due"
  /\ UNCHANGED <<handle, client_state, delivered, connection_lost, libVars,
                 stop_client_task, in_service, worker, polls, owner, broker>>

-----------------------------------------------------------------------------
(* The owner thread.  in_service_ may be switched from any thread.         *)

InService ==
  /\ owner \notin {"destruct", "gone"}
  /\ in_service' = TRUE
  /\ UNCHANGED <<nodeVars, libVars, stop_client_task, worker, polls, owner, broker>>

OutOfService ==
  /\ owner \notin {"destruct", "gone"}
  /\ in_service' = FALSE
  /\ UNCHANGED <<nodeVars, libVars, stop_client_task, worker, polls, owner, broker>>

\* Init, Exit and ~MqttNode (after OutOfService) first ask the worker to stop.
RequestStop(call) ==
  /\ owner = "ready"
  /\ owner' = call
  /\ stop_client_task' = TRUE
  /\ in_service' = IF call = "destruct" THEN FALSE ELSE in_service
  /\ UNCHANGED <<nodeVars, libVars, worker, polls, broker>>

\* Mutant: the owner does not wait for the worker.
NotJoined == TRUE

\* work_thread_.join() returns
Joined == worker \in {"none", "ended"}

\* Mutant: the loss of an earlier run is not forgotten.
FinishInitStale ==
  /\ owner = "init" /\ Joined
  /\ owner' = "ready"
  /\ client_timer' = "due"
  /\ stop_client_task' = FALSE
  /\ worker' = "start"
  /\ UNCHANGED <<handle, client_state, connection_lost, delivered, libVars,
                 in_service, polls, broker>>

FinishInit ==
  /\ owner = "init" /\ Joined
  /\ owner' = "ready"
  /\ connection_lost' = FALSE
  /\ client_timer' = "due"
  /\ stop_client_task' = FALSE
  /\ worker' = "start"
  /\ UNCHANGED <<handle, client_state, delivered, libVars, in_service, polls, broker>>

FinishExit ==
  /\ owner \in {"exit", "destruct"} /\ Joined
  /\ owner' = IF owner = "exit" THEN "ready" ELSE "gone"
  /\ worker' = "none"
  /\ handle' = NoHandle
  /\ link' = Destroyed(link, handle, "none")
  /\ pending' = Destroyed(pending, handle, {})
  /\ UNCHANGED <<client_state, client_timer, delivered, connection_lost,
                 stop_client_task, in_service, polls, broker>>

-----------------------------------------------------------------------------

Worker ==
  \/ StartTask \/ DoIdleWait \/ DoIdleFail \/ DoIdleConnect
  \/ GiveUpConnect \/ GoOnline \/ GoOffline \/ DoWaitOnDisconnect
  \/ LeaveLoop \/ SkipDisconnect \/ CloseConnection \/ AwaitDisconnect \/ EndTask

Owner ==
  \/ InService \/ OutOfService
  \/ \E call \in {"init", "exit", "destruct"} : RequestStop(call)
  \/ FinishInit \/ FinishExit

Answers(h) == Accept(h) \/ Refuse(h) \/ Close(h)

Callbacks(h) ==
  \/ Connect(h) \/ ConnectFailure(h) \/ ConnectionLost(h)
  \/ Disconnect(h) \/ DisconnectFailure(h)

Library(h) == Answers(h) \/ Callbacks(h) \/ Drop(h) \/ Traffic(h)

Next ==
  \/ Worker \/ Owner \/ TimerExpires \/ BrokerChanges
  \/ \E h \in Handles : Library(h)

Spec == Init /\ [][Next]_vars

(* The worker thread is scheduled, time passes, and a call of the owner    *)
(* that can return does.  Nothing obliges the library or the broker to     *)
(* answer, nor the owner to call anything.                                 *)
NodeFairness ==
  WF_vars(Worker) /\ WF_vars(TimerExpires) /\ WF_vars(FinishInit \/ FinishExit)

(* In addition the library answers what it is asked and runs its callbacks. *)
LibraryFairness ==
  \A h \in Handles : WF_vars(Answers(h)) /\ WF_vars(Callbacks(h))

NodeSpec == Spec /\ NodeFairness
FairSpec == NodeSpec /\ LibraryFairness

-----------------------------------------------------------------------------
(* Safety.                                                                 *)

\* The node never loses track of a client: the one behind handle_ exists and
\* is the only one that does, whatever state a failed or abandoned
\* connection attempt, a stop or a restart left behind.
SingleClient == LiveClients = {handle} \ {NoHandle}

\* A node without a worker owns no client, so no callback can reach it
\* after Exit, nor after its destruction.
QuietAfterExit ==
  /\ worker = "none" => LiveClients = {} /\ \A h \in Handles : pending[h] = {}
  /\ owner = "gone" => worker = "none"

InLoop(s) == worker \in {"loop", "closing"} /\ client_state = s

\* Online is reached on the current client's own acknowledged connection,
\* never on the answer an earlier client left in delivered_.
OnlineAnswered ==
  InLoop("Online") =>
    /\ handle # NoHandle
    /\ link[handle] \in {"up", "lost"}
    /\ "onConnect" \notin pending[handle]

\* While a disconnect is outstanding, delivered_ can only be its answer, so
\* the wait is never cut short by the answer to the connect request.
DisconnectAnswered ==
  InLoop("WaitOnDisconnect") /\ delivered =>
    handle # NoHandle /\ link[handle] = "closed"

\* A callback is owed only for what happened to the client's link.
OnlyOwed ==
  \A h \in Handles :
    /\ "onConnect" \in pending[h] => link[h] \in {"up", "lost", "closing", "closed"}
    /\ "onConnectFailure" \in pending[h] => link[h] = "refused"
    /\ "onConnectionLost" \in pending[h] => link[h] = "lost"
    /\ pending[h] \cap {"onDisconnect", "onDisconnectFailure"} # {} => link[h] = "closed"

ClientKept ==
  /\ worker \in {"none", "start", "ended"} => handle = NoHandle
  /\ worker = "await" => handle # NoHandle

\* What the worker knows of its client while it waits for the connection.
ConnectOutstanding ==
  InLoop("WaitOnConnect") =>
    /\ handle # NoHandle
    /\ link[handle] \in {"connecting", "up", "refused", "lost"}
    /\ (link[handle] = "connecting" \/ "onConnect" \in pending[handle]) => ~delivered

DisconnectOutstanding ==
  InLoop("WaitOnDisconnect") =>
    /\ handle # NoHandle
    /\ link[handle] \in {"up", "lost", "closing", "closed"}
    /\ "onConnect" \notin pending[handle]

\* The inductive invariant behind the safety properties.
NodeInv ==
  /\ TypeOK
  /\ SingleClient
  /\ owner = "gone" => worker = "none"
  /\ OnlyOwed
  /\ ClientKept
  /\ ConnectOutstanding
  /\ OnlineAnswered
  /\ DisconnectOutstanding
  /\ DisconnectAnswered

-----------------------------------------------------------------------------
(* Liveness.                                                               *)

\* Init, Exit and the destructor return, even if the library never answers
\* the disconnect request and whatever state the worker is stopped in.
CallsReturn == owner \in {"init", "exit", "destruct"} ~> owner \in {"ready", "gone"}

Running == worker = "loop" /\ ~stop_client_task

\* A node left out of service ends up without a client.
OutOfServiceHonoured ==
  <>[](Running /\ ~in_service) => <>[](client_state = "Idle" /\ handle = NoHandle)

\* CreateClient or SendConnect fails.
CallFails == in_service /\ client_timer = "due" /\ (DoIdleWait \/ DoIdleFail)

\* A node left in service, whose broker stays reachable, comes online, unless
\* its calls of the library fail again and again.
InServiceHonoured ==
  <>[](Running /\ in_service /\ broker = "up") =>
    []<>(client_state = "Online") \/ []<><<CallFails>>_vars

-----------------------------------------------------------------------------
(* Claims of the repository that the code does not meet.                   *)

\* "Wait for 5s for the disconnect to be delivered" (ClientTask): the client
\* is not destroyed with its disconnect outstanding before the time is up.
DisconnectAwaited ==
  worker = "destroy" /\ handle # NoHandle /\ link[handle] = "closing" =>
    polls = ClosePolls

\* "Check that both clients are connected" (testmqtt.cpp) by IsOnline: a node
\* does not stay online, in service, once its connection is lost.
LossNoticed ==
  (InLoop("Online") /\ link[handle] = "lost" /\ pending[handle] = {}) ~>
    ~(client_state = "Online" /\ handle # NoHandle /\ link[handle] = "lost")
=============================================================================
