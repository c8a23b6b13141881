---------------------------- MODULE DetectBroker ----------------------------
(***************************************************************************)
(* mqtt::DetectBroker (mqtt/src/detectbroker.cpp): a node whose Init puts  *)
(* it in service, starts it, and polls every 100 ms until it is connected, *)
(* a connection attempt fails, or 10 s are over.  It runs on the owner     *)
(* thread of MqttNode, whose worker and library go on meanwhile.           *)
(*                                                                         *)
(* IsConnected reads handle_, a plain pointer, without a lock, and then    *)
(* asks the library about it.  If the worker destroys the client between,  *)
(* the library reads freed memory: with TornPoll either answer may come.   *)
(***************************************************************************)
EXTENDS MqttNode

CONSTANTS
  MaxDelay,   \* polls before Init gives up (100 in the code)
  TornPoll    \* may the client be destroyed within a call of IsConnected?

ASSUME MaxDelayAssumption == MaxDelay \in Nat \ {0}
ASSUME TornPollAssumption == TornPoll \in BOOLEAN

VARIABLES
  detect,    \* where DetectBroker::Init is
  delay,     \* `delay'
  seen,      \* handle_ as IsConnected read it
  found,     \* what the last Init returned
  attempt    \* history: how far a connection of the last Init ever got

detectVars == <<detect, delay, seen, found, attempt>>
allVars == <<vars, detectVars>>

Detecting == {"begun", "starting", "lost?", "handle?", "connected?", "found", "stopping"}
Polling == detect \in {"lost?", "handle?", "connected?"}

DetectTypeOK ==
  /\ TypeOK
  /\ detect \in Detecting \cup {"idle"}
  /\ delay \in 0..MaxDelay
  /\ seen \in Handles \cup {NoHandle}
  /\ found \in {"none", "yes", "no"}
  /\ attempt \in {"none", "asked", "accepted"}

DetectInit ==
  /\ Init
  /\ detect = "idle"
  /\ delay = 0
  /\ seen = NoHandle
  /\ found = "none"
  /\ attempt = "none"

-----------------------------------------------------------------------------
(* DetectBroker::Init.                                                     *)

BeginDetect ==
  /\ detect = "idle" /\ owner = "ready"
  /\ InService
  /\ detect' = "begun"
  /\ found' = "none"
  /\ UNCHANGED <<delay, seen, attempt>>

StartNode ==
  /\ detect = "begun"
  /\ RequestStop("init")
  /\ detect' = "starting"
  /\ UNCHANGED <<delay, seen, found, attempt>>

\* MqttNode::Init returns
NodeStarted ==
  /\ detect = "starting"
  /\ FinishInit
  /\ detect' = "lost?"
  /\ delay' = 0
  /\ attempt' = "none"
  /\ UNCHANGED <<seen, found>>

PollLost ==
  /\ detect = "lost?"
  /\ IF connection_lost
     THEN detect' = "idle" /\ found' = "no"
     ELSE detect' = "handle?" /\ UNCHANGED found
  /\ UNCHANGED <<vars, delay, seen, attempt>>

\* Mutant: one round too many.
OnceMore ==
  /\ delay' = delay + 1
  /\ IF delay < MaxDelay
     THEN detect' = "lost?" /\ UNCHANGED found
     ELSE detect' = "idle" /\ found' = "no"

\* Mutant: the rounds are not counted.
ForEver == detect' = "lost?" /\ UNCHANGED <<delay, found>>

\* The next round, or the end of the loop
NotYet ==
  /\ delay' = delay + 1
  /\ IF delay + 1 < MaxDelay
     THEN detect' = "lost?" /\ UNCHANGED found
     ELSE detect' = "idle" /\ found' = "no"

PollHandle ==
  /\ detect = "handle?"
  /\ seen' = handle
  /\ IF handle = NoHandle
     THEN NotYet
     ELSE detect' = "connected?" /\ UNCHANGED <<delay, found>>
  /\ UNCHANGED <<vars, attempt>>

\* Mutant: having a client counts as being connected.
PollClient ==
  /\ detect = "connected?"
  /\ detect' = "found"
  /\ UNCHANGED <<vars, delay, seen, found, attempt>>

PollConnected ==
  /\ detect = "connected?"
  /\ \/ (link[seen] = "none" \/ LinkUp(seen)) /\ detect' = "found" /\ UNCHANGED <<delay, found>>
     \/ ~LinkUp(seen) /\ NotYet
  /\ UNCHANGED <<vars, seen, attempt>>

\* Mutant: the node goes on after the broker was found.
LeaveRunning ==
  /\ detect = "found"
  /\ detect' = "idle"
  /\ found' = "yes"
  /\ UNCHANGED <<vars, delay, seen, attempt>>

\* Connected: Exit
StopFound ==
  /\ detect = "found"
  /\ RequestStop("exit")
  /\ detect' = "stopping"
  /\ UNCHANGED <<delay, seen, found, attempt>>

ReturnFound ==
  /\ detect = "stopping"
  /\ FinishExit
  /\ detect' = "idle"
  /\ found' = "yes"
  /\ UNCHANGED <<delay, seen, attempt>>

GoOn ==
  \/ StartNode \/ NodeStarted
  \/ PollLost \/ PollHandle \/ PollConnected \/ StopFound \/ ReturnFound

-----------------------------------------------------------------------------
(* Everything else that goes on in a node.                                 *)

\* The other calls of the owner, and InService and OutOfService of any thread
OtherCalls ==
  /\ \/ InService \/ OutOfService
     \/ detect = "idle" /\ (FinishExit \/ \E call \in {"exit", "destruct"} : RequestStop(call))
  /\ UNCHANGED detectVars

\* The client whose address IsConnected holds stays, unless TornPoll.
NotTorn == ~TornPoll /\ detect = "connected?" => handle' = handle

WorkerGoesOn ==
  /\ Worker
  /\ NotTorn
  /\ attempt' = IF attempt = "none" /\ client_state' = "WaitOnConnect" THEN "asked" ELSE attempt
  /\ UNCHANGED <<detect, delay, seen, found>>

LibraryGoesOn ==
  /\ \E h \in Handles :
       \/ Accept(h) /\ attempt' = "accepted"
       \/ /\ Refuse(h) \/ Close(h) \/ Drop(h) \/ Callbacks(h) \/ Traffic(h)
          /\ UNCHANGED attempt
  /\ UNCHANGED <<detect, delay, seen, found>>

TimeGoesOn == (TimerExpires \/ BrokerChanges) /\ UNCHANGED detectVars

DetectNext == BeginDetect \/ GoOn \/ OtherCalls \/ WorkerGoesOn \/ LibraryGoesOn \/ TimeGoesOn

DetectSpec == DetectInit /\ [][DetectNext]_allVars

(* An Init that was called goes on, as does the node it waits for.         *)
FairDetectSpec == DetectSpec /\ NodeFairness /\ WF_allVars(GoOn)

-----------------------------------------------------------------------------
(* Properties.                                                             *)

\* When Init has found a broker, the node it used is gone for good: no
\* worker, no client, no callback to come, until Init is called again.
FoundIsQuiet == found = "yes" => worker = "none" /\ LiveClients = {} /\ handle = NoHandle

\* "Lost" is never the answer left over from an earlier Init, nor from the
\* client of an earlier Init: as long as the new worker has asked for no
\* connection, neither connection_lost_ nor IsConnected can end the loop.
OwnAnswer == Polling /\ attempt = "none" => ~connection_lost /\ ~IsConnected

\* "detect if a broker exist" (detectbroker.h): a broker that is found has
\* accepted a connection that this very Init asked for.
FoundTrue == found = "yes" => attempt = "accepted"

\* While Init polls, what the node and its clients have come to is the work
\* of this Init.
AttemptKnown ==
  Polling =>
    /\ connection_lost => attempt # "none"
    /\ \A h \in Handles :
         /\ link[h] \in {"connecting", "refused"} => attempt # "none"
         /\ link[h] \in {"up", "lost", "closing", "closed"} => attempt = "accepted"

\* Without a torn poll, a positive answer is about the current client.
AnswerKnown ==
  ~TornPoll =>
    /\ detect = "connected?" => seen = handle /\ handle # NoHandle
    /\ detect \in {"found", "stopping"} => attempt = "accepted"
    /\ FoundTrue

\* The inductive invariant behind FoundIsQuiet, OwnAnswer and FoundTrue.
DetectInv ==
  /\ NodeInv
  /\ DetectTypeOK
  /\ detect \in Detecting => found = "none"
  /\ Polling => delay < MaxDelay
  /\ FoundIsQuiet
  /\ AttemptKnown
  /\ AnswerKnown

\* Init returns, whatever the broker and the library do or fail to do.
DetectReturns == detect # "idle" ~> detect = "idle"
=============================================================================
