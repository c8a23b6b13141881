---------------------------- MODULE NodeTopics -----------------------------
(***************************************************************************)
(* The topics and subscriptions of an mqtt::MqttNode over its sessions     *)
(* with the broker.  Three threads use them: the owner's, the worker,      *)
(* which subscribes and publishes, and the library's, which delivers       *)
(* messages and reports the ones that failed.  The session itself is that  *)
(* of MqttSession, whose steps the worker and the broker take.             *)
(*                                                                         *)
(* topic_list_ keeps its topics in the order of their creation, so it is a *)
(* set of objects that are numbered as they are made.  Of a topic's        *)
(* metrics it matters here whether one is updated and whether any is valid.*)
(***************************************************************************)
EXTENDS ObjectList

CONSTANTS
  Names,      \* names of topics
  Filters,    \* what may be subscribed to
  Covers,     \* the names that match a filter
  MaxTopics   \* bound on the topics that are made

ASSUME NamesAssumption == Names # {}
ASSUME FiltersAssumption == Covers \in [Filters -> SUBSET Names]
ASSUME MaxTopicsAssumption == MaxTopics \in Nat

VARIABLES
  phase, session, asked,       \* of MqttSession
  thread,                      \* the worker thread
  topics, made, name,          \* topic_list_, and the name of each object made
  publishing, updated, valid,  \* of each topic
  mutex,                       \* who holds topic_mutex_
  step,                        \* what the owner and the library's thread do
  wanted, found,               \* the name it looks for, the topic of the message
  worker,                      \* what the worker does in a scan
  topic, rest,                 \* the topic PublishTopics is at, those to come
  subscriptions,               \* subscription_list_
  left, tried,                 \* filters StartSubscription has yet to send, and sent
  late,                        \* history: those added to an online node
  sending,                     \* topics a failure callback has a pointer to
  abandoned                    \* history: those deleted since, in a running node

S == INSTANCE MqttSession

sessionVars == <<phase, session, asked>>
listVars == <<topics, made, name>>
flagVars == <<publishing, updated, valid>>
scanVars == <<worker, topic, rest, left, tried>>
callVars == <<step, wanted, found>>
subVars == <<subscriptions, late>>
sendVars == <<sending, abandoned>>
vars == <<sessionVars, thread, listVars, flagVars, mutex, callVars, scanVars,
          subVars, sendVars>>

Threads == {"owner", "library"}
Nobody == "nobody"
NoTopic == 0
Objects == 1..MaxTopics

Step == {"idle", "find", "append", "apply", "exit", "destroy", "destroyed"}
Scan == {"wait", "subscribe", "publish", "reset", "send"}

ListsOK ==
  /\ made \in 0..MaxTopics
  /\ topics \subseteq 1..made
  /\ name \in [Objects -> Names]
  /\ rest \subseteq 1..made

FlagsOK ==
  /\ publishing \in [Objects -> BOOLEAN]
  /\ updated \in [Objects -> BOOLEAN]
  /\ valid \in [Objects -> BOOLEAN]

CallsOK ==
  /\ mutex \in Threads \cup {"worker", Nobody}
  /\ step \in [Threads -> Step]
  /\ wanted \in [Threads -> Names]
  /\ found \in Objects \cup {NoTopic}

WorkerOK ==
  /\ thread \in {"none", "new", "running"}
  /\ worker \in Scan
  /\ topic \in Objects \cup {NoTopic}
  /\ worker \in {"reset", "send"} => topic # NoTopic
  /\ subscriptions \subseteq Filters
  /\ left \subseteq Filters
  /\ tried \subseteq Filters
  /\ late \subseteq Filters
  /\ sending \subseteq Objects
  /\ abandoned \subseteq Objects

NodeTopicsTypeOK == S!TypeOK /\ ListsOK /\ FlagsOK /\ CallsOK /\ WorkerOK

AName == CHOOSE n \in Names : TRUE

Init ==
  /\ S!Init
  /\ thread = "none"
  /\ topics = {} /\ made = 0 /\ name = [o \in Objects |-> AName]
  /\ publishing = [o \in Objects |-> FALSE]
  /\ updated = [o \in Objects |-> FALSE]
  /\ valid = [o \in Objects |-> FALSE]
  /\ mutex = Nobody
  /\ step = [t \in Threads |-> "idle"]
  /\ wanted = [t \in Threads |-> AName] /\ found = NoTopic
  /\ worker = "wait" /\ topic = NoTopic /\ rest = {}
  /\ subscriptions = {} /\ left = {} /\ tried = {}
  /\ late = {} /\ sending = {} /\ abandoned = {}

-----------------------------------------------------------------------------
(* The list of topics.                                                     *)

Named(n) == {o \in topics : name[o] = n}

\* What MetricNode::GetTopic returns
GetTopic(n) == IF Named(n) = {} THEN NoTopic ELSE First(Named(n))

InCall(t, s) == step[t] = s

Goto(t, s) == step' = [step EXCEPT ![t] = s] /\ UNCHANGED <<wanted, found>>

CallCreate(t, n) ==
  /\ step' = [step EXCEPT ![t] = "find"]
  /\ wanted' = [wanted EXCEPT ![t] = n]
  /\ UNCHANGED found

\* The topic is returned to the owner, or to the library, which is to apply
\* the message to it.
Found(t, o) ==
  /\ step' = [step EXCEPT ![t] = IF t = "owner" THEN "idle" ELSE "apply"]
  /\ wanted' = [wanted EXCEPT ![t] = AName]
  /\ found' = IF t = "owner" THEN found ELSE o

\* Mutant: CreateTopic looks for the topic without the lock.
FindUnlocked(t) ==
  /\ InCall(t, "find")
  /\ IF GetTopic(wanted[t]) # NoTopic
     THEN Found(t, GetTopic(wanted[t]))
     ELSE Goto(t, "append")
  /\ UNCHANGED <<mutex, sessionVars, thread, listVars, flagVars, scanVars, subVars, sendVars>>

\* MqttNode::CreateTopic: is there a topic of that name?
Find(t) ==
  /\ InCall(t, "find")
  /\ mutex = Nobody
  /\ IF GetTopic(wanted[t]) # NoTopic
     THEN Found(t, GetTopic(wanted[t])) /\ UNCHANGED mutex
     ELSE made < MaxTopics /\ Goto(t, "append") /\ mutex' = t
  /\ UNCHANGED <<sessionVars, thread, listVars, flagVars, scanVars, subVars, sendVars>>

\* Mutant: CreateTopic returns *end().
AppendEnd(t) ==
  /\ InCall(t, "append")
  /\ made < MaxTopics
  /\ made' = made + 1
  /\ topics' = topics \cup {made'}
  /\ name' = [name EXCEPT ![made'] = wanted[t]]
  /\ Found(t, made' + 1)
  /\ mutex' = Nobody
  /\ UNCHANGED <<sessionVars, thread, flagVars, scanVars, subVars, sendVars>>

\* ... if not, a new one is appended.
AppendNew(t) ==
  /\ InCall(t, "append")
  /\ made < MaxTopics
  /\ made' = made + 1
  /\ topics' = topics \cup {made'}
  /\ name' = [name EXCEPT ![made'] = wanted[t]]
  /\ Found(t, made')
  /\ mutex' = Nobody
  /\ UNCHANGED <<sessionVars, thread, flagVars, scanVars, subVars, sendVars>>

-----------------------------------------------------------------------------
(* The owner.                                                              *)

OwnerFree == InCall("owner", "idle")

CreateTopic(n) ==
  /\ OwnerFree
  /\ CallCreate("owner", n)
  /\ UNCHANGED <<sessionVars, thread, listVars, flagVars, mutex, scanVars, subVars, sendVars>>

\* Any topic, whenever the mutex is free; nothing asks whether the client
\* still has a pointer to it.
DeleteTopic(n) ==
  /\ OwnerFree
  /\ mutex = Nobody
  /\ topics' = topics \ Named(n)
  /\ abandoned' = abandoned \cup {o \in Named(n) \cap sending : thread # "none"}
  /\ UNCHANGED <<sessionVars, thread, made, name, flagVars, mutex, callVars, scanVars,
                 subVars, sending>>

\* Topic::Publishing(true), once and for all
Publishing(o) ==
  /\ OwnerFree
  /\ publishing' = [publishing EXCEPT ![o] = TRUE]
  /\ UNCHANGED <<sessionVars, thread, listVars, updated, valid, mutex, callVars, scanVars,
                 subVars, sendVars>>

Fresh(o) ==
  /\ valid' = [valid EXCEPT ![o] = TRUE]
  /\ updated' = [updated EXCEPT ![o] = TRUE]

\* Metric::Value of a metric of the topic
Write(o) ==
  /\ OwnerFree
  /\ Fresh(o)
  /\ UNCHANGED <<sessionVars, thread, listVars, publishing, mutex, callVars, scanVars,
                 subVars, sendVars>>

\* subscription_list_ has no lock; it is not changed just while the worker
\* iterates it.  (Assumed.)
Subscribing(F) ==
  /\ OwnerFree
  /\ worker # "subscribe"
  /\ subscriptions' = F
  /\ UNCHANGED <<sessionVars, thread, listVars, flagVars, mutex, callVars, scanVars, sendVars>>

\* A filter added to an online node is not sent before the next session.
AddSubscription(f) ==
  /\ Subscribing(subscriptions \cup {f})
  /\ late' = IF phase = "open" /\ f \notin subscriptions THEN late \cup {f} ELSE late

DeleteSubscription(f) ==
  /\ Subscribing(subscriptions \ {f})
  /\ late' = late \ {f}

\* MqttNode::Init of a stopped node; of a running one it is Exit, then this.
InitNode ==
  /\ OwnerFree
  /\ thread = "none" /\ thread' = "new"
  /\ S!Ask /\ ~asked'
  /\ UNCHANGED <<listVars, flagVars, mutex, callVars, scanVars, subVars, sendVars>>

\* Exit, by itself or in the destructor: stop_client_task_ ...
BeginExit(s) ==
  /\ OwnerFree
  /\ Goto("owner", s)
  /\ S!Ask /\ asked'
  /\ UNCHANGED <<thread, listVars, flagVars, mutex, scanVars, subVars, sendVars>>

\* ... and the join.
ExitNode ==
  /\ InCall("owner", "exit")
  /\ thread = "none"
  /\ Goto("owner", "idle")
  /\ UNCHANGED <<sessionVars, thread, listVars, flagVars, mutex, scanVars, subVars, sendVars>>

AllInvalid ==
  valid' = [o \in Objects |-> valid[o] /\ o \notin topics]

\* Mutant: the metrics are made invalid before the node exits.
DestroyEarly ==
  /\ InCall("owner", "destroy")
  /\ Goto("owner", "destroyed")
  /\ AllInvalid
  /\ updated' = [o \in Objects |-> updated[o] \/ valid'[o] # valid[o]]
  /\ UNCHANGED <<sessionVars, thread, listVars, publishing, mutex, scanVars, subVars, sendVars>>

\* ~MqttNode: after Exit all metrics are made invalid.
Destroy ==
  /\ InCall("owner", "destroy")
  /\ thread = "none"
  /\ Goto("owner", "destroyed")
  /\ AllInvalid
  /\ updated' = [o \in Objects |-> updated[o] \/ valid'[o] # valid[o]]
  /\ UNCHANGED <<sessionVars, thread, listVars, publishing, mutex, scanVars, subVars, sendVars>>

Owner ==
  \/ \E n \in Names : CreateTopic(n) \/ DeleteTopic(n)
  \/ \E o \in topics : Publishing(o) \/ Write(o)
  \/ \E f \in Filters : AddSubscription(f) \/ DeleteSubscription(f)
  \/ InitNode \/ BeginExit("exit") \/ BeginExit("destroy") \/ ExitNode \/ Destroy

-----------------------------------------------------------------------------
(* The worker: ClientTask.                                                 *)

Between == thread = "running" /\ worker = "wait"

\* Mutant: the client, and with it what it was sending, outlives the session.
KeepClient == tried' = {} /\ late' = {} /\ abandoned' = {} /\ UNCHANGED sending

\* MQTTAsync_destroy: nothing that the client was sending is reported any
\* more, its subscriptions are those of no session.  A callback that runs
\* ends before.  (Assumed.)
DropClient ==
  /\ InCall("library", "idle")
  /\ tried' = {} /\ late' = {}
  /\ sending' = {} /\ abandoned' = {}

StartTask ==
  /\ thread = "new" /\ thread' = "running"
  /\ S!Start
  /\ DropClient
  /\ UNCHANGED <<listVars, flagVars, mutex, callVars, worker, topic, rest, left,
                 subscriptions>>

\* DoIdle destroys the client of the last session, whatever else it does.
DoIdle ==
  /\ Between
  /\ S!StayIdle \/ S!Open
  /\ DropClient
  /\ UNCHANGED <<thread, listVars, flagVars, mutex, callVars, worker, topic, rest, left,
                 subscriptions>>

\* The scans and the shutdown that concern the session only
SessionScan ==
  /\ Between
  /\ S!GiveUp \/ S!Close \/ S!Closed \/ S!Stop \/ S!LastGoodbye
  /\ UNCHANGED <<thread, listVars, flagVars, mutex, callVars, scanVars, subVars, sendVars>>

EndTask ==
  /\ Between /\ thread' = "none"
  /\ S!Stopped
  /\ DropClient
  /\ UNCHANGED <<listVars, flagVars, mutex, callVars, worker, topic, rest, left,
                 subscriptions>>

\* DoWaitOnConnect finds the node connected; a loss of the connection while
\* it subscribes is taken to follow.
BeginSubscribe ==
  /\ Between
  /\ phase = "opening" /\ session = "acknowledged"
  /\ worker' = "subscribe"
  /\ left' = subscriptions
  /\ UNCHANGED <<sessionVars, thread, listVars, flagVars, mutex, callVars, topic, rest, tried,
                 subVars, sendVars>>

\* Mutant: the first refusal ends the loop.
StartUntilRefused(f) ==
  /\ worker = "subscribe" /\ f \in left
  /\ left' \in {left \ {f}, {}}
  /\ tried' = tried \cup {f}
  /\ UNCHANGED <<sessionVars, thread, listVars, flagVars, mutex, callVars, worker, topic, rest,
                 subVars, sendVars>>

\* StartSubscription, for one filter: accepted or not, the loop goes on.
StartSubscription(f) ==
  /\ worker = "subscribe" /\ f \in left
  /\ left' = left \ {f}
  /\ tried' = tried \cup {f}
  /\ UNCHANGED <<sessionVars, thread, listVars, flagVars, mutex, callVars, worker, topic, rest,
                 subVars, sendVars>>

GoOnline ==
  /\ worker = "subscribe" /\ left = {}
  /\ worker' = "wait"
  /\ S!Opened
  /\ UNCHANGED <<thread, listVars, flagVars, mutex, callVars, topic, rest, left, tried,
                 subVars, sendVars>>

\* PublishTopics, under topic_mutex_
BeginPublish ==
  /\ Between
  /\ phase = "open"
  /\ mutex = Nobody /\ mutex' = "worker"
  /\ worker' = "publish"
  /\ rest' = topics
  /\ UNCHANGED <<sessionVars, thread, listVars, flagVars, callVars, topic, left, tried,
                 subVars, sendVars>>

NextTopic ==
  /\ worker = "publish" /\ rest # {}
  /\ topic' = First(rest)
  /\ rest' = rest \ {topic'}
  /\ worker' = IF publishing[topic'] /\ updated[topic'] THEN "reset" ELSE "publish"
  /\ UNCHANGED <<sessionVars, thread, listVars, flagVars, mutex, callVars, left, tried,
                 subVars, sendVars>>

ResetUpdated ==
  /\ worker = "reset" /\ worker' = "send"
  /\ updated' = [updated EXCEPT ![topic] = FALSE]
  /\ UNCHANGED <<sessionVars, thread, listVars, publishing, valid, mutex, callVars, topic, rest,
                 left, tried, subVars, sendVars>>

SetAllMetricsInvalid(o) ==
  /\ valid' = [valid EXCEPT ![o] = FALSE]
  /\ updated' = [updated EXCEPT ![o] = @ \/ valid[o]]

\* OnPublish: the library takes the message, with a pointer to the topic for
\* the failure callback, or refuses it.
OnPublish ==
  /\ worker = "send" /\ worker' = "publish"
  /\ \/ /\ session = "acknowledged"
        /\ sending' = sending \cup {topic}
        /\ UNCHANGED <<updated, valid>>
     \/ /\ SetAllMetricsInvalid(topic)
        /\ UNCHANGED sending
  /\ UNCHANGED <<sessionVars, thread, listVars, publishing, mutex, callVars, topic, rest, left,
                 tried, subVars, abandoned>>

EndPublish ==
  /\ worker = "publish" /\ rest = {}
  /\ worker' = "wait" /\ mutex' = Nobody
  /\ topic' = NoTopic
  /\ UNCHANGED <<sessionVars, thread, listVars, flagVars, callVars, rest, left, tried,
                 subVars, sendVars>>

Worker ==
  \/ StartTask \/ DoIdle \/ SessionScan \/ EndTask
  \/ BeginSubscribe \/ (\E f \in left : StartSubscription(f)) \/ GoOnline
  \/ BeginPublish \/ NextTopic \/ ResetUpdated \/ OnPublish \/ EndPublish

-----------------------------------------------------------------------------
(* The library, the broker and the network.                                *)

Broker ==
  /\ worker # "subscribe"
  /\ S!Broker
  /\ UNCHANGED <<thread, listVars, flagVars, mutex, callVars, scanVars, subVars, sendVars>>

\* A message of a filter that was sent, if the broker accepted it: Message
Message(n) ==
  /\ session = "acknowledged"
  /\ InCall("library", "idle")
  /\ \E f \in tried : n \in Covers[f]
  /\ CallCreate("library", n)
  /\ UNCHANGED <<sessionVars, thread, listVars, flagVars, mutex, scanVars, subVars, sendVars>>

\* OnMessage gives a metric of the topic its value.
OnMessage ==
  /\ InCall("library", "apply")
  /\ step' = [step EXCEPT !["library"] = "idle"] /\ found' = NoTopic
  /\ Fresh(found)
  /\ UNCHANGED <<wanted, sessionVars, thread, listVars, publishing, mutex, scanVars, subVars, sendVars>>

\* OnSendFailure; o may have been sent more than once.  If o was deleted
\* meanwhile, the code gives the call no behaviour but to touch o.
OnSendFailure(o) ==
  /\ InCall("library", "idle")
  /\ SetAllMetricsInvalid(o)
  /\ sending' \in {sending, sending \ {o}}
  /\ abandoned' = abandoned \cap sending'
  /\ UNCHANGED <<sessionVars, thread, listVars, publishing, mutex, callVars, scanVars, subVars>>

Delivered(o) ==
  /\ sending' = sending \ {o}
  /\ abandoned' = abandoned \ {o}
  /\ UNCHANGED <<sessionVars, thread, listVars, flagVars, mutex, callVars, scanVars, subVars>>

Library ==
  \/ \E n \in Names : Message(n)
  \/ OnMessage
  \/ \E o \in sending : OnSendFailure(o) \/ Delivered(o)

Next ==
  \/ Owner \/ Worker \/ Library \/ Broker
  \/ \E t \in Threads : Find(t) \/ AppendNew(t)

Spec == Init /\ [][Next]_vars

-----------------------------------------------------------------------------
(* Properties.                                                             *)

\* Two threads that create a topic of the same name get the same topic.
UniqueTopics == \A o, p \in topics : name[o] = name[p] => o = p

\* A failure callback (OnSendFailure) never gets a pointer to a deleted topic,
\* unless the application deleted it while the node ran, with a message of
\* it under way in this session: a deletion is safe when the node is stopped,
\* and a topic that is deleted is not sent any more.
PointersAlive == sending \subseteq topics \cup abandoned

\* Once the node is destroyed the metrics of its topics are invalid: nothing
\* a message or a failure did makes one valid after the destructor's loop.
DestroyedInvalid ==
  InCall("owner", "destroyed") => \A o \in topics : ~valid[o]

\* An online node has subscribed to every filter in its list in this very
\* session (StartSubscription), whatever became of the other ones, but for
\* those that were added since it is online.
SubscribedWhenOpen == phase = "open" => subscriptions \subseteq tried \cup late

\* The topics do not disturb the session.
KeepsSession == S!SafeSpec
=============================================================================
