# metriclib: formal models

TLA+ models of metriclib, the C++ library that publishes and receives metrics
over MQTT (Paho's asynchronous C library), with TLC runs and TLAPS proofs.
Paths are relative to the repository; `mqttnode.cpp` is `mqtt/src/mqttnode.cpp`,
`metric.h` is `include/metric/metric.h`, and so on.

## 1. The system

| Component | State | Operations | Talks to |
|---|---|---|---|
| `MqttNode` (mqttnode.cpp/.h, on `MetricNode`) | `handle_`, `client_state_`, `stop_client_task_`, `client_timer_`, `delivered_`, `connection_lost_`, `in_service_`, the worker thread | `Init`, `Exit`, `InService`, `OutOfService`, destructor, `ClientTask` and its handlers `DoIdle`, `DoWaitOnConnect`, `DoOnline`, `DoWaitOnDisconnect`; the `On...` callbacks | Paho (requests down, callbacks up on Paho's threads), topics |
| `DetectBroker` (detectbroker.cpp) | none of its own | `Init`: start the node, poll it for 10 s, stop it if it connected | its node, from the owner's thread |
| `Metric` (metric.h, metric.cpp) | `value_` under a mutex; atomics `valid_`, `is_null_`, `updated_`; properties | `Value`, `Valid`, `Null`, `SetUpdated`, `ResetUpdated` | written by any application thread, read by publishers |
| `Topic`, `MqttTopic` (topic.cpp, mqtttopic.cpp) | list of metrics, `body_`, levels of the name, `publish_` | `IsUpdated`, `ResetUpdated`, `SetAllMetricsInvalid`, `OnPublish`, `OnMessage`, the payload codecs, send-failure callbacks | metrics, Paho |
| `MetricNode` (metricnode.cpp) | topic list (mutex), subscription list (no mutex) | create, get, delete topics; add, delete subscriptions | worker (`PublishTopics`, `StartSubscription`), `Message` |
| `MetricDatabase`, `MetricGroup` | lists of groups and metrics | create, delete, find, sort | single-threaded callers |
| `MetricProperty` | key, type, value, null | typed accessors | `Metric` |
| `MetricLogStream`, `MetricListen` | a global log function, an error count, a listen function per node | log | everybody |
| Paho and the broker | clients, connections, messages in flight | external | the node's callbacks |

What is hard here:

- **Three kinds of threads** work on a node: the owner that calls it, the one
  worker that scans `client_state_` every 100 ms, and Paho's threads that run
  the callbacks. They share atomics, not a lock.
- **One flag for several answers.** `delivered_` is set by the answer to a
  connect and by the answer to a disconnect; `connection_lost_` by failures and
  losses, and cleared by any traffic.
- **Clients come and go.** `handle_` is created and destroyed for each attempt;
  an abandoned attempt still has answers under way.
- **Shutdown** in any of the four client states, while the library may be
  silent, and restart after it.
- **Publishing without a common lock.** A writer sets the value, then `valid_`,
  then `updated_`; a publisher resets all `updated_` flags, then reads flags and
  values one at a time; a message may fail at once or much later.
- **Failure feeds back.** A failed message invalidates the metrics, which marks
  them as updated, which publishes again.

What makes each part correct: the node never has more than one client and never
loses one; it is online only on its own acknowledged connection; after `Exit`
nothing calls it; its calls return; in service it gets online, out of service it
lets go. A metric that is neither marked nor being handled is at the broker as
it is; publishing ends when changes end. A broker that is "found" answered.
Databases and lists keep one object per key; codecs read what they write.

`PROJECT.json` lists the hazards one by one, at their lines, with the properties
that cover them or the reason why none does.

## 2. Modules

| Module | What it is |
|---|---|
| `MqttNode` | the node, its worker, its owner, the library and the broker |
| `MqttSession` | abstract: what a node promises of its session with the broker |
| `MqttNodeRefinement` | the mapping under which `MqttNode` implements `MqttSession` |
| `DetectBroker` | `DetectBroker::Init` on top of `MqttNode` (EXTENDS it and composes its actions) |
| `MetricPublish` | metrics, writers, publishers, failing messages |
| `NodeTopics` | topics and subscriptions of a node, over the steps of `MqttSession` |
| `TopicMessages` | what an arriving message does to a topic and its metrics |
| `MetricText` | the strings metrics hold, what is printed for them, what is read of them |
| `ObjectList` | a list that keeps the order of creation, as a set |
| `Vector` | the other `std::vector`s, as sequences: erase, find and sort by index |
| `TopicName` | the name of a topic and its Sparkplug levels |
| `MetricDatabase` | groups and metrics of a database: creation, deletion, sorts, look-ups |
| `MetricStore` | abstract: what a database promises of its contents |
| `*Proofs` | theorems and proofs of the module named; `ListProofs` of `ObjectList` and `Vector` |
| `MC*` | model values, definitions of constants and symmetry for TLC |

Operators whose comment begins with "Mutant:" are deliberately wrong variants of
the definition near them. No specification uses them; they serve to show that
the properties notice such a mistake (`"mutants"` in `PROJECT.json`).

### MqttNode

The variables carry the names of the members, without the final underscore.
`worker` is where `ClientTask` is (`start`, `loop`, then the shutdown sequence
`closing`, `await`, `destroy`, `ended`; `none` when no thread is joinable), `owner`
the call the owner is blocked in, `link` the library's client behind each address
a handle can have, `pending` the callbacks it still owes.

| Action | Code |
|---|---|
| `StartTask`, `LeaveLoop`, `SkipDisconnect`, `CloseConnection`, `AwaitDisconnect`, `EndTask` | `ClientTask` before, at the end of, and after its loop |
| `DoIdleWait`, `DoIdleFail`, `DoIdleConnect` | `DoIdle` with `CreateClient` and `SendConnect`: early return, failed call, request sent |
| `GiveUpConnect`, `GoOnline` | `DoWaitOnConnect` |
| `GoOffline` | `DoOnline`, out of service or asked to stop since the pass began, with `SendDisconnect` |
| `DoWaitOnDisconnect` | the function |
| `Connect`, `ConnectFailure`, `ConnectionLost`, `Disconnect`, `DisconnectFailure`, `Traffic` | the callbacks, MQTT 3 and 5 |
| `InService`, `OutOfService`, `RequestStop`, `FinishInit`, `FinishExit` | the owner's calls; `Init`, `Exit` and the destructor block in `join` between the two |
| `Accept`, `Refuse`, `Drop`, `Close`, `BrokerChanges` | library, network and broker (external) |

*Grain.* A pass of the worker through its `switch` is one action. While it runs it
reads each atomic once (but `stop_client_task_`, which `DoOnline` reads again: see
`GoOffline`), writes `client_state_` and `client_timer_`, which no
other thread writes while a worker exists, and hands requests to the library,
whose answer cannot precede them; so the pass can be placed where it reads the
atomic it depends on. The shutdown sequence sleeps between its reads and is split
there. `FinishInit` happens when `join` returns, when the owner is alone with the
library, and the old client is gone by then. A callback is one step. Its two
writes are not atomic in the code; between them the worker can only observe the
first, and waits (`delivered_` is written last by `Connect` and `ConnectFailure`)
or leaves for `Idle`, where for 10 s nothing reads either flag.

*Assumed of the library* (from how the code uses it): requests are answered
through the callbacks registered for them, at most once; a client's callbacks run
in the order of their causes; once `MQTTAsync_destroy` has returned no callback
of that client runs; `MQTTAsync_isConnected` holds from the accepted connection
to its loss or its close. Nothing obliges the library to answer; two liveness
runs assume it, as said below.

*Abstracted.* `client_timer_` to whether it is due. Host, port, TLS, user and
names: they choose a broker, never a path through the state machine, except that
calls may fail, which `CallsMayFail` allows at any call.

### MqttSession and MqttNodeRefinement

`MqttSession` has three variables: the phase of the node, the progress of its
session, whether it has been asked to stop. There is one session, it is opened
only on the broker's acknowledgement, dropped only by closing, retrying or
stopping, and a node asked to stop stops. The mapping takes `client_state_` to
the phase, the whole shutdown sequence to `stopping`, and counts a connection as
acknowledged when the node has run `Connect`. `NodeTopics` uses the same abstract
session, so that it need not repeat the node's flags and timers.

### DetectBroker

`BeginDetect` (in service), `StartNode` and `NodeStarted` (`MqttNode::Init`), then
rounds of `PollLost` (read `connection_lost_`), `PollHandle` and `PollConnected`
(`IsConnected` reads `handle_`, then asks the library), and `StopFound`,
`ReturnFound` (`Exit`). Every step of the node may come between. `handle_` is a
plain pointer that the worker sets and destroys meanwhile. With `TornPoll` the
client may be destroyed between the two halves of `IsConnected`, and then either
answer is possible. `attempt` is history: how far a connection of this `Init`
got.

### MetricPublish

One topic, its metrics, the writers, the publishers (the worker, and application
threads calling `PublishTopics`), and the library. Every access to a variable
another thread may write is a step:

| Action | Code |
|---|---|
| `Value`, `CheckValid`, `SetValid`, `MarkValid`, `MarkChanged` | `Metric::Value`: the assignment under the mutex, `Valid(true)` in three accesses, `SetUpdated` |
| `Valid`, `Null`, `SetNull` | `Metric::Valid`, `Metric::Null` |
| `PublishTopics`, `ResetUpdated`, `OnPublish` | the lock and the test; the flags reset one at a time |
| `LookNull`, `LookValid`, `ReadValue` | `MakeTextBody`, `MakeJsonBody`, metric by metric |
| `Send`, `SendFails` | `MQTTAsync_sendMessage` accepts or refuses |
| `OnSendFailure`, `Invalidate`, `AllInvalid` | the failure callbacks and `SetAllMetricsInvalid` |
| `Arrive` | external |

`IsUpdated` is read for all metrics in one step: only the holder of
`MetricNode::topic_mutex_` resets a flag, so the loop finds a set flag exactly if
there was one at some instant of it. Metrics of a topic are visited in any order,
which includes the order of the list. `Topic::topic_mutex_`, held in
`ResetUpdated` and `SetAllMetricsInvalid`, is left out: the model allows more
interleavings than the code. The body holds, for each metric, what is printed for
it: the value, or `*`/`null`; how a value is printed does not matter here. A value
set twice without change is not announced twice, as in the code. The list of
metrics and `IsPublishing` do not change here.

### NodeTopics

Owner, worker and one thread of the library use the lists of a node. Each call
that takes `MetricNode::topic_mutex_` is split where another thread may come in:

| Action | Code |
|---|---|
| `CreateTopic`, `Find`, `AppendNew` | `CreateTopic`, called by the owner or by `Message`; the mutex is held from a vain search to the append |
| `DeleteTopic`, `Publishing`, `Write` | `DeleteTopic`, `Topic::Publishing(true)`, `Metric::Value` |
| `AddSubscription`, `DeleteSubscription` | the functions, without a lock |
| `InitNode`, `BeginExit`, `ExitNode`, `Destroy` | `Init`, `Exit`, the destructor with its loop over the topics |
| `StartTask`, `DoIdle`, `SessionScan`, `EndTask` | the worker's scans, as steps of `MqttSession`; `DropClient` is `MQTTAsync_destroy` |
| `BeginSubscribe`, `StartSubscription`, `GoOnline` | `DoWaitOnConnect` with `StartSubscription`, filter by filter |
| `BeginPublish`, `NextTopic`, `ResetUpdated`, `OnPublish`, `EndPublish` | `PublishTopics` under the mutex, topic by topic |
| `Message`, `OnMessage`, `OnSendFailure` | the callbacks; `Delivered`, `Broker` are external |

The node under it is the abstract session, which `MqttNode` implements; that the
topics only take steps of it is `KeepsSession`, a theorem. A topic is reduced to
whether it publishes, whether one of its metrics is updated and whether any is
valid (`MetricPublish` and `TopicMessages` look inside).

`DeleteTopic`, `AddSubscription` and `DeleteSubscription` are called at any time, as
the code lets them. Two history variables tell what then goes wrong: `abandoned` are
the topics deleted from a running node while the library had a raw pointer to them
for a failure callback, `late` the filters added to an online node, which sends
them in its next session only. `PointersAlive` and `SubscribedWhenOpen` say that
nothing else does.

*Assumed of the application and the library*, none of it enforced by the code:
subscriptions do not change just while the worker iterates them (no lock); a
callback that runs ends before `MQTTAsync_destroy` of its client returns, and one
that has a pointer to a deleted topic does no more than touch it; a connection lost
during `StartSubscription` is taken to be lost just after it.

### TopicMessages and MetricText

One topic, the library's thread that handles its messages one after the other,
and an application thread that creates metrics, gives them types and removes
them. Every access to something the other thread may use is a step: `Arrives`
(`Message`), then `Find`, `Front`, `Default`, `DefaultType`, `TextStamp`,
`TextValue`, `TextValid` (`HandleTextBody`) or `Parse`, `NextMember`,
`CreateMember`, `LookType`, `SetType`, `SetNull`, `Invalid`, `Valid`, `JsonValue`,
`NotAString` (the exception), `JsonStamp`, `EndMembers` (`HandleJsonBody`), then
`Callback` (`Topic::OnMessage`). A message without content type keeps that of the
one before. Metrics are numbered as they are made and never reused, so a removed
metric the handler still holds through its `shared_ptr` lives on.

`metric_list_.empty()` and `front()` are called without `topic_mutex_`; that no
metric is removed just then is assumed, for the code gives no behaviour to it.

`MetricText` has a string as its form and a datum. `Stored` is what
`Metric::Value(v)` stores, `TextOf` and `JsonOf` what `MakeTextBody` and
`MakeJsonBody` print for one metric, `Read` what the typed readers return,
including the truncation to eight bits and the reading of a Boolean by its first
character. The messages of `MCTopicMessages` are built with them: bodies another
node makes (integers, Booleans, `*`, a JSON string, null, a number, two metrics
without the comma, which do not parse) and those of other clients of the broker
(two members, content types missing or unknown). Each message remembers the type
and the `value_` of the metric it was made from; those of other clients have the
type Unknown. Two assumptions say what a message is: a JSON object has no key
twice (`KeysAssumption`; nlohmann's object is a map), and the text of a number or a
Boolean is what `MakeTextBody` prints for a value its application wrote, in the
range of the type, or `*` (`TextsAssumption`).

### TopicName

A name is the sequence of its parts. `GiveName` is `Name(name)`: each level that
is still empty takes its part, then the special case of STATE; `AskName` is
`Name()`, which derives the name once and keeps it; `SetLevel` the five setters.
Calls may come in any order. A level is one part: that an application sets a level
to a string with a `/` in it, which `Name(name)` would split, is not expressed.

The name is the subsequence of the levels that are set, `Keep` of `Vector`.

### MetricDatabase and MetricStore

Lists are sequences of keys, since groups and metrics are told apart by keys the
application leaves alone. `std::ranges::sort` is not stable: `Sorts` is the set
of all results it may have; `Without` is `std::erase_if`, `FirstOf` is
`std::ranges::find_if`. Look-ups are sets of at most one result. The caller
is given the last element of the list (`Created`), as in the code. `MetricStore`
is the abstract specification: two sets and four calls.

## 3. Runs

Bounds are named constants. TLC checks deadlock, except in the runs of
`NodeTopics` and `TopicMessages`, where a node that was destroyed and a topic
whose messages are used up stop.

| Run | Shows | Instance |
|---|---|---|
| `node_and_detect` | the safety of node and DetectBroker: `SingleClient`, `QuietAfterExit`, `OnlineAnswered`, `DisconnectAnswered`, `FoundIsQuiet`, `OwnAnswer`, `FoundTrue`, the invariants of the proofs; that calls return, service is honoured and the session is implemented: `CallsReturn`, `OutOfServiceHonoured`, `DetectReturns`, `ImplementsSession` | 2 addresses, `ClosePolls` = 1, `MaxDelay` = 2, calls may fail, the library may stay silent, no torn polls |
| `node_online` | `InServiceHonoured` | `ClosePolls` = 2, calls may fail, `PromptBroker` |
| `publish_topic` | `NoUpdateLost`, `PublishInv` | 2 metrics, 1 writer, 1 publisher |
| `publish_live` | `EventuallySent`, `Quiesces`, `NoUpdateLost` | 1 metric, 1 writer, 2 publishers, `Null`, late failures, up to 2 unanswered messages |
| `messages` | `OneMetricPerName`, `GoodHasValue`, `GoodIsMessage`, `MessageApplied`, `NoSecondMetric`, `TypeKept`, `ReadsBack` | 10 messages of which 2 arrive, 3 names, 3 metrics |
| `topics` | `UniqueTopics`, `PointersAlive`, `DestroyedInvalid`, `SubscribedWhenOpen` | 2 names of which one is received, 2 filters, 2 topics, any number of sessions |
| `database` | `OneEachKey`, `SortedUntilCreate`, `LookupsAgree`, `ImplementsStore` | 2 names, 2 identities, 2 groups, 3 metrics |
| `topic_name` | `ReceiverAgrees` | 4 parts, 6 given names of 1 to 6 parts |

Why the bounds are enough. Two addresses: at most one client is alive, so a second
one is what reuse and confusion need. `ClosePolls` and `MaxDelay` only count, and
the proofs hold for all. Two values tell a new value from an old one; a race of
publishing is between two of a kind or one of each; two metrics, since a loop over
the list can be caught between two of them; two unanswered messages give a latest
one and an overtaken one. Two messages give a stale format, type, value or
timestamp to the second; three metrics hold the application's, the topic's and
one more. Two topics: one of the name asked for and another; two filters: one that
is refused and another. A sort goes wrong
between two metrics of one group and a third of another, which the database has.
A given name of six parts has one too many. The largest runs (`publish_live`,
`publish_topic` with 4.0 million states, `topics` with 5.0 million) take one to three
minutes.

Four runs are meant to fail; each shows that the code does not do what a comment
or a test of the repository says (`"findings"` in `PROJECT.json`):

| Run | Claim | What happens |
|---|---|---|
| `node_await` | mqttnode.cpp:707 "Wait for 5s for the disconnect to be delivered" | the loop waits while `IsConnectionLost()`, which `SendDisconnect` has just cleared: no wait, the client is destroyed at once |
| `node_loss` | testmqtt.cpp:168 "Check that both clients are connected", by `IsOnline` | `DoOnline` never looks at `connection_lost_`: online for ever on a dead connection |
| `json_list` | mqtttopic.cpp:217 "the string should be treated a JSON list of metric name and value list" | in the body a node makes of a single metric, a number or Boolean makes `get<std::string>()` throw: the metric is valid without value or timestamp, the members after it are skipped |
| `create_group` | test_metricdatabase.cpp:35 `EXPECT_EQ(group->Name(), "Godzilla")` | `CreateGroup` and `CreateMetric` return the last element, also when another one was asked for and exists |

### Fairness

- `NodeFairness`: the worker thread is scheduled, time passes (an armed timer gets
  due), `join` returns when the worker has ended. Weak fairness of all worker
  actions together suffices, for exactly one place of the worker is enabled at a
  time. `node_and_detect` needs no more of the node, so its properties hold
  with a library that never answers.
- `LibraryFairness` (`node_online`, `node_loss`): a request that stays
  answerable is answered, and owed callbacks run. `PromptBroker` adds that an
  answer comes within the 5 s of the connect timer; without it a node may retry
  for ever, as it should.
- `MetricPublish!Fairness`: calls that have begun are finished, the worker calls
  `PublishTopics` again and again (`DoOnline`, every 100 ms), messages are
  answered. Nothing obliges an application thread to call anything.
- `FairDetectSpec`: an `Init` that was called goes on.

The other modules state safety only.

## 4. Proofs

All are checked by tlapm with Z3, Zenon and LS4, for every value of the constants
under the named assumptions of the modules: `NoHandle` is no address, `ClosePolls`
and `MaxDelay` are numbers, threads of different kinds are different threads,
`Starred` is no value, a node has some name for topics, filters cover names, the
topic's name is one of the names of metrics, messages are of their type and are
what section 2 says of them, the application's types are types other than Unknown,
names and identities are numbers, the Sparkplug namespace is not empty.

**MqttNodeProofs.** `TypeCorrect`, then `NodeInvariant`, then `NoClientLeaks`,
`QuietWithoutWorker`, `OnlineMeansAnswered`, `DisconnectMeansAnswered` from it.
None of the last four is inductive. That the node goes online only on its own
answer (`OnlineAnswered`) needs `ConnectOutstanding`: while it waits for the
connection, as long as the answer is not there, `delivered` is false, which in
turn needs `OnlyOwed` (callbacks are owed only for what happened to a link) and
`SingleClient` (the answer of an abandoned client died with it). For disconnects
`DisconnectOutstanding` plays that role: no connect answer is owed any more.
`ClientKept` says where the worker holds no client, which makes destruction and
creation keep `SingleClient`. The step lemmas are one per kind of thread, one
case per action.

The last part is `NodeRefinesSession`: initial states map to initial states, and
under `NodeInv` each step maps to a step of the abstract session or to a stutter.
The liveness half of `ImplementsSession` stays with TLC.

**DetectBrokerProofs.** `DetectIsNode`: every step of DetectBroker is one of the
node, so all the above carries over, the session among it (`DetectKeepsSession`).
`DetectInvariant` adds `AttemptKnown` (while
`Init` polls, flags and links tell of this `Init` only; it holds because
`MqttNode::Init` joins the old worker *before* it resets `connection_lost_`) and
`AnswerKnown`. From it `FoundNodeIsQuiet`, `AnswersAreOwn`, and
`FoundBrokerAnswered`, the last under `~TornPoll`.

**MetricPublishProofs.** `TypeCorrect`, `PublishInvariant`, `NoUpdateIsLost`. The
heart is `Covered(m)`: at every moment a metric is invalid, or marked, or some
thread is bound to mark or invalidate it, or the publisher at work has yet to read
it or has read what it shows, or the last message accepted shows it and has not
failed. It needs `OnePublisher` (the mutex) and `StepsOK` (who may be where).

**NodeTopicsProofs.** `TopicsInvariant`, from which `TopicsAreUnique`,
`PointersStayAlive`, `DestroyedStaysInvalid`, `OpenIsSubscribed` and `TopicsTypes`
follow. None is inductive alone. Uniqueness needs `LockHeld`: who is about to
append holds the mutex, and what it looked for is still missing. That pointers
stay alive, but for those the application cuts off in a running node, needs
`WorkerHolds` (what `PublishTopics` is at is in the list: nothing is deleted between
the test and the send) and `Quiet` (without a worker nothing is being sent and no
callback runs: a topic deleted then has no client left to report its failure).
`DestroyedInvalid` rests on `Quiet`, too: the destructor's loop comes after the
join. `TopicsKeepSession` is the refinement: every step is one of `MqttSession` or
a stutter.

**TopicMessagesProofs.** `MessagesInvariant` for `SafeInv`, in layers: types
and `HandlerInv` (which message a handler is at, that it holds a metric that was
made); uniqueness, which holds although the search and the creation are two
calls because `CreateMetric` searches again under its lock; what a metric in the
handler's hands shows so far, step by step (`GoodInv`, `ShownInv`, `RestInv`),
from which a metric that is let go shows the message its timestamp tells
(`ValidIsMessage`, under the condition that no message makes `HandleJsonBody`
throw); what the application made (`UserInv`), for `NoExtraMetric` and
`TypesAreKept`; and what was done so far. For `AppliedWhenCalled` that is
`DoneInv`: every member `HandleJsonBody` has visited is shown by some metric under
the timestamp of this message. It is kept because the metric at hand is that of a
member not visited before (`HeldIsNew`, from the keys being different), so that
what was applied is not overwritten, and nothing but the handler writes what
`Shows` looks at. For `NumbersReadBack`, `TextShown` says that timestamp and text
of a metric go together between the steps that set them, `LogInv` that the text is
that of a message some node made, and the lemma `TextReadsBack` that what
`MakeTextBody` prints of an integer or a Boolean in range the typed reader returns
unchanged, the truncation to eight bits and the first character of a Boolean
included. It holds for every value, where TLC tries the few of its messages.

**ListProofs.** Facts about lists of any elements and length, by the least number
principle and the theory of finite sets, no induction needed: a list of objects
that is not empty has a first (`FirstInList`); `Nth` enumerates a set of indices
without gaps, in order (`NthLists`: the number of smaller indices is an injection
of the set into a range of the same size, hence onto it); therefore erasing leaves
exactly the other elements, none of them twice (`KeepLeaves`, `WithoutLeaves`), in
their order (`KeepOrders`, `WithoutOrders`); sorting loses and doubles nothing
(`ArrangementHolds`: an injection of a finite set into itself is onto); appending
adds one element (`AppendAdds`, `CreateKeeps`).

**MetricDatabaseProofs.** `DatabaseInvariant`, then `DatabaseTypes`,
`KeysAreUnique`, `ListsStaySorted`, `LookupsAreEqual`. `SortedUntilCreate` is not
inductive: erasing from a list whose groups are merely contiguous says nothing of
the pairs that become neighbours. `InOrder` is: no later metric is less than an
earlier one, which any subsequence inherits. The property follows from it because
the orders are total on keys (`GroupsOrdered`) and no key is twice in the list; with
equal keys `SortMetricByGroup` could not make the names ascend strictly. The
look-ups agree because both select the same indices, and the metric of a group and
a name is unique as a key. `DatabaseIsStore` is the refinement: each call adds or
removes the key it names in the set of the list's elements, sorting and enabling
stutter.

**TopicNameProofs.** `NameInvariant` (as long as levels are set one by one, the
name is empty or what `Name()` makes of the levels now) and `NameTellsLevels`. The
levels that are set are the first two to five, or the first, third and fourth of a
STATE message; `NthOfFirst` and `NthOfState` say where `Joined` puts them, and the
receiver's `Name(name)` puts them back.

In definitions that proofs use, alternatives are written with IF or as records
applied to a value: tlapm 1.4.5 translates a CASE expression for its SMT backend
in a way that accepts false statements.

The empty string has a name of its own in `TopicName`, `Unset`: the SMT backend has
no translation of the literal.

Only model-checked: the liveness properties, `CallsReturn`, `OutOfServiceHonoured`,
`ImplementsSession` (beyond its safety part), `DetectReturns`, `InServiceHonoured`,
`EventuallySent` and `Quiesces`, since fairness and ENABLED are beyond the prover;
and the violations. The conversions of database types are four values, which TLC
tries (`TypesRoundTrip`). Every safety property the passing runs check is a
theorem.

## 5. Not modelled

- `Publishing(false)`, and changes of the metric list while the topic is published:
  `MakeTextBody` and `MakeJsonBody` iterate the list without its lock, and
  `publish_` is a plain bool. So are `body_`, written by `Message` on one thread
  and by `OnPublish` on another, `subscription_list_` while the worker iterates it, the static
  flag of `InitMqtt` and the global function of `MetricLogStream`. These are data
  races, to which the code gives no behaviour; the models state as assumptions
  that they do not happen, and `"hazards"` lists each.
- `AddMetric`, which appends without looking, and direct use of `Metrics()`: the
  application's own business.
- The wall clock set back (`NowMs`): timers are abstracted to due or armed.
- Floating-point values and their formatting (`metrichelper`), integers wider than
  TLC's, `DataTypeToString`: data without control.
- `MetricProperty`: typed accessors like those of `Metric`, used by the
  application only.
- `MetricLogStream`, `MetricListen`: diagnostics.
- TLS set-up, users, passwords and host names: they choose a broker, never a path
  through the state machine.
