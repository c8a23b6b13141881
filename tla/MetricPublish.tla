--------------------------- MODULE MetricPublish ---------------------------
(***************************************************************************)
(* How a changed metric::Metric reaches the broker, without a common lock: *)
(*                                                                         *)
(*   - writers call Metric::Value, Valid and Null.  The value is written   *)
(*     under the metric's mutex; valid_, is_null_ and updated_ are atomics *)
(*     written one by one after it;                                        *)
(*   - publishers (the worker, and any thread that calls PublishTopics)    *)
(*     serialize on the node's topic_mutex_, but not with the writers:     *)
(*     they reset the updated_ flags, then read the metrics into the body, *)
(*     then hand it to the library;                                        *)
(*   - when a message fails, at once or in a callback later, every metric  *)
(*     of the topic is made invalid (SetAllMetricsInvalid).                *)
(*                                                                         *)
(* Every access to a variable that another thread may write is a step.     *)
(* Only IsUpdated is read for all metrics at once: updated_ is reset only  *)
(* by the holder of topic_mutex_, so the loop that looks for a set flag    *)
(* answers what it would have answered at one instant.  One topic that is  *)
(* being published stands for all; its list of metrics is fixed.           *)
(***************************************************************************)
EXTENDS Naturals

CONSTANTS
  Metrics,      \* metric_list_ of the topic
  Nullable,     \* the metrics on which Null is called
  Values,       \* strings a metric can hold
  Empty,        \* the initial value_
  Starred,      \* how the body shows an invalid or null metric ("*")
  Writers,      \* threads that change metrics
  Publishers,   \* threads that run PublishTopics
  Worker,       \* the publisher that never stops (DoOnline, every 100 ms)
  Library,      \* the library's callback thread
  Nobody,       \* topic_mutex_ is free
  LateFailures, \* may an accepted message fail?
  MaxOlder      \* bound on unanswered messages besides the latest

ASSUME ValuesAssumption == Empty \in Values /\ Starred \notin Values
ASSUME NullableAssumption == Nullable \subseteq Metrics
ASSUME ThreadsAssumption ==
  /\ Writers \cap Publishers = {}
  /\ Worker \in Publishers
  /\ Library \notin Writers \cup Publishers
  /\ Nobody \notin Publishers
ASSUME LateFailuresAssumption == LateFailures \in BOOLEAN
ASSUME MaxOlderAssumption == MaxOlder \in Nat

VARIABLES
  value, null, valid, updated,  \* of each metric
  step,      \* where each thread is
  metric,    \* the metric its call is about
  to,        \* the argument of its Valid or Null
  changed,   \* `updated' in Metric::Value
  todo,      \* metrics its loop over metric_list_ has yet to visit
  mutex,     \* holder of MetricNode::topic_mutex_
  body,      \* Topic::body_, by metric
  sent,      \* the latest message the library accepted, by metric
  fate,      \* of that message
  older      \* accepted before it and unanswered

metricVars == <<value, null, valid, updated>>
callVars == <<metric, to, changed>>
sendVars == <<sent, fate, older>>
vars == <<metricVars, step, callVars, todo, mutex, body, sendVars>>

Threads == Writers \cup Publishers \cup {Library}
Content == Values \cup {Starred}

Step == {"idle",
         "check", "set", "mark",         \* Valid: compare, assign, SetUpdated
         "null", "changed",              \* assign is_null_; SetUpdated
         "reset", "look", "lookValid", "read",   \* PublishTopics, OnPublish
         "invalidate"}                   \* SetAllMetricsInvalid

TypeOK ==
  /\ value \in [Metrics -> Values]
  /\ null \in [Metrics -> BOOLEAN]
  /\ valid \in [Metrics -> BOOLEAN]
  /\ updated \in [Metrics -> BOOLEAN]
  /\ step \in [Threads -> Step]
  /\ metric \in [Threads -> Metrics]
  /\ to \in [Threads -> BOOLEAN]
  /\ changed \in [Threads -> BOOLEAN]
  /\ todo \in [Threads -> SUBSET Metrics]
  /\ mutex \in Publishers \cup {Nobody}
  /\ body \in [Metrics -> Content]
  /\ sent \in [Metrics -> Content]
  /\ fate \in {"open", "arrived", "failed"}
  /\ older \in 0..MaxOlder

(* New metrics are invalid, so an empty broker knows all there is to know. *)
Init ==
  /\ value = [m \in Metrics |-> Empty]
  /\ null = [m \in Metrics |-> FALSE]
  /\ valid = [m \in Metrics |-> FALSE]
  /\ updated = [m \in Metrics |-> FALSE]
  /\ step = [t \in Threads |-> "idle"]
  /\ metric \in [Threads -> Metrics]
  /\ to = [t \in Threads |-> FALSE]
  /\ changed = [t \in Threads |-> FALSE]
  /\ todo = [t \in Threads |-> {}]
  /\ mutex = Nobody
  /\ body = [m \in Metrics |-> Starred]
  /\ sent = [m \in Metrics |-> Starred]
  /\ fate = "arrived"
  /\ older = 0

\* What MakeTextBody and MakeJsonBody print for a metric
Shown(m) == IF null[m] \/ ~valid[m] THEN Starred ELSE value[m]

At(t, s) == step[t] = s
Goto(t, s) == step' = [step EXCEPT ![t] = s]

-----------------------------------------------------------------------------
(* Writers.                                                                *)

Call(w, m, b, c) ==
  /\ metric' = [metric EXCEPT ![w] = m]
  /\ to' = [to EXCEPT ![w] = b]
  /\ changed' = [changed EXCEPT ![w] = c]
  /\ UNCHANGED <<todo, mutex, body, sendVars>>

\* Metric::Value(v), as far as it holds metric_mutex_
Value(w, m, v) ==
  /\ At(w, "idle")
  /\ value' = [value EXCEPT ![m] = v]
  /\ Call(w, m, TRUE, v # value[m])
  /\ Goto(w, "check")
  /\ UNCHANGED <<null, valid, updated>>

Valid(w, m, b) ==
  /\ At(w, "idle")
  /\ Call(w, m, b, FALSE)
  /\ Goto(w, "check")
  /\ UNCHANGED metricVars

\* Null compares first.
Null(w, m, b) ==
  /\ At(w, "idle")
  /\ null[m] # b
  /\ Call(w, m, b, FALSE)
  /\ Goto(w, "null")
  /\ UNCHANGED metricVars

SetNull(w) ==
  /\ At(w, "null")
  /\ null' = [null EXCEPT ![metric[w]] = to[w]]
  /\ Goto(w, "changed")
  /\ UNCHANGED <<value, valid, updated, callVars, todo, mutex, body, sendVars>>

\* Mutant: a changed value is not announced if the metric was valid before.
NoRest(w) == "idle"

\* What Value does after Valid(true)
Rest(w) == IF changed[w] THEN "changed" ELSE "idle"

\* Valid compares...
CheckValid(w) ==
  /\ At(w, "check")
  /\ Goto(w, IF valid[metric[w]] = to[w] THEN Rest(w) ELSE "set")
  /\ UNCHANGED <<metricVars, callVars, todo, mutex, body, sendVars>>

\* ... assigns...
SetValid(t) ==
  /\ At(t, "set")
  /\ valid' = [valid EXCEPT ![metric[t]] = to[t]]
  /\ Goto(t, "mark")
  /\ UNCHANGED <<value, null, updated, callVars, todo, mutex, body, sendVars>>

SetUpdated(t) ==
  /\ updated' = [updated EXCEPT ![metric[t]] = TRUE]
  /\ UNCHANGED <<value, null, valid, callVars, todo, mutex, body, sendVars>>

\* ... and announces the change.
MarkValid(t) ==
  /\ At(t, "mark")
  /\ SetUpdated(t)
  /\ Goto(t, IF t \in Writers THEN Rest(t) ELSE "invalidate")

MarkChanged(w) ==
  /\ At(w, "changed")
  /\ SetUpdated(w)
  /\ Goto(w, "idle")

-----------------------------------------------------------------------------
(* Publishers.                                                             *)

\* PublishTopics finds the topic updated; it keeps the mutex to the end.
PublishTopics(p) ==
  /\ At(p, "idle")
  /\ mutex = Nobody
  /\ \E m \in Metrics : updated[m]
  /\ mutex' = p
  /\ todo' = [todo EXCEPT ![p] = Metrics]
  /\ Goto(p, "reset")
  /\ UNCHANGED <<metricVars, callVars, body, sendVars>>

ResetUpdated(p) ==
  /\ At(p, "reset")
  /\ \E m \in todo[p] :
       /\ updated' = [updated EXCEPT ![m] = FALSE]
       /\ todo' = [todo EXCEPT ![p] = @ \ {m}]
  /\ UNCHANGED <<value, null, valid, step, callVars, mutex, body, sendVars>>

OnPublish(p) ==
  /\ At(p, "reset")
  /\ todo[p] = {}
  /\ todo' = [todo EXCEPT ![p] = Metrics]
  /\ Goto(p, "look")
  /\ UNCHANGED <<metricVars, callVars, mutex, body, sendVars>>

\* IsNull() || !IsValid(), then the value under metric_mutex_
LookNull(p) ==
  /\ At(p, "look")
  /\ \E m \in todo[p] :
       /\ metric' = [metric EXCEPT ![p] = m]
       /\ todo' = [todo EXCEPT ![p] = @ \ {m}]
       /\ \/ null[m] /\ body' = [body EXCEPT ![m] = Starred] /\ UNCHANGED step
          \/ ~null[m] /\ Goto(p, "lookValid") /\ UNCHANGED body
  /\ UNCHANGED <<metricVars, to, changed, mutex, sendVars>>

LookValid(p) ==
  /\ At(p, "lookValid")
  /\ \/ ~valid[metric[p]] /\ Goto(p, "look") /\ body' = [body EXCEPT ![metric[p]] = Starred]
     \/ valid[metric[p]] /\ Goto(p, "read") /\ UNCHANGED body
  /\ UNCHANGED <<metricVars, callVars, todo, mutex, sendVars>>

ReadValue(p) ==
  /\ At(p, "read")
  /\ body' = [body EXCEPT ![metric[p]] = value[metric[p]]]
  /\ Goto(p, "look")
  /\ UNCHANGED <<metricVars, callVars, todo, mutex, sendVars>>

\* Mutant: the body is sent before every metric was read.
SendEarly(p) ==
  /\ At(p, "look")
  /\ sent' = body
  /\ fate' = "open"
  /\ older' = older + (IF fate = "open" THEN 1 ELSE 0)
  /\ older' <= MaxOlder
  /\ mutex' = Nobody
  /\ Goto(p, "idle")
  /\ UNCHANGED <<metricVars, callVars, todo, body>>

\* MQTTAsync_sendMessage accepts the message.
Send(p) ==
  /\ At(p, "look")
  /\ todo[p] = {}
  /\ sent' = body
  /\ fate' = "open"
  /\ older' = older + (IF fate = "open" THEN 1 ELSE 0)
  /\ older' <= MaxOlder
  /\ mutex' = Nobody
  /\ Goto(p, "idle")
  /\ UNCHANGED <<metricVars, callVars, todo, body>>

\* It returns an error: SetAllMetricsInvalid.
SendFails(p) ==
  /\ At(p, "look")
  /\ todo[p] = {}
  /\ todo' = [todo EXCEPT ![p] = Metrics]
  /\ Goto(p, "invalidate")
  /\ UNCHANGED <<metricVars, callVars, mutex, body, sendVars>>

-----------------------------------------------------------------------------
(* The library, and SetAllMetricsInvalid.                                  *)

Arrive ==
  /\ \/ fate = "open" /\ fate' = "arrived" /\ UNCHANGED older
     \/ older > 0 /\ older' = older - 1 /\ UNCHANGED fate
  /\ UNCHANGED <<metricVars, step, callVars, todo, mutex, body, sent>>

\* Mutant: no failure callback is registered.
SendFailureIgnored ==
  /\ LateFailures
  /\ At(Library, "idle")
  /\ \/ fate = "open" /\ fate' = "failed" /\ UNCHANGED older
     \/ older > 0 /\ older' = older - 1 /\ UNCHANGED fate
  /\ UNCHANGED <<metricVars, step, callVars, todo, mutex, body, sent>>

\* OnSendFailure and OnSendFailure5, for the latest or an older message
OnSendFailure ==
  /\ LateFailures
  /\ At(Library, "idle")
  /\ \/ fate = "open" /\ fate' = "failed" /\ UNCHANGED older
     \/ older > 0 /\ older' = older - 1 /\ UNCHANGED fate
  /\ todo' = [todo EXCEPT ![Library] = Metrics]
  /\ Goto(Library, "invalidate")
  /\ UNCHANGED <<metricVars, callVars, mutex, body, sent>>

\* Mutant: Valid(false) announces a change even if there is none.
InvalidateAlways(t) ==
  /\ At(t, "invalidate")
  /\ \E m \in todo[t] :
       /\ todo' = [todo EXCEPT ![t] = @ \ {m}]
       /\ metric' = [metric EXCEPT ![t] = m]
       /\ to' = [to EXCEPT ![t] = FALSE]
       /\ Goto(t, "set")
  /\ UNCHANGED <<metricVars, changed, mutex, body, sendVars>>

\* Valid(false) of one metric compares; SetValid and MarkValid do the rest.
Invalidate(t) ==
  /\ At(t, "invalidate")
  /\ \E m \in todo[t] :
       /\ todo' = [todo EXCEPT ![t] = @ \ {m}]
       /\ metric' = [metric EXCEPT ![t] = m]
       /\ to' = [to EXCEPT ![t] = FALSE]
       /\ IF valid[m] THEN Goto(t, "set") ELSE UNCHANGED step
  /\ UNCHANGED <<metricVars, changed, mutex, body, sendVars>>

\* Mutant: SetAllMetricsInvalid returns before the end of metric_list_.
SomeInvalid(t) ==
  /\ At(t, "invalidate")
  /\ Goto(t, "idle")
  /\ mutex' = IF t \in Publishers THEN Nobody ELSE mutex
  /\ UNCHANGED <<metricVars, callVars, todo, body, sendVars>>

AllInvalid(t) ==
  /\ At(t, "invalidate")
  /\ todo[t] = {}
  /\ Goto(t, "idle")
  /\ mutex' = IF t \in Publishers THEN Nobody ELSE mutex
  /\ UNCHANGED <<metricVars, callVars, todo, body, sendVars>>

-----------------------------------------------------------------------------

Begin(w) ==
  \E m \in Metrics :
    \/ \E v \in Values : Value(w, m, v)
    \/ \E b \in BOOLEAN : Valid(w, m, b) \/ (m \in Nullable /\ Null(w, m, b))

Continue(w) == SetNull(w) \/ CheckValid(w) \/ SetValid(w) \/ MarkValid(w) \/ MarkChanged(w)

Invalidating(t) == Invalidate(t) \/ SetValid(t) \/ MarkValid(t) \/ AllInvalid(t)

Publish(p) ==
  \/ ResetUpdated(p) \/ OnPublish(p)
  \/ LookNull(p) \/ LookValid(p) \/ ReadValue(p)
  \/ Send(p) \/ SendFails(p) \/ Invalidating(p)

Next ==
  \/ \E w \in Writers : Begin(w) \/ Continue(w)
  \/ \E p \in Publishers : PublishTopics(p) \/ Publish(p)
  \/ OnSendFailure \/ Arrive \/ Invalidating(Library)

Spec == Init /\ [][Next]_vars

(* Calls that were begun are finished, and the worker publishes again and  *)
(* again; nobody else need call anything.  Messages are answered.          *)
Fairness ==
  /\ \A w \in Writers : WF_vars(Continue(w))
  /\ \A p \in Publishers : WF_vars(Publish(p))
  /\ WF_vars(PublishTopics(Worker))
  /\ WF_vars(Arrive) /\ WF_vars(Invalidating(Library))

FairSpec == Spec /\ Fairness

-----------------------------------------------------------------------------
(* Properties.                                                             *)

Publishing(p) == step[p] \in {"look", "lookValid", "read"}

\* No call on m is under way, nor a publication or a failure's clean-up.
Settled(m) ==
  /\ mutex = Nobody
  /\ At(Library, "idle")
  /\ \A w \in Writers : At(w, "idle") \/ metric[w] # m

\* No update is lost between the flags of a metric and the lock of its
\* publishers: once the calls on it are over, a valid metric that is not
\* marked as updated is at the broker as it is, in a message that has not
\* failed (Metric::Value, PublishTopics, OnPublish, OnSendFailure).
NoUpdateLost ==
  \A m \in Metrics :
    Settled(m) /\ valid[m] /\ ~updated[m] => sent[m] = Shown(m) /\ fate # "failed"

\* t is bound to set updated_ of m.
WillMark(t, m) ==
  /\ metric[t] = m
  /\ \/ step[t] \in {"set", "mark", "changed"}
     \/ At(t, "check") /\ changed[t]

\* What p has read of m, or is going to read, is what the metric shows.
WillSend(p, m) ==
  \/ At(p, "reset")
  \/ Publishing(p) /\ m \in todo[p]
  \/ step[p] \in {"lookValid", "read"} /\ metric[p] = m /\ ~null[m]
  \/ Publishing(p) /\ m \notin todo[p] /\ body[m] = Shown(m)
                   /\ (At(p, "look") \/ metric[p] # m)

\* t is in SetAllMetricsInvalid, and has not come to m.
WillInvalidate(t, m) ==
  t \notin Writers /\ step[t] \in {"set", "mark", "invalidate"} /\ m \in todo[t]

HasSent(m) ==
  /\ \A p \in Publishers : ~Publishing(p)
  /\ sent[m] = Shown(m)
  /\ fate # "failed"

Covered(m) ==
  \/ ~valid[m]
  \/ updated[m]
  \/ \E t \in Threads : WillMark(t, m) \/ WillInvalidate(t, m)
  \/ \E p \in Publishers : WillSend(p, m)
  \/ HasSent(m)

\* topic_mutex_ admits one publisher.
OnePublisher == \A p \in Publishers : ~At(p, "idle") => mutex = p

\* The steps each kind of thread takes.
StepsOK ==
  /\ \A w \in Writers : step[w] \in {"idle", "check", "set", "mark", "null", "changed"}
  /\ \A p \in Publishers : step[p] \notin {"check", "null", "changed"}
  /\ step[Library] \in {"idle", "set", "mark", "invalidate"}

\* The inductive invariant behind NoUpdateLost.
PublishInv == TypeOK /\ OnePublisher /\ StepsOK /\ \A m \in Metrics : Covered(m)

\* A value that stays reaches the broker.
EventuallySent ==
  \A m \in Metrics : \A v \in Values :
    <>[](valid[m] /\ ~null[m] /\ value[m] = v) => <>[](sent[m] = v /\ fate # "failed")

\* Once nobody changes a metric, publishing comes to rest, however many
\* messages fail: a failure invalidates, and is announced once.
Quiesces ==
  <>[](\A w \in Writers : At(w, "idle")) =>
    <>[](\A p \in Publishers : At(p, "idle"))
=============================================================================
