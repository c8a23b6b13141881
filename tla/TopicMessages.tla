--------------------------- MODULE TopicMessages ---------------------------
(***************************************************************************)
(* What an arriving message does to its topic: MqttNode::Message and       *)
(* MqttTopic::OnMessage, run by one thread of the library, message after   *)
(* message, while an application thread creates and removes metrics of the *)
(* topic.  Topic::topic_mutex_ protects the list of metrics in each call   *)
(* of GetMetric, CreateMetric and RemoveMetric, but not from one call to   *)
(* the next; the members of a metric are read and written one by one.      *)
(*                                                                         *)
(* metric_list_ keeps its metrics in the order of their creation, so it is *)
(* a set of objects that are numbered as they are made.                    *)
(***************************************************************************)
EXTENDS ObjectList, Sequences, MetricText

CONSTANTS
  Names,        \* names of metrics
  TopicName,    \* the name of the topic
  UserTypes,    \* data types the application gives its metrics
  Messages,     \* what may arrive
  MaxMessages,  \* bound on the messages that arrive
  MaxMetrics    \* bound on the metrics that are made

ASSUME NamesAssumption == TopicName \in Names
ASSUME BoundsAssumption == MaxMessages \in Nat /\ MaxMetrics \in Nat

String == [form : Form, datum : Int]
Member == [key : Names, kind : JsonKind, text : String]
Type == {"Unknown", "Int8", "UInt8", "Int64", "UInt64", "Double", "Boolean", "String"}

(* A message: what its content type tells, if it has one; a text message's *)
(* text, and the type and value_ of the metric it was made from; whether a  *)
(* JSON message is well-formed, and its members, ordered by key.           *)
Format == {"text", "json", "other"}
Message == [format : Format \cup {"none"}, text : String, type : Type, origin : String,
            parses : BOOLEAN, members : Seq(Member)]

ASSUME MessagesAssumption == Messages \subseteq Message

\* A JSON object has one member of a key.
ASSUME KeysAssumption ==
  \A m \in Messages : \A i, j \in DOMAIN m.members :
    m.members[i].key = m.members[j].key => i = j

\* A number or a Boolean was written by the application of another node, and
\* its text is what MakeTextBody makes of it, or that of an invalid metric.
ASSUME TextsAssumption ==
  \A m \in Messages : m.type \in Integral \cup {"Boolean"} =>
    /\ Fits(m.type, m.origin.datum) /\ m.origin = Stored(m.type, m.origin.datum)
    /\ m.text \in {Star, TextOf(m.type, m.origin)}
ASSUME UserTypesAssumption == UserTypes \subseteq Type \ {"Unknown"}

VARIABLES
  log,          \* the messages that arrived, each with the format it was taken
                \* for; body_ and content_type_ are those of the last one
  list,         \* metric_list_
  made,         \* objects made so far
  name, type, value, valid, null, stamp,   \* of each metric
  step,         \* where the library's thread is
  metric,       \* `metric' in the handlers
  rest,         \* members HandleJsonBody has yet to visit
  user          \* what the application did, see UserInit

listVars == <<list, made, name>>
metricVars == <<type, value, valid, null, stamp>>
vars == <<log, listVars, metricVars, step, metric, rest, user>>

NoMetric == 0
Objects == 1..MaxMetrics

Step == {"idle", "find", "front", "default", "default type", "text stamp",
         "text value", "text valid", "parse", "member", "create", "look type",
         "set type", "value", "invalid", "valid", "json value", "json stamp",
         "callback"}

LogOK ==
  /\ log \in Seq(Message) /\ Len(log) <= MaxMessages
  /\ \A i \in 1..Len(log) : log[i].format \in Format

ListOK ==
  /\ made \in 0..MaxMetrics
  /\ list \subseteq 1..made
  /\ name \in [Objects -> Names]

MetricsOK ==
  /\ type \in [Objects -> Type]
  /\ value \in [Objects -> String]
  /\ valid \in [Objects -> BOOLEAN]
  /\ null \in [Objects -> BOOLEAN]
  /\ stamp \in [Objects -> 0..MaxMessages]

HandlerOK ==
  /\ step \in Step
  /\ metric \in Objects \cup {NoMetric}
  /\ rest \in Seq(Member)

UserOK ==
  user \in [untyped : Objects \cup {NoMetric}, made : SUBSET Objects, late : BOOLEAN]

MessagesTypeOK == LogOK /\ ListOK /\ MetricsOK /\ HandlerOK /\ UserOK

(* The application's metric that has no type yet; history: the metrics it  *)
(* made, and whether it did so or removed one after a message had come.    *)
UserInit == [untyped |-> NoMetric, made |-> {}, late |-> FALSE]

Init ==
  /\ log = <<>>
  /\ list = {}
  /\ made = 0
  /\ name = [o \in Objects |-> TopicName]
  /\ type = [o \in Objects |-> "Unknown"]
  /\ value = [o \in Objects |-> Empty]
  /\ valid = [o \in Objects |-> FALSE]
  /\ null = [o \in Objects |-> FALSE]
  /\ stamp = [o \in Objects |-> 0]
  /\ step = "idle"
  /\ metric = NoMetric
  /\ rest = <<>>
  /\ user = UserInit

-----------------------------------------------------------------------------
(* The list of metrics.                                                    *)

Named(n) == {o \in list : name[o] = n}

\* Topic::GetMetric
GetMetric(n) == IF Named(n) = {} THEN NoMetric ELSE First(Named(n))

\* Mutant: CreateMetric does not look for a metric of that name.
AddMetric(n, o) ==
  /\ made < MaxMetrics
  /\ o = made + 1
  /\ made' = o
  /\ list' = list \cup {o}
  /\ name' = [name EXCEPT ![o] = n]

\* Topic::CreateMetric returns o, an old metric of that name or a new one.
CreateMetric(n, o) ==
  \/ /\ Named(n) # {}
     /\ o = First(Named(n))
     /\ UNCHANGED listVars
  \/ /\ Named(n) = {}
     /\ made < MaxMetrics
     /\ o = made + 1
     /\ made' = o
     /\ list' = list \cup {o}
     /\ name' = [name EXCEPT ![o] = n]

-----------------------------------------------------------------------------
(* The application.                                                        *)

\* A message came: from now on the handlers and the application race.
Started == log # <<>>

UserCreates(n) ==
  /\ user.untyped = NoMetric
  /\ \E o \in Objects :
       /\ CreateMetric(n, o)
       /\ user' = [untyped |-> o, made |-> user.made \cup {o}, late |-> user.late \/ Started]
  /\ UNCHANGED <<log, metricVars, step, metric, rest>>

UserSetsType(t) ==
  /\ user.untyped # NoMetric
  /\ type' = [type EXCEPT ![user.untyped] = t]
  /\ user' = [user EXCEPT !.untyped = NoMetric, !.late = @ \/ Started]
  /\ UNCHANGED <<log, listVars, value, valid, null, stamp, step, metric, rest>>

\* Topic::RemoveMetric.  HandleTextBody tests the list and takes its first
\* element without the mutex.  That no metric is removed between is assumed,
\* and that one appended meanwhile leaves the first one where it is.
UserRemoves(n) ==
  /\ user.untyped = NoMetric
  /\ step # "front"
  /\ Named(n) # {}
  /\ list' = list \ Named(n)
  /\ user' = [user EXCEPT !.late = @ \/ Started]
  /\ UNCHANGED <<log, made, name, metricVars, step, metric, rest>>

-----------------------------------------------------------------------------
(* MqttNode::Message.                                                      *)

Current == log[Len(log)]

Goto(from, to) == step = from /\ step' = to

\* content_type_
ContentType == IF log = <<>> THEN "text" ELSE Current.format

\* Body, timestamp and content type are saved; a message without content
\* type keeps the last one.  OnMessage handles text and JSON.
Arrives(m) ==
  /\ Len(log) < MaxMessages
  /\ step = "idle"
  /\ LET format == IF m.format = "none" THEN ContentType ELSE m.format
     IN /\ log' = Append(log, [m EXCEPT !.format = format])
        /\ step' = IF format = "text" THEN "find"
                   ELSE IF format = "json" THEN "parse" ELSE "callback"
  /\ metric' = NoMetric
  /\ UNCHANGED <<listVars, metricVars, rest, user>>

\* Topic::OnMessage calls the application's function; then Message returns.
Callback ==
  /\ Goto("callback", "idle")
  /\ UNCHANGED <<log, listVars, metricVars, metric, rest, user>>

-----------------------------------------------------------------------------
(* MqttTopic::HandleTextBody.                                              *)

\* Mutant: only the metric with the name of the topic is looked for.
FindNamed ==
  /\ step = "find"
  /\ metric' = GetMetric(TopicName)
  /\ step' = IF metric' # NoMetric THEN "text stamp" ELSE "default"
  /\ UNCHANGED <<log, listVars, metricVars, rest, user>>

\* GetMetric(Name()), and is metric_list_ empty?
Find ==
  /\ step = "find"
  /\ metric' = GetMetric(TopicName)
  /\ step' = IF metric' # NoMetric THEN "text stamp"
             ELSE IF list # {} THEN "front" ELSE "default"
  /\ UNCHANGED <<log, listVars, metricVars, rest, user>>

Front ==
  /\ Goto("front", "text stamp")
  /\ metric' = First(list)
  /\ UNCHANGED <<log, listVars, metricVars, rest, user>>

Default ==
  /\ Goto("default", "default type")
  /\ \E o \in Objects : CreateMetric(TopicName, o) /\ metric' = o
  /\ UNCHANGED <<log, metricVars, rest, user>>

DefaultType ==
  /\ Goto("default type", "text stamp")
  /\ type' = [type EXCEPT ![metric] = "String"]
  /\ UNCHANGED <<log, listVars, value, valid, null, stamp, metric, rest, user>>

TextStamp ==
  /\ Goto("text stamp", "text value")
  /\ stamp' = [stamp EXCEPT ![metric] = Len(log)]
  /\ UNCHANGED <<log, listVars, type, value, valid, null, metric, rest, user>>

\* Mutant: Metric::Value sets valid_ before value_.
TextValueLate ==
  \/ /\ Goto("text value", "text valid")
     /\ valid' = [valid EXCEPT ![metric] = TRUE]
     /\ UNCHANGED <<log, listVars, type, value, null, stamp, metric, rest, user>>
  \/ /\ Goto("text valid", "callback")
     /\ value' = [value EXCEPT ![metric] = Current.text]
     /\ UNCHANGED <<log, listVars, type, valid, null, stamp, metric, rest, user>>

\* Metric::Value(string): the value under the metric's mutex...
TextValue ==
  /\ Goto("text value", "text valid")
  /\ value' = [value EXCEPT ![metric] = Current.text]
  /\ UNCHANGED <<log, listVars, type, valid, null, stamp, metric, rest, user>>

\* ... then Valid(true).
TextValid ==
  /\ Goto("text valid", "callback")
  /\ valid' = [valid EXCEPT ![metric] = TRUE]
  /\ UNCHANGED <<log, listVars, type, value, null, stamp, metric, rest, user>>

-----------------------------------------------------------------------------
(* MqttTopic::HandleJsonBody.                                              *)

\* json::parse throws, or gives the members.
Parse ==
  /\ Goto("parse", IF Current.parses THEN "member" ELSE "callback")
  /\ rest' = IF Current.parses THEN Current.members ELSE <<>>
  /\ UNCHANGED <<log, listVars, metricVars, metric, user>>

EndMembers ==
  /\ rest = <<>>
  /\ Goto("member", "callback")
  /\ UNCHANGED <<log, listVars, metricVars, metric, rest, user>>

\* The next member: GetMetric(key)
NextMember ==
  /\ rest # <<>>
  /\ metric' = GetMetric(Head(rest).key)
  /\ Goto("member", IF metric' = NoMetric THEN "create" ELSE "look type")
  /\ UNCHANGED <<log, listVars, metricVars, rest, user>>

CreateMember ==
  /\ Goto("create", "look type")
  /\ \E o \in Objects : CreateMetric(Head(rest).key, o) /\ metric' = o
  /\ UNCHANGED <<log, metricVars, rest, user>>

\* Mutant: the type of a metric that has one is overwritten.
LookKind ==
  /\ Goto("look type", IF Head(rest).kind \in DOMAIN TypeOfKind THEN "set type" ELSE "value")
  /\ UNCHANGED <<log, listVars, metricVars, metric, rest, user>>

\* Is the type unknown, and the member's kind one that tells it?
LookType ==
  /\ Goto("look type",
          IF type[metric] = "Unknown" /\ Head(rest).kind \in DOMAIN TypeOfKind
          THEN "set type" ELSE "value")
  /\ UNCHANGED <<log, listVars, metricVars, metric, rest, user>>

SetType ==
  /\ Goto("set type", "value")
  /\ type' = [type EXCEPT ![metric] = TypeOfKind[Head(rest).kind]]
  /\ UNCHANGED <<log, listVars, value, valid, null, stamp, metric, rest, user>>

\* Null(true) or Null(false)
SetNull ==
  /\ Goto("value", IF Head(rest).kind = "null" THEN "invalid" ELSE "valid")
  /\ null' = [null EXCEPT ![metric] = Head(rest).kind = "null"]
  /\ UNCHANGED <<log, listVars, type, value, valid, stamp, metric, rest, user>>

Invalid ==
  /\ Goto("invalid", "json stamp")
  /\ valid' = [valid EXCEPT ![metric] = FALSE]
  /\ UNCHANGED <<log, listVars, type, value, null, stamp, metric, rest, user>>

Valid ==
  /\ Goto("valid", "json value")
  /\ valid' = [valid EXCEPT ![metric] = TRUE]
  /\ UNCHANGED <<log, listVars, type, value, null, stamp, metric, rest, user>>

\* Metric::Value(string); the Valid(true) in it changes nothing any more.
JsonValue ==
  /\ Goto("json value", "json stamp")
  /\ Head(rest).kind = "string"
  /\ value' = [value EXCEPT ![metric] = Head(rest).text]
  /\ UNCHANGED <<log, listVars, type, valid, null, stamp, metric, rest, user>>

\* value.get<std::string>() throws, and the loop is left.
NotAString ==
  /\ Goto("json value", "callback")
  /\ Head(rest).kind # "string"
  /\ rest' = <<>>
  /\ UNCHANGED <<log, listVars, metricVars, metric, user>>

\* Mutant: only the first member is handled.
FirstOnly ==
  /\ Goto("json stamp", "member")
  /\ stamp' = [stamp EXCEPT ![metric] = Len(log)]
  /\ rest' = <<>>
  /\ UNCHANGED <<log, listVars, type, value, valid, null, metric, user>>

\* Mutant: the timestamp is that of the message to come.
StampAhead ==
  /\ Goto("json stamp", "member")
  /\ stamp' = [stamp EXCEPT ![metric] = Len(log) + 1]
  /\ rest' = Tail(rest)
  /\ UNCHANGED <<log, listVars, type, value, valid, null, metric, user>>

\* Timestamp(); the next member
JsonStamp ==
  /\ Goto("json stamp", "member")
  /\ stamp' = [stamp EXCEPT ![metric] = Len(log)]
  /\ rest' = Tail(rest)
  /\ UNCHANGED <<log, listVars, type, value, valid, null, metric, user>>

-----------------------------------------------------------------------------

HandleTextBody ==
  \/ Find \/ Front \/ Default \/ DefaultType \/ TextStamp \/ TextValue \/ TextValid

HandleJsonBody ==
  \/ Parse \/ EndMembers \/ NextMember \/ CreateMember \/ LookType \/ SetType
  \/ SetNull \/ Invalid \/ Valid \/ JsonValue \/ NotAString \/ JsonStamp

User ==
  \/ \E n \in Names : UserCreates(n) \/ UserRemoves(n)
  \/ \E t \in UserTypes : UserSetsType(t)

Next ==
  \/ \E m \in Messages : Arrives(m)
  \/ HandleTextBody \/ HandleJsonBody \/ Callback
  \/ User

Spec == Init /\ [][Next]_vars

-----------------------------------------------------------------------------
(* Properties.                                                             *)

Taken(f) == \A i \in 1..Len(log) : log[i].format = f

\* At most one metric of a name is in the list, though HandleJsonBody and
\* HandleTextBody look for a metric in one call and create it in another,
\* and the application may create it in between.
OneMetricPerName == \A o, p \in list : name[o] = name[p] => o = p

\* A reader of a text topic that finds valid_ set never reads a value_ that
\* no message brought, whichever step of HandleTextBody it reads between.
GoodHasValue ==
  Taken("text") =>
    \A o \in Objects : valid[o] => \E i \in 1..Len(log) : value[o] = log[i].text

\* Is o in the hands of a handler?
Handled(o) == o = metric /\ step \notin {"idle", "callback"}

\* Has a member of a kind at which HandleJsonBody throws?
Throws(m) ==
  m.format = "json" /\ m.parses
  /\ \E i \in DOMAIN m.members : m.members[i].kind \notin {"null", "string"}

\* The texts message m has for a metric called n
TextsFor(m, n) ==
  IF m.format = "text" THEN {m.text}
  ELSE {m.members[i].text : i \in {j \in DOMAIN m.members :
                                     m.members[j].key = n /\ m.members[j].kind = "string"}}

\* A metric that is GOOD (valid_) and not being handled shows the content
\* of the message its timestamp tells, however messages of all formats and
\* the application's calls follow each other.  Messages at which
\* HandleJsonBody throws break this and are excluded.
GoodIsMessage ==
  (\A i \in 1..Len(log) : ~Throws(log[i])) =>
    \A o \in Objects :
      valid[o] /\ ~Handled(o) =>
        stamp[o] > 0 /\ value[o] \in TextsFor(log[stamp[o]], name[o])

\* When OnMessage calls the application, the message has been applied: a
\* text to one metric, every member of an object to the metric it names.
MessageApplied ==
  step = "callback" =>
    /\ ContentType = "text" =>
         stamp[metric] = Len(log) /\ valid[metric] /\ value[metric] = Current.text
    /\ ContentType = "json" /\ Current.parses /\ ~Throws(Current) =>
         \A i \in DOMAIN Current.members :
           \E o \in 1..made :
             /\ name[o] = Current.members[i].key
             /\ stamp[o] = Len(log)
             /\ null[o] = (Current.members[i].kind = "null")
             /\ valid[o] = (Current.members[i].kind = "string")

\* "If the end-user added this metric, then assume that the body relates to
\* it.  If no metric exists, create a default one" (HandleTextBody): if the
\* application is done with the list before the first message comes, texts
\* never add a metric to its own, and at most one to none.
NoSecondMetric ==
  Taken("text") /\ ~user.late =>
    \/ list \subseteq user.made
    \/ list \cap user.made = {} /\ \A o, p \in list : o = p

\* Likewise its metrics keep the types the application gave them.
TypeKept ==
  [][~user'.late =>
       \A o \in user.made \ {user.untyped} : type'[o] = type[o]]_vars

\* A number or a Boolean that one node published as text reads at another
\* as what it was, through "1", "true" and back, and through eight bits.
ReadsBack ==
  \A o \in Objects :
    valid[o] /\ ~Handled(o) /\ stamp[o] > 0 =>
      LET m == log[stamp[o]]
      IN m.format = "text" /\ m.text # Star /\ m.type \in Integral \cup {"Boolean"} =>
           Read(m.type, value[o]) = m.origin.datum

-----------------------------------------------------------------------------
(* A claim of the repository that the code does not meet.                  *)

\* "the string should be treated a JSON list of metric name and value list.
\* If a metric isn't found, then it have to be created" (HandleJsonBody).
EveryMemberTreated ==
  step = "callback" /\ ContentType = "json" =>
    /\ Current.parses
    /\ \A i \in DOMAIN Current.members :
         \E o \in 1..made : name[o] = Current.members[i].key /\ stamp[o] = Len(log)
=============================================================================
