------------------------ MODULE TopicMessagesProofs ------------------------
(***************************************************************************)
(* The safety of the arriving messages, for any set of messages, of names  *)
(* of metrics, and bounds.                                                 *)
(*                                                                         *)
(* MessagesInv is inductive.  HandlerInv says what holds between two steps *)
(* of a handler: which message it handles, that its metric was made, that  *)
(* the members to come are the message's.  The later parts add what a      *)
(* metric shows while a handler is at it, what the application made, and   *)
(* which members of a message were applied; SafeInv is all of it.          *)
(***************************************************************************)
EXTENDS TopicMessages, ListProofs

USE NamesAssumption, BoundsAssumption, MessagesAssumption, UserTypesAssumption

TextStep ==
  {"find", "front", "default", "default type", "text stamp", "text value", "text valid"}

AtMember ==
  {"create", "look type", "set type", "value", "invalid", "valid", "json value", "json stamp"}

JsonStep == AtMember \cup {"member"}

\* Steps at which a handler works at its metric
Holding ==
  {"default type", "text stamp", "text value", "text valid"} \cup (AtMember \ {"create"})

HandlerInv ==
  /\ step # "idle" => log # <<>>
  /\ step \in TextStep => Current.format = "text"
  /\ step \in JsonStep \cup {"parse"} => Current.format = "json"
  /\ step = "front" => list # {}
  /\ step \in Holding => metric \in 1..made
  /\ step \in AtMember => rest # <<>>
  /\ step = "set type" => Head(rest).kind \in DOMAIN TypeOfKind

MessagesInv == MessagesTypeOK /\ HandlerInv

-----------------------------------------------------------------------------
(* Helpers.                                                                *)

LEMMA TypeOfKindType == \A k \in DOMAIN TypeOfKind : TypeOfKind[k] \in Type
BY DEF TypeOfKind, Type

LEMMA HeadType ==
  ASSUME rest \in Seq(Member), rest # <<>>
  PROVE  /\ Head(rest) \in Member /\ Tail(rest) \in Seq(Member)
         /\ Head(rest).key \in Names /\ Head(rest).text \in String
         /\ Head(rest) = rest[1] /\ 1 \in DOMAIN rest
<1>1. 1 \in DOMAIN rest /\ Head(rest) = rest[1] /\ Tail(rest) \in Seq(Member)
  OBVIOUS
<1>2. Head(rest) \in Member
  BY <1>1
<1>3. QED
  BY <1>1, <1>2 DEF Member

\* What GetMetric finds is in the list.
LEMMA GetMetricType ==
  ASSUME ListOK, NEW n \in Names
  PROVE  /\ GetMetric(n) \in Objects \cup {NoMetric}
         /\ GetMetric(n) # NoMetric =>
              GetMetric(n) \in 1..made /\ GetMetric(n) \in Named(n)
         /\ Named(n) # {} => GetMetric(n) # NoMetric /\ GetMetric(n) = First(Named(n))
<1>1. Named(n) \in SUBSET Nat /\ Named(n) \subseteq 1..made /\ 1..made \subseteq Objects
  <2>1. list \in SUBSET Nat /\ list \subseteq 1..made /\ 1..made \subseteq Objects
    BY DEF ListOK, Objects
  <2>2. QED
    BY <2>1 DEF Named
<1>2. CASE Named(n) = {}
  BY <1>2 DEF GetMetric
<1>3. CASE Named(n) # {}
  <2>1. GetMetric(n) \in Named(n)
    BY <1>1, <1>3, FirstInList DEF GetMetric
  <2>2. GetMetric(n) # NoMetric /\ GetMetric(n) = First(Named(n))
    BY <1>1, <1>3, <2>1 DEF GetMetric, NoMetric
  <2>3. QED
    BY <1>1, <2>1, <2>2
<1>4. QED
  BY <1>2, <1>3

\* So is the first metric.
LEMMA FrontType ==
  ASSUME ListOK, list # {}
  PROVE  First(list) \in list /\ First(list) \in 1..made /\ First(list) \in Objects
<1>1. list \in SUBSET Nat /\ list \subseteq 1..made /\ 1..made \subseteq Objects
  BY DEF ListOK, Objects
<1>2. QED
  BY <1>1, FirstInList

\* CreateMetric returns a metric of that name in the list, and at most appends
\* one that was never used before, if there was none of that name.
LEMMA CreateMetricType ==
  ASSUME ListOK, NEW n \in Names, NEW o, CreateMetric(n, o)
  PROVE  /\ ListOK'
         /\ o \in 1..made' /\ o \in Objects /\ name'[o] = n
         /\ 1..made \subseteq 1..made'
         /\ \A p \in 1..made : name'[p] = name[p]
         /\ \A p \in Objects : p # o => name'[p] = name[p]
         /\ list' = list \cup {o}
         /\ o \in 1..made => UNCHANGED listVars
         /\ o \notin list => Named(n) = {} /\ o \notin 1..made
<1>1. CASE /\ Named(n) # {}
           /\ o = First(Named(n))
           /\ UNCHANGED listVars
  <2>1. o \in Named(n) /\ o \in 1..made /\ o \in Objects
    BY <1>1, GetMetricType DEF NoMetric, Objects
  <2>2. name[o] = n /\ o \in list
    BY <2>1 DEF Named
  <2>3. QED
    BY <1>1, <2>1, <2>2 DEF ListOK, listVars
<1>2. CASE /\ Named(n) = {}
           /\ made < MaxMetrics
           /\ o = made + 1
           /\ made' = o
           /\ list' = list \cup {o}
           /\ name' = [name EXCEPT ![o] = n]
  <2>1. o \in Objects /\ o \in 1..made' /\ 1..made \subseteq 1..made' /\ o \notin 1..made
        /\ made' \in 0..MaxMetrics
    BY <1>2 DEF ListOK, Objects
  <2>2. name' \in [Objects -> Names] /\ name'[o] = n
        /\ \A p \in Objects : p # o => name'[p] = name[p]
    BY <1>2, <2>1 DEF ListOK
  <2>3. list' \subseteq 1..made' /\ 1..made \subseteq Objects
    BY <1>2, <2>1 DEF ListOK, Objects
  <2>4. QED
    BY <1>2, <2>1, <2>2, <2>3 DEF ListOK
<1>3. QED
  BY <1>1, <1>2 DEF CreateMetric

-----------------------------------------------------------------------------
(* Types.                                                                  *)

\* The log holds the messages that arrived, each with its format.
LEMMA LogStep ==
  ASSUME MessagesInv, [Next]_vars
  PROVE  LogOK'
<1>1. CASE \E m \in Messages : Arrives(m)
  <2>1. PICK m \in Messages : Arrives(m)
    BY <1>1
  <2>2. m \in Message /\ log \in Seq(Message)
    BY DEF MessagesInv, MessagesTypeOK, LogOK
  <2>3. m.format # "none" => m.format \in Format
    BY <2>2 DEF Message
  <2>4. ContentType \in Format
    BY DEF ContentType, Current, Format, MessagesInv, MessagesTypeOK, LogOK
  <2>5. PICK f \in Format : log' = Append(log, [m EXCEPT !.format = f])
    BY <2>1, <2>3, <2>4 DEF Arrives
  <2>6. [m EXCEPT !.format = f] \in Message /\ [m EXCEPT !.format = f].format = f
    BY <2>2, <2>5 DEF Message
  <2>7. log' \in Seq(Message) /\ Len(log') = Len(log) + 1 /\ Len(log) < MaxMessages
    BY <2>1, <2>2, <2>5, <2>6 DEF Arrives
  <2>8. \A i \in 1..Len(log') :
          log'[i] = IF i = Len(log) + 1 THEN [m EXCEPT !.format = f] ELSE log[i]
    BY <2>2, <2>5, <2>6
  <2>9. QED
    BY <2>5, <2>6, <2>7, <2>8 DEF MessagesInv, MessagesTypeOK, LogOK
<1>2. CASE (\E n \in Names : UserCreates(n))
          \/ (\E n \in Names : UserRemoves(n))
          \/ (\E t \in UserTypes : UserSetsType(t)) \/ Callback
  BY <1>2 DEF UserCreates, UserRemoves, UserSetsType, Callback, Goto,
     MessagesInv, MessagesTypeOK, LogOK, listVars, metricVars
<1>3. CASE Find \/ Front \/ Default \/ DefaultType \/ TextStamp \/ TextValue
          \/ TextValid
  BY <1>3 DEF Find, Front, Goto, Default, DefaultType, TextStamp,
     TextValue, TextValid, MessagesInv, MessagesTypeOK, LogOK, listVars,
     metricVars
<1>4. CASE Parse \/ EndMembers \/ NextMember \/ CreateMember \/ LookType
          \/ SetType \/ SetNull \/ Invalid \/ Valid \/ JsonValue \/ NotAString
          \/ JsonStamp
  BY <1>4 DEF Parse, Goto, EndMembers, NextMember, CreateMember, LookType,
     SetType, SetNull, Invalid, Valid, JsonValue, NotAString, JsonStamp,
     MessagesInv, MessagesTypeOK, LogOK, listVars, metricVars
<1>5. CASE UNCHANGED vars
  BY <1>5 DEF vars, MessagesInv, MessagesTypeOK, LogOK, listVars,
     metricVars
<1>6. QED
  BY <1>1, <1>2, <1>3, <1>4, <1>5 DEF Next, User, HandleTextBody,
     HandleJsonBody

\* Metrics are numbered as they are made.
LEMMA ListStep ==
  ASSUME MessagesInv, [Next]_vars
  PROVE  ListOK'
<1>1. CASE \E n \in Names : UserCreates(n)
  <2>1. PICK n \in Names, o \in Objects : CreateMetric(n, o)
    BY <1>1 DEF UserCreates
  <2>2. QED
    BY <2>1, CreateMetricType DEF MessagesInv, MessagesTypeOK
<1>2. CASE \E n \in Names : UserRemoves(n)
  BY <1>2 DEF UserRemoves, MessagesInv, MessagesTypeOK, ListOK, Named,
     listVars, metricVars
<1>3. CASE Default
  <2>1. PICK o \in Objects : CreateMetric(TopicName, o)
    BY <1>3 DEF Default
  <2>2. QED
    BY <2>1, CreateMetricType DEF MessagesInv, MessagesTypeOK
<1>4. CASE CreateMember
  <2>1. PICK o \in Objects : CreateMetric(Head(rest).key, o)
    BY <1>4 DEF CreateMember
  <2>2. Head(rest).key \in Names
    BY <1>4, HeadType
       DEF CreateMember, Goto, MessagesInv, MessagesTypeOK, HandlerOK,
           HandlerInv, AtMember
  <2>3. QED
    BY <2>1, <2>2, CreateMetricType DEF MessagesInv, MessagesTypeOK
<1>5. CASE (\E t \in UserTypes : UserSetsType(t))
          \/ (\E m \in Messages : Arrives(m)) \/ Callback
  BY <1>5 DEF UserSetsType, Arrives, Callback, Goto, MessagesInv,
     MessagesTypeOK, ListOK, listVars, metricVars
<1>6. CASE Find \/ Front \/ DefaultType \/ TextStamp \/ TextValue \/ TextValid
  BY <1>6 DEF Find, Front, Goto, DefaultType, TextStamp, TextValue,
     TextValid, MessagesInv, MessagesTypeOK, ListOK, listVars, metricVars
<1>7. CASE Parse \/ EndMembers \/ NextMember \/ LookType \/ SetType \/ SetNull
          \/ Invalid \/ Valid \/ JsonValue \/ NotAString \/ JsonStamp
  BY <1>7 DEF Parse, Goto, EndMembers, NextMember, LookType, SetType,
     SetNull, Invalid, Valid, JsonValue, NotAString, JsonStamp, MessagesInv,
     MessagesTypeOK, ListOK, listVars, metricVars
<1>8. CASE UNCHANGED vars
  BY <1>8 DEF vars, MessagesInv, MessagesTypeOK, ListOK, listVars,
     metricVars
<1>9. QED
  BY <1>1, <1>2, <1>3, <1>4, <1>5, <1>6, <1>7, <1>8 DEF Next, User,
     HandleTextBody, HandleJsonBody

LEMMA CurrentType ==
  ASSUME LogOK, log # <<>>
  PROVE  Len(log) \in 1..Len(log) /\ Current \in Message /\ Current.text \in String
         /\ Current.members \in Seq(Member)
<1>1. Len(log) \in 1..Len(log) /\ Current \in Message
  BY DEF LogOK, Current
<1>2. QED
  BY <1>1 DEF Message

\* The members of a metric keep their types.
LEMMA MetricsStep ==
  ASSUME MessagesInv, [Next]_vars
  PROVE  MetricsOK'
<1>1. CASE \E t \in UserTypes : UserSetsType(t)
  BY <1>1 DEF UserSetsType, MessagesInv, MessagesTypeOK, MetricsOK,
     listVars, metricVars
<1>2. CASE DefaultType
  BY <1>2 DEF DefaultType, Goto, MessagesInv, MessagesTypeOK, MetricsOK,
     Type, listVars, metricVars
<1>3. CASE TextStamp
  <2>1. Len(log) \in 0..MaxMessages
    BY DEF MessagesInv, MessagesTypeOK, LogOK
  <2>2. QED
    BY <1>3, <2>1 DEF TextStamp, Goto, MessagesInv, MessagesTypeOK, MetricsOK
<1>4. CASE TextValue
  BY <1>4, CurrentType
     DEF TextValue, HandlerInv, TextStep, Goto, MessagesInv, MessagesTypeOK,
     MetricsOK, listVars, metricVars
<1>5. CASE TextValid
  BY <1>5 DEF TextValid, Goto, MessagesInv, MessagesTypeOK, MetricsOK,
     listVars, metricVars
<1>6. CASE SetType
  BY <1>6, TypeOfKindType DEF SetType, Goto, MessagesInv, MessagesTypeOK,
     MetricsOK, HandlerInv, listVars, metricVars
<1>7. CASE SetNull
  BY <1>7 DEF SetNull, Goto, MessagesInv, MessagesTypeOK, MetricsOK,
     listVars, metricVars
<1>8. CASE Invalid
  BY <1>8 DEF Invalid, Goto, MessagesInv, MessagesTypeOK, MetricsOK,
     listVars, metricVars
<1>9. CASE Valid
  BY <1>9 DEF Valid, Goto, MessagesInv, MessagesTypeOK, MetricsOK,
     listVars, metricVars
<1>10. CASE JsonValue
  BY <1>10, HeadType DEF JsonValue, Goto, MessagesInv, MessagesTypeOK,
     MetricsOK, HandlerInv, AtMember, HandlerOK, listVars, metricVars
<1>11. CASE JsonStamp
  <2>1. Len(log) \in 0..MaxMessages
    BY DEF MessagesInv, MessagesTypeOK, LogOK
  <2>2. QED
    BY <1>11, <2>1 DEF JsonStamp, Goto, MessagesInv, MessagesTypeOK, MetricsOK
<1>12. CASE (\E n \in Names : UserCreates(n))
          \/ (\E n \in Names : UserRemoves(n))
          \/ (\E m \in Messages : Arrives(m)) \/ Callback
  BY <1>12 DEF UserCreates, UserRemoves, Arrives, Callback, Goto,
     MessagesInv, MessagesTypeOK, MetricsOK, listVars, metricVars
<1>13. CASE Find \/ Front \/ Default
  BY <1>13 DEF Find, Front, Goto, Default, MessagesInv, MessagesTypeOK,
     MetricsOK, listVars, metricVars
<1>14. CASE Parse \/ EndMembers \/ NextMember \/ CreateMember \/ LookType
          \/ NotAString
  BY <1>14 DEF Parse, Goto, EndMembers, NextMember, CreateMember, LookType,
     NotAString, MessagesInv, MessagesTypeOK, MetricsOK, listVars, metricVars
<1>15. CASE UNCHANGED vars
  BY <1>15 DEF vars, MessagesInv, MessagesTypeOK, MetricsOK, listVars,
     metricVars
<1>16. QED
  BY <1>1, <1>2, <1>3, <1>4, <1>5, <1>6, <1>7, <1>8, <1>9, <1>10, <1>11,
     <1>12, <1>13, <1>14, <1>15 DEF Next, User, HandleTextBody, HandleJsonBody

\* The handlers keep to their steps, metrics and members.
LEMMA HandlerStep ==
  ASSUME MessagesInv, [Next]_vars
  PROVE  HandlerOK'
<1>1. CASE \E m \in Messages : Arrives(m)
  BY <1>1 DEF Arrives, MessagesInv, MessagesTypeOK, HandlerOK, Step,
     listVars, metricVars
<1>2. CASE Callback
  BY <1>2 DEF Callback, Goto, MessagesInv, MessagesTypeOK, HandlerOK, Step,
     listVars, metricVars
<1>3. CASE Find
  BY <1>3, GetMetricType DEF Find, MessagesInv, MessagesTypeOK, HandlerOK,
     Step, listVars, metricVars
<1>4. CASE Front
  BY <1>4, FrontType DEF Front, Goto, MessagesInv, MessagesTypeOK,
     HandlerOK, Step, HandlerInv, listVars, metricVars
<1>5. CASE Default
  BY <1>5 DEF Default, Goto, MessagesInv, MessagesTypeOK, HandlerOK, Step,
     listVars, metricVars
<1>6. CASE DefaultType
  BY <1>6 DEF DefaultType, Goto, MessagesInv, MessagesTypeOK, HandlerOK,
     Step, listVars, metricVars
<1>7. CASE TextStamp
  BY <1>7 DEF TextStamp, Goto, MessagesInv, MessagesTypeOK, HandlerOK,
     Step, listVars, metricVars
<1>8. CASE TextValue
  BY <1>8 DEF TextValue, Goto, MessagesInv, MessagesTypeOK, HandlerOK,
     Step, listVars, metricVars
<1>9. CASE TextValid
  BY <1>9 DEF TextValid, Goto, MessagesInv, MessagesTypeOK, HandlerOK,
     Step, listVars, metricVars
<1>10. CASE Parse
  BY <1>10, CurrentType DEF Parse, Goto, MessagesInv, MessagesTypeOK,
     HandlerOK, Step, HandlerInv, listVars, metricVars
<1>11. CASE EndMembers
  BY <1>11 DEF EndMembers, Goto, MessagesInv, MessagesTypeOK, HandlerOK,
     Step, listVars, metricVars
<1>12. CASE NextMember
  BY <1>12, HeadType, GetMetricType DEF NextMember, Goto, MessagesInv,
     MessagesTypeOK, HandlerOK, Step, listVars, metricVars
<1>13. CASE CreateMember
  BY <1>13 DEF CreateMember, Goto, MessagesInv, MessagesTypeOK, HandlerOK,
     Step, listVars, metricVars
<1>14. CASE LookType
  BY <1>14 DEF LookType, Goto, MessagesInv, MessagesTypeOK, HandlerOK,
     Step, listVars, metricVars
<1>15. CASE SetType
  BY <1>15 DEF SetType, Goto, MessagesInv, MessagesTypeOK, HandlerOK, Step,
     listVars, metricVars
<1>16. CASE SetNull
  BY <1>16 DEF SetNull, Goto, MessagesInv, MessagesTypeOK, HandlerOK, Step,
     listVars, metricVars
<1>17. CASE Invalid
  BY <1>17 DEF Invalid, Goto, MessagesInv, MessagesTypeOK, HandlerOK, Step,
     listVars, metricVars
<1>18. CASE Valid
  BY <1>18 DEF Valid, Goto, MessagesInv, MessagesTypeOK, HandlerOK, Step,
     listVars, metricVars
<1>19. CASE JsonValue
  BY <1>19 DEF JsonValue, Goto, MessagesInv, MessagesTypeOK, HandlerOK,
     Step, listVars, metricVars
<1>20. CASE NotAString
  <2>1. <<>> \in Seq(Member)
    OBVIOUS
  <2>2. QED
    BY <1>20, <2>1
       DEF NotAString, Goto, MessagesInv, MessagesTypeOK, HandlerOK, Step
<1>21. CASE JsonStamp
  BY <1>21, HeadType DEF JsonStamp, Goto, MessagesInv, MessagesTypeOK,
     HandlerOK, Step, HandlerInv, AtMember, listVars, metricVars
<1>22. CASE (\E n \in Names : UserCreates(n))
          \/ (\E n \in Names : UserRemoves(n))
          \/ (\E t \in UserTypes : UserSetsType(t))
  BY <1>22 DEF UserCreates, UserRemoves, UserSetsType, MessagesInv,
     MessagesTypeOK, HandlerOK, Step, listVars, metricVars
<1>23. CASE UNCHANGED vars
  BY <1>23 DEF vars, MessagesInv, MessagesTypeOK, HandlerOK, Step,
     listVars, metricVars
<1>24. QED
  BY <1>1, <1>2, <1>3, <1>4, <1>5, <1>6, <1>7, <1>8, <1>9, <1>10, <1>11,
     <1>12, <1>13, <1>14, <1>15, <1>16, <1>17, <1>18, <1>19, <1>20, <1>21,
     <1>22, <1>23 DEF Next, User, HandleTextBody, HandleJsonBody

\* The application's history.
LEMMA UserStep ==
  ASSUME MessagesInv, [Next]_vars
  PROVE  UserOK'
<1>1. CASE \E n \in Names : UserCreates(n)
  BY <1>1 DEF UserCreates, MessagesInv, MessagesTypeOK, UserOK, listVars,
     metricVars
<1>2. CASE \E n \in Names : UserRemoves(n)
  BY <1>2 DEF UserRemoves, MessagesInv, MessagesTypeOK, UserOK, listVars,
     metricVars
<1>3. CASE \E t \in UserTypes : UserSetsType(t)
  BY <1>3 DEF UserSetsType, MessagesInv, MessagesTypeOK, UserOK, listVars,
     metricVars
<1>4. CASE (\E m \in Messages : Arrives(m)) \/ Callback
  BY <1>4 DEF Arrives, Callback, Goto, MessagesInv, MessagesTypeOK, UserOK,
     listVars, metricVars
<1>5. CASE Find \/ Front \/ Default \/ DefaultType \/ TextStamp \/ TextValue
          \/ TextValid
  BY <1>5 DEF Find, Front, Goto, Default, DefaultType, TextStamp,
     TextValue, TextValid, MessagesInv, MessagesTypeOK, UserOK, listVars,
     metricVars
<1>6. CASE Parse \/ EndMembers \/ NextMember \/ CreateMember \/ LookType
          \/ SetType \/ SetNull \/ Invalid \/ Valid \/ JsonValue \/ NotAString
          \/ JsonStamp
  BY <1>6 DEF Parse, Goto, EndMembers, NextMember, CreateMember, LookType,
     SetType, SetNull, Invalid, Valid, JsonValue, NotAString, JsonStamp,
     MessagesInv, MessagesTypeOK, UserOK, listVars, metricVars
<1>7. CASE UNCHANGED vars
  BY <1>7 DEF vars, MessagesInv, MessagesTypeOK, UserOK, listVars,
     metricVars
<1>8. QED
  BY <1>1, <1>2, <1>3, <1>4, <1>5, <1>6, <1>7 DEF Next, User,
     HandleTextBody, HandleJsonBody

\* Every step keeps the types.
LEMMA TypeStep == ASSUME MessagesInv, [Next]_vars PROVE MessagesTypeOK'
BY LogStep, ListStep, MetricsStep, HandlerStep, UserStep DEF MessagesTypeOK

-----------------------------------------------------------------------------
(* The handlers.                                                           *)

\* Between two steps of a handler.
LEMMA HandlerInvStep ==
  ASSUME MessagesInv, MessagesTypeOK', [Next]_vars
  PROVE  HandlerInv'
<1>1. CASE \E n \in Names : UserCreates(n)
  <2>1. PICK n \in Names, o \in Objects :
          /\ CreateMetric(n, o)
          /\ user' = [untyped |-> o, made |-> user.made \cup {o},
                       late |-> user.late \/ Started]
          /\ UNCHANGED <<log, metricVars, step, metric, rest>>
    BY <1>1 DEF UserCreates
  <2>2. n \in Names /\ ListOK
    BY DEF MessagesInv, MessagesTypeOK
  <2>3. QED
    BY <1>1, <2>1, <2>2, CreateMetricType DEF UserCreates, MessagesInv,
       HandlerInv, TextStep, AtMember, JsonStep, Holding, Current
<1>2. CASE \E n \in Names : UserRemoves(n)
  BY <1>2 DEF UserRemoves, MessagesInv, HandlerInv, TextStep, AtMember,
     JsonStep, Holding, Current, listVars, metricVars
<1>3. CASE \E m \in Messages : Arrives(m)
  <2>1. PICK m \in Messages : Arrives(m)
    BY <1>3
  <2>2. PICK f : /\ log' = Append(log, [m EXCEPT !.format = f])
                 /\ step = "idle" /\ metric' = NoMetric
                 /\ step' = IF f = "text" THEN "find"
                            ELSE IF f = "json" THEN "parse" ELSE "callback"
    BY <2>1 DEF Arrives
  <2>3. m \in Message /\ log \in Seq(Message) /\ log' \in Seq(Message)
    BY DEF MessagesInv, MessagesTypeOK, LogOK
  <2>4. Len(log') = Len(log) + 1 /\ log'[Len(log')] = [m EXCEPT !.format = f]
        /\ log' # <<>>
    BY <2>2, <2>3
  <2>5. [m EXCEPT !.format = f].format = f
    BY <2>3 DEF Message
  <2>6. log' # <<>> /\ Current'.format = f
    BY <2>4, <2>5 DEF Current
  <2>7. QED
    BY <2>2, <2>6 DEF HandlerInv, TextStep, AtMember, JsonStep, Holding
<1>4. CASE Find
  BY <1>4, GetMetricType DEF Find, MessagesInv, HandlerInv, TextStep,
     AtMember, JsonStep, Holding, Current, MessagesTypeOK, NoMetric, listVars,
     metricVars
<1>5. CASE Front
  BY <1>5, FrontType DEF Front, Goto, MessagesInv, HandlerInv, TextStep,
     AtMember, JsonStep, Holding, Current, MessagesTypeOK, listVars,
     metricVars
<1>6. CASE Default
  <2>1. PICK o \in Objects :
          /\ CreateMetric(TopicName, o)
          /\ metric' = o
          /\ UNCHANGED <<log, metricVars, rest, user>>
    BY <1>6 DEF Default
  <2>2. TopicName \in Names /\ ListOK
    BY DEF MessagesInv, MessagesTypeOK
  <2>3. QED
    BY <1>6, <2>1, <2>2, CreateMetricType DEF Default, Goto, MessagesInv,
       HandlerInv, TextStep, AtMember, JsonStep, Holding, Current
<1>7. CASE Parse
  BY <1>7 DEF Parse, Goto, MessagesInv, HandlerInv, TextStep, AtMember,
     JsonStep, Holding, Current, listVars, metricVars
<1>8. CASE EndMembers
  BY <1>8 DEF EndMembers, Goto, MessagesInv, HandlerInv, TextStep,
     AtMember, JsonStep, Holding, Current, listVars, metricVars
<1>9. CASE NextMember
  BY <1>9, HeadType, GetMetricType DEF NextMember, Goto, MessagesInv,
     HandlerInv, TextStep, AtMember, JsonStep, Holding, Current,
     MessagesTypeOK, HandlerOK, NoMetric, listVars, metricVars
<1>10. CASE CreateMember
  <2>1. PICK o \in Objects :
          /\ CreateMetric(Head(rest).key, o)
          /\ metric' = o
          /\ UNCHANGED <<log, metricVars, rest, user>>
    BY <1>10 DEF CreateMember
  <2>2. Head(rest).key \in Names /\ ListOK
    BY <1>10, HeadType
       DEF CreateMember, Goto, MessagesInv, MessagesTypeOK, HandlerOK,
           HandlerInv, AtMember
  <2>3. QED
    BY <1>10, <2>1, <2>2, CreateMetricType DEF CreateMember, Goto, MessagesInv,
       HandlerInv, TextStep, AtMember, JsonStep, Holding, Current
<1>11. CASE LookType
  BY <1>11 DEF LookType, Goto, MessagesInv, HandlerInv, TextStep, AtMember,
     JsonStep, Holding, Current, listVars, metricVars
<1>12. CASE (\E t \in UserTypes : UserSetsType(t)) \/ Callback
  BY <1>12 DEF UserSetsType, Callback, Goto, MessagesInv, HandlerInv,
     TextStep, AtMember, JsonStep, Holding, Current, listVars, metricVars
<1>13. CASE DefaultType \/ TextStamp \/ TextValue \/ TextValid
  BY <1>13 DEF DefaultType, Goto, TextStamp, TextValue, TextValid,
     MessagesInv, HandlerInv, TextStep, AtMember, JsonStep, Holding, Current,
     listVars, metricVars
<1>14. CASE SetType \/ SetNull \/ Invalid \/ Valid \/ JsonValue \/ NotAString
          \/ JsonStamp
  BY <1>14 DEF SetType, Goto, SetNull, Invalid, Valid, JsonValue,
     NotAString, JsonStamp, MessagesInv, HandlerInv, TextStep, AtMember,
     JsonStep, Holding, Current, listVars, metricVars
<1>15. CASE UNCHANGED vars
  BY <1>15 DEF vars, MessagesInv, HandlerInv, TextStep, AtMember, JsonStep,
     Holding, Current, listVars, metricVars
<1>16. QED
  BY <1>1, <1>2, <1>3, <1>4, <1>5, <1>6, <1>7, <1>8, <1>9, <1>10, <1>11,
     <1>12, <1>13, <1>14, <1>15 DEF Next, User, HandleTextBody, HandleJsonBody

-----------------------------------------------------------------------------
(* One metric of a name.                                                   *)

\* A metric is appended only when no other has its name.
LEMMA OneStep ==
  ASSUME MessagesInv, OneMetricPerName, [Next]_vars
  PROVE  OneMetricPerName'
<1>1. CASE \E n \in Names : UserCreates(n)
  <2>1. PICK n \in Names, o \in Objects :
          /\ CreateMetric(n, o)
          /\ user' = [untyped |-> o, made |-> user.made \cup {o},
                       late |-> user.late \/ Started]
          /\ UNCHANGED <<log, metricVars, step, metric, rest>>
    BY <1>1 DEF UserCreates
  <2>2. n \in Names /\ ListOK
    BY DEF MessagesInv, MessagesTypeOK
  <2>3. list \subseteq 1..made /\ list \subseteq Objects
    BY DEF MessagesInv, MessagesTypeOK, ListOK, Objects
  <2>4. CASE o \in list
    <3>1. UNCHANGED listVars
      BY <2>1, <2>2, <2>3, <2>4, CreateMetricType
    <3>2. QED
      BY <3>1 DEF OneMetricPerName, listVars
  <2>5. CASE o \notin list
    <3>1. Named(n) = {} /\ list' = list \cup {o} /\ name'[o] = n
          /\ \A p \in list : name'[p] = name[p]
      BY <2>1, <2>2, <2>3, <2>5, CreateMetricType
    <3>2. \A p \in list : name[p] # n
      BY <3>1 DEF Named
    <3>3. QED
      BY <3>1, <3>2 DEF OneMetricPerName
  <2>6. QED
    BY <2>4, <2>5
<1>2. CASE \E n \in Names : UserRemoves(n)
  BY <1>2 DEF UserRemoves, OneMetricPerName, listVars, metricVars
<1>3. CASE Default
  <2>1. PICK o \in Objects :
          /\ CreateMetric(TopicName, o)
          /\ metric' = o
          /\ UNCHANGED <<log, metricVars, rest, user>>
    BY <1>3 DEF Default
  <2>2. TopicName \in Names /\ ListOK
    BY DEF MessagesInv, MessagesTypeOK
  <2>3. list \subseteq 1..made /\ list \subseteq Objects
    BY DEF MessagesInv, MessagesTypeOK, ListOK, Objects
  <2>4. CASE o \in list
    <3>1. UNCHANGED listVars
      BY <2>1, <2>2, <2>3, <2>4, CreateMetricType
    <3>2. QED
      BY <3>1 DEF OneMetricPerName, listVars
  <2>5. CASE o \notin list
    <3>1. Named(TopicName) = {} /\ list' = list \cup {o} /\ name'[o] = TopicName
          /\ \A p \in list : name'[p] = name[p]
      BY <2>1, <2>2, <2>3, <2>5, CreateMetricType
    <3>2. \A p \in list : name[p] # TopicName
      BY <3>1 DEF Named
    <3>3. QED
      BY <3>1, <3>2 DEF OneMetricPerName
  <2>6. QED
    BY <2>4, <2>5
<1>4. CASE CreateMember
  <2>1. PICK o \in Objects :
          /\ CreateMetric(Head(rest).key, o)
          /\ metric' = o
          /\ UNCHANGED <<log, metricVars, rest, user>>
    BY <1>4 DEF CreateMember
  <2>2. Head(rest).key \in Names /\ ListOK
    BY <1>4, HeadType
       DEF CreateMember, Goto, MessagesInv, MessagesTypeOK, HandlerOK,
           HandlerInv, AtMember
  <2>3. list \subseteq 1..made /\ list \subseteq Objects
    BY DEF MessagesInv, MessagesTypeOK, ListOK, Objects
  <2>4. CASE o \in list
    <3>1. UNCHANGED listVars
      BY <2>1, <2>2, <2>3, <2>4, CreateMetricType
    <3>2. QED
      BY <3>1 DEF OneMetricPerName, listVars
  <2>5. CASE o \notin list
    <3>1. Named(Head(rest).key) = {} /\ list' = list \cup {o} /\ name'[o] = Head(rest).key
          /\ \A p \in list : name'[p] = name[p]
      BY <2>1, <2>2, <2>3, <2>5, CreateMetricType
    <3>2. \A p \in list : name[p] # Head(rest).key
      BY <3>1 DEF Named
    <3>3. QED
      BY <3>1, <3>2 DEF OneMetricPerName
  <2>6. QED
    BY <2>4, <2>5
<1>5. CASE (\E t \in UserTypes : UserSetsType(t))
          \/ (\E m \in Messages : Arrives(m)) \/ Callback
  BY <1>5 DEF UserSetsType, Arrives, Callback, Goto, OneMetricPerName,
     listVars, metricVars
<1>6. CASE Find \/ Front \/ DefaultType \/ TextStamp \/ TextValue \/ TextValid
  BY <1>6 DEF Find, Front, Goto, DefaultType, TextStamp, TextValue,
     TextValid, OneMetricPerName, listVars, metricVars
<1>7. CASE Parse \/ EndMembers \/ NextMember \/ LookType \/ SetType \/ SetNull
          \/ Invalid \/ Valid \/ JsonValue \/ NotAString \/ JsonStamp
  BY <1>7 DEF Parse, Goto, EndMembers, NextMember, LookType, SetType,
     SetNull, Invalid, Valid, JsonValue, NotAString, JsonStamp,
     OneMetricPerName, listVars, metricVars
<1>8. CASE UNCHANGED vars
  BY <1>8 DEF vars, OneMetricPerName, listVars, metricVars
<1>9. QED
  BY <1>1, <1>2, <1>3, <1>4, <1>5, <1>6, <1>7, <1>8 DEF Next, User,
     HandleTextBody, HandleJsonBody

-----------------------------------------------------------------------------
(* What a valid metric shows.                                              *)

\* The members to come are the message's.
RestInv ==
  step \in JsonStep =>
    /\ Current.parses
    /\ \A j \in DOMAIN rest : \E i \in DOMAIN Current.members : rest[j] = Current.members[i]

\* What the handler has done so far with its metric
ShownInv ==
  /\ step \in AtMember \ {"create"} => name[metric] = Head(rest).key
  /\ step \in {"valid", "json value"} => Head(rest).kind # "null"
  /\ step = "json stamp" /\ valid[metric] =>
       Head(rest).kind = "string" /\ value[metric] = Head(rest).text
  /\ step \in {"text value", "text valid"} => stamp[metric] = Len(log)
  /\ step = "text valid" => value[metric] = Current.text
  /\ \A o \in Objects : valid[o] => o \in 1..made

LEMMA HeldType ==
  ASSUME MessagesInv
  PROVE  step \in Holding => metric \in Objects /\ metric \in 1..made
<1>1. 1..made \subseteq Objects
  BY DEF MessagesInv, MessagesTypeOK, ListOK, Objects
<1>2. QED
  BY <1>1 DEF MessagesInv, HandlerInv

LEMMA TailMembers ==
  ASSUME rest \in Seq(Member), rest # <<>>
  PROVE  \A j \in DOMAIN Tail(rest) : j + 1 \in DOMAIN rest /\ Tail(rest)[j] = rest[j + 1]
<1>1. Len(rest) \in Nat \ {0} /\ DOMAIN rest = 1..Len(rest)
  OBVIOUS
<1>2. Len(Tail(rest)) = Len(rest) - 1 /\ DOMAIN Tail(rest) = 1..(Len(rest) - 1)
  BY <1>1
<1>3. \A j \in 1..(Len(rest) - 1) : Tail(rest)[j] = rest[j + 1]
  BY <1>1
<1>4. QED
  BY <1>1, <1>2, <1>3

\* The handler visits the members of its message.
LEMMA RestStep ==
  ASSUME MessagesInv, RestInv, [Next]_vars
  PROVE  RestInv'
<1>1. CASE \E m \in Messages : Arrives(m)
  BY <1>1 DEF Arrives, RestInv, JsonStep, AtMember, Current, listVars,
     metricVars
<1>2. CASE Parse
  BY <1>2 DEF Parse, Goto, RestInv, JsonStep, AtMember, Current, listVars,
     metricVars
<1>3. CASE EndMembers
  BY <1>3 DEF EndMembers, Goto, RestInv, JsonStep, AtMember, Current,
     listVars, metricVars
<1>4. CASE NextMember
  BY <1>4 DEF NextMember, Goto, RestInv, JsonStep, AtMember, Current,
     listVars, metricVars
<1>5. CASE NotAString
  BY <1>5 DEF NotAString, Goto, RestInv, JsonStep, AtMember, Current,
     listVars, metricVars
<1>6. CASE JsonStamp
  <2>1. rest \in Seq(Member) /\ rest # <<>> /\ rest' = Tail(rest) /\ step = "json stamp"
    BY <1>6
       DEF JsonStamp, Goto, MessagesInv, MessagesTypeOK, HandlerOK, HandlerInv,
           AtMember
  <2>2. \A j \in DOMAIN rest' : j + 1 \in DOMAIN rest /\ rest'[j] = rest[j + 1]
    BY <2>1, TailMembers
  <2>3. UNCHANGED log
    BY <1>6 DEF JsonStamp
  <2>4. \A j \in DOMAIN rest : \E i \in DOMAIN Current.members : rest[j] = Current.members[i]
    BY <2>1 DEF RestInv, JsonStep, AtMember
  <2>5. Current.parses /\ Current' = Current
    BY <2>1, <2>3 DEF RestInv, JsonStep, AtMember, Current
  <2>6. QED
    BY <2>2, <2>4, <2>5 DEF RestInv
<1>7. CASE (\E n \in Names : UserCreates(n))
          \/ (\E n \in Names : UserRemoves(n))
          \/ (\E t \in UserTypes : UserSetsType(t)) \/ Callback
  BY <1>7 DEF UserCreates, UserRemoves, UserSetsType, Callback, Goto,
     RestInv, JsonStep, AtMember, Current, listVars, metricVars
<1>8. CASE Find \/ Front \/ Default \/ DefaultType \/ TextStamp \/ TextValue
          \/ TextValid
  BY <1>8 DEF Find, Front, Goto, Default, DefaultType, TextStamp,
     TextValue, TextValid, RestInv, JsonStep, AtMember, Current, listVars,
     metricVars
<1>9. CASE CreateMember \/ LookType \/ SetType \/ SetNull \/ Invalid \/ Valid
          \/ JsonValue
  BY <1>9 DEF CreateMember, Goto, LookType, SetType, SetNull, Invalid,
     Valid, JsonValue, RestInv, JsonStep, AtMember, Current, listVars,
     metricVars
<1>10. CASE UNCHANGED vars
  BY <1>10 DEF vars, RestInv, JsonStep, AtMember, Current, listVars,
     metricVars
<1>11. QED
  BY <1>1, <1>2, <1>3, <1>4, <1>5, <1>6, <1>7, <1>8, <1>9, <1>10 DEF Next,
     User, HandleTextBody, HandleJsonBody

\* A handler gives its metric what its message says.
LEMMA ShownStep ==
  ASSUME MessagesInv, ShownInv, [Next]_vars
  PROVE  ShownInv'
<1>1. CASE \E n \in Names : UserCreates(n)
  <2>1. PICK n \in Names, o \in Objects :
          /\ CreateMetric(n, o)
          /\ user' = [untyped |-> o, made |-> user.made \cup {o},
                       late |-> user.late \/ Started]
          /\ UNCHANGED <<log, metricVars, step, metric, rest>>
    BY <1>1 DEF UserCreates
  <2>2. n \in Names /\ ListOK
    BY DEF MessagesInv, MessagesTypeOK
  <2>3. /\ o \in Objects /\ 1..made \subseteq 1..made' /\ name'[o] = n
        /\ \A p \in 1..made : name'[p] = name[p]
    BY <2>1, <2>2, CreateMetricType
  <2>4. QED
    BY <1>1, <2>1, <2>3, HeldType DEF UserCreates, ShownInv, AtMember,
       Holding, Current, metricVars
<1>2. CASE \E m \in Messages : Arrives(m)
  BY <1>2 DEF Arrives, ShownInv, AtMember, Holding, Current, listVars,
     metricVars
<1>3. CASE Find
  BY <1>3 DEF Find, ShownInv, AtMember, Holding, Current, listVars,
     metricVars
<1>4. CASE Front
  BY <1>4 DEF Front, Goto, ShownInv, AtMember, Holding, Current, listVars,
     metricVars
<1>5. CASE Default
  <2>1. PICK o \in Objects :
          /\ CreateMetric(TopicName, o)
          /\ metric' = o
          /\ UNCHANGED <<log, metricVars, rest, user>>
    BY <1>5 DEF Default
  <2>2. TopicName \in Names /\ ListOK
    BY DEF MessagesInv, MessagesTypeOK
  <2>3. /\ o \in Objects /\ 1..made \subseteq 1..made' /\ name'[o] = TopicName
        /\ \A p \in 1..made : name'[p] = name[p]
    BY <2>1, <2>2, CreateMetricType
  <2>4. QED
    BY <1>5, <2>1, <2>3, HeldType DEF Default, Goto, ShownInv, AtMember,
       Holding, Current, metricVars
<1>6. CASE DefaultType
  BY <1>6 DEF DefaultType, Goto, ShownInv, AtMember, Holding, Current,
     listVars, metricVars
<1>7. CASE TextStamp
  BY <1>7, HeldType DEF TextStamp, Goto, ShownInv, AtMember, Holding,
     Current, MessagesInv, MessagesTypeOK, MetricsOK, listVars, metricVars
<1>8. CASE TextValue
  BY <1>8, HeldType DEF TextValue, Goto, ShownInv, AtMember, Holding,
     Current, MessagesInv, MessagesTypeOK, MetricsOK, listVars, metricVars
<1>9. CASE TextValid
  BY <1>9, HeldType DEF TextValid, Goto, ShownInv, AtMember, Holding,
     Current, MessagesInv, MessagesTypeOK, MetricsOK, listVars, metricVars
<1>10. CASE Parse
  BY <1>10 DEF Parse, Goto, ShownInv, AtMember, Holding, Current, listVars,
     metricVars
<1>11. CASE EndMembers
  BY <1>11 DEF EndMembers, Goto, ShownInv, AtMember, Holding, Current,
     listVars, metricVars
<1>12. CASE NextMember
  BY <1>12, HeadType, GetMetricType DEF NextMember, Goto, ShownInv,
     AtMember, Holding, Current, MessagesInv, MessagesTypeOK, HandlerOK,
     NoMetric, Named, listVars, metricVars
<1>13. CASE CreateMember
  <2>1. PICK o \in Objects :
          /\ CreateMetric(Head(rest).key, o)
          /\ metric' = o
          /\ UNCHANGED <<log, metricVars, rest, user>>
    BY <1>13 DEF CreateMember
  <2>2. Head(rest).key \in Names /\ ListOK
    BY <1>13, HeadType
       DEF CreateMember, Goto, MessagesInv, MessagesTypeOK, HandlerOK,
           HandlerInv, AtMember
  <2>3. /\ o \in Objects /\ 1..made \subseteq 1..made' /\ name'[o] = Head(rest).key
        /\ \A p \in 1..made : name'[p] = name[p]
    BY <2>1, <2>2, CreateMetricType
  <2>4. QED
    BY <1>13, <2>1, <2>3, HeldType DEF CreateMember, Goto, ShownInv, AtMember,
       Holding, Current, metricVars
<1>14. CASE LookType
  BY <1>14 DEF LookType, Goto, ShownInv, AtMember, Holding, Current,
     listVars, metricVars
<1>15. CASE SetType
  BY <1>15 DEF SetType, Goto, ShownInv, AtMember, Holding, Current,
     listVars, metricVars
<1>16. CASE SetNull
  BY <1>16 DEF SetNull, Goto, ShownInv, AtMember, Holding, Current,
     listVars, metricVars
<1>17. CASE Invalid
  BY <1>17, HeldType DEF Invalid, Goto, ShownInv, AtMember, Holding,
     Current, MessagesInv, MessagesTypeOK, MetricsOK, listVars, metricVars
<1>18. CASE Valid
  BY <1>18, HeldType DEF Valid, Goto, ShownInv, AtMember, Holding, Current,
     MessagesInv, MessagesTypeOK, MetricsOK, listVars, metricVars
<1>19. CASE JsonValue
  BY <1>19, HeldType DEF JsonValue, Goto, ShownInv, AtMember, Holding,
     Current, MessagesInv, MessagesTypeOK, MetricsOK, listVars, metricVars
<1>20. CASE NotAString
  BY <1>20 DEF NotAString, Goto, ShownInv, AtMember, Holding, Current,
     listVars, metricVars
<1>21. CASE JsonStamp
  BY <1>21 DEF JsonStamp, Goto, ShownInv, AtMember, Holding, Current,
     listVars, metricVars
<1>22. CASE (\E n \in Names : UserRemoves(n))
          \/ (\E t \in UserTypes : UserSetsType(t)) \/ Callback
  BY <1>22 DEF UserRemoves, UserSetsType, Callback, Goto, ShownInv,
     AtMember, Holding, Current, listVars, metricVars
<1>23. CASE UNCHANGED vars
  BY <1>23 DEF vars, ShownInv, AtMember, Holding, Current, listVars,
     metricVars
<1>24. QED
  BY <1>1, <1>2, <1>3, <1>4, <1>5, <1>6, <1>7, <1>8, <1>9, <1>10, <1>11,
     <1>12, <1>13, <1>14, <1>15, <1>16, <1>17, <1>18, <1>19, <1>20, <1>21,
     <1>22, <1>23 DEF Next, User, HandleTextBody, HandleJsonBody

\* A metric in its final state for a message shows that message.
IsMessage(o) ==
  stamp[o] \in 1..Len(log) /\ value[o] \in TextsFor(log[stamp[o]], name[o])

NoThrow == \A i \in 1..Len(log) : ~Throws(log[i])

GoodInv ==
  NoThrow =>
    \A o \in Objects : valid[o] /\ ~(o = metric /\ step \in Holding) => IsMessage(o)

\* Of the messages that came before, a new one changes nothing.
LEMMA LogGrows ==
  ASSUME MessagesInv, NEW m \in Messages, Arrives(m)
  PROVE  /\ Len(log') = Len(log) + 1 /\ Len(log) \in Nat
         /\ \A i \in 1..Len(log) : i \in 1..Len(log') /\ log'[i] = log[i]
<1>1. PICK f : log' = Append(log, [m EXCEPT !.format = f])
  BY DEF Arrives
<1>2. log \in Seq(Message) /\ Len(log) \in Nat
  BY DEF MessagesInv, MessagesTypeOK, LogOK
<1>3. QED
  BY <1>1, <1>2

\* A metric that is let go shows the message it was held for.
LEMMA GoodStep ==
  ASSUME MessagesInv, RestInv, ShownInv, GoodInv, [Next]_vars
  PROVE  GoodInv'
<1>1. CASE \E n \in Names : UserCreates(n)
  <2>1. PICK n \in Names, o \in Objects :
          /\ CreateMetric(n, o)
          /\ user' = [untyped |-> o, made |-> user.made \cup {o},
                       late |-> user.late \/ Started]
          /\ UNCHANGED <<log, metricVars, step, metric, rest>>
    BY <1>1 DEF UserCreates
  <2>2. n \in Names /\ ListOK
    BY DEF MessagesInv, MessagesTypeOK
  <2>3. /\ 1..made \subseteq 1..made'
        /\ \A p \in 1..made : name'[p] = name[p]
    BY <2>1, <2>2, CreateMetricType
  <2>4. \A p \in Objects : valid[p] => name'[p] = name[p]
    BY <2>3 DEF ShownInv
  <2>5. \A p \in Objects : valid[p] => (IsMessage(p)' <=> IsMessage(p))
    BY <2>1, <2>4 DEF IsMessage, TextsFor, metricVars
  <2>6. QED
    BY <1>1, <2>1, <2>5 DEF UserCreates, GoodInv, NoThrow, Holding, AtMember,
       metricVars
<1>2. CASE \E m \in Messages : Arrives(m)
  <2>1. PICK m \in Messages : Arrives(m)
    BY <1>2
  <2>2. /\ \A i \in 1..Len(log) : i \in 1..Len(log') /\ log'[i] = log[i]
        /\ UNCHANGED <<valid, stamp, value, name>>
        /\ step = "idle"
    BY <2>1, LogGrows DEF Arrives, listVars, metricVars
  <2>3. NoThrow' => NoThrow
    BY <2>2 DEF NoThrow, Throws
  <2>4. \A o \in Objects : IsMessage(o) => IsMessage(o)'
    BY <2>2 DEF IsMessage, TextsFor
  <2>5. QED
    BY <2>2, <2>3, <2>4 DEF GoodInv, Holding, AtMember
<1>3. CASE Find
  BY <1>3 DEF Find, GoodInv, IsMessage, NoThrow, Holding, AtMember,
     listVars, metricVars
<1>4. CASE Front
  BY <1>4 DEF Front, Goto, GoodInv, IsMessage, NoThrow, Holding, AtMember,
     listVars, metricVars
<1>5. CASE Default
  <2>1. PICK o \in Objects :
          /\ CreateMetric(TopicName, o)
          /\ metric' = o
          /\ UNCHANGED <<log, metricVars, rest, user>>
    BY <1>5 DEF Default
  <2>2. TopicName \in Names /\ ListOK
    BY DEF MessagesInv, MessagesTypeOK
  <2>3. /\ 1..made \subseteq 1..made'
        /\ \A p \in 1..made : name'[p] = name[p]
    BY <2>1, <2>2, CreateMetricType
  <2>4. \A p \in Objects : valid[p] => name'[p] = name[p]
    BY <2>3 DEF ShownInv
  <2>5. \A p \in Objects : valid[p] => (IsMessage(p)' <=> IsMessage(p))
    BY <2>1, <2>4 DEF IsMessage, TextsFor, metricVars
  <2>6. QED
    BY <1>5, <2>1, <2>5 DEF Default, Goto, GoodInv, NoThrow, Holding,
       AtMember, metricVars
<1>6. CASE DefaultType
  BY <1>6, HeldType DEF DefaultType, Goto, GoodInv, IsMessage, NoThrow,
     Holding, AtMember, MessagesInv, MessagesTypeOK, MetricsOK, listVars,
     metricVars
<1>7. CASE TextStamp
  BY <1>7, HeldType DEF TextStamp, Goto, GoodInv, IsMessage, NoThrow,
     Holding, AtMember, MessagesInv, MessagesTypeOK, MetricsOK, listVars,
     metricVars
<1>8. CASE TextValue
  BY <1>8, HeldType DEF TextValue, Goto, GoodInv, IsMessage, NoThrow,
     Holding, AtMember, MessagesInv, MessagesTypeOK, MetricsOK, listVars,
     metricVars
<1>9. CASE TextValid
  <2>1. /\ step = "text valid" /\ metric \in Objects /\ step' = "callback"
        /\ valid' = [valid EXCEPT ![metric] = TRUE]
        /\ UNCHANGED <<log, stamp, value, name, metric>>
    BY <1>9, HeldType DEF TextValid, Goto, Holding, listVars
  <2>2. Len(log) \in 1..Len(log) /\ stamp[metric] = Len(log) /\ value[metric] = Current.text
    BY <2>1, CurrentType DEF ShownInv, MessagesInv, MessagesTypeOK, HandlerInv
  <2>3. Current.format = "text" /\ Current = log[Len(log)]
    BY <2>1 DEF MessagesInv, HandlerInv, TextStep, Current
  <2>4. IsMessage(metric)
    BY <2>2, <2>3 DEF IsMessage, TextsFor
  <2>5. \A o \in Objects : o # metric => valid'[o] = valid[o]
    BY <2>1 DEF MessagesInv, MessagesTypeOK, MetricsOK
  <2>6. \A o \in Objects : IsMessage(o)' <=> IsMessage(o)
    BY <2>1 DEF IsMessage
  <2>7. NoThrow' <=> NoThrow
    BY <2>1 DEF NoThrow
  <2>8. QED
    BY <2>1, <2>4, <2>5, <2>6, <2>7 DEF GoodInv
<1>10. CASE Parse
  BY <1>10 DEF Parse, Goto, GoodInv, IsMessage, NoThrow, Holding, AtMember,
     listVars, metricVars
<1>11. CASE EndMembers
  BY <1>11 DEF EndMembers, Goto, GoodInv, IsMessage, NoThrow, Holding,
     AtMember, listVars, metricVars
<1>12. CASE NextMember
  BY <1>12 DEF NextMember, Goto, GoodInv, IsMessage, NoThrow, Holding,
     AtMember, listVars, metricVars
<1>13. CASE CreateMember
  <2>1. PICK o \in Objects :
          /\ CreateMetric(Head(rest).key, o)
          /\ metric' = o
          /\ UNCHANGED <<log, metricVars, rest, user>>
    BY <1>13 DEF CreateMember
  <2>2. Head(rest).key \in Names /\ ListOK
    BY <1>13, HeadType
       DEF CreateMember, Goto, MessagesInv, MessagesTypeOK, HandlerOK,
           HandlerInv, AtMember
  <2>3. /\ 1..made \subseteq 1..made'
        /\ \A p \in 1..made : name'[p] = name[p]
    BY <2>1, <2>2, CreateMetricType
  <2>4. \A p \in Objects : valid[p] => name'[p] = name[p]
    BY <2>3 DEF ShownInv
  <2>5. \A p \in Objects : valid[p] => (IsMessage(p)' <=> IsMessage(p))
    BY <2>1, <2>4 DEF IsMessage, TextsFor, metricVars
  <2>6. QED
    BY <1>13, <2>1, <2>5 DEF CreateMember, Goto, GoodInv, NoThrow, Holding,
       AtMember, metricVars
<1>14. CASE LookType
  BY <1>14, HeldType DEF LookType, Goto, GoodInv, IsMessage, NoThrow,
     Holding, AtMember, MessagesInv, MessagesTypeOK, MetricsOK, listVars,
     metricVars
<1>15. CASE SetType
  BY <1>15, HeldType DEF SetType, Goto, GoodInv, IsMessage, NoThrow,
     Holding, AtMember, MessagesInv, MessagesTypeOK, MetricsOK, listVars,
     metricVars
<1>16. CASE SetNull
  BY <1>16, HeldType DEF SetNull, Goto, GoodInv, IsMessage, NoThrow,
     Holding, AtMember, MessagesInv, MessagesTypeOK, MetricsOK, listVars,
     metricVars
<1>17. CASE Invalid
  BY <1>17, HeldType DEF Invalid, Goto, GoodInv, IsMessage, NoThrow,
     Holding, AtMember, MessagesInv, MessagesTypeOK, MetricsOK, listVars,
     metricVars
<1>18. CASE Valid
  BY <1>18, HeldType DEF Valid, Goto, GoodInv, IsMessage, NoThrow, Holding,
     AtMember, MessagesInv, MessagesTypeOK, MetricsOK, listVars, metricVars
<1>19. CASE JsonValue
  BY <1>19, HeldType DEF JsonValue, Goto, GoodInv, IsMessage, NoThrow,
     Holding, AtMember, MessagesInv, MessagesTypeOK, MetricsOK, listVars,
     metricVars
<1>20. CASE NotAString
  <2>1. /\ step = "json value" /\ Head(rest).kind # "string" /\ Head(rest).kind # "null"
        /\ log' = log
    BY <1>20 DEF NotAString, Goto, ShownInv
  <2>2. /\ Len(log) \in 1..Len(log) /\ Current = log[Len(log)] /\ rest # <<>>
        /\ Current.format = "json" /\ Current.parses
    BY <2>1, CurrentType
       DEF MessagesInv, MessagesTypeOK, HandlerInv, RestInv, AtMember, JsonStep,
           Current
  <2>3. Head(rest) = rest[1] /\ 1 \in DOMAIN rest
    BY <2>2, HeadType DEF MessagesInv, MessagesTypeOK, HandlerOK
  <2>4. \E i \in DOMAIN Current.members : Head(rest) = Current.members[i]
    BY <2>1, <2>3 DEF RestInv, JsonStep, AtMember
  <2>5. Throws(Current)
    BY <2>1, <2>2, <2>4 DEF Throws
  <2>6. ~NoThrow'
    BY <2>1, <2>2, <2>5 DEF NoThrow
  <2>7. QED
    BY <2>6 DEF GoodInv
<1>21. CASE JsonStamp
  <2>1. /\ step = "json stamp" /\ metric \in Objects
        /\ stamp' = [stamp EXCEPT ![metric] = Len(log)]
        /\ UNCHANGED <<log, valid, value, name, metric>>
    BY <1>21, HeldType DEF JsonStamp, Goto, Holding, AtMember, listVars
  <2>2. /\ Len(log) \in 1..Len(log) /\ Current = log[Len(log)] /\ rest # <<>>
        /\ Current.format = "json"
    BY <2>1, CurrentType
       DEF MessagesInv, MessagesTypeOK, HandlerInv, AtMember, JsonStep, Current
  <2>3. Head(rest) = rest[1] /\ 1 \in DOMAIN rest
    BY <2>2, HeadType DEF MessagesInv, MessagesTypeOK, HandlerOK
  <2>4. PICK i \in DOMAIN Current.members : Head(rest) = Current.members[i]
    BY <2>1, <2>3 DEF RestInv, JsonStep, AtMember
  <2>5. stamp'[metric] = Len(log)
    BY <2>1 DEF MessagesInv, MessagesTypeOK, MetricsOK
  <2>6. \A o \in Objects : o # metric => stamp'[o] = stamp[o]
    BY <2>1 DEF MessagesInv, MessagesTypeOK, MetricsOK
  <2>7. \A o \in Objects : o # metric => (IsMessage(o)' <=> IsMessage(o))
    BY <2>1, <2>6 DEF IsMessage
  <2>8. CASE valid[metric]
    <3>1. /\ Current.members[i].kind = "string" /\ Current.members[i].key = name[metric]
          /\ value[metric] = Current.members[i].text
      BY <2>1, <2>4, <2>8 DEF ShownInv, AtMember
    <3>2. value[metric] \in TextsFor(Current, name[metric])
      BY <2>2, <3>1 DEF TextsFor
    <3>3. IsMessage(metric)'
      BY <2>1, <2>2, <2>5, <3>2 DEF IsMessage
    <3>4. QED
      BY <2>1, <2>7, <3>3 DEF GoodInv, NoThrow, Throws
  <2>9. CASE ~valid[metric]
    BY <2>1, <2>7, <2>9 DEF GoodInv, NoThrow, Throws
  <2>10. QED
    BY <2>8, <2>9
<1>22. CASE (\E n \in Names : UserRemoves(n))
          \/ (\E t \in UserTypes : UserSetsType(t)) \/ Callback
  BY <1>22 DEF UserRemoves, UserSetsType, Callback, Goto, GoodInv,
     IsMessage, NoThrow, Holding, AtMember, listVars, metricVars
<1>23. CASE UNCHANGED vars
  BY <1>23 DEF vars, GoodInv, IsMessage, NoThrow, Holding, AtMember,
     listVars, metricVars
<1>24. QED
  BY <1>1, <1>2, <1>3, <1>4, <1>5, <1>6, <1>7, <1>8, <1>9, <1>10, <1>11,
     <1>12, <1>13, <1>14, <1>15, <1>16, <1>17, <1>18, <1>19, <1>20, <1>21,
     <1>22, <1>23 DEF Next, User, HandleTextBody, HandleJsonBody

\* With texts only no JSON body is handled.
LEMMA OnlyTexts ==
  ASSUME MessagesInv, Taken("text")
  PROVE  step \notin JsonStep \cup {"parse"}
<1>1. SUFFICES ASSUME step \in JsonStep \cup {"parse"} PROVE FALSE
  OBVIOUS
<1>2. Len(log) \in 1..Len(log) /\ Current.format = "json"
  BY <1>1, CurrentType
     DEF MessagesInv, MessagesTypeOK, HandlerInv, JsonStep, AtMember
<1>3. QED
  BY <1>2 DEF Taken, Current

\* A text is stored before its metric is made valid.
LEMMA HasValueStep ==
  ASSUME MessagesInv, ShownInv, GoodHasValue, [Next]_vars
  PROVE  GoodHasValue'
<1>1. CASE \E m \in Messages : Arrives(m)
  <2>1. PICK m \in Messages : Arrives(m)
    BY <1>1
  <2>2. /\ \A i \in 1..Len(log) : i \in 1..Len(log') /\ log'[i] = log[i]
        /\ UNCHANGED <<valid, value>>
    BY <2>1, LogGrows DEF Arrives, metricVars
  <2>3. Taken("text")' => Taken("text")
    BY <2>2 DEF Taken
  <2>4. QED
    BY <2>2, <2>3 DEF GoodHasValue
<1>2. CASE TextValue
  <2>1. /\ value' = [value EXCEPT ![metric] = Current.text]
        /\ UNCHANGED <<log, valid>>
        /\ Len(log) \in 1..Len(log)
    BY <1>2, CurrentType
       DEF TextValue, Goto, MessagesInv, MessagesTypeOK, HandlerInv, TextStep
  <2>2. \A o \in Objects : value'[o] = value[o] \/ value'[o] = log[Len(log)].text
    BY <2>1 DEF MessagesInv, MessagesTypeOK, MetricsOK, Current
  <2>3. QED
    BY <2>1, <2>2 DEF GoodHasValue, Taken
<1>3. CASE TextValid
  <2>1. /\ valid' = [valid EXCEPT ![metric] = TRUE]
        /\ UNCHANGED <<log, value>>
        /\ Len(log) \in 1..Len(log)
        /\ value[metric] = log[Len(log)].text
    BY <1>3, CurrentType
       DEF TextValid, Goto, MessagesInv, MessagesTypeOK, HandlerInv, ShownInv,
           Current
  <2>2. \A o \in Objects : o # metric => valid'[o] = valid[o]
    BY <2>1 DEF MessagesInv, MessagesTypeOK, MetricsOK
  <2>3. QED
    BY <2>1, <2>2 DEF GoodHasValue, Taken
<1>4. CASE SetNull
  BY <1>4, OnlyTexts DEF SetNull, Goto, GoodHasValue, Taken, JsonStep,
     AtMember, listVars, metricVars
<1>5. CASE Invalid
  BY <1>5, OnlyTexts DEF Invalid, Goto, GoodHasValue, Taken, JsonStep,
     AtMember, listVars, metricVars
<1>6. CASE Valid
  BY <1>6, OnlyTexts DEF Valid, Goto, GoodHasValue, Taken, JsonStep,
     AtMember, listVars, metricVars
<1>7. CASE JsonValue
  BY <1>7, OnlyTexts DEF JsonValue, Goto, GoodHasValue, Taken, JsonStep,
     AtMember, listVars, metricVars
<1>8. CASE (\E n \in Names : UserCreates(n))
          \/ (\E n \in Names : UserRemoves(n))
          \/ (\E t \in UserTypes : UserSetsType(t)) \/ Callback
  BY <1>8 DEF UserCreates, UserRemoves, UserSetsType, Callback, Goto,
     GoodHasValue, Taken, listVars, metricVars
<1>9. CASE Find \/ Front \/ Default \/ DefaultType \/ TextStamp
  BY <1>9 DEF Find, Front, Goto, Default, DefaultType, TextStamp,
     GoodHasValue, Taken, listVars, metricVars
<1>10. CASE Parse \/ EndMembers \/ NextMember \/ CreateMember \/ LookType
          \/ SetType \/ NotAString \/ JsonStamp
  BY <1>10 DEF Parse, Goto, EndMembers, NextMember, CreateMember, LookType,
     SetType, NotAString, JsonStamp, GoodHasValue, Taken, listVars, metricVars
<1>11. CASE UNCHANGED vars
  BY <1>11 DEF vars, GoodHasValue, Taken, listVars, metricVars
<1>12. QED
  BY <1>1, <1>2, <1>3, <1>4, <1>5, <1>6, <1>7, <1>8, <1>9, <1>10, <1>11 DEF
     Next, User, HandleTextBody, HandleJsonBody

-----------------------------------------------------------------------------
(* The application's metrics.                                              *)

\* As long as the application only acts before the first message, a metric
\* the handler makes is not the application's, and those have a type.
UserInv ==
  /\ user.made \subseteq 1..made
  /\ ~user.late =>
       /\ log = <<>> => list \subseteq user.made
       /\ step = "default" => list = {}
       /\ step = "default type" => metric \notin user.made
       /\ step = "set type" => type[metric] = "Unknown"
       /\ \A o \in user.made \ {user.untyped} : type[o] # "Unknown"

LEMMA TypeOfKindKnown == \A k \in DOMAIN TypeOfKind : TypeOfKind[k] # "Unknown"
BY DEF TypeOfKind

\* What the application has done, and when.
LEMMA UserInvStep ==
  ASSUME MessagesInv, UserInv, [Next]_vars
  PROVE  UserInv'
<1>1. CASE \E n \in Names : UserCreates(n)
  <2>1. PICK n \in Names, o \in Objects :
          /\ CreateMetric(n, o)
          /\ user' = [untyped |-> o, made |-> user.made \cup {o},
                       late |-> user.late \/ Started]
          /\ UNCHANGED <<log, metricVars, step, metric, rest>>
    BY <1>1 DEF UserCreates
  <2>2. n \in Names /\ ListOK
    BY DEF MessagesInv, MessagesTypeOK
  <2>3. /\ o \in 1..made' /\ 1..made \subseteq 1..made' /\ list' = list \cup {o}
    BY <2>1, <2>2, CreateMetricType
  <2>4. user'.made = user.made \cup {o} /\ user'.untyped = o
        /\ (~user'.late => ~user.late /\ log = <<>>)
    BY <2>1 DEF Started
  <2>5. user.untyped \notin 1..made
    BY <1>1 DEF UserCreates, NoMetric
  <2>6. log = <<>> => step = "idle"
    BY DEF MessagesInv, HandlerInv
  <2>7. QED
    BY <2>1, <2>3, <2>4, <2>5, <2>6 DEF UserInv, metricVars
<1>2. CASE \E n \in Names : UserRemoves(n)
  BY <1>2 DEF UserRemoves, UserInv, UserOK, MessagesInv, MessagesTypeOK,
     Started, HandlerInv, Named, listVars, metricVars
<1>3. CASE \E t \in UserTypes : UserSetsType(t)
  BY <1>3 DEF UserSetsType, UserInv, UserOK, MessagesInv, MessagesTypeOK,
     Started, MetricsOK, HandlerInv, ListOK, Objects, listVars, metricVars
<1>4. CASE \E m \in Messages : Arrives(m)
  <2>1. /\ step' \in {"find", "parse", "callback"} /\ log' # <<>>
        /\ UNCHANGED <<made, type, user>>
    BY <1>4, LogGrows
       DEF Arrives, listVars, metricVars, MessagesInv, MessagesTypeOK, LogOK
  <2>2. QED
    BY <2>1 DEF UserInv
<1>5. CASE Find
  BY <1>5 DEF Find, UserInv, listVars, metricVars
<1>6. CASE Front
  BY <1>6 DEF Front, Goto, UserInv, listVars, metricVars
<1>7. CASE Default
  <2>1. PICK o \in Objects :
          /\ CreateMetric(TopicName, o)
          /\ metric' = o
          /\ UNCHANGED <<log, metricVars, rest, user>>
    BY <1>7 DEF Default
  <2>2. TopicName \in Names /\ ListOK
    BY DEF MessagesInv, MessagesTypeOK
  <2>3. /\ 1..made \subseteq 1..made'
        /\ o \notin list => o \notin 1..made
    BY <2>1, <2>2, CreateMetricType
  <2>4. step = "default" /\ step' = "default type" /\ log # <<>>
    BY <1>7 DEF Default, Goto, MessagesInv, HandlerInv, TextStep
  <2>5. QED
    BY <2>1, <2>3, <2>4 DEF UserInv, metricVars
<1>8. CASE DefaultType
  <2>1. /\ type' = [type EXCEPT ![metric] = "String"]
        /\ step = "default type"
        /\ UNCHANGED <<log, listVars, metric, user>>
    BY <1>8 DEF DefaultType, Goto
  <2>2. \A o \in Objects : type'[o] = IF o = metric THEN "String" ELSE type[o]
    BY <2>1 DEF MessagesInv, MessagesTypeOK, MetricsOK
  <2>3. user.made \subseteq Objects
    BY DEF MessagesInv, MessagesTypeOK, UserOK
  <2>4. QED
    BY <1>8, <2>1, <2>2, <2>3 DEF UserInv, listVars, DefaultType, Goto
<1>9. CASE TextStamp
  BY <1>9 DEF TextStamp, Goto, UserInv, listVars, metricVars
<1>10. CASE Parse
  BY <1>10 DEF Parse, Goto, UserInv, listVars, metricVars
<1>11. CASE NextMember
  BY <1>11 DEF NextMember, Goto, UserInv, listVars, metricVars
<1>12. CASE CreateMember
  <2>1. PICK o \in Objects :
          /\ CreateMetric(Head(rest).key, o)
          /\ metric' = o
          /\ UNCHANGED <<log, metricVars, rest, user>>
    BY <1>12 DEF CreateMember
  <2>2. Head(rest).key \in Names /\ ListOK
    BY <1>12, HeadType
       DEF CreateMember, Goto, MessagesInv, MessagesTypeOK, HandlerOK,
           HandlerInv, AtMember
  <2>3. 1..made \subseteq 1..made'
    BY <2>1, <2>2, CreateMetricType
  <2>4. step' = "look type" /\ log # <<>>
    BY <1>12 DEF CreateMember, Goto, MessagesInv, HandlerInv, AtMember
  <2>5. QED
    BY <2>1, <2>3, <2>4 DEF UserInv, metricVars
<1>13. CASE LookType
  BY <1>13 DEF LookType, Goto, UserInv, listVars, metricVars
<1>14. CASE SetType
  <2>1. /\ type' = [type EXCEPT ![metric] = TypeOfKind[Head(rest).kind]]
        /\ step = "set type"
        /\ UNCHANGED <<log, listVars, metric, user>>
        /\ TypeOfKind[Head(rest).kind] # "Unknown"
    BY <1>14, TypeOfKindKnown DEF SetType, Goto, MessagesInv, HandlerInv
  <2>2. \A o \in Objects : type'[o] = IF o = metric THEN TypeOfKind[Head(rest).kind] ELSE type[o]
    BY <2>1 DEF MessagesInv, MessagesTypeOK, MetricsOK
  <2>3. user.made \subseteq Objects
    BY DEF MessagesInv, MessagesTypeOK, UserOK
  <2>4. QED
    BY <1>14, <2>1, <2>2, <2>3 DEF UserInv, listVars, SetType, Goto
<1>15. CASE Callback
  BY <1>15 DEF Callback, Goto, UserInv, listVars, metricVars
<1>16. CASE TextValue \/ TextValid
  BY <1>16 DEF TextValue, Goto, TextValid, UserInv, listVars, metricVars
<1>17. CASE EndMembers \/ SetNull \/ Invalid \/ Valid \/ JsonValue \/ NotAString
          \/ JsonStamp
  BY <1>17 DEF EndMembers, Goto, SetNull, Invalid, Valid, JsonValue,
     NotAString, JsonStamp, UserInv, listVars, metricVars
<1>18. CASE UNCHANGED vars
  BY <1>18 DEF vars, UserInv, listVars, metricVars
<1>19. QED
  BY <1>1, <1>2, <1>3, <1>4, <1>5, <1>6, <1>7, <1>8, <1>9, <1>10, <1>11,
     <1>12, <1>13, <1>14, <1>15, <1>16, <1>17, <1>18 DEF Next, User,
     HandleTextBody, HandleJsonBody

\* A text message never adds a metric to the application's.
LEMMA SecondStep ==
  ASSUME MessagesInv, UserInv, NoSecondMetric, [Next]_vars
  PROVE  NoSecondMetric'
<1>1. CASE \E n \in Names : UserCreates(n)
  <2>1. PICK n \in Names, o \in Objects :
          /\ CreateMetric(n, o)
          /\ user' = [untyped |-> o, made |-> user.made \cup {o},
                       late |-> user.late \/ Started]
          /\ UNCHANGED <<log, metricVars, step, metric, rest>>
    BY <1>1 DEF UserCreates
  <2>2. n \in Names /\ ListOK
    BY DEF MessagesInv, MessagesTypeOK
  <2>3. list' = list \cup {o}
    BY <2>1, <2>2, CreateMetricType
  <2>4. user'.made = user.made \cup {o} /\ (~user'.late => ~user.late /\ log = <<>>)
    BY <2>1 DEF Started
  <2>5. QED
    BY <2>3, <2>4 DEF UserInv, NoSecondMetric
<1>2. CASE \E n \in Names : UserRemoves(n)
  BY <1>2 DEF UserRemoves, NoSecondMetric, Taken, UserOK, MessagesInv,
     MessagesTypeOK, listVars, metricVars
<1>3. CASE \E t \in UserTypes : UserSetsType(t)
  BY <1>3 DEF UserSetsType, NoSecondMetric, Taken, UserOK, MessagesInv,
     MessagesTypeOK, listVars, metricVars
<1>4. CASE \E m \in Messages : Arrives(m)
  <2>1. PICK m \in Messages : Arrives(m)
    BY <1>4
  <2>2. /\ \A i \in 1..Len(log) : i \in 1..Len(log') /\ log'[i] = log[i]
        /\ UNCHANGED <<list, user>>
    BY <2>1, LogGrows DEF Arrives, listVars
  <2>3. Taken("text")' => Taken("text")
    BY <2>2 DEF Taken
  <2>4. QED
    BY <2>2, <2>3 DEF NoSecondMetric
<1>5. CASE Default
  <2>1. PICK o \in Objects :
          /\ CreateMetric(TopicName, o)
          /\ metric' = o
          /\ UNCHANGED <<log, metricVars, rest, user>>
    BY <1>5 DEF Default
  <2>2. TopicName \in Names /\ ListOK
    BY DEF MessagesInv, MessagesTypeOK
  <2>3. list' = list \cup {o} /\ (o \notin list => o \notin 1..made)
    BY <2>1, <2>2, CreateMetricType
  <2>4. ~user.late => list = {}
    BY <1>5 DEF Default, Goto, UserInv
  <2>5. QED
    BY <2>1, <2>3, <2>4 DEF UserInv, NoSecondMetric
<1>6. CASE CreateMember
  <2>1. PICK o \in Objects :
          /\ CreateMetric(Head(rest).key, o)
          /\ metric' = o
          /\ UNCHANGED <<log, metricVars, rest, user>>
    BY <1>6 DEF CreateMember
  <2>2. Head(rest).key \in Names /\ ListOK
    BY <1>6, HeadType
       DEF CreateMember, Goto, MessagesInv, MessagesTypeOK, HandlerOK,
           HandlerInv, AtMember
  <2>3. ~Taken("text") /\ log' = log
    BY <1>6, OnlyTexts DEF CreateMember, Goto, JsonStep, AtMember
  <2>4. QED
    BY <2>3 DEF NoSecondMetric, Taken
<1>7. CASE Callback
  BY <1>7 DEF Callback, Goto, NoSecondMetric, Taken, listVars, metricVars
<1>8. CASE Find \/ Front \/ DefaultType \/ TextStamp \/ TextValue \/ TextValid
  BY <1>8 DEF Find, Front, Goto, DefaultType, TextStamp, TextValue,
     TextValid, NoSecondMetric, Taken, listVars, metricVars
<1>9. CASE Parse \/ EndMembers \/ NextMember \/ LookType \/ SetType \/ SetNull
          \/ Invalid \/ Valid \/ JsonValue \/ NotAString \/ JsonStamp
  BY <1>9 DEF Parse, Goto, EndMembers, NextMember, LookType, SetType,
     SetNull, Invalid, Valid, JsonValue, NotAString, JsonStamp,
     NoSecondMetric, Taken, listVars, metricVars
<1>10. CASE UNCHANGED vars
  BY <1>10 DEF vars, NoSecondMetric, Taken, listVars, metricVars
<1>11. QED
  BY <1>1, <1>2, <1>3, <1>4, <1>5, <1>6, <1>7, <1>8, <1>9, <1>10 DEF Next,
     User, HandleTextBody, HandleJsonBody

\* Neither does any message change the types of its metrics.
LEMMA TypeKeptStep ==
  ASSUME MessagesInv, UserInv, [Next]_vars
  PROVE  ~user'.late => \A o \in user.made \ {user.untyped} : type'[o] = type[o]
<1>1. CASE \E t \in UserTypes : UserSetsType(t)
  BY <1>1 DEF UserSetsType, UserInv, MessagesInv, MessagesTypeOK,
     MetricsOK, ListOK, Objects, UserOK, listVars, metricVars
<1>2. CASE DefaultType
  <2>1. /\ type' = [type EXCEPT ![metric] = "String"]
        /\ step = "default type"
        /\ UNCHANGED <<log, listVars, metric, user>>
    BY <1>2 DEF DefaultType, Goto
  <2>2. \A o \in Objects : type'[o] = IF o = metric THEN "String" ELSE type[o]
    BY <2>1 DEF MessagesInv, MessagesTypeOK, MetricsOK
  <2>3. user.made \subseteq Objects
    BY DEF MessagesInv, MessagesTypeOK, UserOK
  <2>4. QED
    BY <2>1, <2>2, <2>3 DEF UserInv
<1>3. CASE SetType
  <2>1. /\ type' = [type EXCEPT ![metric] = TypeOfKind[Head(rest).kind]]
        /\ step = "set type"
        /\ UNCHANGED <<log, listVars, metric, user>>
        /\ TypeOfKind[Head(rest).kind] # "Unknown"
    BY <1>3, TypeOfKindKnown DEF SetType, Goto, MessagesInv, HandlerInv
  <2>2. \A o \in Objects : type'[o] = IF o = metric THEN TypeOfKind[Head(rest).kind] ELSE type[o]
    BY <2>1 DEF MessagesInv, MessagesTypeOK, MetricsOK
  <2>3. user.made \subseteq Objects
    BY DEF MessagesInv, MessagesTypeOK, UserOK
  <2>4. QED
    BY <2>1, <2>2, <2>3 DEF UserInv
<1>4. CASE (\E n \in Names : UserCreates(n))
          \/ (\E n \in Names : UserRemoves(n))
          \/ (\E m \in Messages : Arrives(m)) \/ Callback
  BY <1>4 DEF UserCreates, UserRemoves, Arrives, Callback, Goto, UserInv,
     listVars, metricVars
<1>5. CASE Find \/ Front \/ Default \/ TextStamp \/ TextValue \/ TextValid
  BY <1>5 DEF Find, Front, Goto, Default, TextStamp, TextValue, TextValid,
     UserInv, listVars, metricVars
<1>6. CASE Parse \/ EndMembers \/ NextMember \/ CreateMember \/ LookType
          \/ SetNull \/ Invalid \/ Valid \/ JsonValue \/ NotAString
          \/ JsonStamp
  BY <1>6 DEF Parse, Goto, EndMembers, NextMember, CreateMember, LookType,
     SetNull, Invalid, Valid, JsonValue, NotAString, JsonStamp, UserInv,
     listVars, metricVars
<1>7. CASE UNCHANGED vars
  BY <1>7 DEF vars, UserInv, listVars, metricVars
<1>8. QED
  BY <1>1, <1>2, <1>3, <1>4, <1>5, <1>6, <1>7 DEF Next, User,
     HandleTextBody, HandleJsonBody

-----------------------------------------------------------------------------
(* What was applied when the application is called.                        *)

\* The log holds messages that may arrive, but for their format.
LogInv ==
  \A k \in 1..Len(log) :
    \E m \in Messages :
      /\ log[k].text = m.text /\ log[k].type = m.type
      /\ log[k].origin = m.origin /\ log[k].members = m.members

\* No metric has a timestamp ahead of the last message, and one whose timestamp
\* is a text's shows that text, save between the two steps that set them.
TextShown ==
  \A o \in Objects :
    /\ stamp[o] <= Len(log)
    /\ stamp[o] > 0 /\ log[stamp[o]].format = "text"
          /\ ~(o = metric /\ step \in {"text value", "json stamp"}) =>
        value[o] = log[stamp[o]].text

\* A message is logged as it is.
LEMMA LogInvStep ==
  ASSUME MessagesInv, LogInv, [Next]_vars
  PROVE  LogInv'
<1>1. CASE \E m \in Messages : Arrives(m)
  <2>1. PICK m \in Messages : Arrives(m)
    BY <1>1
  <2>2. PICK f : log' = Append(log, [m EXCEPT !.format = f])
    BY <2>1 DEF Arrives
  <2>3. m \in Message /\ log \in Seq(Message) /\ Len(log) \in Nat
    BY DEF MessagesInv, MessagesTypeOK, LogOK
  <2>4. /\ Len(log') = Len(log) + 1 /\ log'[Len(log) + 1] = [m EXCEPT !.format = f]
        /\ \A k \in 1..Len(log) : log'[k] = log[k]
    BY <2>2, <2>3
  <2>5. /\ [m EXCEPT !.format = f].text = m.text /\ [m EXCEPT !.format = f].type = m.type
        /\ [m EXCEPT !.format = f].origin = m.origin
        /\ [m EXCEPT !.format = f].members = m.members
    BY <2>3 DEF Message
  <2>6. \A k \in 1..Len(log') : k = Len(log) + 1 \/ k \in 1..Len(log)
    BY <2>3, <2>4
  <2>7. \A k \in 1..Len(log) :
          \E n \in Messages :
            /\ log'[k].text = n.text /\ log'[k].type = n.type
            /\ log'[k].origin = n.origin /\ log'[k].members = n.members
    BY <2>4 DEF LogInv
  <2>8. QED
    BY <2>4, <2>5, <2>6, <2>7 DEF LogInv
<1>2. CASE (\E n \in Names : UserCreates(n))
          \/ (\E n \in Names : UserRemoves(n))
          \/ (\E t \in UserTypes : UserSetsType(t)) \/ Callback
  BY <1>2 DEF UserCreates, UserRemoves, UserSetsType, Callback, Goto,
     LogInv, listVars, metricVars
<1>3. CASE Find \/ Front \/ Default \/ DefaultType \/ TextStamp \/ TextValue
          \/ TextValid
  BY <1>3 DEF Find, Front, Goto, Default, DefaultType, TextStamp,
     TextValue, TextValid, LogInv, listVars, metricVars
<1>4. CASE Parse \/ EndMembers \/ NextMember \/ CreateMember \/ LookType
          \/ SetType \/ SetNull \/ Invalid \/ Valid \/ JsonValue \/ NotAString
          \/ JsonStamp
  BY <1>4 DEF Parse, Goto, EndMembers, NextMember, CreateMember, LookType,
     SetType, SetNull, Invalid, Valid, JsonValue, NotAString, JsonStamp,
     LogInv, listVars, metricVars
<1>5. CASE UNCHANGED vars
  BY <1>5 DEF vars, LogInv, listVars, metricVars
<1>6. QED
  BY <1>1, <1>2, <1>3, <1>4, <1>5 DEF Next, User, HandleTextBody,
     HandleJsonBody

\* A text's timestamp and value go together.
LEMMA TextShownStep ==
  ASSUME MessagesInv, ShownInv, TextShown, [Next]_vars
  PROVE  TextShown'
<1>1. CASE \E m \in Messages : Arrives(m)
  <2>1. PICK m \in Messages : Arrives(m)
    BY <1>1
  <2>2. /\ Len(log') = Len(log) + 1 /\ Len(log) \in Nat
        /\ \A i \in 1..Len(log) : log'[i] = log[i]
        /\ UNCHANGED <<stamp, value>> /\ step = "idle"
    BY <2>1, LogGrows DEF Arrives, metricVars
  <2>3. \A o \in Objects : stamp[o] > 0 => stamp[o] \in 1..Len(log)
    BY <2>2 DEF TextShown, MessagesInv, MessagesTypeOK, MetricsOK
  <2>4. \A o \in Objects : stamp[o] <= Len(log')
    BY <2>2 DEF TextShown, MessagesInv, MessagesTypeOK, MetricsOK
  <2>5. QED
    BY <2>2, <2>3, <2>4 DEF TextShown
<1>2. CASE TextStamp
  <2>1. /\ step = "text stamp" /\ metric \in Objects /\ step' = "text value"
        /\ stamp' = [stamp EXCEPT ![metric] = Len(log)]
        /\ UNCHANGED <<log, value, metric>>
    BY <1>2, HeldType DEF TextStamp, Goto, Holding
  <2>2. stamp'[metric] = Len(log) /\ \A o \in Objects : o # metric => stamp'[o] = stamp[o]
    BY <2>1 DEF MessagesInv, MessagesTypeOK, MetricsOK
  <2>3. Len(log) <= Len(log)
    BY DEF MessagesInv, MessagesTypeOK, LogOK
  <2>4. QED
    BY <2>1, <2>2, <2>3 DEF TextShown
<1>3. CASE TextValue
  <2>1. /\ step = "text value" /\ metric \in Objects /\ step' = "text valid"
        /\ value' = [value EXCEPT ![metric] = Current.text]
        /\ UNCHANGED <<log, stamp, metric>>
    BY <1>3, HeldType DEF TextValue, Goto, Holding
  <2>2. value'[metric] = log[Len(log)].text
        /\ \A o \in Objects : o # metric => value'[o] = value[o]
    BY <2>1 DEF MessagesInv, MessagesTypeOK, MetricsOK, Current
  <2>3. stamp[metric] = Len(log)
    BY <2>1 DEF ShownInv
  <2>4. QED
    BY <2>1, <2>2, <2>3 DEF TextShown
<1>4. CASE JsonValue
  <2>1. /\ step' = "json stamp" /\ step = "json value" /\ metric \in Objects
        /\ value' = [value EXCEPT ![metric] = Head(rest).text]
        /\ UNCHANGED <<log, stamp, metric>>
    BY <1>4, HeldType DEF JsonValue, Goto, Holding, AtMember
  <2>2. \A o \in Objects : o # metric => value'[o] = value[o]
    BY <2>1 DEF MessagesInv, MessagesTypeOK, MetricsOK
  <2>3. QED
    BY <2>1, <2>2 DEF TextShown
<1>5. CASE JsonStamp
  <2>1. /\ step = "json stamp" /\ metric \in Objects
        /\ stamp' = [stamp EXCEPT ![metric] = Len(log)]
        /\ UNCHANGED <<log, value, metric>>
    BY <1>5, HeldType DEF JsonStamp, Goto, Holding, AtMember
  <2>2. stamp'[metric] = Len(log) /\ \A o \in Objects : o # metric => stamp'[o] = stamp[o]
    BY <2>1 DEF MessagesInv, MessagesTypeOK, MetricsOK
  <2>3. log[Len(log)].format = "json"
    BY <2>1 DEF MessagesInv, HandlerInv, JsonStep, AtMember, Current
  <2>4. Len(log) <= Len(log)
    BY DEF MessagesInv, MessagesTypeOK, LogOK
  <2>5. QED
    BY <2>1, <2>2, <2>3, <2>4 DEF TextShown
<1>6. CASE (\E n \in Names : UserCreates(n))
          \/ (\E n \in Names : UserRemoves(n))
          \/ (\E t \in UserTypes : UserSetsType(t)) \/ Callback
  BY <1>6 DEF UserCreates, UserRemoves, UserSetsType, Callback, Goto,
     TextShown, listVars, metricVars
<1>7. CASE Find \/ Front \/ Default \/ DefaultType \/ TextValid
  BY <1>7 DEF Find, Front, Goto, Default, DefaultType, TextValid,
     TextShown, listVars, metricVars
<1>8. CASE Parse \/ EndMembers \/ NextMember \/ CreateMember \/ LookType
          \/ SetType \/ SetNull \/ Invalid \/ Valid \/ NotAString
  BY <1>8 DEF Parse, Goto, EndMembers, NextMember, CreateMember, LookType,
     SetType, SetNull, Invalid, Valid, NotAString, TextShown, listVars,
     metricVars
<1>9. CASE UNCHANGED vars
  BY <1>9 DEF vars, TextShown, listVars, metricVars
<1>10. QED
  BY <1>1, <1>2, <1>3, <1>4, <1>5, <1>6, <1>7, <1>8, <1>9 DEF Next, User,
     HandleTextBody, HandleJsonBody

\* What the handler has given its metric so far
HeldInv ==
  /\ step \in {"invalid", "valid", "json value", "json stamp"} =>
       null[metric] = (Head(rest).kind = "null")
  /\ step = "invalid" => Head(rest).kind = "null"
  /\ step = "json value" => valid[metric]
  /\ step = "json stamp" => valid[metric] = (Head(rest).kind = "string")
  /\ step = "callback" /\ Current.format = "text" =>
       stamp[metric] = Len(log) /\ valid[metric] /\ value[metric] = Current.text

\* A handler gives its metric what the member or the text says.
LEMMA HeldStep ==
  ASSUME MessagesInv, ShownInv, HeldInv, [Next]_vars
  PROVE  HeldInv'
<1>1. CASE \E n \in Names : UserCreates(n)
  <2>1. PICK n \in Names, o \in Objects :
          /\ CreateMetric(n, o)
          /\ user' = [untyped |-> o, made |-> user.made \cup {o},
                       late |-> user.late \/ Started]
          /\ UNCHANGED <<log, metricVars, step, metric, rest>>
    BY <1>1 DEF UserCreates
  <2>2. UNCHANGED <<log, metricVars, rest>>
    BY <2>1
  <2>3. QED
    BY <1>1, <2>1, <2>2 DEF UserCreates, HeldInv, AtMember, Holding, Current,
       metricVars
<1>2. CASE \E m \in Messages : Arrives(m)
  <2>1. PICK m \in Messages : Arrives(m)
    BY <1>2
  <2>2. PICK f : /\ log' = Append(log, [m EXCEPT !.format = f])
                 /\ step' = IF f = "text" THEN "find"
                            ELSE IF f = "json" THEN "parse" ELSE "callback"
    BY <2>1 DEF Arrives
  <2>3. m \in Message /\ log \in Seq(Message)
    BY DEF MessagesInv, MessagesTypeOK, LogOK
  <2>4. log'[Len(log')] = [m EXCEPT !.format = f] /\ [m EXCEPT !.format = f].format = f
    BY <2>2, <2>3 DEF Message
  <2>5. QED
    BY <2>2, <2>4 DEF HeldInv, Current
<1>3. CASE Default
  <2>1. PICK o \in Objects :
          /\ CreateMetric(TopicName, o)
          /\ metric' = o
          /\ UNCHANGED <<log, metricVars, rest, user>>
    BY <1>3 DEF Default
  <2>2. UNCHANGED <<log, metricVars, rest>>
    BY <2>1
  <2>3. QED
    BY <1>3, <2>1, <2>2 DEF Default, Goto, HeldInv, AtMember, Holding,
       Current, metricVars
<1>4. CASE TextStamp
  BY <1>4 DEF TextStamp, Goto, HeldInv, AtMember, Holding, Current,
     listVars, metricVars
<1>5. CASE TextValue
  BY <1>5 DEF TextValue, Goto, HeldInv, AtMember, Holding, Current,
     listVars, metricVars
<1>6. CASE TextValid
  BY <1>6, HeldType DEF TextValid, Goto, HeldInv, AtMember, Holding,
     Current, MessagesInv, MessagesTypeOK, MetricsOK, ShownInv, HandlerInv,
     TextStep, JsonStep, listVars, metricVars
<1>7. CASE Parse
  BY <1>7 DEF Parse, Goto, HeldInv, AtMember, Holding, Current,
     MessagesInv, HandlerInv, listVars, metricVars
<1>8. CASE EndMembers
  BY <1>8 DEF EndMembers, Goto, HeldInv, AtMember, Holding, Current,
     MessagesInv, HandlerInv, JsonStep, listVars, metricVars
<1>9. CASE NextMember
  BY <1>9 DEF NextMember, Goto, HeldInv, AtMember, Holding, Current,
     listVars, metricVars
<1>10. CASE CreateMember
  <2>1. PICK o \in Objects :
          /\ CreateMetric(Head(rest).key, o)
          /\ metric' = o
          /\ UNCHANGED <<log, metricVars, rest, user>>
    BY <1>10 DEF CreateMember
  <2>2. UNCHANGED <<log, metricVars, rest>>
    BY <2>1
  <2>3. QED
    BY <1>10, <2>1, <2>2 DEF CreateMember, Goto, HeldInv, AtMember, Holding,
       Current, metricVars
<1>11. CASE LookType
  BY <1>11 DEF LookType, Goto, HeldInv, AtMember, Holding, Current,
     listVars, metricVars
<1>12. CASE SetType
  BY <1>12 DEF SetType, Goto, HeldInv, AtMember, Holding, Current,
     listVars, metricVars
<1>13. CASE SetNull
  BY <1>13, HeldType DEF SetNull, Goto, HeldInv, AtMember, Holding,
     Current, MessagesInv, MessagesTypeOK, MetricsOK, listVars, metricVars
<1>14. CASE Invalid
  BY <1>14, HeldType DEF Invalid, Goto, HeldInv, AtMember, Holding,
     Current, MessagesInv, MessagesTypeOK, MetricsOK, listVars, metricVars
<1>15. CASE Valid
  BY <1>15, HeldType DEF Valid, Goto, HeldInv, AtMember, Holding, Current,
     MessagesInv, MessagesTypeOK, MetricsOK, ShownInv, HandlerInv, TextStep,
     JsonStep, listVars, metricVars
<1>16. CASE JsonValue
  BY <1>16, HeldType DEF JsonValue, Goto, HeldInv, AtMember, Holding,
     Current, MessagesInv, MessagesTypeOK, MetricsOK, ShownInv, HandlerInv,
     TextStep, JsonStep, listVars, metricVars
<1>17. CASE NotAString
  BY <1>17 DEF NotAString, Goto, HeldInv, AtMember, Holding, Current,
     MessagesInv, HandlerInv, JsonStep, listVars, metricVars
<1>18. CASE JsonStamp
  BY <1>18 DEF JsonStamp, Goto, HeldInv, AtMember, Holding, Current,
     listVars, metricVars
<1>19. CASE (\E n \in Names : UserRemoves(n))
          \/ (\E t \in UserTypes : UserSetsType(t)) \/ Callback
  BY <1>19 DEF UserRemoves, UserSetsType, Callback, Goto, HeldInv,
     AtMember, Holding, Current, listVars, metricVars
<1>20. CASE Find \/ Front \/ DefaultType
  BY <1>20 DEF Find, Front, Goto, DefaultType, HeldInv, AtMember, Holding,
     Current, listVars, metricVars
<1>21. CASE UNCHANGED vars
  BY <1>21 DEF vars, HeldInv, AtMember, Holding, Current, listVars,
     metricVars
<1>22. QED
  BY <1>1, <1>2, <1>3, <1>4, <1>5, <1>6, <1>7, <1>8, <1>9, <1>10, <1>11,
     <1>12, <1>13, <1>14, <1>15, <1>16, <1>17, <1>18, <1>19, <1>20, <1>21 DEF
     Next, User, HandleTextBody, HandleJsonBody

\* Members the handler is done with
Done == Len(Current.members) - Len(rest)

\* Metric o has what a member of the last message says.
Shows(o, member) ==
  /\ name[o] = member.key /\ stamp[o] = Len(log)
  /\ null[o] = (member.kind = "null") /\ valid[o] = (member.kind = "string")

Applied(i) == \E o \in 1..made : Shows(o, Current.members[i])

\* The members that were visited have been applied.
DoneInv ==
  /\ step \in JsonStep =>
       /\ Len(rest) <= Len(Current.members)
       /\ \A j \in DOMAIN rest : rest[j] = Current.members[Done + j]
       /\ \A i \in 1..Done : Applied(i)
  /\ step = "callback" /\ Current.format = "json" /\ Current.parses /\ ~Throws(Current) =>
       \A i \in DOMAIN Current.members : Applied(i)

\* The members of a message have different keys.
LEMMA KeysDiffer ==
  ASSUME MessagesInv, LogInv, log # <<>>
  PROVE  \A i, j \in DOMAIN Current.members :
           Current.members[i].key = Current.members[j].key => i = j
<1>1. Len(log) \in 1..Len(log)
  BY CurrentType DEF MessagesInv, MessagesTypeOK
<1>2. PICK m \in Messages : Current.members = m.members
  BY <1>1 DEF LogInv, Current
<1>3. QED
  BY <1>2, KeysAssumption

\* What was applied stays so when its metrics are left alone.
LEMMA AppliedStays ==
  ASSUME log' = log, 1..made \subseteq 1..made', NEW i,
         \A o \in 1..made :
           name[o] = Current.members[i].key =>
             /\ name'[o] = name[o] /\ stamp'[o] = stamp[o]
             /\ null'[o] = null[o] /\ valid'[o] = valid[o],
         Applied(i)
  PROVE  Applied(i)'
<1>1. PICK o \in 1..made : Shows(o, Current.members[i])
  BY DEF Applied
<1>2. Shows(o, Current.members[i])'
  BY <1>1 DEF Shows, Current
<1>3. QED
  BY <1>2 DEF Applied

LEMMA MadeObjects == MessagesInv => 1..made \subseteq Objects
BY DEF MessagesInv, MessagesTypeOK, ListOK, Objects

\* The handler's metric is that of a member that was not visited before.
LEMMA HeldIsNew ==
  ASSUME MessagesInv, ShownInv, LogInv, DoneInv, step \in AtMember \ {"create"}
  PROVE  /\ Done \in Nat /\ Done + 1 \in DOMAIN Current.members
         /\ Head(rest) = Current.members[Done + 1] /\ Len(Tail(rest)) = Len(rest) - 1
         /\ name[metric] = Current.members[Done + 1].key
         /\ \A i \in 1..Done : name[metric] # Current.members[i].key
<1>1. rest \in Seq(Member) /\ rest # <<>> /\ Head(rest) = rest[1] /\ 1 \in DOMAIN rest
      /\ log # <<>>
  BY HeadType DEF MessagesInv, MessagesTypeOK, HandlerOK, HandlerInv, AtMember, JsonStep
<1>2. Current.members \in Seq(Member)
  BY <1>1, CurrentType DEF MessagesInv, MessagesTypeOK
<1>3. Len(rest) \in Nat \ {0} /\ Len(Tail(rest)) = Len(rest) - 1
      /\ Len(Current.members) \in Nat
      /\ DOMAIN Current.members = 1..Len(Current.members)
  BY <1>1, <1>2
<1>4. Len(rest) <= Len(Current.members) /\ rest[1] = Current.members[Done + 1]
  BY <1>1 DEF DoneInv, JsonStep
<1>5. Done \in Nat /\ Done + 1 \in DOMAIN Current.members
      /\ \A i \in 1..Done : i \in DOMAIN Current.members /\ i # Done + 1
  BY <1>3, <1>4 DEF Done
<1>6. name[metric] = Current.members[Done + 1].key
  BY <1>1, <1>4 DEF ShownInv
<1>7. QED
  BY <1>1, <1>3, <1>4, <1>5, <1>6, KeysDiffer

\* Every member that was visited has been applied.
LEMMA DoneStep ==
  ASSUME MessagesInv, RestInv, ShownInv, LogInv, HeldInv, DoneInv, [Next]_vars
  PROVE  DoneInv'
<1>1. CASE \E n \in Names : UserCreates(n)
  <2>1. PICK n \in Names, o \in Objects :
          /\ CreateMetric(n, o)
          /\ user' = [untyped |-> o, made |-> user.made \cup {o},
                       late |-> user.late \/ Started]
          /\ UNCHANGED <<log, metricVars, step, metric, rest>>
    BY <1>1 DEF UserCreates
  <2>2. n \in Names /\ ListOK
    BY DEF MessagesInv, MessagesTypeOK
  <2>3. /\ 1..made \subseteq 1..made'
        /\ \A p \in 1..made : name'[p] = name[p]
        /\ UNCHANGED <<log, stamp, null, valid, rest>>
    BY <2>1, <2>2, CreateMetricType DEF metricVars
  <2>4. \A i : Applied(i) => Applied(i)'
    BY <2>3, AppliedStays
  <2>5. QED
    BY <1>1, <2>1, <2>3, <2>4 DEF UserCreates, DoneInv, JsonStep, AtMember,
       Current, Done
<1>2. CASE \E n \in Names : UserRemoves(n)
  <2>1. UNCHANGED <<log, made, name, stamp, null, valid, rest, step>>
    BY <1>2 DEF UserRemoves, metricVars
  <2>2. QED
    BY <2>1 DEF DoneInv, Current, Done, Applied, Shows
<1>3. CASE \E t \in UserTypes : UserSetsType(t)
  <2>1. UNCHANGED <<log, made, name, stamp, null, valid, rest, step>>
    BY <1>3 DEF UserSetsType, listVars
  <2>2. QED
    BY <2>1 DEF DoneInv, Current, Done, Applied, Shows
<1>4. CASE \E m \in Messages : Arrives(m)
  <2>1. PICK m \in Messages : Arrives(m)
    BY <1>4
  <2>2. PICK f : /\ log' = Append(log, [m EXCEPT !.format = f])
                 /\ step' = IF f = "text" THEN "find"
                            ELSE IF f = "json" THEN "parse" ELSE "callback"
    BY <2>1 DEF Arrives
  <2>3. m \in Message /\ log \in Seq(Message)
    BY DEF MessagesInv, MessagesTypeOK, LogOK
  <2>4. log'[Len(log')] = [m EXCEPT !.format = f] /\ [m EXCEPT !.format = f].format = f
    BY <2>2, <2>3 DEF Message
  <2>5. QED
    BY <2>2, <2>4 DEF DoneInv, Current, JsonStep, AtMember
<1>5. CASE Default
  <2>1. PICK o \in Objects :
          /\ CreateMetric(TopicName, o)
          /\ metric' = o
          /\ UNCHANGED <<log, metricVars, rest, user>>
    BY <1>5 DEF Default
  <2>2. TopicName \in Names /\ ListOK
    BY DEF MessagesInv, MessagesTypeOK
  <2>3. /\ 1..made \subseteq 1..made'
        /\ \A p \in 1..made : name'[p] = name[p]
        /\ UNCHANGED <<log, stamp, null, valid, rest>>
    BY <2>1, <2>2, CreateMetricType DEF metricVars
  <2>4. \A i : Applied(i) => Applied(i)'
    BY <2>3, AppliedStays
  <2>5. QED
    BY <1>5, <2>1, <2>3, <2>4 DEF Default, Goto, DoneInv, JsonStep, AtMember,
       Current, Done
<1>6. CASE TextStamp
  BY <1>6 DEF TextStamp, Goto, DoneInv, JsonStep, AtMember, Current, Done,
     Applied, Shows, MessagesInv, HandlerInv, TextStep, listVars, metricVars
<1>7. CASE TextValid
  BY <1>7 DEF TextValid, Goto, DoneInv, JsonStep, AtMember, Current, Done,
     Applied, Shows, MessagesInv, HandlerInv, TextStep, listVars, metricVars
<1>8. CASE Parse
  <2>1. CASE Current.parses
    <3>1. Current.members \in Seq(Member)
      BY <1>8, CurrentType DEF Parse, Goto, MessagesInv, MessagesTypeOK, HandlerInv
    <3>2. rest' = Current.members /\ step' = "member" /\ log' = log
      BY <1>8, <2>1 DEF Parse, Goto
    <3>3. Len(rest') \in Nat /\ Done' = 0 /\ \A j \in DOMAIN rest' : 0 + j = j
      BY <3>1, <3>2 DEF Done, Current
    <3>4. QED
      BY <3>2, <3>3 DEF DoneInv, Current
  <2>2. CASE ~Current.parses
    BY <1>8, <2>2 DEF Parse, Goto, DoneInv, Current, JsonStep, AtMember
  <2>3. QED
    BY <2>1, <2>2
<1>9. CASE EndMembers
  <2>1. rest = <<>> /\ step = "member" /\ step' = "callback" /\ log # <<>>
        /\ UNCHANGED <<log, made, name, stamp, null, valid>>
    BY <1>9 DEF EndMembers, Goto, MessagesInv, HandlerInv, listVars, metricVars
  <2>2. Current.members \in Seq(Member)
    BY <2>1, CurrentType DEF MessagesInv, MessagesTypeOK
  <2>3. DOMAIN Current.members = 1..Done
    BY <2>1, <2>2 DEF Done
  <2>4. \A i \in DOMAIN Current.members : Applied(i)
    BY <2>1, <2>3 DEF DoneInv, JsonStep
  <2>5. QED
    BY <2>1, <2>4 DEF DoneInv, JsonStep, AtMember, Applied, Shows, Current
<1>10. CASE NextMember
  BY <1>10 DEF NextMember, Goto, DoneInv, JsonStep, AtMember, Current,
     Done, Applied, Shows, listVars, metricVars
<1>11. CASE CreateMember
  <2>1. PICK o \in Objects :
          /\ CreateMetric(Head(rest).key, o)
          /\ metric' = o
          /\ UNCHANGED <<log, metricVars, rest, user>>
    BY <1>11 DEF CreateMember
  <2>2. Head(rest).key \in Names /\ ListOK
    BY <1>11, HeadType
       DEF CreateMember, Goto, MessagesInv, MessagesTypeOK, HandlerOK, HandlerInv, AtMember
  <2>3. /\ 1..made \subseteq 1..made'
        /\ \A p \in 1..made : name'[p] = name[p]
        /\ UNCHANGED <<log, stamp, null, valid, rest>>
    BY <2>1, <2>2, CreateMetricType DEF metricVars
  <2>4. \A i : Applied(i) => Applied(i)'
    BY <2>3, AppliedStays
  <2>5. QED
    BY <1>11, <2>1, <2>3, <2>4 DEF CreateMember, Goto, DoneInv, JsonStep,
       AtMember, Current, Done
<1>12. CASE LookType
  BY <1>12 DEF LookType, Goto, DoneInv, JsonStep, AtMember, Current, Done,
     Applied, Shows, listVars, metricVars
<1>13. CASE SetType
  BY <1>13 DEF SetType, Goto, DoneInv, JsonStep, AtMember, Current, Done,
     Applied, Shows, listVars, metricVars
<1>14. CASE SetNull
  <2>1. /\ step = "value" /\ metric \in Objects
        /\ UNCHANGED <<log, made, name, rest, metric>>
        /\ \A o \in 1..made : o # metric =>
             stamp'[o] = stamp[o] /\ null'[o] = null[o] /\ valid'[o] = valid[o]
    BY <1>14, HeldType, MadeObjects
       DEF SetNull, Goto, Holding, AtMember, MessagesInv, MessagesTypeOK, MetricsOK, listVars
  <2>2. \A i \in 1..Done : Applied(i) /\ name[metric] # Current.members[i].key
    BY <2>1, HeldIsNew DEF AtMember, DoneInv, JsonStep
  <2>3. \A i \in 1..Done : Applied(i)'
    BY <2>1, <2>2, AppliedStays
  <2>4. QED
    BY <1>14, <2>1, <2>3 DEF SetNull, Goto, DoneInv, Done, JsonStep, AtMember, Current
<1>15. CASE Invalid
  <2>1. /\ step = "invalid" /\ metric \in Objects
        /\ UNCHANGED <<log, made, name, rest, metric>>
        /\ \A o \in 1..made : o # metric =>
             stamp'[o] = stamp[o] /\ null'[o] = null[o] /\ valid'[o] = valid[o]
    BY <1>15, HeldType, MadeObjects
       DEF Invalid, Goto, Holding, AtMember, MessagesInv, MessagesTypeOK, MetricsOK, listVars
  <2>2. \A i \in 1..Done : Applied(i) /\ name[metric] # Current.members[i].key
    BY <2>1, HeldIsNew DEF AtMember, DoneInv, JsonStep
  <2>3. \A i \in 1..Done : Applied(i)'
    BY <2>1, <2>2, AppliedStays
  <2>4. QED
    BY <1>15, <2>1, <2>3 DEF Invalid, Goto, DoneInv, Done, JsonStep, AtMember, Current
<1>16. CASE Valid
  <2>1. /\ step = "valid" /\ metric \in Objects
        /\ UNCHANGED <<log, made, name, rest, metric>>
        /\ \A o \in 1..made : o # metric =>
             stamp'[o] = stamp[o] /\ null'[o] = null[o] /\ valid'[o] = valid[o]
    BY <1>16, HeldType, MadeObjects
       DEF Valid, Goto, Holding, AtMember, MessagesInv, MessagesTypeOK, MetricsOK, listVars
  <2>2. \A i \in 1..Done : Applied(i) /\ name[metric] # Current.members[i].key
    BY <2>1, HeldIsNew DEF AtMember, DoneInv, JsonStep
  <2>3. \A i \in 1..Done : Applied(i)'
    BY <2>1, <2>2, AppliedStays
  <2>4. QED
    BY <1>16, <2>1, <2>3 DEF Valid, Goto, DoneInv, Done, JsonStep, AtMember, Current
<1>17. CASE JsonValue
  BY <1>17 DEF JsonValue, Goto, DoneInv, JsonStep, AtMember, Current, Done,
     Applied, Shows, listVars, metricVars
<1>18. CASE NotAString
  <2>1. /\ step = "json value" /\ Head(rest).kind # "string" /\ Head(rest).kind # "null"
        /\ step' = "callback" /\ log' = log
    BY <1>18 DEF NotAString, Goto, ShownInv
  <2>2. /\ Current.format = "json" /\ Current.parses /\ Done + 1 \in DOMAIN Current.members
        /\ Head(rest) = Current.members[Done + 1]
    BY <2>1, HeldIsNew DEF MessagesInv, HandlerInv, RestInv, AtMember, JsonStep
  <2>3. Throws(Current)
    BY <2>1, <2>2 DEF Throws
  <2>4. QED
    BY <2>1, <2>3 DEF DoneInv, JsonStep, AtMember, Current
<1>19. CASE JsonStamp
  <2>1. /\ step = "json stamp" /\ step' = "member" /\ metric \in Objects
        /\ metric \in 1..made /\ rest' = Tail(rest)
        /\ stamp' = [stamp EXCEPT ![metric] = Len(log)]
        /\ UNCHANGED <<log, made, name, null, valid, metric>>
    BY <1>19, HeldType DEF JsonStamp, Goto, Holding, AtMember, listVars
  <2>2. stamp'[metric] = Len(log) /\ \A o \in 1..made : o # metric => stamp'[o] = stamp[o]
    BY <2>1, MadeObjects DEF MessagesInv, MessagesTypeOK, MetricsOK
  <2>3. PICK n \in Nat :
          /\ n = Done /\ Head(rest) = Current.members[n + 1]
          /\ Len(rest') = Len(rest) - 1
          /\ name[metric] = Current.members[n + 1].key
    BY <2>1, HeldIsNew DEF AtMember
  <2>4. \A i \in 1..n : Applied(i) /\ name[metric] # Current.members[i].key
    BY <2>1, <2>3, HeldIsNew DEF AtMember, DoneInv, JsonStep
  <2>5. /\ rest \in Seq(Member) /\ rest # <<>> /\ log # <<>> /\ rest' \in Seq(Member)
        /\ Current' = Current /\ Len(rest) <= Len(Current.members)
    BY <2>1, HeadType
       DEF MessagesInv, MessagesTypeOK, HandlerOK, HandlerInv, AtMember, Current, DoneInv,
           JsonStep
  <2>6. Len(rest) \in Nat /\ Len(Current.members) \in Nat
    BY <2>5, CurrentType DEF MessagesInv, MessagesTypeOK
  <2>7. Done' = n + 1 /\ Len(rest') <= Len(Current'.members)
    BY <2>3, <2>5, <2>6 DEF Done
  <2>8. \A j \in DOMAIN rest' : rest'[j] = Current'.members[Done' + j]
    <3>1. \A j \in DOMAIN rest' : j + 1 \in DOMAIN rest /\ rest'[j] = rest[j + 1]
      BY <2>1, <2>5, TailMembers
    <3>2. \A j \in DOMAIN rest : rest[j] = Current.members[n + j]
      BY <2>1, <2>3 DEF DoneInv, JsonStep, AtMember
    <3>3. \A j \in Nat : n + (j + 1) = Done' + j
      BY <2>3, <2>7
    <3>4. \A j \in DOMAIN rest' : j \in Nat
      BY <2>5
    <3>5. QED
      BY <2>5, <3>1, <3>2, <3>3, <3>4
  <2>9. \A i \in 1..n : Applied(i)'
    BY <2>1, <2>2, <2>4, AppliedStays
  <2>10. Applied(n + 1)'
    <3>1. Shows(metric, Current.members[n + 1])'
      <4>1. /\ null[metric] = (Current.members[n + 1].kind = "null")
            /\ valid[metric] = (Current.members[n + 1].kind = "string")
        BY <2>1, <2>3 DEF HeldInv
      <4>2. name'[metric'] = Current'.members[n + 1].key /\ stamp'[metric'] = Len(log')
        BY <2>1, <2>2, <2>3, <2>5
      <4>3. QED
        BY <2>1, <2>5, <4>1, <4>2 DEF Shows
    <3>2. QED
      BY <2>1, <3>1 DEF Applied
  <2>11. \A i \in 1..(n + 1) : i \in 1..n \/ i = n + 1
    OBVIOUS
  <2>12. QED
    BY <2>1, <2>7, <2>8, <2>9, <2>10, <2>11 DEF DoneInv, JsonStep, AtMember
<1>20. CASE Callback
  BY <1>20 DEF Callback, Goto, DoneInv, JsonStep, AtMember, Current, Done,
     Applied, Shows, listVars, metricVars
<1>21. CASE Find \/ Front \/ DefaultType \/ TextValue
  BY <1>21 DEF Find, Front, Goto, DefaultType, TextValue, DoneInv,
     JsonStep, AtMember, Current, Done, Applied, Shows, listVars, metricVars
<1>22. CASE UNCHANGED vars
  <2>1. UNCHANGED <<log, made, name, stamp, null, valid, rest, step>>
    BY <1>22 DEF vars, listVars, metricVars
  <2>2. QED
    BY <2>1 DEF DoneInv, Current, Done, Applied, Shows
<1>23. QED
  BY <1>1, <1>2, <1>3, <1>4, <1>5, <1>6, <1>7, <1>8, <1>9, <1>10, <1>11,
     <1>12, <1>13, <1>14, <1>15, <1>16, <1>17, <1>18, <1>19, <1>20, <1>21,
     <1>22 DEF Next, User, HandleTextBody, HandleJsonBody

-----------------------------------------------------------------------------
(* What is read back of a number or a Boolean.                             *)

\* One node's text of a value is read as that value by another.
LEMMA TextReadsBack ==
  ASSUME NEW t \in Integral \cup {"Boolean"}, NEW v, Fits(t, v)
  PROVE  Read(t, TextOf(t, Stored(t, v))) = v
<1> USE DEF Fits, Read, TextOf, Stored, Number, Word, Text
<1>1. CASE t = "Int8"
  BY <1>1 DEF Integral, Signed, Unsigned, ToInt8, ToInt64
<1>2. CASE t = "UInt8"
  BY <1>2 DEF Integral, Signed, Unsigned, ToUInt8, ToInt64
<1>3. CASE t \in {"Int64", "UInt64"}
  BY <1>3 DEF Integral, Signed, Unsigned, ToInt64
<1>4. CASE t = "Boolean"
  <2>1. v \in {0, 1} /\ t \notin Integral /\ t # "Int8" /\ t # "UInt8" /\ t # "String"
    BY <1>4 DEF Integral, Signed, Unsigned
  <2>2. ToBool(Number(v)) <=> v = 1
    <3>1. 1 \div 1 = 1 /\ 1 \in PowersOfTen
      BY DEF PowersOfTen
    <3>2. \A p \in PowersOfTen : 0 \div p = 0
      BY DEF PowersOfTen
    <3>3. QED
      BY <2>1, <3>1, <3>2 DEF ToBool
  <2>3. ToBool(Word(ToBool(Number(v)))) <=> v = 1
    BY <2>2 DEF ToBool
  <2>4. QED
    BY <1>4, <2>1, <2>3
<1>5. QED
  BY <1>1, <1>2, <1>3, <1>4 DEF Integral, Signed, Unsigned

-----------------------------------------------------------------------------
(* The theorems.                                                           *)

SafeInv ==
  /\ MessagesInv /\ OneMetricPerName
  /\ RestInv /\ ShownInv /\ GoodInv /\ GoodHasValue
  /\ UserInv /\ NoSecondMetric
  /\ LogInv /\ TextShown /\ HeldInv /\ DoneInv

LEMMA SafeInit == Init => SafeInv
<1> SUFFICES ASSUME Init PROVE SafeInv
  OBVIOUS
<1>1. Empty \in String /\ "Unknown" \in Type
  BY DEF Empty, Text, String, Form, Type
<1>2. LogOK /\ ListOK /\ HandlerOK /\ UserOK
  BY
     DEF Init, LogOK, ListOK, HandlerOK, UserOK, UserInit, Step, Objects,
         NoMetric
<1>3. MetricsOK
  BY <1>1 DEF Init, MetricsOK
<1>4. MessagesInv
  BY <1>2, <1>3
     DEF Init, MessagesInv, MessagesTypeOK, HandlerInv, TextStep, AtMember,
         JsonStep,
     Holding
<1>5. GoodInv /\ GoodHasValue
  BY DEF Init, GoodInv, GoodHasValue
<1>6. LogInv /\ TextShown /\ HeldInv /\ DoneInv
  BY DEF Init, LogInv, TextShown, HeldInv, DoneInv, JsonStep, AtMember
<1>7. QED
  BY <1>4, <1>5, <1>6
     DEF Init, SafeInv, OneMetricPerName, RestInv, ShownInv, UserInv, UserInit,
     NoSecondMetric, JsonStep, AtMember

\* SafeInv is inductive.
THEOREM MessagesInvariant == Spec => []SafeInv
<1>1. ASSUME SafeInv, [Next]_vars PROVE SafeInv'
  <2>1. MessagesInv'
    BY <1>1, TypeStep, HandlerInvStep DEF SafeInv, MessagesInv
  <2>2. QED
    BY <1>1, <2>1, OneStep, RestStep, ShownStep, GoodStep, HasValueStep,
       UserInvStep, SecondStep, LogInvStep, TextShownStep, HeldStep, DoneStep DEF SafeInv
<1>2. QED
  BY <1>1, SafeInit, PTL DEF Spec

\* Every variable stays in its range.
THEOREM MessageTypes == Spec => []MessagesTypeOK
<1>1. SafeInv => MessagesTypeOK
  BY DEF SafeInv, MessagesInv
<1>2. QED
  BY <1>1, MessagesInvariant, PTL

\* However handlers and application interleave, no two metrics have one name.
THEOREM OneMetric == Spec => []OneMetricPerName
<1>1. SafeInv => OneMetricPerName
  BY DEF SafeInv
<1>2. QED
  BY <1>1, MessagesInvariant, PTL

\* A valid metric of a text topic never shows what no message brought.
THEOREM ValidHasText == Spec => []GoodHasValue
<1>1. SafeInv => GoodHasValue
  BY DEF SafeInv
<1>2. QED
  BY <1>1, MessagesInvariant, PTL

\* Texts go to the application's metric, or to a single one of their own.
THEOREM NoExtraMetric == Spec => []NoSecondMetric
<1>1. SafeInv => NoSecondMetric
  BY DEF SafeInv
<1>2. QED
  BY <1>1, MessagesInvariant, PTL

\* A good metric shows the message its timestamp tells.
THEOREM ValidIsMessage == Spec => []GoodIsMessage
<1>1. SafeInv => GoodIsMessage
  <2> SUFFICES ASSUME SafeInv, NoThrow, NEW o \in Objects, valid[o], ~Handled(o)
               PROVE  stamp[o] > 0 /\ value[o] \in TextsFor(log[stamp[o]], name[o])
    BY DEF GoodIsMessage, NoThrow
  <2>1. ~(o = metric /\ step \in Holding)
    BY DEF Handled, Holding, AtMember
  <2>2. IsMessage(o)
    BY <2>1 DEF SafeInv, GoodInv
  <2>3. QED
    BY <2>2 DEF IsMessage, SafeInv, MessagesInv, MessagesTypeOK, LogOK
<1>2. QED
  BY <1>1, MessagesInvariant, PTL

\* When the application is called, its text or all members have been applied.
THEOREM AppliedWhenCalled == Spec => []MessageApplied
<1>1. ASSUME SafeInv, step = "callback" PROVE MessageApplied
  <2>1. log # <<>> /\ ContentType = Current.format
    BY <1>1 DEF SafeInv, MessagesInv, HandlerInv, ContentType
  <2>2. ContentType = "text" =>
          stamp[metric] = Len(log) /\ valid[metric] /\ value[metric] = Current.text
    BY <1>1, <2>1 DEF SafeInv, HeldInv
  <2>3. ASSUME ContentType = "json", Current.parses, ~Throws(Current),
               NEW i \in DOMAIN Current.members
        PROVE  \E o \in 1..made :
                 /\ name[o] = Current.members[i].key
                 /\ stamp[o] = Len(log)
                 /\ null[o] = (Current.members[i].kind = "null")
                 /\ valid[o] = (Current.members[i].kind = "string")
    <3>1. Applied(i)
      BY <1>1, <2>1, <2>3 DEF SafeInv, DoneInv
    <3>2. QED
      BY <3>1 DEF Applied, Shows
  <2>4. QED
    BY <2>2, <2>3 DEF MessageApplied
<1>2. SafeInv => MessageApplied
  BY <1>1 DEF MessageApplied
<1>3. QED
  BY <1>2, MessagesInvariant, PTL

\* A number or a Boolean of one node's text reads at another as what it was.
THEOREM NumbersReadBack == Spec => []ReadsBack
<1>1. SafeInv => ReadsBack
  <2> SUFFICES ASSUME SafeInv, NEW o \in Objects, valid[o], ~Handled(o), stamp[o] > 0,
                      log[stamp[o]].format = "text", log[stamp[o]].text # Star,
                      log[stamp[o]].type \in Integral \cup {"Boolean"}
               PROVE  Read(log[stamp[o]].type, value[o]) = log[stamp[o]].origin.datum
    BY DEF ReadsBack
  <2>1. stamp[o] \in 1..Len(log)
    <3>1. stamp[o] \in Nat /\ Len(log) \in Nat
      BY DEF SafeInv, MessagesInv, MessagesTypeOK, MetricsOK, LogOK
    <3>2. stamp[o] <= Len(log)
      BY DEF SafeInv, TextShown
    <3>3. QED
      BY <3>1, <3>2
  <2>2. value[o] = log[stamp[o]].text
    BY DEF SafeInv, TextShown, Handled
  <2>3. PICK m \in Messages :
          /\ log[stamp[o]].text = m.text /\ log[stamp[o]].type = m.type
          /\ log[stamp[o]].origin = m.origin
    BY <2>1 DEF SafeInv, LogInv
  <2>4. /\ Fits(m.type, m.origin.datum) /\ m.origin = Stored(m.type, m.origin.datum)
        /\ m.text = TextOf(m.type, m.origin)
    BY <2>3, TextsAssumption
  <2>5. Read(m.type, TextOf(m.type, Stored(m.type, m.origin.datum))) = m.origin.datum
    BY <2>3, <2>4, TextReadsBack
  <2>6. QED
    BY <2>2, <2>3, <2>4, <2>5
<1>2. QED
  BY <1>1, MessagesInvariant, PTL

\* No message changes the type of a metric the application gave one.
THEOREM TypesAreKept == Spec => TypeKept
<1>1. ASSUME SafeInv, [Next]_vars
      PROVE  [~user'.late => \A o \in user.made \ {user.untyped} : type'[o] = type[o]]_vars
  BY <1>1, TypeKeptStep DEF SafeInv
<1>2. QED
  BY <1>1, MessagesInvariant, PTL DEF Spec, TypeKept
=============================================================================
