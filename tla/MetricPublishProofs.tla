------------------------ MODULE MetricPublishProofs ------------------------
(***************************************************************************)
(* NoUpdateLost, for any metrics, values, writers and publishers.          *)
(*                                                                         *)
(* PublishInv is inductive.  Its heart is Covered(m): as long as metric m  *)
(* is valid, either its updated_ flag is set, or some thread is bound to   *)
(* set it or to invalidate m, or a publisher has read m as it is now or    *)
(* has yet to read it, or the latest message shows m as it is now.         *)
(***************************************************************************)
EXTENDS MetricPublish, TLAPS

USE ValuesAssumption, ThreadsAssumption, MaxOlderAssumption

-----------------------------------------------------------------------------
(* Types.                                                                  *)

\* A writer begins or continues a call.
LEMMA TypeWriter ==
  ASSUME TypeOK,
         NEW w \in Writers, Begin(w) \/ Continue(w)
  PROVE  TypeOK'
<1> USE DEF TypeOK, Step, Threads, Content
<1>1. CASE \E n \in Metrics : \E v \in Values : Value(w, n, v)
  BY <1>1 DEF Value, Call, sendVars, Goto, At
<1>2. CASE \E n \in Metrics : \E b \in BOOLEAN : Valid(w, n, b)
  BY <1>2 DEF Valid, Call, metricVars, sendVars, Goto, At
<1>3. CASE \E n \in Metrics : \E b \in BOOLEAN : Null(w, n, b)
  BY <1>3 DEF Null, Call, metricVars, sendVars, Goto, At
<1>4. CASE SetNull(w)
  BY <1>4 DEF SetNull, callVars, sendVars, Goto, At
<1>5. CASE CheckValid(w)
  BY <1>5 DEF CheckValid, Rest, metricVars, callVars, sendVars, Goto, At
<1>6. CASE SetValid(w)
  BY <1>6 DEF SetValid, callVars, sendVars, Goto, At
<1>7. CASE MarkValid(w)
  BY <1>7 DEF MarkValid, SetUpdated, Rest, callVars, sendVars, Goto, At
<1>8. CASE MarkChanged(w)
  BY <1>8 DEF MarkChanged, SetUpdated, callVars, sendVars, Goto, At
<1>9. QED
  BY <1>1, <1>2, <1>3, <1>4, <1>5, <1>6, <1>7, <1>8 DEF Begin, Continue

\* A publisher resets, reads and sends.
LEMMA TypePublisher ==
  ASSUME TypeOK,
         NEW p \in Publishers,
         PublishTopics(p) \/ (Publish(p) /\ ~Invalidating(p))
  PROVE  TypeOK'
<1> USE DEF TypeOK, Step, Threads, Content
<1>1. CASE PublishTopics(p)
  BY <1>1 DEF PublishTopics, metricVars, callVars, sendVars, Goto, At
<1>2. CASE ResetUpdated(p)
  BY <1>2 DEF ResetUpdated, callVars, sendVars, Goto, At
<1>3. CASE OnPublish(p)
  BY <1>3 DEF OnPublish, metricVars, callVars, sendVars, Goto, At
<1>4. CASE LookNull(p)
  BY <1>4 DEF LookNull, metricVars, sendVars, Goto, At
<1>5. CASE LookValid(p)
  BY <1>5 DEF LookValid, metricVars, callVars, sendVars, Goto, At
<1>6. CASE ReadValue(p)
  BY <1>6 DEF ReadValue, metricVars, callVars, sendVars, Goto, At
<1>7. CASE Send(p)
  BY <1>7 DEF Send, metricVars, callVars, Goto, At
<1>8. CASE SendFails(p)
  BY <1>8 DEF SendFails, metricVars, callVars, sendVars, Goto, At
<1>9. QED
  BY <1>1, <1>2, <1>3, <1>4, <1>5, <1>6, <1>7, <1>8 DEF Publish, Invalidating

\* A failed publisher, or the library, invalidates the metrics.
LEMMA TypeInvalidating ==
  ASSUME TypeOK,
         NEW t \in Publishers \cup {Library}, Invalidating(t)
  PROVE  TypeOK'
<1> USE DEF TypeOK, Step, Threads, Content
<1>1. CASE Invalidate(t)
  BY <1>1 DEF Invalidate, metricVars, sendVars, Goto, At
<1>2. CASE SetValid(t)
  BY <1>2 DEF SetValid, callVars, sendVars, Goto, At
<1>3. CASE MarkValid(t)
  BY <1>3 DEF MarkValid, SetUpdated, callVars, sendVars, Goto, At
<1>4. CASE AllInvalid(t)
  BY <1>4 DEF AllInvalid, metricVars, callVars, sendVars, Goto, At
<1>5. QED
  BY <1>1, <1>2, <1>3, <1>4 DEF Invalidating

\* The library answers a message.
LEMMA TypeLibrary ==
  ASSUME TypeOK,
         Arrive \/ OnSendFailure \/ UNCHANGED vars
  PROVE  TypeOK'
<1> USE DEF TypeOK, Step, Threads, Content
<1>1. CASE Arrive
  BY <1>1 DEF Arrive, metricVars, callVars, Goto, At
<1>2. CASE OnSendFailure
  BY <1>2 DEF OnSendFailure, metricVars, callVars, Goto, At
<1>3. CASE UNCHANGED vars
  BY <1>3 DEF vars, metricVars, callVars, sendVars, Goto, At
<1>4. QED
  BY <1>1, <1>2, <1>3

LEMMA TypeStep == TypeOK /\ [Next]_vars => TypeOK'
<1>1. QED
  BY TypeWriter, TypePublisher, TypeInvalidating, TypeLibrary DEF Next, Publish

LEMMA TypeInit == Init => TypeOK
BY DEF Init, TypeOK, Step, Threads, Content

\* Every variable of the threads, metrics and messages stays in its range.
THEOREM TypeCorrect == Spec => []TypeOK
<1>1. Init => TypeOK
  BY TypeInit
<1>2. TypeOK /\ [Next]_vars => TypeOK'
  BY TypeStep
<1>3. QED
  BY <1>1, <1>2, PTL DEF Spec

-----------------------------------------------------------------------------
(* Each thread keeps to its steps, and one publisher holds topic_mutex_.   *)

\* A writer begins or continues a call.
LEMMA StepsWriter ==
  ASSUME TypeOK, OnePublisher, StepsOK,
         NEW w \in Writers, Begin(w) \/ Continue(w)
  PROVE  OnePublisher' /\ StepsOK'
<1> USE DEF OnePublisher, StepsOK, TypeOK, Step, Threads
<1>1. CASE \E n \in Metrics : \E v \in Values : Value(w, n, v)
  BY <1>1 DEF Value, Call, sendVars, Goto, At
<1>2. CASE \E n \in Metrics : \E b \in BOOLEAN : Valid(w, n, b)
  BY <1>2 DEF Valid, Call, metricVars, sendVars, Goto, At
<1>3. CASE \E n \in Metrics : \E b \in BOOLEAN : Null(w, n, b)
  BY <1>3 DEF Null, Call, metricVars, sendVars, Goto, At
<1>4. CASE SetNull(w)
  BY <1>4 DEF SetNull, callVars, sendVars, Goto, At
<1>5. CASE CheckValid(w)
  BY <1>5 DEF CheckValid, Rest, metricVars, callVars, sendVars, Goto, At
<1>6. CASE SetValid(w)
  BY <1>6 DEF SetValid, callVars, sendVars, Goto, At
<1>7. CASE MarkValid(w)
  BY <1>7 DEF MarkValid, SetUpdated, Rest, callVars, sendVars, Goto, At
<1>8. CASE MarkChanged(w)
  BY <1>8 DEF MarkChanged, SetUpdated, callVars, sendVars, Goto, At
<1>9. QED
  BY <1>1, <1>2, <1>3, <1>4, <1>5, <1>6, <1>7, <1>8 DEF Begin, Continue

\* A publisher resets, reads and sends.
LEMMA StepsPublisher ==
  ASSUME TypeOK, OnePublisher, StepsOK,
         NEW p \in Publishers,
         PublishTopics(p) \/ (Publish(p) /\ ~Invalidating(p))
  PROVE  OnePublisher' /\ StepsOK'
<1> USE DEF OnePublisher, StepsOK, TypeOK, Step, Threads
<1>1. CASE PublishTopics(p)
  BY <1>1 DEF PublishTopics, metricVars, callVars, sendVars, Goto, At
<1>2. CASE ResetUpdated(p)
  BY <1>2 DEF ResetUpdated, callVars, sendVars, Goto, At
<1>3. CASE OnPublish(p)
  BY <1>3 DEF OnPublish, metricVars, callVars, sendVars, Goto, At
<1>4. CASE LookNull(p)
  BY <1>4 DEF LookNull, metricVars, sendVars, Goto, At
<1>5. CASE LookValid(p)
  BY <1>5 DEF LookValid, metricVars, callVars, sendVars, Goto, At
<1>6. CASE ReadValue(p)
  BY <1>6 DEF ReadValue, metricVars, callVars, sendVars, Goto, At
<1>7. CASE Send(p)
  BY <1>7 DEF Send, metricVars, callVars, Goto, At
<1>8. CASE SendFails(p)
  BY <1>8 DEF SendFails, metricVars, callVars, sendVars, Goto, At
<1>9. QED
  BY <1>1, <1>2, <1>3, <1>4, <1>5, <1>6, <1>7, <1>8 DEF Publish, Invalidating

\* A failed publisher, or the library, invalidates the metrics.
LEMMA StepsInvalidating ==
  ASSUME TypeOK, OnePublisher, StepsOK,
         NEW t \in Publishers \cup {Library}, Invalidating(t)
  PROVE  OnePublisher' /\ StepsOK'
<1> USE DEF OnePublisher, StepsOK, TypeOK, Step, Threads
<1>1. CASE Invalidate(t)
  BY <1>1 DEF Invalidate, metricVars, sendVars, Goto, At
<1>2. CASE SetValid(t)
  BY <1>2 DEF SetValid, callVars, sendVars, Goto, At
<1>3. CASE MarkValid(t)
  BY <1>3 DEF MarkValid, SetUpdated, callVars, sendVars, Goto, At
<1>4. CASE AllInvalid(t)
  BY <1>4 DEF AllInvalid, metricVars, callVars, sendVars, Goto, At
<1>5. QED
  BY <1>1, <1>2, <1>3, <1>4 DEF Invalidating

\* The library answers a message.
LEMMA StepsLibrary ==
  ASSUME TypeOK, OnePublisher, StepsOK,
         Arrive \/ OnSendFailure \/ UNCHANGED vars
  PROVE  OnePublisher' /\ StepsOK'
<1> USE DEF OnePublisher, StepsOK, TypeOK, Step, Threads
<1>1. CASE Arrive
  BY <1>1 DEF Arrive, metricVars, callVars, Goto, At
<1>2. CASE OnSendFailure
  BY <1>2 DEF OnSendFailure, metricVars, callVars, Goto, At
<1>3. CASE UNCHANGED vars
  BY <1>3 DEF vars, metricVars, callVars, sendVars, Goto, At
<1>4. QED
  BY <1>1, <1>2, <1>3

-----------------------------------------------------------------------------
(* No step uncovers a metric.                                              *)

\* A writer begins or continues a call.
LEMMA CoversWriter ==
  ASSUME TypeOK, TypeOK', OnePublisher, StepsOK, NEW x \in Metrics, Covered(x),
         NEW w \in Writers, Begin(w) \/ Continue(w)
  PROVE  Covered(x)'
<1> USE DEF Covered, WillMark, WillSend, WillInvalidate, HasSent, Shown,
       Publishing, OnePublisher, StepsOK, TypeOK, Step, Threads
<1>1. CASE \E n \in Metrics : \E v \in Values : Value(w, n, v)
  BY <1>1 DEF Value, Call, sendVars, Goto, At
<1>2. CASE \E n \in Metrics : \E b \in BOOLEAN : Valid(w, n, b)
  BY <1>2 DEF Valid, Call, metricVars, sendVars, Goto, At
<1>3. CASE \E n \in Metrics : \E b \in BOOLEAN : Null(w, n, b)
  BY <1>3 DEF Null, Call, metricVars, sendVars, Goto, At
<1>4. CASE SetNull(w)
  BY <1>4 DEF SetNull, callVars, sendVars, Goto, At
<1>5. CASE CheckValid(w)
  BY <1>5 DEF CheckValid, Rest, metricVars, callVars, sendVars, Goto, At
<1>6. CASE SetValid(w)
  BY <1>6 DEF SetValid, callVars, sendVars, Goto, At
<1>7. CASE MarkValid(w)
  <2>1. CASE metric[w] = x
    BY <1>7, <2>1 DEF MarkValid, SetUpdated, Goto, At, callVars, sendVars
  <2>2. CASE metric[w] # x
    <3>1. \A t \in Threads : WillMark(t, x) => WillMark(t, x)'
      BY <1>7, <2>2 DEF MarkValid, SetUpdated, Goto, At, Rest, callVars
    <3>2. \A t \in Threads : WillInvalidate(t, x) => WillInvalidate(t, x)'
      BY <1>7 DEF MarkValid, SetUpdated, Goto, At, Rest
    <3>3. \A p \in Publishers : WillSend(p, x) => WillSend(p, x)'
      BY <1>7 DEF MarkValid, SetUpdated, Goto, At, Rest, callVars
    <3>4. HasSent(x) => HasSent(x)'
      BY <1>7 DEF MarkValid, SetUpdated, Goto, At, Rest, sendVars
    <3>5. valid'[x] = valid[x] /\ updated'[x] = updated[x]
      BY <1>7, <2>2 DEF MarkValid, SetUpdated
    <3>6. QED
      BY <3>1, <3>2, <3>3, <3>4, <3>5, Zenon DEF Covered
  <2>3. QED
    BY <2>1, <2>2
<1>8. CASE MarkChanged(w)
  BY <1>8 DEF MarkChanged, SetUpdated, callVars, sendVars, Goto, At
<1>9. QED
  BY <1>1, <1>2, <1>3, <1>4, <1>5, <1>6, <1>7, <1>8 DEF Begin, Continue

\* A publisher resets, reads and sends.
LEMMA CoversPublisher ==
  ASSUME TypeOK, TypeOK', OnePublisher, StepsOK, NEW x \in Metrics, Covered(x),
         NEW p \in Publishers,
         PublishTopics(p) \/ (Publish(p) /\ ~Invalidating(p))
  PROVE  Covered(x)'
<1> USE DEF Covered, WillMark, WillSend, WillInvalidate, HasSent, Shown,
       Publishing, OnePublisher, StepsOK, TypeOK, Step, Threads
<1>1. CASE PublishTopics(p)
  BY <1>1 DEF PublishTopics, metricVars, callVars, sendVars, Goto, At
<1>2. CASE ResetUpdated(p)
  BY <1>2 DEF ResetUpdated, callVars, sendVars, Goto, At
<1>3. CASE OnPublish(p)
  BY <1>3 DEF OnPublish, metricVars, callVars, sendVars, Goto, At
<1>4. CASE LookNull(p)
  BY <1>4 DEF LookNull, metricVars, sendVars, Goto, At
<1>5. CASE LookValid(p)
  BY <1>5 DEF LookValid, metricVars, callVars, sendVars, Goto, At
<1>6. CASE ReadValue(p)
  BY <1>6 DEF ReadValue, metricVars, callVars, sendVars, Goto, At
<1>7. CASE Send(p)
  BY <1>7 DEF Send, metricVars, callVars, Goto, At
<1>8. CASE SendFails(p)
  BY <1>8 DEF SendFails, metricVars, callVars, sendVars, Goto, At
<1>9. QED
  BY <1>1, <1>2, <1>3, <1>4, <1>5, <1>6, <1>7, <1>8 DEF Publish, Invalidating

\* A failed publisher, or the library, invalidates the metrics.
LEMMA CoversInvalidating ==
  ASSUME TypeOK, TypeOK', OnePublisher, StepsOK, NEW x \in Metrics, Covered(x),
         NEW t \in Publishers \cup {Library}, Invalidating(t)
  PROVE  Covered(x)'
<1> USE DEF Covered, WillMark, WillSend, WillInvalidate, HasSent, Shown,
       Publishing, OnePublisher, StepsOK, TypeOK, Step, Threads
<1>1. CASE Invalidate(t)
  BY <1>1 DEF Invalidate, metricVars, sendVars, Goto, At
<1>2. CASE SetValid(t)
  BY <1>2 DEF SetValid, callVars, sendVars, Goto, At
<1>3. CASE MarkValid(t)
  BY <1>3 DEF MarkValid, SetUpdated, callVars, sendVars, Goto, At
<1>4. CASE AllInvalid(t)
  BY <1>4 DEF AllInvalid, metricVars, callVars, sendVars, Goto, At
<1>5. QED
  BY <1>1, <1>2, <1>3, <1>4 DEF Invalidating

\* The library answers a message.
LEMMA CoversLibrary ==
  ASSUME TypeOK, TypeOK', OnePublisher, StepsOK, NEW x \in Metrics, Covered(x),
         Arrive \/ OnSendFailure \/ UNCHANGED vars
  PROVE  Covered(x)'
<1> USE DEF Covered, WillMark, WillSend, WillInvalidate, HasSent, Shown,
       Publishing, OnePublisher, StepsOK, TypeOK, Step, Threads
<1>1. CASE Arrive
  BY <1>1 DEF Arrive, metricVars, callVars, Goto, At
<1>2. CASE OnSendFailure
  BY <1>2 DEF OnSendFailure, metricVars, callVars, Goto, At
<1>3. CASE UNCHANGED vars
  BY <1>3 DEF vars, metricVars, callVars, sendVars, Goto, At
<1>4. QED
  BY <1>1, <1>2, <1>3

-----------------------------------------------------------------------------
(* The invariant, and the property.                                        *)

LEMMA InvInit == Init => PublishInv
<1> SUFFICES ASSUME Init PROVE PublishInv
  OBVIOUS
<1>1. TypeOK
  BY TypeInit
<1>2. OnePublisher /\ StepsOK
  BY DEF Init, OnePublisher, StepsOK, At, Threads
<1>3. \A m \in Metrics : Covered(m)
  BY DEF Init, Covered
<1>4. QED
  BY <1>1, <1>2, <1>3 DEF PublishInv

LEMMA InvStep == PublishInv /\ [Next]_vars => PublishInv'
<1> SUFFICES ASSUME PublishInv, [Next]_vars PROVE PublishInv'
  OBVIOUS
<1> USE DEF PublishInv
<1>1. TypeOK'
  BY TypeStep
<1>2. OnePublisher' /\ StepsOK'
  BY StepsWriter, StepsPublisher, StepsInvalidating, StepsLibrary DEF Next, Publish
<1>3. ASSUME NEW x \in Metrics PROVE Covered(x)'
  BY <1>1, CoversWriter, CoversPublisher, CoversInvalidating, CoversLibrary
     DEF Next, Publish
<1>4. QED
  BY <1>1, <1>2, <1>3

\* The strengthened invariant holds in every reachable state.
THEOREM PublishInvariant == Spec => []PublishInv
<1>1. Init => PublishInv
  BY InvInit
<1>2. PublishInv /\ [Next]_vars => PublishInv'
  BY InvStep
<1>3. QED
  BY <1>1, <1>2, PTL DEF Spec

\* Once the calls on a metric are over, all that covers a valid metric
\* without updated_ is the latest message.
LEMMA CoveredIsSent == PublishInv => NoUpdateLost
<1> SUFFICES ASSUME PublishInv, NEW m \in Metrics,
                    Settled(m), valid[m], ~updated[m]
             PROVE  sent[m] = Shown(m) /\ fate # "failed"
  BY DEF NoUpdateLost
<1> USE DEF PublishInv, Settled, At
<1>1. Covered(m)
  OBVIOUS
<1>2. \A p \in Publishers : step[p] = "idle"
  BY DEF OnePublisher
<1>3. ~ \E t \in Threads : WillMark(t, m) \/ WillInvalidate(t, m)
  BY <1>2 DEF WillMark, WillInvalidate, Threads, StepsOK
<1>4. ~ \E p \in Publishers : WillSend(p, m)
  BY <1>2 DEF WillSend, Publishing
<1>5. QED
  BY <1>1, <1>3, <1>4 DEF Covered, HasSent

\* No update of a metric is lost between its flags and the publishers
\* (Metric::Value, MqttNode::PublishTopics, MqttTopic::OnPublish).
THEOREM NoUpdateIsLost == Spec => []NoUpdateLost
<1>1. PublishInv => NoUpdateLost
  BY CoveredIsSent
<1>2. QED
  BY <1>1, PublishInvariant, PTL
=============================================================================
