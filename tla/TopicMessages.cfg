SPECIFICATION Spec
CONSTANTS
  Names = {"topic", "m1", "m2"}
  TopicName = "topic"
  UserTypes = {"Int8"}
  Messages <- MCMessages
  MaxMessages = 2
  MaxMetrics = 3
CHECK_DEADLOCK FALSE
INVARIANTS
  MessagesTypeOK
  OneMetricPerName
  GoodHasValue
  GoodIsMessage
  MessageApplied
  NoSecondMetric
  ReadsBack
PROPERTIES
  TypeKept
