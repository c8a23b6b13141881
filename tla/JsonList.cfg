SPECIFICATION Spec
CONSTANTS
  Names = {"topic", "m1", "m2"}
  TopicName = "topic"
  UserTypes = {"Int8"}
  Messages <- SingleMetricJson
  MaxMessages = 1
  MaxMetrics = 3
INVARIANT
 EveryMemberTreated
CHECK_DEADLOCK FALSE
