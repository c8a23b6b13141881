SPECIFICATION Spec
CONSTANTS
  Sparkplug = "spBv1.0"
  Parts = {"", "spBv1.0", "STATE", "b"}
  Given <- MCGiven
INVARIANTS
  ReceiverAgrees
