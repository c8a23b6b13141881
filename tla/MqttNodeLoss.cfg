SPECIFICATION FairSpec
CONSTANTS
  h1 = h1
  h2 = h2
  Handles = {h1, h2}
  NoHandle = NoHandle
  ClosePolls = 2
  CallsMayFail = FALSE
  PromptBroker = FALSE
PROPERTIES
  LossNoticed
