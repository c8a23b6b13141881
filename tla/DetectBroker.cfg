SPECIFICATION FairDetectSpec
CONSTANTS
  h1 = h1
  h2 = h2
  Handles = {h1, h2}
  NoHandle = NoHandle
  ClosePolls = 1
  CallsMayFail = TRUE
  PromptBroker = FALSE
  MaxDelay = 2
  TornPoll = FALSE
INVARIANTS
  TypeOK
  NodeInv
  SingleClient
  QuietAfterExit
  OnlineAnswered
  DisconnectAnswered
  DetectTypeOK
  FoundIsQuiet
  OwnAnswer
  FoundTrue
  DetectInv
PROPERTIES
  CallsReturn
  OutOfServiceHonoured
  ImplementsSession
  DetectReturns
