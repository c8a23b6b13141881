--------------------------- MODULE MCDetectBroker ---------------------------
(* DetectBroker, and the node under it with its refinement mapping, on two *)
(* client addresses.                                                       *)
EXTENDS DetectBroker, MqttNodeRefinement

CONSTANTS h1, h2
=============================================================================
