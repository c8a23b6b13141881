----------------------------- MODULE MCMqttNode -----------------------------
(* MqttNode on two client addresses.                                       *)
EXTENDS MqttNode, TLC

CONSTANTS h1, h2

\* The addresses are interchangeable; used for the safety runs only.
Symmetry == Permutations(Handles)
=============================================================================
