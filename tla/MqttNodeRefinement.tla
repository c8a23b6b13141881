------------------------- MODULE MqttNodeRefinement -------------------------
(* MqttNode implements MqttSession: the mapping of its state.              *)
EXTENDS MqttNode

\* The worker's state while it runs, the shutdown sequence taken together
Phase ==
  IF worker \in {"none", "start", "ended"} THEN "stopped"
  ELSE IF worker \in {"closing", "await", "destroy"} THEN "stopping"
  ELSE [Idle |-> "idle", WaitOnConnect |-> "opening", Online |-> "open",
        WaitOnDisconnect |-> "closing"][client_state]

\* A connection counts as acknowledged once the node heard of it.
SessionOf(h) ==
  IF link[h] = "up" /\ "onConnect" \in pending[h] THEN "granted"
  ELSE [none |-> "none", new |-> "created", connecting |-> "requested",
        refused |-> "refused", up |-> "acknowledged", lost |-> "lost",
        closing |-> "ending", closed |-> "ended"][link[h]]

SessionState == IF handle = NoHandle THEN "none" ELSE SessionOf(handle)

Session == INSTANCE MqttSession WITH
  phase <- Phase, session <- SessionState, asked <- stop_client_task

\* MqttNode implements MqttSession: Online (ClientTask's state machine) is
\* reached only on a session of its own that the broker acknowledged, and
\* the worker that is asked to stop drops its session and ends, even if the
\* library never answers.
ImplementsSession == Session!Spec

\* The same without the promise that a stop is carried out.
SafeSession == Session!SafeSpec
=============================================================================
