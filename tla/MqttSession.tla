---------------------------- MODULE MqttSession ----------------------------
(***************************************************************************)
(* What mqtt::MqttNode promises of its session with the broker, without    *)
(* handles, flags, timers or callbacks: there is at most one session; the  *)
(* node is open only after the broker's answer to the request of that very *)
(* session; a session is given up only by closing, retrying or stopping;   *)
(* and a node that is asked to stop stops.                                 *)
(***************************************************************************)

VARIABLES
  phase,    \* what the node is doing
  session,  \* the session with the broker, as far as it got
  asked     \* has the node been asked to stop?

vars == <<phase, session, asked>>

Phase == {"stopped", "idle", "opening", "open", "closing", "stopping"}
Session == {"none", "created", "requested", "granted", "acknowledged",
            "refused", "lost", "ending", "ended"}

TypeOK == phase \in Phase /\ session \in Session /\ asked \in BOOLEAN

Init == phase = "stopped" /\ session = "none" /\ asked = TRUE

(* The node.                                                               *)

Go(from, to) == phase = from /\ phase' = to /\ UNCHANGED asked

Start == Go("stopped", "idle") /\ session' = "none"

\* What is left of the last session is dropped; no new one came about.
StayIdle == Go("idle", "idle") /\ session' \in {"none", "created"}

Open == Go("idle", "opening") /\ session' = "requested"

GiveUp == Go("opening", "idle") /\ UNCHANGED session

Opened == Go("opening", "open") /\ session = "acknowledged" /\ UNCHANGED session

EndSession == session \in {"granted", "acknowledged"} /\ session' = "ending"

Close == Go("open", "closing") /\ (EndSession \/ UNCHANGED session)

Closed == Go("closing", "idle") /\ UNCHANGED session

Stop ==
  /\ asked
  /\ \E p \in {"idle", "opening", "open", "closing"} : Go(p, "stopping")
  /\ UNCHANGED session

LastGoodbye == Go("stopping", "stopping") /\ EndSession

Stopped == Go("stopping", "stopped") /\ session' = "none"

Node ==
  \/ Start \/ StayIdle \/ Open \/ GiveUp \/ Opened \/ Close \/ Closed
  \/ Stop \/ LastGoodbye \/ Stopped

(* The owner: a stopped node may be restarted, any node asked to stop.     *)

Ask ==
  /\ asked' \in BOOLEAN
  /\ asked' \/ phase = "stopped"
  /\ UNCHANGED <<phase, session>>

(* The broker and the network.                                             *)

Becomes(from, to) == session \in from /\ session' = to

Broker ==
  /\ \/ Becomes({"requested"}, "granted")
     \/ Becomes({"requested"}, "refused")
     \/ Becomes({"granted"}, "acknowledged")
     \/ Becomes({"granted", "acknowledged"}, "lost")
     \/ Becomes({"ending"}, "ended")
  /\ UNCHANGED <<phase, asked>>

Next == Node \/ Ask \/ Broker

SafeSpec == Init /\ [][Next]_vars

Spec == SafeSpec /\ WF_vars(Stop \/ Stopped)
=============================================================================
