-------------------------- MODULE MCSensorSessions --------------------------
(* Model-checking instance of SensorSessions. *)
EXTENDS SensorSessions, TLC

CONSTANTS c1, c2, i1, i2, acc, als

\* Two clients of the same sensor.
OneSensor == [i \in {i1, i2} |-> acc]
TwoClients == (i1 :> c1) @@ (i2 :> c2)

\* One client with interfaces to two sensors.
TwoSensors == (i1 :> acc) @@ (i2 :> als)
OneClient == [i \in {i1, i2} |-> c1]
=============================================================================
