---------------------------- MODULE NodeRequests ----------------------------
(***************************************************************************)
(* The property requests of the sessions of four sensors that share the    *)
(* accelerometer and the magnetometer adaptor: the interval requests meet  *)
(* at the first, the data range requests at the second, and the compass    *)
(* sensor's sessions have requests at both.  What composes them is         *)
(* removeSession(), called when a session stops and when it is released,   *)
(* which withdraws everything the session ever asked for at once.          *)
(***************************************************************************)
EXTENDS IntervalRequests, RangeRequests

AllSessions == Sessions \cup ScaledSessions \cup DirectSessions

vars == <<merged, requests, interval, sensorQueue, adaptorQueue, dataRange>>

Init == IntervalInit /\ RangeInit

IntervalStep == IntervalNext /\ UNCHANGED rangeVars

RangeStep == RangeNext /\ UNCHANGED intervalVars

\* Mutant: the data ranges of the session are left to the sensor.
removeSession_SensorOnly(s) ==
  /\ IF s \in Sessions THEN removeIntervalRequest(s)
                       ELSE UNCHANGED intervalVars
  /\ IF s \in ScaledSessions THEN removeDataRangeRequest(s)
                             ELSE UNCHANGED rangeVars

removeSession(s) ==
  /\ IF s \in Sessions THEN removeIntervalRequest(s)
                       ELSE UNCHANGED intervalVars
  /\ IF s \in ScaledSessions \cup DirectSessions
     THEN removeDataRangeRequest(s) ELSE UNCHANGED rangeVars

Next == IntervalStep \/ RangeStep \/ \E s \in AllSessions : removeSession(s)

Spec == Init /\ [][Next]_vars

-----------------------------------------------------------------------------
TypeOK == IntervalTypeOK /\ RangeTypeOK

\* When a session stops or is released, no node of the graph remembers it,
\* however its requests travelled: "Removes session related associates from
\* the node" (core/nodebase.h).  The next session to come would otherwise be
\* bound by somebody who is gone.  It holds as long as no range scaled twice
\* is a range of the adaptor: one that is would be queued there under a
\* session of the magnetometer sensor, which withdraws nothing.
Forgotten(s) ==
  /\ s \in RotationSessions => merged[s] = NoRequest
  /\ s \in Sessions => requests[s] = NoRequest
  /\ ~Has(sensorQueue, s) /\ ~Has(adaptorQueue, s)

GoneIsForgotten ==
  [][\A s \in AllSessions : removeSession(s) => Forgotten(s)']_vars

=============================================================================
