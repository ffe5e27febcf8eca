-------------------------- MODULE IntervalRequests --------------------------
(***************************************************************************)
(* The interval requests of the sessions that share one adaptor            *)
(* (core/nodebase.cpp).  Most sensors and chains hand a request on to the  *)
(* adaptor with setIntervalSource(); the rotation sensor, which merges two *)
(* chains, keeps a table of its own and hands on the winning request only  *)
(* (sensors/rotationsensor/rotationsensor.cpp).  Requests of 0 are kept in *)
(* the tables and never win against a positive one.                        *)
(***************************************************************************)
EXTENDS Integers

CONSTANTS
  RotationSessions, \* sessions at the rotation sensor
  SourceSessions,   \* sessions whose sensor hands requests on to the adaptor
  RotationRanges,   \* m_intervalList of the rotation sensor
  AdaptorRanges,    \* m_intervalList of the adaptor
  RotationDefault,  \* m_defaultInterval_us of the two, 0 when there is none
  AdaptorDefault,
  Intervals,        \* the intervals clients ask for
  MaxSessionId      \* bound of the session ids, which are ints

Sessions == RotationSessions \cup SourceSessions

IsRangeList(ranges) ==
  /\ DOMAIN ranges \subseteq Nat \ {0}
  /\ \A i \in DOMAIN ranges :
       /\ ranges[i].min \in Nat \ {0}
       /\ ranges[i].max \in Nat
       /\ ranges[i].min <= ranges[i].max

ASSUME IntervalAssumption ==
  /\ MaxSessionId \in Nat /\ Sessions \subseteq 0 .. MaxSessionId
  /\ RotationSessions \cap SourceSessions = {}
  /\ IsRangeList(RotationRanges) /\ DOMAIN RotationRanges # {}
  /\ IsRangeList(AdaptorRanges) /\ DOMAIN AdaptorRanges # {}
  /\ RotationDefault \in Nat /\ AdaptorDefault \in Nat
  /\ Intervals \subseteq Nat

VARIABLES
  merged,   \* m_intervalMap of the rotation sensor
  requests, \* m_intervalMap of the adaptor
  interval  \* m_interval_us of the adaptor

intervalVars == <<merged, requests, interval>>

NoRequest == -1   \* the session has no entry in the table

-----------------------------------------------------------------------------
(* validateIntervalRequest(): the value itself when a range holds it, else *)
(* the nearest edge of a range, the first in the list of equally near ones. *)

Edge(range, value) ==
  IF value < range.min THEN range.min
  ELSE IF value > range.max THEN range.max ELSE value

Error(range, value) ==
  IF value < range.min THEN range.min - value
  ELSE IF value > range.max THEN value - range.max ELSE 0

Nearest(ranges, value) ==
  CHOOSE i \in DOMAIN ranges :
    \A j \in DOMAIN ranges :
      \/ Error(ranges[i], value) < Error(ranges[j], value)
      \/ /\ Error(ranges[i], value) = Error(ranges[j], value)
         /\ i <= j

validate(ranges, value) ==
  IF value = 0 THEN 0 ELSE Edge(ranges[Nearest(ranges, value)], value)

(* evaluateIntervalRequests(): the table is read in the order of the       *)
(* session ids.  Only when every request is 0 does the last of them "win", *)
(* with the default interval.                                              *)

Requested(table) == {s \in DOMAIN table : table[s] # NoRequest}
Positive(table)  == {s \in DOMAIN table : table[s] > 0}

\* Mutant: 0 is compared as if it were the fastest request.
Winner_ZeroWins(table) ==
  CHOOSE s \in Requested(table) :
    \A t \in Requested(table) :
      table[s] < table[t] \/ (table[s] = table[t] /\ s <= t)

Winner(table) ==
  IF Positive(table) # {}
  THEN CHOOSE s \in Positive(table) :
         \A t \in Positive(table) :
           table[s] < table[t] \/ (table[s] = table[t] /\ s <= t)
  ELSE CHOOSE s \in Requested(table) : \A t \in Requested(table) : t <= s

Winning(table, default) ==
  IF Positive(table) # {} THEN table[Winner(table)] ELSE default

\* The adaptor's table after a rotation sensor whose table is `own' has
\* handed on its winner.
Forwarded(own, table) ==
  IF Requested(own) = {} THEN table
  ELSE [table EXCEPT ![Winner(own)] =
          validate(AdaptorRanges, Winning(own, RotationDefault))]

\* Nothing is set when the table is empty: the last interval stays.
InForce(table) ==
  IF Requested(table) = {} THEN interval ELSE Winning(table, AdaptorDefault)

-----------------------------------------------------------------------------
IntervalInit ==
  /\ merged = [s \in RotationSessions |-> NoRequest]
  /\ requests = [s \in Sessions |-> NoRequest]
  /\ interval = 0

setIntervalRequest(s, value) ==
  /\ \/ /\ s \in RotationSessions
        /\ merged' = [merged EXCEPT ![s] = validate(RotationRanges, value)]
        /\ requests' = Forwarded(merged', requests)
     \/ /\ s \in SourceSessions
        /\ requests' = [requests EXCEPT ![s] = validate(AdaptorRanges, value)]
        /\ UNCHANGED merged
  /\ interval' = InForce(requests')

\* A session that starts, or asks for the default, asks every node below it
\* that has a default, sources first.
Seeded(s) ==
  IF AdaptorDefault = 0 THEN requests
  ELSE [requests EXCEPT ![s] = validate(AdaptorRanges, AdaptorDefault)]

requestDefaultInterval(s) ==
  /\ \/ /\ s \in RotationSessions
        /\ merged' =
             [merged EXCEPT ![s] = validate(RotationRanges, RotationDefault)]
        /\ requests' = Forwarded(merged', Seeded(s))
     \/ /\ s \in SourceSessions
        /\ requests' = Seeded(s)
        /\ UNCHANGED merged
  /\ interval' = InForce(requests')

\* Mutant: the sources forget the session only if it won at the sensor.
Withdrawn_WinnerOnly(s) ==
  IF s \in RotationSessions /\ Requested(merged) # {} /\ Winner(merged) # s
  THEN requests
  ELSE [requests EXCEPT ![s] = NoRequest]

\* The request goes from the sources first; what is left at the rotation
\* sensor is evaluated and handed on again.
Withdrawn(s) == [requests EXCEPT ![s] = NoRequest]

removeIntervalRequest(s) ==
  /\ \/ /\ s \in RotationSessions
        /\ merged' = [merged EXCEPT ![s] = NoRequest]
        /\ requests' = Forwarded(merged', Withdrawn(s))
     \/ /\ s \in SourceSessions
        /\ requests' = Withdrawn(s)
        /\ UNCHANGED merged
  /\ interval' = InForce(requests')

IntervalNext ==
  \E s \in Sessions :
    \/ \E value \in Intervals : setIntervalRequest(s, value)
    \/ requestDefaultInterval(s)
    \/ removeIntervalRequest(s)

IntervalSpec == IntervalInit /\ [][IntervalNext]_intervalVars

-----------------------------------------------------------------------------
IntervalTypeOK ==
  /\ merged \in [RotationSessions -> Nat \cup {NoRequest}]
  /\ requests \in [Sessions -> Nat \cup {NoRequest}]
  /\ interval \in Nat

\* The adaptor measures at least as fast as every session needs, whichever
\* node its request stopped at: "the real used value will be the smallest
\* value, ensuring that data is measured as fast as required"
\* (doc/mainpage.h:638).  The rotation sensor's sessions depend on its
\* handing on the right request at each change of its table, under the name
\* of a session that others then raise, withdraw or undercut.
FastEnough ==
  /\ \A s \in RotationSessions :
       merged[s] > 0 => interval \in 1 .. validate(AdaptorRanges, merged[s])
  /\ \A s \in SourceSessions :
       requests[s] > 0 => interval \in 1 .. requests[s]

\* A session known to the adaptor is known to its sensor: no withdrawal at
\* the sensor leaves a request behind that keeps the adaptor fast for nobody.
\* Requests reach the adaptor under the winner's name, not the caller's.
NoOrphanRequest ==
  \A s \in RotationSessions :
    requests[s] # NoRequest => merged[s] # NoRequest

=============================================================================
