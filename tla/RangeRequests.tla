--------------------------- MODULE RangeRequests ---------------------------
(***************************************************************************)
(* The data range requests of the sessions that share the magnetometer     *)
(* adaptor (core/nodebase.cpp), first come, first served.  The compass     *)
(* sensor hands its sessions' requests on to the adaptor with              *)
(* setRangeSource(); the magnetometer sensor, when it scales samples,      *)
(* keeps a queue of its own and hands on the request at its head           *)
(* (sensors/magnetometersensor/magnetometersensor.cpp).  A data range is   *)
(* represented by its upper end, in the units of the node.                 *)
(***************************************************************************)
EXTENDS Integers, SequencesExt

CONSTANTS
  ScaledSessions, \* sessions at the magnetometer sensor
  DirectSessions, \* sessions at the compass sensor
  DataRanges,     \* m_dataRangeList of the adaptor, its default first
  Scale           \* scaleCoefficient_

IsRangeSequence(ranges) ==
  ranges # <<>> /\ ranges \in Seq(Nat \ {0})

ASSUME RangeAssumption ==
  /\ ScaledSessions \cup DirectSessions \subseteq Nat
  /\ ScaledSessions \cap DirectSessions = {}
  /\ IsRangeSequence(DataRanges)
  /\ Scale \in Nat \ {0, 1}

VARIABLES
  sensorQueue,  \* m_dataRangeQueue of the magnetometer sensor
  adaptorQueue, \* m_dataRangeQueue of the adaptor
  dataRange     \* the range setDataRange() of the adaptor was last given

rangeVars == <<sensorQueue, adaptorQueue, dataRange>>

ScaledRanges == [i \in DOMAIN DataRanges |-> Scale * DataRanges[i]]

-----------------------------------------------------------------------------
(* The queue of a node.                                                    *)

NoSession == -1

Has(queue, id) == \E i \in DOMAIN queue : queue[i].id = id

Request(id, range) == [id |-> id, range |-> range]

\* getCurrentDataRange()
Current(queue, ranges) ==
  IF queue = <<>> THEN Request(NoSession, ranges[1]) ELSE queue[1]

Without(queue, id) ==
  IF Has(queue, id)
  THEN RemoveAt(queue, CHOOSE i \in DOMAIN queue : queue[i].id = id)
  ELSE queue

\* Mutant: a session that asks again goes to the end of the queue.
Placed_AtEnd(queue, id, range) ==
  Append(Without(queue, id), Request(id, range))

\* An earlier request of the session is replaced where it stands.
Placed(queue, id, range) ==
  IF Has(queue, id)
  THEN [i \in DOMAIN queue |->
          IF queue[i].id = id THEN Request(id, range) ELSE queue[i]]
  ELSE Append(queue, Request(id, range))

RequestChanges(queue, ranges, id, range) ==
  IF queue = <<>> THEN range # ranges[1]
  ELSE queue[1].id = id /\ queue[1].range # range

\* Mutant: the last request is removed without going back to the default.
RemovalChanges_NextOnly(queue, ranges, id) ==
  /\ queue # <<>>
  /\ queue[1].id = id
  /\ Len(queue) > 1 /\ queue[2].range # queue[1].range

\* The range of the session's request leaves the head of the queue.
RemovalChanges(queue, ranges, id) ==
  /\ queue # <<>>
  /\ queue[1].id = id
  /\ \/ Len(queue) > 1 /\ queue[2].range # queue[1].range
     \/ ranges[1] # queue[1].range

-----------------------------------------------------------------------------
RangeInit ==
  /\ sensorQueue = <<>>
  /\ adaptorQueue = <<>>
  /\ dataRange = DataRanges[1]

\* requestDataRange() at the adaptor: a range it does not have is dropped.
requestAtAdaptor(id, range) ==
  IF range \notin Range(DataRanges) THEN UNCHANGED <<adaptorQueue, dataRange>>
  ELSE
    /\ adaptorQueue' = Placed(adaptorQueue, id, range)
    /\ dataRange' = IF RequestChanges(adaptorQueue, DataRanges, id, range)
                    THEN Current(adaptorQueue', DataRanges).range
                    ELSE dataRange

\* MagnetometerSensorChannel::setDataRange(): the range, which is in the
\* sensor's units already, is scaled once more.
setDataRange(request) == requestAtAdaptor(request.id, Scale * request.range)

requestDataRange(s, i) ==
  \/ /\ s \in DirectSessions
     /\ requestAtAdaptor(s, DataRanges[i])
     /\ UNCHANGED sensorQueue
  \/ /\ s \in ScaledSessions
     /\ sensorQueue' = Placed(sensorQueue, s, ScaledRanges[i])
     /\ IF RequestChanges(sensorQueue, ScaledRanges, s, ScaledRanges[i])
        THEN setDataRange(Current(sensorQueue', ScaledRanges))
        ELSE UNCHANGED <<adaptorQueue, dataRange>>

removeAtAdaptor(s) ==
  /\ adaptorQueue' = Without(adaptorQueue, s)
  /\ dataRange' = IF RemovalChanges(adaptorQueue, DataRanges, s)
                  THEN Current(adaptorQueue', DataRanges).range
                  ELSE dataRange

\* The magnetometer sensor hands on its new head and does not withdraw the
\* old one.
removeDataRangeRequest(s) ==
  \/ /\ s \in DirectSessions
     /\ removeAtAdaptor(s)
     /\ UNCHANGED sensorQueue
  \/ /\ s \in ScaledSessions
     /\ sensorQueue' = Without(sensorQueue, s)
     /\ IF RemovalChanges(sensorQueue, ScaledRanges, s)
        THEN setDataRange(Current(sensorQueue', ScaledRanges))
        ELSE UNCHANGED <<adaptorQueue, dataRange>>

RangeNext ==
  \E s \in ScaledSessions \cup DirectSessions :
    \/ \E i \in DOMAIN DataRanges : requestDataRange(s, i)
    \/ removeDataRangeRequest(s)

RangeSpec == RangeInit /\ [][RangeNext]_rangeVars

-----------------------------------------------------------------------------
Ids == ScaledSessions \cup DirectSessions \cup {NoSession}

Requests(ranges) == [id : Ids, range : Range(ranges)]

RangeTypeOK ==
  /\ sensorQueue \in Seq(Requests(ScaledRanges))
  /\ adaptorQueue \in Seq(Requests(DataRanges))
  /\ dataRange \in Range(DataRanges)

OnePerSession(queue) ==
  \A i, j \in DOMAIN queue : queue[i].id = queue[j].id => i = j

\* The range the adaptor was last told to use is the one at the head of its
\* queue, or its default when nobody asks: requestDataRange() and
\* removeDataRangeRequest() guess from the old queue whether the range will
\* change, and a wrong guess leaves the adaptor at a range nobody has.
HeadInForce == dataRange = Current(adaptorQueue, DataRanges).range

\* "First come, first served" (doc/mainpage.h:525): of two sessions that
\* wait in a queue none overtakes the other, by asking again or by the
\* removal of a third, and none waits twice.
Overtaken(queue, next) ==
  \E i, j \in DOMAIN queue : \E k, l \in DOMAIN next :
    /\ i < j /\ k >= l
    /\ queue[i].id = next[k].id /\ queue[j].id = next[l].id

FirstComeFirstServed ==
  [][/\ ~Overtaken(sensorQueue, sensorQueue')
     /\ ~Overtaken(adaptorQueue, adaptorQueue')
     /\ OnePerSession(sensorQueue') /\ OnePerSession(adaptorQueue')]_rangeVars

=============================================================================
