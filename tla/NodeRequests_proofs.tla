------------------------ MODULE NodeRequests_proofs ------------------------
(***************************************************************************)
(* Proofs about the requests of sessions at nodes, for any sessions, any   *)
(* ranges and any scale.  The interval requests: the adaptor is fast       *)
(* enough for every session, and knows no session that its sensor does not *)
(* know.  The data range requests: the queues keep one request per session *)
(* in the order of arrival, and the adaptor uses the range at the head of  *)
(* its queue.  Both together: a node graph whose sessions come and go      *)
(* keeps what was proved of each kind alone.                               *)
(* A session that left is remembered by no node.                           *)
(***************************************************************************)
EXTENDS NodeRequests, FiniteSetTheorems, WellFoundedInduction, SequenceTheorems, TLAPS

-----------------------------------------------------------------------------
(* Least and greatest numbers, on which the two evaluations rest.          *)

\* A non-empty set of naturals has a least element.
LEMMA LeastExists ==
  ASSUME NEW T \in SUBSET Nat, T # {}
  PROVE  \E m \in T : \A n \in T : m <= n
<1> DEFINE F == {0 .. n : n \in T}
<1>1. IsWellFoundedOn(StrictSubsetOrdering(Nat), FiniteSubsetsOf(Nat))
  BY FS_StrictSubsetOrderingWellFounded
<1>2. F \subseteq FiniteSubsetsOf(Nat)
  <2>1. \A n \in T : IsFiniteSet(0 .. n)
    BY FS_Interval
  <2>2. \A n \in T : 0 .. n \in SUBSET Nat
    OBVIOUS
  <2> QED
    BY <2>1, <2>2 DEF FiniteSubsetsOf
<1>3. F # {}
  OBVIOUS
<1>4. PICK X \in F : \A Y \in F : ~(<<Y, X>> \in StrictSubsetOrdering(Nat))
  BY <1>1, <1>2, <1>3, WFMin
<1>5. PICK m \in T : X = 0 .. m
  OBVIOUS
<1>6. ASSUME NEW n \in T, n < m
      PROVE  FALSE
  <2>1. /\ 0 .. n \in SUBSET Nat /\ 0 .. m \in SUBSET Nat
        /\ 0 .. n \subseteq 0 .. m /\ m \in 0 .. m /\ m \notin 0 .. n
    BY <1>6
  <2>2. <<0 .. n, 0 .. m>> \in StrictSubsetOrdering(Nat)
    BY <2>1 DEF StrictSubsetOrdering
  <2> QED
    BY <1>4, <1>5, <2>2
<1> QED
  BY <1>6

\* A non-empty bounded set of naturals has a greatest element.
LEMMA GreatestExists ==
  ASSUME NEW T, T # {}, NEW largest \in Nat, T \subseteq 0 .. largest
  PROVE  \E m \in T : \A n \in T : n <= m
<1> DEFINE U == {u \in Nat : \A n \in T : n <= u}
<1>1. U # {} /\ U \in SUBSET Nat
  OBVIOUS
<1>2. PICK u \in U : \A v \in U : u <= v
  BY <1>1, LeastExists
<1>3. CASE u \in T
  BY <1>3
<1>4. CASE u \notin T
  <2>1. \A n \in T : n < u
    BY <1>4
  <2>2. u - 1 \in U
    <3>1. u \in Nat /\ \A n \in T : n \in Nat
      OBVIOUS
    <3>2. PICK n \in T : TRUE
      OBVIOUS
    <3>3. n < u /\ n \in Nat
      BY <2>1, <3>1
    <3>4. u - 1 \in Nat
      BY <3>1, <3>3
    <3>5. \A k \in T : k <= u - 1
      BY <2>1, <3>1
    <3> QED
      BY <3>4, <3>5
  <2> QED
    BY <1>2, <2>2
<1> QED
  BY <1>3, <1>4

-----------------------------------------------------------------------------
(* validateIntervalRequest()                                               *)

\* The chosen range is one of the list, and none is nearer.
LEMMA NearestIsNear ==
  ASSUME NEW ranges, IsRangeList(ranges), DOMAIN ranges # {}, NEW value \in Nat
  PROVE  /\ Nearest(ranges, value) \in DOMAIN ranges
         /\ \A j \in DOMAIN ranges :
              Error(ranges[Nearest(ranges, value)], value)
                <= Error(ranges[j], value)
<1> DEFINE E(i) == Error(ranges[i], value)
           errors == {E(i) : i \in DOMAIN ranges}
<1>1. \A i \in DOMAIN ranges : i \in Nat /\ E(i) \in Nat
  BY DEF IsRangeList, Error
<1>2. errors \in SUBSET Nat /\ errors # {}
  BY <1>1
<1> HIDE DEF E
<1>3. PICK e \in errors : \A n \in errors : e <= n
  BY <1>2, LeastExists
<1> DEFINE near == {i \in DOMAIN ranges : E(i) = e}
<1>4. near \in SUBSET Nat /\ near # {}
  BY <1>1
<1>5. PICK i \in near : \A j \in near : i <= j
  BY <1>4, LeastExists
<1>6. \A j \in DOMAIN ranges :
        E(i) < E(j) \/ (E(i) = E(j) /\ i <= j)
  BY <1>1, <1>2, <1>3, <1>5
<1>7. i \in DOMAIN ranges
  BY <1>5
<1>8. /\ Nearest(ranges, value) \in DOMAIN ranges
      /\ \A j \in DOMAIN ranges :
           \/ E(Nearest(ranges, value)) < E(j)
           \/ E(Nearest(ranges, value)) = E(j) /\ Nearest(ranges, value) <= j
  BY <1>6, <1>7 DEF Nearest, E
<1> QED
  BY <1>1, <1>8 DEF E

\* A validated interval is a number, and positive when it was asked for.
LEMMA ValidateType ==
  ASSUME NEW ranges, IsRangeList(ranges), DOMAIN ranges # {}, NEW value \in Nat
  PROVE  /\ validate(ranges, value) \in Nat
         /\ value > 0 => validate(ranges, value) > 0
<1>1. Nearest(ranges, value) \in DOMAIN ranges
  BY NearestIsNear
<1> QED
  BY <1>1 DEF validate, Edge, IsRangeList

\* Rounding to a range keeps the order of two requests.
LEMMA ValidateMonotonic ==
  ASSUME NEW ranges, IsRangeList(ranges), DOMAIN ranges # {},
         NEW a \in Nat, NEW b \in Nat, 0 < a, a <= b
  PROVE  validate(ranges, a) <= validate(ranges, b)
<1> DEFINE i == Nearest(ranges, a)
           j == Nearest(ranges, b)
<1>1. /\ i \in DOMAIN ranges /\ j \in DOMAIN ranges
      /\ Error(ranges[i], a) <= Error(ranges[j], a)
      /\ Error(ranges[j], b) <= Error(ranges[i], b)
  BY NearestIsNear
<1>2. CASE a = b
  BY <1>2, ValidateType
<1>3. CASE a < b
  <2> HIDE DEF i, j
  <2>1. Edge(ranges[i], a) <= Edge(ranges[j], b)
    BY <1>1, <1>3 DEF Edge, Error, IsRangeList
  <2> QED
    BY <2>1, <1>3 DEF validate, i, j
<1> QED
  BY <1>2, <1>3

-----------------------------------------------------------------------------
(* evaluateIntervalRequests() and what the rotation sensor hands on        *)

Table(S) == [S -> Nat \cup {NoRequest}]

\* A positive winner is the smallest positive request.
LEMMA WinnerIsSmallest ==
  ASSUME NEW S \in SUBSET Nat, NEW table \in Table(S), Positive(table) # {}
  PROVE  /\ Winner(table) \in Positive(table)
         /\ \A t \in Positive(table) : table[Winner(table)] <= table[t]
<1> DEFINE P == Positive(table)
           values == {table[t] : t \in P}
<1>1. P \in SUBSET S /\ P # {} /\ \A t \in P : table[t] \in Nat /\ t \in Nat
  BY DEF Positive, Table, NoRequest
<1> HIDE DEF P
<1>2. values \in SUBSET Nat /\ values # {}
  BY <1>1
<1>3. PICK v \in values : \A n \in values : v <= n
  BY <1>2, LeastExists
<1> DEFINE best == {t \in P : table[t] = v}
<1>4. best \in SUBSET Nat /\ best # {}
  BY <1>1
<1>5. PICK s \in best : \A t \in best : s <= t
  BY <1>4, LeastExists
<1>6. \A t \in P : table[s] < table[t] \/ (table[s] = table[t] /\ s <= t)
  BY <1>1, <1>2, <1>3, <1>5
<1>7. s \in P
  BY <1>5
<1>8. /\ Winner(table) \in P
      /\ \A t \in P : \/ table[Winner(table)] < table[t]
                      \/ (table[Winner(table)] = table[t] /\ Winner(table) <= t)
  BY <1>1, <1>6, <1>7 DEF Winner, P
<1> QED
  BY <1>1, <1>8 DEF P

\* The winner is a session with a request.
LEMMA WinnerRequested ==
  ASSUME NEW S, S \subseteq Sessions, NEW table \in Table(S),
         Requested(table) # {}
  PROVE  Winner(table) \in Requested(table)
<1>1. MaxSessionId \in Nat /\ Sessions \subseteq 0 .. MaxSessionId
  BY IntervalAssumption
<1>2. CASE Positive(table) # {}
  <2>1. S \in SUBSET Nat
    BY <1>1
  <2>2. Winner(table) \in Positive(table)
    BY <1>2, <2>1, WinnerIsSmallest
  <2> QED
    BY <2>2 DEF Positive, Requested, NoRequest, Table
<1>3. CASE Positive(table) = {}
  <2>1. Requested(table) \subseteq 0 .. MaxSessionId
    BY <1>1 DEF Requested, Table
  <2>2. \E s \in Requested(table) : \A t \in Requested(table) : t <= s
    BY <1>1, <2>1, GreatestExists
  <2> QED
    BY <1>3, <2>2 DEF Winner
<1> QED
  BY <1>2, <1>3

\* Handing on the winner writes its entry at the adaptor and no other.
LEMMA ForwardedWrites ==
  ASSUME NEW own \in Table(RotationSessions), NEW table \in Table(Sessions)
  PROVE  /\ Forwarded(own, table) \in Table(Sessions)
         /\ \A s \in Sessions :
              s \notin Requested(own) => Forwarded(own, table)[s] = table[s]
         /\ Positive(own) # {} =>
              Forwarded(own, table)[Winner(own)]
                = validate(AdaptorRanges, own[Winner(own)])
<1>1. CASE Requested(own) = {}
  BY <1>1 DEF Forwarded, Requested, Positive, NoRequest, Table
<1>2. CASE Requested(own) # {}
  <2> DEFINE w == Winner(own)
             v == validate(AdaptorRanges, Winning(own, RotationDefault))
  <2>1. w \in Requested(own) /\ w \in Sessions
    BY <1>2, WinnerRequested DEF Sessions, Requested, Table
  <2>2. Winning(own, RotationDefault) \in Nat
    <3>1. CASE Positive(own) # {}
      <4>1. w \in Positive(own)
        BY <3>1, IntervalAssumption, WinnerIsSmallest DEF Sessions
      <4> QED
        BY <3>1, <4>1 DEF Winning, Positive, Table, NoRequest
    <3>2. CASE Positive(own) = {}
      BY <3>2, IntervalAssumption DEF Winning
    <3> QED
      BY <3>1, <3>2
  <2>3. v \in Nat
    BY <2>2, IntervalAssumption, ValidateType
  <2>4. Forwarded(own, table) = [table EXCEPT ![w] = v]
    BY <1>2 DEF Forwarded
  <2>5. Positive(own) # {} => v = validate(AdaptorRanges, own[w])
    BY DEF Winning
  <2> HIDE DEF w, v
  <2>6. /\ [table EXCEPT ![w] = v] \in Table(Sessions)
        /\ [table EXCEPT ![w] = v][w] = v
        /\ \A s \in Sessions : s # w => [table EXCEPT ![w] = v][s] = table[s]
    BY <2>1, <2>3 DEF Table
  <2> QED
    BY <2>1, <2>4, <2>5, <2>6 DEF w
<1> QED
  BY <1>1, <1>2

\* The interval set after an evaluation is the smallest positive request.
LEMMA InForceIsSmallest ==
  ASSUME NEW table \in Table(Sessions), interval \in Nat
  PROVE  /\ InForce(table) \in Nat
         /\ Positive(table) # {} => InForce(table) = table[Winner(table)]
<1>1. CASE Positive(table) # {}
  <2>1. Winner(table) \in Positive(table)
    BY <1>1, IntervalAssumption, WinnerIsSmallest
  <2>2. Requested(table) # {} /\ table[Winner(table)] \in Nat
    BY <2>1 DEF Positive, Requested, Table, NoRequest
  <2> QED
    BY <1>1, <2>2 DEF InForce, Winning
<1>2. CASE Positive(table) = {}
  BY <1>2, IntervalAssumption DEF InForce, Winning
<1> QED
  BY <1>1, <1>2

-----------------------------------------------------------------------------
(* The inductive invariant: what the rotation sensor last handed on is     *)
(* still at the adaptor, and the adaptor runs at its smallest request.     *)

HandedOn ==
  Positive(merged) # {} =>
    requests[Winner(merged)] = validate(AdaptorRanges, merged[Winner(merged)])

SmallestInForce ==
  Positive(requests) # {} => interval = requests[Winner(requests)]

IInv ==
  /\ merged \in Table(RotationSessions)
  /\ requests \in Table(Sessions)
  /\ interval \in Nat
  /\ HandedOn
  /\ SmallestInForce
  /\ NoOrphanRequest

LEMMA InitInvariant == IntervalInit => IInv
BY DEF IntervalInit, IInv, Table, HandedOn, SmallestInForce, NoOrphanRequest,
       Positive, NoRequest, Sessions

\* A step of a rotation session: whatever its own entries became, the sensor
\* hands on a winner and the adaptor evaluates.
LEMMA RotationStep ==
  ASSUME IInv, NEW table \in Table(Sessions),
         merged' \in Table(RotationSessions),
         requests' = Forwarded(merged', table),
         interval' = InForce(requests'),
         \A s \in RotationSessions :
           table[s] # NoRequest => merged'[s] # NoRequest
  PROVE  IInv'
<1>1. /\ requests' \in Table(Sessions)
      /\ \A s \in Sessions :
           s \notin Requested(merged') => requests'[s] = table[s]
      /\ Positive(merged') # {} =>
           requests'[Winner(merged')]
             = validate(AdaptorRanges, merged'[Winner(merged')])
  BY ForwardedWrites
<1>2. /\ interval' \in Nat
      /\ Positive(requests') # {} => interval' = requests'[Winner(requests')]
  BY <1>1, InForceIsSmallest DEF IInv
<1>3. NoOrphanRequest'
  BY <1>1 DEF NoOrphanRequest, Requested, Table, Sessions
<1> QED
  BY <1>1, <1>2, <1>3 DEF IInv, HandedOn, SmallestInForce

\* A step of a session that asks the adaptor itself does not touch what the
\* rotation sensor handed on.
LEMMA SourceStep ==
  ASSUME IInv, NEW s \in SourceSessions, NEW v \in Nat \cup {NoRequest},
         requests' = [requests EXCEPT ![s] = v],
         interval' = InForce(requests'),
         merged' = merged
  PROVE  IInv'
<1>1. s \notin RotationSessions /\ s \in Sessions
  BY IntervalAssumption DEF Sessions
<1>2. requests' \in Table(Sessions)
  BY DEF IInv, Table
<1>3. \A t \in RotationSessions : requests'[t] = requests[t]
  BY <1>1 DEF IInv, Table, Sessions
<1>4. /\ interval' \in Nat
      /\ Positive(requests') # {} => interval' = requests'[Winner(requests')]
  BY <1>2, InForceIsSmallest DEF IInv
<1>5. HandedOn'
  <2>1. SUFFICES ASSUME Positive(merged) # {}
                 PROVE  requests'[Winner(merged)]
                          = validate(AdaptorRanges, merged[Winner(merged)])
    BY DEF HandedOn
  <2>2. Winner(merged) \in RotationSessions
    BY <2>1, IntervalAssumption, WinnerIsSmallest
       DEF IInv, Sessions, Positive, Table
  <2> QED
    BY <1>3, <2>1, <2>2 DEF IInv, HandedOn
<1>6. NoOrphanRequest'
  BY <1>3 DEF IInv, NoOrphanRequest
<1> QED
  BY <1>2, <1>4, <1>5, <1>6 DEF IInv, SmallestInForce

LEMMA NextInvariant == IInv /\ [IntervalNext]_intervalVars => IInv'
<1> SUFFICES ASSUME IInv, [IntervalNext]_intervalVars PROVE IInv'
  OBVIOUS
<1>1. ASSUME NEW s \in Sessions, NEW value \in Intervals,
             setIntervalRequest(s, value)
      PROVE  IInv'
  <2>1. value \in Nat
    BY IntervalAssumption
  <2>2. CASE s \in RotationSessions /\ s \notin SourceSessions
    <3>1. validate(RotationRanges, value) \in Nat
      BY <2>1, IntervalAssumption, ValidateType
    <3>2. merged' = [merged EXCEPT ![s] = validate(RotationRanges, value)]
      BY <1>1, <2>2 DEF setIntervalRequest
    <3>3. /\ merged' \in Table(RotationSessions)
          /\ \A t \in RotationSessions :
               requests[t] # NoRequest => merged'[t] # NoRequest
      BY <2>2, <3>1, <3>2 DEF IInv, Table, NoOrphanRequest, NoRequest
    <3> QED
      BY <1>1, <2>2, <3>3, RotationStep DEF setIntervalRequest, IInv
  <2>3. CASE s \in SourceSessions /\ s \notin RotationSessions
    <3>1. validate(AdaptorRanges, value) \in Nat
      BY <2>1, IntervalAssumption, ValidateType
    <3> QED
      BY <1>1, <2>3, <3>1, SourceStep DEF setIntervalRequest
  <2> QED
    BY <2>2, <2>3, IntervalAssumption DEF Sessions
<1>2. ASSUME NEW s \in Sessions, requestDefaultInterval(s)
      PROVE  IInv'
  <2>1. validate(AdaptorRanges, AdaptorDefault) \in Nat
    BY IntervalAssumption, ValidateType
  <2>2. /\ Seeded(s) \in Table(Sessions)
        /\ \A t \in Sessions : t # s => Seeded(s)[t] = requests[t]
    BY <2>1 DEF Seeded, IInv, Table
  <2>3. CASE s \in RotationSessions /\ s \notin SourceSessions
    <3>1. validate(RotationRanges, RotationDefault) \in Nat
      BY IntervalAssumption, ValidateType
    <3>2. merged' =
            [merged EXCEPT ![s] = validate(RotationRanges, RotationDefault)]
      BY <1>2, <2>3 DEF requestDefaultInterval
    <3>3. /\ merged' \in Table(RotationSessions)
          /\ \A t \in RotationSessions :
               Seeded(s)[t] # NoRequest => merged'[t] # NoRequest
      BY <2>2, <2>3, <3>1, <3>2
         DEF IInv, Table, NoOrphanRequest, NoRequest, Sessions
    <3> QED
      BY <1>2, <2>2, <2>3, <3>3, RotationStep DEF requestDefaultInterval
  <2>4. CASE s \in SourceSessions /\ s \notin RotationSessions
    <3>1. \E v \in Nat \cup {NoRequest} :
            Seeded(s) = [requests EXCEPT ![s] = v]
      <4>1. CASE AdaptorDefault = 0
        BY <4>1 DEF Seeded, IInv, Table
      <4>2. CASE AdaptorDefault # 0
        BY <4>2, <2>1 DEF Seeded
      <4> QED
        BY <4>1, <4>2
    <3> QED
      BY <1>2, <2>4, <3>1, SourceStep DEF requestDefaultInterval
  <2> QED
    BY <2>3, <2>4, IntervalAssumption DEF Sessions
<1>3. ASSUME NEW s \in Sessions, removeIntervalRequest(s)
      PROVE  IInv'
  <2>1. /\ Withdrawn(s) \in Table(Sessions)
        /\ Withdrawn(s)[s] = NoRequest
        /\ \A t \in Sessions : t # s => Withdrawn(s)[t] = requests[t]
    BY DEF Withdrawn, IInv, Table
  <2>2. CASE s \in RotationSessions /\ s \notin SourceSessions
    <3>1. merged' = [merged EXCEPT ![s] = NoRequest]
      BY <1>3, <2>2 DEF removeIntervalRequest
    <3>2. /\ merged' \in Table(RotationSessions)
          /\ \A t \in RotationSessions :
               Withdrawn(s)[t] # NoRequest => merged'[t] # NoRequest
      BY <2>1, <2>2, <3>1 DEF IInv, Table, NoOrphanRequest, Sessions
    <3> QED
      BY <1>3, <2>1, <2>2, <3>2, RotationStep DEF removeIntervalRequest
  <2>3. CASE s \in SourceSessions /\ s \notin RotationSessions
    BY <1>3, <2>3, SourceStep DEF removeIntervalRequest, Withdrawn
  <2> QED
    BY <2>2, <2>3, IntervalAssumption DEF Sessions
<1>4. CASE UNCHANGED intervalVars
  BY <1>4 DEF intervalVars, IInv, HandedOn, SmallestInForce, NoOrphanRequest
<1> QED
  BY <1>1, <1>2, <1>3, <1>4 DEF IntervalNext

\* The invariant implies that the adaptor is fast enough: the winner's entry
\* at the adaptor is no slower than what any rotation session needs.
LEMMA InvariantIsFast == IInv => FastEnough
<1> SUFFICES ASSUME IInv PROVE FastEnough
  OBVIOUS
<1>1. Sessions \in SUBSET Nat /\ RotationSessions \in SUBSET Nat
  BY IntervalAssumption DEF Sessions
<1>2. \A t \in Positive(requests) : interval \in 1 .. requests[t]
  <2>1. SUFFICES ASSUME NEW t \in Positive(requests)
                 PROVE  interval \in 1 .. requests[t]
    OBVIOUS
  <2>2. /\ Winner(requests) \in Positive(requests)
        /\ requests[Winner(requests)] <= requests[t]
    BY <1>1, <2>1, WinnerIsSmallest DEF IInv
  <2>3. interval = requests[Winner(requests)]
    BY <2>1 DEF IInv, SmallestInForce
  <2> QED
    BY <2>2, <2>3 DEF IInv, Positive, Table, NoRequest
<1>3. ASSUME NEW s \in RotationSessions, merged[s] > 0
      PROVE  interval \in 1 .. validate(AdaptorRanges, merged[s])
  <2> DEFINE w == Winner(merged)
  <2>1. s \in Positive(merged) /\ merged[s] \in Nat
    BY <1>3 DEF Positive, IInv, Table, NoRequest
  <2>2. w \in Positive(merged) /\ merged[w] <= merged[s]
    BY <1>1, <2>1, WinnerIsSmallest DEF IInv
  <2>3. w \in Sessions /\ merged[w] \in Nat /\ merged[w] > 0
    BY <2>2 DEF Positive, IInv, Table, Sessions, NoRequest
  <2>4. requests[w] = validate(AdaptorRanges, merged[w])
    BY <2>1 DEF IInv, HandedOn
  <2>5. /\ validate(AdaptorRanges, merged[w]) \in Nat
        /\ validate(AdaptorRanges, merged[w]) > 0
        /\ validate(AdaptorRanges, merged[s]) \in Nat
    BY <2>1, <2>3, ValidateType, IntervalAssumption
  <2>6. validate(AdaptorRanges, merged[w]) <= validate(AdaptorRanges, merged[s])
    BY <2>1, <2>2, <2>3, ValidateMonotonic, IntervalAssumption
  <2> HIDE DEF w
  <2>7. w \in Positive(requests)
    BY <2>3, <2>4, <2>5 DEF Positive, IInv, Table
  <2>8. interval \in 1 .. requests[w]
    BY <1>2, <2>7
  <2> QED
    BY <2>4, <2>5, <2>6, <2>8 DEF IInv
<1>4. ASSUME NEW s \in SourceSessions, requests[s] > 0
      PROVE  interval \in 1 .. requests[s]
  BY <1>2, <1>4 DEF Positive, IInv, Table, Sessions
<1> QED
  BY <1>3, <1>4 DEF FastEnough

\* The inductive invariant holds: tables, what was handed on and what is in
\* force agree after every request and withdrawal (core/nodebase.cpp:291-471).
THEOREM IntervalInvariant == IntervalSpec => []IInv
<1>1. IntervalInit => IInv
  BY InitInvariant
<1>2. IInv /\ [IntervalNext]_intervalVars => IInv'
  BY NextInvariant
<1> QED
  BY <1>1, <1>2, PTL DEF IntervalSpec

\* Types of the tables and of the interval.
THEOREM IntervalTypeCorrect == IntervalSpec => []IntervalTypeOK
<1>1. IInv => IntervalTypeOK
  BY DEF IInv, IntervalTypeOK, Table
<1> QED
  BY <1>1, IntervalInvariant, PTL

\* The adaptor is at all times fast enough for every session, for any
\* sessions, any ranges and any mixture of sensors above it
\* (evaluateIntervalRequests(), RotationSensorChannel::setInterval()).
THEOREM AlwaysFastEnough == IntervalSpec => []FastEnough
<1>1. IInv => FastEnough
  BY InvariantIsFast
<1> QED
  BY <1>1, IntervalInvariant, PTL

\* The adaptor never keeps a request of a rotation session that the rotation
\* sensor has forgotten (removeIntervalRequest()).
THEOREM NoOrphans == IntervalSpec => []NoOrphanRequest
<1>1. IInv => NoOrphanRequest
  BY DEF IInv
<1> QED
  BY <1>1, IntervalInvariant, PTL

-----------------------------------------------------------------------------
(* Operations on one queue.                                                *)

\* Asking adds at the end or replaces in place, so that positions stay.
LEMMA PlacedKeepsOrder ==
  ASSUME NEW ranges, NEW queue \in Seq(Requests(ranges)), OnePerSession(queue),
         NEW id \in Ids, NEW range \in Range(ranges)
  PROVE  /\ Placed(queue, id, range) \in Seq(Requests(ranges))
         /\ OnePerSession(Placed(queue, id, range))
         /\ DOMAIN queue \subseteq DOMAIN Placed(queue, id, range)
         /\ \A i \in DOMAIN queue :
              /\ Placed(queue, id, range)[i].id = queue[i].id
              /\ queue[i].id # id => Placed(queue, id, range)[i] = queue[i]
              /\ queue[i].id = id => Placed(queue, id, range)[i].range = range
         /\ Placed(queue, id, range) # <<>>
         /\ queue = <<>> => Placed(queue, id, range)[1].range = range
<1> DEFINE R == Requests(ranges)
           r == Request(id, range)
           next == Placed(queue, id, range)
<1>1. r \in R /\ r.id = id /\ r.range = range
  BY DEF Request, Requests
<1>2. Len(queue) \in Nat /\ DOMAIN queue = 1 .. Len(queue)
      /\ \A i \in DOMAIN queue : queue[i] \in R
  OBVIOUS
<1> HIDE DEF r, R
<1>3. CASE Has(queue, id)
  <2>1. next = [i \in 1 .. Len(queue) |->
                  IF queue[i].id = id THEN r ELSE queue[i]]
    BY <1>2, <1>3 DEF Placed, r
  <2>2. next \in Seq(R) /\ DOMAIN next = 1 .. Len(queue)
    BY <1>1, <1>2, <2>1
  <2>3. \A i \in 1 .. Len(queue) :
          next[i] = IF queue[i].id = id THEN r ELSE queue[i]
    BY <2>1
  <2>4. queue # <<>> /\ next # <<>>
    BY <1>2, <1>3, <2>2 DEF Has
  <2>5. OnePerSession(next)
    BY <1>1, <1>2, <2>2, <2>3 DEF OnePerSession
  <2> QED
    BY <1>1, <1>2, <2>2, <2>3, <2>4, <2>5 DEF R
<1>4. CASE ~Has(queue, id)
  <2>1. next = Append(queue, r)
    BY <1>4 DEF Placed, r
  <2>2. /\ next \in Seq(R) /\ Len(next) = Len(queue) + 1
        /\ DOMAIN next = 1 .. Len(queue) + 1
        /\ \A i \in 1 .. Len(queue) : next[i] = queue[i]
        /\ next[Len(queue) + 1] = r
    BY <1>1, <1>2, <2>1, AppendProperties
  <2>3. \A i \in DOMAIN queue : queue[i].id # id
    BY <1>4 DEF Has
  <2>4. OnePerSession(next)
    BY <1>1, <1>2, <2>2, <2>3 DEF OnePerSession
  <2>5. next # <<>>
    BY <1>2, <2>2
  <2>6. queue = <<>> => next[1].range = range
    BY <1>1, <2>2
  <2> QED
    BY <1>2, <2>2, <2>3, <2>4, <2>5, <2>6 DEF R
<1> QED
  BY <1>3, <1>4

\* `next' is `queue' without the request of `id' at p, when p is a place in it.
Gap(queue, next, id, p) ==
  /\ Len(next) = IF p = Len(queue) + 1 THEN Len(queue) ELSE Len(queue) - 1
  /\ \A k \in 1 .. Len(next) :
       next[k] = IF k < p THEN queue[k] ELSE queue[k + 1]
  /\ p <= Len(queue) => queue[p].id = id
  /\ \A i \in 1 .. Len(queue) : queue[i].id = id => i = p

\* Leaving closes the gap: every other request keeps its place relative to
\* the others.
LEMMA WithoutKeepsOrder ==
  ASSUME NEW ranges, NEW queue \in Seq(Requests(ranges)), OnePerSession(queue),
         NEW id
  PROVE  /\ Without(queue, id) \in Seq(Requests(ranges))
         /\ \E p \in 1 .. Len(queue) + 1 : Gap(queue, Without(queue, id), id, p)
<1> DEFINE R == Requests(ranges)
           next == Without(queue, id)
           n == Len(queue)
<1>1. n \in Nat /\ DOMAIN queue = 1 .. n /\ \A i \in 1 .. n : queue[i] \in R
  OBVIOUS
<1> HIDE DEF R, n
<1>2. CASE ~Has(queue, id)
  <2>1. next = queue
    BY <1>2 DEF Without
  <2>2. \A i \in 1 .. n : queue[i].id # id
    BY <1>1, <1>2 DEF Has
  <2>3. Gap(queue, queue, id, n + 1)
    BY <1>1, <2>2 DEF Gap, n
  <2>4. n + 1 \in 1 .. n + 1
    BY <1>1
  <2> QED
    BY <2>1, <2>3, <2>4 DEF n
<1>3. CASE Has(queue, id)
  <2> DEFINE p == CHOOSE i \in DOMAIN queue : queue[i].id = id
             left == SubSeq(queue, 1, p - 1)
             right == SubSeq(queue, p + 1, n)
  <2>1. p \in 1 .. n /\ queue[p].id = id
    BY <1>1, <1>3 DEF Has
  <2>2. next = left \o right
    BY <1>3 DEF Without, RemoveAt, n
  <2> HIDE DEF p
  <2>3. /\ left \in Seq(R) /\ Len(left) = p - 1
        /\ \A i \in 1 .. p - 1 : left[i] = queue[i]
    <3>1. \A i \in 1 .. p - 1 : queue[i] \in R
      BY <1>1, <2>1
    <3> QED
      BY <2>1, <1>1, <3>1, SubSeqProperties
  <2>4. /\ right \in Seq(R) /\ Len(right) = n - p
        /\ \A i \in 1 .. n - p : right[i] = queue[p + i]
    <3>1. \A i \in p + 1 .. n : queue[i] \in R
      BY <1>1, <2>1
    <3>2. /\ right \in Seq(R)
          /\ Len(right) = IF p + 1 <= n THEN n - (p + 1) + 1 ELSE 0
          /\ \A i \in 1 .. n - (p + 1) + 1 : right[i] = queue[(p + 1) + i - 1]
      BY <1>1, <2>1, <3>1, SubSeqProperties
    <3> QED
      BY <1>1, <2>1, <3>2
  <2> HIDE DEF left, right
  <2>5. /\ next \in Seq(R) /\ Len(next) = (p - 1) + (n - p)
        /\ \A k \in 1 .. (p - 1) + (n - p) :
             next[k] = IF k <= p - 1 THEN left[k] ELSE right[k - (p - 1)]
    BY <2>2, <2>3, <2>4, ConcatProperties
  <2> HIDE DEF next
  <2>6. Len(next) = n - 1
    BY <1>1, <2>1, <2>5
  <2>7. \A k \in 1 .. n - 1 :
          next[k] = IF k < p THEN queue[k] ELSE queue[k + 1]
    BY <1>1, <2>1, <2>3, <2>4, <2>5
  <2>8. \A i \in 1 .. n : queue[i].id = id => i = p
    BY <1>1, <2>1 DEF OnePerSession
  <2>9. p \in 1 .. n + 1 /\ p # n + 1
    BY <1>1, <2>1
  <2>10. Gap(queue, next, id, p)
    BY <1>1, <2>1, <2>6, <2>7, <2>8, <2>9 DEF Gap, n
  <2> QED
    BY <2>5, <2>9, <2>10 DEF R, n, next
<1> QED
  BY <1>2, <1>3

\* What leaving does to the head, and that nobody waits twice after it.
LEMMA WithoutHead ==
  ASSUME NEW ranges, NEW queue \in Seq(Requests(ranges)), OnePerSession(queue),
         NEW id
  PROVE  /\ OnePerSession(Without(queue, id))
         /\ ~Has(Without(queue, id), id)
         /\ queue = <<>> => Without(queue, id) = <<>>
         /\ queue # <<>> /\ queue[1].id # id =>
              Without(queue, id) # <<>> /\ Without(queue, id)[1] = queue[1]
         /\ queue # <<>> /\ queue[1].id = id =>
              IF Len(queue) > 1
              THEN Without(queue, id) # <<>> /\ Without(queue, id)[1] = queue[2]
              ELSE Without(queue, id) = <<>>
<1> DEFINE next == Without(queue, id)
           n == Len(queue)
<1>1. n \in Nat /\ DOMAIN queue = 1 .. n /\ (queue = <<>> <=> n = 0)
  OBVIOUS
<1>2. next \in Seq(Requests(ranges))
  BY WithoutKeepsOrder
<1>3. PICK p \in 1 .. n + 1 : Gap(queue, next, id, p)
  BY WithoutKeepsOrder
<1>4. DOMAIN next = 1 .. Len(next) /\ (next = <<>> <=> Len(next) = 0)
  BY <1>2
<1>5. /\ Len(next) = IF p = n + 1 THEN n ELSE n - 1
      /\ \A k \in 1 .. Len(next) :
           next[k] = IF k < p THEN queue[k] ELSE queue[k + 1]
      /\ p <= n => queue[p].id = id
      /\ \A i \in 1 .. n : queue[i].id = id => i = p
  BY <1>3 DEF Gap
<1> HIDE DEF next, n
<1>6. OnePerSession(next)
  <2>1. SUFFICES ASSUME NEW k \in 1 .. Len(next), NEW l \in 1 .. Len(next),
                        next[k].id = next[l].id
                 PROVE  k = l
    BY <1>4 DEF OnePerSession
  <2> DEFINE at(m) == IF m < p THEN m ELSE m + 1
  <2>2. /\ at(k) \in 1 .. n /\ at(l) \in 1 .. n
        /\ next[k] = queue[at(k)] /\ next[l] = queue[at(l)]
        /\ at(k) = at(l) => k = l
    BY <1>1, <1>5, <2>1
  <2> HIDE DEF at
  <2> QED
    BY <1>1, <2>1, <2>2 DEF OnePerSession
<1>7. ~Has(next, id)
  BY <1>1, <1>5, <1>4 DEF Has
<1>8. /\ queue = <<>> => next = <<>>
      /\ queue # <<>> /\ queue[1].id # id => next # <<>> /\ next[1] = queue[1]
      /\ queue # <<>> /\ queue[1].id = id =>
           IF n > 1 THEN next # <<>> /\ next[1] = queue[2] ELSE next = <<>>
  BY <1>1, <1>5, <1>4
<1> QED
  BY <1>6, <1>7, <1>8 DEF next, n

\* Neither operation lets a request overtake another.
LEMMA PlacedOvertakesNobody ==
  ASSUME NEW ranges, NEW queue \in Seq(Requests(ranges)), OnePerSession(queue),
         NEW id \in Ids, NEW range \in Range(ranges)
  PROVE  ~Overtaken(queue, Placed(queue, id, range))
<1> DEFINE next == Placed(queue, id, range)
<1>1. /\ OnePerSession(next) /\ DOMAIN queue \subseteq DOMAIN next
      /\ \A i \in DOMAIN queue : next[i].id = queue[i].id
      /\ DOMAIN queue = 1 .. Len(queue) /\ Len(queue) \in Nat
  BY PlacedKeepsOrder
<1> HIDE DEF next
<1>2. ~Overtaken(queue, next)
  BY <1>1 DEF Overtaken, OnePerSession
<1> QED
  BY <1>2 DEF next

LEMMA WithoutOvertakesNobody ==
  ASSUME NEW ranges, NEW queue \in Seq(Requests(ranges)), OnePerSession(queue),
         NEW id
  PROVE  ~Overtaken(queue, Without(queue, id))
<1> DEFINE next == Without(queue, id)
           n == Len(queue)
<1>1. n \in Nat /\ DOMAIN queue = 1 .. n
  OBVIOUS
<1>2. next \in Seq(Requests(ranges))
  BY WithoutKeepsOrder
<1>3. PICK p \in 1 .. n + 1 : Gap(queue, next, id, p)
  BY WithoutKeepsOrder
<1>4. DOMAIN next = 1 .. Len(next)
  BY <1>2
<1>5. /\ Len(next) = IF p = n + 1 THEN n ELSE n - 1
      /\ \A k \in 1 .. Len(next) :
           next[k] = IF k < p THEN queue[k] ELSE queue[k + 1]
  BY <1>3 DEF Gap
<1> HIDE DEF next, n
<1>6. ASSUME NEW i \in 1 .. n, NEW j \in 1 .. n,
             NEW k \in DOMAIN next, NEW l \in DOMAIN next,
             i < j, k >= l,
             queue[i].id = next[k].id, queue[j].id = next[l].id
      PROVE  FALSE
  <2> DEFINE at(m) == IF m < p THEN m ELSE m + 1
  <2>1. /\ at(k) \in 1 .. n /\ at(l) \in 1 .. n
        /\ next[k] = queue[at(k)] /\ next[l] = queue[at(l)]
        /\ at(k) >= at(l)
    BY <1>1, <1>4, <1>6, <1>5
  <2> HIDE DEF at
  <2>2. at(k) = i /\ at(l) = j
    BY <1>1, <1>6, <2>1 DEF OnePerSession
  <2> QED
    BY <1>1, <1>6, <2>1, <2>2
<1>7. ~Overtaken(queue, next)
  BY <1>1, <1>6 DEF Overtaken
<1> QED
  BY <1>7 DEF next

\* A queue that does not change has nobody overtaken.
LEMMA NobodyOvertakesStanding ==
  ASSUME NEW queue, OnePerSession(queue), DOMAIN queue \subseteq Nat
  PROVE  ~Overtaken(queue, queue)
BY DEF Overtaken, OnePerSession

-----------------------------------------------------------------------------
(* The inductive invariant.                                                *)

RInv ==
  /\ RangeTypeOK
  /\ OnePerSession(sensorQueue)
  /\ OnePerSession(adaptorQueue)
  /\ HeadInForce

\* What a step may do to the queues.
Orderly ==
  /\ ~Overtaken(sensorQueue, sensorQueue')
  /\ ~Overtaken(adaptorQueue, adaptorQueue')

LEMMA RangesInhabited ==
  /\ DataRanges[1] \in Range(DataRanges)
  /\ ScaledRanges[1] \in Range(ScaledRanges)
  /\ \A i \in DOMAIN DataRanges :
       /\ DataRanges[i] \in Range(DataRanges)
       /\ ScaledRanges[i] \in Range(ScaledRanges)
<1>1. 1 \in DOMAIN DataRanges
  BY RangeAssumption DEF IsRangeSequence
<1> QED
  BY <1>1 DEF Range, ScaledRanges

LEMMA RangeInitInvariant == RangeInit => RInv
<1> SUFFICES ASSUME RangeInit PROVE RInv
  OBVIOUS
<1>1. RangeTypeOK
  BY RangesInhabited DEF RangeInit, RangeTypeOK
<1>2. OnePerSession(<<>>)
  BY DEF OnePerSession
<1>3. HeadInForce
  BY DEF RangeInit, HeadInForce, Current, Request
<1> QED
  BY <1>1, <1>2, <1>3 DEF RInv, RangeInit

\* The adaptor's half of the invariant, kept by both calls that reach it.
AdaptorInv ==
  /\ adaptorQueue \in Seq(Requests(DataRanges))
  /\ dataRange \in Range(DataRanges)
  /\ OnePerSession(adaptorQueue)
  /\ HeadInForce

LEMMA RequestAtAdaptor ==
  ASSUME AdaptorInv, NEW id \in Ids, NEW range, requestAtAdaptor(id, range)
  PROVE  AdaptorInv' /\ ~Overtaken(adaptorQueue, adaptorQueue')
<1>1. CASE range \notin Range(DataRanges)
  <2>1. UNCHANGED <<adaptorQueue, dataRange>>
    BY <1>1 DEF requestAtAdaptor
  <2>2. ~Overtaken(adaptorQueue, adaptorQueue)
    BY NobodyOvertakesStanding DEF AdaptorInv
  <2> QED
    BY <2>1, <2>2 DEF AdaptorInv, HeadInForce
<1>2. CASE range \in Range(DataRanges)
  <2> DEFINE next == Placed(adaptorQueue, id, range)
  <2>1. /\ adaptorQueue' = next
        /\ dataRange' = IF RequestChanges(adaptorQueue, DataRanges, id, range)
                        THEN Current(next, DataRanges).range ELSE dataRange
    BY <1>2 DEF requestAtAdaptor
  <2>2. /\ next \in Seq(Requests(DataRanges))
        /\ OnePerSession(next)
        /\ \A i \in DOMAIN adaptorQueue :
             /\ adaptorQueue[i].id # id => next[i] = adaptorQueue[i]
             /\ adaptorQueue[i].id = id => next[i].range = range
        /\ next # <<>>
        /\ adaptorQueue = <<>> => next[1].range = range
    BY <1>2, PlacedKeepsOrder DEF AdaptorInv
  <2>3. ~Overtaken(adaptorQueue, next)
    BY <1>2, PlacedOvertakesNobody DEF AdaptorInv
  <2> HIDE DEF next
  <2>4. Current(next, DataRanges) = next[1]
    BY <2>2 DEF Current
  <2>5. next[1].range \in Range(DataRanges)
    <3>1. next[1] \in Requests(DataRanges)
      BY <2>2
    <3> QED
      BY <3>1 DEF Requests
  <2>6. dataRange' = next[1].range
    <3>1. CASE adaptorQueue = <<>>
      <4>1. dataRange = DataRanges[1]
        BY <3>1 DEF AdaptorInv, HeadInForce, Current, Request
      <4> QED
        BY <2>1, <2>2, <2>4, <3>1, <4>1 DEF RequestChanges
    <3>2. CASE adaptorQueue # <<>>
      <4>1. 1 \in DOMAIN adaptorQueue /\ dataRange = adaptorQueue[1].range
        BY <3>2 DEF AdaptorInv, HeadInForce, Current
      <4> QED
        BY <2>1, <2>2, <2>4, <3>2, <4>1 DEF RequestChanges
    <3> QED
      BY <3>1, <3>2
  <2> QED
    BY <2>1, <2>2, <2>3, <2>4, <2>5, <2>6 DEF AdaptorInv, HeadInForce
<1> QED
  BY <1>1, <1>2

LEMMA RemoveAtAdaptor ==
  ASSUME AdaptorInv, NEW s, removeAtAdaptor(s)
  PROVE  AdaptorInv' /\ ~Overtaken(adaptorQueue, adaptorQueue')
<1> DEFINE next == Without(adaptorQueue, s)
           head == Current(next, DataRanges).range
<1>1. /\ adaptorQueue' = next
      /\ dataRange' = IF RemovalChanges(adaptorQueue, DataRanges, s)
                      THEN head ELSE dataRange
  BY DEF removeAtAdaptor
<1>2. next \in Seq(Requests(DataRanges)) /\ ~Overtaken(adaptorQueue, next)
  BY WithoutKeepsOrder, WithoutOvertakesNobody DEF AdaptorInv
<1>3. /\ OnePerSession(next)
      /\ adaptorQueue = <<>> => next = <<>>
      /\ adaptorQueue # <<>> /\ adaptorQueue[1].id # s =>
           next # <<>> /\ next[1] = adaptorQueue[1]
      /\ adaptorQueue # <<>> /\ adaptorQueue[1].id = s =>
           IF Len(adaptorQueue) > 1
           THEN next # <<>> /\ next[1] = adaptorQueue[2] ELSE next = <<>>
  BY WithoutHead DEF AdaptorInv
<1> HIDE DEF next
<1>4. head = IF next = <<>> THEN DataRanges[1] ELSE next[1].range
  BY DEF Current, Request
<1>5. dataRange = IF adaptorQueue = <<>> THEN DataRanges[1]
                  ELSE adaptorQueue[1].range
  BY DEF AdaptorInv, HeadInForce, Current, Request
<1>6. head \in Range(DataRanges)
  <2>1. next # <<>> => next[1] \in Requests(DataRanges)
    BY <1>2
  <2> QED
    BY <1>4, <2>1, RangesInhabited DEF Requests
<1> HIDE DEF head
<1>7. dataRange' = head
  <2>1. CASE RemovalChanges(adaptorQueue, DataRanges, s)
    BY <1>1, <2>1
  <2>2. CASE ~RemovalChanges(adaptorQueue, DataRanges, s)
    BY <1>1, <1>3, <1>4, <1>5, <2>2 DEF RemovalChanges
  <2> QED
    BY <2>1, <2>2
<1> QED
  BY <1>1, <1>2, <1>3, <1>6, <1>7 DEF AdaptorInv, HeadInForce, head

\* The two halves together, over one step.
LEMMA RangeNextInvariant ==
  RInv /\ [RangeNext]_rangeVars => RInv' /\ Orderly
<1> SUFFICES ASSUME RInv, [RangeNext]_rangeVars PROVE RInv' /\ Orderly
  OBVIOUS
<1>1. AdaptorInv /\ sensorQueue \in Seq(Requests(ScaledRanges))
      /\ OnePerSession(sensorQueue)
  BY DEF RInv, RangeTypeOK, AdaptorInv
<1>2. ~Overtaken(sensorQueue, sensorQueue) /\ ~Overtaken(adaptorQueue, adaptorQueue)
  BY <1>1, NobodyOvertakesStanding DEF AdaptorInv
<1>3. ASSUME AdaptorInv', sensorQueue' \in Seq(Requests(ScaledRanges)),
             OnePerSession(sensorQueue'),
             ~Overtaken(sensorQueue, sensorQueue'),
             ~Overtaken(adaptorQueue, adaptorQueue')
      PROVE  RInv' /\ Orderly
  BY <1>3 DEF RInv, RangeTypeOK, AdaptorInv, Orderly
<1>4. UNCHANGED <<adaptorQueue, dataRange>> =>
        AdaptorInv' /\ ~Overtaken(adaptorQueue, adaptorQueue')
  BY <1>1, <1>2 DEF AdaptorInv, HeadInForce
\* The head that the magnetometer sensor hands on has a session's id or none.
<1>5. ASSUME NEW next \in Seq(Requests(ScaledRanges)),
             setDataRange(Current(next, ScaledRanges))
      PROVE  AdaptorInv' /\ ~Overtaken(adaptorQueue, adaptorQueue')
  <2>1. Current(next, ScaledRanges).id \in Ids
    <3>1. CASE next = <<>>
      BY <3>1 DEF Current, Request, Ids
    <3>2. CASE next # <<>>
      <4>1. next[1] \in Requests(ScaledRanges)
        BY <3>2
      <4> QED
        BY <3>2, <4>1 DEF Current, Requests
    <3> QED
      BY <3>1, <3>2
  <2> QED
    BY <1>1, <1>5, <2>1, RequestAtAdaptor DEF setDataRange
<1>6. ASSUME NEW s \in ScaledSessions \cup DirectSessions,
             NEW i \in DOMAIN DataRanges, requestDataRange(s, i)
      PROVE  RInv' /\ Orderly
  <2>1. s \in Ids
    BY DEF Ids
  <2>2. CASE /\ s \in DirectSessions
             /\ requestAtAdaptor(s, DataRanges[i]) /\ UNCHANGED sensorQueue
    BY <1>1, <1>2, <1>3, <2>1, <2>2, RequestAtAdaptor
  <2>3. CASE /\ s \in ScaledSessions
             /\ sensorQueue' = Placed(sensorQueue, s, ScaledRanges[i])
             /\ IF RequestChanges(sensorQueue, ScaledRanges, s, ScaledRanges[i])
                THEN setDataRange(Current(sensorQueue', ScaledRanges))
                ELSE UNCHANGED <<adaptorQueue, dataRange>>
    <3>1. ScaledRanges[i] \in Range(ScaledRanges)
      BY RangesInhabited
    <3>2. /\ sensorQueue' \in Seq(Requests(ScaledRanges))
          /\ OnePerSession(sensorQueue')
          /\ ~Overtaken(sensorQueue, sensorQueue')
      BY <1>1, <2>1, <2>3, <3>1, PlacedKeepsOrder, PlacedOvertakesNobody
    <3>3. AdaptorInv' /\ ~Overtaken(adaptorQueue, adaptorQueue')
      BY <1>4, <1>5, <2>3, <3>2
    <3> QED
      BY <1>3, <3>2, <3>3
  <2> QED
    BY <1>6, <2>2, <2>3 DEF requestDataRange
<1>7. ASSUME NEW s \in ScaledSessions \cup DirectSessions,
             removeDataRangeRequest(s)
      PROVE  RInv' /\ Orderly
  <2>1. CASE /\ s \in DirectSessions
             /\ removeAtAdaptor(s) /\ UNCHANGED sensorQueue
    BY <1>1, <1>2, <1>3, <2>1, RemoveAtAdaptor
  <2>2. CASE /\ s \in ScaledSessions
             /\ sensorQueue' = Without(sensorQueue, s)
             /\ IF RemovalChanges(sensorQueue, ScaledRanges, s)
                THEN setDataRange(Current(sensorQueue', ScaledRanges))
                ELSE UNCHANGED <<adaptorQueue, dataRange>>
    <3>1. /\ sensorQueue' \in Seq(Requests(ScaledRanges))
          /\ OnePerSession(sensorQueue')
          /\ ~Overtaken(sensorQueue, sensorQueue')
      BY <1>1, <2>2, WithoutKeepsOrder, WithoutHead, WithoutOvertakesNobody
    <3>2. AdaptorInv' /\ ~Overtaken(adaptorQueue, adaptorQueue')
      BY <1>4, <1>5, <2>2, <3>1
    <3> QED
      BY <1>3, <3>1, <3>2
  <2> QED
    BY <1>7, <2>1, <2>2 DEF removeDataRangeRequest
<1>8. CASE UNCHANGED rangeVars
  BY <1>1, <1>2, <1>3, <1>4, <1>8 DEF rangeVars
<1> QED
  BY <1>6, <1>7, <1>8 DEF RangeNext

\* The inductive invariant of the two queues (core/nodebase.cpp:116-199).
THEOREM RangeInvariant == RangeSpec => []RInv
<1>1. RangeInit => RInv
  BY RangeInitInvariant
<1>2. RInv /\ [RangeNext]_rangeVars => RInv'
  BY RangeNextInvariant
<1> QED
  BY <1>1, <1>2, PTL DEF RangeSpec

\* The adaptor was last told the range at the head of its queue, or its
\* default (requestDataRange(), removeDataRangeRequest()).
THEOREM AlwaysHeadInForce == RangeSpec => []HeadInForce
<1>1. RInv => HeadInForce
  BY DEF RInv
<1> QED
  BY <1>1, RangeInvariant, PTL

\* Data ranges are served first come, first served, one place per session.
THEOREM ServedInOrder == RangeSpec => FirstComeFirstServed
<1> DEFINE Served ==
      /\ ~Overtaken(sensorQueue, sensorQueue')
      /\ ~Overtaken(adaptorQueue, adaptorQueue')
      /\ OnePerSession(sensorQueue') /\ OnePerSession(adaptorQueue')
<1>1. RangeInit => RInv
  BY RangeInitInvariant
<1>2. RInv /\ [RangeNext]_rangeVars => RInv' /\ [Served]_rangeVars
  BY RangeNextInvariant DEF RInv, Orderly
<1> QED
  BY <1>1, <1>2, PTL DEF RangeSpec, FirstComeFirstServed

-----------------------------------------------------------------------------
(* Both kinds together.                                                    *)

\* A step of the graph is a step of each part, or leaves it alone.
LEMMA StepsOfParts ==
  [Next]_vars => [IntervalNext]_intervalVars /\ [RangeNext]_rangeVars
<1>1. IntervalStep => [IntervalNext]_intervalVars /\ [RangeNext]_rangeVars
  BY DEF IntervalStep
<1>2. RangeStep => [IntervalNext]_intervalVars /\ [RangeNext]_rangeVars
  BY DEF RangeStep
<1>3. ASSUME NEW s \in AllSessions, removeSession(s)
      PROVE  [IntervalNext]_intervalVars /\ [RangeNext]_rangeVars
  BY <1>3 DEF removeSession, IntervalNext, RangeNext
<1>4. UNCHANGED vars => UNCHANGED intervalVars /\ UNCHANGED rangeVars
  BY DEF vars, intervalVars, rangeVars
<1> QED
  BY <1>1, <1>2, <1>3, <1>4 DEF Next

\* The graph implements the specification of each part.
THEOREM ImplementsParts == Spec => IntervalSpec /\ RangeSpec
<1>1. Init => IntervalInit /\ RangeInit
  BY DEF Init
<1>2. [Next]_vars => [IntervalNext]_intervalVars
  BY StepsOfParts
<1>3. [Next]_vars => [RangeNext]_rangeVars
  BY StepsOfParts
<1> QED
  BY <1>1, <1>2, <1>3, PTL DEF Spec, IntervalSpec, RangeSpec

\* Types of the whole graph (core/nodebase.h).
THEOREM TypeCorrect == Spec => []TypeOK
<1>1. RInv => RangeTypeOK
  BY DEF RInv
<1>2. IntervalTypeOK /\ RangeTypeOK => TypeOK
  BY DEF TypeOK
<1> QED
  BY <1>1, <1>2, ImplementsParts, IntervalTypeCorrect, RangeInvariant, PTL

\* Sessions that come and go never leave another one with an adaptor slower
\* than it needs (evaluateIntervalRequests(), removeSession()).
THEOREM GraphFastEnough == Spec => []FastEnough
BY ImplementsParts, AlwaysFastEnough, PTL

\* The adaptor of the graph knows no rotation session that its sensor has
\* forgotten (removeIntervalRequest()).
THEOREM GraphNoOrphans == Spec => []NoOrphanRequest
BY ImplementsParts, NoOrphans, PTL

\* The data range of the graph's adaptor is that of the request at the head
\* of its queue (removeDataRangeRequest()).
THEOREM GraphHeadInForce == Spec => []HeadInForce
BY ImplementsParts, AlwaysHeadInForce, PTL

\* Data ranges are first come, first served, whoever leaves
\* (doc/mainpage.h:525).
THEOREM GraphServedInOrder == Spec => FirstComeFirstServed
BY ImplementsParts, ServedInOrder, PTL
-----------------------------------------------------------------------------
(* Whoever leaves is forgotten by every node.                              *)

\* The condition on the ranges: none of the adaptor's is one scaled twice,
\* so that what the magnetometer sensor hands on is dropped by the adaptor.
NeverTwice ==
  \A i, j \in DOMAIN DataRanges : Scale * (Scale * DataRanges[i]) # DataRanges[j]

\* Each queue holds requests of sessions that withdraw there themselves.
OwnQueues ==
  /\ \A i \in DOMAIN sensorQueue : sensorQueue[i].id \in ScaledSessions
  /\ \A i \in DOMAIN adaptorQueue : adaptorQueue[i].id \in DirectSessions

\* Placing and withdrawing bring no new session but the caller.
LEMMA PlacedIds ==
  ASSUME NEW ranges, NEW queue \in Seq(Requests(ranges)),
         NEW S, \A i \in DOMAIN queue : queue[i].id \in S,
         NEW id \in S, NEW range
  PROVE  \A i \in DOMAIN Placed(queue, id, range) :
           Placed(queue, id, range)[i].id \in S
<1> DEFINE r == Request(id, range)
<1>1. r.id = id
  BY DEF Request
<1> HIDE DEF r
<1>2. CASE Has(queue, id)
  BY <1>1, <1>2 DEF Placed, r
<1>3. CASE ~Has(queue, id)
  <2>1. Placed(queue, id, range) = Append(queue, r)
    BY <1>3 DEF Placed, r
  <2>2. /\ DOMAIN Append(queue, r) = 1 .. Len(queue) + 1
        /\ \A i \in 1 .. Len(queue) : Append(queue, r)[i] = queue[i]
        /\ Append(queue, r)[Len(queue) + 1] = r
        /\ Len(queue) \in Nat /\ DOMAIN queue = 1 .. Len(queue)
    OBVIOUS
  <2> QED
    BY <1>1, <2>1, <2>2
<1> QED
  BY <1>2, <1>3

LEMMA WithoutIds ==
  ASSUME NEW ranges, NEW queue \in Seq(Requests(ranges)), OnePerSession(queue),
         NEW S, \A i \in DOMAIN queue : queue[i].id \in S, NEW id
  PROVE  \A i \in DOMAIN Without(queue, id) : Without(queue, id)[i].id \in S
<1> DEFINE next == Without(queue, id)
           n == Len(queue)
<1>1. n \in Nat /\ DOMAIN queue = 1 .. n
  OBVIOUS
<1>2. next \in Seq(Requests(ranges))
  BY WithoutKeepsOrder
<1>3. PICK p \in 1 .. n + 1 : Gap(queue, next, id, p)
  BY WithoutKeepsOrder
<1>4. DOMAIN next = 1 .. Len(next) /\ Len(next) \in Nat
  BY <1>2
<1>5. /\ Len(next) = IF p = n + 1 THEN n ELSE n - 1
      /\ \A k \in 1 .. Len(next) :
           next[k] = IF k < p THEN queue[k] ELSE queue[k + 1]
  BY <1>3 DEF Gap
<1> HIDE DEF next, n
<1>6. ASSUME NEW k \in DOMAIN next PROVE next[k].id \in S
  <2>1. k \in Nat /\ (IF k < p THEN k \in 1 .. n ELSE k + 1 \in 1 .. n)
    BY <1>1, <1>4, <1>5, <1>6
  <2>2. IF k < p THEN next[k] = queue[k] ELSE next[k] = queue[k + 1]
    BY <1>4, <1>5, <1>6
  <2> QED
    BY <1>1, <2>1, <2>2
<1> QED
  BY <1>6 DEF next

\* What the magnetometer sensor hands on never enters the adaptor's queue.
LEMMA HandedOnIsDropped ==
  ASSUME NeverTwice, NEW next \in Seq(Requests(ScaledRanges)),
         setDataRange(Current(next, ScaledRanges))
  PROVE  UNCHANGED <<adaptorQueue, dataRange>>
<1>1. \A r \in Range(ScaledRanges) : Scale * r \notin Range(DataRanges)
  BY DEF NeverTwice, Range, ScaledRanges
<1>2. Current(next, ScaledRanges).range \in Range(ScaledRanges)
  <2>1. CASE next = <<>>
    BY <2>1, RangesInhabited, RangeAssumption
       DEF Current, Request, Range, ScaledRanges, IsRangeSequence
  <2>2. CASE next # <<>>
    <3>1. next[1] \in Requests(ScaledRanges)
      BY <2>2
    <3> QED
      BY <2>2, <3>1 DEF Current, Requests
  <2> QED
    BY <2>1, <2>2
<1> QED
  BY <1>1, <1>2 DEF setDataRange, requestAtAdaptor

LEMMA OwnQueuesKept ==
  ASSUME NeverTwice, RInv, OwnQueues, [RangeNext]_rangeVars
  PROVE  OwnQueues'
<1>1. /\ sensorQueue \in Seq(Requests(ScaledRanges)) /\ OnePerSession(sensorQueue)
      /\ adaptorQueue \in Seq(Requests(DataRanges)) /\ OnePerSession(adaptorQueue)
  BY DEF RInv, RangeTypeOK
<1>2. ASSUME NEW s \in ScaledSessions \cup DirectSessions,
             NEW i \in DOMAIN DataRanges, requestDataRange(s, i)
      PROVE  OwnQueues'
  <2>1. CASE /\ s \in DirectSessions
             /\ requestAtAdaptor(s, DataRanges[i]) /\ UNCHANGED sensorQueue
    <3>1. \A k \in DOMAIN Placed(adaptorQueue, s, DataRanges[i]) :
            Placed(adaptorQueue, s, DataRanges[i])[k].id \in DirectSessions
      BY <1>1, <2>1, PlacedIds DEF OwnQueues
    <3> QED
      BY <2>1, <3>1 DEF OwnQueues, requestAtAdaptor
  <2>2. CASE /\ s \in ScaledSessions
             /\ sensorQueue' = Placed(sensorQueue, s, ScaledRanges[i])
             /\ IF RequestChanges(sensorQueue, ScaledRanges, s, ScaledRanges[i])
                THEN setDataRange(Current(sensorQueue', ScaledRanges))
                ELSE UNCHANGED <<adaptorQueue, dataRange>>
    <3>1. \A k \in DOMAIN sensorQueue' : sensorQueue'[k].id \in ScaledSessions
      BY <1>1, <2>2, PlacedIds DEF OwnQueues
    <3>2. sensorQueue' \in Seq(Requests(ScaledRanges))
      BY <1>1, <2>2, PlacedKeepsOrder, RangesInhabited DEF Ids
    <3>3. adaptorQueue' = adaptorQueue
      BY <2>2, <3>2, HandedOnIsDropped
    <3> QED
      BY <3>1, <3>3 DEF OwnQueues
  <2> QED
    BY <1>2, <2>1, <2>2 DEF requestDataRange
<1>3. ASSUME NEW s \in ScaledSessions \cup DirectSessions,
             removeDataRangeRequest(s)
      PROVE  OwnQueues'
  <2>1. CASE /\ s \in DirectSessions
             /\ removeAtAdaptor(s) /\ UNCHANGED sensorQueue
    <3>1. \A k \in DOMAIN Without(adaptorQueue, s) :
            Without(adaptorQueue, s)[k].id \in DirectSessions
      BY <1>1, WithoutIds DEF OwnQueues
    <3> QED
      BY <2>1, <3>1 DEF OwnQueues, removeAtAdaptor
  <2>2. CASE /\ s \in ScaledSessions
             /\ sensorQueue' = Without(sensorQueue, s)
             /\ IF RemovalChanges(sensorQueue, ScaledRanges, s)
                THEN setDataRange(Current(sensorQueue', ScaledRanges))
                ELSE UNCHANGED <<adaptorQueue, dataRange>>
    <3>1. \A k \in DOMAIN sensorQueue' : sensorQueue'[k].id \in ScaledSessions
      BY <1>1, <2>2, WithoutIds DEF OwnQueues
    <3>2. sensorQueue' \in Seq(Requests(ScaledRanges))
      BY <1>1, <2>2, WithoutKeepsOrder
    <3>3. adaptorQueue' = adaptorQueue
      BY <2>2, <3>2, HandedOnIsDropped
    <3> QED
      BY <3>1, <3>3 DEF OwnQueues
  <2> QED
    BY <1>3, <2>1, <2>2 DEF removeDataRangeRequest
<1>4. CASE UNCHANGED rangeVars
  BY <1>4 DEF rangeVars, OwnQueues
<1> QED
  BY <1>2, <1>3, <1>4 DEF RangeNext

\* The interval tables after a session has left.
LEMMA IntervalForgotten ==
  ASSUME IInv, NEW s \in Sessions, removeIntervalRequest(s)
  PROVE  /\ s \in RotationSessions => merged'[s] = NoRequest
         /\ requests'[s] = NoRequest
<1>1. /\ Withdrawn(s) \in Table(Sessions) /\ Withdrawn(s)[s] = NoRequest
  BY DEF Withdrawn, IInv, Table
<1>2. CASE s \in RotationSessions /\ s \notin SourceSessions
  <2>1. merged' = [merged EXCEPT ![s] = NoRequest]
        /\ requests' = Forwarded(merged', Withdrawn(s))
    BY <1>2 DEF removeIntervalRequest
  <2>2. merged' \in Table(RotationSessions) /\ merged'[s] = NoRequest
    BY <1>2, <2>1 DEF IInv, Table
  <2>3. s \notin Requested(merged')
    BY <2>2 DEF Requested
  <2> QED
    BY <1>1, <2>1, <2>2, <2>3, ForwardedWrites
<1>3. CASE s \in SourceSessions /\ s \notin RotationSessions
  BY <1>1, <1>3 DEF removeIntervalRequest
<1> QED
  BY <1>2, <1>3, IntervalAssumption DEF Sessions

\* The queues after a session has left.
LEMMA RangesForgotten ==
  ASSUME RInv, OwnQueues, OwnQueues',
         NEW s \in ScaledSessions \cup DirectSessions, removeDataRangeRequest(s)
  PROVE  ~Has(sensorQueue', s) /\ ~Has(adaptorQueue', s)
<1>1. ScaledSessions \cap DirectSessions = {}
  BY RangeAssumption
<1>2. /\ sensorQueue \in Seq(Requests(ScaledRanges)) /\ OnePerSession(sensorQueue)
      /\ adaptorQueue \in Seq(Requests(DataRanges)) /\ OnePerSession(adaptorQueue)
  BY DEF RInv, RangeTypeOK
<1>3. CASE s \in DirectSessions /\ removeAtAdaptor(s)
  <2>1. ~Has(adaptorQueue', s)
    BY <1>2, <1>3, WithoutHead DEF removeAtAdaptor
  <2>2. ~Has(sensorQueue', s)
    BY <1>1, <1>3 DEF OwnQueues, Has
  <2> QED
    BY <2>1, <2>2
<1>4. CASE s \in ScaledSessions /\ sensorQueue' = Without(sensorQueue, s)
  <2>1. ~Has(sensorQueue', s)
    BY <1>2, <1>4, WithoutHead
  <2>2. ~Has(adaptorQueue', s)
    BY <1>1, <1>4 DEF OwnQueues, Has
  <2> QED
    BY <2>1, <2>2
<1> QED
  BY <1>3, <1>4 DEF removeDataRangeRequest

\* One withdrawal, in both halves of the graph.
LEMMA RemovalForgets ==
  ASSUME NeverTwice, IInv, RInv, OwnQueues,
         NEW s \in AllSessions, removeSession(s)
  PROVE  Forgotten(s)'
<1>1. ASSUME s \in Sessions
      PROVE  /\ s \in RotationSessions => merged'[s] = NoRequest
             /\ requests'[s] = NoRequest
  BY <1>1, IntervalForgotten DEF removeSession
<1>2. s \in RotationSessions => s \in Sessions
  BY DEF Sessions
<1>3. CASE s \in ScaledSessions \cup DirectSessions
  <2>1. removeDataRangeRequest(s)
    BY <1>3 DEF removeSession
  <2>2. OwnQueues'
    BY <1>3, <2>1, OwnQueuesKept DEF RangeNext
  <2>3. ~Has(sensorQueue', s) /\ ~Has(adaptorQueue', s)
    BY <1>3, <2>1, <2>2, RangesForgotten
  <2> QED
    BY <1>1, <1>2, <2>3 DEF Forgotten
<1>4. CASE s \notin ScaledSessions \cup DirectSessions
  <2>1. UNCHANGED rangeVars
    BY <1>4 DEF removeSession
  <2>2. ~Has(sensorQueue', s) /\ ~Has(adaptorQueue', s)
    BY <1>4, <2>1 DEF rangeVars, OwnQueues, Has
  <2> QED
    BY <1>1, <1>2, <2>2 DEF Forgotten
<1> QED
  BY <1>3, <1>4

\* A session that stops or is released leaves no request at any node, for
\* any sessions and any ranges of which none is another scaled twice
\* (NodeBase::removeSession(), core/nodebase.cpp:672).
THEOREM GoneForgotten == ASSUME NeverTwice PROVE Spec => GoneIsForgotten
<1> DEFINE Forgets == \A s \in AllSessions : removeSession(s) => Forgotten(s)'
           Inv == IInv /\ RInv /\ OwnQueues
<1>1. Init => Inv
  <2>1. RangeInit => OwnQueues
    BY DEF RangeInit, OwnQueues
  <2> QED
    BY <2>1, InitInvariant, RangeInitInvariant DEF Init
<1>2. Inv /\ [Next]_vars => Inv'
  BY StepsOfParts, NextInvariant, RangeNextInvariant, OwnQueuesKept
<1>3. Inv => Forgets
  BY RemovalForgets
<1> QED
  BY <1>1, <1>2, <1>3, PTL DEF Spec, GoneIsForgotten
=============================================================================
