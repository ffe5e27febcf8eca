-------------------------- MODULE SensorGraph_proofs --------------------------
(***************************************************************************)
(* First Activation: the counts of starts agree in every graph of sensors, *)
(* chains and adaptors, however it is shared, and the graph supplies what  *)
(* the started sensors need (Supply); these results use the assumptions of *)
(* Activation only.  Then SensorGraph: what the loader leaves is complete, *)
(* so the constructors find what they ask for; the daemon's graph is one   *)
(* that Activation may build; and each adaptor of it has one user, except  *)
(* the accelerometer adaptor while StabilityBin runs.                      *)
(***************************************************************************)
EXTENDS SensorGraph, FiniteSetTheorems, TLAPS

IInv == ActivationTypeOK /\ CountsAgree

\* The running nodes that read from m.
Feeders(m) == {c \in Nodes : Running(c) /\ m \in below[c]}

\* A finite set has no element exactly if it has none to count.
LEMMA CardinalityZero ==
  ASSUME NEW S, IsFiniteSet(S)
  PROVE  Cardinality(S) \in Nat /\ (Cardinality(S) > 0 <=> S # {})
BY FS_CardinalityType, FS_EmptySet

\* Who reads from whom: nobody from a sensor, a lower chain from adaptors only.
LEMMA Layers ==
  ASSUME ActivationTypeOK, NEW n \in Nodes, NEW m \in below[n]
  PROVE  /\ m \in Chains \cup Adaptors
         /\ m \in UpperChains => n \in Sensors
         /\ m \in LowerChains => n \in Sensors \cup UpperChains
         /\ n \in Sensors \cup Chains
BY NodesAssumption DEF ActivationTypeOK, Layer, Nodes, Chains

LEMMA Calls ==
  ASSUME NEW callers \in SUBSET Nodes, NEW m
  PROVE  /\ IsFiniteSet({c \in callers : m \in below[c]})
         /\ CallsFrom(callers, m) \in Nat
         /\ CallsFrom(callers, m) > 0 <=> \E c \in callers : m \in below[c]
<1> DEFINE S == {c \in callers : m \in below[c]}
<1>1. IsFiniteSet(S)
  <2>1. S \in SUBSET Nodes
    OBVIOUS
  <2> QED
    BY <2>1, NodesAssumption, FS_Subset
<1>2. Cardinality(S) \in Nat /\ (Cardinality(S) > 0 <=> S # {})
  BY <1>1, CardinalityZero
<1> QED
  BY <1>1, <1>2 DEF CallsFrom

LEMMA NotCalled ==
  ASSUME NEW callers \in SUBSET Nodes, NEW m, ~ \E c \in callers : m \in below[c]
  PROVE  CallsFrom(callers, m) = 0
<1>1. {c \in callers : m \in below[c]} = {}
  OBVIOUS
<1> QED
  BY <1>1, FS_EmptySet DEF CallsFrom

LEMMA NoCalls == \A m : CallsFrom({}, m) = 0
<1>1. \A m : {c \in {} : m \in below[c]} = {}
  OBVIOUS
<1> QED
  BY <1>1, FS_EmptySet DEF CallsFrom

LEMMA FeedersFinite == \A m : IsFiniteSet(Feeders(m))
<1>1. \A m : Feeders(m) \in SUBSET Nodes
  BY DEF Feeders
<1> QED
  BY <1>1, NodesAssumption, FS_Subset

\* A node that a running node reads from runs, and the other way round.
LEMMA FeedersRun ==
  ASSUME IInv, NEW m \in Chains \cup Adaptors
  PROVE  Running(m) <=> \E c \in Nodes : Running(c) /\ m \in below[c]
<1>1. count[m] = Cardinality(Feeders(m))
  BY DEF IInv, CountsAgree, Feeders
<1>2. Cardinality(Feeders(m)) > 0 <=> Feeders(m) # {}
  BY FeedersFinite, CardinalityZero
<1> QED
  BY <1>1, <1>2 DEF Running, Feeders

\* A sensor runs exactly while it has an active session.
LEMMA SensorRuns ==
  ASSUME IInv, NEW n \in Sensors
  PROVE  /\ IsFiniteSet(active[n])
         /\ Running(n) <=> active[n] # {}
<1>1. active[n] \in SUBSET Sessions
  BY DEF IInv, ActivationTypeOK
<1>2. IsFiniteSet(active[n])
  BY <1>1, NodesAssumption, FS_Subset
<1> QED
  BY <1>2, CardinalityZero DEF IInv, CountsAgree, Running

-----------------------------------------------------------------------------
LEMMA InitInv == ActivationInit => IInv
<1> SUFFICES ASSUME ActivationInit PROVE IInv
  OBVIOUS
<1>1. ActivationTypeOK
  BY DEF ActivationInit, ActivationTypeOK
<1>2. \A n \in Sensors : count[n] = 0 /\ active[n] = {}
  BY DEF ActivationInit, Nodes
<1>3. \A m \in Chains \cup Adaptors : count[m] = 0 /\ Feeders(m) = {}
  BY DEF ActivationInit, Nodes, Feeders, Running
<1> QED
  BY <1>1, <1>2, <1>3, FS_EmptySet DEF IInv, CountsAgree, Feeders

\* The first start of sensor n: exactly the nodes in Started(n) begin to run.
LEMMA StartedRun ==
  ASSUME IInv, NEW n \in Sensors, count[n] = 0,
         \A m \in Nodes :
           count'[m] = count[m] + CallsFrom(Started(n), m) + (IF m = n THEN 1 ELSE 0)
  PROVE  /\ Started(n) \in SUBSET Nodes
         /\ \A c \in Started(n) : count[c] = 0
         /\ \A c \in Sensors : c # n => count'[c] = count[c]
         /\ \A c \in Sensors \cup Chains :
              count'[c] > 0 <=> count[c] > 0 \/ c \in Started(n)
<1> DEFINE upper == {u \in UpperChains \cap below[n] : count[u] = 0}
           T == Started(n)
<1>1. /\ T = {n} \cup upper
             \cup {l \in LowerChains : count[l] = 0 /\ \E c \in {n} \cup upper : l \in below[c]}
      /\ T \in SUBSET Nodes /\ \A c \in T : count[c] = 0
  BY DEF Started, Nodes, Chains
<1> HIDE DEF T
<1>2. \A m \in Nodes : count[m] \in Nat /\ CallsFrom(T, m) \in Nat
  BY <1>1, Calls DEF IInv, ActivationTypeOK
<1>3. \A c \in Sensors : CallsFrom(T, c) = 0
  <2> SUFFICES ASSUME NEW c \in Sensors PROVE CallsFrom(T, c) = 0
    OBVIOUS
  <2>1. ~ \E d \in T : c \in below[d]
    BY <1>1, Layers, NodesAssumption DEF IInv
  <2> QED
    BY <1>1, <2>1, NotCalled
<1>4. ASSUME NEW c \in Sensors
      PROVE  /\ c # n => count'[c] = count[c]
             /\ count'[c] > 0 <=> count[c] > 0 \/ c \in T
  <2>1. c \in T <=> c = n
    BY <1>1, NodesAssumption DEF Chains
  <2>2. count'[c] = count[c] + (IF c = n THEN 1 ELSE 0)
    BY <1>2, <1>3 DEF Nodes, T
  <2> QED
    BY <1>2, <2>1, <2>2 DEF Nodes
<1>5. ASSUME NEW c \in Chains PROVE count'[c] = count[c] + CallsFrom(T, c)
  BY <1>2, <1>5, NodesAssumption DEF Nodes, T
<1>6. ASSUME NEW c \in UpperChains
      PROVE  count'[c] > 0 <=> count[c] > 0 \/ c \in T
  <2>1. (\E d \in T : c \in below[d]) <=> c \in below[n]
    BY <1>1, <1>6, Layers, NodesAssumption DEF IInv, Chains, Nodes
  <2>2. CallsFrom(T, c) > 0 <=> c \in below[n]
    BY <1>1, <2>1, Calls
  <2>3. c \in T <=> c \in below[n] /\ count[c] = 0
    BY <1>1, <1>6, NodesAssumption DEF Chains
  <2> QED
    BY <1>2, <1>5, <1>6, <2>2, <2>3 DEF Chains, Nodes
<1>7. ASSUME NEW c \in LowerChains
      PROVE  count'[c] > 0 <=> count[c] > 0 \/ c \in T
  <2>1. (\E d \in T : c \in below[d]) <=> \E d \in {n} \cup upper : c \in below[d]
    BY <1>1, <1>7, Layers, NodesAssumption DEF IInv, Chains, Nodes
  <2>2. CallsFrom(T, c) > 0 <=> \E d \in {n} \cup upper : c \in below[d]
    BY <1>1, <2>1, Calls
  <2>3. c \in T <=> (count[c] = 0 /\ \E d \in {n} \cup upper : c \in below[d])
    BY <1>1, <1>7, NodesAssumption DEF Chains
  <2> QED
    BY <1>2, <1>5, <1>7, <2>2, <2>3 DEF Chains, Nodes
<1> QED
  BY <1>1, <1>4, <1>6, <1>7 DEF Chains, T

LEMMA StartStep ==
  ASSUME IInv, NEW n \in Sensors, NEW s \in Sessions, start(n, s)
  PROVE  IInv'
<1> DEFINE callers == IF count[n] = 0 THEN Started(n) ELSE {}
<1>1. /\ s \notin active[n] /\ below' = below
      /\ active' = [active EXCEPT ![n] = @ \cup {s}]
      /\ count' = [m \in Nodes |->
                     count[m] + CallsFrom(callers, m) + (IF m = n THEN 1 ELSE 0)]
  BY DEF start
<1> HIDE DEF callers
<1>2. \A m \in Nodes :
        count'[m] = count[m] + CallsFrom(callers, m) + (IF m = n THEN 1 ELSE 0)
  BY <1>1
<1>3. callers \in SUBSET Nodes
  BY DEF callers, Started, Nodes, Chains
<1>4. \A m \in Nodes : CallsFrom(callers, m) \in Nat /\ count[m] \in Nat
  BY <1>3, Calls DEF IInv, ActivationTypeOK
<1>5. ActivationTypeOK'
  <2>1. count' \in [Nodes -> Nat]
    BY <1>1, <1>4
  <2> QED
    BY <1>1, <2>1 DEF IInv, ActivationTypeOK, Layer
\* The nodes that begin to run, and none else, are the callers.
<1>6. /\ \A c \in callers : count[c] = 0
      /\ \A c \in Sensors : c # n => count'[c] = count[c]
      /\ count'[n] = count[n] + 1
      /\ \A c \in Sensors \cup Chains : count'[c] > 0 <=> count[c] > 0 \/ c \in callers
  <2>1. CASE count[n] = 0
    <3>1. callers = Started(n)
      BY <2>1 DEF callers
    <3>2. CallsFrom(callers, n) = 0
      <4>1. ~ \E d \in callers : n \in below[d]
        BY <1>3, Layers, NodesAssumption DEF IInv
      <4> QED
        BY <1>3, <4>1, NotCalled
    <3> QED
      BY <1>2, <1>4, <2>1, <3>1, <3>2, StartedRun DEF Nodes
  <2>2. CASE count[n] # 0
    <3>1. callers = {} /\ \A m : CallsFrom(callers, m) = 0
      BY <2>2, NoCalls DEF callers
    <3> QED
      BY <1>2, <1>4, <2>2, <3>1 DEF Nodes
  <2> QED
    BY <2>1, <2>2
<1>7. \A c \in Sensors : count'[c] = Cardinality(active'[c])
  <2> SUFFICES ASSUME NEW c \in Sensors PROVE count'[c] = Cardinality(active'[c])
    OBVIOUS
  <2>1. CASE c = n
    <3>1. active'[n] = active[n] \cup {s} /\ IsFiniteSet(active[n])
      BY <1>1, SensorRuns DEF IInv, ActivationTypeOK
    <3>2. Cardinality(active'[n]) = Cardinality(active[n]) + 1
      BY <1>1, <3>1, FS_AddElement
    <3> QED
      BY <1>6, <2>1, <3>2 DEF IInv, CountsAgree
  <2>2. CASE c # n
    BY <1>1, <1>6, <2>2 DEF IInv, CountsAgree, ActivationTypeOK
  <2> QED
    BY <2>1, <2>2
<1>8. \A m \in Chains \cup Adaptors : count'[m] = Cardinality(Feeders(m)')
  <2> SUFFICES ASSUME NEW m \in Chains \cup Adaptors
               PROVE  count'[m] = Cardinality(Feeders(m)')
    OBVIOUS
  <2> DEFINE calling == {c \in callers : m \in below[c]}
  <2>1. count'[m] = count[m] + CallsFrom(callers, m)
    BY <1>2, <1>4, NodesAssumption DEF Nodes
  <2>2. IsFiniteSet(calling) /\ CallsFrom(callers, m) = Cardinality(calling)
    BY <1>3, Calls DEF CallsFrom
  <2>3. Feeders(m)' = {c \in Nodes : count'[c] > 0 /\ m \in below[c]}
    BY <1>1 DEF Feeders, Running
  <2>4. Feeders(m)' = Feeders(m) \cup calling
    <3>1. \A c \in Nodes : m \in below[c] => c \in Sensors \cup Chains
      BY Layers DEF IInv
    <3> QED
      BY <1>3, <1>6, <2>3, <3>1 DEF Feeders, Running
  <2>5. Feeders(m) \cap calling = {}
    BY <1>3, <1>4, <1>6 DEF Feeders, Running
  <2>6. /\ IsFiniteSet(Feeders(m)) /\ count[m] = Cardinality(Feeders(m))
        /\ count[m] \in Nat /\ Cardinality(calling) \in Nat
    BY <1>4, <2>2, FeedersFinite, FS_CardinalityType DEF IInv, CountsAgree, Feeders, Nodes
  <2>7. Cardinality(Feeders(m) \cup calling)
          = Cardinality(Feeders(m)) + Cardinality(calling) - 0
    BY <2>2, <2>5, <2>6, FS_Union, FS_EmptySet
  <2> QED
    BY <2>1, <2>2, <2>4, <2>6, <2>7
<1> QED
  BY <1>5, <1>7, <1>8 DEF IInv, CountsAgree, Feeders

-----------------------------------------------------------------------------
\* The last stop of sensor n: exactly the nodes in Stopped(n) end running.
LEMMA StoppedRun ==
  ASSUME IInv, NEW n \in Sensors, count[n] = 1,
         \A m \in Nodes :
           count'[m] = count[m] - (CallsFrom(Stopped(n), m) + (IF m = n THEN 1 ELSE 0))
  PROVE  \A c \in Sensors \cup Chains :
              count'[c] > 0 <=> count[c] > 0 /\ c \notin Stopped(n)
<1> DEFINE upper == {u \in UpperChains \cap below[n] : count[u] = 1}
           T == Stopped(n)
<1>1. /\ T = {n} \cup upper
             \cup {l \in LowerChains : /\ count[l] > 0
                                       /\ count[l] <= CallsFrom({n} \cup upper, l)}
      /\ T \in SUBSET Nodes /\ {n} \cup upper \in SUBSET Nodes
  BY DEF Stopped, Nodes, Chains
<1>0. \A m \in Nodes : count'[m] = count[m] - (CallsFrom(T, m) + (IF m = n THEN 1 ELSE 0))
  OBVIOUS
<1> HIDE DEF T
<1>2. \A m \in Nodes : /\ count[m] \in Nat /\ CallsFrom(T, m) \in Nat
                       /\ CallsFrom({n} \cup upper, m) \in Nat
  BY <1>1, Calls DEF IInv, ActivationTypeOK
<1>3. ASSUME NEW c \in Sensors
      PROVE  count'[c] > 0 <=> count[c] > 0 /\ c \notin T
  <2>1. ~ \E d \in T : c \in below[d]
    BY <1>1, Layers, NodesAssumption DEF IInv
  <2>2. CallsFrom(T, c) = 0
    BY <1>1, <2>1, NotCalled
  <2>3. c \in T <=> c = n
    BY <1>1, NodesAssumption DEF Chains
  <2>4. count'[c] = count[c] - (IF c = n THEN 1 ELSE 0)
    BY <1>0, <1>2, <2>2 DEF Nodes
  <2>5. CASE c = n
    BY <2>3, <2>4, <2>5
  <2>6. CASE c # n
    <3>1. count'[c] = count[c] - 0 /\ count[c] \in Nat
      BY <1>2, <2>4, <2>6 DEF Nodes
    <3> QED
      BY <2>3, <2>6, <3>1
  <2> QED
    BY <2>5, <2>6
<1>4. ASSUME NEW c \in Chains PROVE count'[c] = count[c] - CallsFrom(T, c)
  <2>1. c # n /\ c \in Nodes
    BY NodesAssumption DEF Nodes
  <2>2. count[c] \in Nat /\ CallsFrom(T, c) \in Nat
    BY <1>2, <2>1
  <2>3. count'[c] = count[c] - (CallsFrom(T, c) + 0)
    BY <1>0, <2>1
  <2> QED
    BY <2>2, <2>3
<1>5. ASSUME NEW c \in UpperChains
      PROVE  count'[c] > 0 <=> count[c] > 0 /\ c \notin T
  <2>1. c \in T <=> c \in below[n] /\ count[c] = 1
    BY <1>1, <1>5, NodesAssumption DEF Chains
  <2>2. CASE c \in below[n]
    <3>1. {d \in T : c \in below[d]} = {n}
      BY <1>1, <1>5, <2>2, Layers, NodesAssumption DEF IInv, Chains, Nodes
    <3>2. CallsFrom(T, c) = 1
      BY <3>1, FS_Singleton DEF CallsFrom
    <3>3. count[c] > 0
      BY <2>2, FeedersRun DEF Running, Chains, Nodes
    <3>4. count'[c] = count[c] - 1 /\ count[c] \in Nat
      BY <1>2, <1>4, <3>2 DEF Chains, Nodes
    <3> QED
      BY <2>1, <2>2, <3>3, <3>4
  <2>3. CASE c \notin below[n]
    <3>1. ~ \E d \in T : c \in below[d]
      BY <1>1, <1>5, <2>3, Layers, NodesAssumption DEF IInv, Chains, Nodes
    <3>2. CallsFrom(T, c) = 0
      BY <1>1, <3>1, NotCalled
    <3>3. count'[c] = count[c] - 0 /\ count[c] \in Nat
      BY <1>2, <1>4, <3>2 DEF Chains, Nodes
    <3> QED
      BY <2>1, <2>3, <3>3
  <2> QED
    BY <2>2, <2>3
<1>6. ASSUME NEW c \in LowerChains
      PROVE  count'[c] > 0 <=> count[c] > 0 /\ c \notin T
  <2>1. {d \in T : c \in below[d]} = {d \in {n} \cup upper : c \in below[d]}
    BY <1>1, <1>6, Layers, NodesAssumption DEF IInv, Chains, Nodes
  <2>2. CallsFrom(T, c) = CallsFrom({n} \cup upper, c)
    BY <2>1 DEF CallsFrom
  <2>3. c \in T <=> count[c] > 0 /\ count[c] <= CallsFrom({n} \cup upper, c)
    BY <1>1, <1>6, NodesAssumption DEF Chains
  <2> QED
    BY <1>2, <1>4, <1>6, <2>2, <2>3 DEF Chains, Nodes
<1> QED
  BY <1>3, <1>5, <1>6 DEF Chains, T

LEMMA StopStep ==
  ASSUME IInv, NEW n \in Sensors, NEW s \in Sessions, stop(n, s)
  PROVE  IInv'
<1> DEFINE callers == IF count[n] = 1 THEN Stopped(n) ELSE {}
           stops(m) == CallsFrom(callers, m) + (IF m = n THEN 1 ELSE 0)
<1>1. /\ s \in active[n] /\ below' = below
      /\ active' = [active EXCEPT ![n] = @ \ {s}]
      /\ count' = [m \in Nodes |-> IF stops(m) > count[m] THEN 0 ELSE count[m] - stops(m)]
  BY DEF stop
<1>2. callers \in SUBSET Nodes
  BY DEF Stopped, Nodes, Chains
<1>3. n \in Nodes /\ count[n] > 0
  BY <1>1, SensorRuns DEF Running, Nodes
<1>4. \A m \in Nodes : CallsFrom(callers, m) \in Nat /\ count[m] \in Nat
  BY <1>2, Calls DEF IInv, ActivationTypeOK
<1>5. \A c \in callers : c \in Nodes /\ count[c] > 0
  <2>1. ASSUME count[n] = 1, NEW c \in Stopped(n) PROVE count[c] > 0
    BY <2>1, <1>3, <1>4 DEF Stopped, Nodes, Chains
  <2> QED
    BY <1>2, <2>1
<1> HIDE DEF callers
\* No node is stopped more often than it was started.
<1>6. ASSUME NEW m \in Nodes PROVE stops(m) <= count[m]
  <2>1. CASE m \in Sensors
    <3>1. ~ \E d \in callers : m \in below[d]
      BY <1>2, <2>1, Layers, NodesAssumption DEF IInv
    <3>2. CallsFrom(callers, m) = 0
      BY <1>2, <3>1, NotCalled
    <3> QED
      BY <1>3, <1>4, <3>2
  <2>2. CASE m \in Chains \cup Adaptors
    <3>1. {c \in callers : m \in below[c]} \in SUBSET Feeders(m)
      BY <1>5 DEF Feeders, Running
    <3>2. Cardinality({c \in callers : m \in below[c]}) <= Cardinality(Feeders(m))
      BY <3>1, FeedersFinite, FS_Subset
    <3>3. count[m] = Cardinality(Feeders(m)) /\ m # n
      BY <2>2, NodesAssumption DEF IInv, CountsAgree, Feeders
    <3> QED
      BY <1>4, <3>2, <3>3 DEF CallsFrom
  <2> QED
    BY <2>1, <2>2 DEF Nodes
<1>7. \A m \in Nodes : count'[m] = count[m] - stops(m)
  <2> SUFFICES ASSUME NEW m \in Nodes PROVE count'[m] = count[m] - stops(m)
    OBVIOUS
  <2>1. ~ (stops(m) > count[m])
    BY <1>4, <1>6
  <2> QED
    BY <1>1, <2>1
<1>8. ActivationTypeOK'
  <2>1. \A m \in Nodes : count'[m] \in Nat
    BY <1>4, <1>6, <1>7
  <2>2. count' \in [Nodes -> Nat]
    BY <1>1, <2>1
  <2> QED
    BY <1>1, <2>2 DEF IInv, ActivationTypeOK, Layer
<1>9. \A c \in Sensors \cup Chains : count'[c] > 0 <=> count[c] > 0 /\ c \notin callers
  <2>1. CASE count[n] = 1
    <3>1. callers = Stopped(n)
      BY <2>1 DEF callers
    <3> QED
      BY <1>7, <2>1, <3>1, StoppedRun
  <2>2. CASE count[n] # 1
    <3>1. callers = {} /\ \A m : CallsFrom(callers, m) = 0
      BY <2>2, NoCalls DEF callers
    <3>2. \A c \in Nodes : count'[c] = count[c] - (IF c = n THEN 1 ELSE 0)
      BY <1>4, <1>7, <3>1
    <3> QED
      BY <1>3, <1>4, <2>2, <3>1, <3>2 DEF Nodes
  <2> QED
    BY <2>1, <2>2
<1>10. \A c \in Sensors : count'[c] = Cardinality(active'[c])
  <2> SUFFICES ASSUME NEW c \in Sensors PROVE count'[c] = Cardinality(active'[c])
    OBVIOUS
  <2>0. CallsFrom(callers, c) = 0
    <3>1. ~ \E d \in callers : c \in below[d]
      BY <1>2, Layers, NodesAssumption DEF IInv
    <3> QED
      BY <1>2, <3>1, NotCalled
  <2>1. CASE c = n
    <3>1. active'[n] = active[n] \ {s} /\ IsFiniteSet(active[n])
      BY <1>1, SensorRuns DEF IInv, ActivationTypeOK
    <3>2. Cardinality(active'[n]) = Cardinality(active[n]) - 1
      BY <1>1, <3>1, FS_RemoveElement
    <3> QED
      BY <1>3, <1>4, <1>7, <2>0, <2>1, <3>2 DEF IInv, CountsAgree
  <2>2. CASE c # n
    <3>1. count'[c] = count[c] /\ active'[c] = active[c]
      BY <1>1, <1>4, <1>7, <2>0, <2>2 DEF IInv, ActivationTypeOK, Nodes
    <3> QED
      BY <3>1 DEF IInv, CountsAgree
  <2> QED
    BY <2>1, <2>2
<1>11. \A m \in Chains \cup Adaptors : count'[m] = Cardinality(Feeders(m)')
  <2> SUFFICES ASSUME NEW m \in Chains \cup Adaptors
               PROVE  count'[m] = Cardinality(Feeders(m)')
    OBVIOUS
  <2> DEFINE calling == {c \in callers : m \in below[c]}
  <2>1. count'[m] = count[m] - Cardinality(calling)
    <3>1. m # n /\ m \in Nodes /\ CallsFrom(callers, m) = Cardinality(calling)
      BY NodesAssumption DEF Nodes, CallsFrom
    <3> QED
      BY <1>4, <1>7, <3>1
  <2>2. Feeders(m)' = {c \in Nodes : count'[c] > 0 /\ m \in below[c]}
    BY <1>1 DEF Feeders, Running
  <2>3. Feeders(m)' = Feeders(m) \ calling
    <3>1. \A c \in Nodes : m \in below[c] => c \in Sensors \cup Chains
      BY Layers DEF IInv
    <3> QED
      BY <1>9, <2>2, <3>1 DEF Feeders, Running
  <2>4. Feeders(m) \cap calling = calling
    BY <1>5 DEF Feeders, Running
  <2>5. IsFiniteSet(Feeders(m)) /\ count[m] = Cardinality(Feeders(m))
    BY FeedersFinite DEF IInv, CountsAgree, Feeders
  <2> QED
    BY <2>1, <2>3, <2>4, <2>5, FS_Difference
<1> QED
  BY <1>8, <1>10, <1>11 DEF IInv, CountsAgree, Feeders

\* A node is constructed before anybody starts it.
LEMMA ConstructStep ==
  ASSUME IInv, NEW new \in SUBSET Nodes, NEW sources \in [Nodes -> SUBSET Nodes],
         construct(new, sources)
  PROVE  IInv' /\ \A n \in Nodes : Running(n) => below'[n] = below[n]
<1>1. /\ \A n \in new : count[n] = 0 /\ sources[n] \subseteq Layer(n)
      /\ below' = [n \in Nodes |-> IF n \in new THEN sources[n] ELSE below[n]]
      /\ active' = active /\ count' = count
  BY DEF construct
<1>2. \A n \in Nodes : below'[n] = IF n \in new THEN sources[n] ELSE below[n]
  BY <1>1
<1>3. ActivationTypeOK'
  <2>1. below' \in [Nodes -> SUBSET Nodes]
    BY <1>1 DEF IInv, ActivationTypeOK
  <2>2. \A n \in Nodes : below'[n] \subseteq Layer(n)
    BY <1>1, <1>2 DEF IInv, ActivationTypeOK
  <2> QED
    BY <1>1, <2>1, <2>2 DEF IInv, ActivationTypeOK, Layer
<1>4. \A n \in Nodes : Running(n) => below'[n] = below[n]
  BY <1>1, <1>2 DEF Running
<1>5. \A m : Feeders(m)' = Feeders(m)
  BY <1>1, <1>4 DEF Feeders, Running
<1>6. CountsAgree'
  BY <1>1, <1>5 DEF IInv, CountsAgree, Feeders
<1> QED
  BY <1>3, <1>4, <1>6 DEF IInv

LEMMA NextInv == IInv /\ [ActivationNext]_activationVars => IInv'
<1> SUFFICES ASSUME IInv, [ActivationNext]_activationVars PROVE IInv'
  OBVIOUS
<1>1. ASSUME NEW n \in Sensors, NEW s \in Sessions, start(n, s) PROVE IInv'
  BY <1>1, StartStep
<1>2. ASSUME NEW n \in Sensors, NEW s \in Sessions, stop(n, s) PROVE IInv'
  BY <1>2, StopStep
<1>3. ASSUME NEW new \in SUBSET Nodes, NEW sources \in [Nodes -> SUBSET Nodes],
             construct(new, sources)
      PROVE  IInv'
  BY <1>3, ConstructStep
<1>4. CASE UNCHANGED activationVars
  BY <1>4 DEF activationVars, IInv, ActivationTypeOK, Layer, CountsAgree, Running
<1> QED
  BY <1>1, <1>2, <1>3, <1>4 DEF ActivationNext

-----------------------------------------------------------------------------
THEOREM ActivationInvariant == ActivationSpec => []IInv
BY InitInv, NextInv, PTL DEF ActivationSpec

\* A node reads from the layers below it only, and no count falls below zero.
THEOREM ActivationTypeCorrect == ActivationSpec => []ActivationTypeOK
BY ActivationInvariant, PTL DEF IInv

\* No start or stop is lost or passed on twice, whatever sensors, chains and
\* adaptors there are and however they are shared
\* (AbstractSensorChannel::start(), stop() and their overrides).
THEOREM CountsAlwaysAgree == ActivationSpec => []CountsAgree
BY ActivationInvariant, PTL DEF IInv

-----------------------------------------------------------------------------
\* The refinement: an adaptor runs exactly while a started sensor reaches it.
OnNeeded ==
  {a \in Adaptors : Running(a)} = UNION {Reach(n) : n \in {q \in Sensors : active[q] # {}}}

LEMMA ReachedRuns == IInv => OnNeeded
<1> SUFFICES ASSUME IInv PROVE OnNeeded
  OBVIOUS
<1>1. \A c \in Nodes : \A m \in below[c] :
        /\ m \in Chains \cup Adaptors /\ m \in Nodes
        /\ Running(c) => Running(m)
  BY Layers, FeedersRun DEF IInv, Nodes
<1>2. ASSUME NEW n \in Sensors, active[n] # {}, NEW a \in Reach(n)
      PROVE  a \in Adaptors /\ Running(a)
  <2>1. Running(n) /\ n \in Nodes
    BY <1>2, SensorRuns DEF Nodes
  <2>2. \A c \in below[n] : Running(c) /\ c \in Nodes
    BY <1>1, <2>1
  <2>3. \A d \in UNION {below[c] : c \in below[n]} : Running(d) /\ d \in Nodes
    BY <1>1, <2>2
  <2>4. \A e \in UNION {below[d] : d \in UNION {below[c] : c \in below[n]}} : Running(e)
    BY <1>1, <2>3
  <2> QED
    BY <2>2, <2>3, <2>4 DEF Reach
<1>3. ASSUME NEW a \in Adaptors, Running(a)
      PROVE  \E n \in Sensors : active[n] # {} /\ a \in Reach(n)
  <2>1. PICK c \in Nodes : Running(c) /\ a \in below[c]
    BY <1>3, FeedersRun
  <2>2. c \in Sensors \cup Chains
    BY <2>1, Layers DEF IInv
  <2>3. CASE c \in Sensors
    BY <2>1, <2>3, SensorRuns DEF Reach
  <2>4. CASE c \in UpperChains
    <3>1. PICK d \in Nodes : Running(d) /\ c \in below[d]
      BY <2>1, <2>4, FeedersRun DEF Chains
    <3>2. d \in Sensors
      BY <2>4, <3>1, Layers DEF IInv
    <3> QED
      BY <2>1, <3>1, <3>2, SensorRuns DEF Reach
  <2>5. CASE c \in LowerChains
    <3>1. PICK d \in Nodes : Running(d) /\ c \in below[d]
      BY <2>1, <2>5, FeedersRun DEF Chains
    <3>2. d \in Sensors \cup UpperChains
      BY <2>5, <3>1, Layers DEF IInv
    <3>3. CASE d \in Sensors
      BY <2>1, <3>1, <3>3, SensorRuns DEF Reach
    <3>4. CASE d \in UpperChains
      <4>1. PICK e \in Nodes : Running(e) /\ d \in below[e]
        BY <3>1, <3>4, FeedersRun DEF Chains
      <4>2. e \in Sensors
        BY <3>4, <4>1, Layers DEF IInv
      <4>3. a \in Reach(e)
        BY <1>3, <2>1, <3>1, <4>1 DEF Reach
      <4> QED
        BY <4>1, <4>2, <4>3, SensorRuns
    <3> QED
      BY <3>2, <3>3, <3>4
  <2> QED
    BY <2>2, <2>3, <2>4, <2>5 DEF Chains
<1> QED
  BY <1>2, <1>3 DEF OnNeeded

\* What a started sensor reaches stays as it is: it all runs.
LEMMA ReachStays ==
  ASSUME IInv, NEW n \in Sensors, active[n] # {},
         \A c \in Nodes : Running(c) => below'[c] = below[c]
  PROVE  Reach(n)' = Reach(n)
<1>1. \A c \in Nodes : \A m \in below[c] : m \in Nodes /\ (Running(c) => Running(m))
  BY Layers, FeedersRun DEF IInv, Nodes
<1>2. below'[n] = below[n] /\ \A c \in below[n] : Running(c) /\ c \in Nodes
  BY <1>1, SensorRuns DEF Nodes
<1> DEFINE two == UNION {below[c] : c \in below[n]}
<1>3. /\ UNION {below'[c] : c \in below'[n]} = two
      /\ \A d \in two : Running(d) /\ d \in Nodes
  <2>1. \A c \in below[n] : below'[c] = below[c]
    BY <1>2
  <2> QED
    BY <1>1, <1>2, <2>1
<1> HIDE DEF two
<1>4. UNION {below'[d] : d \in two} = UNION {below[d] : d \in two}
  <2>1. \A d \in two : below'[d] = below[d]
    BY <1>3
  <2> QED
    BY <2>1
<1> QED
  BY <1>2, <1>3, <1>4 DEF Reach, two

LEMMA SupplyInit == ActivationInit => Supplier!Init
<1> SUFFICES ASSUME ActivationInit PROVE Supplier!Init
  OBVIOUS
<1>1. \A n \in Sensors : Reach(n) = {} /\ active[n] = {}
  BY DEF ActivationInit, Reach, Nodes
<1>2. \A a \in Adaptors : ~Running(a)
  BY DEF ActivationInit, Running, Nodes
<1> QED
  BY <1>1, <1>2 DEF Supplier!Init

\* Starting or stopping a sensor makes it wanted or leaves it unwanted.
LEMMA SupplyWant ==
  ASSUME IInv, IInv', NEW n \in Sensors, below' = below,
         \A q \in Sensors : q # n => active'[q] = active[q]
  PROVE  Supplier!Want(n)
<1> DEFINE wanted == {q \in Sensors : active[q] # {}}
<1>1. wanted' \in {wanted \cup {n}, wanted \ {n}}
  <2>1. CASE active'[n] # {}
    BY <2>1
  <2>2. CASE active'[n] = {}
    BY <2>2
  <2> QED
    BY <2>1, <2>2
<1>2. \A q : Reach(q)' = Reach(q)
  BY DEF Reach
<1>3. OnNeeded'
  BY ReachedRuns, PTL
<1>4. \A q \in wanted' : [r \in Sensors |-> Reach(r)][q] = Reach(q)
  OBVIOUS
<1> QED
  BY <1>1, <1>2, <1>3, <1>4 DEF OnNeeded, Supplier!Want, Supplier!Needed

LEMMA SupplySettle ==
  ASSUME IInv, NEW new \in SUBSET Nodes, NEW sources \in [Nodes -> SUBSET Nodes],
         construct(new, sources)
  PROVE  Supplier!Settle
<1>1. active' = active /\ count' = count
  BY DEF construct
<1>2. \A n \in Sensors : active[n] # {} => Reach(n)' = Reach(n)
  BY ConstructStep, ReachStays
<1>3. [n \in Sensors |-> Reach(n)]' \in [Sensors -> SUBSET Adaptors]
  BY DEF Reach
<1> QED
  BY <1>1, <1>2, <1>3 DEF Supplier!Settle, Running

LEMMA SupplyStep ==
  ASSUME IInv, IInv', [ActivationNext]_activationVars
  PROVE  [Supplier!Next]_Supplier!vars
<1>1. ASSUME NEW n \in Sensors, NEW s \in Sessions, start(n, s) \/ stop(n, s)
      PROVE  Supplier!Want(n)
  <2>1. below' = below /\ \A q \in Sensors : q # n => active'[q] = active[q]
    BY <1>1 DEF start, stop, IInv, ActivationTypeOK
  <2> QED
    BY <2>1, SupplyWant
<1>2. ASSUME NEW new \in SUBSET Nodes, NEW sources \in [Nodes -> SUBSET Nodes],
             construct(new, sources)
      PROVE  Supplier!Settle
  BY <1>2, SupplySettle
<1>3. CASE UNCHANGED activationVars
  BY <1>3 DEF activationVars, Supplier!vars, Reach, Running
<1> QED
  BY <1>1, <1>2, <1>3 DEF ActivationNext, Supplier!Next

\* The graph implements Supply: an adaptor is on exactly while a started sensor
\* needs it, for every graph and every order of starts, stops and constructions.
THEOREM GraphSupplies == ActivationSpec => ImplementsSupply
<1>1. IInv /\ IInv' /\ [ActivationNext]_activationVars => [Supplier!Next]_Supplier!vars
  BY SupplyStep
<1> QED
  BY <1>1, SupplyInit, ActivationInvariant, PTL
     DEF ActivationSpec, ImplementsSupply, Supplier!Spec


-----------------------------------------------------------------------------
\* The plugins that p depends on.
Needed(p) == {Dependencies(p)[i] : i \in 1..Len(Dependencies(p))}

LoaderState == [ok : BOOLEAN, loaded : SUBSET Plugins, available : SUBSET Plugins]

\* What is loaded is complete: with a plugin, the plugins that it depends on.
Complete(names) == \A p \in names : Needed(p) \subseteq names

\* Nothing loaded is lost on the way from l to m, and it stays complete.
Advances(l, m) == m \in LoaderState /\ Complete(m.loaded) /\ l.loaded \subseteq m.loaded

Brings(p, l, m) == Advances(l, m) /\ (m.ok => p \in m.loaded)

LEMMA AttemptBrings ==
  ASSUME NEW l \in LoaderState, Complete(l.loaded), NEW p, NEW after,
         Advances(l, after), after.ok => Needed(p) \subseteq after.loaded
  PROVE  Brings(p, l, Attempted(p, l, after))
<1>1. CASE p \in l.loaded
  BY <1>1 DEF Attempted, Brings, Advances, LoaderState
<1>2. CASE p \notin l.loaded /\ p \notin l.available
  BY <1>2 DEF Attempted, Brings, Advances, LoaderState
<1>3. CASE p \notin l.loaded /\ p \in l.available /\ after.ok
  <2>1. Attempted(p, l, after) = [after EXCEPT !.loaded = @ \cup {p}]
    BY <1>3 DEF Attempted
  <2>2. p \in Plugins
    BY <1>3 DEF LoaderState
  <2>3. Complete(after.loaded \cup {p})
    BY <1>3 DEF Advances, Complete
  <2> QED
    BY <2>1, <2>2, <2>3 DEF Brings, Advances, LoaderState
<1>4. CASE p \notin l.loaded /\ p \in l.available /\ ~after.ok
  BY <1>4 DEF Attempted, Brings, Advances, LoaderState
<1> QED
  BY <1>1, <1>2, <1>3, <1>4

\* One step of the loop over dependencies.
Tries(ds, i, l, m) ==
  IF i <= Len(ds) /\ l.ok THEN Brings(ds[i], l, m) ELSE m = l

LEMMA TriesAll ==
  ASSUME NEW l \in LoaderState, Complete(l.loaded),
         NEW ds, Len(ds) \in 0..6,
         NEW m0, NEW m1, NEW m2, NEW m3, NEW m4, NEW m5, NEW m6,
         m0 = [l EXCEPT !.ok = TRUE],
         Advances(l, m0) => Tries(ds, 1, m0, m1), 
         Advances(l, m1) => Tries(ds, 2, m1, m2),
         Advances(l, m2) => Tries(ds, 3, m2, m3), 
         Advances(l, m3) => Tries(ds, 4, m3, m4),
         Advances(l, m4) => Tries(ds, 5, m4, m5), 
         Advances(l, m5) => Tries(ds, 6, m5, m6)
  PROVE  Advances(l, m6) /\ (m6.ok => \A i \in 1..Len(ds) : ds[i] \in m6.loaded)
<1> DEFINE Upto(k, m) == Advances(l, m) /\ (m.ok => \A i \in 1..Len(ds) : i <= k => ds[i] \in m.loaded)
<1>0. Upto(0, m0)
  <2>1. Advances(l, m0)
    BY DEF Advances, LoaderState
  <2> QED
    BY <2>1
<1>1. ASSUME NEW k \in 0..5, NEW m, NEW n, Upto(k, m), Tries(ds, k + 1, m, n)
      PROVE  Upto(k + 1, n)
  <2>1. CASE k + 1 <= Len(ds) /\ m.ok
    <3>1. Brings(ds[k + 1], m, n)
      BY <1>1, <2>1 DEF Tries
    <3>2. \A i \in 1..Len(ds) : i <= k + 1 => i <= k \/ i = k + 1
      OBVIOUS
    <3> QED
      BY <1>1, <2>1, <3>1, <3>2 DEF Brings, Advances
  <2>2. CASE ~ (k + 1 <= Len(ds) /\ m.ok)
    <3>1. n = m
      BY <1>1, <2>2 DEF Tries
    <3>2. ~m.ok \/ \A i \in 1..Len(ds) : i <= k + 1 => i <= k
      BY <2>2
    <3> QED
      BY <1>1, <3>1, <3>2
  <2> QED
    BY <2>1, <2>2
<1>2. Upto(1, m1)
  BY <1>0, <1>1, 0 + 1 = 1
<1>3. Upto(2, m2)
  BY <1>2, <1>1, 1 + 1 = 2
<1>4. Upto(3, m3)
  BY <1>3, <1>1, 2 + 1 = 3
<1>5. Upto(4, m4)
  BY <1>4, <1>1, 3 + 1 = 4
<1>6. Upto(5, m5)
  BY <1>5, <1>1, 4 + 1 = 5
<1>7. Upto(6, m6)
  BY <1>6, <1>1, 5 + 1 = 6
<1> QED
  BY <1>7

\* One operator of the loader, if the one below it is right.
LEMMA LoadLowerTurn ==
  ASSUME NEW l \in LoaderState, Complete(l.loaded), NEW p, Len(Dependencies(p)) \in 0..6,
         \A d \in Needed(p) : \A m \in LoaderState :
           Complete(m.loaded) => Brings(d, m, LoadAdaptor(d, m))
  PROVE  Brings(p, l, LoadLower(p, l))
<1> DEFINE ds == Dependencies(p)
           m0 == [l EXCEPT !.ok = TRUE]
           m1 == tryAdaptor(ds, 1, m0)
           m2 == tryAdaptor(ds, 2, m1)
           m3 == tryAdaptor(ds, 3, m2)
           m4 == tryAdaptor(ds, 4, m3)
           m5 == tryAdaptor(ds, 5, m4)
           m6 == tryAdaptor(ds, 6, m5)
<1>1. LoadLower(p, l) = Attempted(p, l, m6)
  BY DEF LoadLower, InTurn
<1>2. ASSUME NEW i \in 1..6, NEW m, Advances(l, m) PROVE Tries(ds, i, m, tryAdaptor(ds, i, m))
  <2>1. i <= Len(ds) => ds[i] \in Needed(p)
    BY DEF Needed
  <2> QED
    BY <1>2, <2>1 DEF Tries, tryAdaptor, tryDependency, Advances
<1>3. /\ m0 = [l EXCEPT !.ok = TRUE]
      /\ Advances(l, m0) => Tries(ds, 1, m0, m1)
      /\ Advances(l, m1) => Tries(ds, 2, m1, m2)
      /\ Advances(l, m2) => Tries(ds, 3, m2, m3)
      /\ Advances(l, m3) => Tries(ds, 4, m3, m4)
      /\ Advances(l, m4) => Tries(ds, 5, m4, m5)
      /\ Advances(l, m5) => Tries(ds, 6, m5, m6)
  BY <1>2
<1> HIDE DEF m0, m1, m2, m3, m4, m5, m6
<1>4. Advances(l, m6) /\ (m6.ok => \A i \in 1..Len(ds) : ds[i] \in m6.loaded)
  BY <1>3, TriesAll
<1>5. m6.ok => Needed(p) \subseteq m6.loaded
  BY <1>4 DEF Needed
<1> QED
  BY <1>1, <1>4, <1>5, AttemptBrings

LEMMA LoadUpperTurn ==
  ASSUME NEW l \in LoaderState, Complete(l.loaded), NEW p, Len(Dependencies(p)) \in 0..6,
         \A d \in Needed(p) : \A m \in LoaderState :
           Complete(m.loaded) => Brings(d, m, LoadLower(d, m))
  PROVE  Brings(p, l, LoadUpper(p, l))
<1> DEFINE ds == Dependencies(p)
           m0 == [l EXCEPT !.ok = TRUE]
           m1 == tryLower(ds, 1, m0)
           m2 == tryLower(ds, 2, m1)
           m3 == tryLower(ds, 3, m2)
           m4 == tryLower(ds, 4, m3)
           m5 == tryLower(ds, 5, m4)
           m6 == tryLower(ds, 6, m5)
<1>1. LoadUpper(p, l) = Attempted(p, l, m6)
  BY DEF LoadUpper, InTurn
<1>2. ASSUME NEW i \in 1..6, NEW m, Advances(l, m) PROVE Tries(ds, i, m, tryLower(ds, i, m))
  <2>1. i <= Len(ds) => ds[i] \in Needed(p)
    BY DEF Needed
  <2> QED
    BY <1>2, <2>1 DEF Tries, tryLower, tryDependency, Advances
<1>3. /\ m0 = [l EXCEPT !.ok = TRUE]
      /\ Advances(l, m0) => Tries(ds, 1, m0, m1)
      /\ Advances(l, m1) => Tries(ds, 2, m1, m2)
      /\ Advances(l, m2) => Tries(ds, 3, m2, m3)
      /\ Advances(l, m3) => Tries(ds, 4, m3, m4)
      /\ Advances(l, m4) => Tries(ds, 5, m4, m5)
      /\ Advances(l, m5) => Tries(ds, 6, m5, m6)
  BY <1>2
<1> HIDE DEF m0, m1, m2, m3, m4, m5, m6
<1>4. Advances(l, m6) /\ (m6.ok => \A i \in 1..Len(ds) : ds[i] \in m6.loaded)
  BY <1>3, TriesAll
<1>5. m6.ok => Needed(p) \subseteq m6.loaded
  BY <1>4 DEF Needed
<1> QED
  BY <1>1, <1>4, <1>5, AttemptBrings

LEMMA loadPluginFileTurn ==
  ASSUME NEW l \in LoaderState, Complete(l.loaded), NEW p, Len(Dependencies(p)) \in 0..6,
         \A d \in Needed(p) : \A m \in LoaderState :
           Complete(m.loaded) => Brings(d, m, LoadUpper(d, m))
  PROVE  Brings(p, l, loadPluginFile(p, l))
<1> DEFINE ds == Dependencies(p)
           m0 == [l EXCEPT !.ok = TRUE]
           m1 == tryUpper(ds, 1, m0)
           m2 == tryUpper(ds, 2, m1)
           m3 == tryUpper(ds, 3, m2)
           m4 == tryUpper(ds, 4, m3)
           m5 == tryUpper(ds, 5, m4)
           m6 == tryUpper(ds, 6, m5)
<1>1. loadPluginFile(p, l) = Attempted(p, l, m6)
  BY DEF loadPluginFile, InTurn
<1>2. ASSUME NEW i \in 1..6, NEW m, Advances(l, m) PROVE Tries(ds, i, m, tryUpper(ds, i, m))
  <2>1. i <= Len(ds) => ds[i] \in Needed(p)
    BY DEF Needed
  <2> QED
    BY <1>2, <2>1 DEF Tries, tryUpper, tryDependency, Advances
<1>3. /\ m0 = [l EXCEPT !.ok = TRUE]
      /\ Advances(l, m0) => Tries(ds, 1, m0, m1)
      /\ Advances(l, m1) => Tries(ds, 2, m1, m2)
      /\ Advances(l, m2) => Tries(ds, 3, m2, m3)
      /\ Advances(l, m3) => Tries(ds, 4, m3, m4)
      /\ Advances(l, m4) => Tries(ds, 5, m4, m5)
      /\ Advances(l, m5) => Tries(ds, 6, m5, m6)
  BY <1>2
<1> HIDE DEF m0, m1, m2, m3, m4, m5, m6
<1>4. Advances(l, m6) /\ (m6.ok => \A i \in 1..Len(ds) : ds[i] \in m6.loaded)
  BY <1>3, TriesAll
<1>5. m6.ok => Needed(p) \subseteq m6.loaded
  BY <1>4 DEF Needed
<1> QED
  BY <1>1, <1>4, <1>5, AttemptBrings

-----------------------------------------------------------------------------
\* What the plugins need.
LEMMA DirectDomain ==
  DOMAIN DirectAdaptor =
    {"alssensor", "gyroscopesensor", "humiditysensor", "lidsensor", "pressuresensor",
     "proximitysensor", "stepcountersensor", "tapsensor", "temperaturesensor", "wakeupsensor"}
BY DEF DirectAdaptor

LEMMA DirectRange ==
  ASSUME NEW p \in DOMAIN DirectAdaptor
  PROVE  DirectAdaptor[p] \in
           {"alsadaptor", "gyroscopeadaptor", "humidityadaptor", "lidsensoradaptor",
            "pressureadaptor", "proximityadaptor", "stepcounteradaptor", "tapadaptor",
            "temperatureadaptor", "wakeupadaptor"}
BY DirectDomain DEF DirectAdaptor

\* A plugin that is none of the sensors and chains depends on nothing.
LEMMA OthersNeedNothing ==
  ASSUME NEW p, p \notin DOMAIN DirectAdaptor,
         p \notin {"accelerometersensor", "magnetometersensor", "orientationsensor",
                 "compasssensor", "rotationsensor", "contextsensor", "accelerometerchain",
                 "magcalibrationchain", "orientationchain", "compasschain"}
  PROVE  Needed(p) = {}
<1>1. Dependencies(p) = <<>>
  BY DEF Dependencies
<1> QED
  BY <1>1 DEF Needed

LEMMA DirectNeeds ==
  /\ \A p \in DOMAIN DirectAdaptor : Needed(p) = {DirectAdaptor[p]}
  /\ \A p \in DOMAIN DirectAdaptor : Needed(DirectAdaptor[p]) = {}
<1>1. ASSUME NEW p \in DOMAIN DirectAdaptor PROVE Needed(p) = {DirectAdaptor[p]}
  <2>1. Dependencies(p) = <<DirectAdaptor[p]>>
    BY DirectDomain DEF Dependencies
  <2> QED
    BY <2>1 DEF Needed
<1>2. ASSUME NEW p \in DOMAIN DirectAdaptor PROVE Needed(DirectAdaptor[p]) = {}
  BY DirectDomain, DirectRange, OthersNeedNothing
<1> QED
  BY <1>1, <1>2

LEMMA ChainNeeds ==
  /\ Needed("accelerometerchain") = {"coordinatealignfilter", "accelerometeradaptor"}
  /\ Needed("magcalibrationchain") = {"magcoordinatealignfilter", "magnetometeradaptor"}
  /\ Needed("orientationchain") = {"orientationinterpreter", "accelerometerchain"}
  /\ Needed("accelerometersensor") = {"accelerometerchain"}
  /\ Needed("magnetometersensor") = {"magcalibrationchain"}
  /\ Needed("orientationsensor") = {"orientationchain"}
  /\ Needed("compasssensor") = {"compasschain"}
  /\ Needed("rotationsensor") = {"accelerometerchain", "rotationfilter", "compasschain"}
  /\ Needed("contextsensor") = {"accelerometeradaptor", "orientationchain"}
BY DEF Needed, Dependencies, DirectAdaptor

LEMMA CompassNeeds ==
  /\ Len(CompassChainDependencies) \in 5..6
  /\ {"accelerometerchain", "magcalibrationchain", "declinationfilter", "downsamplefilter",
      "avgaccfilter"} \subseteq Needed("compasschain")
  /\ Needed("compasschain") \subseteq
       {"accelerometerchain", "magcalibrationchain", "declinationfilter", "downsamplefilter",
        "avgaccfilter", "orientationadaptor"}
BY DEF Needed, Dependencies, DirectAdaptor, CompassChainDependencies

LEMMA FewDependencies == \A p : Len(Dependencies(p)) \in 0..6
BY CompassNeeds DEF Dependencies

LEMMA FiltersNeedNothing ==
  \A p \in Filters \cup {"accelerometeradaptor", "magnetometeradaptor", "orientationadaptor"} :
    Needed(p) = {}
BY DirectDomain, OthersNeedNothing DEF Filters

\* How deep the dependencies of p are.
Deep1(p) == \A d \in Needed(p) : Needed(d) = {}
Deep2(p) == \A d \in Needed(p) : Deep1(d)
Deep3(p) == \A d \in Needed(p) : Deep2(d)

LEMMA DependenciesAreShallow == \A p : Deep3(p)
<1>1. \A p \in {"accelerometerchain", "magcalibrationchain"} : Deep1(p)
  BY ChainNeeds, FiltersNeedNothing DEF Deep1, Filters
<1>2. \A p : Needed(p) = {} => Deep1(p) /\ Deep2(p) /\ Deep3(p)
  BY DEF Deep1, Deep2, Deep3
<1>3. \A p : Deep1(p) => Deep2(p)
  BY <1>2 DEF Deep1, Deep2
<1>4. \A p \in {"orientationchain", "compasschain"} : Deep2(p)
  <2>1. \A d \in Filters \cup {"orientationadaptor"} : Deep1(d)
    BY <1>2, FiltersNeedNothing
  <2> QED
    BY <1>1, <2>1, ChainNeeds, CompassNeeds DEF Deep2, Filters
<1>5. \A p \in {"accelerometersensor", "magnetometersensor", "orientationsensor",
               "compasssensor", "rotationsensor", "contextsensor", "accelerometerchain",
               "magcalibrationchain", "orientationchain", "compasschain"} : Deep3(p)
  <2>1. \A d \in Filters : Deep2(d)
    BY <1>2, FiltersNeedNothing
  <2>2. \A p : Deep2(p) => Deep3(p)
    BY <1>3 DEF Deep2, Deep3
  <2>3. \A p \in {"accelerometersensor", "magnetometersensor", "orientationsensor",
                 "compasssensor", "rotationsensor", "contextsensor"} : Deep3(p)
    <3>1. Deep2("accelerometeradaptor")
      BY <1>2, FiltersNeedNothing
    <3> QED
      BY <1>1, <1>3, <1>4, <2>1, <3>1, ChainNeeds DEF Deep3, Filters
  <2> QED
    BY <1>1, <1>3, <1>4, <2>2, <2>3
<1>6. \A p \in DOMAIN DirectAdaptor : Deep3(p)
  BY <1>2, DirectNeeds DEF Deep3
<1> QED
  BY <1>2, <1>5, <1>6, OthersNeedNothing

\* Each operator of the loader deals with plugins of its depth.
LEMMA LoadersBring ==
  ASSUME NEW l \in LoaderState, Complete(l.loaded), NEW p
  PROVE  Brings(p, l, loadPluginFile(p, l))
<1>1. ASSUME NEW q, Needed(q) = {}, NEW m \in LoaderState, Complete(m.loaded)
      PROVE  Brings(q, m, LoadAdaptor(q, m))
  <2>1. Advances(m, [m EXCEPT !.ok = TRUE])
    BY <1>1 DEF Advances, LoaderState
  <2> QED
    BY <1>1, <2>1, AttemptBrings DEF LoadAdaptor
<1>2. ASSUME NEW q, Deep1(q), NEW m \in LoaderState, Complete(m.loaded)
      PROVE  Brings(q, m, LoadLower(q, m))
  BY <1>1, <1>2, FewDependencies, LoadLowerTurn DEF Deep1
<1>3. ASSUME NEW q, Deep2(q), NEW m \in LoaderState, Complete(m.loaded)
      PROVE  Brings(q, m, LoadUpper(q, m))
  BY <1>2, <1>3, FewDependencies, LoadUpperTurn DEF Deep2
<1> QED
  BY <1>3, FewDependencies, DependenciesAreShallow, loadPluginFileTurn DEF Deep3

-----------------------------------------------------------------------------
\* The nodes that the code names, and the adaptors that each of them reads.
Named == Sensors \cup Chains

Wired(n) ==
  CASE n \in DOMAIN DirectAdaptor -> {DirectAdaptor[n]}
    [] n \in {"accelerometerchain", "stabilitybin"} -> {"accelerometeradaptor"}
    [] n = "magcalibrationchain" -> {"magnetometeradaptor"}
    [] n = "compasschain" -> {"orientationadaptor"}
    [] OTHER -> {}

\* Two nodes read one adaptor only if StabilityBin is one of them.
LEMMA WiredApart ==
  ASSUME NEW m, NEW n, Wired(m) \cap Wired(n) # {},
         m # "stabilitybin", n # "stabilitybin"
  PROVE  m = n
BY DEF Wired, DirectAdaptor

LEMMA StabilityWired == Wired("stabilitybin") = {"accelerometeradaptor"}
BY DEF Wired, DirectAdaptor

\* The plugins that must be loaded before node n is constructed: those that its own
\* plugin depends on, or for a bin those that startRun() takes for granted.
Owed(n) ==
  CASE n = "orientationbin" -> {"orientationchain"}
    [] n = "compassbin" -> {"compasschain"}
    [] OTHER -> Needed(n)

\* What a constructor requests was registered with its plugin, and an adaptor
\* that it starts is its own.
Proper(n, node) ==
  /\ node.chains \cup node.filters \subseteq Owed(n)
  /\ node.chains \subseteq Chains
  /\ node.sources \subseteq Chains \cup Wired(n)

LEMMA OwedByChains == \A c \in Chains : Owed(c) = Needed(c)
BY GraphAssumption DEF Owed, Chains

LEMMA ChainsProper == \A c \in Chains : \A found : Proper(c, Chain(c, found))
<1> SUFFICES ASSUME NEW found
             PROVE  /\ Proper("accelerometerchain", Chain("accelerometerchain", found))
                    /\ Proper("magcalibrationchain", Chain("magcalibrationchain", found))
                    /\ Proper("orientationchain", Chain("orientationchain", found))
                    /\ Proper("compasschain", Chain("compasschain", found))
  BY GraphAssumption DEF Chains
<1>1. Chains = {"orientationchain", "compasschain", "accelerometerchain", "magcalibrationchain"}
  BY GraphAssumption DEF Chains
<1>2. Proper("accelerometerchain", Chain("accelerometerchain", found))
  BY <1>1, ChainNeeds, OwedByChains DEF Proper, Chain, AccelerometerChain, OverAdaptor, Wired, DirectAdaptor
<1>3. Proper("magcalibrationchain", Chain("magcalibrationchain", found))
  BY <1>1, ChainNeeds, OwedByChains DEF Proper, Chain, MagCalibrationChain, OverAdaptor, Wired, DirectAdaptor
<1>4. Proper("orientationchain", Chain("orientationchain", found))
  BY <1>1, ChainNeeds, OwedByChains DEF Proper, Chain, OrientationChain, Wired
<1>5. Proper("compasschain", Chain("compasschain", found))
  <2>1. "orientationadaptor" \in Wired("compasschain")
    BY DEF Wired, DirectAdaptor
  <2> QED
    BY <1>1, <2>1, CompassNeeds, OwedByChains DEF Proper, Chain, CompassChain
<1> QED
  BY <1>2, <1>3, <1>4, <1>5

LEMMA ConstructorsProper == \A n \in Named : \A found : Proper(n, Constructor(n, found))
<1> SUFFICES ASSUME NEW n \in Named, NEW found PROVE Proper(n, Constructor(n, found))
  OBVIOUS
<1>1. Chains = {"orientationchain", "compasschain", "accelerometerchain", "magcalibrationchain"}
  BY GraphAssumption DEF Chains
<1>2. CASE n \in Chains
  <2>1. Constructor(n, found) = Chain(n, found)
    BY <1>1, <1>2 DEF Constructor
  <2> QED
    BY <1>2, <2>1, ChainsProper
<1>3. CASE n \in DOMAIN DirectAdaptor
  <2>1. Constructor(n, found) = OverDevice(DirectAdaptor[n], found)
    BY <1>3, DirectDomain DEF DirectAdaptor, Constructor, ALSSensor, GyroscopeSensor,
      HumiditySensor, LidSensor, PressureSensor, ProximitySensor, StepCounterSensor, TapSensor,
      TemperatureSensor, WakeupSensor
  <2>2. Wired(n) = {DirectAdaptor[n]}
    BY <1>3, DirectDomain DEF Wired
  <2> QED
    BY <2>1, <2>2 DEF OverDevice, Proper
<1>4. CASE n \in {"accelerometersensor", "magnetometersensor", "orientationsensor",
                 "compasssensor", "rotationsensor"}
  <2>0. Owed(n) = Needed(n)
    BY <1>4 DEF Owed
  <2>1. CASE n = "rotationsensor"
    <3>1. Constructor(n, found) = RotationSensor(found)
      BY <2>1 DEF Constructor
    <3> QED
      BY <1>1, <2>0, <2>1, <3>1, ChainNeeds DEF Proper, RotationSensor
  <2>2. ASSUME NEW c \in Chains, Needed(n) = {c}, Constructor(n, found) = OverChain(c, found)
        PROVE  Proper(n, Constructor(n, found))
    BY <2>0, <2>2 DEF Proper, OverChain
  <2>3. CASE n = "accelerometersensor"
    BY <1>1, <2>2, <2>3, ChainNeeds DEF Constructor, AccelerometerSensor
  <2>4. CASE n = "magnetometersensor"
    BY <1>1, <2>2, <2>4, ChainNeeds DEF Constructor, MagnetometerSensor
  <2>5. CASE n = "orientationsensor"
    BY <1>1, <2>2, <2>5, ChainNeeds DEF Constructor, OrientationSensor
  <2>6. CASE n = "compasssensor"
    BY <1>1, <2>2, <2>6, ChainNeeds DEF Constructor, CompassSensor
  <2> QED
    BY <1>4, <2>1, <2>3, <2>4, <2>5, <2>6
<1>5. CASE n = "orientationbin"
  BY <1>1, <1>5 DEF Constructor, OrientationBin, Proper, Owed
<1>6. CASE n = "compassbin"
  BY <1>1, <1>6 DEF Constructor, CompassBin, Proper, Owed
<1>7. CASE n = "stabilitybin"
  <2>1. Constructor(n, found) = StabilityBin(found)
    BY <1>7 DEF Constructor
  <2> QED
    BY <1>7, <2>1, StabilityWired DEF StabilityBin, Proper
<1> QED
  BY <1>2, <1>3, <1>4, <1>5, <1>6, <1>7, GraphAssumption DEF Named

-----------------------------------------------------------------------------
GraphInv ==
  /\ IInv
  /\ loaded \subseteq Plugins /\ available \subseteq Plugins
  /\ Complete(loaded)
  /\ built \subseteq Named
  /\ \A n \in built : Owed(n) \subseteq loaded
  /\ \A n \in Nodes : below[n] \subseteq Chains \cup Wired(n)

LEMMA GraphInit == Init => GraphInv
<1> SUFFICES ASSUME Init PROVE GraphInv
  OBVIOUS
<1>1. IInv
  BY InitInv DEF Init
<1>2. \A n \in Nodes : below[n] = {}
  BY DEF Init, ActivationInit
<1>3. loaded = {} /\ built = {} /\ available \subseteq Plugins
  BY DEF Init
<1> QED
  BY <1>1, <1>2, <1>3 DEF GraphInv, Complete

\* Constructing a sensor, or what a bin reads, is a step of Activation.
LEMMA RequestConstructs ==
  ASSUME NEW n \in Sensors, NEW found, request(n, found)
  PROVE  ActivationNext
<1> DEFINE new == NewChains(n, found)
                    \cup (IF Constructor(n, found).valid THEN {n} ELSE {})
           sources == [m \in Nodes |-> IF m \in new THEN Constructor(m, found).sources
                                                     ELSE {}]
<1>1. construct(new, sources)
  BY DEF request
<1>2. new \in SUBSET Nodes
  BY <1>1 DEF construct
<1> HIDE DEF new
<1>3. \A m \in new : sources[m] \subseteq Nodes
  <2>1. \A m \in new : sources[m] \subseteq Layer(m)
    BY <1>1 DEF construct
  <2>2. \A m : Layer(m) \subseteq Nodes
    BY DEF Layer, Nodes, Chains
  <2> QED
    BY <2>1, <2>2
<1>4. sources \in [Nodes -> SUBSET Nodes]
  BY <1>2, <1>3
<1> HIDE DEF sources
<1> QED
  BY <1>1, <1>2, <1>4 DEF ActivationNext

\* Every step of the daemon is one of Activation or leaves its variables alone.
LEMMA GraphSteps == [Next]_vars => [ActivationNext]_activationVars
<1> SUFFICES ASSUME [Next]_vars PROVE [ActivationNext]_activationVars
  OBVIOUS
<1>1. CASE UNCHANGED vars
  BY <1>1 DEF vars
<1>2. ASSUME loadContext \/ \E n \in Sensors : loadPlugin(n) PROVE UNCHANGED activationVars
  BY <1>2 DEF loadContext, loadPlugin
<1>3. ASSUME NEW n \in Sensors, requestSensor(n) \/ startRun(n) PROVE ActivationNext
  BY <1>3, RequestConstructs DEF requestSensor, startRun
<1>4. ASSUME NEW n \in Sensors, NEW s \in Sessions,
             startSession(n, s) \/ startBin(n, s) \/ stopSession(n, s)
      PROVE  ActivationNext
  BY <1>4 DEF startSession, startBin, stopSession, ActivationNext
<1> QED
  BY <1>1, <1>2, <1>3, <1>4 DEF Next

\* Loading keeps what is loaded complete, even if it fails half way.
LEMMA LoadPluginStep ==
  ASSUME GraphInv, NEW n \in Sensors, loadPlugin(n), IInv'
  PROVE  GraphInv'
<1> DEFINE l == [ok |-> TRUE, loaded |-> loaded, available |-> available]
           m == loadPluginFile(n, l)
<1>1. loaded' = m.loaded /\ available' = m.available
  BY DEF loadPlugin
<1>2. l \in LoaderState /\ Complete(l.loaded) /\ l.loaded = loaded
  BY DEF GraphInv, LoaderState
<1>3. UNCHANGED <<below, built>>
  BY DEF loadPlugin, activationVars
<1> HIDE DEF l
<1>4. Advances(l, m)
  BY <1>2, LoadersBring DEF Brings
<1> HIDE DEF m
<1>5. loaded' \subseteq Plugins /\ available' \subseteq Plugins
  BY <1>1, <1>4 DEF Advances, LoaderState
<1>6. Complete(loaded') /\ loaded \subseteq loaded'
  BY <1>1, <1>2, <1>4 DEF Advances
<1> QED
  BY <1>3, <1>5, <1>6 DEF GraphInv, Complete

\* The bins find the chains that they take for granted: the orientation chain is a
\* dependency of the plugin, the compass chain was loaded for the compass bin.
LEMMA LoadContextStep ==
  ASSUME GraphInv, loadContext, IInv'
  PROVE  GraphInv'
<1> DEFINE l == [ok |-> TRUE, loaded |-> loaded, available |-> available]
           m == loadPluginFile("contextsensor", l)
           k == loadPluginFile("compasschain", m)
           last == IF m.ok THEN k ELSE m
           bins == {b \in Bins : m.ok /\ (b = "compassbin" => last.ok)}
<1>1. loaded' = last.loaded /\ available' = last.available /\ built' = built \cup bins
  BY DEF loadContext
<1>2. l \in LoaderState /\ Complete(l.loaded) /\ l.loaded = loaded
  BY DEF GraphInv, LoaderState
<1>3. UNCHANGED below
  BY DEF loadContext, activationVars
<1> HIDE DEF l
<1>4. Brings("contextsensor", l, m)
  BY <1>2, LoadersBring
<1> HIDE DEF m
<1>5. m \in LoaderState /\ Complete(m.loaded) /\ loaded \subseteq m.loaded
  BY <1>2, <1>4 DEF Brings, Advances
<1>6. Brings("compasschain", m, k)
  BY <1>5, LoadersBring
<1> HIDE DEF k
<1>7. /\ last \in LoaderState /\ Complete(last.loaded) /\ m.loaded \subseteq last.loaded
      /\ m.ok /\ last.ok => "compasschain" \in last.loaded
  BY <1>5, <1>6 DEF Brings, Advances
<1> HIDE DEF last
<1>8. \A b \in bins : b \in Named /\ Owed(b) \subseteq last.loaded
  <2> SUFFICES ASSUME NEW b \in bins PROVE b \in Named /\ Owed(b) \subseteq last.loaded
    OBVIOUS
  <2>1. m.ok /\ b \in Sensors /\ b \in {"orientationbin", "compassbin", "stabilitybin"}
    BY DEF Bins
  <2>2. CASE b = "orientationbin"
    <3>1. "contextsensor" \in m.loaded
      BY <1>4, <2>1 DEF Brings
    <3>2. "orientationchain" \in m.loaded
      BY <1>5, <3>1, ChainNeeds DEF Complete
    <3> QED
      BY <1>7, <2>1, <2>2, <3>2 DEF Owed, Named
  <2>3. CASE b = "compassbin"
    BY <1>7, <2>1, <2>3 DEF Owed, Named
  <2>4. CASE b = "stabilitybin"
    <3>1. Needed("stabilitybin") = {}
      BY DirectDomain, OthersNeedNothing
    <3> QED
      BY <2>1, <2>4, <3>1 DEF Owed, Named
  <2> QED
    BY <2>1, <2>2, <2>3, <2>4
<1> HIDE DEF bins
<1>9. /\ loaded' \subseteq Plugins /\ available' \subseteq Plugins
      /\ Complete(loaded') /\ loaded \subseteq loaded'
  BY <1>1, <1>5, <1>7 DEF LoaderState
<1>10. /\ built' \subseteq Named
       /\ \A n \in built' : Owed(n) \subseteq loaded'
  BY <1>1, <1>8, <1>9 DEF GraphInv
<1> QED
  BY <1>3, <1>9, <1>10 DEF GraphInv, Complete

\* The chains that are constructed with a node come with plugins that are
\* loaded, and every new node reads from chains and its own adaptor only.
LEMMA RequestStep ==
  ASSUME GraphInv, NEW n \in Sensors, NEW found, Owed(n) \subseteq loaded,
         request(n, found), IInv'
  PROVE  GraphInv'
<1> DEFINE new == NewChains(n, found) \cup (IF Constructor(n, found).valid THEN {n} ELSE {})
<1>1. /\ built' = built \cup new
      /\ construct(new, [m \in Nodes |-> IF m \in new THEN Constructor(m, found).sources
                                                      ELSE {}])
      /\ UNCHANGED <<loaded, available>>
  BY DEF request
<1>2. \A m \in Nodes : below'[m] = IF m \in new THEN Constructor(m, found).sources ELSE below[m]
  BY <1>1 DEF construct
<1>3. NewChains(n, found) \subseteq loaded \cap Chains
  <2> DEFINE direct == Constructor(n, found).chains
  <2>1. Proper(n, Constructor(n, found))
    BY ConstructorsProper DEF Named
  <2>2. direct \subseteq loaded \cap Chains
    BY <2>1 DEF Proper
  <2>3. \A c \in direct : Chain(c, found).chains \subseteq loaded \cap Chains
    BY <2>2, ChainsProper, OwedByChains DEF Proper, GraphInv, Complete
  <2> QED
    BY <2>2, <2>3 DEF NewChains
<1>4. \A c \in NewChains(n, found) : c \in Named /\ Owed(c) \subseteq loaded
  BY <1>3, OwedByChains DEF Named, GraphInv, Complete
<1>5. \A m \in new : m \in Named /\ Owed(m) \subseteq loaded
  BY <1>4 DEF Named
<1> HIDE DEF new
<1>6. \A m \in new : Constructor(m, found).sources \subseteq Chains \cup Wired(m)
  BY <1>5, ConstructorsProper DEF Proper
<1>7. \A m \in Nodes : below'[m] \subseteq Chains \cup Wired(m)
  BY <1>2, <1>6 DEF GraphInv
<1> QED
  BY <1>1, <1>5, <1>7 DEF GraphInv, Complete

LEMMA GraphNext == GraphInv /\ [Next]_vars => GraphInv'
<1> SUFFICES ASSUME GraphInv, [Next]_vars PROVE GraphInv'
  OBVIOUS
<1>1. IInv'
  BY GraphSteps, NextInv DEF GraphInv
<1>2. ASSUME NEW n \in Sensors, loadPlugin(n) PROVE GraphInv'
  BY <1>1, <1>2, LoadPluginStep
<1>3. CASE loadContext
  BY <1>1, <1>3, LoadContextStep
<1>4. ASSUME NEW n \in Sensors, requestSensor(n) PROVE GraphInv'
  <2>1. n \in loaded
    BY <1>4 DEF requestSensor
  <2>2. PICK found : request(n, found)
    BY <1>4 DEF requestSensor
  <2>3. Owed(n) \subseteq loaded
    <3>1. Needed(n) \subseteq loaded
      BY <2>1 DEF GraphInv, Complete
    <3>2. n \notin {"orientationbin", "compassbin"}
      BY <2>1 DEF GraphInv, Plugins, Bins, Filters
    <3> QED
      BY <3>1, <3>2 DEF Owed
  <2> QED
    BY <1>1, <2>2, <2>3, RequestStep
<1>5. ASSUME NEW n \in Sensors, startRun(n) PROVE GraphInv'
  <2>1. PICK found : request(n, found)
    BY <1>5 DEF startRun
  <2>2. Owed(n) \subseteq loaded
    BY <1>5 DEF startRun, GraphInv
  <2> QED
    BY <1>1, <2>1, <2>2, RequestStep
<1>6. ASSUME UNCHANGED <<below, loaded, available, built>> PROVE GraphInv'
  BY <1>1, <1>6 DEF GraphInv, Complete
<1>7. ASSUME NEW n \in Sensors, NEW s \in Sessions,
             startSession(n, s) \/ startBin(n, s) \/ stopSession(n, s)
      PROVE  UNCHANGED <<below, loaded, available, built>>
  BY <1>7 DEF startSession, startBin, stopSession, start, stop, graphVars
<1>8. CASE UNCHANGED vars
  BY <1>6, <1>8 DEF vars, activationVars, graphVars
<1> QED
  BY <1>2, <1>3, <1>4, <1>5, <1>6, <1>7, <1>8 DEF Next

\* The inductive invariant of the daemon's graph: that of Activation, plugins
\* loaded with all that they depend on, nodes constructed from loaded plugins
\* only, and no node reading an adaptor but the one it is made for.
THEOREM GraphInvariant == Spec => []GraphInv
BY GraphInit, GraphNext, PTL DEF Spec

\* Whatever plugins are missing, whatever devices fail and in whatever order
\* sensors are loaded and requested, the daemon builds a graph as Activation
\* describes, and starts and stops it as Activation does.
THEOREM GraphImplementsActivation == Spec => ActivationSpec
<1>1. Init => ActivationInit
  BY DEF Init
<1> QED
  BY <1>1, GraphSteps, PTL DEF Spec, ActivationSpec

\* In the daemon, too, counts are the numbers of sessions and of running
\* readers (AbstractSensorChannel::start(), stop() and their overrides).
THEOREM GraphCountsAgree == Spec => []CountsAgree
BY GraphImplementsActivation, CountsAlwaysAgree, PTL

\* In the daemon an adaptor is on exactly while a started sensor needs it.
THEOREM GraphImplementsSupply == Spec => ImplementsSupply
BY GraphImplementsActivation, GraphSupplies, PTL

\* At most one node starts and stops an adaptor (HybrisAdaptor::startSensor() and
\* stopSensor() keep a flag where SysfsAdaptor keeps a count); at most two do so
\* with the accelerometer adaptor while StabilityBin runs (StabilityBin::startRun()).
THEOREM OneUser == Spec => []SingleUser
<1>1. GraphInv => SingleUser
  <2> SUFFICES ASSUME GraphInv, NEW a \in Adaptors
               PROVE  count[a] <= IF /\ a = "accelerometeradaptor"
                                     /\ \E b \in Bins : b = "stabilitybin" /\ Running(b)
                                  THEN 2 ELSE 1
    BY DEF SingleUser
  <2> DEFINE others == Feeders(a) \ {"stabilitybin"}
  <2>1. count[a] = Cardinality(Feeders(a)) /\ IsFiniteSet(Feeders(a))
    BY FeedersFinite DEF GraphInv, IInv, CountsAgree, Feeders
  <2>2. \A c \in Feeders(a) : a \in Wired(c)
    BY NodesAssumption DEF GraphInv, Feeders, Chains
  <2>3. \A c, d \in others : c = d
    BY <2>2, WiredApart
  <2>4. IsFiniteSet(others) /\ Cardinality(others) \in Nat /\ Cardinality(others) <= 1
    <3>1. CASE others = {}
      BY <3>1, FS_EmptySet
    <3>2. CASE others # {}
      <4>1. PICK c : c \in others
        BY <3>2
      <4>2. others = {c}
        BY <2>3, <4>1
      <4>3. IsFiniteSet({c}) /\ Cardinality({c}) = 1
        BY FS_Singleton
      <4> QED
        BY <4>2, <4>3
    <3> QED
      BY <3>1, <3>2
  <2>5. CASE "stabilitybin" \in Feeders(a)
    <3>1. a = "accelerometeradaptor"
      BY <2>2, <2>5, StabilityWired
    <3>2. "stabilitybin" \in Bins /\ Running("stabilitybin")
      <4>1. "stabilitybin" \in Sensors \cup Chains /\ Running("stabilitybin")
        BY <2>5, Layers DEF GraphInv, IInv, Feeders
      <4> QED
        BY <4>1, GraphAssumption DEF Bins, Chains
    <3>3. Feeders(a) = others \cup {"stabilitybin"} /\ "stabilitybin" \notin others
      BY <2>5
    <3>4. Cardinality(Feeders(a)) = Cardinality(others) + 1
      BY <2>4, <3>3, FS_AddElement
    <3> QED
      BY <2>1, <2>4, <3>1, <3>2, <3>4
  <2>6. CASE "stabilitybin" \notin Feeders(a)
    <3>1. others = Feeders(a)
      BY <2>6
    <3> QED
      BY <2>1, <2>4, <3>1
  <2> QED
    BY <2>5, <2>6
<1> QED
  BY <1>1, GraphInvariant, PTL

\* No constructor runs into a chain or a filter that nobody registered
\* (SensorManager::requestChain() and the Q_ASSERTs of the constructors),
\* although loadPluginFile() keeps part of what it loaded when it fails.
THEOREM ConstructorsAlwaysServed == Spec => []ConstructorsServed
<1>1. GraphInv => ConstructorsServed
  <2> SUFFICES ASSUME GraphInv, NEW n \in built
               PROVE  Constructor(n, {}).chains \cup Constructor(n, {}).filters \subseteq loaded
    BY DEF ConstructorsServed
  <2>1. n \in Named /\ Owed(n) \subseteq loaded
    BY DEF GraphInv
  <2> QED
    BY <2>1, ConstructorsProper DEF Proper
<1> QED
  BY <1>1, GraphInvariant, PTL

=============================================================================
