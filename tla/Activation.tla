----------------------------- MODULE Activation -----------------------------
(***************************************************************************)
(* How starting and stopping a sensor turns the nodes below it on and off  *)
(* (AbstractSensorChannel::start() and stop() in core/abstractsensor.cpp   *)
(* and the overrides of the sensors and chains).  Each node counts its     *)
(* starts in cnt_; the first start and the last stop are passed on to the  *)
(* nodes that it reads from.  A whole cascade runs on the main thread in   *)
(* one call.  Which node reads from which is a variable: a node gets its   *)
(* sources when it is constructed, and keeps them.                         *)
(***************************************************************************)
EXTENDS Integers, FiniteSets

CONSTANTS Sensors,      \* nodes that sessions start
          UpperChains,  \* chains that read from chains
          LowerChains,  \* chains that read from adaptors only
          Adaptors,     \* nodes that read from the device
          Sessions,     \* sessions of each sensor
          MaxActive     \* bound on the sessions that are active together

Chains == UpperChains \cup LowerChains
Nodes == Sensors \cup Chains \cup Adaptors

ASSUME NodesAssumption ==
  /\ IsFiniteSet(Nodes) /\ IsFiniteSet(Sessions)
  /\ Sensors \cap (Chains \cup Adaptors) = {}
  /\ UpperChains \cap (LowerChains \cup Adaptors) = {}
  /\ LowerChains \cap Adaptors = {}
ASSUME MaxActiveAssumption == MaxActive \in Nat

VARIABLES
  below,   \* the sources that a node starts and stops
  active,  \* activeSessions_ of each sensor
  count    \* cnt_ of sensors and chains; the references of an adaptor

activationVars == <<below, active, count>>

\* What a node may read from.
Layer(n) ==
  IF n \in Sensors THEN Chains \cup Adaptors
  ELSE IF n \in UpperChains THEN LowerChains \cup Adaptors
  ELSE IF n \in LowerChains THEN Adaptors
  ELSE {}

ActivationTypeOK ==
  /\ below \in [Nodes -> SUBSET Nodes]
  /\ \A n \in Nodes : below[n] \subseteq Layer(n)
  /\ active \in [Sensors -> SUBSET Sessions]
  /\ count \in [Nodes -> Nat]

ActivationInit ==
  /\ below = [n \in Nodes |-> {}]
  /\ active = [n \in Sensors |-> {}]
  /\ count = [n \in Nodes |-> 0]

-----------------------------------------------------------------------------
\* The starts that node m gets from "callers", the nodes whose cnt_ became 1.
CallsFrom(callers, m) == Cardinality({c \in callers : m \in below[c]})

\* Mutant: a chain passes every start on.
Started_EveryTime(n) ==
  {n} \cup (UpperChains \cap below[n])
      \cup {l \in LowerChains : \E c \in {n} \cup (UpperChains \cap below[n]) : l \in below[c]}

\* The nodes whose cnt_ becomes 1 when that of sensor n does.
Started(n) ==
  LET upper == {u \in UpperChains \cap below[n] : count[u] = 0}
      lower == {l \in LowerChains : /\ count[l] = 0
                                    /\ \E c \in {n} \cup upper : l \in below[c]}
  IN {n} \cup upper \cup lower

\* start() of sensor n for a session: a session that is active already is
\* ignored, and a sensor that runs already starts nothing below it.
start(n, s) ==
  /\ s \notin active[n]
  /\ active' = [active EXCEPT ![n] = @ \cup {s}]
  /\ LET callers == IF count[n] = 0 THEN Started(n) ELSE {}
     IN count' = [m \in Nodes |->
                    count[m] + CallsFrom(callers, m) + (IF m = n THEN 1 ELSE 0)]
  /\ UNCHANGED below

\* Mutant: a chain that two nodes start is stopped with the first of them.
Stopped_First(n) ==
  LET upper == UpperChains \cap below[n]
  IN {n} \cup upper \cup
     {l \in LowerChains : count[l] > 0 /\ \E c \in {n} \cup upper : l \in below[c]}

\* The nodes whose cnt_ becomes 0 when that of sensor n does.
Stopped(n) ==
  LET upper == {u \in UpperChains \cap below[n] : count[u] = 1}
      lower == {l \in LowerChains : /\ count[l] > 0
                                    /\ count[l] <= CallsFrom({n} \cup upper, l)}
  IN {n} \cup upper \cup lower

\* stop() of sensor n for a session; cnt_ does not go below 0.
stop(n, s) ==
  /\ s \in active[n]
  /\ active' = [active EXCEPT ![n] = @ \ {s}]
  /\ LET callers == IF count[n] = 1 THEN Stopped(n) ELSE {}
         stops(m) == CallsFrom(callers, m) + (IF m = n THEN 1 ELSE 0)
     IN count' = [m \in Nodes |-> IF stops(m) > count[m] THEN 0 ELSE count[m] - stops(m)]
  /\ UNCHANGED below

\* The constructors of the nodes "new" choose their sources; none of them has
\* been started.
construct(new, sources) ==
  /\ new \subseteq Nodes
  /\ \A n \in new : count[n] = 0 /\ sources[n] \subseteq Layer(n)
  /\ below' = [n \in Nodes |-> IF n \in new THEN sources[n] ELSE below[n]]
  /\ UNCHANGED <<active, count>>

ActivationNext ==
  \/ \E n \in Sensors, s \in Sessions : start(n, s) \/ stop(n, s)
  \/ \E new \in SUBSET Nodes, sources \in [Nodes -> SUBSET Nodes] : construct(new, sources)

ActivationSpec == ActivationInit /\ [][ActivationNext]_activationVars

-----------------------------------------------------------------------------
Running(n) == count[n] > 0

\* Nobody's start or stop is lost or passed on twice, however the graph is
\* shared: the count of a sensor is the number of its active sessions, that of
\* every other node the number of running nodes that read from it.
CountsAgree ==
  /\ \A n \in Sensors : count[n] = Cardinality(active[n])
  /\ \A m \in Chains \cup Adaptors :
       count[m] = Cardinality({c \in Nodes : Running(c) /\ m \in below[c]})

\* The adaptors below a sensor, through at most two chains.
Reach(n) ==
  LET one == below[n]
      two == UNION {below[c] : c \in one}
      three == UNION {below[c] : c \in two}
  IN (one \cup two \cup three) \cap Adaptors

\* What the graph is for (Supply): an adaptor is on exactly while a started
\* sensor needs it.
Supplier == INSTANCE Supply WITH
  Consumers <- Sensors,
  Sources <- Adaptors,
  needs <- [n \in Sensors |-> Reach(n)],
  wanted <- {n \in Sensors : active[n] # {}},
  on <- {a \in Adaptors : Running(a)}
ImplementsSupply == Supplier!Spec

=============================================================================
