---------------------------- MODULE SensorGraph ----------------------------
(***************************************************************************)
(* The daemon's graph of sensors, chains and adaptors: which plugins a     *)
(* sensor needs and how Loader loads them (core/loader.cpp, Dependencies() *)
(* of the plugins), what SensorManager constructs when the sensor is       *)
(* requested (core/sensormanager.cpp, the constructors of sensors and      *)
(* chains), and what a start then turns on (Activation).  Nodes and        *)
(* plugins are named as in the code.  Nothing constructed is destroyed     *)
(* while the daemon runs, except a sensor that proves invalid.             *)
(*                                                                         *)
(* Besides the sensors there are the bins of the context plugin            *)
(* (sensors/contextplugin), readers of chains and of an adaptor that       *)
(* subscribers of context properties start.  They request what they read   *)
(* when their first subscriber appears.                                    *)
(***************************************************************************)
EXTENDS Activation, Sequences

CONSTANTS OrientationConfigured,  \* plugins/orientationadaptor is in the configuration
          MaxMissing,             \* bound on the plugins that are not available
          MaxSensors              \* bound on the sensors constructed

VARIABLES
  available,   \* Loader::availablePluginNames_
  loaded,      \* Loader::loadedPluginNames_, and what these registered
  registered,  \* sensors in SensorManager::sensorInstanceMap_ or not yet loaded
  built,       \* sensors, chains and bins constructed
  opened,      \* adaptors constructed and started
  starting     \* the bin whose startRun() is under way, as a set

graphVars == <<available, loaded, registered, built, opened, starting>>
vars == <<activationVars, graphVars>>

Filters == {"coordinatealignfilter", "magcoordinatealignfilter", "orientationinterpreter",
            "declinationfilter", "downsamplefilter", "avgaccfilter", "rotationfilter"}

\* The context plugin holds a bin for each group of context properties.
Bins == Sensors \cap {"orientationbin", "compassbin", "stabilitybin"}

Plugins == (Nodes \ Bins) \cup Filters \cup {"contextsensor"}

\* The adaptor that a sensor without a chain reads from.
DirectAdaptor ==
  [alssensor |-> "alsadaptor",
   gyroscopesensor |-> "gyroscopeadaptor",
   humiditysensor |-> "humidityadaptor",
   lidsensor |-> "lidsensoradaptor",
   pressuresensor |-> "pressureadaptor",
   proximitysensor |-> "proximityadaptor",
   stepcountersensor |-> "stepcounteradaptor",
   tapsensor |-> "tapadaptor",
   temperaturesensor |-> "temperatureadaptor",
   wakeupsensor |-> "wakeupadaptor"]

ASSUME GraphAssumption ==
  /\ Sensors \subseteq DOMAIN DirectAdaptor \cup
       {"accelerometersensor", "magnetometersensor", "orientationsensor", "compasssensor",
        "rotationsensor", "orientationbin", "compassbin", "stabilitybin"}
  /\ UpperChains = {"orientationchain", "compasschain"}
  /\ LowerChains = {"accelerometerchain", "magcalibrationchain"}
  /\ OrientationConfigured \in BOOLEAN
  /\ MaxMissing \in Nat /\ MaxSensors \in Nat

CompassChainDependencies ==
  <<"accelerometerchain", "magcalibrationchain", "declinationfilter", "downsamplefilter",
    "avgaccfilter">> \o (IF OrientationConfigured THEN <<"orientationadaptor">> ELSE <<>>)

\* PluginBase::Dependencies(), in order.
Dependencies(p) ==
  CASE p = "accelerometersensor" -> <<"accelerometerchain">>
    [] p = "magnetometersensor" -> <<"magcalibrationchain">>
    [] p = "orientationsensor" -> <<"orientationchain">>
    [] p = "compasssensor" -> <<"compasschain">>
    [] p = "rotationsensor" -> <<"accelerometerchain", "rotationfilter", "compasschain">>
    [] p = "contextsensor" -> <<"accelerometeradaptor", "orientationchain">>
    [] p \in DOMAIN DirectAdaptor -> <<DirectAdaptor[p]>>
    [] p = "accelerometerchain" -> <<"coordinatealignfilter", "accelerometeradaptor">>
    [] p = "magcalibrationchain" -> <<"magcoordinatealignfilter", "magnetometeradaptor">>
    [] p = "orientationchain" -> <<"orientationinterpreter", "accelerometerchain">>
    [] p = "compasschain" -> CompassChainDependencies
    [] OTHER -> <<>>

\* Mutant: a plugin is registered although a dependency before the last failed.
tryDependency_Regardless(l, m) == m

\* Loading the next dependency takes the loader from l to m: a dependency that
\* failed ends the loop.
tryDependency(l, m) == IF l.ok THEN m ELSE l

\* The dependencies "ds" of a plugin, each brought in by "try" if there is one
\* with that number.  There are no more than six (lemma FewDependencies of
\* SensorGraph_proofs).
InTurn(try(_, _, _), ds, l) ==
  try(ds, 6, try(ds, 5, try(ds, 4, try(ds, 3, try(ds, 2, try(ds, 1, [l EXCEPT !.ok = TRUE]))))))

\* What becomes of plugin p, whose dependencies leave the loader in "after": it
\* is registered, or not tried again.
Attempted(p, l, after) ==
  IF p \in l.loaded THEN [l EXCEPT !.ok = TRUE]
  ELSE IF p \notin l.available THEN [l EXCEPT !.ok = FALSE]
  ELSE IF after.ok THEN [after EXCEPT !.loaded = @ \cup {p}]
  ELSE [after EXCEPT !.available = @ \ {p}]

\* Loader::loadPluginFile(): those loaded stay loaded when a later dependency
\* fails.  The code recurses; the dependencies are three deep (lemma
\* DependenciesAreShallow), so there is one operator for each depth, and the
\* code's test for cycles is left out.
LoadAdaptor(p, l) == Attempted(p, l, [l EXCEPT !.ok = TRUE])

tryAdaptor(ds, i, l) == IF i <= Len(ds) THEN tryDependency(l, LoadAdaptor(ds[i], l)) ELSE l
LoadLower(p, l) == Attempted(p, l, InTurn(tryAdaptor, Dependencies(p), l))

tryLower(ds, i, l) == IF i <= Len(ds) THEN tryDependency(l, LoadLower(ds[i], l)) ELSE l
LoadUpper(p, l) == Attempted(p, l, InTurn(tryLower, Dependencies(p), l))

tryUpper(ds, i, l) == IF i <= Len(ds) THEN tryDependency(l, LoadUpper(ds[i], l)) ELSE l
loadPluginFile(p, l) == Attempted(p, l, InTurn(tryUpper, Dependencies(p), l))

-----------------------------------------------------------------------------
(***************************************************************************)
(* What the constructor of a node does, given the adaptors "found" whose   *)
(* device can be opened now: the chains and adaptors that it requests, the *)
(* filters that it uses, what its start() turns on and its isValid().      *)
(***************************************************************************)

\* requestDeviceAdaptor(): a device that was opened stays open.
Usable(a, found) == a \in opened \/ (a \in loaded /\ a \in found)

\* A chain over one adaptor has it for good or never; without one it ignores
\* starts and stops, so it is nobody's source.
OverAdaptor(c, a, requested, filters, found) ==
  LET works == IF c \in built THEN below[c] # {} ELSE Usable(a, found)
  IN [chains |-> {}, adaptors |-> requested, filters |-> filters,
      sources |-> {x \in {a} : works}, valid |-> works]

AccelerometerChain(found) ==
  OverAdaptor("accelerometerchain", "accelerometeradaptor", {"accelerometeradaptor"},
              {"coordinatealignfilter"}, found)

\* It asks for the orientation adaptor only to see whether the device
\* calibrates by itself.
MagCalibrationChain(found) ==
  OverAdaptor("magcalibrationchain", "magnetometeradaptor",
              {"magnetometeradaptor", "orientationadaptor"}, {"magcoordinatealignfilter"}, found)

OrientationChain(found) ==
  LET accelerometer == AccelerometerChain(found).valid
  IN [chains |-> {"accelerometerchain"}, adaptors |-> {}, filters |-> {"orientationinterpreter"},
      sources |-> {x \in {"accelerometerchain"} : accelerometer}, valid |-> accelerometer]

\* It prefers a heading from the device.  Otherwise the validity of the
\* accelerometer chain overwrites that of the magnetometer.
CompassChain(found) ==
  LET heading == IF "compasschain" \in built THEN "orientationadaptor" \in below["compasschain"]
                                             ELSE Usable("orientationadaptor", found)
      works == [accelerometerchain |-> AccelerometerChain(found).valid,
                magcalibrationchain |-> MagCalibrationChain(found).valid]
  IN IF heading
     THEN [chains |-> {}, adaptors |-> {"orientationadaptor"}, filters |-> {"declinationfilter"},
           sources |-> {"orientationadaptor"}, valid |-> TRUE]
     ELSE [chains |-> DOMAIN works, adaptors |-> {"orientationadaptor"},
           filters |-> {"declinationfilter", "downsamplefilter", "avgaccfilter"},
           sources |-> {c \in DOMAIN works : works[c]}, valid |-> works["accelerometerchain"]]

Chain(c, found) ==
  CASE c = "accelerometerchain" -> AccelerometerChain(found)
    [] c = "magcalibrationchain" -> MagCalibrationChain(found)
    [] c = "orientationchain" -> OrientationChain(found)
    [] c = "compasschain" -> CompassChain(found)

\* A sensor that publishes what one chain delivers.  An upper chain counts its
\* starts whether it is valid or not.
OverChain(c, found) ==
  LET chain == Chain(c, found)
  IN [chains |-> {c}, adaptors |-> {}, filters |-> {},
      sources |-> {x \in {c} : c \in UpperChains \/ chain.valid}, valid |-> chain.valid]

AccelerometerSensor(found) == OverChain("accelerometerchain", found)
MagnetometerSensor(found) == OverChain("magcalibrationchain", found)
OrientationSensor(found) == OverChain("orientationchain", found)
CompassSensor(found) == OverChain("compasschain", found)

\* Mutant: the rotation sensor reads the accelerometer adaptor itself.
RotationSensor_Direct(found) ==
  [chains |-> {"accelerometerchain", "compasschain"}, adaptors |-> {},
   filters |-> {"rotationfilter"}, valid |-> TRUE,
   sources |-> {"accelerometeradaptor"}]

\* It is valid even if the chains are not; it leaves out a compass that is not.
RotationSensor(found) ==
  LET chains == {"accelerometerchain", "compasschain"}
  IN [chains |-> chains, adaptors |-> {}, filters |-> {"rotationfilter"}, valid |-> TRUE,
      sources |-> {c \in chains : Chain(c, found).valid}]

\* A sensor that publishes what one adaptor delivers, and is valid if it has it.
OverDevice(a, found) ==
  [chains |-> {}, adaptors |-> {a}, filters |-> {},
   sources |-> {a}, valid |-> Usable(a, found)]

ALSSensor(found) == OverDevice("alsadaptor", found)
GyroscopeSensor(found) == OverDevice("gyroscopeadaptor", found)
HumiditySensor(found) == OverDevice("humidityadaptor", found)
LidSensor(found) == OverDevice("lidsensoradaptor", found)
PressureSensor(found) == OverDevice("pressureadaptor", found)
ProximitySensor(found) == OverDevice("proximityadaptor", found)
StepCounterSensor(found) == OverDevice("stepcounteradaptor", found)
TapSensor(found) == OverDevice("tapadaptor", found)
TemperatureSensor(found) == OverDevice("temperatureadaptor", found)
WakeupSensor(found) == OverDevice("wakeupadaptor", found)

\* What startRun() of a bin requests and starts.  A chain is started whether it
\* is valid or not.
OrientationBin(found) ==
  [chains |-> {"orientationchain"}, adaptors |-> {}, filters |-> {},
   sources |-> {"orientationchain"}, valid |-> TRUE]

CompassBin(found) ==
  [chains |-> {"compasschain"}, adaptors |-> {}, filters |-> {},
   sources |-> {"compasschain"}, valid |-> TRUE]

\* It reads the accelerometer adaptor itself, beside the accelerometer chain,
\* and does without if there is none.
StabilityBin(found) ==
  [chains |-> {}, adaptors |-> {"accelerometeradaptor"}, filters |-> {}, valid |-> TRUE,
   sources |-> {a \in {"accelerometeradaptor"} : Usable(a, found)}]

Constructor(n, found) ==
  CASE n = "accelerometersensor" -> AccelerometerSensor(found)
    [] n = "alssensor" -> ALSSensor(found)
    [] n = "compasssensor" -> CompassSensor(found)
    [] n = "gyroscopesensor" -> GyroscopeSensor(found)
    [] n = "humiditysensor" -> HumiditySensor(found)
    [] n = "lidsensor" -> LidSensor(found)
    [] n = "magnetometersensor" -> MagnetometerSensor(found)
    [] n = "orientationsensor" -> OrientationSensor(found)
    [] n = "pressuresensor" -> PressureSensor(found)
    [] n = "proximitysensor" -> ProximitySensor(found)
    [] n = "rotationsensor" -> RotationSensor(found)
    [] n = "stepcountersensor" -> StepCounterSensor(found)
    [] n = "tapsensor" -> TapSensor(found)
    [] n = "temperaturesensor" -> TemperatureSensor(found)
    [] n = "wakeupsensor" -> WakeupSensor(found)
    [] n = "orientationbin" -> OrientationBin(found)
    [] n = "compassbin" -> CompassBin(found)
    [] n = "stabilitybin" -> StabilityBin(found)
    [] OTHER -> Chain(n, found)

\* The chains that are constructed with sensor n.
NewChains(n, found) ==
  LET direct == Constructor(n, found).chains
  IN (direct \cup UNION {Chain(c, found).chains : c \in direct}) \ built

Init ==
  /\ ActivationInit
  /\ \E missing \in SUBSET Plugins :
       Cardinality(missing) <= MaxMissing /\ available = Plugins \ missing
  /\ loaded = {} /\ built = {} /\ opened = {} /\ starting = {}
  /\ registered = Sensors \ Bins

\* The sessions that are active, and the bins that run.
Activated == Cardinality({p \in Sensors \X Sessions : p[2] \in active[p[1]]})

\* SensorManager::loadPlugin(), which a client calls before it requests n.
loadPlugin(n) ==
  /\ starting = {}
  /\ n \in Sensors \ Bins /\ n \notin loaded
  /\ LET after == loadPluginFile(n, [ok |-> TRUE, loaded |-> loaded, available |-> available])
     IN loaded' = after.loaded /\ available' = after.available
  /\ UNCHANGED <<activationVars, registered, built, opened, starting>>

\* The same for the context plugin.  Its Init() constructs its sensor and with it
\* the bins; the compass chain is loaded by the constructor, and without it there
\* is only a dummy of the compass bin.
loadContext ==
  /\ starting = {}
  /\ "contextsensor" \notin loaded
  /\ LET plugin == loadPluginFile("contextsensor",
                                  [ok |-> TRUE, loaded |-> loaded, available |-> available])
         compass == IF plugin.ok THEN loadPluginFile("compasschain", plugin) ELSE plugin
     IN /\ loaded' = compass.loaded /\ available' = compass.available
        /\ built' = built \cup {b \in Bins : plugin.ok /\ (b = "compassbin" => compass.ok)}
  /\ UNCHANGED <<activationVars, registered, opened, starting>>

\* The adaptors whose device may be opened, or found missing, by the next request.
Unopened == (Adaptors \cap loaded) \ opened

\* Node n is constructed, with those below it.
request(n, found) ==
  LET node == Constructor(n, found)
      chains == NewChains(n, found)
      new == chains \cup (IF node.valid THEN {n} ELSE {})
      requested == UNION {Constructor(m, found).adaptors : m \in chains \cup {n}}
  IN /\ built' = built \cup new
     /\ opened' = opened \cup {a \in requested : Usable(a, found)}
     /\ registered' = (IF node.valid THEN registered ELSE registered \ {n})
     /\ construct(new, [m \in Nodes |-> IF m \in new THEN Constructor(m, found).sources
                                                     ELSE {}])
     /\ UNCHANGED <<available, loaded>>

\* SensorManager::requestSensor() and addSensor(): the first request constructs
\* the sensor.  An invalid one is deleted and unregistered for good; the
\* chains that it requested stay.
requestSensor(n) ==
  /\ starting = {}
  /\ n \in loaded /\ n \in registered \ built
  /\ Cardinality(built \cap (Sensors \ Bins)) < MaxSensors
  /\ \E found \in SUBSET Unopened : request(n, found)
  /\ UNCHANGED starting

\* The first subscriber of a bin's properties appears.  startRun() requests what
\* the bin reads, anew each time ...
startRun(b) ==
  /\ starting = {}
  /\ b \in built \cap Bins /\ active[b] = {}
  /\ Activated < MaxActive
  /\ \E found \in SUBSET Unopened : request(b, found)
  /\ starting' = {b}

startSession(n, s) ==
  /\ starting = {} /\ n \in Sensors \ Bins
  /\ n \in built
  /\ Activated < MaxActive
  /\ start(n, s)
  /\ UNCHANGED graphVars

\* ... and starts that, its first and only start: the main thread does nothing in
\* between.
startBin(b, s) ==
  /\ b \in starting /\ starting' = {}
  /\ start(b, s)
  /\ UNCHANGED <<available, loaded, registered, built, opened>>

\* A session stops its sensor, or the last subscriber disappears: stopRun() also
\* releases what the bin requested, which destroys nothing.
stopSession(n, s) ==
  /\ starting = {}
  /\ stop(n, s)
  /\ UNCHANGED graphVars

Next ==
  \/ loadContext
  \/ \E n \in Sensors :
       \/ loadPlugin(n)
       \/ requestSensor(n)
       \/ startRun(n)
       \/ \E s \in Sessions : startSession(n, s) \/ startBin(n, s) \/ stopSession(n, s)

Spec == Init /\ [][Next]_vars

-----------------------------------------------------------------------------
\* What the constructors assert or use unchecked is there: whatever plugins are
\* missing and in whatever order sensors are loaded and requested, the chains
\* and filters of a constructed node were registered.
ConstructorsServed ==
  \A n \in built :
    Constructor(n, {}).chains \cup Constructor(n, {}).filters \subseteq loaded

\* An adaptor has one user, except that the context plugin's StabilityBin, while it
\* runs, may start the accelerometer adaptor beside the accelerometer chain.  What
\* users get from a HAL adaptor depends on it: HybrisAdaptor::startSensor() and
\* stopSensor() keep a flag where SysfsAdaptor keeps a count.
SingleUser ==
  \A a \in Adaptors :
    count[a] <= IF a = "accelerometeradaptor" /\ \E b \in Bins : b = "stabilitybin" /\ Running(b)
                THEN 2 ELSE 1

=============================================================================
