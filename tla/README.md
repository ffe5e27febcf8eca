# sensorfw, a verification development

TLA+ modules that model the logic of `sensord`, the sensor daemon of
sensorfw, and of the Qt client library that talks to it, with the TLC
configurations that check them and the TLAPS proofs about them.  Paths below
are relative to the repository (`core/` stands for `src/core/`).

## 1. Inventory

`sensord` reads hardware sensors through *adaptors*, combines their data in
*chains* of filters, and publishes the results as *sensors* on D-Bus.  A client
asks for a session at a sensor over D-Bus, connects a local socket, writes its
session id into it, and then receives samples on the socket while it sets
properties, starts and stops the sensor over D-Bus.  The daemon has one main
thread with an event loop and one reader thread per running adaptor; samples go
from the reader thread to the main thread through a pipe.

| Component | Source | State | Operations | Interacts with |
|---|---|---|---|---|
| Session service | `core/sensormanager.*`, `core/abstractsensor.*` | sensor registry, sessions per sensor, session instances with client name and timer, watched bus names, active sessions and their count | requestSensor, releaseSensor, lostClient, dbusClientUnregistered, timer, start, stop | client library (D-Bus), socket handler (calls), sensors |
| Socket handler | `core/sockethandler.*` | map of session id to socket; per session buffer, interval, timer, downsampling | newConnection, socketReadable, socketDisconnected, write, removeSession, buffer settings | clients (socket), session service |
| Client library | `qt-api/` | session id, running flag, socket | interface, start, stop, properties, release, read | D-Bus, socket |
| Node properties | `core/nodebase.*` | data-range queue, interval requests, override requests, buffer requests, sources | request and remove each, removeSession | sensors, chains and adaptors are nodes; requests travel from node to source |
| Adaptor life cycle | `core/deviceadaptor.*`, `core/sysfsadaptor.*` | reference count, running, should-be-running and standby flags, descriptors, reader thread | startSensor, stopSensor, standby, resume, setStandbyOverride | chains and sensors start it, display signals suspend it |
| HAL adaptors | `core/hybrisadaptor.*` | flags per adaptor, activation, delay and fallback event per HAL sensor | startSensor, stopSensor, standby, resume, evaluateSensor, processEvents | HAL (callbacks on a foreign thread) |
| Chain graph | `chains/`, `core/abstractchain.*`, `core/bin.*` | start count of every chain, registry of chains and adaptors | start, stop, requestChain, requestDeviceAdaptor | sensors and context bins above, adaptors below |
| Context plugin | `sensors/contextplugin/` | three bins, each running or not, with a session id | startRun, stopRun | context subscribers start and stop a bin; it starts a chain, or the accelerometer's adaptor |
| Data path | `core/ringbuffer.h`, `core/source.*`, `core/pusher.*`, pipe in `core/sensormanager.cpp` | ring buffers with free-running counters, one pipe | put, read, wakeUp, write, sensorDataHandler | reader threads and main thread |
| Filters | `filters/` | averages, counters, last values | one function per filter | data path |
| Calibration | `sensord/calibrationhandler.*`, `chains/magcalibrationchain/` | a session at the magnetometer, a timer, the last calibration level | initiateSession, resumeCalibration, stopCalibration, sampleReceived, calibrationTimeout | signals of SensorManager; samples by signal |
| HAL back ends | `core/hybrisbackend_binder*`, `core/hybrisbackend_passthrough*`, `HybrisManager` in `core/hybrisadaptor.*` | client and death handler of the service, message queues, reader thread or poll, event pipe | startConnect, finishConnect, initialize, getSensorList, pollEvents, binderDied, processEvents, cleanup | Android sensor service (binder), HAL adaptors |
| Device adaptors | `adaptors/`, `core/inputdevadaptor.*` | power file of an input device | startSensor, stopSensor, standby, resume | adaptor life cycle |
| Loader | `core/loader.*`, `core/plugin.h` | available and loaded plugins | loadPlugin | session service; the plugins register their factories |
| Configuration, parsers, watchers, C API, tests, examples | the rest | | | |

What is hard in it:

* a client is seen through three channels (its D-Bus calls, its socket, the bus
  telling that its name is gone) that nothing orders with each other, and a
  fourth, the connection timer, backs them up;
* sessions, property requests, watched names, active sessions, reference counts
  and start counts are the same fact kept in several places;
* adaptors are shared: several users start and stop one, several sessions
  override its standby, and the display suspends it in between;
* the devices may refuse: files that do not open, a HAL that does not activate;
* reader threads block on a pipe that the thread joining them has to empty;
* the Android service dies and comes back while the daemon connects to it, and what
  it reports is handled later and on another thread than it is read;
* the calibration handler keeps what it has started in nothing but its timer.

What makes each component correct; the line at which each can go wrong is in
`PROJECT.json` under `hazards`:

* session service: a session is one thing in all its tables, belongs to one
  client, keeps its sensor running while it is started, and is closed once and
  completely, by its owner or when its owner is gone;
* socket handler: samples reach the session they are for, in order and once, and
  a lost socket ends its session and no other;
* client library: calls made early, late or twice do no harm;
* node properties: the adaptor is as fast as each session needs, ranges are first
  come, first served, and who leaves is forgotten at every node;
* adaptor life cycle and HAL adaptors: a user is served on a lit or overridden
  display, a dark display and the last stop release the device, and flags,
  counts, threads and descriptors agree;
* chain graph: a node runs exactly while something above it does;
* data path: a reader never blocks its writer, and the main thread never waits
  for a thread that waits for it;
* calibration: the handler's starts and stops balance, whatever comes in between;
* HAL back ends: the loss of the service ends the daemon, so that it is started anew; a
  wake-up event is acknowledged only when the reader thread is done with it, so that it
  does not wait in a suspended process;
* device adaptors: a started device has power while the display is lit;
* loader: a plugin is initialised after those it needs, and a sensor exists only with
  everything it reads from.

## 2. Modules

| Module | Models | Checked by | Proved in |
|---|---|---|---|
| `SysfsAdaptor` | one adaptor that reads sysfs files: users, overriding sessions, the display, the reader thread and its descriptors | `MCSysfsAdaptor` | `SysfsAdaptor_proofs` |
| `PoweredAdaptor` | the adaptors of input devices that switch power themselves, over `SysfsAdaptor` | itself | `SysfsAdaptor_proofs` |
| `HybrisAdaptor` | one adaptor of the Android HAL and what it believes of its sensor | through `HybrisManager` | `HybrisManager_proofs` |
| `HybrisManager` | that adaptor with the HAL, the sensors bound to it and the pipe of events | `MCHybrisManager` | `HybrisManager_proofs` |
| `BinderBackend` | connection to the Android service, its death, polling and reader thread | itself | `BinderBackend_proofs` |
| `SensorSessions` | the session service of the daemon, its socket handler and the client library | `MCSensorSessions` | `SensorSessions_proofs` |
| `SessionRegistry` | what the session service promises: ids, owners, closing | as a property of `SensorSessions` | |
| `SessionBuffer` | samples buffered for a session's socket | through `SampleStream` | `SampleStream_proofs` |
| `SampleStream` | a sample's way from the device through two threads to the clients | `MCSampleStream` | `SampleStream_proofs` |
| `Activation` | start counts of sensors, chains and adaptors, for any graph of them | through `SensorGraph` | `SensorGraph_proofs` |
| `Supply` | what starts and stops promise: the adaptors that are on are those needed | as a property of `SensorGraph` | |
| `SensorGraph` | the daemon's own graph: plugins, constructors, starts and stops | `MCSensorGraph` | `SensorGraph_proofs` |
| `IntervalRequests` | interval requests of several sessions at a sensor that merges chains, and at their adaptor | through `NodeRequests` | `NodeRequests_proofs` |
| `RangeRequests` | data range requests at a sensor that scales ranges, and at its adaptor | through `NodeRequests` | `NodeRequests_proofs` |
| `NodeRequests` | both kinds together, and sessions that leave | `MCNodeRequests` | `NodeRequests_proofs` |
| `Calibration` | the background calibration session beside the clients' | itself | `Calibration_proofs` |

The lines each definition stands for are in `PROJECT.json` under `map`.
Definitions keep the source's names: an action is called like the function it
models.  A definition whose comment starts with "Mutant" belongs to no model; it
is a plausible slip in the definition that follows it, used to see that a
property notices.

### 2.1 SysfsAdaptor

State: `count` and `entryRunning` are `AdaptedSensorEntry::count_` and
`running_`; `running`, `shouldRun` and `inStandby` are the flags of
`SysfsAdaptor`; `reader` says that the reader thread lives and `fds` how often
`openFds()` appended to the descriptor lists since they were emptied;
`overriders` is `m_standbyRequestList`, `blanked` is `screenBlanked_`.  `users`
are the chains and sensors between their `startSensor()` and `stopSensor()`.

Every action is one call on the main thread, to its end.  `startSensor` has two
alternatives, the early returns (`StartCounted`) and the path that opens the
device (`StartReading`), whose outcome is a member of `OpenResults`.
`standby()` includes the `stopAdaptor()` it ends in, which calls `stopSensor()`
and thereby takes a reference away.  `stopReaderThread()` joins the thread
before it returns, so the thread is not a process of its own here.

### 2.2 HybrisAdaptor and HybrisManager

State of `HybrisAdaptor`: `shouldRun`, `inStandby`, `isRunning` are the flags of the
adaptor, `count` and `entryRunning` its entry, `active` what the daemon believes of
the HAL's sensor, `refused` that the HAL failed the last change and `fired` that a
one-shot sensor has delivered its event.  All decisions are in `evaluateSensor`,
which is part of every action that calls it and reads the flags' new values.
`OneshotEvent` is `processEvents()` on the main thread for a one-shot sensor: it
deactivates the sensor and leaves the adaptor counting it as running.

`HybrisManager` gives the HAL a state of its own.  `hal` is the set of sensors that
measure, the adaptor's own and those the configuration binds to a one-shot sensor
(`wakeup/secondary_sensor_types`); each change of each of them may be refused.
`events` are the sensors that reported, in order, from the thread that reads the HAL
to the main thread; a full pipe or an invalid event loses a batch (`loseEvents`).
A one-shot sensor turns itself off in the HAL when it reports, and the main thread
learns of it later.  `call` is any call of the adaptor together with what
`evaluateHal` makes the HAL do.  `disturbed` remembers that the HAL refused or an event
was lost since all sensors last changed as asked; the properties make no claim while
it is set.  Not modelled: delays, fallback events with their values, power-state files.

### 2.3 SensorSessions and SessionRegistry

The daemon's handlers and the client library's calls are the actions; the
comment at the head of each group of variables names the class that holds them.
A client interface waits for the reply of one D-Bus call at a time (`call`), so
D-Bus calls of one interface are ordered; the client library's `start()` issues its call and
those that set properties without waiting (`qt-api/abstractsensor_i.cpp:126`), which the bus
keeps in the same order; its socket is a second channel (`hello`
a session id written and not yet read, `hangup` a socket closed and not yet
noticed), and the bus a third (`gone`).  Nothing orders the three, except that
the bus delivers what a client sent before it reports the client's end.
`clientDies` may happen at any time and leaves the calls under way.

`requestSensor` covers the three outcomes of the code: unknown sensor, a sensor
that proves invalid (an id is used up and the sensor leaves the registry), and a
session granted.  `releaseSessions` is what `releaseSensor()` does for every
caller; over D-Bus it checks the owner first and may stop watching the name,
from `lostClient()` the sensor is stopped before.  `timerTimeout` stands for the
10 s connection timer: since nothing emits `connectedSession()`
(`core/sockethandler.cpp:299`), every timer runs out, and the check it makes then
decides.

`SessionRegistry` is the promise to the clients in two variables, the ids used
up and the owners of the open sessions.  `SensorSessions` implements it with
`granted <- sessionIdCount` and `owner <- [s \in open |-> clientOf[s]]`.

### 2.4 IntervalRequests, RangeRequests and NodeRequests

In the code every sensor, chain and adaptor is a `NodeBase`, and a node either
keeps a request or hands it to the node it named as its source.  Between a client
and an adaptor there are thus at most two nodes that keep something, and those are the
state: `merged` and `requests` are `m_intervalMap` of the rotation sensor and of the
accelerometer adaptor, `sensorQueue` and `adaptorQueue` are `m_dataRangeQueue`
of the magnetometer sensor and of the magnetometer adaptor.  Sessions at sensors
that hand everything on (`SourceSessions`, `DirectSessions`) have requests at the
adaptor only; session 3 of the instance is in both sets, as a compass session
would be.

`validate` rounds an interval to the nearest range of a node, `Winner` is
`evaluateIntervalRequests()`; it is followed on the rotation sensor by
`Forwarded`, which hands the winner's interval on under the winner's id.  A data
range is its upper end; `setDataRange` of the magnetometer sensor scales what it
hands on.  `NodeRequests` puts the two together with `removeSession()`, which is
what a session that stops or is released goes through.

### 2.5 SessionBuffer and SampleStream

`SessionBuffer` is `SessionData` of the socket handler: per session the samples
buffered (`buffer`), the flush timer and the stream in the socket.  `write` has three
alternatives, after the branches of the code: straight to the socket, a full buffer
written with its oldest samples first, one more sample buffered.  What is written
while the socket is not connected, or is gone, is dropped.

`SampleStream` adds the two threads.  The reader thread is `processSample` (device
to ring buffer), the foreach over the active sessions (`todo`,
`downsampleAndPropagate`) and `readerLoop`, which looks whether it has to end.
`SensorManager::write()` blocks while the pipe is full: the action is not enabled.
The main thread takes entries from the pipe, starts, stops and configures sessions, and
is `"joining"` between the stop of the last session and the end of the reader
thread, when it does nothing else.  The counters of the ring are free-running and
wrap at `CountLimit`, 2^32 in the code.  A chain of ring buffers between adaptor and
sensor is one ring here: in the code each is written and read within the same call.
The reader's unprotected reads of the active sessions are atomic here.  `stop` leaves the
samples a session kept for downsampling where they are; the sensors that override
`removeSession()` drop them, so the model allows more than they do.

### 2.6 Activation, Supply and SensorGraph

`Activation` is the cascade of `start()` and `stop()` through a graph of three
layers: sensors, chains that read from chains, chains that read from adaptors.
`count` is `cnt_` of each node, `below` what each node starts and stops.  `Started` and
`Stopped` are the nodes whose count leaves or reaches 0 in one call, so an action is
one call from its first line to the return of the last nested one.  `Supply` is the
promise, with no counts in it: some consumers are wanted, and the adaptors that are
on are those a wanted consumer needs.

`SensorGraph` says which graph the daemon builds.  `loadPluginFile` is the recursive
`Loader`, over the dependencies that the plugins name; a plugin that is missing leaves
everything above it unloaded.  It is written as four operators, one for each depth of
the dependencies (`LoadAdaptor`, `LoadLower`, `LoadUpper`, `loadPluginFile`), each
trying up to six dependencies in turn; that none is deeper or longer is proved
(`DependenciesAreShallow`, `FewDependencies`).  `Constructor(n, found)` gives for each
sensor and chain what it requests, what it will start and whether it is valid, depending
on the plugins loaded and on the devices `found`.  A sensor that proves invalid is
deleted and unregistered; the chains it asked for stay.  Its starts, stops and
constructions are those of `Activation`, by conjunction, so `Activation`'s theorems are
about it.

`SensorGraph` has a second kind of consumer, the bins of the context plugin (built where
the context framework is, `sensors/sensors.pro:22`): `orientationbin` and `compassbin` read an
upper chain, `stabilitybin` reads the accelerometer's adaptor beside the accelerometer
chain.  They are among `Sensors`, but are constructed with the plugin (`loadContext`, in
which a compass chain that does not load costs the compass bin and no more), have one
user, and request what they read each time their first subscriber appears.  `startRun`
requests and `startBin` starts, two steps of one call: `starting` keeps everything else out
in between.  `stopSession` of a bin is `stopRun()`.  Because of `stabilitybin`, `SingleUser`
allows the accelerometer's adaptor a second user, and only while that bin runs.

### 2.7 BinderBackend

The main thread's place is `pc`: it connects (in a loop of its own), initialises and
lists the sensors, then runs the main loop, and ends by clean-up and join.  The
service is a sequence of incarnations; the daemon talks to one (`client`), has its
death reported of one (`watched`) and may have such a report waiting (`notice`).  A
transaction fails when the service is gone, and may fail when it is there.  With a
service of version 1.0 the reply to a poll starts the next one; with a later one the
reader thread takes events from the queue (`inHand`), writes them to the pipe
(`queueEvents`) or loses the batch (`loseEvents`: an invalid event, a write that fails), and
acknowledges them in either case, since `queueEvents()` returns their number in either
case.  `locks` counts the events for which the service keeps the system
awake.  `useDeletedBackend` is what the code risks between the deletion of the back end
and the cancelling of its reader thread: the process may end there.  Not modelled:
`gbinder_servicemanager_wait()` failing, after which the code cleans up and does not
try again.

### 2.8 Calibration

The magnetometer's count (`cnt`) with the clients' sessions on one side and the
handler on the other.  `timer` is the handler's only memory of a start of its own.
`threaded` tells an adaptor with a reader thread, whose samples wait in the main
thread's event queue, from a HAL adaptor, whose samples come at once.  The actions
are the handler's slots, and the sensor's start and stop by clients.

### 2.9 PoweredAdaptor

Nine classes switch the power of their device and replace `standby()` and `resume()` by
a plain stop and start: `AccelerometerAdaptor`, `ALSAdaptorEvdev`, `GyroAdaptorEvdev`,
`MagAdaptorEvdev`, `HumidityAdaptor`, `PressureAdaptor`, `TemperatureAdaptor`,
`ProximityAdaptorEvdev` and `LidSensorAdaptorEvdev` (whose writes of the power state are
commented out).  The module reuses the actions of `SysfsAdaptor` and adds `power`.
`OneUserAssumption` gives the adaptor one user, which is what `SingleUser` of
`SensorGraph` shows of each of them, with one exception: while the context plugin's
`StabilityBin` runs, the accelerometer's adaptor may have two.  `PoweredAdaptor` says
nothing of that case, in which the first `stopSensor()` turns the power off under the
other user (section 3).

## 3. Runs

Passing runs, with the bounds and why they are enough:

| Run | Distinct states | What it shows |
|---|---|---|
| `SysfsShared` | 565 | two users, two overriding sessions, a device that may fail to open; references lost bounded by `MaxDrift` = 4 |
| `PoweredAdaptor` | 257 | one user, two overriding sessions, a device that may fail to open; references drift by up to 3 either way |
| `HybrisShared` | 52,896 | two users, two overriding sessions, a sensor of either kind with a bound sensor of each kind, a HAL that may refuse each change, three events under way |
| `BinderBackend` | 12,873 | three incarnations of the service of either version, two failed transactions, two events posted at a time; with fairness |
| `SessionsTwoClients` | 400,996 | two clients of one sensor that connect in time and stop before they release; three sessions |
| `SessionsSlow` | 70,096 | one client with interfaces to two sensors, raced by the connection timer, releasing without a stop; two sessions; with fairness |
| `SampleStream` | about 353,000 | two sessions, one of them buffered and one downsampled, a pipe and a ring of two; with fairness |
| `SensorGraph` | 333,118 | four sensors and the three bins of the context plugin over the daemon's four chains and four of its adaptors, up to three of the sensors built, two sessions or bins active, any one plugin missing, any device absent |
| `NodeRequests` | 28,800 | two rotation sessions, one magnetometer session, one compass session, one straight at the magnetometer adaptor |
| `Calibration` | 1,588 | two client sessions, two levels, samples of either kind of adaptor, two of them waiting |

* Adaptors: the first user and the first override matter, then the second; a third
  repeats the second.  Four lost references are two more than the users, so the
  count has gone below zero and further losses change no branch.  The adaptor
  modules are proved for any number of users, sessions and drift (`PoweredAdaptor` for
  any sessions and drift).
* `HybrisShared`: with three events under way a batch can be lost, one can be stale and
  one current.
* `BinderBackend`: the third incarnation meets a daemon that watches the first and
  failed with the second; the pipe has room for one batch and blocks the second.
* Sessions: three sessions between two clients let one client come back after a
  release or a crash of the other; two interfaces of one client show the shared
  name watch.  Whether two clients at two sensors interfere follows from the shared
  state only (ids, watches, the socket map), which both runs exercise.
* `SampleStream`: three samples fill and overrun a pipe, a ring and a buffer of two;
  the ring's counters wrap at 4, within the run; two starts give a restart with a
  sample in flight, two changes a buffer size that is set and reset, or a write that
  fails twice.
* `SensorGraph`: the four sensors are two over a lower chain, the one that merges
  chains (rotation) and one with an adaptor of its own, which stands for the nine
  others of that form.  The orientation and the compass bin read the upper chains, as the
  sensors of those names would.  Three sensors and three bins build any chains above a
  third one; two that are active show what they share, and a second user of the
  accelerometer.
* `NodeRequests`: the rotation sensor has two ranges and the adaptor a range,
  a gap and a discrete value, so that a request is exact, rounded up, rounded
  down, and rounded twice.  The interval 0 and both defaults are included.
  Three data ranges allow a request to be changed while another one waits.
* `CHECK_DEADLOCK FALSE` is set where behaviours end: the session runs (all clients
  gone, or the ids used up), `SampleStream` (samples and starts used up) and
  `BinderBackend` (the process ends).

Fairness, always weak and never of clients, devices, the service or signals:

* `SensorSessions`: each handler of the daemon's event loop, per interface, session
  and client, since a Qt event loop serves each pending event in time.
  `DeadClientsReleased` needs no more.
* `SampleStream`: the reader thread's steps, the end of the join, the main thread's
  pipe handler, flush timers, the clients' reading.  `JoinEnds` has a condition that
  the code does not establish: the pipe must have room for what the reader still has
  to write.  Without it, the main thread waits for the reader and the reader for
  the main thread, for ever.  A real pipe holds thousands of entries, which is what
  the code relies on.
* `BinderBackend`: the main thread, the delivery of a death notice by the main loop,
  the reader thread, but no batch has to be lost: a reader in front of a full pipe may
  stay there.

Liveness is not stated of the adaptors, the requests and the graph, which only
react to calls.

Runs that show a disagreement with a document or a comment:

| Run | Property | What happens |
|---|---|---|
| `SessionsFindingCrash` | `RunningHasSession` | a `start()` under way when its client dies is handled after the socket closed the session, and the sensor runs for good |
| `CalibrationFinding` | `SessionsServed` | a sample queued before a calibration ended starts the handler's timer afterwards; its timeout stops the sensor once more, which takes a client's start away |

The second run rests on a queued connection (`SIGNAL(internalData(const
MagneticField&))`, `sensord/calibrationhandler.cpp:117`) that carries a `MagneticField`
from the adaptor's thread to the main thread.  Qt 6 queues the type as it is. Qt 5
queues it only if it is registered by name, and the daemon has no more than
`Q_DECLARE_METATYPE` (`datatypes/magneticfield.h:180`): built with Qt 5 the sample may
be dropped with a warning, and the trace does not come about.

Met while modelling and not shown by a run:

* adaptors in standby: `stopSensor()` in standby leaves `m_shouldBeRunning` set, and the
  reader comes back for nobody at the next resume (`core/sysfsadaptor.cpp:162`);
  `standby()` takes a reference away, so that of two users' stops the first one turns
  the device off; a HAL adaptor's `standby()` returns early in standby, so that an
  override withdrawn in the dark leaves the sensor on; the start and stop of a HAL
  adaptor set a flag and count nothing (`core/hybrisadaptor.cpp:1221`), so that the
  first stop turns the sensor off for every user, which does no harm where `SingleUser`
  gives an adaptor one user, but does between the accelerometer chain and a
  `StabilityBin` that runs beside it (`sensors/contextplugin/stabilitybin.cpp:100`); the
  event of a one-shot sensor that arrives after a stop and a start turns the measuring
  sensor off (`core/hybrisadaptor.cpp:1016`);
* input device adaptors: `resume()` starts the device with no user, `standby()` does not
  ask for overrides, a start in the dark reads, repeated overrides in the dark add
  references so that a reader can go on with its power off, and a start that fails
  leaves the power on; `stopSensor()` turns the power off before it asks for other
  users, which the accelerometer's adaptor has beside a `StabilityBin`
  (`adaptors/accelerometeradaptor/accelerometeradaptor.cpp:69`);
* sessions: `releaseSensor()` does not stop the sensor (`core/sensormanager.cpp:447`), so
  that an interface destroyed without `stop()` leaves it running, and the runs that need
  it assume applications that stop first (`StopFirst`); a client that connects after
  its session timed out leaves an entry in `m_idMap`; nothing emits
  `connectedSession()`; `setBufferInterval()` does not arm the timer for samples
  already buffered; nobody calls `setDownsampling()` of the socket handler, and with
  downsampling a session whose interval is over 2 s gets no samples;
* requests: when the last session of an adaptor withdraws its interval, the adaptor
  keeps the last one; a winner of the rotation sensor that raises its interval leaves
  its old request at the adaptor; the magnetometer sensor's ranges are scaled when introduced
  and again when handed on (`sensors/magnetometersensor/magnetometersensor.cpp:97,169`), so
  that `GoneIsForgotten` is checked for ranges and a scale where a range scaled twice is
  no range of the adaptor;
* graph: the magnetometer's scale filter joins the bin under a name that nothing in it has;
  the compass sensor is granted without a magnetometer and the rotation sensor without a
  working accelerometer; the lid sensor's destructor releases an adaptor of another name;
  `sensorFactoryMap_` is erased by a key it does not have; the compass chain's
  `resetCalibration()` uses a pointer that may be uninitialised;
* HAL back ends: the message queues are released by the first clean-up before they are
  set, always so with version 1.0; a failed activation transaction reports success; the
  clean-up deletes the back end before it cancels the reader thread; SIGTERM does
  nothing while the daemon blocks in its connect loop; the events of a batch that never
  got into the pipe are acknowledged all the same (`core/hybrisadaptor.cpp:948`); an
  acknowledgement that does not fit into its queue is not repeated; the temporary
  wakelock may run out while a write to the pipe blocks; power-state files are not
  written on resume;
* calibration: the handler's request for an interval of 100 µs stays after a
  calibration ends; a calibration ended by power save mode goes on only when the display
  is next turned on; the calibration filter's `dropCalibration()` clears a list and
  then reads its first element.

## 4. Proofs

All proofs are of the specifications as TLC checks them, for every value of the
constants that satisfies the assumptions the modules name.  Type invariants are
theorems and, except where a run needs them, not checked once more by TLC.

**SysfsAdaptor_proofs.**  Assumed: `Users` is finite, the device may open,
`MaxDrift` is a number.  `ReaderOwnsDescriptors`, `StandbyReleasesDevice`,
`CountedIsServed` and `CountWithinUsers` are inductive only together with one another
and with `CountedOutsideStandby`: outside standby an adaptor with a reference left is read,
unless its device did not open, whatever the display shows.  That the count never
exceeds the users needs the cardinality of a set that gains or loses one element
(`UserCount`).  Action properties (`LastStopReleases`, `GoingDarkReleases`) follow
from the invariant, action by action.  The second half proves `PoweredAdaptor`: with
one user `ServedWhenLit` is inductive with the reader's descriptors and with never
being in standby, for any drift of the count.

**HybrisManager_proofs.**  Assumed: the HAL's answers are Booleans, the sensor is not
bound to itself.  The adaptor's invariant splits into what the flags ask for
(`ModeInv`) and what the run state makes of it (`RunInv`).  `isRunning` equals what
`evaluateSensor()` would decide except after an override was withdrawn in the dark, when
the sensor runs on; so `ModeInv` states the two directions separately, the second one
weaker.  `ManagerIsAdaptor` shows that every step of the manager is one of the adaptor or
leaves it alone, which carries these theorems over.  `ManagerInvariant` then relates the
HAL's set to the adaptor's belief, for any sets of bound sensors and any events
under way; `CanFire` and `StoppedIsOff` are its readable parts.

**BinderBackend_proofs.**  Assumed: a batch fits into the pipe.  The invariant adds to
the properties `OnePoll`, `AwakeForEvents` and `LossNoticed` that nothing is read before
the sensors are listed (`NothingYet`), that a service is either polled or read
(`KindsApart`), and that the daemon, once connected, watches the incarnation it talks
to, which is there or reported as lost (`Watching`). `AwakeForEvents` is inductive with
these: each step moves events between the service's queue and the reader's hand, or
releases the locks of a batch the reader is done with.

**SensorSessions_proofs.**  Assumed: each interface has a client and a sensor.
`SessionsAgree` and `CountIsActive` are inductive with the state of the call under way:
the ids that requests under way may use up (`PendingInv`), a call for a session the
interface has or asks for (`CallInv`), a running interface with a session (`RunInv`), and
no two interfaces with one id (`IdInv`).
`ServiceImplementsRegistry` is the refinement, each action a step of
`SessionRegistry` or a stutter, for any clients, interfaces, sensors and sessions.
`StartedStaysActive` assumes `~MayTimeOut`: the connection timer of 10 s, which closes a
session whose client has not connected, beats nobody.  Its invariant says that an
interface's session is open on a socket that nobody closed (`OpenInv`), active from the end
of `start()` (`ServedInv`), and that nothing is kept under an id still to be handed out
(`KnownInv`).  `ClosedLeavesNothing` assumes `StopFirst` as well: `releaseSensor()` does not
stop, so an application that releases a running interface does leave its session active.

**SampleStream_proofs.**  The invariant is about the whole of a session's stream, what it
received, its socket, its buffer, its part of the pipe and the sample in the reader's
hand, as one sequence (`Whole`): it increases (`OrderInv`), keeps to the
session's rate together with the samples kept for downsampling (`SpacedInv`), and
whatever is on its way is older than the sample the reader still has to propagate
(`BoundInv`).  `RingInv` says that the ring's reader never falls behind and so hands on
the sample just taken.  `NothingIsLost` follows the set of a session's samples (`OnWay`)
through each step: the handler's write appends to the stream or flushes it, the reader's
propagation only adds to the pipe, and settings other than a buffer size move nothing.

**SensorGraph_proofs.**  First `Activation`.  Assumed: finitely many nodes, in disjoint
layers.  `CountsAgree` says that each node's count is the number of running nodes above it,
or of sessions.  One lemma per cascade shows that `Started` and `Stopped` are the nodes
whose running changes; cardinalities of the callers do the rest.  `GraphSupplies` is the
refinement to `Supply`, for any graph and any sequence of constructions.  Then
`SensorGraph`.  Assumed (`GraphAssumption`): sensors and chains have the names that the
constructors know; which of the sensors and adaptors there are, the sessions and all
bounds are free.  `GraphImplementsActivation` carries the results over.  The loader is proved
from the lowest depth up: an operator that gets a complete set of loaded plugins (one
that holds with each plugin what it depends on) leaves a larger complete set, with
the plugin in it if it succeeded (`LoadersBring`).  `GraphInvariant` adds that what is built
is loaded, that the chain a bin will request is loaded since the bin was built (`Owed`), and
that a node reads no adaptor but the one it is made for (`Wired`).
`ConstructorsServed` follows from completeness, since each constructor asks for nothing
but what its plugin names (`ConstructorsProper`), or what the context plugin has loaded, and
`SingleUser` from `CountsAgree`, since no two nodes but `stabilitybin` and the accelerometer
chain are wired to one adaptor (`WiredApart`): its readers that run are then at most one, and
at most two when that bin is among them.

**NodeRequests_proofs.**  Assumed: session ids are numbers up to a bound, no session
is at two sensors, range lists are not empty, the scale is two or more.
Intervals: `LeastExists` and `GreatestExists` give a winner among finitely many ids,
by the well-ordering of finite sets; `NearestIsNear` and `ValidateMonotonic` say that
rounding to ranges preserves the order of requests.  The invariant adds to the types
that the adaptor's table holds the rounded request of the rotation sensor's winner
under that winner's id (`HandedOn`) and that the interval in force is that of the
adaptor's winner (`SmallestInForce`); `FastEnough` follows by monotonicity.  Ranges:
both queues hold one request per session, and the range in force is the head's;
`PlacedKeepsOrder` and `WithoutKeepsOrder` are about the queue operators alone.
`ImplementsParts` shows that the graph implements both parts, so that their
theorems carry over.  `GoneForgotten` is proved under `NeverTwice`, a range scaled twice is
no range of the adaptor: without it the magnetometer sensor, which scales a range when it
introduces it and again when it hands it on, may leave a request at the adaptor.  Under
it no such request gets there, so each queue holds only requests of sessions that
withdraw at it (`OwnQueues`).

**Calibration_proofs.**  Assumed: finitely many sessions.  The invariant needs, beside
the properties, `HandlerInStep`: the handler is connected and overriding together, and only
while its timer is active and it has a session; without a stray sample, exactly then.

Only model-checked: liveness (`DeadClientsReleased`, `JoinEnds`, `Delivered`,
`EndsAfterLoss`, `Connects`), which is out of the provers' reach, and the counterexample of
each finding.  Every other property of the runs is a theorem.

## 5. Not modelled

* Marshalling, parsing, configuration, the C data types: no state of their own.
* Device-specific adaptors beyond their life cycle: the bytes and events of a device turned
  into samples, the IIO and tap adaptors' set-up of their device.
* The passthrough back end, which calls the HAL library directly, and the delays, fallback
  events and power-state files of the manager.
* The override tree of `NodeBase`: no leaf in the repository refuses an
  override, so the revert in `setStandbyOverrideRequest()` never runs.  Hardware
  buffer requests: no node in the repository implements them.
* The arithmetic of the filters, the orientation interpreter's thresholds included, and of
  the calibration filter: floating-point geometry over the last samples.
* The context plugin's interval and standby override requests, its filters and the context
  framework; the Luna client, the daemon's command line and logging, the status
  report.
* A large part of the repository's lines is none of this logic: licences, documentation
  in headers, declarations, D-Bus adaptors that hand each call on, one class per sensor
  type with the same few lines, tests and examples.  No definition stands for those.

## 6. Plan

Done: the life cycle of all adaptors, the HAL and its binder back end, sessions, the way
of the samples, the graph of nodes, requests, calibration.  Left, most important first:

1. Delays and fallback events of `HybrisManager`: a value delivered before the start is
   consumed and not delivered again (`core/hybrisadaptor.cpp:1130`).
2. The orientation interpreter's thresholds over a small set of angles.
3. `SensorGraph` composed with `SysfsAdaptor`, one for each adaptor of the graph.
4. Client reads that end within a sample (`qt-api/socketreader.cpp:105`).
