---------------------------- MODULE SampleStream ----------------------------
(***************************************************************************)
(* The way of a sample from the device to the clients of one sensor: the   *)
(* reader thread of the adaptor (core/sysfsadaptor.cpp) takes it into the  *)
(* ring buffer, the sensor (core/abstractsensor.cpp) thins it out for each *)
(* active session, SensorManager::write() puts it into a pipe; the main    *)
(* thread takes it out of the pipe into the session's buffer and socket    *)
(* (SessionBuffer); the client reads it.  The main thread also starts,     *)
(* stops and configures sessions, and joins the reader thread when the     *)
(* last session stops.                                                     *)
(***************************************************************************)
EXTENDS SessionBuffer, FiniteSets

CONSTANTS Buffered,      \* sessions whose clients configure a buffer
          Ratio,         \* per session: its interval over the sensor's, at least 1
          PipeCapacity,  \* entries the pipe holds before a write blocks
          WriteResults,  \* what SensorManager::write() may return
          RingSize,      \* RingBuffer::bufferSize_
          CountLimit,    \* the ring's counters wrap here (2^32 in the code)
          MaxSamples,    \* bound on the samples the device has
          MaxStarts,     \* bound on start()
          MaxChanges     \* bound on buffer settings and failed pipe writes

ASSUME BufferedAssumption == Buffered \subseteq Sessions
ASSUME RatioAssumption == Ratio \in [Sessions -> Nat \ {0}]
ASSUME PipeAssumption == PipeCapacity \in Nat \ {0}
ASSUME ResultsAssumption == WriteResults \subseteq BOOLEAN /\ TRUE \in WriteResults
ASSUME RingAssumption == RingSize \in Nat \ {0} /\ CountLimit \in Nat \ {0, 1}
ASSUME StreamBoundsAssumption ==
  MaxSamples \in Nat /\ MaxStarts \in Nat /\ MaxChanges \in Nat

VARIABLES
  reader,      \* the reader thread: "off", "waiting" or "writing"
  running,     \* SysfsAdaptorReader::m_running, or no byte in its control pipe
  taken,       \* how many samples processSample() has taken
  ring,        \* RingBuffer::buffer_
  writeCount,  \* RingBuffer::writeCount_
  readCount,   \* RingBufferReader::readCount_
  current,     \* the sample the reader thread propagates
  todo,        \* sessions of the foreach over activeSessions_ still to come
  samples,     \* the downsampling buffer of each session
  pipe,        \* SensorManager::pipefds_
  main,        \* the main thread: "loop", or "joining" the reader thread
  active,      \* AbstractSensorChannel::activeSessions_
  received,    \* what each client has read
  starts, changes  \* how many so far, for the bounds

readerVars == <<reader, taken, ring, writeCount, readCount, current, todo, samples>>
mainVars   == <<running, main, active, starts>>
vars == <<sessionVars, readerVars, mainVars, pipe, received, changes>>

Entry == [id : Sessions, sample : Nat]

TypeOK ==
  /\ BufferTypeOK
  /\ reader \in {"off", "waiting", "writing"} /\ main \in {"loop", "joining"}
  /\ running \in BOOLEAN
  /\ taken \in Nat /\ current \in Nat
  /\ ring \in [0..RingSize - 1 -> Nat]
  /\ writeCount \in 0..CountLimit - 1 /\ readCount \in 0..CountLimit - 1
  /\ todo \subseteq Sessions /\ active \subseteq Sessions
  /\ samples \in [Sessions -> SUBSET Nat]
  /\ pipe \in Seq(Entry) /\ Len(pipe) <= PipeCapacity
  /\ received \in [Sessions -> Seq(Nat)]
  /\ starts \in Nat /\ changes \in Nat

Init ==
  /\ BufferInit
  /\ reader = "off" /\ running = FALSE /\ main = "loop"
  /\ taken = 0 /\ current = 0
  /\ ring = [i \in 0..RingSize - 1 |-> 0] /\ writeCount = 0 /\ readCount = 0
  /\ todo = {} /\ active = {}
  /\ samples = [s \in Sessions |-> {}]
  /\ pipe = <<>>
  /\ received = [s \in Sessions |-> <<>>]
  /\ starts = 0 /\ changes = 0

-----------------------------------------------------------------------------
\* The reader thread.

\* Mutant: the ring's reader falls behind the writer.
ringWrite_ReaderBehind(k) ==
  /\ ring' = [ring EXCEPT ![writeCount % RingSize] = k]
  /\ writeCount' = (writeCount + 1) % CountLimit
  /\ readCount' = readCount
  /\ current' = ring'[readCount % RingSize]

\* nextSlot(), commit() and wakeUpReaders(): the reader takes what it has not
\* read, which is this one sample, before the next is written.
ringWrite(k) ==
  /\ ring' = [ring EXCEPT ![writeCount % RingSize] = k]
  /\ writeCount' = (writeCount + 1) % CountLimit
  /\ readCount' = writeCount'
  /\ current' = ring'[readCount % RingSize]

\* processSample(): the sensor copies activeSessions_ for its foreach.
processSample ==
  /\ reader = "waiting" /\ taken < MaxSamples
  /\ taken' = taken + 1
  /\ ringWrite(taken + 1)
  /\ todo' = active
  /\ reader' = "writing"
  /\ UNCHANGED <<samples, sessionVars, mainVars, pipe, received, changes>>

\* The samples that the erasing loop of downsampleAndPropagate() leaves.  It
\* steps over the sample behind each one it erases.  The oldest "aged" samples
\* are more than two seconds older than the newest.
NotErased(kept, aged, ratio) ==
  LET Position(k) == Cardinality({j \in kept : j <= k})
      Erased(k) == \/ Position(k) % 2 = 1 /\ Position(k) <= aged
                   \/ Position(k) = 1 /\ Cardinality(kept) > ratio
  IN {k \in kept : ~Erased(k)}

\* Mutant: samples averaged and sent stay in the downsampling buffer.
propagate_KeepsSamples(s, kept) ==
  \/ /\ Cardinality(kept) < Ratio[s]
     /\ samples' = [samples EXCEPT ![s] = kept]
     /\ UNCHANGED <<pipe, changes>>
  \/ /\ Cardinality(kept) >= Ratio[s] /\ Len(pipe) < PipeCapacity
     /\ pipe' = Append(pipe, [id |-> s, sample |-> current])
     /\ samples' = [samples EXCEPT ![s] = kept]
     /\ UNCHANGED changes

\* A full pipe blocks the thread in SensorManager::write(); a failed write
\* loses the sample, and the downsampling buffer keeps what it has.
propagate(s, kept) ==
  \/ /\ Cardinality(kept) < Ratio[s]
     /\ samples' = [samples EXCEPT ![s] = kept]
     /\ UNCHANGED <<pipe, changes>>
  \/ /\ Cardinality(kept) >= Ratio[s] /\ Len(pipe) < PipeCapacity
     /\ TRUE \in WriteResults
     /\ pipe' = Append(pipe, [id |-> s, sample |-> current])
     /\ samples' = [samples EXCEPT ![s] = {}]
     /\ UNCHANGED changes
  \/ /\ Cardinality(kept) >= Ratio[s]
     /\ FALSE \in WriteResults /\ changes < MaxChanges
     /\ changes' = changes + 1
     /\ samples' = [samples EXCEPT ![s] = kept]
     /\ UNCHANGED pipe

downsampleAndPropagate(s) ==
  /\ reader = "writing" /\ s \in todo
  /\ todo' = todo \ {s}
  /\ \E aged \in 0..Cardinality(samples[s]) :
       propagate(s, NotErased(samples[s] \cup {current}, aged, Ratio[s]))
  /\ UNCHANGED <<reader, taken, ring, writeCount, readCount, current>>
  /\ UNCHANGED <<sessionVars, mainVars, received>>

\* The loop of run(): after a sample, or woken by stopReaderThread().
readerLoop ==
  /\ \/ reader = "writing" /\ todo = {}
     \/ reader = "waiting" /\ ~running
  /\ reader' = IF running THEN "waiting" ELSE "off"
  /\ UNCHANGED <<taken, ring, writeCount, readCount, current, todo, samples>>
  /\ UNCHANGED <<sessionVars, mainVars, pipe, received, changes>>

-----------------------------------------------------------------------------
\* The main thread.

\* AbstractSensorChannel::start(); the first session starts the reader thread.
start(s) ==
  /\ main = "loop" /\ starts < MaxStarts
  /\ s \notin active /\ connected[s] # "gone"
  /\ active' = active \cup {s}
  /\ starts' = starts + 1
  /\ IF active = {} THEN reader' = "waiting" /\ running' = TRUE
                    ELSE UNCHANGED <<reader, running>>
  /\ UNCHANGED <<taken, ring, writeCount, readCount, current, todo, samples>>
  /\ UNCHANGED <<sessionVars, main, pipe, received, changes>>

\* Mutant: the thread is joined without being told to end.
stop_OnlyJoins(s) ==
  /\ main = "loop" /\ s \in active
  /\ active' = active \ {s}
  /\ main' = IF active = {s} THEN "joining" ELSE main
  /\ UNCHANGED <<running, readerVars, sessionVars, starts, pipe, received, changes>>

\* AbstractSensorChannel::stop(); the last one ends in stopReaderThread(),
\* which waits for the thread.
stop(s) ==
  /\ main = "loop" /\ s \in active
  /\ active' = active \ {s}
  /\ IF active = {s} THEN running' = FALSE /\ main' = "joining"
                     ELSE UNCHANGED <<running, main>>
  /\ UNCHANGED <<readerVars, sessionVars, starts, pipe, received, changes>>

\* The wait in stopReaderThread() is over.
joined ==
  /\ main = "joining" /\ reader = "off"
  /\ main' = "loop"
  /\ UNCHANGED <<readerVars, sessionVars, running, active, starts, pipe, received, changes>>

\* SensorManager::sensorDataHandler(): one entry of the pipe.
sensorDataHandler ==
  /\ main = "loop" /\ pipe # <<>>
  /\ pipe' = Tail(pipe)
  /\ write(Head(pipe).id, Head(pipe).sample)
  /\ UNCHANGED <<readerVars, mainVars, received, changes>>

\* The socket and timer events of one session.
connectSession(s) ==
  /\ main = "loop" /\ socketReadable(s)
  /\ UNCHANGED <<readerVars, mainVars, pipe, received, changes>>

releaseSession(s) ==
  /\ main = "loop" /\ removeSession(s)
  /\ UNCHANGED <<readerVars, mainVars, pipe, received, changes>>

flushTimer(s) ==
  /\ main = "loop" /\ timerTimeout(s)
  /\ UNCHANGED <<readerVars, mainVars, pipe, received, changes>>

\* The D-Bus calls that configure the buffer of a session.
configure(s) ==
  /\ main = "loop" /\ changes < MaxChanges /\ s \in Buffered
  /\ changes' = changes + 1
  /\ \/ \E size \in BufferSizes : setBufferSize(s, size)
     \/ \E limited \in BOOLEAN : setBufferInterval(s, limited)
  /\ UNCHANGED <<readerVars, mainVars, pipe, received>>

\* The client takes what has arrived, all the samples of one write together.
dataReceived(s) ==
  /\ socket[s] # <<>>
  /\ received' = [received EXCEPT ![s] = @ \o socket[s]]
  /\ socket' = [socket EXCEPT ![s] = <<>>]
  /\ UNCHANGED <<connected, bufferSize, bufferInterval, buffer, timer>>
  /\ UNCHANGED <<readerVars, mainVars, pipe, changes>>

Next ==
  \/ processSample \/ readerLoop \/ joined \/ sensorDataHandler
  \/ \E s \in Sessions :
       \/ downsampleAndPropagate(s)
       \/ start(s) \/ stop(s) \/ configure(s)
       \/ connectSession(s) \/ releaseSession(s) \/ flushTimer(s)
       \/ dataReceived(s)

\* The threads keep running, timers fire, the client's event loop reads; no
\* fairness for the device or for what clients ask.
Fairness ==
  /\ WF_vars(readerLoop) /\ WF_vars(joined) /\ WF_vars(sensorDataHandler)
  /\ \A s \in Sessions : /\ WF_vars(downsampleAndPropagate(s))
                         /\ WF_vars(flushTimer(s)) /\ WF_vars(dataReceived(s))

Spec == Init /\ [][Next]_vars
FairSpec == Spec /\ Fairness

-----------------------------------------------------------------------------
Before(a, b) == \A i \in 1..Len(a), j \in 1..Len(b) : a[i] < b[j]
Increasing(a) == \A i, j \in 1..Len(a) : i < j => a[i] < a[j]

\* Every client gets the samples in the order in which the device measured
\* them and none twice, through two threads, the ring, the pipe, the buffer and
\* the socket, whatever is started, stopped or resized on the way.
InOrder ==
  /\ \A i, j \in 1..Len(pipe) :
       i < j /\ pipe[i].id = pipe[j].id => pipe[i].sample < pipe[j].sample
  /\ \A s \in Sessions :
       /\ Increasing(received[s]) /\ Increasing(socket[s]) /\ Increasing(buffer[s])
       /\ Before(received[s], socket[s]) /\ Before(received[s], buffer[s])
       /\ Before(socket[s], buffer[s])
       /\ \A q \in {received[s], socket[s], buffer[s]} :
            \A i \in 1..Len(q), j \in 1..Len(pipe) :
              pipe[j].id = s => q[i] < pipe[j].sample

\* A sample is buffered only below the size, so that the array allocated for
\* m_bufferSize samples is never overrun, also when the size changes with
\* samples buffered, and the flush timer runs only when there is something
\* to flush.
BufferFits ==
  \A s \in Sessions :
    /\ buffer[s] # <<>> => Len(buffer[s]) < bufferSize[s]
    /\ timer[s] => buffer[s] # <<>>

Elements(q) == {q[i] : i \in 1..Len(q)}
InPipe(s) == {pipe[i].sample : i \in {j \in 1..Len(pipe) : pipe[j].id = s}}
InTransit(s) == InPipe(s) \cup Elements(buffer[s]) \cup Elements(socket[s])

\* What was put into the pipe for a connected session stays on its way or
\* reaches the client; only a release or a new buffer size discards samples.
NothingLost ==
  [][ \A s \in Sessions :
        connected[s] = "open" /\ connected'[s] = "open" /\ bufferSize'[s] = bufferSize[s]
          => InTransit(s) \subseteq InTransit(s)' \cup Elements(received'[s]) ]_vars

\* A downsampled session gets at most one sample in Ratio[s], also across a
\* failed write and a restart.
RateOf(s, q) == \A i \in 1..Len(q) - 1 : q[i + 1] - q[i] >= Ratio[s]
DownsampledRate ==
  \A s \in Sessions :
    RateOf(s, received[s] \o socket[s] \o buffer[s])

\* The join in stopReaderThread() ends, provided that the pipe has room for
\* the rest of the reader's foreach: the main thread, which empties the pipe,
\* is the one that waits.
JoinEnds ==
  (main = "joining" /\ Len(pipe) + Cardinality(todo) <= PipeCapacity) ~> main = "loop"

\* While the main thread runs, a sample in the pipe of a connected session that
\* uses a buffer reaches the client in time: at once while the buffer size is 1,
\* with the timer while the buffer has a time limit.
Timely(s) == bufferInterval[s] \/ bufferSize[s] <= 1
Delivered ==
  \A s \in Buffered : \A k \in 1..MaxSamples :
    (k \in InPipe(s) /\ connected[s] = "open" /\ Timely(s)) ~>
       \/ k \in Elements(received[s]) \/ k \notin InTransit(s)
       \/ connected[s] = "gone" \/ ~Timely(s) \/ main = "joining"

=============================================================================
