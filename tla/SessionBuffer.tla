--------------------------- MODULE SessionBuffer ---------------------------
(***************************************************************************)
(* What the daemon keeps for the socket of each client session             *)
(* (SessionData and SocketHandler, core/sockethandler.cpp): the samples    *)
(* buffered for the client, the timer that limits how long they wait, and  *)
(* the stream of samples in the socket.  Everything runs on the main       *)
(* thread.  A sample is told apart by its number alone; SampleStream says  *)
(* where samples come from.                                                *)
(***************************************************************************)
EXTENDS Integers, Sequences

CONSTANTS Sessions,      \* client sessions
          BufferSizes    \* the values setBufferSize() may be called with

ASSUME BufferSizesAssumption == BufferSizes \subseteq Nat

VARIABLES
  connected,       \* "new", "open" while in SocketHandler::m_idMap, "gone"
  bufferSize,      \* SessionData::m_bufferSize
  bufferInterval,  \* SessionData::m_bufferInterval_us is not 0
  buffer,          \* the samples in SessionData::m_buffer; m_count is its length
  timer,           \* SessionData::m_timer is active
  socket           \* the samples written to the socket and not yet read

dataVars == <<buffer, timer, socket>>
sessionVars == <<connected, bufferSize, bufferInterval, buffer, timer, socket>>

BufferTypeOK ==
  /\ connected \in [Sessions -> {"new", "open", "gone"}]
  /\ bufferSize \in [Sessions -> Nat]
  /\ bufferInterval \in [Sessions -> BOOLEAN]
  /\ buffer \in [Sessions -> Seq(Nat)]
  /\ timer \in [Sessions -> BOOLEAN]
  /\ socket \in [Sessions -> Seq(Nat)]

BufferInit ==
  /\ connected = [s \in Sessions |-> "new"]
  /\ bufferSize = [s \in Sessions |-> 1]
  /\ bufferInterval = [s \in Sessions |-> FALSE]
  /\ buffer = [s \in Sessions |-> <<>>]
  /\ timer = [s \in Sessions |-> FALSE]
  /\ socket = [s \in Sessions |-> <<>>]

-----------------------------------------------------------------------------
\* The client's first message names its session.
socketReadable(s) ==
  /\ connected[s] = "new"
  /\ connected' = [connected EXCEPT ![s] = "open"]
  /\ UNCHANGED <<bufferSize, bufferInterval, dataVars>>

\* removeSession(): the socket, the buffer and the timer go.
removeSession(s) ==
  /\ connected[s] # "gone"
  /\ connected' = [connected EXCEPT ![s] = "gone"]
  /\ buffer' = [buffer EXCEPT ![s] = <<>>]
  /\ timer' = [timer EXCEPT ![s] = FALSE]
  /\ UNCHANGED <<bufferSize, bufferInterval, socket>>

\* Mutant: the count of the buffered samples is not reset.
delayedWrite_KeepsCount(s, samples) ==
  /\ timer' = [timer EXCEPT ![s] = FALSE]
  /\ socket' = [socket EXCEPT ![s] = @ \o samples]
  /\ buffer' = [buffer EXCEPT ![s] = samples]

\* Mutant: the buffer is emptied with the first sample of it written.
delayedWrite_First(s, samples) ==
  /\ timer' = [timer EXCEPT ![s] = FALSE]
  /\ socket' = [socket EXCEPT ![s] = Append(@, Head(samples))]
  /\ buffer' = [buffer EXCEPT ![s] = <<>>]

\* Everything buffered goes into the socket.
delayedWrite(s, samples) ==
  /\ timer' = [timer EXCEPT ![s] = FALSE]
  /\ socket' = [socket EXCEPT ![s] = @ \o samples]
  /\ buffer' = [buffer EXCEPT ![s] = <<>>]

\* SocketHandler::write() for a session that is not in m_idMap.
writeDropped(s) ==
  /\ connected[s] # "open"
  /\ UNCHANGED dataVars

\* An unbuffered session.  m_downsampling is never set, nobody calls
\* SocketHandler::setDownsampling(), so no sample is held back here.
writeThrough(s, k) ==
  /\ connected[s] = "open" /\ bufferSize[s] <= 1
  /\ socket' = [socket EXCEPT ![s] = Append(@, k)]
  /\ UNCHANGED <<buffer, timer>>

writeFull(s, k) ==
  /\ connected[s] = "open" /\ bufferSize[s] > 1
  /\ Len(buffer[s]) + 1 = bufferSize[s]
  /\ delayedWrite(s, Append(buffer[s], k))

\* Mutant: the timer is armed for the second sample, not for the first.
writeBuffered_ArmsLate(s, k) ==
  /\ connected[s] = "open" /\ bufferSize[s] > 1
  /\ Len(buffer[s]) + 1 # bufferSize[s]
  /\ buffer' = [buffer EXCEPT ![s] = Append(@, k)]
  /\ timer' = [timer EXCEPT ![s] = @ \/ (bufferInterval[s] /\ buffer[s] # <<>>)]
  /\ UNCHANGED socket

\* The timer is armed here and nowhere else.
writeBuffered(s, k) ==
  /\ connected[s] = "open" /\ bufferSize[s] > 1
  /\ Len(buffer[s]) + 1 # bufferSize[s]
  /\ buffer' = [buffer EXCEPT ![s] = Append(@, k)]
  /\ timer' = [timer EXCEPT ![s] = @ \/ bufferInterval[s]]
  /\ UNCHANGED socket

write(s, k) ==
  /\ writeDropped(s) \/ writeThrough(s, k) \/ writeFull(s, k) \/ writeBuffered(s, k)
  /\ UNCHANGED <<connected, bufferSize, bufferInterval>>

timerTimeout(s) ==
  /\ timer[s]
  /\ delayedWrite(s, buffer[s])
  /\ UNCHANGED <<connected, bufferSize, bufferInterval>>

\* Mutant: the new size is set around the samples buffered so far.
setBufferSize_KeepsBuffer(s, size) ==
  /\ bufferSize' = [bufferSize EXCEPT ![s] =
       IF connected[s] = "open" THEN (IF size < 1 THEN 1 ELSE size) ELSE @]
  /\ UNCHANGED <<connected, bufferInterval, buffer, timer, socket>>

\* Samples buffered for another size are discarded.
setBufferSize(s, size) ==
  /\ IF connected[s] = "open" /\ size # bufferSize[s]
     THEN /\ timer' = [timer EXCEPT ![s] = FALSE]
          /\ buffer' = [buffer EXCEPT ![s] = <<>>]
          /\ bufferSize' = [bufferSize EXCEPT ![s] = IF size < 1 THEN 1 ELSE size]
     ELSE UNCHANGED <<timer, buffer, bufferSize>>
  /\ UNCHANGED <<connected, bufferInterval, socket>>

\* Takes effect at the next write(): a running timer keeps its time, and
\* samples buffered without a timer get none.
setBufferInterval(s, limited) ==
  /\ bufferInterval' = [bufferInterval EXCEPT ![s] =
       IF connected[s] = "open" THEN limited ELSE @]
  /\ UNCHANGED <<connected, bufferSize, buffer, timer, socket>>

=============================================================================
