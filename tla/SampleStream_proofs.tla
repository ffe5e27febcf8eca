------------------------ MODULE SampleStream_proofs ------------------------
(***************************************************************************)
(* Samples reach every client in order, at no more than its rate, and fit  *)
(* its buffer, for any number of sessions, any buffer sizes, ring, pipe    *)
(* and ratios, and any order of starts, stops and settings.                *)
(* No sample of a connected session is lost on its way through pipe,       *)
(* buffer and socket.                                                      *)
(***************************************************************************)
EXTENDS SampleStream, SequenceTheorems, FiniteSetTheorems, TLAPS

\* What a client has got or will get without the pipe, as one sequence.
Whole(s) == received[s] \o socket[s] \o buffer[s]

OnWay(s) == Elements(Whole(s)) \cup InPipe(s)

\* The sequence grows, and what is in the pipe comes after it, in order.
OrderInv ==
  /\ \A i, j \in 1..Len(pipe) :
       i < j /\ pipe[i].id = pipe[j].id => pipe[i].sample < pipe[j].sample
  /\ \A s \in Sessions :
       /\ Increasing(Whole(s))
       /\ \A k \in Elements(Whole(s)), p \in InPipe(s) : k < p

\* What is on its way has been taken before, and before the sample that the
\* reader thread is about to propagate to the session.
BoundInv ==
  \A s \in Sessions : \A k \in OnWay(s) :
    k <= taken /\ (reader = "writing" /\ s \in todo => k < taken)

\* Samples of one session are Ratio apart, those in its downsampling buffer
\* are newer than all of them.
SpacedInv ==
  \A s \in Sessions :
    /\ \A a, b \in OnWay(s) : a < b => b - a >= Ratio[s]
    /\ samples[s] \subseteq 0..taken
    /\ \A a \in OnWay(s), k \in samples[s] : a < k

\* The ring's reader never falls behind, so it hands on the sample just taken.
RingInv == readCount = writeCount /\ (reader = "writing" => current = taken)

IInv == TypeOK /\ BufferFits /\ OrderInv /\ BoundInv /\ SpacedInv /\ RingInv

-----------------------------------------------------------------------------
(* Sequences of samples. *)

LEMMA IncreasingAppend ==
  ASSUME NEW a \in Seq(Nat), NEW k \in Nat, Increasing(a), \A x \in Elements(a) : x < k
  PROVE  Increasing(Append(a, k)) /\ Elements(Append(a, k)) = Elements(a) \cup {k}
<1> DEFINE b == Append(a, k)
<1>1. /\ Len(b) = Len(a) + 1 /\ b[Len(a) + 1] = k
      /\ \A i \in 1..Len(a) : b[i] = a[i]
      /\ Len(a) \in Nat
  BY AppendProperties, LenProperties
<1> HIDE DEF b
<1>2. Increasing(b)
  <2> SUFFICES ASSUME NEW i \in 1..Len(b), NEW j \in 1..Len(b), i < j PROVE b[i] < b[j]
    BY DEF Increasing
  <2>1. i \in 1..Len(a) /\ b[i] = a[i]
    BY <1>1
  <2>2. CASE j = Len(a) + 1
    BY <1>1, <2>1, <2>2 DEF Elements
  <2>3. CASE j # Len(a) + 1
    <3>1. j \in 1..Len(a) /\ b[j] = a[j]
      BY <1>1, <2>3
    <3> QED
      BY <2>1, <3>1 DEF Increasing
  <2> QED
    BY <2>2, <2>3
<1>3. Elements(b) = Elements(a) \cup {k}
  <2>1. 1..Len(b) = 1..Len(a) \cup {Len(a) + 1}
    BY <1>1
  <2> QED
    BY <1>1, <2>1 DEF Elements
<1> QED
  BY <1>2, <1>3 DEF b

LEMMA IncreasingPrefix ==
  ASSUME NEW a \in Seq(Nat), NEW b \in Seq(Nat)
  PROVE  /\ Increasing(a \o b) => Increasing(a) /\ Increasing(b) /\ Before(a, b)
         /\ Elements(a \o b) = Elements(a) \cup Elements(b)
<1> DEFINE c == a \o b
<1>1. /\ Len(c) = Len(a) + Len(b) /\ Len(a) \in Nat /\ Len(b) \in Nat
      /\ \A i \in 1..Len(a) : i \in 1..Len(c) /\ c[i] = a[i]
      /\ \A i \in 1..Len(b) : i + Len(a) \in 1..Len(c) /\ c[i + Len(a)] = b[i]
      /\ \A i \in 1..Len(c) : i \in 1..Len(a) \/ i - Len(a) \in 1..Len(b)
  <2>1. Len(a) \in Nat /\ Len(b) \in Nat /\ Len(c) = Len(a) + Len(b)
    BY LenProperties, ConcatProperties
  <2>2. \A i \in 1..Len(c) : c[i] = IF i <= Len(a) THEN a[i] ELSE b[i - Len(a)]
    BY <2>1, ConcatProperties
  <2> HIDE DEF c
  <2>3. \A i \in 1..Len(a) : i \in 1..Len(c) /\ c[i] = a[i]
    BY <2>1, <2>2
  <2>4. ASSUME NEW i \in 1..Len(b)
        PROVE  i + Len(a) \in 1..Len(c) /\ c[i + Len(a)] = b[i]
    <3>1. i + Len(a) \in 1..Len(c) /\ ~(i + Len(a) <= Len(a)) /\ (i + Len(a)) - Len(a) = i
      BY <2>1
    <3> QED
      BY <2>2, <3>1
  <2> QED
    BY <2>1, <2>3, <2>4
<1> HIDE DEF c
<1>2. ASSUME Increasing(c) PROVE Increasing(a) /\ Increasing(b) /\ Before(a, b)
  <2>1. Increasing(a)
    BY <1>1, <1>2 DEF Increasing
  <2>2. ASSUME NEW i \in 1..Len(b), NEW j \in 1..Len(b), i < j PROVE b[i] < b[j]
    <3>1. i + Len(a) < j + Len(a)
      BY <1>1, <2>2
    <3> QED
      BY <1>1, <1>2, <3>1 DEF Increasing
  <2>3. ASSUME NEW i \in 1..Len(a), NEW j \in 1..Len(b) PROVE a[i] < b[j]
    <3>1. i < j + Len(a)
      BY <1>1
    <3> QED
      BY <1>1, <1>2, <3>1 DEF Increasing
  <2> QED
    BY <2>1, <2>2, <2>3 DEF Increasing, Before
<1>3. Elements(c) = Elements(a) \cup Elements(b)
  <2>1. ASSUME NEW i \in 1..Len(c) PROVE c[i] \in Elements(a) \cup Elements(b)
    <3>1. CASE i \in 1..Len(a)
      BY <1>1, <3>1 DEF Elements
    <3>2. CASE i - Len(a) \in 1..Len(b)
      <4>1. c[(i - Len(a)) + Len(a)] = b[i - Len(a)]
        BY <1>1, <3>2
      <4>2. (i - Len(a)) + Len(a) = i
        BY <1>1
      <4> QED
        BY <3>2, <4>1, <4>2 DEF Elements
    <3> QED
      BY <1>1, <3>1, <3>2
  <2>2. \A i \in 1..Len(a) : a[i] \in Elements(c)
    BY <1>1 DEF Elements
  <2>3. \A i \in 1..Len(b) : b[i] \in Elements(c)
    BY <1>1 DEF Elements
  <2> QED
    BY <2>1, <2>2, <2>3 DEF Elements
<1> QED
  BY <1>2, <1>3 DEF c

LEMMA Associative ==
  ASSUME NEW x \in Seq(Nat), NEW y \in Seq(Nat), NEW z \in Seq(Nat)
  PROVE  (x \o y) \o z = x \o (y \o z)
BY ConcatAssociative, SMTT(30)

\* A client's sequence in other groupings.
LEMMA Regroup ==
  ASSUME NEW r \in Seq(Nat), NEW q \in Seq(Nat), NEW b \in Seq(Nat), NEW k \in Nat
  PROVE  /\ (r \o (q \o b)) \o <<>> = (r \o q) \o b
         /\ ((r \o q) \o <<>>) \o b = (r \o q) \o b
         /\ (r \o q) \o Append(b, k) = Append((r \o q) \o b, k)
         /\ (r \o Append(q, k)) \o <<>> = Append((r \o q) \o <<>>, k)
         /\ (r \o q) \o <<>> = r \o q
<1>1. \A x \in Seq(Nat) : x \o <<>> = x
  BY ConcatEmptySeq
<1>2. \A x \in Seq(Nat) : Append(x, k) = x \o <<k>> /\ Append(x, k) \in Seq(Nat)
  BY AppendIsConcat, AppendProperties
<1>3. \A x, y \in Seq(Nat) : x \o y \in Seq(Nat)
  BY ConcatProperties
<1>4. \A x, y, z \in Seq(Nat) : (x \o y) \o z = x \o (y \o z)
  BY Associative
<1>5. <<k>> \in Seq(Nat) /\ <<>> \in Seq(Nat)
  BY EmptySeq
<1> DEFINE last == <<k>>
<1> HIDE DEF last
<1>6. (r \o (q \o b)) \o <<>> = (r \o q) \o b
  <2>1. q \o b \in Seq(Nat) /\ r \o (q \o b) \in Seq(Nat)
    BY <1>3
  <2>2. r \o (q \o b) = (r \o q) \o b
    BY <1>4
  <2> QED
    BY <1>1, <2>1, <2>2
<1>7. ((r \o q) \o <<>>) \o b = (r \o q) \o b /\ (r \o q) \o <<>> = r \o q
  BY <1>1, <1>3
<1>8. (r \o q) \o Append(b, k) = Append((r \o q) \o b, k)
  BY <1>2, <1>3, <1>4, <1>5
<1>10. (r \o Append(q, k)) \o <<>> = Append((r \o q) \o <<>>, k)
  <2>1. r \o Append(q, k) = Append(r \o q, k)
    BY <1>2, <1>3, <1>4, <1>5
  <2> QED
    BY <1>1, <1>2, <1>3, <2>1
<1> QED
  BY <1>6, <1>7, <1>8, <1>10

-----------------------------------------------------------------------------
LEMMA InitInv == Init => IInv
<1> SUFFICES ASSUME Init PROVE IInv
  OBVIOUS
<1> USE DEF Init, BufferInit
<1>1. TypeOK
  <2>1. <<>> \in Seq(Nat) /\ pipe \in Seq(Entry) /\ Len(pipe) <= PipeCapacity
    BY EmptySeq, PipeAssumption
  <2>2. 0 \in 0..CountLimit - 1
    BY RingAssumption
  <2>3. BufferTypeOK
    BY <2>1 DEF BufferTypeOK
  <2> QED
    BY <2>1, <2>2, <2>3 DEF TypeOK
<1>2. BufferFits
  BY DEF BufferFits
<1>3. \A s \in Sessions : Whole(s) = <<>>
  <2>1. <<>> \o <<>> \o <<>> = <<>>
    BY ConcatEmptySeq, EmptySeq
  <2> QED
    BY <2>1 DEF Whole
<1>4. Len(<<>>) = 0 /\ Elements(<<>>) = {} /\ Increasing(<<>>)
  BY EmptySeq DEF Elements, Increasing
<1>5. \A s \in Sessions : InPipe(s) = {} /\ OnWay(s) = {}
  <2>1. \A j : j \notin 1..Len(pipe)
    BY <1>4
  <2>2. \A s \in Sessions : InPipe(s) = {}
    BY <2>1 DEF InPipe
  <2> QED
    BY <1>3, <1>4, <2>2 DEF OnWay
<1>6. OrderInv
  BY <1>3, <1>4, <1>5 DEF OrderInv
<1>7. BoundInv /\ SpacedInv /\ RingInv
  BY <1>5 DEF BoundInv, SpacedInv, RingInv
<1> QED
  BY <1>1, <1>2, <1>6, <1>7 DEF IInv

\* The sequences of a session are sequences of samples.
LEMMA WholeType ==
  ASSUME TypeOK, NEW s \in Sessions
  PROVE  /\ received[s] \in Seq(Nat) /\ socket[s] \in Seq(Nat) /\ buffer[s] \in Seq(Nat)
         /\ Whole(s) \in Seq(Nat) /\ Elements(Whole(s)) \subseteq Nat
         /\ InPipe(s) \subseteq Nat
<1>1. received[s] \in Seq(Nat) /\ socket[s] \in Seq(Nat) /\ buffer[s] \in Seq(Nat)
  BY DEF TypeOK, BufferTypeOK
<1>2. Whole(s) \in Seq(Nat)
  BY <1>1, ConcatProperties DEF Whole
<1>3. \A i \in 1..Len(Whole(s)) : Whole(s)[i] \in Nat
  BY <1>2, ElementOfSeq
<1>4. \A i \in 1..Len(pipe) : pipe[i] \in Entry
  BY ElementOfSeq DEF TypeOK
<1> QED
  BY <1>1, <1>2, <1>3, <1>4 DEF Elements, InPipe, Entry

\* Steps that take nothing new from the device keep the numeric invariants.
LEMMA NothingNew ==
  ASSUME IInv, UNCHANGED <<taken, samples, readCount, writeCount, current>>,
         reader' = "writing" => reader = "writing" /\ todo' = todo,
         \A s \in Sessions : OnWay(s)' \subseteq OnWay(s)
  PROVE  BoundInv' /\ SpacedInv' /\ RingInv'
<1>1. BoundInv'
  BY DEF IInv, BoundInv
<1>2. SpacedInv'
  BY DEF IInv, SpacedInv
<1>3. RingInv'
  BY DEF IInv, RingInv
<1> QED
  BY <1>1, <1>2, <1>3

\* ... and those that move nothing on the way keep the order.
LEMMA NothingMoved ==
  ASSUME IInv, UNCHANGED <<received, socket, buffer, pipe>>
  PROVE  OrderInv' /\ \A s \in Sessions : OnWay(s)' = OnWay(s)
<1>1. \A s \in Sessions : Whole(s)' = Whole(s) /\ InPipe(s)' = InPipe(s)
  BY DEF Whole, InPipe
<1>2. \A s \in Sessions : Elements(Whole(s))' = Elements(Whole(s)') /\ Increasing(Whole(s))' = Increasing(Whole(s)')
  BY DEF Elements, Increasing
<1> QED
  BY <1>1, <1>2 DEF IInv, OrderInv, OnWay

\* The main thread moves, cuts or leaves alone what a session has, and the
\* pipe stays as it is.
LEMMA PipeUntouched ==
  ASSUME IInv, UNCHANGED pipe, UNCHANGED <<taken, samples, readCount, writeCount, current>>,
         reader' = reader, todo' = todo,
         \A s \in Sessions :
           Whole(s)' = Whole(s) \/ Whole(s)' = received[s] \o socket[s]
  PROVE  OrderInv' /\ BoundInv' /\ SpacedInv' /\ RingInv'
<1>1. \A s \in Sessions : InPipe(s)' = InPipe(s)
  BY DEF InPipe
<1>2. ASSUME NEW s \in Sessions
      PROVE  Increasing(Whole(s)') /\ Elements(Whole(s)') \subseteq Elements(Whole(s))
  <2>1. CASE Whole(s)' = Whole(s)
    BY <2>1 DEF IInv, OrderInv
  <2>2. CASE Whole(s)' = received[s] \o socket[s]
    <3>1. received[s] \o socket[s] \in Seq(Nat) /\ buffer[s] \in Seq(Nat)
      BY WholeType, ConcatProperties DEF IInv
    <3>2. Increasing((received[s] \o socket[s]) \o buffer[s])
      BY DEF IInv, OrderInv, Whole
    <3>3. /\ Increasing(received[s] \o socket[s])
          /\ Elements((received[s] \o socket[s]) \o buffer[s])
               = Elements(received[s] \o socket[s]) \cup Elements(buffer[s])
      BY <3>1, <3>2, IncreasingPrefix
    <3> QED
      BY <2>2, <3>3 DEF Whole
  <2> QED
    BY <2>1, <2>2
<1>3. OrderInv'
  <2>1. \A s \in Sessions :
          Elements(Whole(s))' = Elements(Whole(s)') /\ Increasing(Whole(s))' = Increasing(Whole(s)')
    BY DEF Elements, Increasing
  <2> QED
    BY <1>1, <1>2, <2>1 DEF IInv, OrderInv
<1>4. \A s \in Sessions : OnWay(s)' \subseteq OnWay(s)
  <2>1. \A s \in Sessions : Elements(Whole(s))' = Elements(Whole(s)')
    BY DEF Elements
  <2> QED
    BY <1>1, <1>2, <2>1 DEF OnWay
<1> QED
  BY <1>3, <1>4, NothingNew

-----------------------------------------------------------------------------
(* Types and the buffer, which need nothing of the order. *)

LEMMA BufferUntouched ==
  ASSUME BufferFits, UNCHANGED <<buffer, timer, bufferSize>>
  PROVE  BufferFits'
BY DEF BufferFits

LEMMA BufferEmptied ==
  ASSUME TypeOK, BufferFits, NEW s \in Sessions,
         buffer' = [buffer EXCEPT ![s] = <<>>], timer' = [timer EXCEPT ![s] = FALSE],
         \A t \in Sessions : t # s => bufferSize'[t] = bufferSize[t]
  PROVE  BufferFits'
<1> SUFFICES ASSUME NEW t \in Sessions
             PROVE  /\ buffer'[t] # <<>> => Len(buffer'[t]) < bufferSize'[t]
                    /\ timer'[t] => buffer'[t] # <<>>
  BY DEF BufferFits
<1>1. CASE t = s
  BY <1>1 DEF TypeOK, BufferTypeOK
<1>2. CASE t # s
  BY <1>2 DEF TypeOK, BufferTypeOK, BufferFits
<1> QED
  BY <1>1, <1>2

LEMMA WriteFits ==
  ASSUME TypeOK, BufferFits, NEW s \in Sessions, NEW k \in Nat, write(s, k)
  PROVE  BufferFits'
<1>1. bufferSize' = bufferSize
  BY DEF write
<1>2. CASE writeDropped(s) \/ writeThrough(s, k)
  BY <1>1, <1>2, BufferUntouched DEF writeDropped, writeThrough, dataVars
<1>3. CASE writeFull(s, k)
  BY <1>1, <1>3, BufferEmptied DEF writeFull, delayedWrite
<1>4. CASE writeBuffered(s, k)
  <2> SUFFICES ASSUME NEW t \in Sessions
               PROVE  /\ buffer'[t] # <<>> => Len(buffer'[t]) < bufferSize'[t]
                      /\ timer'[t] => buffer'[t] # <<>>
    BY DEF BufferFits
  <2>1. /\ bufferSize[s] > 1 /\ Len(buffer[s]) + 1 # bufferSize[s]
        /\ buffer' = [buffer EXCEPT ![s] = Append(@, k)]
        /\ timer' = [timer EXCEPT ![s] = @ \/ bufferInterval[s]]
    BY <1>4 DEF writeBuffered
  <2>2. CASE t = s
    <3>1. buffer[s] \in Seq(Nat) /\ buffer'[s] = Append(buffer[s], k)
      BY <2>1 DEF TypeOK, BufferTypeOK
    <3>2. /\ buffer'[s] # <<>> /\ Len(buffer'[s]) = Len(buffer[s]) + 1
          /\ Len(buffer[s]) \in Nat
      <4>1. Append(buffer[s], k) # <<>> /\ Len(Append(buffer[s], k)) = Len(buffer[s]) + 1
        BY <3>1, AppendProperties
      <4> QED
        BY <3>1, <4>1, LenProperties
    <3>3. Len(buffer[s]) < bufferSize[s] /\ bufferSize[s] \in Nat
      <4>1. bufferSize[s] \in Nat
        BY DEF TypeOK, BufferTypeOK
      <4>2. CASE buffer[s] = <<>>
        BY <2>1, <4>1, <4>2, EmptySeq
      <4>3. CASE buffer[s] # <<>>
        BY <4>1, <4>3 DEF BufferFits
      <4> QED
        BY <4>1, <4>2, <4>3
    <3> QED
      BY <1>1, <2>1, <2>2, <3>2, <3>3
  <2>3. CASE t # s
    BY <1>1, <2>1, <2>3 DEF TypeOK, BufferTypeOK, BufferFits
  <2> QED
    BY <2>2, <2>3
<1> QED
  BY <1>2, <1>3, <1>4 DEF write

\* The entry that the main thread takes out of the pipe.
LEMMA HeadOfPipe ==
  ASSUME TypeOK, pipe # <<>>
  PROVE  /\ Head(pipe).id \in Sessions /\ Head(pipe).sample \in Nat
         /\ Head(pipe) = pipe[1] /\ 1 \in 1..Len(pipe) /\ Len(pipe) \in Nat
         /\ Tail(pipe) \in Seq(Entry) /\ Len(Tail(pipe)) = Len(pipe) - 1
         /\ \A i \in 1..Len(Tail(pipe)) : Tail(pipe)[i] = pipe[i + 1] /\ i + 1 \in 1..Len(pipe)
<1>1. pipe \in Seq(Entry)
  BY DEF TypeOK
<1>2. /\ Head(pipe) \in Entry /\ Tail(pipe) \in Seq(Entry)
      /\ Len(Tail(pipe)) = Len(pipe) - 1
      /\ \A i \in 1..Len(Tail(pipe)) : Tail(pipe)[i] = pipe[i + 1]
  BY <1>1, HeadTailProperties
<1>3. Len(pipe) \in Nat \ {0} /\ Head(pipe) = pipe[1]
  BY <1>1, EmptySeq
<1> QED
  BY <1>2, <1>3 DEF Entry

LEMMA BufferStep ==
  ASSUME TypeOK, BufferFits, [Next]_vars
  PROVE  BufferFits'
<1>1. CASE processSample
  BY <1>1, BufferUntouched DEF processSample, sessionVars
<1>2. CASE readerLoop
  BY <1>2, BufferUntouched DEF readerLoop, sessionVars
<1>3. CASE joined
  BY <1>3, BufferUntouched DEF joined, sessionVars
<1>4. CASE sensorDataHandler
  BY <1>4, HeadOfPipe, WriteFits DEF sensorDataHandler
<1>5. ASSUME NEW s \in Sessions, downsampleAndPropagate(s) PROVE BufferFits'
  BY <1>5, BufferUntouched DEF downsampleAndPropagate, sessionVars
<1>6. ASSUME NEW s \in Sessions, start(s) \/ stop(s) PROVE BufferFits'
  BY <1>6, BufferUntouched DEF start, stop, sessionVars
<1>7. ASSUME NEW s \in Sessions, configure(s) PROVE BufferFits'
  <2>1. ASSUME NEW size \in BufferSizes, setBufferSize(s, size) PROVE BufferFits'
    <3>1. CASE connected[s] = "open" /\ size # bufferSize[s]
      BY <2>1, <3>1, BufferEmptied DEF setBufferSize, TypeOK, BufferTypeOK
    <3>2. CASE ~(connected[s] = "open" /\ size # bufferSize[s])
      BY <2>1, <3>2, BufferUntouched DEF setBufferSize
    <3> QED
      BY <3>1, <3>2
  <2>2. ASSUME NEW limited \in BOOLEAN, setBufferInterval(s, limited) PROVE BufferFits'
    BY <2>2, BufferUntouched DEF setBufferInterval
  <2> QED
    BY <1>7, <2>1, <2>2 DEF configure
<1>8. ASSUME NEW s \in Sessions, connectSession(s) PROVE BufferFits'
  BY <1>8, BufferUntouched DEF connectSession, socketReadable, dataVars
<1>9. ASSUME NEW s \in Sessions, releaseSession(s) PROVE BufferFits'
  BY <1>9, BufferEmptied DEF releaseSession, removeSession
<1>10. ASSUME NEW s \in Sessions, flushTimer(s) PROVE BufferFits'
  BY <1>10, BufferEmptied DEF flushTimer, timerTimeout, delayedWrite
<1>11. ASSUME NEW s \in Sessions, dataReceived(s) PROVE BufferFits'
  BY <1>11, BufferUntouched DEF dataReceived
<1>12. CASE UNCHANGED vars
  BY <1>12, BufferUntouched DEF vars, sessionVars
<1> QED
  BY <1>1, <1>2, <1>3, <1>4, <1>5, <1>6, <1>7, <1>8, <1>9, <1>10, <1>11, <1>12 DEF Next

-----------------------------------------------------------------------------
LEMMA ModRange ==
  ASSUME NEW x \in Nat, NEW n \in Nat \ {0}
  PROVE  x % n \in 0..n - 1
OBVIOUS

\* The ring hands on the sample that was written into it.
LEMMA RingStep ==
  ASSUME TypeOK, RingInv, NEW k \in Nat, ringWrite(k)
  PROVE  /\ ring' \in [0..RingSize - 1 -> Nat] /\ writeCount' \in 0..CountLimit - 1
         /\ readCount' = writeCount' /\ current' = k
<1>1. writeCount \in Nat /\ writeCount + 1 \in Nat /\ readCount = writeCount
  BY RingAssumption DEF TypeOK, RingInv
<1>2. writeCount % RingSize \in 0..RingSize - 1
  BY <1>1, RingAssumption, ModRange
<1>3. (writeCount + 1) % CountLimit \in 0..CountLimit - 1
  BY <1>1, RingAssumption, ModRange
<1>4. /\ ring' = [ring EXCEPT ![writeCount % RingSize] = k]
      /\ current' = ring'[readCount % RingSize]
      /\ writeCount' = (writeCount + 1) % CountLimit /\ readCount' = writeCount'
  BY DEF ringWrite
<1> HIDE DEF ringWrite
<1>5. ring' \in [0..RingSize - 1 -> Nat] /\ current' = k
  BY <1>1, <1>2, <1>4 DEF TypeOK
<1> QED
  BY <1>3, <1>4, <1>5

\* What a step of the main thread on the session's buffer keeps.
LEMMA WriteTypes ==
  ASSUME BufferTypeOK, NEW s \in Sessions, NEW k \in Nat, write(s, k)
  PROVE  BufferTypeOK'
<1>1. buffer[s] \in Seq(Nat) /\ socket[s] \in Seq(Nat)
  BY DEF BufferTypeOK
<1>2. /\ Append(buffer[s], k) \in Seq(Nat) /\ Append(socket[s], k) \in Seq(Nat)
      /\ socket[s] \o Append(buffer[s], k) \in Seq(Nat) /\ <<>> \in Seq(Nat)
  <2>1. Append(buffer[s], k) \in Seq(Nat) /\ Append(socket[s], k) \in Seq(Nat)
    BY <1>1, AppendProperties
  <2> QED
    BY <1>1, <2>1, ConcatProperties, EmptySeq
<1>3. UNCHANGED <<connected, bufferSize, bufferInterval>>
  BY DEF write
<1>4. CASE writeDropped(s)
  BY <1>3, <1>4 DEF writeDropped, dataVars, BufferTypeOK
<1>5. CASE writeThrough(s, k)
  BY <1>2, <1>3, <1>5 DEF writeThrough, BufferTypeOK
<1>6. CASE writeFull(s, k)
  BY <1>2, <1>3, <1>6 DEF writeFull, delayedWrite, BufferTypeOK
<1>7. CASE writeBuffered(s, k)
  BY <1>2, <1>3, <1>7 DEF writeBuffered, BufferTypeOK
<1> QED
  BY <1>4, <1>5, <1>6, <1>7 DEF write

\* The samples that are kept are among those there were.
LEMMA KeptSamples ==
  ASSUME NEW kept, NEW aged, NEW ratio
  PROVE  NotErased(kept, aged, ratio) \subseteq kept
BY DEF NotErased

LEMMA TypeStep ==
  ASSUME TypeOK, RingInv, [Next]_vars
  PROVE  TypeOK'
<1> USE DEF TypeOK
<1>1. CASE processSample
  <2>1. taken + 1 \in Nat /\ ringWrite(taken + 1)
    BY <1>1 DEF processSample
  <2>2. /\ ring' \in [0..RingSize - 1 -> Nat] /\ writeCount' \in 0..CountLimit - 1
        /\ readCount' \in 0..CountLimit - 1 /\ current' \in Nat
    BY <2>1, RingStep
  <2> QED
    BY <1>1, <2>2 DEF processSample, mainVars, sessionVars, BufferTypeOK
<1>2. CASE readerLoop
  BY <1>2 DEF readerLoop, mainVars, sessionVars, BufferTypeOK
<1>3. CASE joined
  BY <1>3 DEF joined, readerVars, sessionVars, BufferTypeOK
<1>4. CASE sensorDataHandler
  <2>1. BufferTypeOK'
    BY <1>4, HeadOfPipe, WriteTypes DEF sensorDataHandler
  <2>2. pipe' \in Seq(Entry) /\ Len(pipe') <= PipeCapacity
    BY <1>4, HeadOfPipe, PipeAssumption DEF sensorDataHandler
  <2> QED
    BY <1>4, <2>1, <2>2 DEF sensorDataHandler, readerVars, mainVars
<1>5. ASSUME NEW s \in Sessions, downsampleAndPropagate(s) PROVE TypeOK'
  <2>1. PICK aged \in 0..Cardinality(samples[s]) :
          propagate(s, NotErased(samples[s] \cup {current}, aged, Ratio[s]))
    BY <1>5 DEF downsampleAndPropagate
  <2> DEFINE kept == NotErased(samples[s] \cup {current}, aged, Ratio[s])
  <2>2. kept \in SUBSET Nat
    BY KeptSamples
  <2>3. [id |-> s, sample |-> current] \in Entry
    BY DEF Entry
  <2>4. /\ Append(pipe, [id |-> s, sample |-> current]) \in Seq(Entry)
        /\ Len(Append(pipe, [id |-> s, sample |-> current])) = Len(pipe) + 1
        /\ Len(pipe) \in Nat
    BY <2>3, AppendProperties, LenProperties
  <2>5. propagate(s, kept)
    BY <2>1
  <2> HIDE DEF kept
  <2>6. /\ samples' \in [Sessions -> SUBSET Nat] /\ changes' \in Nat
        /\ pipe' \in Seq(Entry) /\ Len(pipe') <= PipeCapacity
    <3>1. CASE /\ samples' = [samples EXCEPT ![s] = kept]
               /\ UNCHANGED pipe /\ changes' \in {changes, changes + 1}
      BY <2>2, <3>1
    <3>2. CASE /\ pipe' = Append(pipe, [id |-> s, sample |-> current])
               /\ Len(pipe) < PipeCapacity
               /\ samples' = [samples EXCEPT ![s] = {}] /\ UNCHANGED changes
      BY <2>4, <3>2, PipeAssumption
    <3> QED
      BY <2>5, <3>1, <3>2 DEF propagate
  <2> QED
    BY <1>5, <2>6 DEF downsampleAndPropagate, mainVars, sessionVars, BufferTypeOK
<1>6. ASSUME NEW s \in Sessions, start(s) PROVE TypeOK'
  <2>1. reader' \in {"off", "waiting", "writing"} /\ running' \in BOOLEAN
    BY <1>6 DEF start
  <2>2. active' \subseteq Sessions /\ starts' \in Nat
    BY <1>6 DEF start
  <2>3. BufferTypeOK'
    BY <1>6 DEF start, sessionVars, BufferTypeOK
  <2> QED
    BY <1>6, <2>1, <2>2, <2>3 DEF start
<1>7. ASSUME NEW s \in Sessions, stop(s) PROVE TypeOK'
  BY <1>7 DEF stop, sessionVars, readerVars, BufferTypeOK
<1>8. ASSUME NEW s \in Sessions, configure(s) PROVE TypeOK'
  <2>1. BufferTypeOK'
    <3>1. ASSUME NEW size \in BufferSizes, setBufferSize(s, size) PROVE BufferTypeOK'
      <4>1. size \in Nat /\ <<>> \in Seq(Nat)
        BY BufferSizesAssumption, EmptySeq
      <4>2. CASE connected[s] = "open" /\ size # bufferSize[s]
        <5> DEFINE new == IF size < 1 THEN 1 ELSE size
        <5>1. bufferSize' = [bufferSize EXCEPT ![s] = new] /\ new \in Nat
          BY <3>1, <4>1, <4>2 DEF setBufferSize
        <5> HIDE DEF new
        <5> QED
          BY <3>1, <4>1, <4>2, <5>1 DEF setBufferSize, BufferTypeOK
      <4>3. CASE ~(connected[s] = "open" /\ size # bufferSize[s])
        BY <3>1, <4>3 DEF setBufferSize, BufferTypeOK
      <4> QED
        BY <4>2, <4>3
    <3>2. ASSUME NEW limited \in BOOLEAN, setBufferInterval(s, limited) PROVE BufferTypeOK'
      BY <3>2 DEF setBufferInterval, BufferTypeOK
    <3> QED
      BY <1>8, <3>1, <3>2 DEF configure
  <2> QED
    BY <1>8, <2>1 DEF configure, readerVars, mainVars
<1>9. ASSUME NEW s \in Sessions, connectSession(s) PROVE TypeOK'
  BY <1>9 DEF connectSession, socketReadable, dataVars, BufferTypeOK, readerVars, mainVars
<1>10. ASSUME NEW s \in Sessions, releaseSession(s) PROVE TypeOK'
  BY <1>10, EmptySeq DEF releaseSession, removeSession, BufferTypeOK, readerVars, mainVars
<1>11. ASSUME NEW s \in Sessions, flushTimer(s) PROVE TypeOK'
  <2>1. socket[s] \o buffer[s] \in Seq(Nat) /\ <<>> \in Seq(Nat)
    BY WholeType, ConcatProperties, EmptySeq
  <2> QED
    BY <1>11, <2>1 DEF flushTimer, timerTimeout, delayedWrite, BufferTypeOK, readerVars, mainVars
<1>12. ASSUME NEW s \in Sessions, dataReceived(s) PROVE TypeOK'
  <2>1. received[s] \o socket[s] \in Seq(Nat) /\ <<>> \in Seq(Nat)
    BY WholeType, ConcatProperties, EmptySeq
  <2> QED
    BY <1>12, <2>1 DEF dataReceived, BufferTypeOK, readerVars, mainVars
<1>13. CASE UNCHANGED vars
  BY <1>13 DEF vars, sessionVars, readerVars, mainVars, BufferTypeOK
<1> QED
  BY <1>1, <1>2, <1>3, <1>4, <1>5, <1>6, <1>7, <1>8, <1>9, <1>10, <1>11, <1>12, <1>13 DEF Next

-----------------------------------------------------------------------------
(* Order and distance. *)

\* What a write appends to a session's sequence: the sample, or nothing when
\* the session has no socket.
LEMMA WriteAppends ==
  ASSUME TypeOK, BufferFits, NEW s \in Sessions, NEW k \in Nat, write(s, k),
         received' = received
  PROVE  /\ \A t \in Sessions : t # s => Whole(t)' = Whole(t)
         /\ Whole(s)' = Whole(s) \/ Whole(s)' = Append(Whole(s), k)
         /\ connected[s] = "open" => Whole(s)' = Append(Whole(s), k)
<1>0. PICK r \in Seq(Nat), q \in Seq(Nat), b \in Seq(Nat) :
        r = received[s] /\ q = socket[s] /\ b = buffer[s]
  BY WholeType
<1>1. Whole(s) = (r \o q) \o b
  BY <1>0 DEF Whole
<1>2. Whole(s)' = (r \o socket'[s]) \o buffer'[s]
  BY <1>0 DEF Whole
<1>7. (r \o q) \o Append(b, k) = Append((r \o q) \o b, k)
  BY Regroup
<1>8. (r \o Append(q, k)) \o <<>> = Append((r \o q) \o <<>>, k)
  BY Regroup
<1>9. (r \o (q \o Append(b, k))) \o <<>> = Append((r \o q) \o b, k)
  <2>1. PICK c \in Seq(Nat) : c = Append(b, k)
    BY AppendProperties
  <2>2. (r \o (q \o c)) \o <<>> = (r \o q) \o c
    <3>1. r \o (q \o c) = (r \o q) \o c
      BY Associative
    <3>2. PICK x \in Seq(Nat) : x = (r \o q) \o c
      BY ConcatProperties
    <3>3. x \o <<>> = x
      BY ConcatEmptySeq
    <3> QED
      BY <3>1, <3>2, <3>3
  <2> QED
    BY <1>7, <2>1, <2>2
<1>3. CASE writeDropped(s)
  BY <1>3 DEF writeDropped, dataVars, Whole
<1>4. CASE writeThrough(s, k)
  <2>1. b = <<>>
    <3>1. Len(b) \in Nat
      BY LenProperties
    <3>2. Len(b) # 0 \/ b = <<>>
      BY EmptySeq
    <3>3. bufferSize[s] <= 1 /\ bufferSize[s] \in Nat
      BY <1>4 DEF writeThrough, TypeOK, BufferTypeOK
    <3> QED
      BY <1>0, <3>1, <3>2, <3>3 DEF BufferFits
  <2>2. socket' = [socket EXCEPT ![s] = Append(q, k)] /\ buffer' = buffer
    BY <1>0, <1>4 DEF writeThrough
  <2>3. Whole(s)' = (r \o Append(q, k)) \o <<>>
    <3>1. socket'[s] = Append(q, k) /\ buffer'[s] = <<>>
      BY <1>0, <2>1, <2>2 DEF TypeOK, BufferTypeOK
    <3> QED
      BY <1>2, <3>1
  <2>4. Whole(s)' = Append(Whole(s), k)
    BY <1>1, <1>8, <2>1, <2>3
  <2>5. \A t \in Sessions : t # s => Whole(t)' = Whole(t)
    BY <2>2 DEF Whole, TypeOK, BufferTypeOK
  <2> QED
    BY <2>4, <2>5
<1>5. CASE writeFull(s, k)
  <2>1. /\ socket' = [socket EXCEPT ![s] = q \o Append(b, k)]
        /\ buffer' = [buffer EXCEPT ![s] = <<>>]
    BY <1>0, <1>5 DEF writeFull, delayedWrite
  <2>2. Whole(s)' = (r \o (q \o Append(b, k))) \o <<>>
    BY <1>2, <2>1 DEF TypeOK, BufferTypeOK
  <2>3. Whole(s)' = Append(Whole(s), k)
    BY <1>1, <1>9, <2>2
  <2>4. \A t \in Sessions : t # s => Whole(t)' = Whole(t)
    BY <2>1 DEF Whole, TypeOK, BufferTypeOK
  <2> QED
    BY <2>3, <2>4
<1>6. CASE writeBuffered(s, k)
  <2>1. socket' = socket /\ buffer' = [buffer EXCEPT ![s] = Append(b, k)]
    BY <1>0, <1>6 DEF writeBuffered
  <2>2. Whole(s)' = (r \o q) \o Append(b, k)
    <3>1. socket'[s] = q /\ buffer'[s] = Append(b, k)
      BY <1>0, <2>1 DEF TypeOK, BufferTypeOK
    <3> QED
      BY <1>2, <3>1
  <2>3. Whole(s)' = Append(Whole(s), k)
    BY <1>1, <1>7, <2>2
  <2>4. \A t \in Sessions : t # s => Whole(t)' = Whole(t)
    BY <2>1 DEF Whole, TypeOK, BufferTypeOK
  <2> QED
    BY <2>3, <2>4
<1> QED
  BY <1>3, <1>4, <1>5, <1>6 DEF write

\* Primed, the sets of a sequence are the sets of the primed sequence.
LEMMA PrimedSets ==
  \A s : /\ Elements(Whole(s))' = Elements(Whole(s)')
         /\ Increasing(Whole(s))' = Increasing(Whole(s)')
BY DEF Elements, Increasing

LEMMA HandlerStep ==
  ASSUME IInv, sensorDataHandler
  PROVE  OrderInv' /\ BoundInv' /\ SpacedInv' /\ RingInv'
<1>1. TypeOK /\ BufferFits
  BY DEF IInv
<1>2. pipe # <<>> /\ pipe' = Tail(pipe) /\ UNCHANGED <<readerVars, mainVars, received, changes>>
  BY DEF sensorDataHandler
<1>0. PICK s \in Sessions, k \in Nat :
        s = Head(pipe).id /\ k = Head(pipe).sample /\ write(s, k)
  BY <1>1, <1>2, HeadOfPipe DEF sensorDataHandler
<1>3. /\ 1 \in 1..Len(pipe) /\ Len(pipe) \in Nat
      /\ s = pipe[1].id /\ k = pipe[1].sample
      /\ Len(pipe') = Len(pipe) - 1
      /\ \A i \in 1..Len(pipe') : pipe'[i] = pipe[i + 1] /\ i + 1 \in 1..Len(pipe)
  BY <1>0, <1>1, <1>2, HeadOfPipe
<1>4. /\ \A t \in Sessions : t # s => Whole(t)' = Whole(t)
      /\ Whole(s)' = Whole(s) \/ Whole(s)' = Append(Whole(s), k)
  BY <1>0, <1>1, <1>2, WriteAppends
\* The pipe keeps what is behind its first entry, all newer for its session.
<1>5. ASSUME NEW t \in Sessions
      PROVE  /\ InPipe(t)' \subseteq InPipe(t)
             /\ t = s => k \in InPipe(t) /\ \A p \in InPipe(t)' : k < p
  <2>1. InPipe(t)' = {pipe'[i].sample : i \in {j \in 1..Len(pipe') : pipe'[j].id = t}}
    BY DEF InPipe
  <2>2. InPipe(t)' \subseteq InPipe(t)
    BY <1>3, <2>1 DEF InPipe
  <2>3. t = s => k \in InPipe(t)
    BY <1>3 DEF InPipe
  <2>4. ASSUME t = s, NEW j \in 1..Len(pipe'), pipe'[j].id = t PROVE k < pipe'[j].sample
    <3>1. 1 < j + 1 /\ j + 1 \in 1..Len(pipe) /\ pipe'[j] = pipe[j + 1]
      BY <1>3
    <3> QED
      BY <1>3, <2>4, <3>1 DEF IInv, OrderInv
  <2> QED
    BY <2>1, <2>2, <2>3, <2>4
<1>6. ASSUME NEW t \in Sessions
      PROVE  /\ Increasing(Whole(t)')
             /\ \A x \in Elements(Whole(t)'), p \in InPipe(t)' : x < p
             /\ Elements(Whole(t)') \cup InPipe(t)' \subseteq OnWay(t)
  <2>1. CASE Whole(t)' = Whole(t)
    BY <1>5, <2>1 DEF IInv, OrderInv, OnWay
  <2>2. CASE t = s /\ Whole(t)' = Append(Whole(t), k)
    <3>1. Whole(t) \in Seq(Nat) /\ Increasing(Whole(t)) /\ \A x \in Elements(Whole(t)) : x < k
      BY <1>1, <1>5, <2>2, WholeType DEF IInv, OrderInv
    <3>2. /\ Increasing(Append(Whole(t), k))
          /\ Elements(Append(Whole(t), k)) = Elements(Whole(t)) \cup {k}
      BY <1>3, <3>1, IncreasingAppend
    <3> QED
      BY <1>5, <2>2, <3>2 DEF IInv, OrderInv, OnWay
  <2> QED
    BY <1>4, <2>1, <2>2
<1>7. OrderInv'
  <2>1. ASSUME NEW i \in 1..Len(pipe'), NEW j \in 1..Len(pipe'), i < j,
               pipe'[i].id = pipe'[j].id
        PROVE  pipe'[i].sample < pipe'[j].sample
    <3>1. i + 1 < j + 1
      BY <1>3, <2>1
    <3> QED
      BY <1>3, <2>1, <3>1 DEF IInv, OrderInv
  <2> QED
    BY <1>6, <2>1, PrimedSets DEF OrderInv
<1>8. \A t \in Sessions : OnWay(t)' \subseteq OnWay(t)
  BY <1>6, PrimedSets DEF OnWay
<1> QED
  BY <1>2, <1>7, <1>8, NothingNew DEF readerVars

\* The reader thread propagates the sample to session s.
LEMMA PropagateStep ==
  ASSUME IInv, NEW s \in Sessions, downsampleAndPropagate(s)
  PROVE  OrderInv' /\ BoundInv' /\ SpacedInv' /\ RingInv'
<1>1. PICK aged \in 0..Cardinality(samples[s]) :
        propagate(s, NotErased(samples[s] \cup {current}, aged, Ratio[s]))
  BY DEF downsampleAndPropagate
<1> DEFINE kept == NotErased(samples[s] \cup {current}, aged, Ratio[s])
<1>2. kept \subseteq samples[s] \cup {current} /\ propagate(s, kept)
  BY <1>1, KeptSamples
<1> HIDE DEF kept
<1>3. /\ reader = "writing" /\ s \in todo /\ todo' = todo \ {s} /\ reader' = reader
      /\ UNCHANGED <<taken, ring, writeCount, readCount, current>>
      /\ UNCHANGED <<received, socket, buffer>>
  BY DEF downsampleAndPropagate, sessionVars
<1>4. current = taken /\ taken \in Nat /\ TypeOK
  BY <1>3 DEF IInv, RingInv, TypeOK
<1>5. \A t \in Sessions : Whole(t)' = Whole(t)
  BY <1>3 DEF Whole
\* All that is on the way is older than what was kept.
<1>6. \A a \in OnWay(s) : a \in Nat /\ a < taken /\ \A x \in kept : a < x /\ x <= taken
  BY <1>2, <1>3, <1>4, WholeType DEF IInv, BoundInv, SpacedInv, OnWay
<1>7. kept \subseteq 0..taken
  BY <1>2, <1>4 DEF IInv, SpacedInv
<1>8. RingInv'
  BY <1>3 DEF IInv, RingInv
<1>9. CASE samples' = [samples EXCEPT ![s] = kept] /\ UNCHANGED pipe
  <2>1. OrderInv' /\ \A t \in Sessions : OnWay(t)' = OnWay(t)
    BY <1>3, <1>9, NothingMoved
  <2>2. BoundInv'
    BY <1>3, <2>1 DEF IInv, BoundInv
  <2>3. SpacedInv'
    BY <1>3, <1>4, <1>6, <1>7, <1>9, <2>1 DEF IInv, SpacedInv, TypeOK
  <2> QED
    BY <1>8, <2>1, <2>2, <2>3
<1>10. CASE /\ Cardinality(kept) >= Ratio[s]
            /\ pipe' = Append(pipe, [id |-> s, sample |-> current])
            /\ samples' = [samples EXCEPT ![s] = {}]
  <2> DEFINE e == [id |-> s, sample |-> current]
  <2>1. /\ Len(pipe) \in Nat /\ Len(pipe') = Len(pipe) + 1 /\ pipe'[Len(pipe) + 1] = e
        /\ \A i \in 1..Len(pipe) : pipe'[i] = pipe[i]
        /\ e.id = s /\ e.sample = current
    <3>1. e \in Entry /\ pipe \in Seq(Entry)
      BY <1>4 DEF Entry, TypeOK
    <3>2. /\ Len(Append(pipe, e)) = Len(pipe) + 1 /\ Append(pipe, e)[Len(pipe) + 1] = e
          /\ \A i \in 1..Len(pipe) : Append(pipe, e)[i] = pipe[i]
      BY <3>1, AppendProperties
    <3>3. Len(pipe) \in Nat
      BY <3>1, LenProperties
    <3> QED
      BY <1>10, <3>2, <3>3
  <2> HIDE DEF e
  <2>2. /\ InPipe(s)' = InPipe(s) \cup {current}
        /\ \A t \in Sessions : t # s => InPipe(t)' = InPipe(t)
    <3>1. \A i : i \in 1..Len(pipe') <=> i \in 1..Len(pipe) \/ i = Len(pipe) + 1
      BY <2>1
    <3>2. ASSUME NEW t \in Sessions
          PROVE  InPipe(t)' = {pipe'[i].sample : i \in {j \in 1..Len(pipe') : pipe'[j].id = t}}
      BY DEF InPipe
    <3> QED
      BY <2>1, <3>1, <3>2 DEF InPipe
  <2>3. /\ OnWay(s)' = OnWay(s) \cup {current}
        /\ \A t \in Sessions : t # s => OnWay(t)' = OnWay(t)
    BY <1>5, <2>2, PrimedSets DEF OnWay
  <2>4. OrderInv'
    <3>1. ASSUME NEW i \in 1..Len(pipe'), NEW j \in 1..Len(pipe'), i < j,
                 pipe'[i].id = pipe'[j].id
          PROVE  pipe'[i].sample < pipe'[j].sample
      <4>1. i \in 1..Len(pipe) /\ pipe'[i] = pipe[i]
        BY <2>1, <3>1
      <4>2. CASE j = Len(pipe) + 1
        <5>1. pipe[i].sample \in OnWay(s)
          BY <2>1, <3>1, <4>1, <4>2 DEF OnWay, InPipe
        <5> QED
          BY <1>4, <1>6, <2>1, <4>1, <4>2, <5>1
      <4>3. CASE j # Len(pipe) + 1
        <5>1. j \in 1..Len(pipe) /\ pipe'[j] = pipe[j]
          BY <2>1, <4>3
        <5> QED
          BY <3>1, <4>1, <5>1 DEF IInv, OrderInv
      <4> QED
        BY <4>2, <4>3
    <3>2. ASSUME NEW t \in Sessions
          PROVE  /\ Increasing(Whole(t)')
                 /\ \A x \in Elements(Whole(t)'), p \in InPipe(t)' : x < p
      BY <1>4, <1>5, <1>6, <2>2 DEF IInv, OrderInv, OnWay
    <3> QED
      BY <3>1, <3>2, PrimedSets DEF OrderInv
  <2>5. BoundInv'
    BY <1>3, <1>4, <2>3 DEF IInv, BoundInv
  <2>6. \A a \in OnWay(s) : taken - a >= Ratio[s]
    <3> SUFFICES ASSUME NEW a \in OnWay(s) PROVE taken - a >= Ratio[s]
      OBVIOUS
    <3>1. a \in Nat /\ a < taken /\ kept \in SUBSET (a + 1..taken)
      BY <1>4, <1>6, <1>7
    <3>2. IsFiniteSet(a + 1..taken) /\ Cardinality(a + 1..taken) = taken - a
      <4> DEFINE c == a + 1
      <4>1. c \in Int /\ taken \in Int /\ ~(c > taken) /\ taken - c + 1 = taken - a
        BY <1>4, <3>1
      <4>2. \A x \in Int : IsFiniteSet(x..taken)
                            /\ Cardinality(x..taken) = IF x > taken THEN 0 ELSE taken - x + 1
        BY <4>1, FS_Interval
      <4> HIDE DEF c
      <4>3. IsFiniteSet(c..taken) /\ Cardinality(c..taken) = taken - a
        BY <4>1, <4>2
      <4> QED
        BY <4>3 DEF c
    <3>3. Cardinality(kept) <= taken - a /\ Cardinality(kept) \in Nat
      BY <3>1, <3>2, FS_Subset, FS_CardinalityType
    <3> QED
      BY <1>4, <1>10, <3>1, <3>3, RatioAssumption
  <2>7. SpacedInv'
    <3>1. ASSUME NEW t \in Sessions, t # s
          PROVE  /\ \A a, b \in OnWay(t)' : a < b => b - a >= Ratio[t]
                 /\ samples'[t] \subseteq 0..taken'
                 /\ \A a \in OnWay(t)', x \in samples'[t] : a < x
      BY <1>3, <1>10, <2>3, <3>1 DEF IInv, SpacedInv, TypeOK
    <3>2. /\ samples'[s] = {}
          /\ \A a, b \in OnWay(s)' : a < b => b - a >= Ratio[s]
      <4>1. samples'[s] = {}
        BY <1>4, <1>10 DEF TypeOK
      <4>2. \A a, b \in OnWay(s) : a < b => b - a >= Ratio[s]
        BY DEF IInv, SpacedInv
      <4> QED
        BY <1>4, <1>6, <2>3, <2>6, <4>1, <4>2
    <3> QED
      BY <3>1, <3>2 DEF SpacedInv
  <2> QED
    BY <1>8, <2>4, <2>5, <2>7
<1> QED
  BY <1>2, <1>9, <1>10 DEF propagate

-----------------------------------------------------------------------------
(* The actions that only move, cut or leave alone what a session has. *)

\* Everything buffered goes into the socket: the sequence stays.
LEMMA FlushKeeps ==
  ASSUME TypeOK, NEW s \in Sessions, delayedWrite(s, buffer[s]), received' = received
  PROVE  \A t \in Sessions : Whole(t)' = Whole(t)
<1>0. PICK r \in Seq(Nat), q \in Seq(Nat), b \in Seq(Nat) :
        r = received[s] /\ q = socket[s] /\ b = buffer[s]
  BY WholeType
<1>1. socket'[s] = q \o b /\ buffer'[s] = <<>>
  BY <1>0 DEF delayedWrite, TypeOK, BufferTypeOK
<1>2. Whole(s)' = (r \o (q \o b)) \o <<>>
  BY <1>0, <1>1 DEF Whole
<1>3. r \o (q \o b) = (r \o q) \o b
  BY Associative
<1>4. PICK x \in Seq(Nat) : x = (r \o q) \o b
  BY ConcatProperties
<1>5. x \o <<>> = x
  BY ConcatEmptySeq
<1>6. Whole(s)' = Whole(s)
  BY <1>0, <1>2, <1>3, <1>4, <1>5 DEF Whole
<1>7. \A t \in Sessions : t # s => Whole(t)' = Whole(t)
  BY DEF delayedWrite, Whole, TypeOK, BufferTypeOK
<1> QED
  BY <1>6, <1>7

\* The client reads its socket: the sequence stays.
LEMMA ReadKeeps ==
  ASSUME TypeOK, NEW s \in Sessions, dataReceived(s)
  PROVE  \A t \in Sessions : Whole(t)' = Whole(t)
<1>0. PICK r \in Seq(Nat), q \in Seq(Nat), b \in Seq(Nat) :
        r = received[s] /\ q = socket[s] /\ b = buffer[s]
  BY WholeType
<1>1. received'[s] = r \o q /\ socket'[s] = <<>> /\ buffer'[s] = b
  BY <1>0 DEF dataReceived, TypeOK, BufferTypeOK
<1>2. Whole(s)' = ((r \o q) \o <<>>) \o b
  BY <1>1 DEF Whole
<1>3. PICK x \in Seq(Nat) : x = r \o q
  BY ConcatProperties
<1>4. x \o <<>> = x
  BY ConcatEmptySeq
<1>5. Whole(s)' = Whole(s)
  BY <1>0, <1>2, <1>3, <1>4 DEF Whole
<1>6. \A t \in Sessions : t # s => Whole(t)' = Whole(t)
  BY DEF dataReceived, Whole, TypeOK, BufferTypeOK
<1> QED
  BY <1>5, <1>6

\* The buffer is discarded: what has been written before stays.
LEMMA DiscardCuts ==
  ASSUME TypeOK, NEW s \in Sessions, buffer' = [buffer EXCEPT ![s] = <<>>],
         UNCHANGED <<socket, received>>
  PROVE  \A t \in Sessions : Whole(t)' = Whole(t) \/ Whole(t)' = received[t] \o socket[t]
<1>0. PICK x \in Seq(Nat) : x = received[s] \o socket[s]
  BY WholeType, ConcatProperties
<1>1. Whole(s)' = x \o <<>>
  BY <1>0 DEF Whole, TypeOK, BufferTypeOK
<1>2. x \o <<>> = x
  BY ConcatEmptySeq
<1>3. \A t \in Sessions : t # s => Whole(t)' = Whole(t)
  BY DEF Whole, TypeOK, BufferTypeOK
<1> QED
  BY <1>0, <1>1, <1>2, <1>3

\* The reader thread takes a sample, newer than all before.
LEMMA SampleStep ==
  ASSUME IInv, processSample
  PROVE  OrderInv' /\ BoundInv' /\ SpacedInv' /\ RingInv'
<1>1. /\ taken \in Nat /\ taken' = taken + 1 /\ reader = "waiting"
      /\ UNCHANGED <<received, socket, buffer, pipe, samples>>
  BY DEF processSample, sessionVars, IInv, TypeOK
<1>2. OrderInv' /\ \A s \in Sessions : OnWay(s)' = OnWay(s)
  BY <1>1, NothingMoved
<1>3. \A s \in Sessions : OnWay(s) \subseteq 0..taken
  <2>1. \A s \in Sessions : OnWay(s) \subseteq Nat
    BY WholeType DEF IInv, OnWay
  <2> QED
    BY <1>1, <2>1 DEF IInv, BoundInv
<1>4. BoundInv'
  BY <1>1, <1>2, <1>3 DEF BoundInv
<1>5. SpacedInv'
  BY <1>1, <1>2 DEF IInv, SpacedInv
<1>6. readCount' = writeCount' /\ current' = taken'
  BY <1>1, RingStep DEF processSample, IInv, RingInv
<1> QED
  BY <1>2, <1>4, <1>5, <1>6 DEF RingInv

\* Steps of the reader's loop and of starting, stopping and connecting.
LEMMA ControlStep ==
  ASSUME IInv, readerLoop \/ joined \/ \E s \in Sessions : start(s) \/ stop(s) \/ connectSession(s)
  PROVE  OrderInv' /\ BoundInv' /\ SpacedInv' /\ RingInv'
<1>1. /\ UNCHANGED <<received, socket, buffer, pipe>>
      /\ UNCHANGED <<taken, samples, readCount, writeCount, current, todo>>
      /\ reader' = "writing" => reader = "writing"
  BY DEF readerLoop, joined, start, stop, connectSession, socketReadable,
         sessionVars, readerVars, dataVars
<1> QED
  BY <1>1, NothingMoved, NothingNew

\* Steps that change only what is kept for one session.
LEMMA SessionStep ==
  ASSUME IInv, NEW s \in Sessions,
         releaseSession(s) \/ flushTimer(s) \/ configure(s) \/ dataReceived(s)
  PROVE  OrderInv' /\ BoundInv' /\ SpacedInv' /\ RingInv'
<1>1. UNCHANGED pipe /\ UNCHANGED readerVars /\ TypeOK
  BY DEF releaseSession, flushTimer, configure, dataReceived, IInv
<1> SUFFICES \A t \in Sessions : Whole(t)' = Whole(t) \/ Whole(t)' = received[t] \o socket[t]
  BY <1>1, PipeUntouched DEF readerVars
<1>2. CASE releaseSession(s)
  BY <1>1, <1>2, DiscardCuts DEF releaseSession, removeSession
<1>3. CASE flushTimer(s)
  BY <1>1, <1>3, FlushKeeps DEF flushTimer, timerTimeout
<1>4. CASE configure(s)
  <2>1. CASE UNCHANGED <<buffer, socket, received>>
    BY <2>1 DEF Whole
  <2>2. CASE buffer' = [buffer EXCEPT ![s] = <<>>] /\ UNCHANGED <<socket, received>>
    BY <1>1, <2>2, DiscardCuts
  <2> QED
    BY <1>4, <2>1, <2>2 DEF configure, setBufferSize, setBufferInterval
<1>5. CASE dataReceived(s)
  BY <1>1, <1>5, ReadKeeps
<1> QED
  BY <1>2, <1>3, <1>4, <1>5

LEMMA NextInv == IInv /\ [Next]_vars => IInv'
<1> SUFFICES ASSUME IInv, [Next]_vars PROVE IInv'
  OBVIOUS
<1>1. TypeOK' /\ BufferFits'
  BY TypeStep, BufferStep DEF IInv
<1>2. OrderInv' /\ BoundInv' /\ SpacedInv' /\ RingInv'
  <2>1. CASE processSample
    BY <2>1, SampleStep
  <2>2. CASE sensorDataHandler
    BY <2>2, HandlerStep
  <2>3. CASE \E s \in Sessions : downsampleAndPropagate(s)
    BY <2>3, PropagateStep
  <2>4. CASE readerLoop \/ joined \/ \E s \in Sessions : start(s) \/ stop(s) \/ connectSession(s)
    BY <2>4, ControlStep
  <2>5. CASE \E s \in Sessions :
               releaseSession(s) \/ flushTimer(s) \/ configure(s) \/ dataReceived(s)
    BY <2>5, SessionStep
  <2>6. CASE UNCHANGED vars
    BY <2>6, NothingMoved, NothingNew DEF vars, sessionVars, readerVars
  <2> QED
    BY <2>1, <2>2, <2>3, <2>4, <2>5, <2>6 DEF Next
<1> QED
  BY <1>1, <1>2 DEF IInv

-----------------------------------------------------------------------------
\* Order, distance and fit together are an inductive invariant of the stream.
THEOREM StreamInvariant == Spec => []IInv
<1>1. Init => IInv
  BY InitInv
<1>2. IInv /\ [Next]_vars => IInv'
  BY NextInv
<1> QED
  BY <1>1, <1>2, PTL DEF Spec

\* The variables keep their types, the pipe its capacity.
THEOREM StreamTypeCorrect == Spec => []TypeOK
<1>1. IInv => TypeOK
  BY DEF IInv
<1> QED
  BY <1>1, StreamInvariant, PTL

\* SocketHandler::write() never overruns m_buffer, whatever setBufferSize() was
\* called with and when, and the flush timer never runs for an empty buffer.
THEOREM BufferAlwaysFits == Spec => []BufferFits
<1>1. IInv => BufferFits
  BY DEF IInv
<1> QED
  BY <1>1, StreamInvariant, PTL

\* Every client gets its samples in the order of the device and none twice.
THEOREM SamplesInOrder == Spec => []InOrder
<1>1. IInv => InOrder
  <2> SUFFICES ASSUME IInv, NEW s \in Sessions
               PROVE  /\ Increasing(received[s]) /\ Increasing(socket[s]) /\ Increasing(buffer[s])
                      /\ Before(received[s], socket[s]) /\ Before(received[s], buffer[s])
                      /\ Before(socket[s], buffer[s])
                      /\ \A q \in {received[s], socket[s], buffer[s]} :
                           \A i \in 1..Len(q), j \in 1..Len(pipe) :
                             pipe[j].id = s => q[i] < pipe[j].sample
    BY DEF IInv, OrderInv, InOrder
  <2>0. PICK r \in Seq(Nat), q \in Seq(Nat), b \in Seq(Nat) :
          r = received[s] /\ q = socket[s] /\ b = buffer[s]
    BY WholeType DEF IInv
  <2>1. r \o q \in Seq(Nat)
    BY ConcatProperties
  <2>2. Increasing((r \o q) \o b) /\ \A k \in Elements((r \o q) \o b), p \in InPipe(s) : k < p
    BY <2>0 DEF IInv, OrderInv, Whole
  <2>3. /\ Increasing(r \o q) /\ Increasing(b) /\ Before(r \o q, b)
        /\ Elements((r \o q) \o b) = Elements(r \o q) \cup Elements(b)
    BY <2>1, <2>2, IncreasingPrefix
  <2>4. /\ Increasing(r) /\ Increasing(q) /\ Before(r, q)
        /\ Elements(r \o q) = Elements(r) \cup Elements(q)
    BY <2>3, IncreasingPrefix
  <2>5. Before(r, b) /\ Before(q, b)
    <3>1. \A k \in Elements(r \o q) : \A j \in 1..Len(b) : k < b[j]
      BY <2>3 DEF Before, Elements
    <3> QED
      BY <2>4, <3>1 DEF Before, Elements
  <2>6. ASSUME NEW c \in {r, q, b}, NEW i \in 1..Len(c), NEW j \in 1..Len(pipe), pipe[j].id = s
        PROVE  c[i] < pipe[j].sample
    <3>1. c[i] \in Elements((r \o q) \o b)
      BY <2>3, <2>4, <2>6 DEF Elements
    <3>2. pipe[j].sample \in InPipe(s)
      BY <2>6 DEF InPipe
    <3> QED
      BY <2>2, <3>1, <3>2
  <2> QED
    BY <2>0, <2>3, <2>4, <2>5, <2>6
<1> QED
  BY <1>1, StreamInvariant, PTL

\* No client gets more than one sample in Ratio of its session, also when pipe
\* writes fail and the sensor is stopped and started again.
THEOREM RateKept == Spec => []DownsampledRate
<1>1. IInv => DownsampledRate
  <2> SUFFICES ASSUME IInv, NEW s \in Sessions, NEW i \in 1..Len(Whole(s)) - 1
               PROVE  Whole(s)[i + 1] - Whole(s)[i] >= Ratio[s]
    BY DEF DownsampledRate, RateOf, Whole
  <2>1. Whole(s) \in Seq(Nat) /\ Len(Whole(s)) \in Nat
    BY WholeType, LenProperties DEF IInv
  <2>2. i \in 1..Len(Whole(s)) /\ i + 1 \in 1..Len(Whole(s)) /\ i < i + 1
    BY <2>1
  <2>3. Whole(s)[i] < Whole(s)[i + 1]
    BY <2>2 DEF IInv, OrderInv, Increasing
  <2>4. Whole(s)[i] \in OnWay(s) /\ Whole(s)[i + 1] \in OnWay(s)
    BY <2>2 DEF OnWay, Elements
  <2> QED
    BY <2>3, <2>4 DEF IInv, SpacedInv
<1> QED
  BY <1>1, StreamInvariant, PTL

-----------------------------------------------------------------------------
(* Nothing is lost on the way. *)

\* What is on its way is in transit or has been received.
LEMMA OnWayParts ==
  ASSUME TypeOK, NEW s \in Sessions
  PROVE  OnWay(s) = InTransit(s) \cup Elements(received[s])
<1>0. PICK r \in Seq(Nat), q \in Seq(Nat), b \in Seq(Nat) :
        r = received[s] /\ q = socket[s] /\ b = buffer[s]
  BY WholeType
<1>1. r \o q \in Seq(Nat)
  BY ConcatProperties
<1>2. Elements((r \o q) \o b) = Elements(r \o q) \cup Elements(b)
  BY <1>1, IncreasingPrefix
<1>3. Elements(r \o q) = Elements(r) \cup Elements(q)
  BY IncreasingPrefix
<1> QED
  BY <1>0, <1>2, <1>3 DEF OnWay, Whole, InTransit

\* The handler moves the sample at the head of the pipe into the sequence of
\* its session; the entries behind it stay.
LEMMA HandlerLosesNothing ==
  ASSUME IInv, sensorDataHandler, NEW s \in Sessions, connected[s] = "open"
  PROVE  OnWay(s) \subseteq OnWay(s)'
<1>1. TypeOK /\ BufferFits
  BY DEF IInv
<1>2. pipe # <<>> /\ pipe' = Tail(pipe) /\ received' = received
  BY DEF sensorDataHandler
<1>3. PICK h \in Sessions, k \in Nat :
        h = Head(pipe).id /\ k = Head(pipe).sample /\ write(h, k)
  BY <1>1, <1>2, HeadOfPipe DEF sensorDataHandler
<1>4. /\ Len(pipe) \in Nat /\ h = pipe[1].id /\ k = pipe[1].sample
      /\ Len(pipe') = Len(pipe) - 1
      /\ \A i \in 1..Len(pipe') : pipe'[i] = pipe[i + 1] /\ i + 1 \in 1..Len(pipe)
  BY <1>1, <1>2, <1>3, HeadOfPipe
<1>5. InPipe(s) \subseteq InPipe(s)' \cup (IF s = h THEN {k} ELSE {})
  <2>1. InPipe(s)' = {pipe'[i].sample : i \in {j \in 1..Len(pipe') : pipe'[j].id = s}}
    BY DEF InPipe
  <2>2. SUFFICES ASSUME NEW j \in 1..Len(pipe), pipe[j].id = s
                 PROVE  \/ pipe[j].sample \in InPipe(s)'
                        \/ s = h /\ pipe[j].sample = k
    BY DEF InPipe
  <2>3. CASE j = 1
    BY <1>4, <2>2, <2>3
  <2>4. CASE j # 1
    <3>1. j - 1 \in 1..Len(pipe') /\ (j - 1) + 1 = j
      BY <1>4, <2>4
    <3>2. pipe'[j - 1] = pipe[j]
      BY <1>4, <3>1
    <3> QED
      BY <2>1, <2>2, <3>1, <3>2
  <2> QED
    BY <2>3, <2>4
<1>6. CASE s = h
  <2>1. Whole(s)' = Append(Whole(s), k)
    BY <1>1, <1>2, <1>3, <1>6, WriteAppends
  <2>2. Whole(s) \in Seq(Nat) /\ k \in InPipe(s) /\ Increasing(Whole(s))
    BY <1>1, <1>4, <1>6, WholeType, HeadOfPipe, <1>2 DEF InPipe, IInv, OrderInv
  <2>3. Elements(Append(Whole(s), k)) = Elements(Whole(s)) \cup {k}
    BY <2>2, IncreasingAppend DEF IInv, OrderInv
  <2> QED
    BY <1>5, <2>1, <2>3, PrimedSets DEF OnWay
<1>7. CASE s # h
  <2>1. Whole(s)' = Whole(s)
    BY <1>1, <1>2, <1>3, <1>7, WriteAppends
  <2> QED
    BY <1>5, <1>7, <2>1, PrimedSets DEF OnWay
<1> QED
  BY <1>6, <1>7

\* The reader thread adds to the pipe or leaves it as it is.
LEMMA PropagateLosesNothing ==
  ASSUME TypeOK, NEW t \in Sessions, downsampleAndPropagate(t), NEW s \in Sessions
  PROVE  OnWay(s) \subseteq OnWay(s)'
<1> DEFINE e == [id |-> t, sample |-> current]
<1>1. Whole(s)' = Whole(s)
  BY DEF downsampleAndPropagate, sessionVars, Whole
<1>2. pipe' = pipe \/ pipe' = Append(pipe, e)
  BY DEF downsampleAndPropagate, propagate
<1>3. e \in Entry /\ pipe \in Seq(Entry)
  BY DEF TypeOK, Entry
<1> HIDE DEF e
<1>4. Len(pipe) \in Nat /\ 1..Len(pipe) \subseteq 1..Len(pipe')
      /\ \A i \in 1..Len(pipe) : pipe'[i] = pipe[i]
  <2>1. /\ Len(pipe) \in Nat /\ Len(Append(pipe, e)) = Len(pipe) + 1
        /\ \A i \in 1..Len(pipe) : Append(pipe, e)[i] = pipe[i]
    BY <1>3, AppendProperties, LenProperties
  <2> QED
    BY <1>2, <2>1
<1>5. InPipe(s)' = {pipe'[i].sample : i \in {j \in 1..Len(pipe') : pipe'[j].id = s}}
  BY DEF InPipe
<1>6. InPipe(s) \subseteq InPipe(s)'
  BY <1>4, <1>5 DEF InPipe
<1> QED
  BY <1>1, <1>6, PrimedSets DEF OnWay

\* A new size discards the buffer; a size that changes nothing, the clamped 0
\* for a buffer of 1, finds it empty.
LEMMA ConfigureLosesNothing ==
  ASSUME IInv, NEW t \in Sessions, configure(t), NEW s \in Sessions,
         bufferSize'[s] = bufferSize[s]
  PROVE  Whole(s)' = Whole(s)
<1>1. UNCHANGED <<socket, received, pipe>> /\ TypeOK /\ BufferFits
  BY DEF configure, setBufferSize, setBufferInterval, IInv
<1>2. CASE buffer' = buffer \/ s # t
  BY <1>1, <1>2 DEF configure, setBufferSize, setBufferInterval, TypeOK, BufferTypeOK, Whole
<1>3. CASE s = t /\ buffer' # buffer
  <2>1. PICK size \in BufferSizes :
          /\ size # bufferSize[s]
          /\ buffer' = [buffer EXCEPT ![s] = <<>>]
          /\ bufferSize' = [bufferSize EXCEPT ![s] = IF size < 1 THEN 1 ELSE size]
    BY <1>3 DEF configure, setBufferSize, setBufferInterval
  <2>2. /\ bufferSize \in [Sessions -> Nat] /\ buffer \in [Sessions -> Seq(Nat)]
        /\ size \in Nat
    BY <1>1, BufferSizesAssumption DEF TypeOK, BufferTypeOK
  <2>3. bufferSize[s] = 1
    <3>1. bufferSize'[s] = IF size < 1 THEN 1 ELSE size
      BY <2>1, <2>2
    <3> QED
      BY <2>1, <2>2, <3>1
  <2>4. buffer[s] = <<>>
    <3>1. Len(buffer[s]) \in Nat /\ (Len(buffer[s]) = 0 => buffer[s] = <<>>)
      BY <2>2, EmptySeq
    <3>2. buffer[s] # <<>> => Len(buffer[s]) < 1
      BY <1>1, <2>3 DEF BufferFits
    <3> QED
      BY <3>1, <3>2
  <2>5. buffer'[s] = buffer[s]
    BY <2>1, <2>2, <2>4
  <2> QED
    BY <1>1, <2>5 DEF Whole
<1> QED
  BY <1>2, <1>3

\* A step that keeps the session connected and its buffer size.
LEMMA StepLosesNothing ==
  ASSUME IInv, [Next]_vars, NEW s \in Sessions,
         connected[s] = "open", connected'[s] = "open", bufferSize'[s] = bufferSize[s]
  PROVE  OnWay(s) \subseteq OnWay(s)'
<1>0. TypeOK
  BY DEF IInv
<1>1. ASSUME Whole(s)' = Whole(s), UNCHANGED pipe PROVE OnWay(s) \subseteq OnWay(s)'
  <2>1. InPipe(s)' = InPipe(s)
    BY <1>1 DEF InPipe
  <2> QED
    BY <1>1, <2>1, PrimedSets DEF OnWay
<1>2. CASE \/ processSample \/ readerLoop \/ joined \/ UNCHANGED vars
           \/ \E t \in Sessions : start(t) \/ stop(t) \/ connectSession(t)
  <2>1. UNCHANGED <<received, socket, buffer, pipe>>
    BY <1>2 DEF processSample, readerLoop, joined, vars, start, stop, connectSession,
                socketReadable, sessionVars, readerVars, dataVars
  <2> QED
    BY <1>1, <2>1 DEF Whole
<1>3. CASE sensorDataHandler
  BY <1>3, HandlerLosesNothing
<1>4. ASSUME NEW t \in Sessions, downsampleAndPropagate(t) PROVE OnWay(s) \subseteq OnWay(s)'
  BY <1>0, <1>4, PropagateLosesNothing
<1>5. ASSUME NEW t \in Sessions, configure(t) PROVE OnWay(s) \subseteq OnWay(s)'
  <2>1. UNCHANGED pipe
    BY <1>5 DEF configure
  <2> QED
    BY <1>1, <1>5, <2>1, ConfigureLosesNothing
<1>6. ASSUME NEW t \in Sessions, releaseSession(t) PROVE OnWay(s) \subseteq OnWay(s)'
  <2>1. t # s
    BY <1>0, <1>6 DEF releaseSession, removeSession, TypeOK, BufferTypeOK
  <2>2. Whole(s)' = Whole(s) /\ UNCHANGED pipe
    BY <1>0, <1>6, <2>1 DEF releaseSession, removeSession, TypeOK, BufferTypeOK, Whole
  <2> QED
    BY <1>1, <2>2
<1>7. ASSUME NEW t \in Sessions, flushTimer(t) PROVE OnWay(s) \subseteq OnWay(s)'
  <2>1. delayedWrite(t, buffer[t]) /\ UNCHANGED <<received, pipe>>
    BY <1>7 DEF flushTimer, timerTimeout
  <2> QED
    BY <1>0, <1>1, <2>1, FlushKeeps
<1>8. ASSUME NEW t \in Sessions, dataReceived(t) PROVE OnWay(s) \subseteq OnWay(s)'
  <2>1. UNCHANGED pipe
    BY <1>8 DEF dataReceived
  <2> QED
    BY <1>0, <1>1, <1>8, <2>1, ReadKeeps
<1> QED
  BY <1>2, <1>3, <1>4, <1>5, <1>6, <1>7, <1>8 DEF Next

\* What a connected session was sent reaches its client or stays on its way,
\* for any ring, pipe and buffer: the daemon discards samples only when the
\* session is released or gets another buffer size.
THEOREM NothingIsLost == Spec => NothingLost
<1> DEFINE Kept ==
      \A s \in Sessions :
        connected[s] = "open" /\ connected'[s] = "open" /\ bufferSize'[s] = bufferSize[s]
          => InTransit(s) \subseteq InTransit(s)' \cup Elements(received'[s])
      Parts == \A s \in Sessions : OnWay(s) = InTransit(s) \cup Elements(received[s])
<1>1. Init => IInv
  BY InitInv
<1>2. IInv /\ [Next]_vars => IInv'
  BY NextInv
<1>3. IInv => Parts
  BY OnWayParts DEF IInv
<1>4. IInv' => Parts'
  BY <1>3, PTL
<1>5. IInv /\ [Next]_vars => Kept
  <2> SUFFICES ASSUME IInv, [Next]_vars, NEW s \in Sessions,
                      connected[s] = "open", connected'[s] = "open",
                      bufferSize'[s] = bufferSize[s]
               PROVE  InTransit(s) \subseteq InTransit(s)' \cup Elements(received'[s])
    OBVIOUS
  <2>1. OnWay(s) = InTransit(s) \cup Elements(received[s])
    BY <1>3
  <2>2. OnWay(s)' = InTransit(s)' \cup Elements(received[s])'
    BY <1>2, <1>4
  <2>3. Elements(received[s])' = Elements(received'[s])
    BY DEF Elements
  <2>4. OnWay(s) \subseteq OnWay(s)'
    BY StepLosesNothing
  <2> QED
    BY <2>1, <2>2, <2>3, <2>4
<1> QED
  BY <1>1, <1>2, <1>5, PTL DEF Spec, NothingLost

=============================================================================
