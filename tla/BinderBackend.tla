---------------------------- MODULE BinderBackend ----------------------------
(***************************************************************************)
(* How the daemon gets at the sensors of an Android service over binder    *)
(* (core/hybrisbackend_binder*.cpp and the manager's set-up and clean-up   *)
(* in core/hybrisadaptor.cpp).                                             *)
(*                                                                         *)
(* The main thread connects, blocked in a loop of its own until it         *)
(* succeeds.  Then a service of version 1.0 is polled from the main loop;  *)
(* a later one posts events to a queue in shared memory that a reader      *)
(* thread moves into the manager's pipe, and takes acknowledgements of     *)
(* wake-up events back, those of events that never got into the pipe       *)
(* included.  The service keeps the system awake for each event it posted  *)
(* until that event is acknowledged.  When the service dies, the daemon    *)
(* ends and systemd starts it anew.                                        *)
(*                                                                         *)
(* All events are wake-up events.  A transaction with the service in place *)
(* is answered; it may fail all the same.                                  *)
(***************************************************************************)
EXTENDS Naturals

CONSTANTS MaxIncarnations,  \* bound on the starts of the service
          MaxFailures,      \* bound on transactions that fail with the service in place
          MaxPosted,        \* bound on the events in the service's queue
          MaxLocks,         \* bound on the events that nobody acknowledges
          PipeCapacity      \* bound on the events in the pipe

ASSUME BoundsAssumption ==
  /\ MaxIncarnations \in Nat \ {0} /\ MaxFailures \in Nat
  /\ MaxPosted \in Nat /\ MaxLocks \in Nat /\ PipeCapacity \in Nat
\* A batch of events fits into an empty pipe: 64 events are less than 64 KiB.
ASSUME PipeAssumption == MaxPosted <= PipeCapacity

VARIABLES
  polled,       \* the service is of version 1.0
  incarnation,  \* starts of the service so far
  up,           \* the service is there
  failures,     \* transactions that failed with the service in place
  pc,           \* where the main thread is
  client,       \* m_client: the incarnation it talks to, 0 for none
  watched,      \* m_deathId: the incarnation whose death is reported, 0 for none
  notice,       \* binderDied() waits for the main loop
  polls,        \* POLL transactions under way
  reader,       \* where the reader thread is
  cancelled,    \* the reader thread has been cancelled
  posted,       \* events in the service's queue
  inHand,       \* events the reader thread has taken
  pipe,         \* events in the pipe
  locks         \* events for which the service keeps the system awake

serviceVars == <<polled, incarnation, up, failures>>
linkVars == <<client, watched, notice, polls>>
threadVars == <<reader, cancelled, inHand>>
vars == <<serviceVars, pc, linkVars, threadVars, posted, pipe, locks>>

\* Places of the two threads, counts of everything else.
TypeOK ==
  /\ polled \in BOOLEAN /\ up \in BOOLEAN /\ notice \in BOOLEAN /\ cancelled \in BOOLEAN
  /\ pc \in {"connect", "initialize", "list", "loop", "exit", "join", "ended"}
  /\ reader \in {"none", "wait", "write", "acknowledge"}
  /\ incarnation \in Nat \ {0} /\ client \in Nat /\ watched \in Nat
  /\ failures \in Nat /\ polls \in Nat /\ posted \in Nat
  /\ inHand \in Nat /\ pipe \in Nat /\ locks \in Nat

Init ==
  /\ polled \in BOOLEAN /\ up \in BOOLEAN
  /\ incarnation = 1 /\ failures = 0
  /\ pc = "connect" /\ client = 0 /\ watched = 0 /\ notice = FALSE /\ polls = 0
  /\ reader = "none" /\ cancelled = FALSE /\ inHand = 0
  /\ posted = 0 /\ pipe = 0 /\ locks = 0

\* The service that the daemon talks to is there.
Connected == up /\ client = incarnation

-----------------------------------------------------------------------------
\* The service.  Whoever watches it learns of its death from the main loop.
serviceDies ==
  /\ up /\ up' = FALSE
  /\ notice' = (notice \/ watched = incarnation)
  /\ locks' = 0 /\ posted' = 0
  /\ UNCHANGED <<polled, incarnation, failures, pc, client, watched, polls, threadVars, pipe>>

serviceStarts ==
  /\ ~up /\ incarnation < MaxIncarnations
  /\ up' = TRUE /\ incarnation' = incarnation + 1
  /\ UNCHANGED <<polled, failures, pc, linkVars, threadVars, posted, pipe, locks>>

servicePosts ==
  /\ Connected /\ pc \notin {"connect", "initialize", "list"}
  /\ posted < MaxPosted /\ locks < MaxLocks
  /\ posted' = posted + 1
  /\ locks' = IF polled THEN locks ELSE locks + 1
  /\ UNCHANGED <<serviceVars, pc, linkVars, threadVars, pipe>>

-----------------------------------------------------------------------------
\* cleanup(), sleep(1), startConnect(): everything that belongs to the lost
\* connection goes, the death handler with it.
reconnect ==
  /\ client' = 0 /\ watched' = 0 /\ notice' = FALSE /\ polls' = 0
  /\ pc' = "connect"

\* A transaction fails: without a service it must.
TransactionFails ==
  IF Connected THEN failures < MaxFailures /\ failures' = failures + 1
               ELSE UNCHANGED failures

\* Mutant: only later versions are watched.
finishConnect_Unwatched ==
  /\ pc = "connect" /\ up
  /\ client' = incarnation /\ notice' = FALSE
  /\ watched' = IF polled THEN 0 ELSE incarnation
  /\ pc' = "initialize"
  /\ UNCHANGED <<serviceVars, polls, threadVars, posted, pipe, locks>>

\* No service: clean up, sleep, try again.
retryConnect == pc = "connect" /\ ~up /\ UNCHANGED vars

\* The service is found and watched.
finishConnect ==
  /\ pc = "connect" /\ up
  /\ client' = incarnation /\ watched' = incarnation /\ notice' = FALSE
  /\ pc' = "initialize"
  /\ UNCHANGED <<serviceVars, polls, threadVars, posted, pipe, locks>>

\* Mutant: a failed attempt is not followed by another.
initialize_GivesUp ==
  /\ pc = "initialize"
  /\ \/ Connected /\ pc' = "list" /\ UNCHANGED <<failures, linkVars>>
     \/ TransactionFails /\ UNCHANGED <<pc, linkVars>>
  /\ UNCHANGED <<polled, incarnation, up, threadVars, posted, pipe, locks>>

\* INITIALIZE, or for version 1.0 an empty POLL that tests the connection.
initialize ==
  /\ pc = "initialize"
  /\ \/ Connected /\ pc' = "list" /\ UNCHANGED <<failures, linkVars>>
     \/ TransactionFails /\ reconnect
  /\ UNCHANGED <<polled, incarnation, up, threadVars, posted, pipe, locks>>

\* initManager(): needsReaderThread() starts to poll version 1.0, for later
\* versions the reader thread is started; then the main loop runs.
initManager ==
  /\ polls' = IF polled THEN 1 ELSE 0
  /\ reader' = IF polled THEN "none" ELSE "wait"
  /\ pc' = "loop"
  /\ UNCHANGED <<failures, client, watched, notice>>

getSensorList ==
  /\ pc = "list"
  /\ \/ Connected /\ initManager
     \/ TransactionFails /\ reconnect /\ UNCHANGED reader
  /\ UNCHANGED <<polled, incarnation, up, cancelled, inHand, posted, pipe, locks>>

-----------------------------------------------------------------------------
\* Mutant: events are acknowledged as soon as they are read.
readEvents_Acknowledges ==
  /\ reader = "wait" /\ posted > 0 /\ pc \in {"loop", "exit"}
  /\ inHand' = posted /\ posted' = 0
  /\ locks' = IF locks < posted THEN 0 ELSE locks - posted
  /\ reader' = "write"
  /\ UNCHANGED <<serviceVars, pc, linkVars, cancelled, pipe>>

\* The reader thread.  It can be cancelled only while it waits for events.
readEvents ==
  /\ reader = "wait" /\ posted > 0 /\ pc \in {"loop", "exit"}
  /\ inHand' = posted /\ posted' = 0
  /\ reader' = "write"
  /\ UNCHANGED <<serviceVars, pc, linkVars, cancelled, pipe, locks>>

\* queueEvents(): the write waits for room in the pipe.
queueEvents ==
  /\ reader = "write"
  /\ pipe + inHand <= PipeCapacity /\ pipe' = pipe + inHand
  /\ reader' = "acknowledge"
  /\ UNCHANGED <<serviceVars, pc, linkVars, cancelled, posted, inHand, locks>>

\* queueEvents(): a batch with an event that is not valid is not written, and a
\* write may fail.  The batch is lost then, and its wake-up events are
\* acknowledged all the same.
loseEvents ==
  /\ reader = "write"
  /\ reader' = "acknowledge"
  /\ UNCHANGED <<serviceVars, pc, linkVars, cancelled, posted, inHand, pipe, locks>>

\* Events are acknowledged when queueEvents() has returned; there may be no
\* room for the acknowledgement, and a dead service has no use for it.
acknowledge ==
  /\ reader = "acknowledge" /\ pc \in {"loop", "exit"}
  /\ locks' \in {locks, IF locks < inHand THEN 0 ELSE locks - inHand}
  /\ inHand' = 0 /\ reader' = "wait"
  /\ UNCHANGED <<serviceVars, pc, linkVars, cancelled, posted, pipe>>

-----------------------------------------------------------------------------
\* Version 1.0: the reply to a POLL, on the main thread.  The main loop serves
\* its sources in turn, so the pipe is empty again when the next one comes.
\* queueEvents() may lose this batch, too.
pollReply ==
  \/ /\ Connected /\ posted > 0 /\ posted' = 0
     /\ \/ pipe = 0 /\ pipe' = posted
        \/ UNCHANGED pipe
     /\ UNCHANGED failures
  \/ TransactionFails /\ UNCHANGED <<pipe, posted>>

\* Mutant: a failed poll is not followed by another.
pollEventsCallback_GivesUp ==
  /\ pc = "loop" /\ polls > 0
  /\ pollReply
  /\ polls' = IF failures' # failures THEN polls - 1 ELSE polls
  /\ UNCHANGED <<polled, incarnation, up, pc, client, watched, notice, threadVars, locks>>

\* Each reply, a failure too, is followed by another poll.
pollEventsCallback ==
  /\ pc = "loop" /\ polls > 0
  /\ pollReply
  /\ polls' = (polls - 1) + 1
  /\ UNCHANGED <<polled, incarnation, up, pc, client, watched, notice, threadVars, locks>>

\* processEvents() takes what the pipe holds.
eventPipeWakeup ==
  /\ pc = "loop" /\ pipe > 0 /\ pipe' = 0
  /\ UNCHANGED <<serviceVars, pc, linkVars, threadVars, posted, locks>>

\* QCoreApplication::exit(), for the death of the service or by a signal.
binderDied ==
  /\ pc = "loop" /\ notice /\ notice' = FALSE
  /\ pc' = "exit"
  /\ UNCHANGED <<serviceVars, client, watched, polls, threadVars, posted, pipe, locks>>

signalINT ==
  /\ pc = "loop" /\ pc' = "exit"
  /\ UNCHANGED <<serviceVars, linkVars, threadVars, posted, pipe, locks>>

\* HybrisManager::cleanup(): the sensors are stopped and the back end is
\* deleted; then the reader thread is cancelled ...
deleteBackend ==
  /\ pc = "exit"
  /\ client' = 0 /\ watched' = 0 /\ notice' = FALSE /\ polls' = 0
  /\ pc' = "join"
  /\ UNCHANGED <<serviceVars, threadVars, posted, pipe, locks>>

cancelReader ==
  /\ pc = "join" /\ reader # "none" /\ ~cancelled /\ cancelled' = TRUE
  /\ UNCHANGED <<serviceVars, pc, linkVars, reader, inHand, posted, pipe, locks>>

readerEnds ==
  /\ reader = "wait" /\ cancelled /\ reader' = "none"
  /\ UNCHANGED <<serviceVars, pc, linkVars, cancelled, inHand, posted, pipe, locks>>

\* Mutant: the main thread waits for the reader without a limit.
join_Unlimited ==
  /\ pc = "join" /\ reader = "none" /\ pc' = "ended"
  /\ UNCHANGED <<serviceVars, linkVars, threadVars, posted, pipe, locks>>

\* ... and joined; after 3 s the process exits without it.
join ==
  /\ pc = "join"
  /\ reader = "none" \/ cancelled
  /\ pc' = "ended"
  /\ UNCHANGED <<serviceVars, linkVars, threadVars, posted, pipe, locks>>

\* Until it is cancelled the reader thread goes on with a back end that has
\* been deleted, and may take the process down.
useDeletedBackend ==
  /\ pc = "join" /\ reader \in {"wait", "acknowledge"}
  /\ reader = "wait" => ~cancelled
  /\ pc' = "ended"
  /\ UNCHANGED <<serviceVars, linkVars, threadVars, posted, pipe, locks>>

mainStep ==
  \/ retryConnect \/ finishConnect \/ initialize \/ getSensorList
  \/ pollEventsCallback \/ eventPipeWakeup
  \/ deleteBackend \/ cancelReader \/ join

readerStep == readEvents \/ queueEvents \/ acknowledge \/ readerEnds

Next ==
  \/ serviceDies \/ serviceStarts \/ servicePosts
  \/ mainStep \/ binderDied \/ signalINT
  \/ readerStep \/ loseEvents \/ useDeletedBackend

\* The main thread, its event loop and the reader thread run; nothing is
\* assumed of the service, of who sends a signal, or of batches that are lost: a
\* reader thread in front of a full pipe may stay there.  binderDied() has fairness
\* of its own: the loop serves it besides its other sources.
Fairness == WF_vars(mainStep) /\ WF_vars(binderDied) /\ WF_vars(readerStep)
Spec == Init /\ [][Next]_vars
FairSpec == Spec /\ Fairness

-----------------------------------------------------------------------------
\* hybrisbackend_binder_hidl.cpp:207: "there is only maximum of one active poll
\* at all times"; and while the main loop runs there is one, whatever polls
\* failed, or no event would arrive any more.
OnePoll == polls <= 1 /\ (pc = "loop" /\ polled => polls = 1)

\* The service keeps the system awake for every event that it has posted and
\* that the reader thread is not done with, however reading, acknowledging and
\* new events interleave: no event is acknowledged before queueEvents() has put
\* it into the pipe or given it up.
AwakeForEvents ==
  Connected => locks >= (IF polled THEN 0 ELSE posted)
                          + (IF reader \in {"write", "acknowledge"} THEN inHand ELSE 0)

\* The main loop never runs with a lost connection and no notice of it: a
\* service that died while the daemon connected, was restarted in between or
\* was found again by a second attempt included.
LossNoticed == pc = "loop" => Connected \/ notice

\* A daemon that has lost its service ends, so that systemd can start it anew,
\* even with a reader thread that is stuck in a full pipe.
EndsAfterLoss == (pc = "loop" /\ ~Connected) ~> pc = "ended"

\* The attempts to connect succeed in the end, unless the service goes away.
Connects == up ~> (~up \/ pc \notin {"connect", "initialize", "list"})
=============================================================================
