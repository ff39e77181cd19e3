------------------------------- MODULE Logger -------------------------------
(***************************************************************************)
(* The logger.  The threads of the program push messages on a queue under  *)
(* a mutex; a worker thread wakes up about once a second, takes the whole  *)
(* queue and hands every message to every output function (a sink), the    *)
(* sinks in parallel and the messages one after the other, and notifies    *)
(* the threads that wait for it.  When the program ends, the main thread   *)
(* tells the worker to quit, and the worker outputs what is left.          *)
(***************************************************************************)
EXTENDS Naturals, Sequences

CONSTANTS
  Threads,       \* the threads that log messages
  Sinks,         \* the output functions, in any number
  MaxMessages    \* bound: the messages logged by the threads in all

ASSUME LoggerAssumption == MaxMessages \in Nat

Worker == "worker"    \* the worker, as the owner of the mutex
Nobody == "nobody"
ASSUME ThreadsAssumption == {Worker, Nobody} \intersect Threads = {}

VARIABLES
  m_messages,          \* the queue
  m_messages_mutex,    \* who holds its mutex
  m_quit,
  tempMessages,        \* the batch of the worker: what it has not finished with
  pending,             \* the sinks that have yet to output its first message
  worker,              \* where the worker is
  thread,              \* where every thread is
  main,                \* where the main thread is, once the program ends
  output,              \* history: what every sink has output
  logged               \* history: what was pushed on the queue

queueVars  == <<m_messages, m_messages_mutex, logged>>
workerVars == <<tempMessages, pending, worker, output>>
vars == <<queueVars, workerVars, m_quit, thread, main>>

\* A message is the thread it is from; the worker logs one of its own at the end.
Messages == Threads \union {Worker}

TypeOK ==
  /\ m_messages \in Seq(Messages) /\ tempMessages \in Seq(Messages) /\ logged \in Seq(Messages)
  /\ output \in [Sinks -> Seq(Messages)]
  /\ m_messages_mutex \in Threads \union {Nobody}
  /\ m_quit \in BOOLEAN
  /\ pending \subseteq Sinks
  /\ worker \in {"top", "asleep", "outputting", "notifying", "draining", "exiting", "exited"}
  /\ thread \in [Threads -> {"running", "pushing", "waits", "waiting", "waited"}]
  /\ main \in {"running", "joining", "joined"}

-----------------------------------------------------------------------------
(* The threads.                                                            *)

\* logMessage: the mutex is locked ...
Lock(t) ==
  /\ thread[t] = "running" /\ main = "running"
  /\ Len(logged) < MaxMessages
  /\ m_messages_mutex = Nobody
  /\ m_messages_mutex' = t
  /\ thread' = [thread EXCEPT ![t] = "pushing"]
  /\ UNCHANGED <<m_messages, logged, workerVars, m_quit, main>>

\* ... and unlocked once the message is in the queue.
Push(t) ==
  /\ thread[t] = "pushing"
  /\ m_messages' = Append(m_messages, t)
  /\ logged' = Append(logged, t)
  /\ m_messages_mutex' = Nobody
  /\ thread' = [thread EXCEPT ![t] = "running"]
  /\ UNCHANGED <<workerVars, m_quit, main>>

\* waitForLogger reads the queue without its mutex: while a thread pushes, it may
\* find the queue empty or not.
SeesEmpty    == m_messages = <<>>
SeesMessages == m_messages # <<>> \/ m_messages_mutex # Nobody

\* It returns at once if there is no message, or begins to wait.  (The crash
\* handler calls it: the thread logs nothing afterwards.)
waitForLogger(t) ==
  /\ thread[t] = "running" /\ main = "running"
  /\ \/ (SeesEmpty \/ m_quit) /\ thread' = [thread EXCEPT ![t] = "waited"]
     \/ SeesMessages /\ ~m_quit /\ thread' = [thread EXCEPT ![t] = "waits"]
  /\ UNCHANGED <<queueVars, workerVars, m_quit, main>>

\* A notification between the test and the wait is lost.
Wait(t) ==
  /\ thread[t] = "waits"
  /\ thread' = [thread EXCEPT ![t] = "waiting"]
  /\ UNCHANGED <<queueVars, workerVars, m_quit, main>>

\* A condition variable may wake a thread that nobody notified.
WakeSpuriously(t) ==
  /\ thread[t] = "waiting"
  /\ thread' = [thread EXCEPT ![t] = "waited"]
  /\ UNCHANGED <<queueVars, workerVars, m_quit, main>>

NotifyAll ==
  thread' = [t \in Threads |-> IF thread[t] = "waiting" THEN "waited" ELSE thread[t]]

-----------------------------------------------------------------------------
(* The worker (update).                                                    *)

\* What is output once m_quit is set: what is left in the queue and a message that
\* says so, without the mutex, as no other thread is left to push a message
\* (Logger.cpp:173-176).  The queue is not cleared.
LastBatch == Append(m_messages, Worker)

Loop ==
  /\ worker = "top"
  /\ \/ /\ ~m_quit
        /\ worker' = "asleep"
        /\ UNCHANGED <<m_messages, logged, tempMessages, pending>>
     \/ /\ m_quit
        /\ worker' = "draining"
        /\ m_messages' = LastBatch
        /\ logged' = Append(logged, Worker)
        /\ tempMessages' = LastBatch
        /\ pending' = Sinks
  /\ UNCHANGED <<m_messages_mutex, output, m_quit, thread, main>>

\* Mutant of TakeBatch: the queue is not cleared.
TakeCopy ==
  /\ worker = "asleep"
  /\ m_messages_mutex = Nobody
  /\ tempMessages' = m_messages \o tempMessages
  /\ pending' = Sinks
  /\ worker' = "outputting"
  /\ UNCHANGED <<queueVars, output, m_quit, thread, main>>

\* The whole queue becomes the batch, under the mutex.
TakeBatch ==
  /\ worker = "asleep"
  /\ m_messages_mutex = Nobody
  /\ tempMessages' = m_messages \o tempMessages
  /\ m_messages' = <<>>
  /\ pending' = Sinks
  /\ worker' = "outputting"
  /\ UNCHANGED <<m_messages_mutex, logged, output, m_quit, thread, main>>

Outputting == worker \in {"outputting", "draining"} /\ tempMessages # <<>>

\* A sink outputs the first message of the batch, in a thread of its own (of the
\* last batch, one sink after the other).
OutputFunction(s) ==
  /\ Outputting
  /\ s \in pending
  /\ output' = [output EXCEPT ![s] = Append(@, Head(tempMessages))]
  /\ pending' = pending \ {s}
  /\ UNCHANGED <<queueVars, tempMessages, worker, m_quit, thread, main>>

\* Mutant of NextMessage: the futures are not waited for.
NextMessageEarly ==
  /\ Outputting
  /\ pending # Sinks
  /\ tempMessages' = Tail(tempMessages)
  /\ pending' = Sinks
  /\ UNCHANGED <<queueVars, worker, output, m_quit, thread, main>>

\* All sinks are done with it, whether they failed or not.
NextMessage ==
  /\ Outputting
  /\ pending = {}
  /\ tempMessages' = Tail(tempMessages)
  /\ pending' = Sinks
  /\ UNCHANGED <<queueVars, worker, output, m_quit, thread, main>>

BatchDone ==
  /\ worker \in {"outputting", "draining"} /\ tempMessages = <<>>
  /\ worker' = IF worker = "outputting" THEN "notifying" ELSE "exiting"
  /\ UNCHANGED <<queueVars, tempMessages, pending, output, m_quit, thread, main>>

\* Mutant of NotifyBatch: the waiting threads are notified of the last batch only.
NotifyNobody ==
  /\ worker = "notifying"
  /\ worker' = "top"
  /\ UNCHANGED <<queueVars, tempMessages, pending, output, m_quit, thread, main>>

NotifyBatch ==
  /\ worker = "notifying"
  /\ NotifyAll
  /\ worker' = "top"
  /\ UNCHANGED <<queueVars, tempMessages, pending, output, m_quit, main>>

LastNotify ==
  /\ worker = "exiting"
  /\ NotifyAll
  /\ worker' = "exited"
  /\ UNCHANGED <<queueVars, tempMessages, pending, output, m_quit, main>>

-----------------------------------------------------------------------------
(* The main thread (destroyWorkerThread), when the others have ended.      *)

Quit ==
  /\ main = "running"
  /\ \A t \in Threads : thread[t] \in {"running", "waited"}
  /\ m_quit' = TRUE
  /\ main' = "joining"
  /\ UNCHANGED <<queueVars, workerVars, thread>>

\* Mutant of Join: the worker thread is not waited for.
JoinEarly ==
  /\ main = "joining"
  /\ main' = "joined"
  /\ NotifyAll
  /\ UNCHANGED <<queueVars, workerVars, m_quit>>

Join ==
  /\ main = "joining" /\ worker = "exited"
  /\ main' = "joined"
  /\ NotifyAll
  /\ UNCHANGED <<queueVars, workerVars, m_quit>>

-----------------------------------------------------------------------------
Init ==
  /\ m_messages = <<>> /\ m_messages_mutex = Nobody /\ logged = <<>>
  /\ m_quit = FALSE
  /\ tempMessages = <<>> /\ pending = {} /\ worker = "top"
  /\ thread = [t \in Threads |-> "running"]
  /\ main = "running"
  /\ output = [s \in Sinks |-> <<>>]

update ==
  \/ Loop
  \/ TakeBatch
  \/ \E s \in Sinks : OutputFunction(s)
  \/ NextMessage
  \/ BatchDone
  \/ NotifyBatch
  \/ LastNotify

ThreadStep(t) ==
  \/ Lock(t)
  \/ Push(t)
  \/ waitForLogger(t)
  \/ Wait(t)
  \/ WakeSpuriously(t)

Next ==
  \/ update
  \/ \E t \in Threads : ThreadStep(t)
  \/ Quit
  \/ Join

\* The worker runs, a thread that was running goes on, and the program, once it
\* ends, waits for the worker.  Nobody has to log a message, to wait or to quit,
\* and no thread has to be woken without being notified.
Fairness ==
  /\ WF_vars(update)
  /\ \A t \in Threads : WF_vars(Push(t)) /\ WF_vars(Wait(t))
  /\ WF_vars(Join)

Spec == Init /\ [][Next]_vars /\ Fairness

-----------------------------------------------------------------------------
(* Properties.                                                             *)

\* What a sink has not been given of the batch.
Rest(s) ==
  IF tempMessages # <<>> /\ s \notin pending THEN Tail(tempMessages) ELSE tempMessages

\* What nobody has taken off the queue.
Queued == IF worker \in {"draining", "exiting", "exited"} THEN <<>> ELSE m_messages

\* No message is lost, output twice or overtaken by another on its way from the
\* queue through the batch to any of the sinks, which run in parallel.
EachOnceInOrder == \A s \in Sinks : output[s] \o Rest(s) \o Queued = logged

\* When the program ends every message has been output, the ones pushed while the
\* worker was outputting its last batch included (Logger.cpp:173-176).
AllOutputAtEnd == main = "joined" => \A s \in Sinks : output[s] = logged

\* Nobody waits for ever.  A thread whose wait begins as the notification it should get
\* goes out is notified of the next batch, even an empty one (Logger.cpp:158-160), and the
\* main thread, which waits for the worker, gets to the end: the worker notices m_quit.
WaitsEnd ==
  /\ \A t \in Threads : thread[t] = "waits" ~> thread[t] = "waited"
  /\ main = "joining" ~> main = "joined"

\* The abstract log.
Log == INSTANCE MessageLog

MessageLogSpec == Log!Spec
=============================================================================
