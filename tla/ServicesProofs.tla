--------------------------- MODULE ServicesProofs --------------------------
(***************************************************************************)
(* Theorems about what the rest of the program uses: the logger, what its  *)
(* sinks do with a message, and the preferences.                           *)
(*                                                                         *)
(* Logger, for any number of threads, sinks and messages: no message is    *)
(* lost, doubled or overtaken, all are output when the program ends, and   *)
(* every step is one of the abstract log.                                  *)
(*                                                                         *)
(* LogSinks, for any number of messages and arguments and any size of the  *)
(* buffer: the log file loses at most the first message, and the log       *)
(* window lists messages in order and none twice.  The first needs only    *)
(* what the file has been through; the second relates what the window      *)
(* lists to the message its sink holds, and that to how far the sink is    *)
(* with it.                                                                *)
(*                                                                         *)
(* Preferences, for any paths, defaults and values and any number of       *)
(* edits: the locale and the window follow the preferences, a plain value  *)
(* changes only when the user changes it, and a file that was saved is     *)
(* loaded as it was saved.  All three need that whatever reads the file    *)
(* again leaves every known path with a value, and, while the program runs *)
(* with a file it could read, values of the right types: only then does    *)
(* refreshing the window leave them alone.                                 *)
(***************************************************************************)
EXTENDS Logger, LogSinks, Preferences, SequenceTheorems, WellFoundedInduction, TLAPS

-----------------------------------------------------------------------------
(* The logger: who may do what as the program ends.                        *)

\* Who may do what as the program ends: the worker has a batch only while it
\* outputs it, and drains the queue only when nobody is left to push a message.
HaltInv ==
  /\ worker \notin {"outputting", "draining"} => tempMessages = <<>>
  /\ worker \in {"draining", "exiting", "exited"} => m_quit
  /\ m_quit <=> main # "running"
  /\ m_quit => \A t \in Threads : thread[t] \in {"running", "waited"}
  /\ main = "joined" => worker = "exited"

\* The inductive invariant.
LogInv == TypeOK /\ HaltInv /\ EachOnceInOrder

-----------------------------------------------------------------------------
(* Sequences of messages.                                                  *)

\* A message moves from the batch to what a sink has output.
LEMMA HeadMoves ==
  ASSUME NEW S, NEW o \in Seq(S), NEW t \in Seq(S), t # <<>>
  PROVE  /\ Append(o, Head(t)) \in Seq(S) /\ Tail(t) \in Seq(S)
         /\ Append(o, Head(t)) \o Tail(t) = o \o t
<1> DEFINE h == Head(t)
           r == Tail(t)
<1>1. h \in S /\ r \in Seq(S) /\ t = <<h>> \o r
  <2>1. h \in S /\ r \in Seq(S) /\ Len(t) \in Nat /\ Len(r) = Len(t) - 1
    BY HeadTailProperties, LenProperties
  <2>2. t = SubSeq(t, 1, Len(t)) /\ r = SubSeq(t, 2, Len(t)) /\ h = t[1]
    BY SubSeqFull, TailIsSubSeq
  <2>3. 1 \in 1 .. Len(t) /\ Len(t) \in 1 .. Len(t)
    BY <2>1, EmptySeq
  <2>4. SubSeq(t, 1, Len(t)) = <<t[1]>> \o SubSeq(t, 1 + 1, Len(t))
    BY <2>3, SubSeqRecursiveFirst
  <2> QED BY <2>1, <2>2, <2>4
<1>2. <<h>> \in Seq(S)
  BY <1>1
<1>3. Append(o, h) = o \o <<h>> /\ Append(o, h) \in Seq(S)
  BY <1>1, AppendIsConcat, AppendProperties
<1>4. (o \o <<h>>) \o r = o \o (<<h>> \o r)
  BY <1>1, <1>2, ConcatAssociative
<1> QED BY <1>1, <1>3, <1>4

\* A message pushed on the queue comes last.
LEMMA AppendToQueue ==
  \A o, q \in Seq(Messages), m \in Messages : o \o Append(q, m) = Append(o \o q, m)
<1> SUFFICES ASSUME NEW o \in Seq(Messages), NEW q \in Seq(Messages), NEW m \in Messages
             PROVE  o \o Append(q, m) = Append(o \o q, m)
  OBVIOUS
<1>1. <<m>> \in Seq(Messages) /\ o \o q \in Seq(Messages)
  BY ConcatProperties
<1>2. Append(q, m) = q \o <<m>> /\ Append(o \o q, m) = (o \o q) \o <<m>>
  BY <1>1, AppendIsConcat
<1>3. (o \o q) \o <<m>> = o \o (q \o <<m>>)
  BY <1>1, ConcatAssociative
<1> QED BY <1>2, <1>3

\* What the invariant says of one sink: where the messages are.
LEMMA Parts ==
  ASSUME TypeOK, NEW s \in Sinks
  PROVE  /\ output[s] \in Seq(Messages) /\ Rest(s) \in Seq(Messages) /\ Queued \in Seq(Messages)
         /\ output[s] \o Rest(s) \in Seq(Messages)
<1>1. output[s] \in Seq(Messages) /\ tempMessages \in Seq(Messages) /\ m_messages \in Seq(Messages)
  BY DEF TypeOK
<1>2. Rest(s) \in Seq(Messages)
  BY <1>1, HeadTailProperties DEF Rest
<1>3. Queued \in Seq(Messages)
  BY <1>1, EmptySeq DEF Queued
<1> QED BY <1>1, <1>2, <1>3, ConcatProperties

-----------------------------------------------------------------------------
(* The invariant.                                                          *)

LEMMA LogInvInit == Init => LogInv
<1> SUFFICES ASSUME Init PROVE LogInv
  OBVIOUS
<1>1. TypeOK
  BY EmptySeq DEF Init, TypeOK
<1>2. HaltInv
  BY DEF Init, HaltInv
<1>3. EachOnceInOrder
  <2> SUFFICES ASSUME NEW s \in Sinks PROVE output[s] \o Rest(s) \o Queued = logged
    BY DEF EachOnceInOrder
  <2>1. output[s] = <<>> /\ Rest(s) = <<>> /\ Queued = <<>> /\ logged = <<>>
    BY DEF Init, Rest, Queued
  <2>2. <<>> \in Seq(Messages)
    BY EmptySeq
  <2> QED BY <2>1, <2>2, ConcatEmptySeq
<1> QED BY <1>1, <1>2, <1>3 DEF LogInv

\* The types and the end of the program.
LEMMA TypeOKNext ==
  ASSUME LogInv, [Next]_vars
  PROVE  TypeOK'
<1> USE DEF LogInv
<1>1. ASSUME NEW t \in Threads, ThreadStep(t)
      PROVE  TypeOK'
  <2>1. t \in Messages
    BY DEF Messages
  <2>2. CASE Push(t)
    BY <2>1, <2>2, AppendProperties DEF TypeOK, Push, workerVars
  <2>3. CASE Lock(t)
    BY <2>3 DEF TypeOK, Lock, workerVars
  <2>4. CASE waitForLogger(t) \/ Wait(t) \/ WakeSpuriously(t)
    BY <2>4 DEF TypeOK, waitForLogger, Wait, WakeSpuriously, workerVars, queueVars
  <2> QED BY <1>1, <2>2, <2>3, <2>4 DEF ThreadStep
<1>2. CASE Loop
  <2>1. Worker \in Messages
    BY DEF Messages
  <2>2. LastBatch \in Seq(Messages) /\ Append(logged, Worker) \in Seq(Messages)
    BY <2>1, AppendProperties DEF TypeOK, LastBatch
  <2> QED BY <1>2, <2>2 DEF TypeOK, Loop
<1>3. CASE TakeBatch
  <2>1. m_messages \o tempMessages \in Seq(Messages) /\ <<>> \in Seq(Messages)
    BY ConcatProperties, EmptySeq DEF TypeOK
  <2> QED BY <1>3, <2>1 DEF TypeOK, TakeBatch
<1>4. ASSUME NEW s \in Sinks, OutputFunction(s)
      PROVE  TypeOK'
  <2>1. Append(output[s], Head(tempMessages)) \in Seq(Messages)
    BY <1>4, HeadTailProperties, AppendProperties DEF TypeOK, OutputFunction, Outputting
  <2> QED BY <1>4, <2>1 DEF TypeOK, OutputFunction, queueVars
<1>5. CASE NextMessage
  <2>1. Tail(tempMessages) \in Seq(Messages)
    BY <1>5, HeadTailProperties DEF TypeOK, NextMessage, Outputting
  <2> QED BY <1>5, <2>1 DEF TypeOK, NextMessage, queueVars
<1>6. CASE BatchDone \/ NotifyBatch \/ LastNotify
  BY <1>6 DEF TypeOK, BatchDone, NotifyBatch, LastNotify, NotifyAll, queueVars
<1>7. CASE Quit \/ Join
  BY <1>7 DEF TypeOK, Quit, Join, NotifyAll, queueVars, workerVars
<1>8. CASE UNCHANGED vars
  BY <1>8 DEF TypeOK, vars, queueVars, workerVars
<1> QED BY <1>1, <1>2, <1>3, <1>4, <1>5, <1>6, <1>7, <1>8 DEF Next, update

LEMMA HaltInvNext ==
  ASSUME LogInv, [Next]_vars
  PROVE  HaltInv'
<1> USE DEF LogInv, HaltInv
<1>1. ASSUME NEW t \in Threads, ThreadStep(t)
      PROVE  HaltInv'
  BY <1>1 DEF TypeOK, ThreadStep, Lock, Push, waitForLogger, Wait, WakeSpuriously,
              workerVars, queueVars
<1>2. CASE Loop
  BY <1>2 DEF TypeOK, Loop
<1>3. CASE TakeBatch
  BY <1>3 DEF TypeOK, TakeBatch
<1>4. ASSUME NEW s \in Sinks, OutputFunction(s)
      PROVE  HaltInv'
  BY <1>4 DEF OutputFunction
<1>5. CASE NextMessage
  BY <1>5 DEF NextMessage, Outputting
<1>6. CASE BatchDone
  BY <1>6 DEF BatchDone
<1>7. CASE NotifyBatch \/ LastNotify
  BY <1>7 DEF TypeOK, NotifyBatch, LastNotify, NotifyAll
<1>8. CASE Quit
  BY <1>8 DEF Quit, workerVars
<1>9. CASE Join
  BY <1>9 DEF TypeOK, Join, NotifyAll, workerVars
<1>10. CASE UNCHANGED vars
  BY <1>10 DEF vars, workerVars
<1> QED BY <1>1, <1>2, <1>3, <1>4, <1>5, <1>6, <1>7, <1>8, <1>9, <1>10 DEF Next, update

-----------------------------------------------------------------------------
(* Where the messages are.                                                 *)

\* A thread logs a message: it comes last, behind the ones of the worker.
LEMMA PushKeepsOrder ==
  ASSUME LogInv, NEW t \in Threads, Push(t)
  PROVE  EachOnceInOrder'
<1> SUFFICES ASSUME NEW s \in Sinks PROVE (output[s] \o Rest(s) \o Queued = logged)'
  BY DEF EachOnceInOrder
<1>1. worker \notin {"draining", "exiting", "exited"} /\ t \in Messages
  BY DEF LogInv, HaltInv, Push, Messages
<1>2. /\ Queued = m_messages /\ Queued' = Append(m_messages, t)
      /\ output'[s] = output[s] /\ Rest(s)' = Rest(s) /\ logged' = Append(logged, t)
  BY <1>1 DEF Push, workerVars, Queued, Rest
<1>3. output[s] \o Rest(s) \o m_messages = logged
  BY <1>2 DEF LogInv, EachOnceInOrder
<1>4. output[s] \o Rest(s) \in Seq(Messages) /\ m_messages \in Seq(Messages)
  BY Parts DEF LogInv, TypeOK
<1>5. (output[s] \o Rest(s)) \o Append(m_messages, t)
        = Append((output[s] \o Rest(s)) \o m_messages, t)
  BY <1>1, <1>4, AppendToQueue
<1> QED BY <1>2, <1>3, <1>5

\* The last batch is the queue and the message of the worker.
LEMMA LoopKeepsOrder ==
  ASSUME LogInv, Loop
  PROVE  EachOnceInOrder'
<1> SUFFICES ASSUME NEW s \in Sinks PROVE (output[s] \o Rest(s) \o Queued = logged)'
  BY DEF EachOnceInOrder
<1>1. tempMessages = <<>> /\ Rest(s) = <<>> /\ Queued = m_messages /\ output'[s] = output[s]
  BY DEF LogInv, HaltInv, Loop, Rest, Queued
<1>2. output[s] \in Seq(Messages) /\ m_messages \in Seq(Messages) /\ Worker \in Messages
  BY DEF LogInv, TypeOK, Messages
<1>3. output[s] \o m_messages = logged
  <2>1. output[s] \o <<>> = output[s]
    BY <1>2, ConcatEmptySeq
  <2> QED BY <1>1, <2>1 DEF LogInv, EachOnceInOrder
<1>4. CASE ~m_quit
  <2>1. Rest(s)' = <<>> /\ Queued' = m_messages /\ logged' = logged
    BY <1>1, <1>4 DEF Loop, Rest, Queued
  <2>2. output[s] \o <<>> = output[s]
    BY <1>2, ConcatEmptySeq
  <2> QED BY <1>1, <1>3, <2>1, <2>2
<1>5. CASE m_quit
  <2>1. Rest(s)' = LastBatch /\ Queued' = <<>> /\ logged' = Append(logged, Worker)
    BY <1>5 DEF Loop, Rest, Queued
  <2>2. output[s] \o LastBatch = Append(logged, Worker)
    <3>1. output[s] \o Append(m_messages, Worker) = Append(output[s] \o m_messages, Worker)
      BY <1>2, AppendToQueue
    <3> QED BY <1>3, <3>1 DEF LastBatch
  <2>3. Append(logged, Worker) \in Seq(Messages)
    BY <1>2, AppendProperties DEF LogInv, TypeOK
  <2> QED BY <1>1, <2>1, <2>2, <2>3, ConcatEmptySeq
<1> QED BY <1>4, <1>5

\* The batch is the queue.
LEMMA TakeBatchKeepsOrder ==
  ASSUME LogInv, TakeBatch
  PROVE  EachOnceInOrder'
<1> SUFFICES ASSUME NEW s \in Sinks PROVE (output[s] \o Rest(s) \o Queued = logged)'
  BY DEF EachOnceInOrder
<1>1. tempMessages = <<>> /\ Rest(s) = <<>> /\ Queued = m_messages
  BY DEF LogInv, HaltInv, TakeBatch, Rest, Queued
<1>2. output[s] \in Seq(Messages) /\ m_messages \in Seq(Messages) /\ logged \in Seq(Messages)
  BY DEF LogInv, TypeOK
<1>3. output[s] \o <<>> = output[s] /\ m_messages \o <<>> = m_messages /\ logged \o <<>> = logged
  BY <1>2, ConcatEmptySeq
<1>4. output[s] \o m_messages = logged
  BY <1>1, <1>3 DEF LogInv, EachOnceInOrder
<1>5. /\ output'[s] = output[s] /\ Rest(s)' = m_messages /\ Queued' = <<>> /\ logged' = logged
  BY <1>1, <1>3 DEF TakeBatch, Rest, Queued
<1> QED BY <1>3, <1>4, <1>5

\* A sink outputs the first message of the batch: no other sink notices.
LEMMA OutputKeepsOrder ==
  ASSUME LogInv, NEW o \in Sinks, OutputFunction(o)
  PROVE  EachOnceInOrder'
<1> SUFFICES ASSUME NEW s \in Sinks PROVE (output[s] \o Rest(s) \o Queued = logged)'
  BY DEF EachOnceInOrder
<1>1. output[s] \o Rest(s) \o Queued = logged
  BY DEF LogInv, EachOnceInOrder
<1>2. Queued' = Queued /\ logged' = logged
  BY DEF OutputFunction, queueVars, Queued
<1>3. output[s] \in Seq(Messages) /\ tempMessages \in Seq(Messages) /\ tempMessages # <<>>
  BY DEF LogInv, TypeOK, OutputFunction, Outputting
<1>4. CASE s = o
  <2>1. /\ Rest(s) = tempMessages /\ Rest(s)' = Tail(tempMessages)
        /\ output'[s] = Append(output[s], Head(tempMessages))
    BY <1>3, <1>4 DEF LogInv, TypeOK, OutputFunction, Rest
  <2>2. Append(output[s], Head(tempMessages)) \o Tail(tempMessages) = output[s] \o tempMessages
    BY <1>3, HeadMoves
  <2> QED BY <1>1, <1>2, <2>1, <2>2
<1>5. CASE s # o
  <2>1. Rest(s)' = Rest(s) /\ output'[s] = output[s]
    BY <1>5 DEF LogInv, TypeOK, OutputFunction, Rest
  <2> QED BY <1>1, <1>2, <2>1
<1> QED BY <1>4, <1>5

\* The other steps move no message.
LEMMA OthersKeepOrder ==
  ASSUME LogInv,
         \/ NextMessage
         \/ BatchDone
         \/ NotifyBatch
         \/ LastNotify
         \/ Quit
         \/ Join
         \/ \E t \in Threads : Lock(t) \/ waitForLogger(t) \/ Wait(t) \/ WakeSpuriously(t)
         \/ UNCHANGED vars
  PROVE  EachOnceInOrder'
<1> SUFFICES ASSUME NEW s \in Sinks PROVE (output[s] \o Rest(s) \o Queued = logged)'
  BY DEF EachOnceInOrder
<1>1. output[s] \o Rest(s) \o Queued = logged
  BY DEF LogInv, EachOnceInOrder
<1>2. output'[s] = output[s] /\ logged' = logged /\ m_messages' = m_messages
  BY DEF NextMessage, BatchDone, NotifyBatch, LastNotify, Quit, Join, Lock, waitForLogger, Wait,
         WakeSpuriously, vars, queueVars, workerVars
<1>3. Rest(s)' = Rest(s)
  <2>1. CASE NextMessage
    BY <2>1 DEF NextMessage, Outputting, Rest
  <2>2. CASE ~NextMessage
    BY <2>2 DEF BatchDone, NotifyBatch, LastNotify, Quit, Join, Lock, waitForLogger,
         Wait, WakeSpuriously, vars, queueVars, workerVars, Rest
  <2> QED BY <2>1, <2>2
<1>4. Queued' = Queued
  BY <1>2 DEF NextMessage, Outputting, BatchDone, NotifyBatch, LastNotify, Quit, Join, Lock,
              waitForLogger, Wait, WakeSpuriously, vars, queueVars, workerVars, Queued
<1> QED BY <1>1, <1>2, <1>3, <1>4

LEMMA LogInvNext == LogInv /\ [Next]_vars => LogInv'
<1> SUFFICES ASSUME LogInv, [Next]_vars PROVE LogInv'
  OBVIOUS
<1>1. TypeOK' /\ HaltInv'
  BY TypeOKNext, HaltInvNext
<1>2. EachOnceInOrder'
  BY PushKeepsOrder, LoopKeepsOrder, TakeBatchKeepsOrder, OutputKeepsOrder, OthersKeepOrder
     DEF Next, update, ThreadStep
<1> QED BY <1>1, <1>2 DEF LogInv

LEMMA LogInvAlways == Spec => []LogInv
BY LogInvInit, LogInvNext, PTL DEF Spec

-----------------------------------------------------------------------------
(* The abstract log.                                                       *)

\* The first message of the batch is the next one that a pending sink needs.
LEMMA OutputIsNext ==
  ASSUME LogInv, NEW s \in Sinks, OutputFunction(s)
  PROVE  Log!Output(s)
<1>1. /\ output[s] \in Seq(Messages) /\ tempMessages \in Seq(Messages) /\ Queued \in Seq(Messages)
      /\ tempMessages # <<>> /\ Rest(s) = tempMessages
  BY Parts DEF LogInv, TypeOK, OutputFunction, Outputting, Rest
<1>2. output[s] \o tempMessages \o Queued = logged
  BY <1>1 DEF LogInv, EachOnceInOrder
<1> DEFINE o == output[s]
           t == tempMessages
<1>3. /\ Len(o) \in Nat /\ Len(t) \in Nat /\ Len(t) # 0 /\ Len(Queued) \in Nat
      /\ o \o t \in Seq(Messages) /\ Len(o \o t) = Len(o) + Len(t)
      /\ (o \o t)[Len(o) + 1] = t[1]
  BY <1>1, ConcatProperties, LenProperties, EmptySeq
<1>4. /\ Len(logged) = Len(o) + Len(t) + Len(Queued)
      /\ logged[Len(o) + 1] = (o \o t)[Len(o) + 1]
  <2> DEFINE a == o \o t
  <2>1. a \in Seq(Messages) /\ Len(a) = Len(o) + Len(t) /\ Len(a) \in Nat /\ a \o Queued = logged
    BY <1>2, <1>3
  <2> HIDE DEF a
  <2>2. /\ Len(a \o Queued) = Len(a) + Len(Queued)
        /\ \A i \in 1 .. Len(a) + Len(Queued) : i <= Len(a) => (a \o Queued)[i] = a[i]
    BY <1>1, <2>1, ConcatProperties
  <2>3. /\ Len(o) + 1 \in 1 .. Len(a) + Len(Queued) /\ Len(o) + 1 <= Len(a)
    BY <1>3, <2>1
  <2>4. Len(logged) = Len(a) + Len(Queued) /\ logged[Len(o) + 1] = a[Len(o) + 1]
    BY <2>1, <2>2, <2>3
  <2> QED BY <2>1, <2>4 DEF a
<1>5. Head(t) = t[1]
  BY <1>1
<1> QED BY <1>3, <1>4, <1>5 DEF OutputFunction, queueVars, Log!Output

LEMMA StepImplementsLog ==
  ASSUME LogInv, [Next]_vars
  PROVE  [Log!Next]_(Log!logVars)
<1>1. ASSUME NEW t \in Threads, Push(t)
      PROVE  Log!Next
  BY <1>1 DEF Push, workerVars, Log!Next, Log!Log, Messages
<1>2. CASE Loop
  BY <1>2 DEF Loop, Log!Next, Log!Log, Log!logVars, Messages
<1>3. ASSUME NEW s \in Sinks, OutputFunction(s)
      PROVE  Log!Next
  BY <1>3, OutputIsNext DEF Log!Next
<1>4. CASE \/ TakeBatch \/ NextMessage \/ BatchDone \/ NotifyBatch \/ LastNotify \/ Quit \/ Join
           \/ \E t \in Threads : Lock(t) \/ waitForLogger(t) \/ Wait(t) \/ WakeSpuriously(t)
           \/ UNCHANGED vars
  BY <1>4 DEF TakeBatch, NextMessage, BatchDone, NotifyBatch, LastNotify, Quit, Join, Lock,
              waitForLogger, Wait, WakeSpuriously, vars, queueVars, workerVars, Log!logVars
<1> QED BY <1>1, <1>2, <1>3, <1>4 DEF Next, update, ThreadStep

-----------------------------------------------------------------------------
(* Theorems.                                                               *)

\* The type invariant of the logger.
THEOREM LoggerTypeCorrect == Spec => []TypeOK
<1>1. LogInv => TypeOK
  BY DEF LogInv
<1> QED BY <1>1, LogInvAlways, PTL

\* However many threads log to however many sinks, none of which waits for
\* another: every message is on its way to every sink once, in order.
THEOREM EveryMessageOnceInOrder == Spec => []EachOnceInOrder
<1>1. LogInv => EachOnceInOrder
  BY DEF LogInv
<1> QED BY <1>1, LogInvAlways, PTL

\* When the program has ended every sink has output all there was to output
\* (Logger.cpp:166-177, 239-248).
THEOREM AllIsOutputAtEnd == Spec => []AllOutputAtEnd
<1>1. LogInv => AllOutputAtEnd
  <2> SUFFICES ASSUME LogInv, main = "joined", NEW s \in Sinks PROVE output[s] = logged
    BY DEF AllOutputAtEnd
  <2>1. Rest(s) = <<>> /\ Queued = <<>>
    BY DEF LogInv, HaltInv, Rest, Queued
  <2>2. output[s] \in Seq(Messages)
    BY DEF LogInv, TypeOK
  <2> QED BY <2>1, <2>2, ConcatEmptySeq DEF LogInv, EachOnceInOrder
<1> QED BY <1>1, LogInvAlways, PTL

\* Every step of the logger is one of the log that its callers see, or none: all of
\* the refinement but the fairness, for any number of threads, sinks and messages.
THEOREM ImplementsMessageLog == Spec => Log!Init /\ [][Log!Next]_(Log!logVars)
<1>1. Init => Log!Init
  BY DEF Init, Log!Init
<1>2. LogInv /\ [Next]_vars => [Log!Next]_(Log!logVars)
  BY StepImplementsLog
<1> QED BY <1>1, <1>2, LogInvAlways, PTL DEF Spec

-----------------------------------------------------------------------------
(* The log file.                                                           *)

\* The log file has not been opened yet.
BeforeFile == main_thread \in {"start", "console", "file", "parsed", "preferred"}

\* Nothing is handed to the sink, nor written, before the stream is tried ...
FileTypes ==
  /\ count \in Nat /\ current \in Nat
  /\ received \in Seq(Nat) /\ messages \in Seq(Nat) /\ log_file \in Seq(Nat)
  /\ stream \in {"unopened", "failed", "open"}
  /\ stream = "unopened" => received = <<>> /\ messages = <<>> /\ log_file = <<>>
  /\ stream # "open" => log_file = <<>>
  /\ BeforeFile => stream # "open"

\* ... and from then on the file and the queue lack at most one message.
LacksAtMostOne ==
  \E lost \in 0..1 : /\ lost <= Len(received)
                     /\ log_file \o messages = SubSeq(received, lost + 1, Len(received))

LogFileInv == FileTypes /\ LacksAtMostOne

\* What is appended to the second of two sequences is appended to them joined.
LEMMA JoinAppend ==
  ASSUME NEW p \in Seq(Nat), NEW q \in Seq(Nat), NEW x \in Nat
  PROVE  p \o Append(q, x) = Append(p \o q, x)
OBVIOUS

\* What two sequences have joined.
LEMMA JoinAt ==
  ASSUME NEW p \in Seq(Nat), NEW q \in Seq(Nat)
  PROVE  /\ p \o q \in Seq(Nat) /\ Len(p \o q) = Len(p) + Len(q)
         /\ \A i \in 1..(Len(p) + Len(q)) :
              (p \o q)[i] = IF i <= Len(p) THEN p[i] ELSE q[i - Len(p)]
OBVIOUS

\* Joined, they do not change if the first of the second becomes the last of the first.
LEMMA JoinMove ==
  ASSUME NEW p \in Seq(Nat), NEW q \in Seq(Nat), q # <<>>
  PROVE  Append(p, Head(q)) \o Tail(q) = p \o q
<1> DEFINE a == Append(p, Head(q))
           b == Tail(q)
           l == a \o b
           r == p \o q
<1>1. /\ Head(q) \in Nat /\ Head(q) = q[1] /\ b \in Seq(Nat) /\ Len(b) = Len(q) - 1
      /\ Len(q) \in Nat \ {0} /\ Len(p) \in Nat
      /\ \A i \in 1..Len(b) : b[i] = q[i + 1]
  OBVIOUS
<1>2. /\ a \in Seq(Nat) /\ Len(a) = Len(p) + 1
      /\ \A i \in 1..(Len(p) + 1) : a[i] = IF i = Len(p) + 1 THEN q[1] ELSE p[i]
  BY <1>1
<1> HIDE DEF a, b
<1>3. /\ l \in Seq(Nat) /\ Len(l) = Len(p) + Len(q)
      /\ \A i \in 1..(Len(p) + Len(q)) :
           l[i] = IF i <= Len(p) + 1 THEN a[i] ELSE b[i - (Len(p) + 1)]
  <2>1. /\ l \in Seq(Nat) /\ Len(l) = Len(a) + Len(b)
        /\ \A i \in 1..(Len(a) + Len(b)) : l[i] = IF i <= Len(a) THEN a[i] ELSE b[i - Len(a)]
    BY <1>1, <1>2, JoinAt
  <2>2. Len(a) + Len(b) = Len(p) + Len(q) /\ Len(a) = Len(p) + 1
    BY <1>1, <1>2
  <2> HIDE DEF l
  <2>. QED
    BY <2>1, <2>2
<1>4. /\ r \in Seq(Nat) /\ Len(r) = Len(p) + Len(q)
      /\ \A i \in 1..(Len(p) + Len(q)) : r[i] = IF i <= Len(p) THEN p[i] ELSE q[i - Len(p)]
  BY JoinAt
<1> HIDE DEF l, r
<1>5. ASSUME NEW i \in 1..(Len(p) + Len(q)) PROVE l[i] = r[i]
  <2>0. /\ i \in Nat \ {0} /\ i <= Len(p) + Len(q) /\ Len(p) \in Nat /\ Len(q) \in Nat
    BY <1>1
  <2>1. l[i] = IF i <= Len(p) + 1 THEN a[i] ELSE b[i - (Len(p) + 1)]
    BY <1>3
  <2>2. r[i] = IF i <= Len(p) THEN p[i] ELSE q[i - Len(p)]
    BY <1>4
  <2>3. CASE i <= Len(p)
    <3>1. a[i] = p[i]
      BY <1>2, <2>0, <2>3
    <3>. QED
      BY <2>0, <2>1, <2>2, <2>3, <3>1
  <2>4. CASE i = Len(p) + 1
    <3>1. a[i] = q[1]
      BY <1>2, <2>0, <2>4
    <3>. QED
      BY <2>0, <2>1, <2>2, <2>4, <3>1
  <2>5. CASE i > Len(p) + 1
    <3>1. i - (Len(p) + 1) \in 1..Len(b)
      BY <1>1, <2>0, <2>5
    <3>2. b[i - (Len(p) + 1)] = q[i - (Len(p) + 1) + 1]
      BY <1>1, <3>1
    <3>. QED
      BY <2>0, <2>1, <2>2, <2>5, <3>2
  <2>. QED
    BY <2>0, <2>3, <2>4, <2>5
<1>6. l = r
  BY <1>3, <1>4, <1>5, SeqEqual
<1>. QED
  BY <1>6 DEF l, r, a, b

\* What is appended to a sequence is appended to its end from any place on.
LEMMA SubSeqOfAppend ==
  ASSUME NEW s \in Seq(Nat), NEW x \in Nat, NEW lost \in 0..1, lost <= Len(s)
  PROVE  SubSeq(Append(s, x), lost + 1, Len(Append(s, x)))
           = Append(SubSeq(s, lost + 1, Len(s)), x)
<1> DEFINE t == Append(s, x)
<1> DEFINE l == SubSeq(t, lost + 1, Len(t))
<1> DEFINE r == Append(SubSeq(s, lost + 1, Len(s)), x)
<1>1. Len(t) = Len(s) + 1 /\ t \in Seq(Nat)
  OBVIOUS
<1>2. /\ l \in Seq(Nat) /\ Len(l) = Len(s) + 1 - lost
      /\ \A i \in 1..Len(l) : l[i] = t[lost + i]
  BY <1>1
<1>3. /\ r \in Seq(Nat) /\ Len(r) = Len(s) + 1 - lost
      /\ \A i \in 1..Len(r) : r[i] = IF i = Len(r) THEN x ELSE s[lost + i]
  OBVIOUS
<1>4. \A i \in 1..Len(l) : l[i] = r[i]
  BY <1>1, <1>2, <1>3
<1>. QED
  BY <1>2, <1>3, <1>4, SeqEqual

LEMMA FileInit == SinksInit => LogFileInv
<1> SUFFICES ASSUME SinksInit PROVE LogFileInv
  OBVIOUS
<1>1. <<>> \o <<>> = SubSeq(<<>>, 0 + 1, Len(<<>>)) /\ <<>> \in Seq(Nat) /\ Len(<<>>) = 0
  OBVIOUS
<1>. QED
  BY <1>1 DEF SinksInit, LogFileInv, FileTypes, LacksAtMostOne, NoMessage

LEMMA FileStep == LogFileInv /\ [SinksNext]_sinkVars => LogFileInv'
<1> SUFFICES ASSUME LogFileInv, [SinksNext]_sinkVars PROVE LogFileInv'
  OBVIOUS
<1>1. CASE OutputToFile
  <2>1. UNCHANGED <<count, current, main_thread>>
    BY <1>1 DEF OutputToFile, Done
  <2>2. CASE disabled
    BY <1>1, <2>1, <2>2 DEF OutputToFile, LogFileInv, FileTypes, LacksAtMostOne, BeforeFile
  <2>3. CASE ~disabled
    <3> DEFINE queue == Append(messages, current)
    <3>1. /\ received' = Append(received, current)
          /\ messages' = IF stream = "failed" THEN queue ELSE <<>>
          /\ log_file' = IF stream = "open" THEN log_file \o queue ELSE log_file
          /\ stream' = IF stream = "unopened" THEN "failed" ELSE stream
      BY <1>1, <2>3 DEF OutputToFile, outputToStream
    <3>2. /\ received' \in Seq(Nat) /\ messages' \in Seq(Nat) /\ log_file' \in Seq(Nat)
          /\ stream' \in {"failed", "open"}
          /\ stream' # "open" => log_file' = <<>>
          /\ stream' = "open" => stream = "open"
      BY <3>1 DEF LogFileInv, FileTypes
    <3>3. CASE stream = "unopened"
      <4>1. received' = <<current>> /\ messages' = <<>> /\ log_file' = <<>>
        BY <3>1, <3>3 DEF LogFileInv, FileTypes
      <4>2. Len(received') = 1 /\ log_file' \o messages' = SubSeq(received', 1 + 1, Len(received'))
        BY <4>1 DEF LogFileInv, FileTypes
      <4>. QED
        BY <2>1, <3>2, <4>2 DEF LogFileInv, FileTypes, LacksAtMostOne, BeforeFile
    <3>4. CASE stream \in {"failed", "open"}
      <4>1. PICK lost \in 0..1 : /\ lost <= Len(received)
                                 /\ log_file \o messages = SubSeq(received, lost + 1, Len(received))
        BY DEF LogFileInv, LacksAtMostOne
      <4>2. /\ received \in Seq(Nat) /\ messages \in Seq(Nat) /\ log_file \in Seq(Nat)
            /\ current \in Nat
        BY DEF LogFileInv, FileTypes
      <4>3. log_file' \o messages' = log_file \o queue
        <5>1. CASE stream = "failed"
          BY <3>1, <5>1
        <5>2. CASE stream = "open"
          <6>1. log_file' = log_file \o queue /\ messages' = <<>>
            BY <3>1, <5>2
          <6>. QED
            BY <3>2, <6>1
        <5>. QED
          BY <3>4, <5>1, <5>2
      <4>4. log_file' \o messages' = Append(log_file \o messages, current)
        BY <4>2, <4>3, JoinAppend
      <4>5. log_file' \o messages' = SubSeq(received', lost + 1, Len(received'))
        BY <3>1, <4>1, <4>2, <4>4, SubSeqOfAppend
      <4>6. lost <= Len(received')
        BY <3>1, <4>1, <4>2
      <4>. QED
        BY <2>1, <3>2, <4>5, <4>6 DEF LogFileInv, FileTypes, LacksAtMostOne, BeforeFile
    <3>. QED
      BY <3>3, <3>4 DEF LogFileInv, FileTypes
  <2>. QED
    BY <2>2, <2>3
<1>2. CASE OpenLogFile
  <2>1. UNCHANGED <<count, current, messages, log_file, received>>
    BY <1>2 DEF OpenLogFile, takenVars
  <2>2. LacksAtMostOne'
    BY <2>1 DEF LogFileInv, LacksAtMostOne
  <2>3. BeforeFile /\ ~BeforeFile' /\ stream' \in {stream, "open", "failed"}
    BY <1>2 DEF OpenLogFile, BeforeFile
  <2>4. FileTypes'
    BY <2>1, <2>3 DEF LogFileInv, FileTypes
  <2>. QED
    BY <2>2, <2>4 DEF LogFileInv
<1>3. CASE TakeMessage
  <2>1. count' = count + 1 /\ current' = count + 1 /\ UNCHANGED <<main_thread, fileVars>>
    BY <1>3 DEF TakeMessage
  <2>2. LacksAtMostOne'
    BY <2>1 DEF LogFileInv, LacksAtMostOne, fileVars
  <2>. QED
    BY <2>1, <2>2 DEF LogFileInv, FileTypes, BeforeFile, fileVars
<1>4. CASE /\ UNCHANGED fileVars
           /\ count' = count
           /\ current' \in {current, NoMessage}
           /\ BeforeFile' => BeforeFile
  <2>1. LacksAtMostOne'
    BY <1>4 DEF LogFileInv, LacksAtMostOne, fileVars
  <2>. QED
    BY <1>4, <2>1 DEF LogFileInv, FileTypes, fileVars, NoMessage
<1>. QED
  <2>1. CASE RegisterConsole \/ RegisterFile \/ InitializePreferences \/ RunApplication
    BY <2>1, <1>4 DEF BeforeFile, RegisterConsole, RegisterFile, Registers, InitializePreferences,
         RunApplication, takenVars
  <2>2. CASE \E args \in Arguments, files \in BOOLEAN : ParseArgs(args, files)
    BY <2>2, <1>4 DEF BeforeFile, ParseArgs, takenVars
  <2>3. CASE RegisterViewer \/ OpenWindow \/ PopulateTreeModel \/ ShowWindow \/ Dispatch
    BY <2>3, <1>4 DEF BeforeFile, RegisterViewer, Registers, OpenWindow, PopulateTreeModel,
         ShowWindow, Dispatch, WindowStep, takenVars
  <2>4. CASE QuitProgram \/ End \/ Crash \/ CrashAgain \/ Killed
    BY <2>4, <1>4 DEF BeforeFile, QuitProgram, End, Crash, CrashAgain, Killed, takenVars
  <2>5. CASE MessageDone \/ OutputToConsole \/ Notify
    BY <2>5, <1>4 DEF BeforeFile, MessageDone, OutputToConsole, Notify, Done, takenVars
  <2>6. CASE KeepMessage \/ PushMessage \/ EmitMessage
    BY <2>6, <1>4 DEF BeforeFile, KeepMessage, PushMessage, EmitMessage, Done, takenVars
  <2>7. CASE UNCHANGED sinkVars
    BY <2>7, <1>4 DEF BeforeFile, sinkVars, takenVars
  <2>. QED
    BY <1>1, <1>2, <1>3, <2>1, <2>2, <2>3, <2>4, <2>5, <2>6, <2>7 DEF SinksNext, SinkWorker

\* The log file and its queue hold what the sink was handed, in order and once, but at
\* most the first message, whenever the file is opened and whether that fails or not.
THEOREM FileAlwaysComplete == SinksSpec => []FileIsComplete
<1>1. LogFileInv => FileIsComplete
  BY DEF LogFileInv, LacksAtMostOne, FileIsComplete
<1>. QED
  BY <1>1, FileInit, FileStep, PTL DEF SinksSpec

-----------------------------------------------------------------------------
(* The log window.                                                         *)

Rising(s)   == \A i, j \in 1..Len(s) : i < j => s[i] < s[j]
Below(s, n) == \A i \in 1..Len(s) : s[i] < n

\* What the window lists and will list.
Listed == rows \o next_messages

WindowTypes ==
  /\ count \in Nat /\ current \in Nat /\ emitted \in Nat
  /\ rows \in Seq(Nat) /\ next_messages \in Seq(Nat) /\ viewable_messages \in Seq(Nat)
  /\ window \in {"none", "building", "populated", "shown"}
  /\ shows \in {"no", "pushing", "emitting"}

\* What is kept and listed is in order and was taken by the worker ...
InOrder ==
  /\ Rising(Listed) /\ Below(Listed, count + 1)
  /\ Rising(viewable_messages) /\ Below(viewable_messages, count + 1)
  /\ current # NoMessage => current = count

\* ... and does not contain the message that the sink still has to keep or to queue.
NotYet ==
  /\ (current # NoMessage /\ "viewer" \in pending_sinks /\ shows = "no") =>
        Below(Listed, current) /\ Below(viewable_messages, current)
  /\ shows = "pushing" => Below(Listed, current)

\* The sink is at work only while the worker waits for it, for a window that is shown.
AtWork ==
  shows # "no" => window = "shown" /\ current # NoMessage /\ "viewer" \in pending_sinks

\* Nothing is queued for a window that is not shown, and for every dispatch asked for, or
\* about to be, a message is.
Dispatches ==
  /\ window # "shown" => next_messages = <<>> /\ emitted = 0
  /\ emitted + (IF shows = "emitting" THEN 1 ELSE 0) <= Len(next_messages)

LogWindowInv == WindowTypes /\ InOrder /\ NotYet /\ AtWork /\ Dispatches

\* Appending a number that none in the sequence reaches keeps the order.
LEMMA AppendSorted ==
  ASSUME NEW s \in Seq(Nat), NEW n \in Nat, Rising(s), Below(s, n)
  PROVE  Rising(Append(s, n)) /\ Below(Append(s, n), n + 1)
<1> DEFINE t == Append(s, n)
<1>1. Len(t) = Len(s) + 1 /\ \A i \in 1..Len(t) : t[i] = IF i = Len(t) THEN n ELSE s[i]
  OBVIOUS
<1>2. \A i \in 1..Len(s) : s[i] \in Nat
  OBVIOUS
<1>3. Below(t, n + 1)
  BY <1>1, <1>2 DEF Below
<1>4. Rising(t)
  BY <1>1, <1>2 DEF Below, Rising
<1>. QED
  BY <1>3, <1>4

\* So does dropping the first.
LEMMA TailSorted ==
  ASSUME NEW s \in Seq(Nat), s # <<>>, NEW n \in Nat, Rising(s), Below(s, n)
  PROVE  Tail(s) \in Seq(Nat) /\ Rising(Tail(s)) /\ Below(Tail(s), n)
<1>1. /\ Tail(s) \in Seq(Nat) /\ Len(Tail(s)) = Len(s) - 1
      /\ \A i \in 1..Len(Tail(s)) : Tail(s)[i] = s[i + 1]
  OBVIOUS
<1>. QED
  BY <1>1 DEF Rising, Below

LEMMA BelowMore ==
  ASSUME NEW s \in Seq(Nat), NEW n \in Nat, NEW k \in Nat, n <= k, Below(s, n)
  PROVE  Below(s, k)
<1>1. \A i \in 1..Len(s) : s[i] \in Nat
  OBVIOUS
<1>. QED
  BY <1>1 DEF Below

LEMMA WindowInit == SinksInit => LogWindowInv
<1> SUFFICES ASSUME SinksInit PROVE LogWindowInv
  OBVIOUS
<1>1. Listed = <<>> /\ Len(<<>>) = 0 /\ <<>> \in Seq(Nat)
  BY DEF SinksInit, Listed
<1>2. Rising(<<>>) /\ \A n \in Nat : Below(<<>>, n)
  BY <1>1 DEF Rising, Below
<1>3. WindowTypes
  BY <1>1 DEF SinksInit, WindowTypes, NoMessage
<1>4. InOrder /\ NotYet /\ AtWork /\ Dispatches
  BY <1>1, <1>2 DEF SinksInit, InOrder, NotYet, AtWork, Dispatches, NoMessage
<1>. QED
  BY <1>3, <1>4 DEF LogWindowInv

\* The steps that leave what is kept and listed, and the sink, alone.
LEMMA OtherStep ==
  ASSUME LogWindowInv, count' = count, current' \in {current, NoMessage},
         pending_sinks' \subseteq pending_sinks, UNCHANGED viewerVars,
         shows # "no" => current' = current /\ pending_sinks' = pending_sinks
  PROVE  LogWindowInv'
<1>1. Listed' = Listed
  BY DEF viewerVars, Listed
<1>2. WindowTypes'
  BY DEF LogWindowInv, WindowTypes, viewerVars, NoMessage
<1>3. InOrder'
  BY <1>1 DEF LogWindowInv, InOrder, viewerVars, NoMessage
<1>4. NotYet'
  BY <1>1 DEF LogWindowInv, WindowTypes, NotYet, viewerVars, NoMessage
<1>5. AtWork' /\ Dispatches'
  BY DEF LogWindowInv, AtWork, Dispatches, viewerVars
<1>. QED
  BY <1>2, <1>3, <1>4, <1>5 DEF LogWindowInv

LEMMA WindowStepKeeps == LogWindowInv /\ [SinksNext]_sinkVars => LogWindowInv'
<1> SUFFICES ASSUME LogWindowInv, [SinksNext]_sinkVars PROVE LogWindowInv'
  OBVIOUS
<1>0. Listed \in Seq(Nat)
  BY DEF LogWindowInv, WindowTypes, Listed
<1>1. CASE TakeMessage
  <2>1. count' = count + 1 /\ current' = count + 1 /\ UNCHANGED viewerVars /\ Listed' = Listed
        /\ shows = "no"
    BY <1>1 DEF TakeMessage, viewerVars, Listed, LogWindowInv, AtWork, WindowTypes
  <2>2. WindowTypes'
    BY <2>1 DEF LogWindowInv, WindowTypes, viewerVars
  <2>3. /\ Below(Listed, current') /\ Below(viewable_messages, current')
        /\ Below(Listed, count' + 1) /\ Below(viewable_messages, count' + 1)
    BY <1>0, <2>1, BelowMore DEF LogWindowInv, WindowTypes, InOrder
  <2>4. InOrder' /\ NotYet'
    BY <2>1, <2>3 DEF LogWindowInv, InOrder, NotYet, viewerVars
  <2>5. AtWork' /\ Dispatches'
    BY <2>1 DEF LogWindowInv, AtWork, Dispatches, viewerVars
  <2>. QED
    BY <2>2, <2>4, <2>5 DEF LogWindowInv
<1>2. CASE KeepMessage
  <2>1. CASE main_thread = "exiting"
    BY <1>2, <2>1, OtherStep DEF KeepMessage, Outputs, Done, viewerVars, LogWindowInv, WindowTypes
  <2>2. CASE main_thread # "exiting"
    <3> DEFINE kept == IF Len(viewable_messages) = VIEWER_BUFFER_SIZE
                       THEN Tail(viewable_messages) ELSE viewable_messages
    <3>1. /\ current # NoMessage /\ "viewer" \in pending_sinks /\ shows = "no"
          /\ viewable_messages' = Append(kept, current)
          /\ UNCHANGED <<rows, next_messages, emitted, window, count, current>>
      BY <1>2, <2>2 DEF KeepMessage, Outputs, Done, takenVars
    <3>2. Listed' = Listed
      BY <3>1 DEF Listed
    <3>3. current = count /\ Below(Listed, current) /\ Below(viewable_messages, current)
          /\ Rising(viewable_messages)
      BY <3>1 DEF LogWindowInv, InOrder, NotYet
    <3>4. kept \in Seq(Nat) /\ Rising(kept) /\ Below(kept, current)
      <4>1. Len(viewable_messages) = VIEWER_BUFFER_SIZE => viewable_messages # <<>>
        BY LogSinksAssumption
      <4>. QED
        BY <3>3, <4>1, TailSorted DEF LogWindowInv, WindowTypes
    <3>5. viewable_messages' \in Seq(Nat) /\ Rising(viewable_messages')
          /\ Below(viewable_messages', count + 1)
      <4>1. kept \in Seq(Nat) /\ current \in Nat /\ count \in Nat
        BY <3>4 DEF LogWindowInv, WindowTypes
      <4>2. Rising(Append(kept, current)) /\ Below(Append(kept, current), current + 1)
        BY <3>4, <4>1, AppendSorted
      <4>. QED
        BY <3>1, <3>3, <4>1, <4>2
    <3>6. InOrder'
      BY <3>1, <3>2, <3>5 DEF LogWindowInv, InOrder
    <3>7. CASE window = "shown"
      <4>1. shows' = "pushing" /\ pending_sinks' = pending_sinks
        BY <1>2, <2>2, <3>7 DEF KeepMessage, takenVars
      <4>2. WindowTypes' /\ NotYet' /\ AtWork' /\ Dispatches'
        BY <3>1, <3>2, <3>3, <3>5, <3>7, <4>1 DEF LogWindowInv, WindowTypes, NotYet, AtWork, Dispatches
      <4>. QED
        BY <3>6, <4>2 DEF LogWindowInv
    <3>8. CASE window # "shown"
      <4>1. shows' = "no" /\ pending_sinks' = pending_sinks \ {"viewer"}
        BY <1>2, <2>2, <3>8 DEF KeepMessage, Done
      <4>2. WindowTypes' /\ NotYet' /\ AtWork' /\ Dispatches'
        BY <3>1, <3>5, <3>8, <4>1 DEF LogWindowInv, WindowTypes, NotYet, AtWork, Dispatches
      <4>. QED
        BY <3>6, <4>2 DEF LogWindowInv
    <3>. QED
      BY <3>7, <3>8
  <2>. QED
    BY <2>1, <2>2
<1>3. CASE PushMessage
  <2>1. /\ shows = "pushing" /\ shows' = "emitting" /\ next_messages' = Append(next_messages, current)
        /\ UNCHANGED <<count, current, pending_sinks, rows, viewable_messages, emitted, window>>
    BY <1>3 DEF PushMessage, takenVars
  <2>2. Below(Listed, current) /\ current = count /\ window = "shown"
    BY <2>1 DEF LogWindowInv, InOrder, NotYet, AtWork
  <2>3. Listed' = Append(Listed, current)
    BY <2>1 DEF LogWindowInv, WindowTypes, Listed
  <2>4. Rising(Listed') /\ Below(Listed', count + 1)
    BY <1>0, <2>2, <2>3, AppendSorted DEF LogWindowInv, WindowTypes, InOrder
  <2>5. InOrder'
    BY <2>1, <2>4 DEF LogWindowInv, InOrder
  <2>6. WindowTypes' /\ NotYet' /\ AtWork'
    BY <2>1, <2>2 DEF LogWindowInv, WindowTypes, NotYet, AtWork
  <2>7. Dispatches'
    BY <2>1, <2>2 DEF LogWindowInv, WindowTypes, Dispatches
  <2>. QED
    BY <2>5, <2>6, <2>7 DEF LogWindowInv
<1>4. CASE EmitMessage
  <2>1. /\ shows = "emitting"
        /\ UNCHANGED <<count, current, rows, next_messages, viewable_messages, window>>
        /\ \/ emitted' = emitted + 1 /\ shows' = "no" /\ pending_sinks' = pending_sinks \ {"viewer"}
           \/ UNCHANGED <<emitted, shows, pending_sinks>>
    BY <1>4 DEF EmitMessage, Done, takenVars
  <2>2. Listed' = Listed
    BY <2>1 DEF Listed
  <2>3. WindowTypes' /\ InOrder' /\ NotYet' /\ AtWork'
    BY <2>1, <2>2 DEF LogWindowInv, WindowTypes, InOrder, NotYet, AtWork
  <2>4. Dispatches'
    BY <2>1 DEF LogWindowInv, WindowTypes, Dispatches, AtWork
  <2>. QED
    BY <2>3, <2>4 DEF LogWindowInv
<1>5. CASE OpenWindow \/ ShowWindow
  <2>1. /\ window # "shown" /\ window' \in {"building", "shown"}
        /\ UNCHANGED <<count, current, pending_sinks, rows, next_messages, viewable_messages, emitted, shows>>
    BY <1>5 DEF OpenWindow, ShowWindow, WindowStep, takenVars
  <2>2. Listed' = Listed
    BY <2>1 DEF Listed
  <2>. QED
    BY <2>1, <2>2 DEF LogWindowInv, WindowTypes, InOrder, NotYet, AtWork, Dispatches
<1>6. CASE PopulateTreeModel
  <2>1. /\ window = "building" /\ window' = "populated" /\ rows' = viewable_messages
        /\ UNCHANGED <<count, current, pending_sinks, next_messages, viewable_messages, emitted, shows>>
    BY <1>6 DEF PopulateTreeModel, WindowStep, takenVars
  <2>2. next_messages = <<>> /\ emitted = 0 /\ shows = "no"
    BY <2>1 DEF LogWindowInv, Dispatches, AtWork
  <2>3. Listed' = viewable_messages
    BY <2>1, <2>2 DEF Listed, LogWindowInv, WindowTypes
  <2>. QED
    BY <2>1, <2>2, <2>3 DEF LogWindowInv, WindowTypes, InOrder, NotYet, AtWork, Dispatches
<1>7. CASE Dispatch
  <2>1. /\ emitted > 0 /\ next_messages # <<>>
        /\ rows' = Append(rows, Head(next_messages)) /\ next_messages' = Tail(next_messages)
        /\ emitted' = emitted - 1
        /\ UNCHANGED <<count, current, pending_sinks, viewable_messages, window, shows>>
    BY <1>7 DEF Dispatch, WindowStep, takenVars
  <2>2. rows' \in Seq(Nat) /\ next_messages' \in Seq(Nat) /\ Len(next_messages') = Len(next_messages) - 1
    BY <2>1 DEF LogWindowInv, WindowTypes
  <2>3. Listed' = Listed
    BY <2>1, JoinMove DEF Listed, LogWindowInv, WindowTypes
  <2>4. WindowTypes'
    BY <2>1, <2>2 DEF LogWindowInv, WindowTypes
  <2>5. InOrder' /\ NotYet' /\ AtWork'
    BY <2>1, <2>3 DEF LogWindowInv, InOrder, NotYet, AtWork
  <2>6. Dispatches'
    BY <2>1, <2>2 DEF LogWindowInv, WindowTypes, Dispatches
  <2>. QED
    BY <2>4, <2>5, <2>6 DEF LogWindowInv
<1>8. CASE MessageDone
  <2>1. /\ shows = "no" /\ current' = NoMessage /\ count' = count
        /\ pending_sinks' = pending_sinks /\ UNCHANGED viewerVars
    BY <1>8 DEF MessageDone, LogWindowInv, AtWork
  <2>. QED
    BY <2>1, OtherStep
<1>9. CASE OutputToConsole \/ OutputToFile
  <2>1. shows = "no" /\ current' = current /\ count' = count /\ pending_sinks' \subseteq pending_sinks
        /\ UNCHANGED viewerVars
    BY <1>9 DEF OutputToConsole, OutputToFile, Outputs, Done
  <2>. QED
    BY <2>1, OtherStep
<1>10. CASE UNCHANGED <<takenVars, viewerVars>>
  BY <1>10, OtherStep DEF takenVars
<1>. QED
  <2>1. CASE RegisterConsole \/ RegisterFile \/ RegisterViewer \/ InitializePreferences \/ RunApplication
    BY <2>1, <1>10 DEF RegisterConsole, RegisterFile, RegisterViewer, Registers, InitializePreferences,
         RunApplication
  <2>2. CASE \E args \in Arguments, files \in BOOLEAN : ParseArgs(args, files)
    BY <2>2, <1>10 DEF ParseArgs
  <2>3. CASE QuitProgram \/ End \/ Crash \/ CrashAgain \/ Killed \/ OpenLogFile \/ Notify
    BY <2>3, <1>10 DEF QuitProgram, End, Crash, CrashAgain, Killed, OpenLogFile, Notify
  <2>4. CASE UNCHANGED sinkVars
    BY <2>4, <1>10 DEF sinkVars
  <2>. QED
    BY <1>1, <1>2, <1>3, <1>4, <1>5, <1>6, <1>7, <1>8, <1>9, <2>1, <2>2, <2>3, <2>4 DEF SinksNext, SinkWorker

\* The log window lists messages in the order of the log and none twice, and there is a
\* message for every dispatch that was asked for.
THEOREM WindowAlwaysFollows == SinksSpec => []WindowFollowsLog
<1>1. LogWindowInv => WindowFollowsLog
  BY DEF LogWindowInv, WindowTypes, InOrder, Dispatches, Rising, Listed, WindowFollowsLog
<1>. QED
  BY <1>1, WindowInit, WindowStepKeeps, PTL DEF SinksSpec

-----------------------------------------------------------------------------
(* Preferences: paths and numbers.                                         *)

LEMMA PathsAre ==
  /\ Len(Sorted) \in Nat /\ Len(Known) \in Nat /\ Len(Startup) \in Nat
  /\ \A i \in 1..Len(Sorted) : Sorted[i] \in Paths
  /\ \A p \in Paths : \E i \in 1..Len(Sorted) : Sorted[i] = p
  /\ \A i \in 1..Len(Known) : Known[i] \in Tracked
  /\ \A p \in Tracked : \E i \in 1..Len(Known) : Known[i] = p
  /\ \A i \in 1..Len(Startup) : Startup[i] \in Tracked
  /\ Tracked \subseteq Paths
<1>1. Known \in Seq(Tracked) /\ Unknown \in Seq(Paths) /\ Startup \in Seq(Tracked)
  BY PreferencesAssumption
<1>2. /\ Len(Known) \in Nat /\ DOMAIN Known = 1..Len(Known)
      /\ Len(Unknown) \in Nat /\ DOMAIN Unknown = 1..Len(Unknown)
      /\ Len(Startup) \in Nat /\ \A i \in 1..Len(Startup) : Startup[i] \in Tracked
  BY <1>1
<1>3. /\ Len(Sorted) = Len(Known) + Len(Unknown) /\ DOMAIN Sorted = 1..Len(Sorted)
      /\ \A i \in 1..Len(Known) : Sorted[i] = Known[i]
  BY <1>1, <1>2 DEF Sorted
<1>4. Tracked \subseteq Paths
  BY <1>2, <1>3 DEF Tracked, Paths, ToSet
<1>. QED
  BY <1>2, <1>3, <1>4 DEF Tracked, Paths, ToSet

\* A set of numbers that is not empty has a least one.
LEMMA LeastExists ==
  ASSUME NEW S, S \subseteq Nat, S # {}
  PROVE  \E x \in S : \A y \in S : x <= y
<1> DEFINE Less == {ss \in Nat \X Nat : ss[1] < ss[2]}
<1>1. IsWellFoundedOn(Less, Nat)
  BY NatLessThanWellFounded, Zenon DEF OpToRel
<1> HIDE DEF Less
<1>2. PICK x \in S : \A y \in S : <<y, x>> \notin Less
  BY <1>1, WFMin
<1>3. ASSUME NEW y \in S PROVE x <= y
  <2>1. x \in Nat /\ y \in Nat
    OBVIOUS
  <2>2. y < x => <<y, x>> \in Less
    BY <2>1 DEF Less
  <2>. QED
    BY <1>2, <2>1, <2>2
<1>. QED
  BY <1>3

\* What holds of 0 and of the next number holds up to any number.
LEMMA FromZeroOn ==
  ASSUME NEW N \in Nat, NEW T, 0 \in T, \A n \in 0 .. N - 1 : n \in T => n + 1 \in T
  PROVE  0 .. N \subseteq T
<1> SUFFICES ASSUME (0 .. N) \ T # {} PROVE FALSE
  OBVIOUS
<1> DEFINE rest == (0 .. N) \ T
<1>0. rest \subseteq Nat /\ rest # {}
  OBVIOUS
<1> HIDE DEF rest
<1>1. PICK m \in rest : \A l \in rest : m <= l
  BY <1>0, LeastExists
<1> USE DEF rest
<1>2. m - 1 \in 0 .. N - 1 /\ ~(m <= m - 1)
  BY <1>1
<1>3. m - 1 \in T /\ (m - 1) + 1 = m
  BY <1>1, <1>2
<1>. QED
  BY <1>1, <1>2, <1>3

-----------------------------------------------------------------------------
(* References.                                                             *)

\* f holds the first m steps from p.
IsWalk(f, m, sections, p) ==
  f = [n \in 0..m |-> IF n = 0 THEN p ELSE Follow(sections, f[n - 1])]

LEMMA WalksExist ==
  ASSUME NEW sections, NEW p, NEW N \in Nat
  PROVE  \E f : IsWalk(f, N, sections, p)
<1> DEFINE T == {m \in 0 .. N : \E f : IsWalk(f, m, sections, p)}
<1>1. 0 \in T
  <2> DEFINE f == [n \in 0..0 |-> p]
  <2>1. IsWalk(f, 0, sections, p)
    BY DEF IsWalk
  <2>. QED
    BY <2>1
<1>2. ASSUME NEW m \in 0 .. N - 1, m \in T PROVE m + 1 \in T
  <2>1. PICK f : IsWalk(f, m, sections, p)
    BY <1>2
  <2> DEFINE g == [n \in 0..m + 1 |-> IF n = m + 1 THEN Follow(sections, f[m]) ELSE f[n]]
  <2>2. \A n \in 0..m : f[n] = IF n = 0 THEN p ELSE Follow(sections, f[n - 1])
    BY <2>1 DEF IsWalk
  <2>3. ASSUME NEW n \in 0..m + 1
        PROVE  g[n] = IF n = 0 THEN p ELSE Follow(sections, g[n - 1])
    <3>1. CASE n = m + 1
      <4>1. g[m] = f[m] /\ n # 0 /\ n - 1 = m
        BY <3>1
      <4>2. g[n] = Follow(sections, f[m])
        BY <3>1
      <4>. QED
        BY <4>1, <4>2
    <3>2. CASE n \in 0..m
      <4>1. g[n] = f[n] /\ (n # 0 => g[n - 1] = f[n - 1])
        BY <3>2
      <4>. QED
        BY <2>2, <3>2, <4>1
    <3>. QED
      BY <3>1, <3>2
  <2>4. DOMAIN g = 0..m + 1 /\ g = [n \in 0..m + 1 |-> g[n]]
    OBVIOUS
  <2> HIDE DEF g
  <2>5. IsWalk(g, m + 1, sections, p)
    BY <2>3, <2>4 DEF IsWalk
  <2>. QED
    BY <1>2, <2>5
<1> HIDE DEF T
<1>3. 0 .. N \subseteq T
  BY <1>1, <1>2, FromZeroOn
<1>. QED
  BY <1>3 DEF T

\* References end at a path, or not at all; where there is none they end at once.
LEMMA EndIs ==
  ASSUME NEW sections, NEW p \in Paths
  PROVE  /\ EndOfReferences(sections, p) \in Paths \union {Crashed}
         /\ sections[p] \notin Paths => EndOfReferences(sections, p) = p
<1> DEFINE N == Len(Sorted)
<1>0. N \in Nat
  BY PathsAre
<1> DEFINE f == CHOOSE f : IsWalk(f, N, sections, p)
<1>1. IsWalk(f, N, sections, p)
  BY <1>0, WalksExist
<1>2. EndOfReferences(sections, p) = IF sections[f[N]] \in Paths THEN Crashed ELSE f[N]
  BY DEF EndOfReferences, IsWalk
<1> HIDE DEF f, N
<1>3. \A n \in 0..N : f[n] = IF n = 0 THEN p ELSE Follow(sections, f[n - 1])
  BY <1>1 DEF IsWalk
<1>4. f[N] \in Paths
  <2> DEFINE T == {n \in 0..N : f[n] \in Paths}
  <2>1. 0 \in T
    BY <1>0, <1>3
  <2>2. ASSUME NEW n \in 0..N - 1, n \in T PROVE n + 1 \in T
    <3>1. n + 1 \in 0..N /\ n + 1 # 0 /\ (n + 1) - 1 = n
      BY <1>0
    <3>2. f[n + 1] = Follow(sections, f[n])
      BY <1>3, <3>1
    <3>. QED
      BY <2>2, <3>1, <3>2 DEF Follow
  <2> HIDE DEF T
  <2>3. 0..N \subseteq T
    BY <1>0, <2>1, <2>2, FromZeroOn
  <2>. QED
    BY <1>0, <2>3 DEF T
<1>5. ASSUME sections[p] \notin Paths PROVE f[N] = p
  <2> DEFINE T == {n \in 0..N : f[n] = p}
  <2>1. 0 \in T
    BY <1>0, <1>3
  <2>2. ASSUME NEW n \in 0..N - 1, n \in T PROVE n + 1 \in T
    <3>1. n + 1 \in 0..N /\ n + 1 # 0 /\ (n + 1) - 1 = n
      BY <1>0
    <3>2. f[n + 1] = Follow(sections, f[n])
      BY <1>3, <3>1
    <3>. QED
      BY <1>5, <2>2, <3>1, <3>2 DEF Follow
  <2> HIDE DEF T
  <2>3. 0..N \subseteq T
    BY <1>0, <2>1, <2>2, FromZeroOn
  <2>. QED
    BY <1>0, <2>3 DEF T
<1>. QED
  BY <1>2, <1>4, <1>5

\* What is read is of the type that is asked for, and a plain value of that type is read
\* as it is.
LEMMA ExpandedIs ==
  ASSUME NEW sections \in Sections, NEW p \in Paths, NEW type
  PROVE  /\ Expanded(sections, p, type) \in Values \union {NoValue, Crashed}
         /\ Expanded(sections, p, type) \in Values => SameType(Expanded(sections, p, type), type)
         /\ sections[p] \in Values /\ ~IsReference(sections[p]) /\ SameType(sections[p], type) =>
              Expanded(sections, p, type) = sections[p]
<1> DEFINE end == EndOfReferences(sections, p)
           found == IF end = Crashed THEN Crashed
                    ELSE IF sections[end] # DEFAULT THEN sections[end]
                    ELSE IF end \in Tracked THEN DefaultValue[end] ELSE NoValue
<1>1. end \in Paths \union {Crashed} /\ (sections[p] \notin Paths => end = p)
  BY EndIs
<1>2. Expanded(sections, p, type) =
        IF found = Crashed \/ (found # NoValue /\ SameType(found, type)) THEN found ELSE NoValue
  BY DEF Expanded
<1>3. found \in Values \union {NoValue, Crashed}
  BY <1>1, PreferencesAssumption DEF Sections, Values
<1>4. NoValue \notin Values /\ Crashed \notin Values \union {NoValue} /\ p # Crashed
  BY PreferencesAssumption DEF Values
<1>5. sections[p] \in Values /\ ~IsReference(sections[p]) => found = sections[p]
  BY <1>1, <1>4 DEF IsReference
<1> HIDE DEF found
<1>. QED
  BY <1>2, <1>3, <1>4, <1>5

-----------------------------------------------------------------------------
(* Reading the file.                                                       *)

LEMMA FirstStopIs ==
  ASSUME NEW f
  PROVE  /\ FirstStop(f) \in 1..Len(Sorted) + 1
         /\ FirstStop(f) \in 1..Len(Sorted) => f[Sorted[FirstStop(f)]] = Unreadable
         /\ \A i \in 1..FirstStop(f) - 1 : f[Sorted[i]] # Unreadable
<1> DEFINE N == Len(Sorted)
           stops == {n \in 1..N + 1 : n \in 1..N => f[Sorted[n]] = Unreadable}
<1>1. N \in Nat
  BY PathsAre
<1> HIDE DEF N
<1>2. stops \subseteq Nat /\ N + 1 \in stops
  BY <1>1
<1>3. PICK n \in stops : \A m \in stops : n <= m
  BY <1>2, LeastExists
<1>4. ASSUME NEW i \in 1..n - 1 PROVE f[Sorted[i]] # Unreadable
  <2>1. i \in 1..N /\ ~(n <= i)
    BY <1>1, <1>3
  <2>2. i \notin stops
    BY <1>3, <2>1
  <2>. QED
    BY <1>1, <2>1, <2>2
<1>5. \E k \in 1..N + 1 : /\ k \in 1..N => f[Sorted[k]] = Unreadable
                          /\ \A i \in 1..k - 1 : f[Sorted[i]] # Unreadable
  BY <1>3, <1>4
<1>. QED
  BY <1>5 DEF FirstStop, N

\* A file that stops the reader nowhere is read to its end.
LEMMA NoStop ==
  ASSUME NEW f, \A p \in Paths : f[p] # Unreadable
  PROVE  FirstStop(f) > Len(Sorted)
<1>1. /\ FirstStop(f) \in 1..Len(Sorted) + 1
      /\ FirstStop(f) \in 1..Len(Sorted) => f[Sorted[FirstStop(f)]] = Unreadable
  BY FirstStopIs
<1>2. Len(Sorted) \in Nat /\ \A i \in 1..Len(Sorted) : Sorted[i] \in Paths
  BY PathsAre
<1>. QED
  BY <1>1, <1>2

\* Reading a file takes no value away, and changes the language only if the file has one.
LEMMA OverlaidIs ==
  ASSUME NEW f \in Contents, NEW sections \in Sections
  PROVE  /\ Overlaid(f, sections) \in Sections
         /\ \A p \in Paths : sections[p] # NoValue => Overlaid(f, sections)[p] # NoValue
         /\ \A p \in Paths : Overlaid(f, [q \in Paths |-> NoValue])[p] = NoValue =>
                               Overlaid(f, sections)[p] = sections[p]
         /\ FirstStop(f) > Len(Sorted) =>
              \A p \in Paths : Overlaid(f, sections)[p] = IF f[p] # NoValue THEN f[p] ELSE sections[p]
<1> DEFINE At(p) == CHOOSE i \in 1..Len(Sorted) : Sorted[i] = p
           Read(p, s) == IF At(p) < FirstStop(f) /\ f[p] # NoValue THEN f[p]
                         ELSE IF At(p) = FirstStop(f) /\ s[p] = NoValue THEN Number
                         ELSE s[p]
<1>1. \A p \in Paths : At(p) \in 1..Len(Sorted) /\ Sorted[At(p)] = p
  BY PathsAre
<1>2. FirstStop(f) \in 1..Len(Sorted) + 1 /\ Len(Sorted) \in Nat
  BY FirstStopIs, PathsAre
<1>3. \A i \in 1..FirstStop(f) - 1 : f[Sorted[i]] # Unreadable
  BY FirstStopIs
<1>4. \A s : Overlaid(f, s) = [p \in Paths |-> Read(p, s)]
  BY DEF Overlaid
<1>5. Number \in Values /\ NoValue \notin Values
  BY PreferencesAssumption DEF Values
<1> HIDE DEF At
<1>6. \A p \in Paths : At(p) < FirstStop(f) /\ f[p] # NoValue => f[p] \in Values
  <2> SUFFICES ASSUME NEW p \in Paths, At(p) < FirstStop(f), f[p] # NoValue PROVE f[p] \in Values
    OBVIOUS
  <2>1. At(p) \in 1..FirstStop(f) - 1 /\ Sorted[At(p)] = p
    BY <1>1, <1>2
  <2>2. f[p] # Unreadable
    BY <1>3, <2>1
  <2>. QED
    BY <2>2 DEF Contents
<1>7. \A p \in Paths : Read(p, sections) \in Values \union {NoValue}
  BY <1>5, <1>6 DEF Sections
<1>8. \A p \in Paths : Overlaid(f, sections)[p] = Read(p, sections)
  BY <1>4
<1>9. \A p \in Paths : sections[p] # NoValue => Read(p, sections) # NoValue
  BY <1>5, <1>6
<1> DEFINE none == [q \in Paths |-> NoValue]
<1>10. \A p \in Paths : Overlaid(f, none)[p] = Read(p, none) /\ none[p] = NoValue
  BY <1>4
<1> HIDE DEF none
<1>11. \A p \in Paths : Overlaid(f, none)[p] = NoValue => Read(p, sections) = sections[p]
  BY <1>5, <1>6, <1>10
<1>12. \A p \in Paths : FirstStop(f) > Len(Sorted) => At(p) < FirstStop(f)
  BY <1>1, <1>2
<1>13. FirstStop(f) > Len(Sorted) =>
         \A p \in Paths : Read(p, sections) = IF f[p] # NoValue THEN f[p] ELSE sections[p]
  BY <1>1, <1>2, <1>12
<1>14. Overlaid(f, sections) \in Sections
  BY <1>4, <1>7 DEF Sections
<1>. QED
  BY <1>8, <1>9, <1>11, <1>13, <1>14 DEF none

\* An instance as it is between two steps: every known path has a value, and the locale
\* is the language.
Sound(P) ==
  /\ P \in Instances
  /\ \A p \in Tracked : P.m_sections[p] # NoValue
  /\ P.locale = P.m_sections[language]

Files == {Missing, Torn} \union Contents

\* The file can be read to its end.
Whole(f) == f # Torn /\ FirstStop(f) > Len(Sorted)

\* An instance that has read all of its file: reading leaves it alone from now on.
Settled(P) == P.m_initialized /\ Validated(P)

LEMMA InitializedIs ==
  ASSUME NEW P, Sound(P), NEW f \in Contents
  PROVE  LET Q == Initialized(P, f) IN
           /\ Q # Crashed =>
                /\ Sound(Q)
                /\ Q.m_sections = Overlaid(f, P.m_sections)
                /\ Whole(f) => Q.m_initialized
           /\ Overlaid(f, P.m_sections)[language] \notin Switches \union {Number} => Q # Crashed
<1> DEFINE loaded == [P EXCEPT !.m_sections = Overlaid(f, @)]
           none == [p \in Paths |-> NoValue]
           new == Overlaid(f, P.m_sections)[language]
           called == IF Overlaid(f, none)[language] = NoValue THEN loaded
                     ELSE Callback(loaded, loaded.m_sections[language])
           Q == Initialized(P, f)
<1>0. P \in Instances /\ P.m_sections \in Sections /\ language \in Paths /\ language \in Tracked
  BY PathsAre, PreferencesAssumption DEF Sound, Instances
<1>1. /\ Overlaid(f, P.m_sections) \in Sections
      /\ \A p \in Tracked : Overlaid(f, P.m_sections)[p] # NoValue
      /\ Overlaid(f, none)[language] = NoValue => new = P.m_sections[language]
  <2>1. \A p \in Tracked : P.m_sections[p] # NoValue
    BY DEF Sound
  <2> DEFINE sections == P.m_sections
  <2>2. sections \in Sections
    BY <1>0
  <2> HIDE DEF sections
  <2>3. /\ Overlaid(f, sections) \in Sections
        /\ \A p \in Paths : sections[p] # NoValue => Overlaid(f, sections)[p] # NoValue
        /\ \A p \in Paths : Overlaid(f, none)[p] = NoValue => Overlaid(f, sections)[p] = sections[p]
    BY <2>2, OverlaidIs
  <2>. QED
    BY <1>0, <2>1, <2>3, PathsAre DEF sections
<1>2. new \in Values
  BY <1>0, <1>1 DEF Sections
<1> HIDE DEF none, new
<1>3. /\ loaded \in Instances /\ loaded.m_sections = Overlaid(f, P.m_sections)
      /\ loaded.locale = P.locale
  BY <1>0, <1>1 DEF Instances
<1>4. /\ called # Crashed => Sound(called) /\ called.m_sections = Overlaid(f, P.m_sections)
      /\ new \notin Switches \union {Number} => Sound(called)
  <2>1. CASE Overlaid(f, none)[language] = NoValue
    BY <1>1, <1>3, <2>1 DEF Sound, new
  <2>2. CASE Overlaid(f, none)[language] # NoValue
    <3>1. loaded.m_sections[language] = new
      BY <1>3 DEF new
    <3> HIDE DEF loaded
    <3>2. CASE new \in Switches \union {Number}
      BY <2>2, <3>1, <3>2 DEF Callback
    <3>3. CASE new \notin Switches \union {Number}
      <4>1. called = [loaded EXCEPT !.locale = new]
        BY <2>2, <3>1, <3>3 DEF Callback
      <4>2. called \in Instances /\ called.m_sections = loaded.m_sections /\ called.locale = new
        BY <1>2, <1>3, <4>1 DEF Instances
      <4>. QED
        BY <1>1, <1>3, <3>1, <4>2 DEF Sound
    <3>. QED
      BY <3>2, <3>3
  <2>. QED
    BY <2>1, <2>2
<1>5. Q = IF f = Torn THEN Crashed
          ELSE IF called = Crashed \/ FirstStop(f) <= Len(Sorted) THEN called
          ELSE [called EXCEPT !.m_initialized = TRUE, !.m_dirty = FALSE]
  BY DEF Initialized, none
<1> HIDE DEF called, Q
<1>8. Crashed \notin Instances
  BY PreferencesAssumption
<1>6. CASE called = Crashed \/ FirstStop(f) <= Len(Sorted)
  <2>1. Q # Crashed => Q = called /\ called # Crashed /\ ~Whole(f)
    BY <1>5, <1>6, FirstStopIs, PathsAre DEF Whole
  <2>2. new \notin Switches \union {Number} => Q # Crashed
    <3>1. f # Torn
      BY PreferencesAssumption
    <3>2. Sound(called) => called # Crashed
      BY <1>8 DEF Sound
    <3>. QED
      BY <1>4, <1>5, <1>6, <3>1, <3>2
  <2>. QED
    BY <1>4, <2>1, <2>2 DEF Q, new
<1>7. CASE called # Crashed /\ ~(FirstStop(f) <= Len(Sorted))
  <2>1. Q # Crashed => Q = [called EXCEPT !.m_initialized = TRUE, !.m_dirty = FALSE]
    BY <1>5, <1>7
  <2>2. called \in Instances
    BY <1>4, <1>7 DEF Sound
  <2>3. Q # Crashed => /\ Q \in Instances /\ Q.m_sections = called.m_sections
                       /\ Q.locale = called.locale /\ Q.m_initialized
    BY <2>1, <2>2 DEF Instances
  <2>4. Q # Crashed
    <3>1. f # Torn
      BY PreferencesAssumption
    <3>2. Q = [called EXCEPT !.m_initialized = TRUE, !.m_dirty = FALSE]
      BY <1>5, <1>7, <3>1
    <3>3. Q \in Instances
      BY <2>2, <3>2 DEF Instances
    <3>. QED
      BY <1>8, <3>3
  <2>. QED
    BY <1>4, <1>7, <2>3, <2>4 DEF Sound, Q
<1>. QED
  BY <1>6, <1>7

\* Reading the file keeps an instance sound, and leaves one alone that has read all of it.
LEMMA GetInstanceIs ==
  ASSUME NEW P, Sound(P), NEW f \in Files
  PROVE  /\ GetInstance(P, f) # Crashed => Sound(GetInstance(P, f))
         /\ P.m_initialized => GetInstance(P, f) = P
         /\ P # Crashed
<1>1. P # Crashed
  BY PreferencesAssumption DEF Sound
<1>2. CASE f = Torn
  BY <1>1, <1>2 DEF GetInstance, Initialized
<1>3. CASE f \in Contents
  <2>1. Initialized(P, f) # Crashed => Sound(Initialized(P, f))
    BY <1>3, InitializedIs
  <2>. QED
    BY <1>1, <2>1 DEF GetInstance
<1>4. CASE f = Missing
  BY <1>1, <1>4 DEF GetInstance
<1>. QED
  BY <1>2, <1>3, <1>4 DEF Files

-----------------------------------------------------------------------------
(* Changing a value.                                                       *)

\* A default is of its own type and no reference, and a text is no switch.
LEMMA DefaultsAre ==
  /\ \A p \in Tracked : DefaultValue[p] \in Values /\ SameType(DefaultValue[p], DefaultValue[p])
  /\ \A v \in Values : IsReference(v) => v \notin Switches \union {Number}
  /\ \A v \in Values : SameType(v, DefaultValue[language]) => v \notin Switches \union {Number}
BY PreferencesAssumption DEF Values, SameType, IsReference

\* A change is made if the value has the type of the default, and else refused.
LEMMA SetValueIs ==
  ASSUME NEW P, Sound(P), NEW p \in Tracked, NEW v \in Values
  PROVE  LET Q == SetValue(P, p, v) IN
           /\ Sound(Q)
           /\ Q.m_initialized = P.m_initialized
           /\ SameType(v, DefaultValue[p]) => Q.m_sections = [P.m_sections EXCEPT ![p] = v]
           /\ ~SameType(v, DefaultValue[p]) => Q = P
<1> DEFINE called == IF p = language THEN Callback(P, v) ELSE P
           Q == SetValue(P, p, v)
<1>0. /\ P \in Instances /\ P # Crashed /\ P.m_sections \in Sections
      /\ \A q \in Tracked : P.m_sections[q] # NoValue
      /\ P.locale = P.m_sections[language] /\ language \in Tracked
  BY PreferencesAssumption DEF Sound, Instances
<1>1. CASE ~SameType(v, DefaultValue[p])
  BY <1>0, <1>1 DEF SetValue
<1>2. CASE SameType(v, DefaultValue[p])
  <2>1. HasValue(P.m_sections, p)
    BY <1>0 DEF HasValue
  <2>2. Q = [called EXCEPT !.m_sections[p] = v, !.m_dirty = TRUE]
    BY <1>0, <1>2, <2>1 DEF SetValue
  <2>3. /\ called \in Instances /\ called.m_sections = P.m_sections
        /\ called.m_initialized = P.m_initialized
        /\ called.locale = IF p = language THEN v ELSE P.locale
    <3>1. CASE p = language
      <4>1. called = [P EXCEPT !.locale = v]
        BY <1>2, <3>1, DefaultsAre DEF Callback
      <4>. QED
        BY <1>0, <3>1, <4>1 DEF Instances
    <3>2. CASE p # language
      BY <1>0, <3>2
    <3>. QED
      BY <3>1, <3>2
  <2> HIDE DEF called, Q
  <2>4. [P.m_sections EXCEPT ![p] = v] \in Sections
    BY <1>0, PathsAre DEF Sections
  <2>5. /\ Q \in Instances /\ Q.m_sections = [P.m_sections EXCEPT ![p] = v]
        /\ Q.m_initialized = P.m_initialized /\ Q.locale = called.locale
    BY <2>2, <2>3, <2>4 DEF Instances
  <2>6. \A q \in Paths : Q.m_sections[q] = IF q = p THEN v ELSE P.m_sections[q]
    BY <1>0, <2>5, PathsAre DEF Sections
  <2>7. NoValue \notin Values
    BY PreferencesAssumption
  <2>8. Sound(Q)
    BY <1>0, <2>3, <2>5, <2>6, <2>7, PathsAre DEF Sound
  <2>. QED
    BY <1>2, <2>5, <2>8 DEF Q
<1>. QED
  BY <1>1, <1>2

-----------------------------------------------------------------------------
(* Refreshing the window.                                                  *)

\* What is shown at a path is what the program uses, or expands.
Shows(P, shown, p) == IsReference(P.m_sections[p]) \/ shown[p] = P.m_sections[p]

EntriesOK(shown) ==
  /\ shown \in [Tracked -> Values]
  /\ \A p \in Tracked : SameType(shown[p], DefaultValue[p])

\* Of an instance and the entries while they are refreshed; w tells whether the file could
\* be read to its end.
Keeps(st, w) ==
  st.P # Crashed =>
    /\ Sound(st.P) /\ EntriesOK(st.shown)
    /\ w => Settled(st.P)

\* No plain value changes.
PlainStay(old, new) == \A p \in Paths : new[p] # old[p] => IsReference(old[p])

\* What refreshing the entry of p does to st.
Refreshes(st, new, p) ==
  /\ st.P # Crashed
  /\ PlainStay(st.P.m_sections, new.P.m_sections)
  /\ Shows(new.P, new.shown, p)
  /\ \A q \in Tracked \ {p} : Shows(st.P, st.shown, q) => Shows(new.P, new.shown, q)

\* A value of the type of the default can be set, and leaves an instance settled.
LEMMA SetKeepsSettled ==
  ASSUME NEW P, Sound(P), Settled(P), NEW p \in Tracked, NEW v \in Values
  PROVE  Settled(SetValue(P, p, v))
<1>1. CASE ~SameType(v, DefaultValue[p])
  BY <1>1, SetValueIs
<1>2. CASE SameType(v, DefaultValue[p])
  <2> DEFINE Q == SetValue(P, p, v)
  <2>1. Q.m_initialized = P.m_initialized /\ Q.m_sections = [P.m_sections EXCEPT ![p] = v]
    BY <1>2, SetValueIs
  <2>2. P.m_sections \in Sections
    BY DEF Sound, Instances
  <2> HIDE DEF Q
  <2>3. \A q \in Tracked : Q.m_sections[q] = IF q = p THEN v ELSE P.m_sections[q]
    BY <2>1, <2>2, PathsAre DEF Sections
  <2>4. Settled(Q)
    BY <1>2, <2>1, <2>3 DEF Settled, Validated
  <2>. QED
    BY <2>4 DEF Q
<1>. QED
  BY <1>1, <1>2

LEMMA RefreshIs ==
  ASSUME file \in Files, NEW w \in BOOLEAN, NEW st, st = [P |-> st.P, shown |-> st.shown], Keeps(st, w),
         NEW p \in Tracked, NEW otherwise \in Values, SameType(otherwise, DefaultValue[p])
  PROVE  LET new == Refresh(st, p, otherwise) IN
           /\ new = [P |-> new.P, shown |-> new.shown]
           /\ Keeps(new, w)
           /\ w /\ new.P # Crashed => Refreshes(st, new, p)
<1> DEFINE P == GetInstance(st.P, file)
           read == IF P = Crashed THEN Crashed ELSE Expanded(P.m_sections, p, DefaultValue[p])
           value == IF read = NoValue THEN otherwise ELSE read
           set == IF DefaultValue[p] \in Switches /\ value # st.shown[p]
                  THEN SetValue(GetInstance(P, file), p, value) ELSE P
           shown == [st.shown EXCEPT ![p] = value]
           new == Refresh(st, p, otherwise)
<1>0. Crashed \notin Values \union {NoValue} /\ NoValue \notin Values
  BY PreferencesAssumption
<1>1. new = IF read = Crashed THEN [st EXCEPT !.P = Crashed] ELSE [P |-> set, shown |-> shown]
  BY DEF Refresh
<1>2. CASE read = Crashed
  <2>1. [st EXCEPT !.P = Crashed] = [P |-> Crashed, shown |-> st.shown]
    OBVIOUS
  <2>2. new = [P |-> Crashed, shown |-> st.shown]
    BY <1>1, <1>2, <2>1
  <2> HIDE DEF new
  <2>3. new.P = Crashed /\ new.shown = st.shown
    BY <2>2
  <2>. QED
    BY <2>2, <2>3 DEF Keeps, new
<1>3. CASE read # Crashed
  <2>1. P # Crashed /\ read = Expanded(P.m_sections, p, DefaultValue[p])
    BY <1>3
  <2>2. new = [P |-> set, shown |-> shown]
    BY <1>1, <1>3
  <2>3. st.P # Crashed
    BY <2>1 DEF GetInstance
  <2>4. Sound(st.P) /\ EntriesOK(st.shown) /\ (w => Settled(st.P))
    BY <2>3 DEF Keeps
  <2>5. Sound(P) /\ (w => P = st.P)
    BY <2>1, <2>4, GetInstanceIs DEF Settled
  <2> HIDE DEF P
  <2>6. P.m_sections \in Sections /\ p \in Paths
    BY <2>5, PathsAre DEF Sound, Instances
  <2> DEFINE sections == P.m_sections
  <2>7. sections \in Sections
    BY <2>6
  <2> HIDE DEF sections
  <2>8. /\ Expanded(sections, p, DefaultValue[p]) \in Values \union {NoValue, Crashed}
        /\ Expanded(sections, p, DefaultValue[p]) \in Values =>
             SameType(Expanded(sections, p, DefaultValue[p]), DefaultValue[p])
        /\ sections[p] \in Values /\ ~IsReference(sections[p]) /\ SameType(sections[p], DefaultValue[p]) =>
             Expanded(sections, p, DefaultValue[p]) = sections[p]
    BY <2>6, <2>7, ExpandedIs
  <2>9. /\ read \in Values \union {NoValue, Crashed}
        /\ read \in Values => SameType(read, DefaultValue[p])
        /\ sections[p] \in Values /\ ~IsReference(sections[p]) /\ SameType(sections[p], DefaultValue[p]) =>
             read = sections[p]
    BY <2>1, <2>8 DEF sections
  <2> HIDE DEF read
  <2>10. value \in Values /\ SameType(value, DefaultValue[p])
    BY <1>3, <2>9
  <2>11. sections[p] \in Values
    BY <2>5, <2>6 DEF Sound, Sections, sections
  <2>12. w /\ ~IsReference(sections[p]) => value = sections[p]
    <3>1. w => Validated(P)
      BY <2>4, <2>5 DEF Settled
    <3>2. w /\ ~IsReference(sections[p]) => SameType(sections[p], DefaultValue[p])
      BY <3>1 DEF Validated, sections
    <3>. QED
      BY <1>0, <2>9, <2>11, <3>2
  <2> HIDE DEF value
  <2>13. EntriesOK(shown) /\ \A q \in Tracked : shown[q] = IF q = p THEN value ELSE st.shown[q]
    BY <2>4, <2>10 DEF EntriesOK
  <2> HIDE DEF shown
  <2> DEFINE again == GetInstance(P, file)
  <2>14. (again # Crashed => Sound(again)) /\ (w => again = P)
    BY <2>4, <2>5, GetInstanceIs DEF Settled
  <2> HIDE DEF again
  <2>15. CASE DefaultValue[p] \in Switches /\ value # st.shown[p] /\ again = Crashed
    <3>1. set = Crashed
      BY <2>15 DEF SetValue, again
    <3> HIDE DEF set, new
    <3>2. new.P = Crashed /\ new.shown = shown
      BY <2>2, <3>1
    <3>. QED
      BY <2>2, <3>1, <3>2 DEF Keeps, new
  <2>16. CASE DefaultValue[p] \in Switches /\ value # st.shown[p] /\ again # Crashed
    <3>1. set = SetValue(again, p, value)
      BY <2>16 DEF again
    <3> HIDE DEF set
    <3>2. Sound(set) /\ set.m_sections = [again.m_sections EXCEPT ![p] = value]
      BY <2>10, <2>14, <2>16, <3>1, SetValueIs
    <3>3. w => Settled(set)
      BY <2>4, <2>5, <2>10, <2>14, <2>16, <3>1, SetKeepsSettled
    <3>4. w => \A q \in Paths : set.m_sections[q] = IF q = p THEN value ELSE st.P.m_sections[q]
      BY <2>5, <2>6, <2>14, <3>2 DEF Sections
    <3>5. w => PlainStay(st.P.m_sections, set.m_sections)
      BY <2>5, <2>12, <3>4 DEF PlainStay, sections
    <3>6. w => \A q \in Tracked : q = p \/ Shows(st.P, st.shown, q) => Shows(set, shown, q)
      BY <2>13, <3>4, PathsAre DEF Shows
    <3> HIDE DEF new
    <3>7. new.P = set /\ new.shown = shown
      BY <2>2
    <3>8. Keeps(new, w)
      BY <2>13, <3>2, <3>3, <3>7 DEF Keeps
    <3>9. w => Refreshes(st, new, p)
      BY <2>3, <3>5, <3>6, <3>7 DEF Refreshes
    <3>. QED
      BY <2>2, <3>7, <3>8, <3>9 DEF new
  <2>17. CASE ~(DefaultValue[p] \in Switches /\ value # st.shown[p])
    <3>1. set = P
      BY <2>17
    <3> HIDE DEF set, new
    <3>2. new.P = P /\ new.shown = shown
      BY <2>2, <3>1
    <3>3. Keeps(new, w)
      BY <2>4, <2>5, <2>13, <3>2 DEF Keeps
    <3>4. w => PlainStay(st.P.m_sections, P.m_sections)
      BY <2>5 DEF PlainStay
    <3>5. w => Shows(P, shown, p)
      BY <2>12, <2>13 DEF Shows, sections
    <3>6. w => \A q \in Tracked \ {p} : Shows(st.P, st.shown, q) => Shows(P, shown, q)
      BY <2>5, <2>13 DEF Shows
    <3>7. w => Refreshes(st, new, p)
      BY <2>3, <3>2, <3>4, <3>5, <3>6 DEF Refreshes
    <3>. QED
      BY <2>2, <3>1, <3>2, <3>3, <3>7 DEF new
  <2>. QED
    BY <2>15, <2>16, <2>17
<1>. QED
  BY <1>2, <1>3

\* f holds what the first m refreshes make of st.
IsRefreshed(f, m, st, otherwise) ==
  f = [n \in 0..m |-> IF n = 0 THEN st ELSE Refresh(f[n - 1], Known[n], otherwise[Known[n]])]

LEMMA RefreshesExist ==
  ASSUME NEW st, NEW otherwise, NEW N \in Nat
  PROVE  \E f : IsRefreshed(f, N, st, otherwise)
<1> DEFINE T == {m \in 0 .. N : \E f : IsRefreshed(f, m, st, otherwise)}
           After(x, n) == Refresh(x, Known[n], otherwise[Known[n]])
<1>1. 0 \in T
  <2> DEFINE f == [n \in 0..0 |-> st]
  <2>1. IsRefreshed(f, 0, st, otherwise)
    BY DEF IsRefreshed
  <2>. QED
    BY <2>1
<1>2. ASSUME NEW m \in 0 .. N - 1, m \in T PROVE m + 1 \in T
  <2>1. PICK f : IsRefreshed(f, m, st, otherwise)
    BY <1>2
  <2> HIDE DEF After
  <2> DEFINE g == [n \in 0..m + 1 |-> IF n = m + 1 THEN After(f[m], n) ELSE f[n]]
  <2>2. \A n \in 0..m : f[n] = IF n = 0 THEN st ELSE After(f[n - 1], n)
    BY <2>1 DEF IsRefreshed, After
  <2>3. ASSUME NEW n \in 0..m + 1
        PROVE  g[n] = IF n = 0 THEN st ELSE After(g[n - 1], n)
    <3>1. CASE n = m + 1
      <4>1. g[m] = f[m] /\ n # 0 /\ n - 1 = m
        BY <3>1
      <4>2. g[n] = After(f[m], n)
        BY <3>1
      <4>. QED
        BY <4>1, <4>2
    <3>2. CASE n \in 0..m
      <4>1. g[n] = f[n] /\ (n # 0 => g[n - 1] = f[n - 1])
        BY <3>2
      <4>. QED
        BY <2>2, <3>2, <4>1
    <3>. QED
      BY <3>1, <3>2
  <2>4. DOMAIN g = 0..m + 1 /\ g = [n \in 0..m + 1 |-> g[n]]
    OBVIOUS
  <2> HIDE DEF g
  <2>5. IsRefreshed(g, m + 1, st, otherwise)
    BY <2>3, <2>4 DEF IsRefreshed, After
  <2>. QED
    BY <1>2, <2>5
<1> HIDE DEF T
<1>3. 0 .. N \subseteq T
  BY <1>1, <1>2, FromZeroOn
<1>. QED
  BY <1>3 DEF T

\* Once all entries are refreshed, all of them show what the program uses, and no plain
\* value has changed.
LEMMA RefreshAllIs ==
  ASSUME file \in Files, NEW w \in BOOLEAN, NEW st, st = [P |-> st.P, shown |-> st.shown], Keeps(st, w),
         NEW otherwise, EntriesOK(otherwise)
  PROVE  LET new == RefreshAll(st, otherwise) IN
           /\ Keeps(new, w)
           /\ w /\ new.P # Crashed =>
                /\ PlainStay(st.P.m_sections, new.P.m_sections)
                /\ \A p \in Tracked : Shows(new.P, new.shown, p)
<1> DEFINE N == Len(Known)
           f == CHOOSE f : IsRefreshed(f, N, st, otherwise)
<1>0. /\ N \in Nat /\ \A n \in 1..N : Known[n] \in Tracked
      /\ \A p \in Tracked : \E n \in 1..N : Known[n] = p
  BY PathsAre
<1>1. IsRefreshed(f, N, st, otherwise)
  BY <1>0, RefreshesExist
<1>2. RefreshAll(st, otherwise) = f[N]
  BY DEF RefreshAll, IsRefreshed
<1> HIDE DEF N, f
<1>3. /\ f[0] = st
      /\ \A n \in 1..N : f[n] = Refresh(f[n - 1], Known[n], otherwise[Known[n]])
  <2>1. \A n \in 0..N : f[n] = IF n = 0 THEN st ELSE Refresh(f[n - 1], Known[n], otherwise[Known[n]])
    BY <1>1 DEF IsRefreshed
  <2>. QED
    BY <1>0, <2>1
<1> DEFINE Good(n) ==
      /\ f[n] = [P |-> f[n].P, shown |-> f[n].shown]
      /\ Keeps(f[n], w)
      /\ w /\ f[n].P # Crashed =>
           /\ PlainStay(st.P.m_sections, f[n].P.m_sections)
           /\ \A i \in 1..n : Shows(f[n].P, f[n].shown, Known[i])
    T == {n \in 0..N : Good(n)}
<1>4. 0 \in T
  BY <1>0, <1>3 DEF PlainStay
<1>5. ASSUME NEW n \in 0..N - 1, n \in T PROVE n + 1 \in T
  <2> DEFINE p == Known[n + 1]
  <2>1. n + 1 \in 1..N /\ (n + 1) - 1 = n /\ p \in Tracked /\ Good(n)
    BY <1>0, <1>5
  <2>2. f[n + 1] = Refresh(f[n], p, otherwise[p])
    BY <1>3, <2>1
  <2>3. otherwise[p] \in Values /\ SameType(otherwise[p], DefaultValue[p])
    BY <2>1 DEF EntriesOK
  <2> DEFINE last == f[n]
             other == otherwise[p]
  <2>4. last = [P |-> last.P, shown |-> last.shown] /\ Keeps(last, w)
    BY <2>1
  <2> HIDE DEF p, last, other
  <2>5. LET new == Refresh(last, p, other) IN
          /\ new = [P |-> new.P, shown |-> new.shown]
          /\ Keeps(new, w)
          /\ w /\ new.P # Crashed => Refreshes(last, new, p)
    BY <2>1, <2>3, <2>4, RefreshIs DEF other
  <2> DEFINE new == f[n + 1]
  <2>6. /\ new = [P |-> new.P, shown |-> new.shown]
        /\ Keeps(new, w)
        /\ w /\ new.P # Crashed => Refreshes(last, new, p)
    BY <2>2, <2>5 DEF last, other
  <2> HIDE DEF new
  <2>7. ASSUME w, new.P # Crashed PROVE PlainStay(st.P.m_sections, new.P.m_sections)
    <3>1. PlainStay(last.P.m_sections, new.P.m_sections) /\ last.P # Crashed
      BY <2>6, <2>7 DEF Refreshes
    <3>2. PlainStay(st.P.m_sections, last.P.m_sections)
      BY <2>1, <2>7, <3>1 DEF last
    <3>. QED
      BY <3>1, <3>2 DEF PlainStay
  <2>8. ASSUME w, new.P # Crashed, NEW i \in 1..n + 1 PROVE Shows(new.P, new.shown, Known[i])
    <3>1. Refreshes(last, new, p)
      BY <2>6, <2>8
    <3>2. CASE Known[i] = p
      BY <3>1, <3>2 DEF Refreshes
    <3>3. CASE Known[i] # p
      <4>1. i \in 1..n /\ Known[i] \in Tracked
        BY <1>0, <3>3, <2>1 DEF p
      <4>2. last.P # Crashed
        BY <3>1 DEF Refreshes
      <4>3. Shows(last.P, last.shown, Known[i])
        BY <2>1, <2>8, <4>1, <4>2 DEF last
      <4>. QED
        BY <3>1, <3>3, <4>1, <4>3 DEF Refreshes
    <3>. QED
      BY <3>2, <3>3
  <2>. QED
    BY <2>1, <2>6, <2>7, <2>8 DEF new
<1> HIDE DEF T
<1>6. 0..N \subseteq T
  BY <1>0, <1>4, <1>5, FromZeroOn
<1>7. Good(N)
  BY <1>0, <1>6 DEF T
<1>8. ASSUME w, f[N].P # Crashed, NEW p \in Tracked PROVE Shows(f[N].P, f[N].shown, p)
  BY <1>0, <1>7, <1>8
<1>. QED
  BY <1>2, <1>7, <1>8

-----------------------------------------------------------------------------
(* The invariant.                                                          *)

\* A program that runs has a sound instance, settled if it could read its file; an editor
\* is open in a running program only.
ProgramInv ==
  /\ prefs # Stopped => Sound(prefs) /\ (whole => Settled(prefs))
  /\ prefs = Stopped => entries = Closed

WindowInv ==
  entries # Closed =>
    /\ EntriesOK(entries)
    /\ whole => \A p \in Tracked : Shows(prefs, entries, p)

\* What was saved to the end is what the next start can load.
Loadable(f) ==
  /\ f \in Sections
  /\ \A p \in Tracked : f[p] # NoValue /\ (IsReference(f[p]) \/ SameType(f[p], DefaultValue[p]))

FileInv ==
  /\ file \in Files /\ whole \in BOOLEAN
  /\ saved # NoValue => file = saved /\ Loadable(saved)

PrefsInv == ProgramInv /\ WindowInv /\ FileInv

LEMMA RunningIs == ProgramInv => (Running <=> prefs # Stopped)
BY PreferencesAssumption DEF ProgramInv, Running, Sound

LEMMA NewInstanceIs ==
  /\ Sound(NewInstance) /\ Validated(NewInstance) /\ ~NewInstance.m_initialized
  /\ \A p \in Paths : NewInstance.m_sections[p] = IF p \in Tracked THEN DefaultValue[p] ELSE NoValue
<1> DEFINE none == [m_sections |-> [p \in Paths |-> NoValue], m_initialized |-> FALSE,
                    m_dirty |-> FALSE, locale |-> DEFAULT]
           sections == [p \in Paths |-> IF p \in Tracked THEN DefaultValue[p] ELSE NoValue]
<1>1. NewInstance = [none EXCEPT !.m_sections = sections, !.m_dirty = FALSE,
                                 !.locale = DefaultValue[language]]
  BY DEF NewInstance, Defaults
<1>2. NewInstance = [m_sections |-> sections, m_initialized |-> FALSE, m_dirty |-> FALSE,
                     locale |-> DefaultValue[language]]
  BY <1>1
<1>3. /\ sections \in Sections
      /\ \A p \in Paths : sections[p] = IF p \in Tracked THEN DefaultValue[p] ELSE NoValue
      /\ language \in Tracked /\ NoValue \notin Values
  BY DefaultsAre, PreferencesAssumption DEF Sections
<1> HIDE DEF sections
<1>4. NewInstance \in Instances /\ NewInstance.m_sections = sections /\ ~NewInstance.m_initialized
      /\ NewInstance.locale = DefaultValue[language]
  BY <1>2, <1>3, DefaultsAre DEF Instances
<1>. QED
  BY <1>3, <1>4, DefaultsAre, PathsAre DEF Sound, Validated

\* A reset makes an instance settled that has read its file.
LEMMA DefaultsKeep ==
  ASSUME NEW P, Sound(P)
  PROVE  Sound(Defaults(P)) /\ (P.m_initialized => Settled(Defaults(P)))
<1> DEFINE sections == [p \in Paths |-> IF p \in Tracked THEN DefaultValue[p] ELSE NoValue]
           Q == Defaults(P)
<1>1. Q = [P EXCEPT !.m_sections = sections, !.m_dirty = FALSE, !.locale = DefaultValue[language]]
  BY DEF Defaults
<1>2. /\ sections \in Sections
      /\ \A p \in Paths : sections[p] = IF p \in Tracked THEN DefaultValue[p] ELSE NoValue
      /\ language \in Tracked /\ NoValue \notin Values
  BY DefaultsAre, PreferencesAssumption DEF Sections
<1> HIDE DEF sections, Q
<1>3. /\ Q \in Instances /\ Q.m_sections = sections /\ Q.locale = DefaultValue[language]
      /\ Q.m_initialized = P.m_initialized
  BY <1>1, <1>2, DefaultsAre DEF Sound, Instances
<1>4. Sound(Q) /\ (P.m_initialized => Settled(Q))
  BY <1>2, <1>3, DefaultsAre, PathsAre DEF Sound, Settled, Validated
<1>. QED
  BY <1>4 DEF Q

\* A file that was saved is loaded as it was saved.
LEMMA LoadIs ==
  ASSUME NEW f, Loadable(f)
  PROVE  LET Q == GetInstance(NewInstance, f) IN
           /\ f \in Contents /\ Whole(f)
           /\ Q # Crashed /\ Sound(Q) /\ Settled(Q) /\ Q.m_sections = f
<1> DEFINE N == NewInstance
           Q == Initialized(N, f)
<1>1. f \in Contents /\ \A p \in Paths : f[p] # Unreadable
  BY PreferencesAssumption DEF Loadable, Sections, Contents
<1>2. FirstStop(f) > Len(Sorted) /\ Whole(f)
  BY <1>1, NoStop, PreferencesAssumption DEF Whole
<1>3. /\ Sound(N) /\ ~N.m_initialized
      /\ \A p \in Paths : p \notin Tracked => N.m_sections[p] = NoValue
  BY NewInstanceIs
<1> DEFINE sections == N.m_sections
<1>4. sections \in Sections
  BY <1>3 DEF Sound, Instances
<1> HIDE DEF N
<1>5. Overlaid(f, sections) = f
  <2> HIDE DEF sections
  <2>1. /\ Overlaid(f, sections) \in Sections
        /\ \A p \in Paths : Overlaid(f, sections)[p] = IF f[p] # NoValue THEN f[p] ELSE sections[p]
    BY <1>1, <1>2, <1>4, OverlaidIs
  <2>2. \A p \in Paths : f[p] = NoValue => sections[p] = NoValue
    BY <1>3 DEF Loadable, sections
  <2>3. \A p \in Paths : Overlaid(f, sections)[p] = f[p]
    BY <2>1, <2>2
  <2>. QED
    BY <2>1, <2>3 DEF Loadable, Sections
<1>6. f[language] \notin Switches \union {Number}
  <2>1. language \in Tracked /\ language \in Paths
    BY PreferencesAssumption, PathsAre
  <2>2. f[language] \in Values /\ (IsReference(f[language]) \/ SameType(f[language], DefaultValue[language]))
    BY <2>1 DEF Loadable, Sections
  <2>. QED
    BY <2>2, DefaultsAre
<1>7. Q # Crashed /\ Sound(Q) /\ Q.m_sections = f /\ Q.m_initialized
  BY <1>1, <1>2, <1>3, <1>5, <1>6, InitializedIs
<1>8. GetInstance(N, f) = Q
  <2>1. N # Crashed /\ f # Missing
    BY <1>1, <1>3, PreferencesAssumption DEF Sound
  <2>. QED
    BY <1>3, <2>1 DEF GetInstance
<1>9. Settled(Q)
  BY <1>7 DEF Settled, Validated, Loadable
<1> HIDE DEF Q
<1>. QED
  BY <1>1, <1>2, <1>7, <1>8, <1>9 DEF N

-----------------------------------------------------------------------------
(* Steps.                                                                  *)

\* What ValuesStick says of a step.
Sticks ==
  Running /\ prefs' # Stopped /\ whole =>
    \A p \in Paths \ asked' :
      prefs'.m_sections[p] # prefs.m_sections[p] => IsReference(prefs.m_sections[p])

\* What SavedIsLoaded says of a step.
Loads ==
  prefs = Stopped /\ saved # NoValue /\ saved' = saved =>
    /\ prefs' # Stopped => prefs'.m_sections = saved
    /\ failed' => failed \/ \E i \in 1..Len(Startup) : Circular(saved, Startup[i])

Good == PrefsInv' /\ Sticks /\ Loads

LEMMA StartsIs ==
  ASSUME PrefsInv, prefs = Stopped, NEW P, NEW w \in BOOLEAN,
         P # Crashed => Sound(P) /\ (w => Settled(P)),
         Starts(P), whole' = w, entries' = entries
  PROVE  ProgramInv' /\ WindowInv'
<1>1. prefs' = IF P # Crashed /\ LooksUp(P) THEN P ELSE Stopped
  BY DEF Starts
<1>2. entries' = Closed
  BY DEF PrefsInv, ProgramInv
<1>. QED
  BY <1>1, <1>2 DEF ProgramInv, WindowInv

LEMMA StartWithoutFileStep == PrefsInv /\ StartWithoutFile => Good
<1> SUFFICES ASSUME PrefsInv, StartWithoutFile PROVE Good
  OBVIOUS
<1> DEFINE f == NewInstance.m_sections
           Q == GetInstance(NewInstance, f)
<1>1. /\ prefs = Stopped /\ file = Missing /\ file' = f /\ Starts(Q)
      /\ saved' = f /\ whole' = TRUE /\ entries' = entries
  BY DEF StartWithoutFile, Written
<1>2. Loadable(f)
  <2>1. f \in Sections
    BY NewInstanceIs DEF Sound, Instances
  <2>2. Sound(NewInstance) /\ Validated(NewInstance)
    BY NewInstanceIs
  <2>. QED
    BY <2>1, <2>2 DEF Loadable, Sound, Validated
<1> HIDE DEF f
<1>3. /\ f \in Contents /\ Q # Crashed /\ Sound(Q) /\ Settled(Q) /\ Q.m_sections = f
  BY <1>2, LoadIs
<1> HIDE DEF Q
<1>4. ProgramInv' /\ WindowInv'
  BY <1>1, <1>3, StartsIs
<1>5. FileInv'
  BY <1>1, <1>2, <1>3 DEF FileInv, Files
<1>6. saved # NoValue => FALSE
  <2>1. saved # NoValue => saved = Missing /\ saved \in Sections
    BY <1>1 DEF PrefsInv, FileInv, Loadable
  <2>2. saved \in Sections => saved \in Contents
    BY DEF Sections, Contents
  <2>. QED
    BY <2>1, <2>2, PreferencesAssumption
<1>7. Sticks /\ Loads
  BY <1>1, <1>6 DEF Sticks, Loads, Running
<1>. QED
  BY <1>4, <1>5, <1>7 DEF Good, PrefsInv

LEMMA StartKilledStep == PrefsInv /\ StartKilled => Good
<1> SUFFICES ASSUME PrefsInv, StartKilled PROVE Good
  OBVIOUS
<1>1. /\ prefs = Stopped /\ prefs' = prefs /\ entries' = entries /\ file' = Torn /\ saved' = NoValue
      /\ whole' = whole
  BY DEF StartKilled
<1>2. ProgramInv' /\ WindowInv' /\ FileInv'
  BY <1>1 DEF PrefsInv, ProgramInv, WindowInv, FileInv, Files
<1>. QED
  BY <1>1, <1>2 DEF Good, PrefsInv, Sticks, Loads, Running

LEMMA StartWithFileStep == PrefsInv /\ StartWithFile => Good
<1> SUFFICES ASSUME PrefsInv, StartWithFile PROVE Good
  OBVIOUS
<1> DEFINE P == GetInstance(NewInstance, file)
           Q == IF P = Crashed THEN P ELSE IF Validated(P) THEN GetInstance(P, file) ELSE Crashed
<1>1. /\ prefs = Stopped /\ file # Missing /\ Starts(Q) /\ whole' = Whole(file)
      /\ entries' = entries /\ file' = file /\ saved' = saved
  BY DEF StartWithFile, Whole
<1>2. file \in Files
  BY DEF PrefsInv, FileInv
<1>3. Sound(NewInstance) /\ ~NewInstance.m_initialized
  BY NewInstanceIs
<1>4. P # Crashed => Sound(P)
  BY <1>2, <1>3, GetInstanceIs
<1>5. P # Crashed /\ Whole(file) => P.m_initialized
  <2>1. CASE file = Torn
    BY <2>1 DEF Whole
  <2>2. CASE file \in Contents
    <3>1. P = Initialized(NewInstance, file)
      BY <1>1, <1>3, GetInstanceIs, <1>2 DEF GetInstance
    <3>. QED
      BY <1>3, <2>2, <3>1, InitializedIs
  <2>. QED
    BY <1>1, <1>2, <2>1, <2>2 DEF Files
<1> HIDE DEF P
<1>6. /\ Q # Crashed => P # Crashed /\ Validated(P) /\ Sound(Q)
      /\ P # Crashed /\ Validated(P) /\ P.m_initialized => Q = P
  BY <1>2, <1>4, GetInstanceIs
<1>7. Q # Crashed => Sound(Q) /\ (Whole(file) => Settled(Q))
  BY <1>5, <1>6 DEF Settled
<1>8. Whole(file) \in BOOLEAN
  BY DEF Whole
<1> HIDE DEF Q
<1>9. ProgramInv' /\ WindowInv'
  BY <1>1, <1>7, <1>8, StartsIs
<1>10. FileInv'
  BY <1>1, <1>8 DEF PrefsInv, FileInv
<1>11. Loads
  <2> SUFFICES ASSUME saved # NoValue
               PROVE  /\ prefs' # Stopped => prefs'.m_sections = saved
                      /\ failed' => \E i \in 1..Len(Startup) : Circular(saved, Startup[i])
    BY DEF Loads
  <2>1. file = saved /\ Loadable(saved)
    BY DEF PrefsInv, FileInv
  <2>2. P # Crashed /\ Settled(P) /\ P.m_sections = saved
    BY <2>1, LoadIs DEF P
  <2>3. Q = P
    BY <1>6, <2>2 DEF Settled
  <2>4. /\ prefs' = IF P # Crashed /\ LooksUp(P) THEN P ELSE Stopped
        /\ failed' = (P = Crashed \/ ~LooksUp(P))
    BY <1>1, <2>3 DEF Starts
  <2>5. LooksUp(P) <=> \A i \in 1..Len(Startup) : ~Circular(saved, Startup[i])
    BY <2>2 DEF LooksUp
  <2>. QED
    BY <2>2, <2>4, <2>5
<1>. QED
  BY <1>1, <1>9, <1>10, <1>11 DEF Good, PrefsInv, Sticks, Running

\* After a step in the window.
LEMMA BecomesIs ==
  ASSUME PrefsInv, Running, NEW st, Keeps(st, whole),
         whole /\ st.P # Crashed => \A p \in Tracked : Shows(st.P, st.shown, p),
         Becomes(st), whole' = whole
  PROVE  /\ ProgramInv' /\ WindowInv'
         /\ prefs' # Stopped => st.P # Crashed /\ prefs' = st.P
<1>1. /\ prefs' = IF st.P = Crashed THEN Stopped ELSE st.P
      /\ entries' = IF st.P = Crashed THEN Closed ELSE st.shown
  BY DEF Becomes
<1>2. st.P # Crashed => Sound(st.P) /\ st.P # Stopped
  BY PreferencesAssumption DEF Keeps, Sound
<1>3. CASE st.P = Crashed
  BY <1>1, <1>3 DEF ProgramInv, WindowInv
<1>4. CASE st.P # Crashed
  <2>1. prefs' = st.P /\ entries' = st.shown
    BY <1>1, <1>4
  <2>. QED
    BY <1>2, <1>4, <2>1 DEF Keeps, ProgramInv, WindowInv
<1>. QED
  BY <1>3, <1>4

\* The instance a handler gets first.
LEMMA InstanceNow ==
  ASSUME PrefsInv, Running
  PROVE  LET P == GetInstance(prefs, file) IN
           /\ prefs # Stopped /\ Sound(prefs) /\ (whole => Settled(prefs))
           /\ P # Crashed => Sound(P) /\ (whole => P = prefs)
<1>1. prefs # Stopped /\ Sound(prefs) /\ (whole => Settled(prefs)) /\ file \in Files
  BY DEF PrefsInv, ProgramInv, FileInv, Running
<1>. QED
  BY <1>1, GetInstanceIs DEF Settled

LEMMA NewEntriesOK == EntriesOK(NewEntries) /\ EntriesOK(DefaultValue)
<1>1. \E s \in Switches : s # On
  BY PreferencesAssumption
<1> DEFINE off == CHOOSE s \in Switches : s # On
<1>2. off \in Switches
  BY <1>1
<1> HIDE DEF off
<1>3. NewEntries = [p \in Tracked |-> IF DefaultValue[p] \in Switches THEN off ELSE DefaultValue[p]]
  BY DEF NewEntries, off
<1>4. DefaultValue \in [Tracked -> Texts \union Switches] /\ Texts \union Switches \subseteq Values
  BY PreferencesAssumption DEF Values
<1>5. NewEntries \in [Tracked -> Values] /\ DefaultValue \in [Tracked -> Values]
  BY <1>2, <1>3, <1>4
<1>6. \A p \in Tracked : SameType(NewEntries[p], DefaultValue[p])
  BY <1>2, <1>3, DefaultsAre DEF SameType
<1>. QED
  BY <1>5, <1>6, DefaultsAre DEF EntriesOK

LEMMA OpenEditorStep == PrefsInv /\ OpenEditor => Good
<1> SUFFICES ASSUME PrefsInv, OpenEditor PROVE Good
  OBVIOUS
<1> DEFINE st == [P |-> prefs, shown |-> NewEntries]
           new == RefreshAll(st, DefaultValue)
<1>1. /\ Running /\ Becomes(new) /\ asked' = {}
      /\ file' = file /\ saved' = saved /\ whole' = whole
  BY DEF OpenEditor
<1>2. prefs # Stopped /\ Sound(prefs) /\ (whole => Settled(prefs))
  BY <1>1, InstanceNow
<1>3. file \in Files /\ whole \in BOOLEAN
  BY DEF PrefsInv, FileInv
<1>4. st = [P |-> st.P, shown |-> st.shown] /\ st.P = prefs /\ st.shown = NewEntries
  OBVIOUS
<1> HIDE DEF st
<1>5. Keeps(st, whole)
  BY <1>2, <1>4, NewEntriesOK DEF Keeps
<1> HIDE DEF new
<1>6. /\ Keeps(new, whole)
      /\ whole /\ new.P # Crashed =>
           /\ PlainStay(st.P.m_sections, new.P.m_sections)
           /\ \A p \in Tracked : Shows(new.P, new.shown, p)
  <2> DEFINE w == whole
  <2>1. w \in BOOLEAN /\ Keeps(st, w)
    BY <1>3, <1>5
  <2> HIDE DEF w
  <2>2. /\ Keeps(RefreshAll(st, DefaultValue), w)
        /\ w /\ RefreshAll(st, DefaultValue).P # Crashed =>
             /\ PlainStay(st.P.m_sections, RefreshAll(st, DefaultValue).P.m_sections)
             /\ \A p \in Tracked : Shows(RefreshAll(st, DefaultValue).P, RefreshAll(st, DefaultValue).shown, p)
    BY <1>3, <1>4, <2>1, NewEntriesOK, RefreshAllIs
  <2>. QED
    BY <2>2 DEF new, w
<1>7. /\ ProgramInv' /\ WindowInv'
      /\ prefs' # Stopped => new.P # Crashed /\ prefs' = new.P
  BY <1>1, <1>6, BecomesIs
<1>8. FileInv'
  BY <1>1 DEF PrefsInv, FileInv
<1>9. Sticks
  BY <1>4, <1>6, <1>7 DEF Sticks, PlainStay
<1>. QED
  BY <1>2, <1>7, <1>8, <1>9 DEF Good, PrefsInv, Loads

\* An entry is given a value of its type.
LEMMA EntrySet ==
  ASSUME PrefsInv, Running, entries # Closed, NEW p \in Tracked, NEW v \in Values,
         SameType(v, DefaultValue[p]), asked' = {p},
         Becomes([P |-> SetValue(GetInstance(prefs, file), p, v), shown |-> [entries EXCEPT ![p] = v]]),
         file' = file, saved' = saved, whole' = whole
  PROVE  Good
<1> DEFINE P == GetInstance(prefs, file)
           Q == SetValue(P, p, v)
           shown == [entries EXCEPT ![p] = v]
           st == [P |-> Q, shown |-> shown]
<1>1. /\ prefs # Stopped /\ Sound(prefs) /\ (whole => Settled(prefs))
      /\ P # Crashed => Sound(P) /\ (whole => P = prefs)
  BY InstanceNow
<1>2. EntriesOK(entries) /\ (whole => \A q \in Tracked : Shows(prefs, entries, q))
  BY DEF PrefsInv, WindowInv
<1>3. EntriesOK(shown) /\ \A q \in Tracked : shown[q] = IF q = p THEN v ELSE entries[q]
  BY <1>2 DEF EntriesOK
<1> HIDE DEF P, shown
<1>4. Q # Crashed => P # Crashed
  BY DEF SetValue
<1>5. P # Crashed => Sound(Q) /\ Q.m_sections = [P.m_sections EXCEPT ![p] = v]
  BY <1>1, SetValueIs
<1>6. P # Crashed /\ whole => Settled(Q)
  BY <1>1, SetKeepsSettled
<1> HIDE DEF Q
<1>7. P # Crashed => \A q \in Paths : Q.m_sections[q] = IF q = p THEN v ELSE P.m_sections[q]
  <2>1. P # Crashed => P.m_sections \in Sections
    BY <1>1 DEF Sound, Instances
  <2>. QED
    BY <1>5, <2>1, PathsAre DEF Sections
<1>8. P # Crashed /\ whole => \A q \in Tracked : Shows(Q, shown, q)
  BY <1>1, <1>2, <1>3, <1>7, PathsAre DEF Shows
<1>9. st.P = Q /\ st.shown = shown
  OBVIOUS
<1>10. Becomes(st)
  BY DEF st, Q, P, shown
<1> HIDE DEF st
<1>11. Keeps(st, whole)
  BY <1>3, <1>4, <1>5, <1>6, <1>9 DEF Keeps
<1>12. /\ ProgramInv' /\ WindowInv'
       /\ prefs' # Stopped => st.P # Crashed /\ prefs' = st.P
  BY <1>4, <1>8, <1>9, <1>10, <1>11, BecomesIs
<1>13. FileInv'
  BY DEF PrefsInv, FileInv
<1>14. Sticks
  BY <1>1, <1>4, <1>7, <1>9, <1>12 DEF Sticks
<1>. QED
  BY <1>1, <1>12, <1>13, <1>14 DEF Good, PrefsInv, Loads

LEMMA CommitEntryStep ==
  ASSUME PrefsInv, NEW p \in Tracked, NEW v \in Values, CommitEntry(p, v)
  PROVE  Good
<1>1. /\ Running /\ entries # Closed /\ DefaultValue[p] \in Texts
      /\ v \in Texts \union {DEFAULT} \union Paths \union {entries[p]}
      /\ Becomes([P |-> SetValue(GetInstance(prefs, file), p, v), shown |-> [entries EXCEPT ![p] = v]])
      /\ asked' = {p} /\ file' = file /\ saved' = saved /\ whole' = whole
  BY DEF CommitEntry
<1>2. SameType(entries[p], DefaultValue[p])
  BY <1>1 DEF PrefsInv, WindowInv, EntriesOK
<1>3. SameType(v, DefaultValue[p])
  BY <1>1, <1>2, PreferencesAssumption DEF SameType
<1>. QED
  BY <1>1, <1>3, EntrySet

LEMMA ToggleEntryStep ==
  ASSUME PrefsInv, NEW p \in Tracked, ToggleEntry(p)
  PROVE  Good
<1>1. PICK v \in Switches :
        Becomes([P |-> SetValue(GetInstance(prefs, file), p, v), shown |-> [entries EXCEPT ![p] = v]])
  BY DEF ToggleEntry
<1>2. /\ Running /\ entries # Closed /\ DefaultValue[p] \in Switches
      /\ asked' = {p} /\ file' = file /\ saved' = saved /\ whole' = whole
  BY DEF ToggleEntry
<1>3. v \in Values /\ SameType(v, DefaultValue[p])
  BY <1>2 DEF SameType, Values
<1>. QED
  BY <1>1, <1>2, <1>3, EntrySet

LEMMA ResetButtonStep == PrefsInv /\ ResetButton => Good
<1> SUFFICES ASSUME PrefsInv, ResetButton PROVE Good
  OBVIOUS
<1> DEFINE P == GetInstance(prefs, file)
           st == [P |-> Defaults(P), shown |-> entries]
           new == IF P = Crashed THEN [P |-> P, shown |-> entries] ELSE RefreshAll(st, entries)
<1>1. /\ Running /\ entries # Closed /\ Becomes(new) /\ asked' = Paths
      /\ file' = file /\ saved' = saved /\ whole' = whole
  BY DEF ResetButton, ResetEntries
<1>2. /\ prefs # Stopped /\ Sound(prefs) /\ (whole => Settled(prefs))
      /\ P # Crashed => Sound(P) /\ (whole => P = prefs)
  BY <1>1, InstanceNow
<1>3. file \in Files /\ whole \in BOOLEAN /\ EntriesOK(entries)
  BY <1>1 DEF PrefsInv, FileInv, WindowInv
<1> HIDE DEF P
<1>4. CASE P = Crashed
  <2>1. new.P = Crashed
    BY <1>4
  <2> HIDE DEF new
  <2>2. Keeps(new, whole)
    BY <2>1 DEF Keeps
  <2>3. ProgramInv' /\ WindowInv' /\ (prefs' # Stopped => FALSE)
    BY <1>1, <2>1, <2>2, BecomesIs
  <2>4. FileInv'
    BY <1>1 DEF PrefsInv, FileInv
  <2>. QED
    BY <1>2, <2>3, <2>4 DEF Good, PrefsInv, Sticks, Loads
<1>5. CASE P # Crashed
  <2>1. new = RefreshAll(st, entries)
    BY <1>5
  <2>2. st = [P |-> st.P, shown |-> st.shown] /\ st.P = Defaults(P) /\ st.shown = entries
    OBVIOUS
  <2> HIDE DEF st
  <2>3. Keeps(st, whole)
    BY <1>2, <1>3, <1>5, <2>2, DefaultsKeep DEF Keeps, Settled
  <2> DEFINE w == whole
             shown == entries
  <2>4. w \in BOOLEAN /\ Keeps(st, w) /\ EntriesOK(shown)
    BY <1>3, <2>3
  <2> HIDE DEF w, shown, new
  <2>5. /\ Keeps(RefreshAll(st, shown), w)
        /\ w /\ RefreshAll(st, shown).P # Crashed =>
             /\ PlainStay(st.P.m_sections, RefreshAll(st, shown).P.m_sections)
             /\ \A p \in Tracked : Shows(RefreshAll(st, shown).P, RefreshAll(st, shown).shown, p)
    BY <1>3, <2>2, <2>4, RefreshAllIs
  <2>6. /\ Keeps(new, whole)
        /\ whole /\ new.P # Crashed => \A p \in Tracked : Shows(new.P, new.shown, p)
    BY <2>1, <2>5 DEF w, shown
  <2>7. ProgramInv' /\ WindowInv'
    BY <1>1, <2>6, BecomesIs
  <2>8. FileInv'
    BY <1>1 DEF PrefsInv, FileInv
  <2>. QED
    BY <1>1, <1>2, <2>7, <2>8 DEF Good, PrefsInv, Sticks, Loads
<1>. QED
  BY <1>4, <1>5

LEMMA SaveButtonStep == PrefsInv /\ SaveButton => Good
<1> SUFFICES ASSUME PrefsInv, SaveButton PROVE Good
  OBVIOUS
<1> DEFINE P == GetInstance(prefs, file)
           kept == [P |-> P, shown |-> entries]
           lost == [P |-> Crashed, shown |-> entries]
<1>1. /\ Running /\ entries # Closed /\ asked' = {} /\ whole' = whole
      /\ \/ P = Crashed /\ Becomes(kept) /\ file' = file /\ saved' = saved
         \/ /\ P # Crashed /\ Becomes(kept)
            /\ \/ file' = Written(P) /\ saved' = IF whole \/ Validated(P) THEN P.m_sections ELSE NoValue
               \/ file' = file /\ saved' = saved
         \/ P # Crashed /\ Becomes(lost) /\ file' = Torn /\ saved' = NoValue
  BY DEF SaveButton
<1>2. /\ prefs # Stopped /\ Sound(prefs) /\ (whole => Settled(prefs))
      /\ P # Crashed => Sound(P) /\ (whole => P = prefs)
  BY <1>1, InstanceNow
<1>3. EntriesOK(entries) /\ (whole => \A p \in Tracked : Shows(prefs, entries, p)) /\ whole \in BOOLEAN
  BY <1>1 DEF PrefsInv, WindowInv, FileInv
<1> HIDE DEF P
<1>4. kept.P = P /\ kept.shown = entries /\ lost.P = Crashed
  OBVIOUS
<1> HIDE DEF kept, lost
<1>5. Keeps(kept, whole) /\ Keeps(lost, whole)
  BY <1>2, <1>3, <1>4 DEF Keeps
<1>6. Becomes(kept) => /\ ProgramInv' /\ WindowInv'
                       /\ prefs' # Stopped => P # Crashed /\ prefs' = P
  BY <1>1, <1>2, <1>3, <1>4, <1>5, BecomesIs
<1>7. Becomes(lost) => /\ ProgramInv' /\ WindowInv'
                       /\ prefs' # Stopped => FALSE
  BY <1>1, <1>4, <1>5, BecomesIs
<1>8. P # Crashed => P.m_sections \in Sections /\ P.m_sections \in Contents
  BY <1>2 DEF Sound, Instances, Sections, Contents
<1>9. P # Crashed /\ (whole \/ Validated(P)) => Loadable(P.m_sections)
  BY <1>2, <1>8 DEF Loadable, Settled, Validated, Sound
<1>10. FileInv'
  <2>1. CASE file' = file /\ saved' = saved
    BY <1>1, <2>1 DEF PrefsInv, FileInv
  <2>2. CASE /\ P # Crashed /\ file' = Written(P)
             /\ saved' = IF whole \/ Validated(P) THEN P.m_sections ELSE NoValue
    BY <1>1, <1>3, <1>8, <1>9, <2>2 DEF FileInv, Files, Written
  <2>3. CASE file' = Torn /\ saved' = NoValue
    BY <1>1, <1>3, <2>3 DEF FileInv, Files
  <2>. QED
    BY <1>1, <2>1, <2>2, <2>3
<1>11. Sticks
  BY <1>1, <1>2, <1>6, <1>7 DEF Sticks
<1>. QED
  BY <1>1, <1>2, <1>6, <1>7, <1>10, <1>11 DEF Good, PrefsInv, Loads

LEMMA QuitStep == PrefsInv /\ EndSession => Good
BY DEF PrefsInv, EndSession, Good, ProgramInv, WindowInv, FileInv, Sticks, Loads, Running

LEMMA EditFileStep ==
  ASSUME PrefsInv, NEW p \in Paths, NEW v \in Values \union {NoValue, Unreadable}, EditFile(p, v)
  PROVE  Good
<1>1. /\ file \notin {Missing, Torn} /\ file' = [file EXCEPT ![p] = v] /\ saved' = NoValue
      /\ failed' = FALSE /\ prefs' = prefs /\ entries' = entries /\ whole' = whole
  BY DEF EditFile
<1>2. file' \in Contents
  BY <1>1 DEF PrefsInv, FileInv, Files, Contents
<1>. QED
  BY <1>1, <1>2 DEF PrefsInv, Good, ProgramInv, WindowInv, FileInv, Files, Sticks, Loads

LEMMA RemoveFileStep == PrefsInv /\ RemoveFile => Good
BY DEF PrefsInv, RemoveFile, Good, ProgramInv, WindowInv, FileInv, Files, Sticks, Loads

LEMMA PrefsInit == PreferencesInit => PrefsInv
BY DEF PreferencesInit, PrefsInv, ProgramInv, WindowInv, FileInv, Files

LEMMA PrefsNext == PrefsInv /\ [PreferencesNext]_preferenceVars => Good
<1> SUFFICES ASSUME PrefsInv, [PreferencesNext]_preferenceVars PROVE Good
  OBVIOUS
<1>1. CASE UNCHANGED preferenceVars
  BY <1>1 DEF preferenceVars, PrefsInv, Good, ProgramInv, WindowInv, FileInv, Sticks, Loads
<1>2. CASE \E p \in Tracked : ToggleEntry(p) \/ \E v \in Values : CommitEntry(p, v)
  BY <1>2, ToggleEntryStep, CommitEntryStep
<1>3. CASE \E p \in Paths, v \in Values \union {NoValue, Unreadable} : EditFile(p, v)
  BY <1>3, EditFileStep
<1>4. CASE \/ StartWithoutFile \/ StartKilled \/ StartWithFile \/ EndSession
           \/ OpenEditor \/ ResetButton \/ SaveButton \/ RemoveFile
  BY <1>4, StartWithoutFileStep, StartKilledStep, StartWithFileStep, QuitStep, OpenEditorStep,
     ResetButtonStep, SaveButtonStep, RemoveFileStep
<1>. QED
  BY <1>1, <1>2, <1>3, <1>4 DEF PreferencesNext

LEMMA PrefsAlways == PreferencesSpec => []PrefsInv
<1>1. PrefsInv /\ [PreferencesNext]_preferenceVars => PrefsInv'
  BY PrefsNext DEF Good
<1>. QED
  BY <1>1, PrefsInit, PTL DEF PreferencesSpec

-----------------------------------------------------------------------------
(* Results.                                                                *)

\* The locale is the language of the preferences, and the window shows what the program
\* uses, whatever is set, reset, loaded, refreshed or read again from a file that was
\* edited by hand (Preferences.cpp:162-201, ConfigEditorWindow.cpp:345-503).
THEOREM CopiesAlwaysFollow == PreferencesSpec => []CopiesFollow
<1>1. PrefsInv => CopiesFollow
  BY RunningIs DEF PrefsInv, ProgramInv, WindowInv, CopiesFollow, Sound, Shows
<1>. QED
  BY <1>1, PrefsAlways, PTL

\* A plain value changes only when the user changes it, if the file could be read: neither
\* a later getInstance nor a refresh of the window does it (Preferences.cpp:64-73).
THEOREM ValuesAlwaysStick == PreferencesSpec => ValuesStick
<1>1. PrefsInv /\ [PreferencesNext]_preferenceVars =>
        [ Running /\ prefs' # Stopped /\ whole =>
            \A p \in Paths \ asked' :
              prefs'.m_sections[p] # prefs.m_sections[p] => IsReference(prefs.m_sections[p]) ]_preferenceVars
  BY PrefsNext DEF Good, Sticks
<1>. QED
  BY <1>1, PrefsAlways, PTL DEF PreferencesSpec, ValuesStick

\* What was saved to its end is loaded by the next start as it was saved, "$" values
\* included, and only references in a circle can make that start fail
\* (Preferences.cpp:468-575, 693-842).
THEOREM SavedAlwaysLoads == PreferencesSpec => SavedIsLoaded
<1>1. PrefsInv /\ [PreferencesNext]_preferenceVars =>
        [ prefs = Stopped /\ saved # NoValue /\ saved' = saved =>
            /\ prefs' # Stopped => prefs'.m_sections = saved
            /\ failed' => failed \/ \E i \in 1..Len(Startup) : Circular(saved, Startup[i]) ]_preferenceVars
  BY PrefsNext DEF Good, Loads
<1>. QED
  BY <1>1, PrefsAlways, PTL DEF PreferencesSpec, SavedIsLoaded
=============================================================================
