------------------------------ MODULE LogSinks ------------------------------
(***************************************************************************)
(* Where log messages go while the program starts, runs, ends or crashes.  *)
(* The main thread registers the console, then the log file, which it      *)
(* opens once the command line and the preferences have been read, then    *)
(* the log window.  The worker of the logger hands every message to all    *)
(* sinks registered by then, each in a thread of its own, and goes on to   *)
(* the next when all are done (module Logger; here a message is the number *)
(* of its place in that order).  The names differ from those of Logger, so *)
(* that one module can reason about both.                                  *)
(***************************************************************************)
EXTENDS Naturals, Sequences, FiniteSets, SequencesExt

CONSTANTS
  MaxTaken,             \* bound: messages handed to the sinks
  MaxArguments,         \* bound: arguments of the command line
  VIEWER_BUFFER_SIZE    \* the messages kept for a log window that is not open yet

ASSUME LogSinksAssumption ==
  /\ MaxTaken \in Nat /\ MaxArguments \in Nat /\ VIEWER_BUFFER_SIZE \in Nat \ {0}

Flags  == {"-v", "-q", "-h", "--headless", "--dont-write-logfiles", "unknown"}
NoMessage == 0

VARIABLES
  main_thread,              \* where the main thread is
  options,                  \* prog_opts
  sinks,                    \* the registered output functions
  count,                    \* how many messages the worker has taken
  current, pending_sinks,   \* the message being output, the sinks not done with it
  stream, disabled, messages,   \* the log file, whether it is given up, its queue
  log_file, received,       \* its content; history: the messages its sink was handed
  viewable_messages, next_messages, emitted,  \* kept; for the window; dispatches asked for
  window, rows,             \* the log window, and what it lists
  shows,                    \* how far the sink of the log window is with the message
  crash                     \* the thread that runs the crash handler, and whether it waits

takenVars  == <<count, current, pending_sinks>>
fileVars   == <<stream, disabled, messages, log_file, received>>
viewerVars == <<viewable_messages, next_messages, emitted, window, rows, shows>>
sinkVars   == <<main_thread, options, sinks, takenVars, fileVars, viewerVars, crash>>

NoOptions == [status |-> 0, verbose |-> FALSE, quiet |-> FALSE, headless |-> FALSE, nolog |-> FALSE]

SinksInit ==
  /\ main_thread = "start" /\ options = NoOptions
  /\ sinks = {} /\ count = 0 /\ current = NoMessage /\ pending_sinks = {}
  /\ stream = "unopened" /\ disabled = FALSE /\ messages = <<>> /\ log_file = <<>> /\ received = <<>>
  /\ viewable_messages = <<>> /\ next_messages = <<>> /\ emitted = 0
  /\ window = "none" /\ rows = <<>> /\ shows = "no"
  /\ crash = [by |-> "nobody", waits |-> FALSE]

-----------------------------------------------------------------------------
(* The main thread starts the program (main, parseArgs).                   *)

Alive == main_thread # "ended"
MainRuns == crash.by # "main"

Registers(from, to, sink) ==
  /\ MainRuns /\ main_thread = from /\ main_thread' = to
  /\ sinks' = sinks \union {sink}
  /\ UNCHANGED <<options, takenVars, fileVars, viewerVars, crash>>

RegisterConsole == Registers("start", "console", "console")
RegisterFile    == Registers("console", "file", "file")

\* One argument: the first that is wrong, or -h, is the last that is read.
Parsed(o, arg) ==
  IF o.status # 0 THEN o
  ELSE CASE arg = "-v" -> IF o.quiet THEN [o EXCEPT !.status = 1] ELSE [o EXCEPT !.verbose = TRUE]
         [] arg = "-q" -> IF o.verbose THEN [o EXCEPT !.status = 1] ELSE [o EXCEPT !.quiet = TRUE]
         [] arg = "-h" -> [o EXCEPT !.status = 2]
         [] arg = "unknown" -> [o EXCEPT !.status = 1]
         [] arg = "--headless" -> [o EXCEPT !.headless = TRUE]
         [] arg = "--dont-write-logfiles" -> [o EXCEPT !.nolog = TRUE]

\* Without its two file names, a program without windows cannot go on.
ParseArgs(args, files) ==
  /\ MainRuns /\ main_thread = "file" /\ main_thread' = "parsed"
  /\ LET o == FoldLeft(Parsed, NoOptions, args)
     IN  options' = IF o.status = 0 /\ o.headless /\ ~files THEN [o EXCEPT !.status = 1] ELSE o
  /\ UNCHANGED <<sinks, takenVars, fileVars, viewerVars, crash>>

\* initializePreferences (module Preferences); the program ends if it fails.
InitializePreferences ==
  /\ MainRuns /\ main_thread = "parsed" /\ main_thread' \in {"preferred", "exiting"}
  /\ UNCHANGED <<options, sinks, takenVars, fileVars, viewerVars, crash>>

\* open() makes the stream good again if it succeeds.
OpenLogFile ==
  /\ MainRuns /\ main_thread = "preferred" /\ main_thread' = "logging"
  /\ IF options.nolog
     THEN disabled' = TRUE /\ stream' = stream
     ELSE \/ disabled' = disabled /\ stream' = "open"
          \/ disabled' = TRUE /\ stream' = "failed"
  /\ UNCHANGED <<options, sinks, takenVars, messages, log_file, received, viewerVars, crash>>

\* Only now does the program end if its arguments are wrong.
RunApplication ==
  /\ MainRuns /\ main_thread = "logging"
  /\ main_thread' = IF options.status = 0 THEN "running" ELSE "exiting"
  /\ UNCHANGED <<options, sinks, takenVars, fileVars, viewerVars, crash>>

Gui == MainRuns /\ main_thread = "running" /\ ~options.headless

\* The constructor of Application.
RegisterViewer ==
  /\ Gui /\ "viewer" \notin sinks
  /\ Registers("running", "running", "viewer")

-----------------------------------------------------------------------------
(* The worker.                                                             *)

TakeMessage ==
  /\ Alive /\ current = NoMessage /\ count < MaxTaken /\ sinks # {}
  /\ count' = count + 1 /\ current' = count + 1 /\ pending_sinks' = sinks
  /\ UNCHANGED <<main_thread, options, sinks, fileVars, viewerVars, crash>>

MessageDone ==
  /\ Alive /\ current # NoMessage /\ pending_sinks = {}
  /\ current' = NoMessage
  /\ UNCHANGED <<main_thread, options, sinks, count, pending_sinks, fileVars, viewerVars, crash>>

Outputs(sink) == Alive /\ current # NoMessage /\ sink \in pending_sinks /\ shows = "no"
Done(sink) == pending_sinks' = pending_sinks \ {sink} /\ UNCHANGED <<count, current>>

\* Which messages -q and -v hide or show on the console is left out.
OutputToConsole ==
  /\ Outputs("console") /\ Done("console")
  /\ UNCHANGED <<main_thread, options, sinks, fileVars, viewerVars, crash>>

\* Mutant of OutputToFile: the message is not queued while the file is not open.
OutputToFileUnqueued ==
  /\ Outputs("file") /\ Done("file")
  /\ log_file' = IF ~disabled /\ stream = "open" THEN Append(log_file, current) ELSE log_file
  /\ received' = IF disabled THEN received ELSE Append(received, current)
  /\ UNCHANGED <<main_thread, options, sinks, stream, disabled, messages, viewerVars, crash>>

\* What the messages of the queue leave on a stream that works; formatting is left out.
outputToStream(contents, queue) == contents \o queue

\* The message is queued, and the queue written unless the stream has failed.  One that
\* was never opened has not: it fails with the first message, which is lost.
OutputToFile ==
  /\ Outputs("file") /\ Done("file")
  /\ IF disabled THEN UNCHANGED <<stream, messages, log_file, received>>
     ELSE /\ received' = Append(received, current)
          /\ LET queue == Append(messages, current) IN
               /\ messages' = IF stream = "failed" THEN queue ELSE <<>>
               /\ log_file' = IF stream = "open" THEN outputToStream(log_file, queue) ELSE log_file
          /\ stream' = IF stream = "unopened" THEN "failed" ELSE stream
  /\ UNCHANGED <<main_thread, options, sinks, disabled, viewerVars, crash>>

\* pushMessage: the message is kept, the oldest dropped when there are too many; then,
\* if there is a window, it is queued for it ...
KeepMessage ==
  /\ Outputs("viewer")
  /\ IF main_thread = "exiting" THEN Done("viewer") /\ UNCHANGED <<viewable_messages, shows>>
     ELSE /\ viewable_messages' = Append(IF Len(viewable_messages) = VIEWER_BUFFER_SIZE
                                         THEN Tail(viewable_messages) ELSE viewable_messages, current)
          /\ IF window = "shown" THEN shows' = "pushing" /\ UNCHANGED takenVars
             ELSE shows' = "no" /\ Done("viewer")
  /\ UNCHANGED <<main_thread, options, sinks, fileVars, next_messages, emitted, window, rows, crash>>

PushMessage ==
  /\ Alive /\ shows = "pushing" /\ crash.by # "viewer"
  /\ next_messages' = Append(next_messages, current) /\ shows' = "emitting"
  /\ UNCHANGED <<main_thread, options, sinks, takenVars, fileVars, viewable_messages, emitted,
                 window, rows, crash>>

\* ... and the window told.  It may have been freed meanwhile, as the program ends: then
\* the sink may crash, or not.
EmitMessage ==
  /\ Alive /\ shows = "emitting" /\ crash.by # "viewer"
  /\ \/ /\ emitted' = emitted + 1 /\ shows' = "no" /\ Done("viewer") /\ crash' = crash
     \/ /\ main_thread = "exiting" /\ crash.by = "nobody"
        /\ crash' = [by |-> "viewer", waits |-> FALSE]
        /\ UNCHANGED <<emitted, shows, takenVars>>
  /\ UNCHANGED <<main_thread, options, sinks, fileVars, viewable_messages, next_messages, window, rows>>

-----------------------------------------------------------------------------
(* The log window.                                                         *)

WindowStep == UNCHANGED <<main_thread, options, sinks, takenVars, fileVars, viewable_messages, shows, crash>>

OpenWindow ==
  /\ Gui /\ "viewer" \in sinks /\ window = "none"
  /\ window' = "building"
  /\ WindowStep /\ UNCHANGED <<next_messages, emitted, rows>>

\* Mutant of PopulateTreeModel: the messages that were kept are listed last.
PublishFirst ==
  /\ Gui
  /\ \/ window = "building" /\ window' = "shown" /\ UNCHANGED rows
     \/ window = "shown" /\ window' = "shown" /\ rows = <<>> /\ rows' = viewable_messages
  /\ WindowStep /\ UNCHANGED <<next_messages, emitted>>

\* The messages kept so far are listed (read without a lock) ...
PopulateTreeModel ==
  /\ Gui /\ window = "building"
  /\ rows' = viewable_messages /\ window' = "populated"
  /\ WindowStep /\ UNCHANGED <<next_messages, emitted>>

\* ... and later the sink can see the window: what came in between is never listed.
ShowWindow ==
  /\ Gui /\ window = "populated"
  /\ window' = "shown"
  /\ WindowStep /\ UNCHANGED <<next_messages, emitted, rows>>

\* The main loop runs the handler of the dispatcher once for each emit.
Dispatch ==
  /\ Gui /\ emitted > 0
  /\ next_messages # <<>>
  /\ rows' = Append(rows, Head(next_messages))
  /\ next_messages' = Tail(next_messages) /\ emitted' = emitted - 1
  /\ WindowStep /\ UNCHANGED window

-----------------------------------------------------------------------------
(* The end.                                                                *)

QuitProgram ==
  /\ MainRuns /\ main_thread = "running" /\ main_thread' = "exiting"
  /\ UNCHANGED <<options, sinks, takenVars, fileVars, viewerVars, crash>>

\* The destructor of the logger waits for its worker.
End ==
  /\ MainRuns /\ main_thread = "exiting" /\ current = NoMessage
  /\ main_thread' = "ended"
  /\ UNCHANGED <<options, sinks, takenVars, fileVars, viewerVars, crash>>

\* A fatal signal on the main thread: its handler logs a message and waits until a
\* batch has been output, or not at all if it finds the queue empty (waitForLogger).
Crash ==
  /\ Alive /\ crash.by = "nobody" /\ main_thread # "start"
  /\ \E waits \in BOOLEAN : crash' = [by |-> "main", waits |-> waits]
  /\ UNCHANGED <<main_thread, options, sinks, takenVars, fileVars, viewerVars>>

\* A second fatal signal terminates the program at once.
CrashAgain ==
  /\ Alive /\ crash.by = "main" /\ shows # "no"
  /\ main_thread' = "ended"
  /\ UNCHANGED <<options, sinks, takenVars, fileVars, viewerVars, crash>>

\* Mutant of Notify: waiting threads are told when the program ends only.
NotifyAtEnd ==
  /\ main_thread = "ended" /\ current = NoMessage /\ crash.waits
  /\ crash' = [crash EXCEPT !.waits = FALSE]
  /\ UNCHANGED <<main_thread, options, sinks, takenVars, fileVars, viewerVars>>

\* The end of a batch, however small.
Notify ==
  /\ Alive /\ current = NoMessage /\ crash.waits
  /\ crash' = [crash EXCEPT !.waits = FALSE]
  /\ UNCHANGED <<main_thread, options, sinks, takenVars, fileVars, viewerVars>>

\* The signal is sent again, with its default handler.  A sink that has crashed waits for
\* a worker that waits for that sink.
Killed ==
  /\ Alive /\ crash.by = "main" /\ ~crash.waits
  /\ main_thread' = "ended"
  /\ UNCHANGED <<options, sinks, takenVars, fileVars, viewerVars, crash>>

-----------------------------------------------------------------------------

Arguments == UNION {[1..n -> Flags] : n \in 0..MaxArguments}

SinkWorker ==
  \/ MessageDone \/ OutputToConsole \/ OutputToFile \/ Notify
  \/ KeepMessage \/ PushMessage \/ EmitMessage
SinksNext ==
  \/ RegisterConsole \/ RegisterFile \/ InitializePreferences \/ OpenLogFile \/ RunApplication
  \/ \E args \in Arguments, files \in BOOLEAN : ParseArgs(args, files)
  \/ RegisterViewer \/ OpenWindow \/ PopulateTreeModel \/ ShowWindow \/ Dispatch
  \/ QuitProgram \/ End \/ Crash \/ CrashAgain \/ Killed
  \/ SinkWorker \/ TakeMessage

\* The worker and its sinks go on, and so do the main thread's last steps and the
\* crash handler.
SinksSpec ==
  /\ SinksInit /\ [][SinksNext]_sinkVars
  /\ WF_sinkVars(SinkWorker) /\ WF_sinkVars(Notify) /\ WF_sinkVars(End) /\ WF_sinkVars(Killed)

-----------------------------------------------------------------------------
(* Properties.                                                             *)

\* The log file and its queue hold what the sink was handed, in order and once, but at
\* most the very first message, however late the file is opened.
FileIsComplete ==
  \E lost \in 0..1 : log_file \o messages = SubSeq(received, lost + 1, Len(received))

\* The log window lists messages in the order of the log and none twice, whether it was
\* opened before or after they came, and for every dispatch that was asked for there is a
\* message: the handler never takes one from an empty queue.
WindowFollowsLog ==
  LET listed == rows \o next_messages
  IN  /\ \A i, j \in 1..Len(listed) : i < j => listed[i] < listed[j]
      /\ emitted <= Len(next_messages)

\* After a fatal signal on the main thread the program ends, whatever the sinks are doing.
CrashEnds == (crash.by = "main") ~> (main_thread = "ended")
=============================================================================
