-------------------------- MODULE OutputLifecycle --------------------------
(***************************************************************************)
(* The life of the OBS output objects, and what a fatal error does to them *)
(* (srtla-output.cpp, srtla-dock.cpp, srtla-module.cpp, lib.rs).           *)
(*                                                                         *)
(* The UI thread starts and stops the output for the dock, for OBS events  *)
(* and for websocket requests, and runs the tasks that fatal errors queue. *)
(* Three threads of a started output may raise such an error: the encoder  *)
(* callback, the ABR worker, which polls the engine's last_error, and the  *)
(* session's connector.  They belong to one object at a time, the host.    *)
(***************************************************************************)
EXTENDS Naturals, Sequences

CONSTANTS
  MaxObjects, \* bound: output objects the dock creates
  MaxStarts   \* bound: calls of srtla_output_start

ASSUME LifecycleAssumption == MaxStarts \in Nat /\ MaxObjects \in Nat

VARIABLES
  output,        \* SrtlaDock::output_, 0 when null
  dockRunning,   \* SrtlaDock::running_
  ui,            \* where the UI thread is in a start or a stop
  task,          \* the fatal task whose stop the UI thread is in, or NoTask
  tasks,         \* FatalOutputTasks in the UI thread's queue
  created,       \* number of objects created
  refs,          \* OBS reference counts; 0 once destroyed
  running,       \* SrtlaOutput::running
  signalQueued,  \* SrtlaOutput::fatal_signal_queued
  host,          \* the object whose engine, session and threads are active
  engineOn,      \* Engine::running
  lastError,     \* Engine::last_error
  runner,        \* the embedded runner works
  session,       \* the SRT session
  thread,        \* where each thread that can raise an error is
  starts,        \* history: number of starts, and of the current one
  failed         \* history: starts that returned false

dockVars   == <<output, dockRunning>>
uiVars     == <<ui, task>>
objVars    == <<created, refs>>
engineVars == <<engineOn, lastError, runner>>
histVars   == <<starts, failed>>

vars == <<output, dockRunning, ui, task, tasks, created, refs, running,
          signalQueued, host, engineOn, lastError, runner, session, thread,
          starts, failed>>

(* The output objects, in the order of their creation. *)
Objects == 1 .. MaxObjects

Threads == {"encoder", "abr", "connector"}
ThreadStates == {"off", "rest", "report", "checked", "claimed", "mirror"}

Task == [obj: Objects, start: 1 .. MaxStarts]
NoTask == [obj |-> 0, start |-> 0]

FlagTypes ==
  /\ dockRunning \in BOOLEAN /\ engineOn \in BOOLEAN /\ runner \in BOOLEAN
  /\ running \in [Objects -> BOOLEAN] /\ signalQueued \in [Objects -> BOOLEAN]

TypeOK ==
  /\ FlagTypes
  /\ output \in Objects \cup {0}
  /\ ui \in {"idle", "starting", "connecting", "connected", "begun", "capturing",
             "undoing", "stopping", "joining"}
  /\ task \in Task \cup {NoTask} /\ tasks \in Seq(Task)
  /\ created \in Objects \cup {0} /\ refs \in [Objects -> Nat]
  /\ host \in Objects \cup {0}
  /\ lastError \in {"", "backpressure", "stopped", "fatal"}
  /\ session \in {"off", "new", "up", "dead"}
  /\ thread \in [Threads -> ThreadStates]
  /\ starts \in 0 .. MaxStarts /\ failed \subseteq 1 .. MaxStarts

Init ==
  /\ output = 0 /\ dockRunning = FALSE
  /\ ui = "idle" /\ task = NoTask /\ tasks = <<>>
  /\ created = 0 /\ refs = [o \in Objects |-> 0]
  /\ running = [o \in Objects |-> FALSE]
  /\ signalQueued = [o \in Objects |-> FALSE]
  /\ host = 0 /\ engineOn = FALSE /\ lastError = "" /\ runner = FALSE
  /\ session = "off" /\ thread = [t \in Threads |-> "off"]
  /\ starts = 0 /\ failed = {}

-----------------------------------------------------------------------------
(* UI thread: toggleOutput of the dock, then srtla_output_start.            *)

(* The output object left by a failed start is used again. *)
Toggle ==
  /\ ui = "idle" /\ ~dockRunning /\ starts < MaxStarts
  /\ ui' = "starting" /\ starts' = starts + 1
  /\ IF output = 0
     THEN /\ created + 1 \in Objects
          /\ created' = created + 1
          /\ output' = created + 1
          /\ refs' = [refs EXCEPT ![created + 1] = 1]
     ELSE UNCHANGED <<objVars, output>>
  /\ UNCHANGED <<dockRunning, task, tasks, running, signalQueued, host, engineVars,
                 session, thread, failed>>

(* Missing encoder, credential error, capture not possible, shared encoder  *)
(* busy, no engine; the last two after fatal_signal_queued was reset.       *)
StartRefused ==
  /\ ui = "starting"
  /\ ui' = "idle" /\ failed' = failed \cup {starts}
  /\ \E b \in {signalQueued[output], FALSE} :
        signalQueued' = [signalQueued EXCEPT ![output] = b]
  /\ UNCHANGED <<dockVars, task, tasks, objVars, running, host, engineVars,
                 session, thread, starts>>

(* fatal_signal_queued = false, srtla_engine_start, then the session and    *)
(* its connector thread.                                                    *)
StartEngine ==
  /\ ui = "starting"
  /\ ui' = "connecting"
  /\ signalQueued' = [signalQueued EXCEPT ![output] = FALSE]
  /\ host' = output
  /\ engineOn' = TRUE /\ lastError' = "" /\ runner' = TRUE
  /\ session' = "new" /\ thread' = [thread EXCEPT !["connector"] = "rest"]
  /\ UNCHANGED <<dockVars, task, tasks, objVars, running, histVars>>

WaitConnected ==
  /\ ui = "connecting" /\ session = "up"
  /\ ui' = "connected"
  /\ UNCHANGED <<dockVars, task, tasks, objVars, running, signalQueued, host,
                 engineVars, session, thread, histVars>>

(* Engine, session and threads of the host come to an end: each thread that *)
(* is inside queue_fatal_output is waited for.                              *)
AtRest == \A t \in Threads : thread[t] \in {"off", "rest"}

Quiet ==
  /\ AtRest
  /\ thread' = [t \in Threads |-> "off"]
  /\ session' = "off" /\ engineOn' = FALSE /\ host' = 0
  /\ UNCHANGED <<lastError, runner>>

(* No connection within five seconds, or a later error before capture. *)
StartFails ==
  /\ ui \in {"connecting", "connected"}
  /\ ui' = "idle" /\ failed' = failed \cup {starts}
  /\ Quiet
  /\ UNCHANGED <<dockVars, task, tasks, objVars, running, signalQueued, starts>>

(* running = true; the media worker. *)
BeginRun ==
  /\ ui = "connected"
  /\ ui' = "begun"
  /\ running' = [running EXCEPT ![output] = TRUE]
  /\ UNCHANGED <<dockVars, task, tasks, objVars, signalQueued, host, engineVars,
                 session, thread, histVars>>

(* OBS captures: encoded packets arrive. *)
BeginCapture ==
  /\ ui = "begun"
  /\ ui' = "capturing"
  /\ thread' = [thread EXCEPT !["encoder"] = "rest"]
  /\ UNCHANGED <<dockVars, task, tasks, objVars, running, signalQueued, host,
                 engineVars, session, histVars>>

(* The ABR worker; start and obs_output_start return true. *)
StartDone ==
  /\ ui = "capturing"
  /\ ui' = "idle" /\ dockRunning' = TRUE
  /\ thread' = [thread EXCEPT !["abr"] = "rest"]
  /\ UNCHANGED <<output, task, tasks, objVars, running, signalQueued, host,
                 engineVars, session, histVars>>

(* A worker or the capture could not be started: undo, which does not reset *)
(* fatal_signal_queued.                                                     *)
StartUndo ==
  /\ ui \in {"begun", "capturing"}
  /\ ui' = "undoing" /\ failed' = failed \cup {starts}
  /\ running' = [running EXCEPT ![output] = FALSE]
  /\ UNCHANGED <<dockVars, task, tasks, objVars, signalQueued, host, engineVars,
                 session, thread, starts>>

UndoFinish ==
  /\ ui = "undoing"
  /\ ui' = "idle"
  /\ Quiet
  /\ UNCHANGED <<dockVars, task, tasks, objVars, running, signalQueued, histVars>>

-----------------------------------------------------------------------------
(* UI thread: stopOutput of the dock (button, websocket, profile change,    *)
(* another output that needs the encoder, unloading) and the fatal task.    *)

(* obs_output_release; the last reference destroys the object. *)
Release(o) == refs' = [refs EXCEPT ![o] = @ - 1]

(* Mutant: the dock keeps the object of a finished run. *)
OutputKept == UNCHANGED <<output, refs>>

OutputReleased == output' = 0 /\ Release(output)

(* stopOutput of an output that does not capture only releases it. *)
DropOutput ==
  /\ ui = "idle" /\ output # 0 /\ ~running[output]
  /\ dockRunning' = FALSE
  /\ OutputReleased
  /\ UNCHANGED <<uiVars, tasks, created, running, signalQueued, host, engineVars,
                 session, thread, histVars>>

(* srtla_output_stop: running = false, *)
StopOutput ==
  /\ ui = "idle" /\ output # 0 /\ running[output]
  /\ ui' = "stopping" /\ dockRunning' = FALSE
  /\ running' = [running EXCEPT ![output] = FALSE]
  /\ UNCHANGED <<output, task, tasks, objVars, signalQueued, host, engineVars,
                 session, thread, histVars>>

(* then fatal_signal_queued = false, *)
StopSignal ==
  /\ ui = "stopping"
  /\ ui' = "joining"
  /\ signalQueued' = [signalQueued EXCEPT ![host] = FALSE]
  /\ UNCHANGED <<dockVars, task, tasks, objVars, running, host, engineVars,
                 session, thread, histVars>>

(* then the end of capture, workers, session and engine, and the release by *)
(* whoever stopped it.                                                      *)
StopFinish ==
  /\ ui = "joining"
  /\ ui' = "idle" /\ task' = NoTask
  /\ Quiet
  /\ \/ task = NoTask /\ OutputReleased
     \/ task # NoTask /\ Release(task.obj) /\ UNCHANGED output
  /\ UNCHANGED <<dockRunning, tasks, created, running, signalQueued, histVars>>

(* Mutant: the task leaves the stop to OBS, which only ends the capture. *)
CaptureEndsOnly(t) ==
  /\ Release(t.obj)
  /\ thread' = [thread EXCEPT !["encoder"] = "off"]
  /\ UNCHANGED uiVars

(* The task calls srtla_output_stop and keeps its reference meanwhile. *)
TaskStops(t) ==
  /\ ui' = "stopping" /\ task' = t
  /\ UNCHANGED <<refs, thread>>

(* signal_fatal_output_on_ui. *)
RunTask ==
  LET t == Head(tasks) IN
  /\ ui = "idle" /\ tasks # <<>>
  /\ tasks' = Tail(tasks)
  /\ \/ /\ ~running[t.obj]
        /\ Release(t.obj)
        /\ UNCHANGED <<uiVars, running, thread>>
     \/ /\ running[t.obj]
        /\ running' = [running EXCEPT ![t.obj] = FALSE]
        /\ TaskStops(t)
  /\ UNCHANGED <<dockVars, created, signalQueued, host, engineVars, session,
                 histVars>>

-----------------------------------------------------------------------------
(* The threads of a started output.  queue_fatal_output tests running,      *)
(* claims fatal_signal_queued and queues the task, in three steps.          *)

Step(t, from, to) == thread[t] = from /\ thread' = [thread EXCEPT ![t] = to]

(* Where a thread goes on after queue_fatal_output: the connector is still  *)
(* in set_status, which tells the engine after the output.                  *)
Back(t) == IF t = "connector" THEN "mirror" ELSE "rest"

(* A packet that the muxer rejects; any packet may be one. *)
EncoderFails ==
  /\ Step("encoder", "rest", "checked") /\ running[host]
  /\ UNCHANGED <<dockVars, uiVars, tasks, objVars, running, signalQueued, host,
                 engineVars, session, histVars>>

(* A round of the ABR worker that finds an error in the engine. *)
AbrFindsError ==
  /\ Step("abr", "rest", "checked") /\ running[host] /\ lastError # ""
  /\ UNCHANGED <<dockVars, uiVars, tasks, objVars, running, signalQueued, host,
                 engineVars, session, histVars>>

(* The connector calls on_session_status(Fatal). *)
ConnectorReports ==
  /\ Step("connector", "report", IF running[host] THEN "checked" ELSE "mirror")
  /\ UNCHANGED <<dockVars, uiVars, tasks, objVars, running, signalQueued, host,
                 engineVars, session, histVars>>

Claim(t) ==
  /\ Step(t, "checked", IF signalQueued[host] THEN Back(t) ELSE "claimed")
  /\ signalQueued' = [signalQueued EXCEPT ![host] = TRUE]
  /\ UNCHANGED <<dockVars, uiVars, tasks, objVars, running, host, engineVars,
                 session, histVars>>

(* Mutant: the task holds no reference. *)
NoReference == UNCHANGED refs

(* obs_output_get_ref. *)
TaskReference == refs' = [refs EXCEPT ![host] = @ + 1]

Post(t) ==
  /\ Step(t, "claimed", Back(t))
  /\ TaskReference
  /\ tasks' = Append(tasks, [obj |-> host, start |-> starts])
  /\ UNCHANGED <<dockVars, uiVars, created, running, signalQueued, host, engineVars,
                 session, histVars>>

(* The task could not be allocated or queued. *)
PostFails(t) ==
  /\ Step(t, "claimed", Back(t))
  /\ signalQueued' = [signalQueued EXCEPT ![host] = FALSE]
  /\ UNCHANGED <<dockVars, uiVars, tasks, objVars, running, host, engineVars,
                 session, histVars>>

-----------------------------------------------------------------------------
(* Session and engine. *)

SessionConnects ==
  /\ session = "new"
  /\ session' = "up"
  /\ UNCHANGED <<dockVars, uiVars, tasks, objVars, running, signalQueued, host,
                 engineVars, thread, histVars>>

(* set_status(Fatal): the output is told, then the engine.  The connector   *)
(* ends, and with it the traffic of the session.                            *)
SessionFatal ==
  /\ session \in {"new", "up"} /\ Step("connector", "rest", "report")
  /\ session' = "dead"
  /\ UNCHANGED <<dockVars, uiVars, tasks, objVars, running, signalQueued, host,
                 engineVars, histVars>>

(* Mutant: the engine does not keep the error of a failed session. *)
SessionErrorDropped == UNCHANGED lastError

(* srtla_engine_set_session_state(SESSION_FATAL). *)
SessionErrorKept == lastError' = "fatal"

EngineTold ==
  /\ Step("connector", "mirror", "rest")
  /\ SessionErrorKept
  /\ UNCHANGED <<dockVars, uiVars, tasks, objVars, running, signalQueued, host,
                 engineOn, runner, session, histVars>>

ErrorOf(full) ==
  IF ~runner THEN "stopped" ELSE IF full THEN "backpressure" ELSE ""

(* libsrt sends a datagram: srtla_engine_submit_srt_datagram.  full says    *)
(* that the queue has no room.                                              *)
Submit(full) ==
  /\ session \in {"new", "up"} /\ engineOn
  /\ lastError' = ErrorOf(full)
  /\ UNCHANGED <<dockVars, uiVars, tasks, objVars, running, signalQueued, host,
                 engineOn, runner, session, thread, histVars>>

(* A link command or adapter update of the dock meets a full control queue. *)
ControlQueueFull ==
  /\ ui = "idle" /\ engineOn
  /\ lastError' = "backpressure"
  /\ UNCHANGED <<dockVars, uiVars, tasks, objVars, running, signalQueued, host,
                 engineOn, runner, session, thread, histVars>>

RunnerStops ==
  /\ engineOn /\ runner
  /\ runner' = FALSE
  /\ UNCHANGED <<dockVars, uiVars, tasks, objVars, running, signalQueued, host,
                 engineOn, lastError, session, thread, histVars>>

-----------------------------------------------------------------------------
UiGoesOn == StartDone \/ UndoFinish \/ StopSignal \/ StopFinish \/ BeginCapture

Next ==
  \/ Toggle \/ StartRefused \/ StartEngine \/ WaitConnected \/ StartFails
  \/ BeginRun \/ BeginCapture \/ StartDone \/ StartUndo \/ UndoFinish
  \/ DropOutput \/ StopOutput \/ StopSignal \/ StopFinish \/ RunTask
  \/ EncoderFails \/ AbrFindsError \/ ConnectorReports \/ EngineTold
  \/ \E t \in Threads : Claim(t) \/ Post(t) \/ PostFails(t)
  \/ SessionConnects \/ SessionFatal \/ RunnerStops \/ ControlQueueFull
  \/ \E full \in BOOLEAN : Submit(full)

Spec == Init /\ [][Next]_vars

(* Every thread is scheduled, the UI thread gets to its tasks, memory for a *)
(* task is not refused for ever, and a session keeps sending (libsrt has    *)
(* keep-alives).                                                            *)
Fairness ==
  /\ WF_vars(UiGoesOn) /\ WF_vars(RunTask)
  /\ WF_vars(AbrFindsError) /\ WF_vars(ConnectorReports \/ EngineTold)
  /\ \A t \in Threads : WF_vars(Claim(t)) /\ SF_vars(Post(t))
  /\ WF_vars(\E full \in BOOLEAN : Submit(full))

FairSpec == Spec /\ Fairness

-----------------------------------------------------------------------------
(* "The engine, session and workers cannot survive a fatal local error"     *)
(* (comment of signal_fatal_output_on_ui), nor a stop or a failed start:    *)
(* between two UI events they exist only for a running output of the dock.  *)
NothingSurvives ==
  ui = "idle" /\ (engineOn \/ session # "off" \/ \E t \in Threads : thread[t] # "off")
    => output # 0 /\ host = output /\ running[output]

(* No pending task, no thread and no pointer of the dock refers to an       *)
(* object that srtla_output_destroy has deleted, although tasks outlive the *)
(* stop that made them pointless.                                           *)
NoDangling ==
  /\ \A i \in 1 .. Len(tasks) : refs[tasks[i].obj] > 0
  /\ \A o \in {output, host, task.obj} \ {0} : refs[o] > 0

(* Start number n and all that followed it, up to the present one, failed. *)
FailedSince(n) == \A s \in n .. starts - 1 : s \in failed

(* A fatal task stops only the run that raised the error, although it may   *)
(* be pending while the user stops and starts again: that makes another     *)
(* object.  The exception the code makes: start() keeps its object when it  *)
(* fails, so that a task of a failed start can stop the run of the next     *)
(* start that succeeds (signal_fatal_output_on_ui tests running only) - but *)
(* never one after that.                                                    *)
OwnErrorOnly ==
  [][\A o \in Objects :
       tasks # tasks' /\ running[o] /\ ~running'[o]
         => Head(tasks).obj = o /\ FailedSince(Head(tasks).start)]_vars

Running == output # 0 /\ running[output]

(* A session or an engine that is beyond recovery stops the output, even if *)
(* it failed before running was set, its report was dropped, other errors   *)
(* came and went, or an earlier start had left its own signal.              *)
FatalErrorStops == Running /\ (session = "dead" \/ ~runner) ~> ~Running

(* websocketSetOutputActive(true) answers success whenever running_ is set: *)
(* "Start or stop using the connection and encoder settings" (README.md:58) *)
(* and "failed requests also include an error string" (README.md:74-75)     *)
(* need that the output then runs.                                          *)
ActiveMeansRunning == ui = "idle" /\ dockRunning => Running
=============================================================================
