----------------------- MODULE OutputLifecycleProofs -----------------------
(***************************************************************************)
(* Lifetime of the output objects and effect of fatal errors, for any      *)
(* number of objects and starts.                                           *)
(***************************************************************************)
EXTENDS OutputLifecycle, FiniteSetTheorems, FunctionTheorems, SequenceTheorems,
        TLAPS

(* The places in a queue of tasks that refer to object o. *)
Pending(q, o) == {i \in 1 .. Len(q) : q[i].obj = o}

(* The dock, each pending task and the task being run hold a reference. *)
Holders(q, out, t, o) ==
  Cardinality(Pending(q, o)) + (IF out = o THEN 1 ELSE 0)
                             + (IF t.obj = o THEN 1 ELSE 0)

RefsCounted == \A o \in Objects : refs[o] = Holders(tasks, output, task, o)

(* Objects that are referred to have been created. *)
KnownObjects ==
  /\ output <= created /\ task.obj <= created
  /\ \A i \in 1 .. Len(tasks) : tasks[i].obj <= created

(* The active engine, session and threads belong to the dock's output, and  *)
(* are there in every phase of a start or stop but the first.               *)
Phases ==
  /\ host # 0 => host = output
  /\ host = 0 => /\ engineOn = FALSE /\ session = "off"
                 /\ \A t \in Threads : thread[t] = "off"
  /\ ui # "idle" => output # 0
  /\ ui = "starting" => host = 0
  /\ ui \in {"connecting", "connected", "begun", "capturing", "undoing",
             "stopping", "joining"} => host # 0
  /\ ui \in {"begun", "capturing"} \/ (ui = "idle" /\ host # 0) => running[host]
  /\ \A o \in Objects : running[o] =>
       /\ o = host
       /\ ui \in {"begun", "capturing"} \/ (ui = "idle" /\ dockRunning)
  /\ task # NoTask => ui \in {"stopping", "joining"} /\ dockRunning
  /\ output # 0 => starts > 0

(* A task for the dock's object comes from this start, or from one since    *)
(* which every start has failed.                                            *)
Causes ==
  /\ \A i \in 1 .. Len(tasks) : tasks[i].obj = output =>
       FailedSince(tasks[i].start)
  /\ ui = "undoing" \/ (ui = "idle" /\ output # 0 /\ ~dockRunning) =>
       starts \in failed

OInv == TypeOK /\ Phases /\ RefsCounted /\ KnownObjects /\ Causes

-----------------------------------------------------------------------------
(* 0 stands for no object. *)
LEMMA ObjectIds == \A o \in Objects : o \in Nat /\ o # 0
BY LifecycleAssumption DEF Objects

(* The counters are numbers. *)
LEMMA Counters ==
  ASSUME TypeOK
  PROVE  starts \in Nat /\ created \in Nat
<1>1. starts \in 0 .. MaxStarts
  BY DEF TypeOK
<1>2. created \in Objects \cup {0}
  BY DEF TypeOK
<1> QED
  BY <1>1, <1>2, ObjectIds, LifecycleAssumption

(* A reference that is held can be released. *)
LEMMA Released ==
  ASSUME TypeOK, NEW o \in Objects, refs[o] > 0, Release(o)
  PROVE  refs' \in [Objects -> Nat]
<1>1. refs \in [Objects -> Nat] /\ refs[o] \in Nat
  BY DEF TypeOK
<1>2. refs[o] - 1 \in Nat
  BY <1>1
<1> QED
  BY <1>1, <1>2 DEF Release

(* What is known of the number of pending tasks of an object. *)
LEMMA PendingFacts ==
  ASSUME NEW q \in Seq(Task), NEW o
  PROVE  /\ IsFiniteSet(Pending(q, o))
         /\ Cardinality(Pending(q, o)) \in Nat
         /\ Cardinality(Pending(q, o)) = 0 <=> \A i \in 1 .. Len(q) : q[i].obj # o
<1>1. Len(q) \in Nat
  BY LenProperties
<1>2. IsFiniteSet(1 .. Len(q))
  BY <1>1, FS_Interval
<1>3. IsFiniteSet(Pending(q, o))
  BY <1>2, FS_Subset DEF Pending
<1>4. Cardinality(Pending(q, o)) \in Nat
  BY <1>3, FS_CardinalityType
<1>5. Cardinality(Pending(q, o)) = 0 <=> Pending(q, o) = {}
  BY <1>3, FS_EmptySet
<1> QED
  BY <1>3, <1>4, <1>5 DEF Pending

(* A task that is queued counts for its object and for no other. *)
LEMMA PendingPost ==
  ASSUME NEW q \in Seq(Task), NEW t \in Task, NEW o
  PROVE  Cardinality(Pending(Append(q, t), o)) =
           Cardinality(Pending(q, o)) + (IF t.obj = o THEN 1 ELSE 0)
<1>1. /\ Len(q) \in Nat /\ Len(Append(q, t)) = Len(q) + 1
      /\ \A i \in 1 .. Len(q) : Append(q, t)[i] = q[i]
      /\ Append(q, t)[Len(q) + 1] = t
  BY AppendProperties, LenProperties
<1>2. CASE t.obj = o
  <2>1. Pending(Append(q, t), o) = Pending(q, o) \cup {Len(q) + 1}
    BY <1>1, <1>2 DEF Pending
  <2>2. Len(q) + 1 \notin Pending(q, o)
    BY <1>1 DEF Pending
  <2>3. IsFiniteSet(Pending(q, o)) /\ Cardinality(Pending(q, o)) \in Nat
    BY PendingFacts
  <2>4. Cardinality(Pending(q, o) \cup {Len(q) + 1}) = Cardinality(Pending(q, o)) + 1
    <3> DEFINE S == Pending(q, o)
               x == Len(q) + 1
    <3>1. IsFiniteSet(S) /\ x \notin S
      BY <2>2, <2>3
    <3> HIDE DEF S, x
    <3>2. Cardinality(S \cup {x}) = Cardinality(S) + 1
      BY <3>1, FS_AddElement
    <3> QED
      BY <3>2 DEF S, x
  <2> QED
    BY <1>2, <2>1, <2>4
<1>3. CASE t.obj # o
  <2>1. Pending(Append(q, t), o) = Pending(q, o)
    BY <1>1, <1>3 DEF Pending
  <2> QED
    BY <1>3, <2>1, PendingFacts
<1> QED
  BY <1>2, <1>3

(* So does a task that is taken from the queue. *)
LEMMA PendingRun ==
  ASSUME NEW q \in Seq(Task), q # <<>>, NEW o
  PROVE  Cardinality(Pending(q, o)) =
           Cardinality(Pending(Tail(q), o)) + (IF Head(q).obj = o THEN 1 ELSE 0)
<1>1. /\ Tail(q) \in Seq(Task) /\ Len(q) \in Nat /\ Len(Tail(q)) = Len(q) - 1
      /\ \A i \in 1 .. Len(Tail(q)) : Tail(q)[i] = q[i + 1]
  BY HeadTailProperties, LenProperties
<1>2. Len(q) >= 1 /\ Head(q) = q[1]
  BY LenProperties, EmptySeq
<1> DEFINE Later == Pending(q, o) \ {1}
           Shift == [i \in Pending(Tail(q), o) |-> i + 1]
<1>3. Shift \in [Pending(Tail(q), o) -> Later]
  BY <1>1, <1>2 DEF Pending
<1>4. \A i, j \in Pending(Tail(q), o) : Shift[i] = Shift[j] => i = j
  BY <1>1 DEF Pending
<1>5. \A k \in Later : \E i \in Pending(Tail(q), o) : Shift[i] = k
  <2> TAKE k \in Later
  <2>1. k - 1 \in Pending(Tail(q), o) /\ (k - 1) + 1 = k
    BY <1>1, <1>2 DEF Pending
  <2> QED
    BY <2>1
<1>6. Shift \in Bijection(Pending(Tail(q), o), Later)
  BY <1>3, <1>4, <1>5, Fun_IsBij
<1>7. ExistsBijection(Pending(Tail(q), o), Later)
  BY <1>6 DEF ExistsBijection
<1>8. Cardinality(Later) = Cardinality(Pending(Tail(q), o))
  BY <1>1, <1>7, PendingFacts, FS_Bijection
<1>9. CASE Head(q).obj = o
  <2>1. 1 \in Pending(q, o)
    BY <1>2, <1>9 DEF Pending
  <2>2. Cardinality(Later) = Cardinality(Pending(q, o)) - 1
    BY <2>1, PendingFacts, FS_RemoveElement
  <2> QED
    BY <1>8, <1>9, <2>2, PendingFacts
<1>10. CASE Head(q).obj # o
  <2>1. Later = Pending(q, o)
    BY <1>2, <1>10 DEF Pending
  <2>2. Cardinality(Pending(q, o)) \in Nat
    BY PendingFacts
  <2>3. Cardinality(Pending(q, o)) = Cardinality(Pending(Tail(q), o))
    BY <1>8, <2>1, Zenon
  <2> QED
    BY <1>8, <1>10, <2>1, <2>2, <2>3
<1> QED
  BY <1>9, <1>10

(* What is referred to is alive. *)
LEMMA HeldObjects ==
  ASSUME TypeOK, RefsCounted
  PROVE  /\ output # 0 => output \in Objects /\ refs[output] > 0
         /\ task # NoTask => task.obj \in Objects /\ refs[task.obj] > 0
         /\ \A i \in 1 .. Len(tasks) :
              tasks[i].obj \in Objects /\ refs[tasks[i].obj] > 0
<1>1. \A o \in Objects : Cardinality(Pending(tasks, o)) \in Nat
  BY PendingFacts DEF TypeOK
<1>2. output # 0 => output \in Objects /\ refs[output] > 0
  <2>1. output # 0 => output \in Objects
    BY DEF TypeOK
  <2> QED
    BY <1>1, <2>1 DEF RefsCounted, Holders
<1>3. task # NoTask => task.obj \in Objects /\ refs[task.obj] > 0
  <2>1. task # NoTask => task.obj \in Objects
    BY DEF TypeOK, Task
  <2> QED
    BY <1>1, <2>1 DEF RefsCounted, Holders
<1>4. ASSUME NEW i \in 1 .. Len(tasks)
      PROVE  tasks[i].obj \in Objects /\ refs[tasks[i].obj] > 0
  <2>1. tasks[i] \in Task
    BY ElementOfSeq DEF TypeOK
  <2>2. tasks[i].obj \in Objects
    BY <2>1 DEF Task
  <2>3. Cardinality(Pending(tasks, tasks[i].obj)) # 0
    BY PendingFacts DEF TypeOK
  <2> QED
    BY <1>1, <2>2, <2>3 DEF RefsCounted, Holders
<1> QED
  BY <1>2, <1>3, <1>4

(* The first of the queued tasks, and the others. *)
LEMMA TaskQueue ==
  ASSUME TypeOK, tasks # <<>>
  PROVE  /\ Head(tasks) \in Task /\ Head(tasks) = tasks[1] /\ 1 \in 1 .. Len(tasks)
         /\ Tail(tasks) \in Seq(Task)
         /\ \A i \in 1 .. Len(Tail(tasks)) :
              i + 1 \in 1 .. Len(tasks) /\ Tail(tasks)[i] = tasks[i + 1]
<1>1. /\ Head(tasks) \in Task /\ Tail(tasks) \in Seq(Task)
      /\ Len(Tail(tasks)) = Len(tasks) - 1
      /\ \A i \in 1 .. Len(Tail(tasks)) : Tail(tasks)[i] = tasks[i + 1]
  BY HeadTailProperties DEF TypeOK
<1>2. tasks \in Seq(Task)
  BY DEF TypeOK
<1>3. Len(tasks) \in Nat /\ Len(tasks) >= 1 /\ Head(tasks) = tasks[1]
  BY <1>2, LenProperties, EmptySeq
<1> QED
  BY <1>1, <1>2


(* An object that the dock holds has been started. *)
LEMMA StartNumber ==
  ASSUME TypeOK, Phases, output # 0
  PROVE  starts \in 1 .. MaxStarts
<1>1. starts > 0
  BY DEF Phases
<1>2. starts \in 0 .. MaxStarts
  BY DEF TypeOK
<1> QED
  BY <1>1, <1>2, LifecycleAssumption

(* A thread that is not off works for the dock's output. *)
LEMMA ThreadHost ==
  ASSUME TypeOK, Phases, NEW t \in Threads, thread[t] # "off"
  PROVE  host \in Objects /\ host = output /\ host # 0 /\ output # 0
<1>1. host # 0
  BY DEF Phases
<1>2. host \in Objects
  BY <1>1 DEF TypeOK
<1> QED
  BY <1>1, <1>2 DEF Phases

(* The flags stay Boolean. *)
LEMMA FlagStep ==
  ASSUME TypeOK, Phases, RefsCounted, KnownObjects, Causes, Next
  PROVE  FlagTypes'
<1> USE LifecycleAssumption
<1> USE DEF dockVars, uiVars, objVars, engineVars, histVars, TypeOK
<1>1. CASE Toggle
  BY <1>1, Zenon DEF Toggle, FlagTypes, Threads
<1>2. CASE StartRefused
  BY <1>2, Zenon DEF StartRefused, FlagTypes, Threads
<1>3. CASE StartEngine
  BY <1>3, Zenon DEF StartEngine, FlagTypes, Threads
<1>4. CASE WaitConnected
  BY <1>4, Zenon DEF WaitConnected, FlagTypes, Threads
<1>5. CASE StartFails
  BY <1>5, Zenon DEF StartFails, Quiet, AtRest, FlagTypes, Threads
<1>6. CASE BeginRun
  BY <1>6, Zenon DEF BeginRun, FlagTypes, Threads
<1>7. CASE BeginCapture
  BY <1>7, Zenon DEF BeginCapture, FlagTypes, Threads
<1>8. CASE StartDone
  BY <1>8, Zenon DEF StartDone, FlagTypes, Threads
<1>9. CASE StartUndo
  BY <1>9, Zenon DEF StartUndo, FlagTypes, Threads
<1>10. CASE UndoFinish
  BY <1>10, Zenon DEF UndoFinish, Quiet, AtRest, FlagTypes, Threads
<1>11. CASE DropOutput
  BY <1>11, Zenon DEF DropOutput, OutputReleased, Release, FlagTypes, Threads
<1>12. CASE StopOutput
  BY <1>12, Zenon DEF StopOutput, FlagTypes, Threads
<1>13. CASE StopSignal
  BY <1>13, Zenon DEF StopSignal, FlagTypes, Threads
<1>14. CASE StopFinish
  BY <1>14, Zenon DEF StopFinish, Quiet, AtRest, OutputReleased, Release,
     FlagTypes, Threads
<1>15. CASE RunTask
  BY <1>15, Zenon DEF RunTask, TaskStops, Release, FlagTypes, Threads
<1>16. CASE EncoderFails
  BY <1>16, Zenon DEF EncoderFails, Step, FlagTypes, Threads
<1>17. CASE AbrFindsError
  BY <1>17, Zenon DEF AbrFindsError, Step, FlagTypes, Threads
<1>18. CASE ConnectorReports
  BY <1>18, Zenon DEF ConnectorReports, Step, FlagTypes, Threads
<1>19. CASE EngineTold
  BY <1>19, Zenon DEF EngineTold, Step, SessionErrorKept, FlagTypes, Threads
<1>20. CASE \E t \in Threads : Claim(t)
  BY <1>20, Zenon DEF Claim, Step, Back, FlagTypes, Threads
<1>21. CASE \E t \in Threads : Post(t)
  BY <1>21, Zenon DEF Post, Step, Back, TaskReference, FlagTypes, Threads
<1>22. CASE \E t \in Threads : PostFails(t)
  BY <1>22, Zenon DEF PostFails, Step, Back, FlagTypes, Threads
<1>23. CASE SessionConnects
  BY <1>23, Zenon DEF SessionConnects, FlagTypes, Threads
<1>24. CASE SessionFatal
  BY <1>24, Zenon DEF SessionFatal, Step, FlagTypes, Threads
<1>25. CASE RunnerStops
  BY <1>25, Zenon DEF RunnerStops, FlagTypes, Threads
<1>26. CASE ControlQueueFull
  BY <1>26, Zenon DEF ControlQueueFull, FlagTypes, Threads
<1>27. CASE \E full \in BOOLEAN : Submit(full)
  BY <1>27, Zenon DEF Submit, ErrorOf, FlagTypes, Threads
<1> QED
  BY <1>1, <1>2, <1>3, <1>4, <1>5, <1>6, <1>7, <1>8, <1>9, <1>10, <1>11,
     <1>12, <1>13, <1>14, <1>15, <1>16, <1>17, <1>18, <1>19, <1>20, <1>21,
     <1>22, <1>23, <1>24, <1>25, <1>26, <1>27 DEF Next

(* Every variable keeps its type. *)
LEMMA TypeStep ==
  ASSUME TypeOK, Phases, RefsCounted, KnownObjects, Causes, Next
  PROVE  TypeOK'
<1> USE LifecycleAssumption
<1> USE DEF dockVars, uiVars, objVars, engineVars, histVars
<1>0. FlagTypes'
  BY FlagStep
<1>1. CASE Toggle
  <2>1. starts' \in 0 .. MaxStarts
    BY <1>1, Counters DEF Toggle
  <2>2. created' \in Objects \cup {0} /\ output' \in Objects \cup {0}
    BY <1>1 DEF Toggle, TypeOK
  <2>3. refs' \in [Objects -> Nat]
    <3>1. refs \in [Objects -> Nat]
      BY DEF TypeOK
    <3> QED
      BY <1>1, <3>1 DEF Toggle
  <2> QED
    BY <1>1, <1>0, <2>1, <2>2, <2>3 DEF Toggle, TypeOK
<1>2. CASE StartRefused
  <2>1. output # 0
    BY <1>2 DEF StartRefused, Phases
  <2>2. starts \in 1 .. MaxStarts
    BY <2>1, StartNumber
  <2> QED
    BY <1>2, <1>0, <2>2 DEF StartRefused, TypeOK
<1>3. CASE StartEngine
  BY <1>3, <1>0 DEF StartEngine, TypeOK, Threads, ThreadStates
<1>4. CASE WaitConnected
  BY <1>4, <1>0 DEF WaitConnected, TypeOK, Threads, ThreadStates
<1>5. CASE StartFails
  <2>1. output # 0
    BY <1>5 DEF StartFails, Phases
  <2>2. starts \in 1 .. MaxStarts
    BY <2>1, StartNumber
  <2> QED
    BY <1>5, <1>0, <2>2 DEF StartFails, Quiet, Threads, ThreadStates, TypeOK
<1>6. CASE BeginRun
  BY <1>6, <1>0 DEF BeginRun, TypeOK, Threads, ThreadStates
<1>7. CASE BeginCapture
  BY <1>7, <1>0 DEF BeginCapture, TypeOK, Threads, ThreadStates
<1>8. CASE StartDone
  BY <1>8, <1>0 DEF StartDone, TypeOK, Threads, ThreadStates
<1>9. CASE StartUndo
  <2>1. output # 0
    BY <1>9 DEF StartUndo, Phases
  <2>2. starts \in 1 .. MaxStarts
    BY <2>1, StartNumber
  <2> QED
    BY <1>9, <1>0, <2>2 DEF StartUndo, TypeOK
<1>10. CASE UndoFinish
  BY <1>10, <1>0 DEF UndoFinish, Quiet, AtRest, TypeOK, Threads, ThreadStates
<1>11. CASE DropOutput
  <2>1. output \in Objects /\ refs[output] > 0
    BY <1>11, HeldObjects DEF DropOutput
  <2>2. refs' \in [Objects -> Nat]
    BY <1>11, <2>1, Released DEF DropOutput, OutputReleased
  <2> QED
    BY <1>11, <1>0, <2>2 DEF DropOutput, OutputReleased, TypeOK
<1>12. CASE StopOutput
  BY <1>12, <1>0 DEF StopOutput, TypeOK, Threads, ThreadStates
<1>13. CASE StopSignal
  BY <1>13, <1>0 DEF StopSignal, TypeOK, Threads, ThreadStates
<1>14. CASE StopFinish
  <2>1. output \in Objects /\ refs[output] > 0
    BY <1>14, HeldObjects DEF StopFinish, Phases
  <2>2. task # NoTask => task.obj \in Objects /\ refs[task.obj] > 0
    BY HeldObjects
  <2>3. refs' \in [Objects -> Nat]
    BY <1>14, <2>1, <2>2, Released DEF StopFinish, OutputReleased
  <2>4. output' \in Objects \cup {0}
    BY <1>14 DEF StopFinish, OutputReleased, TypeOK
  <2> QED
    BY <1>14, <1>0, <2>3, <2>4 DEF StopFinish, Quiet, TypeOK, Threads, ThreadStates
<1>15. CASE RunTask
  <2> DEFINE t == Head(tasks)
  <2>1. t \in Task /\ tasks' \in Seq(Task)
    BY <1>15, TaskQueue DEF RunTask
  <2>2. t.obj \in Objects /\ refs[t.obj] > 0
    BY <1>15, TaskQueue, HeldObjects DEF RunTask
  <2>3. CASE ~running[t.obj]
    <3>1. refs' \in [Objects -> Nat]
      BY <1>15, <2>2, <2>3, Released DEF RunTask
    <3> QED
      BY <1>15, <1>0, <2>1, <2>3, <3>1 DEF RunTask, TypeOK
  <2>4. CASE running[t.obj]
    BY <1>15, <1>0, <2>1, <2>4 DEF RunTask, TaskStops, TypeOK
  <2> QED
    BY <2>3, <2>4
<1>16. CASE EncoderFails
  BY <1>16, <1>0 DEF EncoderFails, Step, TypeOK, Threads, ThreadStates
<1>17. CASE AbrFindsError
  BY <1>17, <1>0 DEF AbrFindsError, Step, TypeOK, Threads, ThreadStates
<1>18. CASE ConnectorReports
  BY <1>18, <1>0 DEF ConnectorReports, Step, TypeOK, Threads, ThreadStates
<1>19. CASE EngineTold
  BY <1>19, <1>0 DEF EngineTold, Step, SessionErrorKept, TypeOK, Threads,
     ThreadStates
<1>20. CASE \E t \in Threads : Claim(t)
  <2>1. PICK t \in Threads : Claim(t)
    BY <1>20
  <2>2. thread' \in [Threads -> ThreadStates]
    BY <2>1 DEF Claim, Step, Back, TypeOK, ThreadStates
  <2> QED
    BY <1>0, <2>1, <2>2 DEF Claim, TypeOK
<1>21. CASE \E t \in Threads : Post(t)
  <2>1. PICK t \in Threads : Post(t)
    BY <1>21
  <2>2. thread' \in [Threads -> ThreadStates]
    BY <2>1 DEF Post, Step, Back, TypeOK, ThreadStates
  <2>3. host \in Objects /\ output # 0
    BY <2>1, ThreadHost DEF Post, Step
  <2>4. [obj |-> host, start |-> starts] \in Task
    BY <2>3, StartNumber DEF Task
  <2>5. tasks' \in Seq(Task)
    BY <2>1, <2>4, AppendProperties DEF Post, TypeOK
  <2>6. refs' \in [Objects -> Nat]
    <3>1. refs \in [Objects -> Nat] /\ refs[host] \in Nat
      BY <2>3 DEF TypeOK
    <3>2. refs[host] + 1 \in Nat
      BY <3>1
    <3>3. refs' = [refs EXCEPT ![host] = refs[host] + 1]
      BY <2>1 DEF Post, TaskReference
    <3> QED
      BY <3>1, <3>2, <3>3
  <2> QED
    BY <1>0, <2>1, <2>2, <2>5, <2>6 DEF Post, TypeOK
<1>22. CASE \E t \in Threads : PostFails(t)
  <2>1. PICK t \in Threads : PostFails(t)
    BY <1>22
  <2>2. thread' \in [Threads -> ThreadStates]
    BY <2>1 DEF PostFails, Step, Back, TypeOK, ThreadStates
  <2> QED
    BY <1>0, <2>1, <2>2 DEF PostFails, TypeOK
<1>23. CASE SessionConnects
  BY <1>23, <1>0 DEF SessionConnects, TypeOK, Threads, ThreadStates
<1>24. CASE SessionFatal
  BY <1>24, <1>0 DEF SessionFatal, Step, TypeOK, Threads, ThreadStates
<1>25. CASE RunnerStops
  BY <1>25, <1>0 DEF RunnerStops, TypeOK, Threads, ThreadStates
<1>26. CASE ControlQueueFull
  BY <1>26, <1>0 DEF ControlQueueFull, TypeOK, Threads, ThreadStates
<1>27. CASE \E full \in BOOLEAN : Submit(full)
  BY <1>27, <1>0 DEF Submit, ErrorOf, TypeOK, Threads, ThreadStates
<1> QED
  BY <1>1, <1>2, <1>3, <1>4, <1>5, <1>6, <1>7, <1>8, <1>9, <1>10, <1>11,
     <1>12, <1>13, <1>14, <1>15, <1>16, <1>17, <1>18, <1>19, <1>20, <1>21,
     <1>22, <1>23, <1>24, <1>25, <1>26, <1>27 DEF Next

(* Engine, session and threads stay with the dock's output. *)
LEMMA PhasesStep ==
  ASSUME TypeOK, Phases, RefsCounted, KnownObjects, Causes, Next
  PROVE  Phases'
<1> USE LifecycleAssumption
<1> USE DEF dockVars, uiVars, objVars, engineVars, histVars
<1>1. CASE Toggle
  <2>1. host = 0
    BY <1>1 DEF Toggle, Phases, TypeOK
  <2>2. \A o \in Objects : ~running[o]
    BY <2>1, ObjectIds DEF Phases
  <2>3. output' # 0
    BY <1>1, ObjectIds DEF Toggle
  <2>4. starts' > 0
    BY <1>1, Counters DEF Toggle
  <2> QED
    BY <1>1, <2>1, <2>2, <2>3, <2>4 DEF Toggle, Phases
<1>2. CASE StartRefused
  BY <1>2 DEF StartRefused, Phases, TypeOK, FlagTypes, Threads, NoTask
<1>3. CASE StartEngine
  BY <1>3 DEF StartEngine, Phases, TypeOK, FlagTypes, Threads, NoTask
<1>4. CASE WaitConnected
  BY <1>4 DEF WaitConnected, Phases, TypeOK, FlagTypes, Threads, NoTask
<1>5. CASE StartFails
  BY <1>5 DEF StartFails, Quiet, AtRest, Phases, TypeOK, FlagTypes, Threads,
     NoTask
<1>6. CASE BeginRun
  BY <1>6 DEF BeginRun, Phases, TypeOK, FlagTypes, Threads, NoTask
<1>7. CASE BeginCapture
  BY <1>7 DEF BeginCapture, Phases, TypeOK, FlagTypes, Threads, NoTask
<1>8. CASE StartDone
  <2>1. host # 0
    BY <1>8 DEF StartDone, Phases
  <2> QED
    BY <1>8, <2>1 DEF StartDone, Phases
<1>9. CASE StartUndo
  BY <1>9 DEF StartUndo, Phases, TypeOK, FlagTypes, Threads, NoTask
<1>10. CASE UndoFinish
  BY <1>10 DEF UndoFinish, Quiet, AtRest, Phases, TypeOK, FlagTypes, Threads,
     NoTask
<1>11. CASE DropOutput
  <2>1. host = 0
    BY <1>11 DEF DropOutput, Phases
  <2>2. \A o \in Objects : ~running[o]
    BY <2>1, ObjectIds DEF Phases
  <2> QED
    BY <1>11, <2>1, <2>2 DEF DropOutput, OutputReleased, Phases
<1>12. CASE StopOutput
  BY <1>12 DEF StopOutput, Phases, TypeOK, FlagTypes, Threads, NoTask
<1>13. CASE StopSignal
  BY <1>13 DEF StopSignal, Phases, TypeOK, FlagTypes, Threads, NoTask
<1>14. CASE StopFinish
  BY <1>14 DEF StopFinish, Quiet, AtRest, OutputReleased, Release, Phases,
     TypeOK, FlagTypes, Threads, NoTask
<1>15. CASE RunTask
  <2> DEFINE t == Head(tasks)
  <2>1. CASE ~running[t.obj]
    BY <1>15, <2>1 DEF RunTask, Release, TaskStops, Phases
  <2>2. CASE running[t.obj]
    <3>1. t \in Task /\ t.obj \in Objects
      BY <1>15, TaskQueue, HeldObjects DEF RunTask
    <3>2. t.obj = host /\ host # 0 /\ dockRunning
      BY <1>15, <2>2, <3>1, ObjectIds DEF RunTask, Phases
    <3>3. \A o \in Objects : ~running'[o]
      BY <1>15, <2>2, <3>1, <3>2 DEF RunTask, TypeOK, FlagTypes, Phases
    <3> QED
      BY <1>15, <2>2, <3>2, <3>3 DEF RunTask, TaskStops, Phases
  <2> QED
    BY <2>1, <2>2
<1>16. CASE EncoderFails
  BY <1>16 DEF EncoderFails, Step, Phases, TypeOK, FlagTypes, Threads, NoTask
<1>17. CASE AbrFindsError
  BY <1>17 DEF AbrFindsError, Step, Phases, TypeOK, FlagTypes, Threads, NoTask
<1>18. CASE ConnectorReports
  BY <1>18 DEF ConnectorReports, Step, Phases, TypeOK, FlagTypes, Threads,
     NoTask
<1>19. CASE EngineTold
  BY <1>19 DEF EngineTold, Step, SessionErrorKept, Phases, TypeOK, FlagTypes,
     Threads, NoTask
<1>20. CASE \E t \in Threads : Claim(t)
  <2>1. PICK t \in Threads : Claim(t)
    BY <1>20
  <2>2. host # 0
    BY <2>1, ThreadHost DEF Claim, Step
  <2> QED
    BY <2>1, <2>2 DEF Claim, Phases
<1>21. CASE \E t \in Threads : Post(t)
  <2>1. PICK t \in Threads : Post(t)
    BY <1>21
  <2>2. host # 0
    BY <2>1, ThreadHost DEF Post, Step
  <2> QED
    BY <2>1, <2>2 DEF Post, Phases
<1>22. CASE \E t \in Threads : PostFails(t)
  <2>1. PICK t \in Threads : PostFails(t)
    BY <1>22
  <2>2. host # 0
    BY <2>1, ThreadHost DEF PostFails, Step
  <2> QED
    BY <2>1, <2>2 DEF PostFails, Phases
<1>23. CASE SessionConnects
  BY <1>23 DEF SessionConnects, Phases, TypeOK, FlagTypes, Threads, NoTask
<1>24. CASE SessionFatal
  BY <1>24 DEF SessionFatal, Step, Phases, TypeOK, FlagTypes, Threads, NoTask
<1>25. CASE RunnerStops
  BY <1>25 DEF RunnerStops, Phases, TypeOK, FlagTypes, Threads, NoTask
<1>26. CASE ControlQueueFull
  BY <1>26 DEF ControlQueueFull, Phases, TypeOK, FlagTypes, Threads, NoTask
<1>27. CASE \E full \in BOOLEAN : Submit(full)
  <2>1. PICK full \in BOOLEAN : Submit(full)
    BY <1>27
  <2> QED
    BY <2>1 DEF Submit, Phases
<1> QED
  BY <1>1, <1>2, <1>3, <1>4, <1>5, <1>6, <1>7, <1>8, <1>9, <1>10, <1>11,
     <1>12, <1>13, <1>14, <1>15, <1>16, <1>17, <1>18, <1>19, <1>20, <1>21,
     <1>22, <1>23, <1>24, <1>25, <1>26, <1>27 DEF Next

(* Tasks for the dock's object keep their cause. *)
LEMMA CausesStep ==
  ASSUME TypeOK, Phases, RefsCounted, KnownObjects, Causes, Next
  PROVE  Causes'
<1> USE LifecycleAssumption
<1> USE DEF FailedSince, dockVars, uiVars, objVars, engineVars, histVars
<1>1. CASE Toggle
  <2>1. CASE output = 0
    <3>1. \A i \in 1 .. Len(tasks) : tasks[i].obj # created + 1
      <4>1. created \in Nat /\ \A i \in 1 .. Len(tasks) : tasks[i].obj \in Nat
        BY HeldObjects, ObjectIds, Counters
      <4> QED
        BY <4>1 DEF KnownObjects
    <3> QED
      BY <1>1, <2>1, <3>1 DEF Toggle, Causes
  <2>2. CASE output # 0
    <3>1. /\ UNCHANGED <<output, tasks, failed, dockRunning>> /\ starts' = starts + 1
          /\ ui' = "starting" /\ starts \in failed /\ starts \in Nat
      BY <1>1, <2>2, Counters DEF Toggle, Causes
    <3>2. \A i \in 1 .. Len(tasks) : tasks[i].start \in Int
      <4>1. \A i \in 1 .. Len(tasks) : tasks[i] \in Task
        BY ElementOfSeq DEF TypeOK
      <4> QED
        BY <4>1 DEF Task
    <3>3. ASSUME NEW i \in 1 .. Len(tasks), tasks[i].obj = output,
                 NEW s \in tasks[i].start .. starts' - 1
          PROVE  s \in failed
      <4>1. s = starts \/ s \in tasks[i].start .. starts - 1
        BY <3>1, <3>2
      <4> QED
        BY <3>1, <3>3, <4>1 DEF Causes
    <3> QED
      BY <3>1, <3>3 DEF Causes
  <2> QED
    BY <2>1, <2>2
<1>2. CASE StartRefused
  BY <1>2 DEF StartRefused, Causes, Phases, TypeOK
<1>3. CASE StartEngine
  BY <1>3 DEF StartEngine, Causes, Phases, TypeOK
<1>4. CASE WaitConnected
  BY <1>4 DEF WaitConnected, Causes, Phases, TypeOK
<1>5. CASE StartFails
  BY <1>5 DEF StartFails, Quiet, AtRest, Causes, Phases, TypeOK
<1>6. CASE BeginRun
  BY <1>6 DEF BeginRun, Causes, Phases, TypeOK
<1>7. CASE BeginCapture
  BY <1>7 DEF BeginCapture, Causes, Phases, TypeOK
<1>8. CASE StartDone
  BY <1>8 DEF StartDone, Causes, Phases, TypeOK
<1>9. CASE StartUndo
  BY <1>9 DEF StartUndo, Causes, Phases, TypeOK
<1>10. CASE UndoFinish
  BY <1>10 DEF UndoFinish, Quiet, AtRest, Causes, Phases, TypeOK
<1>11. CASE DropOutput
  <2>1. \A i \in 1 .. Len(tasks) : tasks[i].obj # 0
    BY HeldObjects, ObjectIds
  <2> QED
    BY <1>11, <2>1 DEF DropOutput, OutputReleased, Causes
<1>12. CASE StopOutput
  BY <1>12 DEF StopOutput, Causes, Phases, TypeOK
<1>13. CASE StopSignal
  BY <1>13 DEF StopSignal, Causes, Phases, TypeOK
<1>14. CASE StopFinish
  <2>1. \A i \in 1 .. Len(tasks) : tasks[i].obj # 0
    BY HeldObjects, ObjectIds
  <2>2. task # NoTask => dockRunning
    BY DEF Phases
  <2>3. output' = output \/ output' = 0
    BY <1>14 DEF StopFinish, OutputReleased
  <2>4. output' # 0 => dockRunning'
    BY <1>14, <2>2 DEF StopFinish, OutputReleased
  <2> QED
    BY <1>14, <2>1, <2>3, <2>4 DEF StopFinish, Causes
<1>15. CASE RunTask
  <2>1. \A i \in 1 .. Len(tasks') :
           i + 1 \in 1 .. Len(tasks) /\ tasks'[i] = tasks[i + 1]
    BY <1>15, TaskQueue DEF RunTask
  <2>2. /\ ui = "idle" /\ (ui' = ui \/ ui' = "stopping")
        /\ UNCHANGED <<output, dockRunning, starts, failed>>
    BY <1>15 DEF RunTask, TaskStops
  <2> QED
    BY <2>1, <2>2 DEF Causes
<1>16. CASE EncoderFails
  BY <1>16 DEF EncoderFails, Step, Causes, Phases, TypeOK
<1>17. CASE AbrFindsError
  BY <1>17 DEF AbrFindsError, Step, Causes, Phases, TypeOK
<1>18. CASE ConnectorReports
  BY <1>18 DEF ConnectorReports, Step, Causes, Phases, TypeOK
<1>19. CASE EngineTold
  BY <1>19 DEF EngineTold, Step, SessionErrorKept, Causes, Phases, TypeOK
<1>20. CASE \E t \in Threads : Claim(t)
  <2>1. PICK t \in Threads : Claim(t)
    BY <1>20
  <2> QED
    BY <2>1 DEF Claim, Causes
<1>21. CASE \E t \in Threads : Post(t)
  <2>1. PICK t \in Threads : Post(t)
    BY <1>21
  <2> DEFINE new == [obj |-> host, start |-> starts]
  <2>2. host \in Objects /\ output # 0
    BY <2>1, ThreadHost DEF Post, Step
  <2>3. new \in Task
    BY <2>2, StartNumber DEF Task
  <2>4. /\ Len(tasks) \in Nat /\ Len(tasks') = Len(tasks) + 1
        /\ \A i \in 1 .. Len(tasks) : tasks'[i] = tasks[i]
        /\ tasks'[Len(tasks) + 1] = new
    <3>1. tasks \in Seq(Task) /\ tasks' = Append(tasks, new)
      BY <2>1 DEF Post, TypeOK
    <3> QED
      BY <2>3, <3>1, AppendProperties, LenProperties
  <2>5. \A i \in 1 .. Len(tasks') : tasks'[i].obj = output =>
           FailedSince(tasks'[i].start)
    <3>1. FailedSince(new.start)
      BY <2>2, StartNumber
    <3> QED
      BY <2>4, <3>1 DEF Causes
  <2> QED
    BY <2>1, <2>5 DEF Post, Causes
<1>22. CASE \E t \in Threads : PostFails(t)
  <2>1. PICK t \in Threads : PostFails(t)
    BY <1>22
  <2> QED
    BY <2>1 DEF PostFails, Causes
<1>23. CASE SessionConnects
  BY <1>23 DEF SessionConnects, Causes, Phases, TypeOK
<1>24. CASE SessionFatal
  BY <1>24 DEF SessionFatal, Step, Causes, Phases, TypeOK
<1>25. CASE RunnerStops
  BY <1>25 DEF RunnerStops, Causes, Phases, TypeOK
<1>26. CASE ControlQueueFull
  BY <1>26 DEF ControlQueueFull, Causes, Phases, TypeOK
<1>27. CASE \E full \in BOOLEAN : Submit(full)
  <2>1. PICK full \in BOOLEAN : Submit(full)
    BY <1>27
  <2> QED
    BY <2>1 DEF Submit, Causes
<1> QED
  BY <1>1, <1>2, <1>3, <1>4, <1>5, <1>6, <1>7, <1>8, <1>9, <1>10, <1>11,
     <1>12, <1>13, <1>14, <1>15, <1>16, <1>17, <1>18, <1>19, <1>20, <1>21,
     <1>22, <1>23, <1>24, <1>25, <1>26, <1>27 DEF Next

(* Other steps than these leave objects and references alone. *)
LEMMA ObjectsUntouched ==
  ASSUME Next
  PROVE  \/ Toggle \/ DropOutput \/ StopFinish \/ RunTask
         \/ \E t \in Threads : Post(t)
         \/ UNCHANGED <<tasks, output, task, refs, created>>
<1> USE DEF dockVars, uiVars, objVars
<1>1. \/ Toggle \/ DropOutput \/ StopFinish \/ RunTask
      \/ \E t \in Threads : Post(t)
      \/ StartRefused \/ StartEngine \/ WaitConnected \/ StartFails \/ BeginRun
      \/ BeginCapture \/ StartDone \/ StartUndo \/ UndoFinish \/ StopOutput
      \/ StopSignal \/ EncoderFails \/ AbrFindsError \/ ConnectorReports
      \/ EngineTold \/ SessionConnects \/ SessionFatal \/ RunnerStops
      \/ ControlQueueFull \/ (\E full \in BOOLEAN : Submit(full))
      \/ (\E t \in Threads : Claim(t)) \/ (\E t \in Threads : PostFails(t))
  BY DEF Next
<1>2. \/ StartRefused \/ StartEngine \/ WaitConnected \/ StartFails \/ BeginRun
      \/ BeginCapture \/ StartDone \/ StartUndo \/ UndoFinish \/ StopOutput
      \/ StopSignal \/ EncoderFails \/ AbrFindsError \/ ConnectorReports
      \/ EngineTold \/ SessionConnects \/ SessionFatal \/ RunnerStops
      \/ ControlQueueFull
      => UNCHANGED <<tasks, output, task, refs, created>>
  BY Zenon DEF StartRefused, StartEngine, WaitConnected, StartFails, BeginRun,
     BeginCapture, StartDone, StartUndo, UndoFinish, StopOutput, StopSignal,
     EncoderFails, AbrFindsError, ConnectorReports, EngineTold, SessionConnects,
     SessionFatal, RunnerStops, ControlQueueFull
<1>3. (\E full \in BOOLEAN : Submit(full))
      => UNCHANGED <<tasks, output, task, refs, created>>
  BY Zenon DEF Submit
<1>4. (\E t \in Threads : Claim(t)) \/ (\E t \in Threads : PostFails(t))
      => UNCHANGED <<tasks, output, task, refs, created>>
  BY Zenon DEF Claim, PostFails
<1> QED
  BY <1>1, <1>2, <1>3, <1>4

(* The reference count of an object is the number of its holders. *)
LEMMA RefsStep ==
  ASSUME TypeOK, Phases, RefsCounted, KnownObjects, Next
  PROVE  RefsCounted'
<1> DEFINE Count(o) == Cardinality(Pending(tasks, o))
<1>1. tasks \in Seq(Task) /\ refs \in [Objects -> Nat]
  BY DEF TypeOK
<1>2. \A o \in Objects : Count(o) \in Nat /\ refs[o] \in Nat
  BY <1>1, PendingFacts
<1>3. \A o \in Objects : refs[o] = Count(o) + (IF output = o THEN 1 ELSE 0)
                                           + (IF task.obj = o THEN 1 ELSE 0)
  BY DEF RefsCounted, Holders
<1>4. NoTask.obj = 0 /\ \A o \in Objects : o # 0
  BY ObjectIds DEF NoTask
<1>5. SUFFICES ASSUME NEW o \in Objects
               PROVE  refs'[o] = Holders(tasks', output', task', o)
  BY DEF RefsCounted
<1>6. CASE Toggle
  <2>1. CASE output = 0
    <3> DEFINE n == created + 1
    <3>1. n \in Objects /\ tasks' = tasks /\ task' = task /\ output' = n
      BY <1>6, <2>1 DEF Toggle
    <3>2. refs' = [refs EXCEPT ![n] = 1]
      BY <1>6, <2>1 DEF Toggle
    <3>3. \A i \in 1 .. Len(tasks) : tasks[i].obj # n
      BY HeldObjects, ObjectIds, Counters DEF KnownObjects
    <3>4. Count(n) = 0
      BY <1>1, <3>3, PendingFacts
    <3>5. task.obj = 0
      BY <1>4, <1>6 DEF Toggle, Phases
    <3> QED
      BY <1>1, <1>2, <1>3, <1>4, <2>1, <3>1, <3>2, <3>4, <3>5 DEF Holders
  <2>2. CASE output # 0
    BY <1>3, <1>6, <2>2 DEF Toggle, objVars, Holders
  <2> QED
    BY <2>1, <2>2
<1>7. CASE DropOutput
  <2>1. /\ output \in Objects /\ output' = 0 /\ tasks' = tasks /\ task' = task
        /\ refs' = [refs EXCEPT ![output] = refs[output] - 1]
    BY <1>7, HeldObjects DEF DropOutput, OutputReleased, Release, uiVars
  <2> QED
    BY <1>1, <1>2, <1>3, <1>4, <2>1 DEF Holders
<1>8. CASE StopFinish
  <2>1. tasks' = tasks /\ task'.obj = 0
    BY <1>4, <1>8 DEF StopFinish
  <2>2. CASE task = NoTask
    <3>1. /\ output \in Objects /\ output' = 0
          /\ refs' = [refs EXCEPT ![output] = refs[output] - 1]
      BY <1>8, <2>2, HeldObjects DEF StopFinish, OutputReleased, Release, Phases
    <3> QED
      BY <1>1, <1>2, <1>3, <1>4, <2>1, <2>2, <3>1 DEF Holders
  <2>3. CASE task # NoTask
    <3>1. /\ task.obj \in Objects /\ output' = output
          /\ refs' = [refs EXCEPT ![task.obj] = refs[task.obj] - 1]
      BY <1>8, <2>3, HeldObjects DEF StopFinish, OutputReleased, Release
    <3> QED
      BY <1>1, <1>2, <1>3, <1>4, <2>1, <3>1 DEF Holders
  <2> QED
    BY <2>2, <2>3
<1>9. CASE RunTask
  <2> DEFINE t == Head(tasks)
  <2>1. /\ tasks # <<>> /\ tasks' = Tail(tasks) /\ output' = output
        /\ task.obj = 0
    BY <1>4, <1>9 DEF RunTask, dockVars, Phases
  <2>2. t.obj \in Objects
    BY <2>1, TaskQueue, HeldObjects
  <2>3. Count(o) = Cardinality(Pending(tasks', o)) + (IF t.obj = o THEN 1 ELSE 0)
    BY <1>1, <2>1, PendingRun
  <2>4. Cardinality(Pending(tasks', o)) \in Nat
    BY <2>1, TaskQueue, PendingFacts
  <2>5. CASE ~running[t.obj]
    <3>1. /\ task' = task
          /\ refs' = [refs EXCEPT ![t.obj] = refs[t.obj] - 1]
      BY <1>9, <2>5 DEF RunTask, Release, uiVars
    <3> QED
      BY <1>1, <1>2, <1>3, <2>1, <2>2, <2>3, <2>4, <3>1 DEF Holders
  <2>6. CASE running[t.obj]
    <3>1. task' = t /\ refs' = refs
      BY <1>9, <2>6 DEF RunTask, TaskStops
    <3> QED
      BY <1>2, <1>3, <1>4, <2>1, <2>2, <2>3, <2>4, <3>1 DEF Holders
  <2> QED
    BY <2>5, <2>6
<1>10. CASE \E t \in Threads : Post(t)
  <2>1. PICK t \in Threads : Post(t)
    BY <1>10
  <2> DEFINE new == [obj |-> host, start |-> starts]
  <2>2. host \in Objects /\ output # 0
    BY <2>1, ThreadHost DEF Post, Step
  <2>3. new \in Task /\ new.obj = host
    BY <2>2, StartNumber DEF Task
  <2>4. /\ tasks' = Append(tasks, new) /\ output' = output /\ task' = task
        /\ refs' = [refs EXCEPT ![host] = refs[host] + 1]
    BY <2>1 DEF Post, TaskReference, dockVars, uiVars
  <2>5. Cardinality(Pending(tasks', o)) = Count(o) + (IF host = o THEN 1 ELSE 0)
    BY <1>1, <2>3, <2>4, PendingPost
  <2> QED
    BY <1>1, <1>2, <1>3, <2>2, <2>4, <2>5 DEF Holders
<1>11. CASE UNCHANGED <<tasks, output, task, refs, created>>
  BY <1>3, <1>11 DEF Holders
<1> QED
  BY <1>6, <1>7, <1>8, <1>9, <1>10, <1>11, ObjectsUntouched

(* A new object is one that nothing refers to yet. *)
LEMMA KnownStep ==
  ASSUME TypeOK, Phases, RefsCounted, KnownObjects, Next
  PROVE  KnownObjects'
<1>1. /\ created \in Nat /\ output \in Nat /\ task.obj \in Nat
      /\ \A i \in 1 .. Len(tasks) : tasks[i].obj \in Nat
  <2>1. created \in Nat /\ \A i \in 1 .. Len(tasks) : tasks[i].obj \in Nat
    BY Counters, HeldObjects, ObjectIds
  <2>2. output \in Nat
    BY HeldObjects, ObjectIds
  <2>3. task.obj \in Nat
    BY HeldObjects, ObjectIds DEF NoTask
  <2> QED
    BY <2>1, <2>2, <2>3
<1>2. /\ output <= created /\ task.obj <= created
      /\ \A i \in 1 .. Len(tasks) : tasks[i].obj <= created
  BY DEF KnownObjects
<1>3. NoTask.obj = 0
  BY DEF NoTask
<1>4. CASE Toggle
  <2>1. tasks' = tasks /\ task' = task
    BY <1>4 DEF Toggle
  <2>2. \/ created' = created + 1 /\ output' = created + 1
        \/ created' = created /\ output' = output
    BY <1>4 DEF Toggle, objVars
  <2> QED
    BY <1>1, <1>2, <2>1, <2>2 DEF KnownObjects
<1>5. CASE DropOutput
  <2>1. output' = 0 /\ UNCHANGED <<tasks, task, created>>
    BY <1>5 DEF DropOutput, OutputReleased, uiVars
  <2> QED
    BY <1>1, <1>2, <2>1 DEF KnownObjects
<1>6. CASE StopFinish
  <2>1. /\ task'.obj = 0 /\ output' \in {0, output}
        /\ UNCHANGED <<tasks, created>>
    BY <1>3, <1>6 DEF StopFinish, OutputReleased
  <2> QED
    BY <1>1, <1>2, <2>1 DEF KnownObjects
<1>7. CASE RunTask
  <2>1. UNCHANGED <<output, created>> /\ task' \in {task, Head(tasks)}
    BY <1>7 DEF RunTask, TaskStops, uiVars, dockVars
  <2>2. Head(tasks) = tasks[1] /\ 1 \in 1 .. Len(tasks)
    BY <1>7, TaskQueue DEF RunTask
  <2>3. \A i \in 1 .. Len(tasks') :
           i + 1 \in 1 .. Len(tasks) /\ tasks'[i] = tasks[i + 1]
    BY <1>7, TaskQueue DEF RunTask
  <2> QED
    BY <1>2, <2>1, <2>2, <2>3 DEF KnownObjects
<1>8. CASE \E t \in Threads : Post(t)
  <2>1. PICK t \in Threads : Post(t)
    BY <1>8
  <2> DEFINE new == [obj |-> host, start |-> starts]
  <2>2. host \in Objects /\ host = output /\ output # 0
    BY <2>1, ThreadHost DEF Post, Step
  <2>3. new \in Task
    BY <2>2, StartNumber DEF Task
  <2>4. /\ tasks' = Append(tasks, new) /\ tasks \in Seq(Task)
        /\ UNCHANGED <<output, task, created>>
    BY <2>1 DEF Post, dockVars, uiVars, TypeOK
  <2>5. /\ Len(tasks) \in Nat /\ Len(tasks') = Len(tasks) + 1
        /\ \A i \in 1 .. Len(tasks) : tasks'[i] = tasks[i]
        /\ tasks'[Len(tasks) + 1] = new
    BY <2>3, <2>4, AppendProperties, LenProperties
  <2>6. new.obj <= created
    BY <1>2, <2>2
  <2>7. \A i \in 1 .. Len(tasks') : tasks'[i].obj <= created
    BY <1>2, <2>5, <2>6
  <2> QED
    BY <1>2, <2>4, <2>7 DEF KnownObjects
<1>9. CASE UNCHANGED <<tasks, output, task, refs, created>>
  BY <1>9 DEF KnownObjects
<1> QED
  BY <1>4, <1>5, <1>6, <1>7, <1>8, <1>9, ObjectsUntouched

-----------------------------------------------------------------------------
LEMMA InitOInv == Init => OInv
<1> SUFFICES ASSUME Init PROVE OInv
  OBVIOUS
<1>1. FlagTypes
  BY Zenon DEF Init, FlagTypes
<1>2. tasks \in Seq(Task) /\ 1 .. Len(tasks) = {}
  <2>1. tasks = <<>>
    BY DEF Init
  <2> QED
    BY <2>1, EmptySeq
<1>3. Phases
  BY ObjectIds DEF Init, Phases
<1>4. TypeOK
  <2>1. tasks \in Seq(Task) /\ refs \in [Objects -> Nat]
        /\ thread \in [Threads -> ThreadStates]
    BY <1>2 DEF Init, ThreadStates
  <2>2. starts \in 0 .. MaxStarts
    <3>1. starts = 0
      BY DEF Init
    <3> QED
      BY <3>1, LifecycleAssumption
  <2> QED
    BY <1>1, <2>1, <2>2 DEF Init, TypeOK
<1>5. RefsCounted
  <2>1. \A o \in Objects : Cardinality(Pending(tasks, o)) = 0
    BY <1>2, PendingFacts
  <2>2. output = 0 /\ task.obj = 0
    BY DEF Init, NoTask
  <2>3. \A o \in Objects : refs[o] = 0
    BY DEF Init
  <2> QED
    BY <2>1, <2>2, <2>3, ObjectIds DEF RefsCounted, Holders
<1>6. KnownObjects
  <2>1. output = 0 /\ created = 0 /\ task.obj = 0
    BY DEF Init, NoTask
  <2> QED
    BY <1>2, <2>1 DEF KnownObjects
<1>7. Causes
  BY <1>2 DEF Init, Causes
<1> QED
  BY <1>3, <1>4, <1>5, <1>6, <1>7 DEF OInv

LEMMA NextOInv == OInv /\ [Next]_vars => OInv'
<1> SUFFICES ASSUME OInv, [Next]_vars PROVE OInv'
  OBVIOUS
<1>1. TypeOK /\ Phases /\ RefsCounted /\ KnownObjects /\ Causes
  BY DEF OInv
<1>2. CASE Next
  <2>1. TypeOK'
    BY <1>1, <1>2, TypeStep
  <2>2. Phases'
    BY <1>1, <1>2, PhasesStep
  <2>3. RefsCounted'
    BY <1>1, <1>2, RefsStep
  <2>4. KnownObjects'
    BY <1>1, <1>2, KnownStep
  <2>5. Causes'
    BY <1>1, <1>2, CausesStep
  <2> QED
    BY <2>1, <2>2, <2>3, <2>4, <2>5 DEF OInv
<1>3. CASE UNCHANGED vars
  <2>1. UNCHANGED vars
    BY <1>3
  <2>2. TypeOK'
    <3>1. FlagTypes'
      BY <1>1, <2>1, Zenon DEF TypeOK, FlagTypes, vars
    <3> QED
      BY <1>1, <2>1, <3>1 DEF TypeOK, vars
  <2>3. Phases'
    BY <1>1, <2>1, Zenon DEF Phases, vars
  <2>4. RefsCounted'
    BY <1>1, <2>1, Zenon DEF RefsCounted, Holders, vars
  <2>5. KnownObjects'
    BY <1>1, <2>1, Zenon DEF KnownObjects, vars
  <2>6. Causes'
    BY <1>1, <2>1, Zenon DEF Causes, FailedSince, vars
  <2> QED
    BY <2>2, <2>3, <2>4, <2>5, <2>6 DEF OInv
<1> QED
  BY <1>2, <1>3

LEMMA OInvInvariant == Spec => []OInv
BY InitOInv, NextOInv, PTL DEF Spec

(* Every variable of dock, output, engine and threads has its type. *)
THEOREM LifecycleTypeCorrect == Spec => []TypeOK
<1>1. OInv => TypeOK
  BY DEF OInv
<1> QED
  BY <1>1, OInvInvariant, PTL

(* Between two UI events, an engine, a session or a thread exists only for  *)
(* a running output of the dock: nothing outlives a fatal error, a stop or  *)
(* a failed start, whatever the threads were doing at the time.             *)
THEOREM SurvivesCorrect == Spec => []NothingSurvives
<1>1. OInv => NothingSurvives
  BY DEF OInv, Phases, NothingSurvives
<1> QED
  BY <1>1, OInvInvariant, PTL

(* No pending or running task, no thread and no pointer of the dock refers  *)
(* to a destroyed object, however many tasks are pending for it.            *)
THEOREM DanglingCorrect == Spec => []NoDangling
<1>1. OInv => NoDangling
  <2> SUFFICES ASSUME OInv PROVE NoDangling
    OBVIOUS
  <2>1. TypeOK /\ RefsCounted /\ Phases
    BY DEF OInv
  <2>2. \A i \in 1 .. Len(tasks) : refs[tasks[i].obj] > 0
    BY <2>1, HeldObjects
  <2>3. (output # 0 => refs[output] > 0) /\ (host # 0 => refs[host] > 0)
    BY <2>1, HeldObjects DEF Phases
  <2>4. task.obj # 0 => refs[task.obj] > 0
    BY <2>1, HeldObjects DEF NoTask
  <2> QED
    BY <2>2, <2>3, <2>4 DEF NoDangling
<1> QED
  BY <1>1, OInvInvariant, PTL

(* A fatal task ends no run of another object, and no later run of its own  *)
(* object unless every start since its error was raised had failed: start() *)
(* keeps the object when it fails, and the task only tests running.         *)
THEOREM OwnErrorCorrect == Spec => OwnErrorOnly
<1> DEFINE Own == \A o \in Objects :
             tasks # tasks' /\ running[o] /\ ~running'[o]
               => Head(tasks).obj = o /\ FailedSince(Head(tasks).start)
<1>1. OInv /\ [Next]_vars => [Own]_vars
  <2> SUFFICES ASSUME OInv, [Next]_vars, NEW o \in Objects,
                      tasks # tasks', running[o], ~running'[o]
               PROVE  Head(tasks).obj = o /\ FailedSince(Head(tasks).start)
    OBVIOUS
  <2>1. TypeOK /\ Phases /\ RefsCounted /\ Causes
    BY DEF OInv
  <2>2. Next
    BY DEF vars
  <2>3. RunTask
    <3>1. CASE \E t \in Threads : Post(t)
      BY <3>1 DEF Post
    <3>2. \/ Toggle \/ DropOutput \/ StopFinish \/ RunTask
          \/ \E t \in Threads : Post(t)
      BY <2>2, ObjectsUntouched
    <3> QED
      BY <3>1, <3>2 DEF Toggle, DropOutput, StopFinish
  <2> DEFINE t == Head(tasks)
  <2>4. /\ t \in Task /\ t.obj \in Objects /\ t = tasks[1] /\ 1 \in 1 .. Len(tasks)
    BY <2>1, <2>3, TaskQueue, HeldObjects DEF RunTask
  <2>5. running[t.obj] /\ running' = [running EXCEPT ![t.obj] = FALSE]
    BY <2>3 DEF RunTask
  <2>6. t.obj = o
    BY <2>1, <2>4, <2>5 DEF TypeOK, FlagTypes
  <2>7. o = output
    BY <2>1, ObjectIds DEF Phases
  <2>8. FailedSince(t.start)
    BY <2>1, <2>4, <2>6, <2>7 DEF Causes
  <2> QED
    BY <2>6, <2>8
<1> QED
  BY <1>1, OInvInvariant, PTL DEF Spec, OwnErrorOnly
=============================================================================
