-------------------------- MODULE TaskManagerProofs --------------------------
(***************************************************************************)
(* Proofs about TaskManager, for every finite set of workers and every     *)
(* length of the list.  IInv is the inductive invariant: the properties of    *)
(* interest, and what ties the manager's index and status table to the     *)
(* tasks in the workers' hands.                                            *)
(***************************************************************************)
EXTENDS TaskManager, FiniteSetTheorems, TLAPS

Busy(w) == phase[w] \in {"WORK_RESPONSE", "run_synth"}

(* The task in a worker's hands is one the manager has handed out, and the  *)
(* manager has that worker down as working.                                 *)
HeldKnown == \A w \in Workers : Busy(w) =>
                /\ task[w] \in Tasks
                /\ task[w] < current_task
                /\ worker_status[w] = "WORKER_WORKING"

(* Of the tasks handed out none is lost: it is run or in some hands. *)
NoneLost == \A t \in Tasks : t < current_task =>
                t \in finished \/ \E w \in Workers : Holds(w, t)

FinishedHandedOut == \A t \in finished : t < current_task

ReleasedLast == \A w \in Workers : Released(w) => current_task = num_tasks

NotifyOnlyEmpty == tm_pc = "notify" => num_tasks = 0

ReturnedLast == tm_pc = "returned" =>
                    /\ current_task = num_tasks
                    /\ \A w \in Workers : ~Busy(w)

IInv == /\ TypeOK
        /\ WorkersCounted
        /\ EachTaskRunOnce
        /\ HeldKnown
        /\ NoneLost
        /\ FinishedHandedOut
        /\ ReleasedLast
        /\ NotifyOnlyEmpty
        /\ ReturnedLast
-----------------------------------------------------------------------------
(* Marking one more worker, or one fewer, moves the count by one. *)
LEMMA CountWorking ==
    ASSUME NEW S, NEW T, IsFiniteSet(S), NEW w
    PROVE  /\ T = S \cup {w} /\ w \notin S => Cardinality(T) = Cardinality(S) + 1
           /\ T = S \ {w} /\ w \in S => Cardinality(T) = Cardinality(S) - 1
  BY FS_AddElement, FS_RemoveElement

LEMMA WorkingFinite ==
    ASSUME NEW S, S \subseteq Workers
    PROVE  /\ IsFiniteSet(S)
           /\ Cardinality(S) \in 0 .. Cardinality(Workers)
           /\ Cardinality(S) = 0 => S = {}
<1>1. IsFiniteSet(S) /\ Cardinality(S) <= Cardinality(Workers)
  BY WorkersAssumption, FS_Subset
<1>2. Cardinality(S) \in Nat /\ Cardinality(Workers) \in Nat
  BY <1>1, WorkersAssumption, FS_CardinalityType
<1>3. Cardinality(S) = 0 => S = {}
  BY <1>1, FS_EmptySet
<1>4. QED
  BY <1>1, <1>2, <1>3

(* The loop's bookkeeping keeps the count, whichever way a request is answered. *)
LEMMA StatusStep ==
    ASSUME TypeOK, WorkersCounted, NEW w \in Workers, NowWorking(w) \/ NowComplete(w)
    PROVE  /\ WorkersCounted'
           /\ workers_working' \in 0 .. Cardinality(Workers)
           /\ worker_status' \in [Workers -> Statuses]
           /\ workers_working' = 0 => \A v \in Workers : worker_status'[v] # "WORKER_WORKING"
<1> DEFINE S == {v \in Workers : worker_status[v] = "WORKER_WORKING"}
           T == {v \in Workers : worker_status'[v] = "WORKER_WORKING"}
<1>1. worker_status' \in [Workers -> Statuses]
  BY DEF TypeOK, NowWorking, NowComplete, Statuses
<1>2. /\ IsFiniteSet(S)
      /\ workers_working = Cardinality(S)
      /\ Cardinality(S) \in Nat
  BY WorkingFinite, WorkersAssumption, FS_CardinalityType DEF WorkersCounted
<1>3. workers_working' = Cardinality(T)
  <2>1. CASE NowWorking(w) /\ worker_status[w] # "WORKER_WORKING"
    <3>1. T = S \cup {w} /\ w \notin S
      BY <2>1 DEF TypeOK, NowWorking
    <3>2. QED
      BY <1>2, <2>1, <3>1, CountWorking DEF NowWorking
  <2>2. CASE NowWorking(w) /\ worker_status[w] = "WORKER_WORKING"
    <3>1. T = S
      BY <2>2 DEF TypeOK, NowWorking
    <3>2. QED
      BY <1>2, <2>2, <3>1 DEF NowWorking
  <2>3. CASE NowComplete(w) /\ worker_status[w] = "WORKER_WORKING"
    <3>1. T = S \ {w} /\ w \in S
      BY <2>3 DEF TypeOK, NowComplete
    <3>2. QED
      BY <1>2, <2>3, <3>1, CountWorking DEF NowComplete
  <2>4. CASE NowComplete(w) /\ worker_status[w] # "WORKER_WORKING"
    <3>1. T = S
      BY <2>4 DEF TypeOK, NowComplete
    <3>2. workers_working' = workers_working
      BY <1>2, <2>4 DEF NowComplete
    <3>3. QED
      BY <1>2, <3>1, <3>2
  <2>5. QED
    BY <2>1, <2>2, <2>3, <2>4
<1>4. Cardinality(T) \in 0 .. Cardinality(Workers) /\ (Cardinality(T) = 0 => T = {})
  BY WorkingFinite
<1>5. QED
  BY <1>1, <1>3, <1>4 DEF WorkersCounted

LEMMA TasksBounded == TypeOK => num_tasks \in Nat /\ Tasks \subseteq AllTasks
  BY TaskCountsAssumption DEF TypeOK, Tasks, AllTasks
-----------------------------------------------------------------------------
LEMMA InitInvariant == Init => IInv
<1> SUFFICES ASSUME Init PROVE IInv
  OBVIOUS
<1>1. Cardinality(Workers) \in Nat /\ num_tasks \in Nat
  BY WorkersAssumption, FS_CardinalityType, TaskCountsAssumption DEF Init
<1>2. {w \in Workers : worker_status[w] = "WORKER_WORKING"} = {}
  BY DEF Init
<1>3. WorkersCounted
  BY <1>2, FS_EmptySet DEF Init, WorkersCounted
<1>4. TypeOK
  BY <1>1, TaskCountsAssumption DEF Init, TypeOK, Statuses, Phases, Tasks, NoTask
<1>5. QED
  BY <1>1, <1>3, <1>4
  DEF Init, IInv, EachTaskRunOnce, HeldKnown, NoneLost, FinishedHandedOut, ReleasedLast,
      NotifyOnlyEmpty, ReturnedLast, Holds, Busy, Released, Tasks

(* A request answered with a task: the new task is in one worker's hands only. *)
LEMMA SendTaskStep ==
    ASSUME IInv, NEW w \in Workers, tm_pc = "listen", phase[w] = "WORK_REQUEST",
           SendTask(w), NowWorking(w), tm_pc' = LoopTest(workers_working'),
           UNCHANGED <<num_tasks, num_to_notify, finished>>
    PROVE  IInv' /\ tm_pc' = "listen"
<1> USE TaskCountsAssumption DEF IInv
<1>0. num_tasks \in Nat /\ num_tasks' = num_tasks /\ Tasks' = Tasks
  BY DEF TypeOK, Tasks
<1>1. /\ WorkersCounted'
      /\ workers_working' \in 0 .. Cardinality(Workers)
      /\ worker_status' \in [Workers -> Statuses]
      /\ workers_working' # 0
  <2>1. worker_status'[w] = "WORKER_WORKING"
    BY DEF TypeOK, NowWorking
  <2>2. QED
    BY <2>1, StatusStep
<1>2. tm_pc' = "listen"
  BY <1>1 DEF LoopTest
<1>3. /\ task' = [task EXCEPT ![w] = current_task]
      /\ phase' = [phase EXCEPT ![w] = "WORK_RESPONSE"]
      /\ current_task' = current_task + 1
      /\ current_task \in Tasks
      /\ \A v \in Workers \ {w} : phase'[v] = phase[v] /\ task'[v] = task[v]
                                  /\ worker_status'[v] = worker_status[v]
      /\ phase'[w] = "WORK_RESPONSE" /\ task'[w] = current_task
      /\ worker_status'[w] = "WORKER_WORKING"
  BY DEF SendTask, NowWorking, TypeOK, Tasks
<1>4. TypeOK'
  BY <1>1, <1>2, <1>3 DEF TypeOK, Phases, Tasks
<1>5. EachTaskRunOnce'
  <2> SUFFICES ASSUME NEW v \in Workers, NEW t \in Tasks, Holds(v, t)'
               PROVE  t \notin finished' /\ \A u \in Workers \ {v} : ~Holds(u, t)'
    BY <1>0 DEF EachTaskRunOnce
  <2>1. CASE v = w
    <3>1. t = current_task
      BY <1>3, <2>1 DEF Holds
    <3>2. t \notin finished
      BY <3>1 DEF FinishedHandedOut, TypeOK, Tasks
    <3>3. ASSUME NEW u \in Workers \ {v} PROVE ~Holds(u, t)'
      BY <1>3, <2>1, <3>1 DEF Holds, HeldKnown, Busy, TypeOK, Tasks
    <3>4. QED
      BY <3>2, <3>3
  <2>2. CASE v # w
    <3>1. Holds(v, t)
      BY <1>3, <2>2 DEF Holds
    <3>2. t < current_task
      BY <3>1 DEF Holds, HeldKnown, Busy
    <3>3. QED
      BY <1>3, <3>1, <3>2 DEF EachTaskRunOnce, Holds, Tasks, TypeOK
  <2>3. QED
    BY <2>1, <2>2
<1>6. HeldKnown'
  BY <1>3 DEF HeldKnown, Busy, TypeOK, Tasks
<1>7. NoneLost'
  <2> SUFFICES ASSUME NEW t \in Tasks, t < current_task'
               PROVE  t \in finished' \/ \E v \in Workers : Holds(v, t)'
    BY <1>0 DEF NoneLost
  <2>1. CASE t = current_task
    BY <1>3, <2>1 DEF Holds
  <2>2. CASE t < current_task
    <3>1. CASE \E v \in Workers : Holds(v, t)
      BY <1>3, <3>1 DEF Holds
    <3>2. QED
      BY <2>2, <3>1 DEF NoneLost
  <2>3. QED
    BY <1>3, <2>1, <2>2 DEF Tasks, TypeOK
<1>8. FinishedHandedOut'
  BY <1>3 DEF FinishedHandedOut, TypeOK, Tasks
<1>9. ReleasedLast'
  BY <1>3 DEF ReleasedLast, Released, TypeOK, Tasks
<1>10. QED
  BY <1>1, <1>2, <1>4, <1>5, <1>6, <1>7, <1>8, <1>9 DEF NotifyOnlyEmpty, ReturnedLast

(* A request answered with WORK_COMPLETE: if the loop ends here no worker is  *)
(* marked as working, so none has a task.                                     *)
LEMMA SendCompleteStep ==
    ASSUME IInv, NEW w \in Workers, tm_pc = "listen", phase[w] = "WORK_REQUEST",
           SendComplete(w), NowComplete(w), tm_pc' = LoopTest(workers_working'),
           UNCHANGED <<num_tasks, num_to_notify, finished>>
    PROVE  IInv'
<1> USE TaskCountsAssumption DEF IInv
<1>0. num_tasks \in Nat /\ num_tasks' = num_tasks /\ Tasks' = Tasks
  BY DEF TypeOK, Tasks
<1>1. /\ WorkersCounted'
      /\ workers_working' \in 0 .. Cardinality(Workers)
      /\ worker_status' \in [Workers -> Statuses]
      /\ workers_working' = 0 => \A v \in Workers : worker_status'[v] # "WORKER_WORKING"
  BY StatusStep
<1>2. /\ phase' = [phase EXCEPT ![w] = "WORK_COMPLETE"]
      /\ UNCHANGED <<num_tasks, task, current_task, finished, num_to_notify>>
      /\ current_task = num_tasks
      /\ \A v \in Workers \ {w} : phase'[v] = phase[v] /\ worker_status'[v] = worker_status[v]
      /\ phase'[w] = "WORK_COMPLETE"
  BY DEF SendComplete, NowComplete, TypeOK
<1>3. tm_pc' = "listen" \/ (tm_pc' = "returned" /\ workers_working' = 0)
  BY DEF LoopTest
<1>4. TypeOK'
  BY <1>0, <1>1, <1>2, <1>3 DEF TypeOK, Phases
<1>5. \A v \in Workers : Busy(v)' => v # w /\ Busy(v)
  BY <1>2 DEF Busy
<1>6. \A v \in Workers, t \in Tasks : Holds(v, t)' <=> Holds(v, t)
  BY <1>2 DEF Holds
<1>7. EachTaskRunOnce'
  BY <1>0, <1>2, <1>6 DEF EachTaskRunOnce
<1>8. HeldKnown'
  BY <1>0, <1>2, <1>5 DEF HeldKnown, Busy
<1>9. NoneLost'
  BY <1>0, <1>2, <1>6 DEF NoneLost
<1>10. ReturnedLast'
  BY <1>1, <1>2, <1>3, <1>8 DEF ReturnedLast, HeldKnown, Busy
<1>11. QED
  BY <1>1, <1>2, <1>3, <1>4, <1>7, <1>8, <1>9, <1>10
  DEF FinishedHandedOut, ReleasedLast, Released, NotifyOnlyEmpty

LEMMA StepInvariant == IInv /\ [Next]_vars => IInv'
<1> SUFFICES ASSUME IInv, [Next]_vars PROVE IInv'
  OBVIOUS
<1> USE DEF IInv
<1>0. num_tasks \in Nat /\ num_tasks' = num_tasks /\ Tasks' = Tasks
  BY TaskCountsAssumption DEF TypeOK, Tasks, Next, Manager, Worker, NotifyNoWork, HandleRequest,
     NotifyReturn, WakeUp, ReceiveTask, ReceiveComplete, FinishTask, vars, managerVars
<1>1. ASSUME NEW w \in Workers, HandleRequest(w) PROVE IInv'
  BY <1>1, SendTaskStep, SendCompleteStep DEF HandleRequest
<1>2. ASSUME NEW w \in Workers, NotifyNoWork(w) PROVE IInv'
  <2>1. /\ \A v \in Workers \ {w} : phase'[v] = phase[v]
        /\ phase'[w] = "WORK_COMPLETE"
        /\ current_task = num_tasks /\ num_tasks = 0
        /\ UNCHANGED <<num_tasks, tm_pc, current_task, worker_status, workers_working, task,
                       finished>>
    BY <1>2 DEF NotifyNoWork, SendComplete, TypeOK, NotifyOnlyEmpty
  <2>2. TypeOK'
    BY <1>0, <1>2, <2>1, WorkersAssumption, FS_CardinalityType
    DEF TypeOK, NotifyNoWork, SendComplete, Phases
  <2>3. \A v \in Workers, t \in Tasks : Holds(v, t)' <=> Holds(v, t)
    BY <1>2, <2>1 DEF NotifyNoWork, Holds
  <2>4. \A v \in Workers : Busy(v)' => Busy(v)
    BY <1>2, <2>1 DEF NotifyNoWork, Busy
  <2>5. EachTaskRunOnce'
    BY <1>0, <2>1, <2>3 DEF EachTaskRunOnce
  <2>6. HeldKnown' /\ ReturnedLast' /\ NotifyOnlyEmpty'
    BY <1>0, <2>1, <2>4 DEF HeldKnown, ReturnedLast, NotifyOnlyEmpty, Busy
  <2>7. NoneLost' /\ FinishedHandedOut' /\ ReleasedLast'
    BY <1>0, <2>1, <2>3 DEF NoneLost, FinishedHandedOut, ReleasedLast
  <2>8. WorkersCounted'
    BY <2>1 DEF WorkersCounted
  <2>9. QED
    BY <2>2, <2>5, <2>6, <2>7, <2>8
<1>3. CASE NotifyReturn
  <2>1. TypeOK' /\ WorkersCounted' /\ EachTaskRunOnce' /\ HeldKnown' /\ NoneLost'
        /\ FinishedHandedOut' /\ ReleasedLast' /\ NotifyOnlyEmpty'
    BY <1>0, <1>3 DEF NotifyReturn, TypeOK, WorkersCounted, EachTaskRunOnce, HeldKnown, NoneLost,
        FinishedHandedOut, ReleasedLast, NotifyOnlyEmpty, Holds, Busy, Released
  <2>2. ReturnedLast'
    BY <1>0, <1>3 DEF NotifyReturn, NotifyOnlyEmpty, ReturnedLast, HeldKnown, Busy, TypeOK, Tasks
  <2>3. QED
    BY <2>1, <2>2
<1>4. ASSUME NEW w \in Workers, WakeUp(w) \/ ReceiveTask(w) \/ ReceiveComplete(w) PROVE IInv'
  <2>1. /\ UNCHANGED <<managerVars, task, finished>>
        /\ \A v \in Workers \ {w} : phase'[v] = phase[v]
        /\ \A v \in Workers, t \in Tasks : Holds(v, t)' <=> Holds(v, t)
        /\ \A v \in Workers : (Busy(v)' <=> Busy(v)) /\ (Released(v)' <=> Released(v))
    BY <1>4 DEF WakeUp, ReceiveTask, ReceiveComplete, TypeOK, Holds, Busy, Released
  <2>2. TypeOK'
    BY <1>0, <1>4 DEF TypeOK, WakeUp, ReceiveTask, ReceiveComplete, managerVars, Phases
  <2>3. EachTaskRunOnce' /\ NoneLost'
    BY <1>0, <2>1 DEF EachTaskRunOnce, NoneLost, managerVars
  <2>4. HeldKnown' /\ ReturnedLast' /\ ReleasedLast' /\ FinishedHandedOut' /\ NotifyOnlyEmpty'
    BY <1>0, <2>1 DEF HeldKnown, ReturnedLast, ReleasedLast, FinishedHandedOut, NotifyOnlyEmpty,
        managerVars
  <2>5. WorkersCounted'
    BY <2>1 DEF WorkersCounted, managerVars
  <2>6. QED
    BY <2>2, <2>3, <2>4, <2>5
<1>5. ASSUME NEW w \in Workers, FinishTask(w) PROVE IInv'
  <2>1. /\ UNCHANGED <<managerVars, task>>
        /\ \A v \in Workers \ {w} : phase'[v] = phase[v]
        /\ phase[w] = "run_synth" /\ phase'[w] = "WORK_REQUEST"
        /\ finished' = finished \cup {task[w]}
        /\ task[w] \in Tasks /\ task[w] < current_task
    BY <1>5 DEF FinishTask, TypeOK, HeldKnown, Busy
  <2>2. TypeOK'
    BY <1>0, <1>5, <2>1 DEF TypeOK, FinishTask, managerVars, Phases
  <2>3. \A v \in Workers, t \in Tasks : Holds(v, t)' <=> v # w /\ Holds(v, t)
    BY <2>1 DEF Holds
  <2>4. \A v \in Workers : Busy(v)' <=> v # w /\ Busy(v)
    BY <2>1 DEF Busy
  <2>5. EachTaskRunOnce'
    <3> SUFFICES ASSUME NEW v \in Workers, NEW t \in Tasks, Holds(v, t)'
                 PROVE  t \notin finished' /\ \A u \in Workers \ {v} : ~Holds(u, t)'
      BY <1>0 DEF EachTaskRunOnce
    <3>1. Holds(v, t) /\ v # w /\ Holds(w, task[w])
      BY <2>1, <2>3 DEF Holds
    <3>2. t # task[w]
      BY <1>0, <2>1, <3>1 DEF EachTaskRunOnce
    <3>3. QED
      BY <1>0, <2>1, <2>3, <3>1, <3>2 DEF EachTaskRunOnce
  <2>6. NoneLost'
    <3> SUFFICES ASSUME NEW t \in Tasks, t < current_task, t \notin finished'
                 PROVE  \E v \in Workers : Holds(v, t)'
      BY <1>0, <2>1 DEF NoneLost, managerVars
    <3>1. PICK v \in Workers : Holds(v, t)
      BY <1>0, <2>1 DEF NoneLost
    <3>2. v # w
      BY <2>1, <3>1 DEF Holds
    <3>3. QED
      BY <2>3, <3>1, <3>2
  <2>7. HeldKnown' /\ ReturnedLast' /\ NotifyOnlyEmpty'
    BY <1>0, <2>1, <2>4 DEF HeldKnown, ReturnedLast, NotifyOnlyEmpty, managerVars
  <2>8. FinishedHandedOut' /\ ReleasedLast' /\ WorkersCounted'
    BY <1>0, <2>1 DEF FinishedHandedOut, ReleasedLast, Released, WorkersCounted, managerVars
  <2>9. QED
    BY <2>2, <2>5, <2>6, <2>7, <2>8
<1>6. CASE UNCHANGED vars
  BY <1>0, <1>6 DEF vars, managerVars, TypeOK, WorkersCounted, EachTaskRunOnce, HeldKnown, NoneLost,
      FinishedHandedOut, ReleasedLast, NotifyOnlyEmpty, ReturnedLast, Holds, Busy, Released
<1>7. QED
  BY <1>1, <1>2, <1>3, <1>4, <1>5, <1>6 DEF Next, Manager, Worker

(* The invariant holds in every interleaving of the manager's loop and the   *)
(* workers'.                                                                 *)
THEOREM Invariance == SafeSpec => []IInv
  BY InitInvariant, StepInvariant, PTL DEF SafeSpec

(* The variables stay in their types: the index never leaves the list, the   *)
(* count never leaves 0 .. number of workers.                                *)
THEOREM TypeCorrect == SafeSpec => []TypeOK
<1>1. IInv => TypeOK
  BY DEF IInv
<1>2. QED
  BY <1>1, Invariance, PTL

(* manager_listen's count is exact in every interleaving of requests. *)
THEOREM CountExact == SafeSpec => []WorkersCounted
<1>1. IInv => WorkersCounted
  BY DEF IInv
<1>2. QED
  BY <1>1, Invariance, PTL

(* No task is in two hands, and none is handed out after it was run. *)
THEOREM RunOnce == SafeSpec => []EachTaskRunOnce
<1>1. IInv => EachTaskRunOnce
  BY DEF IInv
<1>2. QED
  BY <1>1, Invariance, PTL

LEMMA InvariantImpliesDone == IInv => ReturnsOnlyWhenDone
<1> SUFFICES ASSUME IInv, tm_pc = "returned"
             PROVE  finished = Tasks /\ \A w \in Workers, t \in Tasks : ~Holds(w, t)
  BY DEF ReturnsOnlyWhenDone
<1>1. \A w \in Workers, t \in Tasks : ~Holds(w, t)
  BY DEF IInv, ReturnedLast, Busy, Holds
<1>2. \A t \in Tasks : t < current_task
  BY TaskCountsAssumption DEF IInv, TypeOK, ReturnedLast, Tasks
<1>3. QED
  BY <1>1, <1>2 DEF IInv, TypeOK, NoneLost

(* When the manager leaves its loop every task of the list has been run, so   *)
(* completion is never announced over unfinished work.                       *)
THEOREM DoneWhenReturned == SafeSpec => []ReturnsOnlyWhenDone
  BY Invariance, InvariantImpliesDone, PTL

(* After the first WORK_COMPLETE nothing is handed out any more. *)
THEOREM NothingAfterRelease == SafeSpec => NoWorkAfterRelease
<1>1. IInv /\ [Next]_vars =>
        [(\E w \in Workers : Released(w)) => current_task' = current_task]_vars
  <2> SUFFICES ASSUME IInv, Next, NEW w \in Workers, Released(w)
               PROVE  current_task' = current_task
    BY DEF vars
  <2>1. current_task = num_tasks
    BY DEF IInv, ReleasedLast
  <2>2. \A v \in Workers : ~SendTask(v)
    BY <2>1, TaskCountsAssumption DEF SendTask, IInv, TypeOK
  <2>3. QED
    BY <2>2 DEF Next, Manager, Worker, NotifyNoWork, NotifyReturn, HandleRequest, SendComplete,
        WakeUp, ReceiveTask, ReceiveComplete, FinishTask, managerVars
<1>2. QED
  BY <1>1, Invariance, PTL DEF SafeSpec, NoWorkAfterRelease
-----------------------------------------------------------------------------
(* With an empty list the manager counts the workers it has yet to tell. *)
Untold == {w \in Workers : ~Released(w)}

EmptyListCounted == num_tasks = 0 => /\ tm_pc \in {"notify", "returned"}
                                     /\ num_to_notify = Cardinality(Untold)
                                     /\ tm_pc = "returned" => Untold = {}

LEMMA EmptyListInit == Init => EmptyListCounted
<1> SUFFICES ASSUME Init PROVE EmptyListCounted
  OBVIOUS
<1>1. Untold = Workers
  BY DEF Init, Untold, Released
<1>2. QED
  BY <1>1 DEF Init, EmptyListCounted

LEMMA EmptyListStep == IInv /\ EmptyListCounted /\ [Next]_vars => EmptyListCounted'
<1> SUFFICES ASSUME IInv, EmptyListCounted, [Next]_vars, num_tasks' = 0
             PROVE  /\ tm_pc' \in {"notify", "returned"}
                    /\ num_to_notify' = Cardinality(Untold')
                    /\ tm_pc' = "returned" => Untold' = {}
  BY DEF EmptyListCounted
<1>1. num_tasks = 0
  BY DEF Next, Manager, Worker, NotifyNoWork, HandleRequest, NotifyReturn, WakeUp, ReceiveTask,
     ReceiveComplete, FinishTask, vars, managerVars
<1>2. /\ tm_pc \in {"notify", "returned"}
      /\ num_to_notify = Cardinality(Untold)
      /\ tm_pc = "returned" => Untold = {}
  BY <1>1 DEF EmptyListCounted
<1>3. /\ \A w \in Workers : ~Busy(w)
      /\ phase \in [Workers -> Phases]
  BY <1>1 DEF IInv, HeldKnown, Tasks, TypeOK
<1>4. IsFiniteSet(Untold) /\ (Cardinality(Untold) = 0 => Untold = {})
  BY WorkingFinite DEF Untold
<1>5. CASE NotifyReturn
  <2>1. Untold' = Untold /\ num_to_notify = 0 /\ tm_pc' = "returned" /\ num_to_notify' = num_to_notify
    BY <1>5 DEF NotifyReturn, Untold, Released
  <2>2. QED
    BY <1>2, <1>4, <2>1
<1>6. ASSUME NEW w \in Workers, NotifyNoWork(w)
      PROVE  /\ tm_pc' = "notify"
             /\ num_to_notify' = Cardinality(Untold')
  <2>1. /\ tm_pc' = tm_pc /\ tm_pc = "notify" /\ num_to_notify' = num_to_notify - 1
        /\ phase[w] = "WORK_REQUEST" /\ phase' = [phase EXCEPT ![w] = "WORK_COMPLETE"]
    BY <1>6 DEF NotifyNoWork, SendComplete
  <2>2. Untold' = Untold \ {w} /\ w \in Untold
    BY <1>3, <2>1 DEF Untold, Released
  <2>3. Cardinality(Untold') = Cardinality(Untold) - 1
    BY <1>4, <2>2, FS_RemoveElement
  <2>4. QED
    BY <1>2, <2>1, <2>3
<1>7. ASSUME NEW w \in Workers, WakeUp(w) \/ ReceiveComplete(w)
      PROVE  UNCHANGED <<tm_pc, num_to_notify, Untold>>
  <2>1. \/ phase' = [phase EXCEPT ![w] = "WORK_REQUEST"] /\ phase[w] = "sleep"
        \/ phase' = [phase EXCEPT ![w] = "exited"] /\ phase[w] = "WORK_COMPLETE"
    BY <1>7 DEF WakeUp, ReceiveComplete
  <2>2. \A v \in Workers : Released(v)' <=> Released(v)
    BY <1>3, <2>1 DEF Released
  <2>3. Untold' = Untold
    BY <2>2 DEF Untold
  <2>4. QED
    BY <1>7, <2>3 DEF WakeUp, ReceiveComplete, managerVars
<1>8. \A w \in Workers : ~HandleRequest(w) /\ ~ReceiveTask(w) /\ ~FinishTask(w)
  BY <1>2, <1>3 DEF HandleRequest, ReceiveTask, FinishTask, Busy
<1>9. CASE UNCHANGED vars
  <2>1. Untold' = Untold /\ UNCHANGED <<tm_pc, num_to_notify>>
    BY <1>9 DEF vars, managerVars, Untold, Released
  <2>2. QED
    BY <1>2, <2>1
<1>10. CASE Next
  <2>1. NotifyReturn \/ \E w \in Workers : NotifyNoWork(w) \/ WakeUp(w) \/ ReceiveComplete(w)
    BY <1>8, <1>10 DEF Next, Manager, Worker
  <2>2. QED
    BY <1>2, <1>5, <1>6, <1>7, <2>1
<1>11. QED
  BY <1>9, <1>10

(* With an empty list manager_listen returns only after it has told every    *)
(* worker, however late the last one wakes up.                               *)
THEOREM EmptyListTold == SafeSpec => []EmptyListAllTold
<1>1. SafeSpec => []EmptyListCounted
  BY EmptyListInit, EmptyListStep, Invariance, PTL DEF SafeSpec
<1>2. EmptyListCounted => EmptyListAllTold
  BY DEF EmptyListCounted, EmptyListAllTold, AllToldBeforeReturn, Untold
<1>3. QED
  BY <1>1, <1>2, PTL
-----------------------------------------------------------------------------
(* Refinement: each step of the protocol is a step of the abstract pool, or  *)
(* leaves it as it was.                                                      *)
poolRunning == {p \in Workers \X Tasks : Holds(p[1], p[2])}
poolTodo == {t \in Tasks : t >= current_task}

LEMMA PoolInit == Init => Pool!Init
  BY TaskCountsAssumption DEF Init, Pool!Init, Holds, Tasks, AllTasks

LEMMA PoolAssign ==
    ASSUME IInv, NEW w \in Workers, tm_pc = "listen", phase[w] = "WORK_REQUEST",
           SendTask(w), tm_pc' = "listen", UNCHANGED <<num_tasks, finished>>
    PROVE  \E t \in AllTasks : Pool!Assign(w, t)
<1> USE TaskCountsAssumption DEF IInv
<1>0. num_tasks \in Nat
  BY DEF TypeOK
<1>1. /\ current_task \in Tasks
      /\ current_task' = current_task + 1
      /\ \A v \in Workers \ {w} : phase'[v] = phase[v] /\ task'[v] = task[v]
      /\ phase'[w] = "WORK_RESPONSE" /\ task'[w] = current_task
  BY DEF SendTask, TypeOK, Tasks
<1>2. \A u \in AllTasks : <<w, u>> \notin poolRunning
  BY DEF poolRunning, Holds
<1>3. poolTodo' = poolTodo \ {current_task}
  BY <1>1 DEF poolTodo, Tasks, TypeOK
<1>4. poolRunning' = poolRunning \cup {<<w, current_task>>}
  <2>1. \A v \in Workers, t \in Tasks :
            Holds(v, t)' <=> Holds(v, t) \/ (v = w /\ t = current_task)
    BY <1>1 DEF Holds
  <2>2. QED
    BY <1>1, <2>1 DEF poolRunning, Tasks
<1>5. current_task \in poolTodo
  BY <1>1 DEF poolTodo, Tasks
<1>6. PICK t \in AllTasks : t = current_task
  BY <1>1, TasksBounded
<1>7. Pool!Assign(w, t)
  BY <1>1, <1>2, <1>3, <1>4, <1>5, <1>6 DEF Pool!Assign, poolTodo, poolRunning
<1>8. QED
  BY <1>7

LEMMA PoolFinish ==
    ASSUME IInv, NEW w \in Workers, FinishTask(w)
    PROVE  \E t \in AllTasks : Pool!Finish(w, t)
<1>1. task[w] \in Tasks /\ Holds(w, task[w])
  BY DEF IInv, HeldKnown, Busy, FinishTask, Holds
<1>2. \A v \in Workers, t \in Tasks : Holds(v, t)' <=> v # w /\ Holds(v, t)
  BY DEF FinishTask, Holds, IInv, TypeOK
<1>3. poolRunning' = poolRunning \ {<<w, task[w]>>}
  BY <1>1, <1>2 DEF poolRunning, Holds, Tasks, FinishTask, managerVars
<1>4. <<w, task[w]>> \in poolRunning
  BY <1>1 DEF poolRunning
<1>5. PICK t \in AllTasks : t = task[w]
  BY <1>1, TasksBounded DEF IInv
<1>6. Pool!Finish(w, t)
  BY <1>1, <1>3, <1>4, <1>5 DEF Pool!Finish, FinishTask, managerVars, poolRunning, Tasks
<1>7. QED
  BY <1>6

(* A step that hands nothing out and finishes nothing: either the pool is    *)
(* unchanged or the manager has just returned, which closes it.              *)
LEMMA PoolQuiet ==
    ASSUME IInv, IInv', UNCHANGED <<num_tasks, current_task, finished>>,
           \A v \in Workers, t \in Tasks : Holds(v, t)' <=> Holds(v, t),
           tm_pc' = tm_pc \/ (tm_pc # "returned" /\ tm_pc' = "returned")
    PROVE  Pool!Close \/ UNCHANGED Pool!vars
<1>1. poolRunning' = poolRunning /\ poolTodo' = poolTodo
  BY DEF poolRunning, poolTodo, Tasks
<1>2. CASE tm_pc' = tm_pc
  BY <1>1, <1>2 DEF Pool!vars, poolRunning, poolTodo
<1>3. CASE tm_pc # "returned" /\ tm_pc' = "returned"
  <2>1. poolTodo = {} /\ poolRunning = {}
    BY <1>3, TaskCountsAssumption
    DEF poolTodo, poolRunning, IInv, TypeOK, ReturnedLast, Busy, Holds, Tasks
  <2>2. QED
    BY <1>1, <1>3, <2>1 DEF Pool!Close, poolRunning, poolTodo
<1>4. QED
  BY <1>2, <1>3

(* The manager and its workers implement the abstract pool (its safety part; *)
(* that the pool is emptied is checked by TLC).                              *)
THEOREM ImplementsPool == SafeSpec => Pool!SafeSpec
<1>1. IInv /\ IInv' /\ [Next]_vars => [Pool!Next]_(Pool!vars)
  <2> SUFFICES ASSUME IInv, IInv', [Next]_vars PROVE Pool!Next \/ UNCHANGED Pool!vars
    OBVIOUS
  <2>1. ASSUME NEW w \in Workers, HandleRequest(w) PROVE Pool!Next \/ UNCHANGED Pool!vars
    <3>1. CASE SendTask(w)
      <4>1. NowWorking(w)
        BY <2>1, <3>1 DEF HandleRequest, SendTask, SendComplete, IInv, TypeOK, Tasks
      <4>2. tm_pc' = "listen"
        BY <2>1, <3>1, <4>1, SendTaskStep DEF HandleRequest
      <4>3. phase[w] = "WORK_REQUEST" /\ tm_pc = "listen" /\ UNCHANGED <<num_tasks, finished>>
        BY <2>1 DEF HandleRequest
      <4>4. \E t \in AllTasks : Pool!Assign(w, t)
        BY <3>1, <4>2, <4>3, PoolAssign
      <4>5. QED
        BY <4>4 DEF Pool!Next
    <3>2. CASE SendComplete(w)
      <4>1. \A v \in Workers, t \in Tasks : Holds(v, t)' <=> Holds(v, t)
        BY <2>1, <3>2 DEF HandleRequest, SendComplete, Holds, IInv, TypeOK
      <4>2. QED
        BY <2>1, <3>2, <4>1, PoolQuiet DEF HandleRequest, SendComplete, LoopTest, Pool!Next
    <3>3. QED
      BY <2>1, <3>1, <3>2 DEF HandleRequest
  <2>2. ASSUME NEW w \in Workers, FinishTask(w) PROVE Pool!Next \/ UNCHANGED Pool!vars
    BY <2>2, PoolFinish DEF Pool!Next
  <2>3. ASSUME NEW w \in Workers,
               NotifyNoWork(w) \/ WakeUp(w) \/ ReceiveTask(w) \/ ReceiveComplete(w)
        PROVE  Pool!Next \/ UNCHANGED Pool!vars
    <3>1. \A v \in Workers, t \in Tasks : Holds(v, t)' <=> Holds(v, t)
      BY <2>3 DEF NotifyNoWork, SendComplete, WakeUp, ReceiveTask, ReceiveComplete,
          Holds, IInv, TypeOK
    <3>2. UNCHANGED <<num_tasks, tm_pc, current_task, finished>>
      BY <2>3 DEF NotifyNoWork, SendComplete, WakeUp, ReceiveTask, ReceiveComplete, managerVars
    <3>3. QED
      BY <3>1, <3>2, PoolQuiet DEF Pool!Next
  <2>4. CASE NotifyReturn
    <3>1. \A v \in Workers, t \in Tasks : Holds(v, t)' <=> Holds(v, t)
      BY <2>4 DEF NotifyReturn, Holds
    <3>2. QED
      BY <2>4, <3>1, PoolQuiet DEF NotifyReturn, Pool!Next
  <2>5. CASE UNCHANGED vars
    <3>1. \A v \in Workers, t \in Tasks : Holds(v, t)' <=> Holds(v, t)
      BY <2>5 DEF vars, Holds
    <3>2. QED
      BY <2>5, <3>1, PoolQuiet DEF vars, managerVars, Pool!Next
  <2>6. QED
    BY <2>1, <2>2, <2>3, <2>4, <2>5 DEF Next, Manager, Worker
<1>2. QED
  BY <1>1, PoolInit, Invariance, PTL DEF SafeSpec, Pool!SafeSpec
=============================================================================
