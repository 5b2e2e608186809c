---------------------------- MODULE TaskManager ----------------------------
(***************************************************************************)
(* The work-sharing protocol of DirectSynth: the task manager (rank N,     *)
(* task_manager.c) hands the tasks of its list to the workers (ranks       *)
(* above N, worker.c) that ask for one, counts the workers that are        *)
(* working, and leaves its loop when that count is zero.                   *)
(*                                                                         *)
(* A worker is blocked in get_task from the send of its WORK_REQUEST to    *)
(* the receipt of the answer, so at most one message is in flight between  *)
(* it and the manager.  phase[w] therefore stands for the worker's program *)
(* counter and that message: the values "WORK_REQUEST", "WORK_RESPONSE"    *)
(* and "WORK_COMPLETE" say that w is in get_task and the named message is  *)
(* under way.  MPI_ANY_SOURCE is the free choice of w in the manager's     *)
(* actions.                                                                *)
(***************************************************************************)
EXTENDS Integers, FiniteSets

CONSTANTS
    Workers,    \* ranks N+1 .. num_procs-1
    TaskCounts  \* lengths the list of parse_rupture_list may have

ASSUME WorkersAssumption == IsFiniteSet(Workers)
ASSUME TaskCountsAssumption == TaskCounts \subseteq Nat

VARIABLES
    num_tasks,       \* length of task_list
    tm_pc,           \* where manager_listen is
    current_task,    \* next entry of task_list to hand out
    worker_status,   \* manager's view of each worker
    workers_working, \* manager's count of the working ones
    num_to_notify,   \* count of the branch taken for an empty list
    phase,           \* worker's program counter and the message under way
    task,            \* worker_msg.task last sent to the worker
    finished         \* history: tasks whose run_synth has returned

managerVars == <<num_tasks, tm_pc, current_task, worker_status, workers_working, num_to_notify>>
vars == <<managerVars, phase, task, finished>>

Tasks == 0 .. num_tasks - 1
AllTasks == UNION {0 .. n - 1 : n \in TaskCounts}
NoTask == -1

Phases == {"sleep", "WORK_REQUEST", "WORK_RESPONSE", "WORK_COMPLETE", "run_synth", "exited"}
Statuses == {"WORKER_IDLE", "WORKER_WORKING", "WORKER_COMPLETE"}

Holds(w, t) == phase[w] \in {"WORK_RESPONSE", "run_synth"} /\ task[w] = t
Released(w) == phase[w] \in {"WORK_COMPLETE", "exited"}
-----------------------------------------------------------------------------
Init == /\ num_tasks \in TaskCounts
        /\ tm_pc = IF num_tasks = 0 THEN "notify" ELSE "listen"
        /\ current_task = 0
        /\ worker_status = [w \in Workers |-> "WORKER_IDLE"]
        /\ workers_working = 0
        /\ num_to_notify = Cardinality(Workers)
        /\ phase = [w \in Workers |-> "sleep"]
        /\ task = [w \in Workers |-> NoTask]
        /\ finished = {}

(* Definitions named X_... are faulty forms of X, the kind of slip an edit    *)
(* of the code could make.  Next never uses them; substituted for X they      *)
(* show that the properties below notice.                                     *)
SendTask_NoAdvance(w) == /\ current_task < num_tasks
                         /\ task' = [task EXCEPT ![w] = current_task]
                         /\ phase' = [phase EXCEPT ![w] = "WORK_RESPONSE"]
                         /\ UNCHANGED current_task

(* handle_work_request, both outcomes: -1 after a WORK_RESPONSE, the source's *)
(* rank after a WORK_COMPLETE.                                                *)
SendTask(w) == /\ current_task < num_tasks
               /\ task' = [task EXCEPT ![w] = current_task]
               /\ phase' = [phase EXCEPT ![w] = "WORK_RESPONSE"]
               /\ current_task' = current_task + 1

SendComplete(w) == /\ current_task >= num_tasks
                   /\ phase' = [phase EXCEPT ![w] = "WORK_COMPLETE"]
                   /\ UNCHANGED <<task, current_task>>

(* manager_listen, the branch for an empty task list: every worker is told.   *)
(* handle_work_request is called here too; with no task it can only take its  *)
(* second branch, and the worker's status is not recorded.                    *)
NotifyReturn_OneShort == /\ tm_pc = "notify"
                         /\ num_to_notify <= 1
                         /\ tm_pc' = "returned"
                         /\ UNCHANGED <<num_tasks, current_task, worker_status, workers_working,
                                        num_to_notify, phase, task, finished>>

NotifyNoWork(w) == /\ tm_pc = "notify"
                   /\ num_to_notify > 0
                   /\ phase[w] = "WORK_REQUEST"
                   /\ SendComplete(w)
                   /\ num_to_notify' = num_to_notify - 1
                   /\ UNCHANGED <<num_tasks, tm_pc, worker_status, workers_working, finished>>

NotifyReturn == /\ tm_pc = "notify"
                /\ num_to_notify = 0
                /\ tm_pc' = "returned"
                /\ UNCHANGED <<num_tasks, current_task, worker_status, workers_working,
                               num_to_notify, phase, task, finished>>

(* manager_listen, the main loop: the two outcomes of a request, and the test *)
(* of workers_working that ends the loop.                                     *)
NowComplete_Unguarded(w) ==
    /\ worker_status' = [worker_status EXCEPT ![w] = "WORKER_COMPLETE"]
    /\ workers_working' = workers_working - 1

NowWorking(w) == /\ worker_status' = [worker_status EXCEPT ![w] = "WORKER_WORKING"]
                 /\ workers_working' = workers_working +
                       (IF worker_status[w] # "WORKER_WORKING" THEN 1 ELSE 0)

NowComplete(w) == /\ worker_status' = [worker_status EXCEPT ![w] = "WORKER_COMPLETE"]
                  /\ workers_working' = workers_working -
                        (IF worker_status[w] = "WORKER_WORKING" THEN 1 ELSE 0)

LoopTest(working) == IF working = 0 THEN "returned" ELSE "listen"

HandleRequest(w) == /\ tm_pc = "listen"
                    /\ phase[w] = "WORK_REQUEST"
                    /\ \/ SendTask(w) /\ NowWorking(w)
                       \/ SendComplete(w) /\ NowComplete(w)
                    /\ tm_pc' = LoopTest(workers_working')
                    /\ UNCHANGED <<num_tasks, num_to_notify, finished>>
-----------------------------------------------------------------------------
(* do_work: the staggered start, then get_task and run_synth in turn *)
WakeUp(w) == /\ phase[w] = "sleep"
             /\ phase' = [phase EXCEPT ![w] = "WORK_REQUEST"]
             /\ UNCHANGED <<managerVars, task, finished>>

ReceiveTask(w) == /\ phase[w] = "WORK_RESPONSE"
                  /\ phase' = [phase EXCEPT ![w] = "run_synth"]
                  /\ UNCHANGED <<managerVars, task, finished>>

ReceiveComplete(w) == /\ phase[w] = "WORK_COMPLETE"
                      /\ phase' = [phase EXCEPT ![w] = "exited"]
                      /\ UNCHANGED <<managerVars, task, finished>>

FinishTask(w) == /\ phase[w] = "run_synth"
                 /\ finished' = finished \cup {task[w]}
                 /\ phase' = [phase EXCEPT ![w] = "WORK_REQUEST"]
                 /\ UNCHANGED <<managerVars, task>>
-----------------------------------------------------------------------------
Manager == (\E w \in Workers : NotifyNoWork(w) \/ HandleRequest(w)) \/ NotifyReturn
Worker(w) == WakeUp(w) \/ ReceiveTask(w) \/ ReceiveComplete(w) \/ FinishTask(w)
Next == Manager \/ \E w \in Workers : Worker(w)

SafeSpec == Init /\ [][Next]_vars

(* The manager keeps receiving while a request is there and a worker keeps  *)
(* running; which of several requests is received first is left open, as    *)
(* MPI_ANY_SOURCE leaves it.                                                *)
Spec == SafeSpec /\ WF_vars(Manager) /\ \A w \in Workers : WF_vars(Worker(w))
-----------------------------------------------------------------------------
TypeOK == /\ num_tasks \in TaskCounts
          /\ tm_pc \in {"notify", "listen", "returned"}
          /\ current_task \in 0 .. num_tasks
          /\ worker_status \in [Workers -> Statuses]
          /\ workers_working \in 0 .. Cardinality(Workers)
          /\ num_to_notify \in 0 .. Cardinality(Workers)
          /\ phase \in [Workers -> Phases]
          /\ task \in [Workers -> Tasks \cup {NoTask}]
          /\ finished \subseteq Tasks

(* No task is in the hands of two workers, and none that was run is handed  *)
(* out again: its output would be appended to the rupture's files twice.    *)
EachTaskRunOnce ==
    \A w \in Workers, t \in Tasks : Holds(w, t) =>
        t \notin finished /\ \A v \in Workers \ {w} : ~Holds(v, t)

(* manager_listen returns, and completion is announced to the master and    *)
(* the handlers, only when every task of the list has been run and no       *)
(* worker can still ask a handler for data or the master to write.          *)
ReturnsOnlyWhenDone ==
    tm_pc = "returned" => finished = Tasks /\ \A w \in Workers, t \in Tasks : ~Holds(w, t)

(* The count the loop test relies on is the number of workers marked as     *)
(* working, however requests of several workers interleave.                 *)
WorkersCounted ==
    workers_working = Cardinality({w \in Workers : worker_status[w] = "WORKER_WORKING"})

(* Once a worker has been told that there is no more work nothing is handed *)
(* out any more, to it or to anyone else.                                   *)
NoWorkAfterRelease ==
    [][(\E w \in Workers : Released(w)) => current_task' = current_task]_vars

(* A worker that has once been given work is eventually told to stop. *)
KnownWorkersReleased ==
    \A w \in Workers : phase[w] = "run_synth" ~> phase[w] = "exited"

(* "When sent no more task messages to all processors, send message to      *)
(* processors 0 to N-1" (task_manager.c:20-21): the manager is done only    *)
(* when every worker has been sent WORK_COMPLETE.                           *)
AllToldBeforeReturn == tm_pc = "returned" => \A w \in Workers : Released(w)

(* With an empty list the manager does tell every worker before it returns, *)
(* the ones that wake last included, and hands nothing out.                 *)
EmptyListAllTold == num_tasks = 0 => AllToldBeforeReturn

(* The protocol implements the abstract pool. *)
Pool == INSTANCE WorkPool WITH
            Tasks <- AllTasks,
            todo <- {t \in Tasks : t >= current_task},
            running <- {p \in Workers \X Tasks : Holds(p[1], p[2])},
            closed <- tm_pc = "returned"
PoolSpec == Pool!Spec
=============================================================================
