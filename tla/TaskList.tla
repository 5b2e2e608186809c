------------------------------ MODULE TaskList ------------------------------
(***************************************************************************)
(* parse_rupture_list (task_manager.c): the task manager reads the         *)
(* checkpoint log and the rupture list, leaves out the ruptures the log    *)
(* names, and cuts the rupture variations of each other one into tasks     *)
(* that fit the memory of a worker.  The tasks go to the workers           *)
(* (TaskManager), and a tuple for each rupture, with its number of         *)
(* variations, to the master (Checkpoint), which counts them down.         *)
(*                                                                         *)
(* A line of the rupture list is a record: id stands for its source and    *)
(* rupture numbers, num_vars for slips times hypocentres, room for the     *)
(* bytes left for rupture variations once the other needs of a task are    *)
(* deducted, which is negative if they are too large, and rv_size for the  *)
(* bytes of one variation.  Indices start at 0, as in the code.            *)
(***************************************************************************)
EXTENDS Integers, Sequences, FiniteSets

CONSTANTS
    RupLists,   \* rupture lists that may be read
    Logs        \* checkpoint logs that may be found

Ruptures == [id : Nat, num_vars : Nat, room : Int, rv_size : Nat \ {0}]

(* A list names a rupture once.  A log is what the master of an earlier     *)
(* attempt at the same list left: each of its lines names a rupture of the  *)
(* list, and no two the same one (LoggedOnce of Checkpoint).                *)
Distinct(s) == \A m, n \in DOMAIN s : s[m] = s[n] => m = n
LogOf(lines, list) == lines \in Seq({list[n].id : n \in DOMAIN list}) /\ Distinct(lines)

ASSUME TaskListAssumption ==
    \A list \in RupLists : /\ list \in Seq(Ruptures) /\ list # <<>>
                           /\ \A m, n \in DOMAIN list : list[m].id = list[n].id => m = n

VARIABLES
    rup_list, log,      \* the two files
    pc,                 \* where parse_rupture_list is
    completed_list,     \* lines of the log read
    i, j,               \* current rupture; current task of that rupture
    tasks_for_rupture,  \* tasks the current rupture is cut into
    task_list,          \* tasks written
    task_list_length,   \* entries allocated for task_list
    tuples_for_master   \* indices of the ruptures that got a tuple

vars == <<rup_list, log, pc, completed_list, i, j, tasks_for_rupture, task_list,
          task_list_length, tuples_for_master>>

num_ruptures == Len(rup_list)
num_completed == Len(completed_list)
num_tasks == Len(task_list)
Rupture(n) == rup_list[n + 1]
Current == Rupture(i)
-----------------------------------------------------------------------------
(* Definitions named X_... are faulty forms of X, as in TaskManager.          *)

(* Division in C truncates towards zero *)
VarsPerTask(r) == IF r.room >= 0 THEN r.room \div r.rv_size ELSE -((-r.room) \div r.rv_size)

TaskCount_Floor(r) == IF VarsPerTask(r) > 0 THEN r.num_vars \div VarsPerTask(r) ELSE 0

(* ceil(num_vars / num_vars_per_task).  The quotient is a float: exact       *)
(* enough for fewer than 2^23 variations, and not positive for a negative    *)
(* divisor.                                                                  *)
TaskCount(r) == IF VarsPerTask(r) > 0
                THEN (r.num_vars + VarsPerTask(r) - 1) \div VarsPerTask(r)
                ELSE 0

Completed(r) == \E n \in DOMAIN completed_list : completed_list[n] = r.id

Init == /\ rup_list \in RupLists
        /\ log \in {l \in Logs : LogOf(l, rup_list)}
        /\ pc = "checkpoint"
        /\ completed_list = <<>>
        /\ i = 0 /\ j = 0
        /\ tasks_for_rupture = 0
        /\ task_list = <<>>
        /\ task_list_length = num_ruptures
        /\ tuples_for_master = <<>>

ReadCheckpointLine ==
    /\ pc = "checkpoint"
    /\ num_completed < Len(log)
    /\ completed_list' = Append(completed_list, log[num_completed + 1])
    /\ UNCHANGED <<rup_list, log, pc, i, j, tasks_for_rupture, task_list, task_list_length,
                   tuples_for_master>>

ReadCheckpointEnd ==
    /\ pc = "checkpoint"
    /\ num_completed = Len(log)
    /\ pc' = "rupture"
    /\ UNCHANGED <<rup_list, log, completed_list, i, j, tasks_for_rupture, task_list,
                   task_list_length, tuples_for_master>>

SkipCompleted ==
    /\ pc = "rupture" /\ i < num_ruptures
    /\ Completed(Current)
    /\ i' = i + 1
    /\ UNCHANGED <<rup_list, log, pc, completed_list, j, tasks_for_rupture, task_list,
                   task_list_length, tuples_for_master>>

(* The tuple for the master is written whether or not there are tasks.  A    *)
(* quotient with a zero divisor is infinite, or not a number, and has no     *)
(* conversion to int: the least integer on one platform, so that no task is  *)
(* made, the greatest on another, where the list outgrows the memory.        *)
SizeRupture ==
    /\ pc = "rupture" /\ i < num_ruptures
    /\ ~Completed(Current)
    /\ tasks_for_rupture' = TaskCount(Current)
    /\ tuples_for_master' = Append(tuples_for_master, i)
    /\ j' = 0
    /\ pc' = "tasks" \/ (VarsPerTask(Current) = 0 /\ pc' = "abort")
    /\ UNCHANGED <<rup_list, log, completed_list, i, task_list, task_list_length>>

Grown_Late(length) == IF num_tasks + 1 > length
                      THEN length + tasks_for_rupture - j + num_ruptures - i - 1
                      ELSE length

Grown(length) == IF num_tasks + 1 >= length
                 THEN length + tasks_for_rupture - j + num_ruptures - i - 1
                 ELSE length

Task_EndInclusive(n) ==
    LET per == VarsPerTask(Current)
    IN  [rup |-> i, starting_rv_id |-> n * per,
         ending_rv_id |-> IF (n + 1) * per > Current.num_vars THEN Current.num_vars
                                                              ELSE (n + 1) * per + 1]

Task(n) ==
    LET per == VarsPerTask(Current)
    IN  [rup |-> i, starting_rv_id |-> n * per,
         ending_rv_id |-> IF (n + 1) * per > Current.num_vars THEN Current.num_vars
                                                              ELSE (n + 1) * per]

AddTask ==
    /\ pc = "tasks" /\ j < tasks_for_rupture
    /\ task_list' = Append(task_list, Task(j))
    /\ task_list_length' = Grown(task_list_length)
    /\ j' = j + 1
    /\ UNCHANGED <<rup_list, log, pc, completed_list, i, tasks_for_rupture, tuples_for_master>>

NextRupture ==
    /\ pc = "tasks" /\ j = tasks_for_rupture
    /\ pc' = "rupture"
    /\ i' = i + 1
    /\ UNCHANGED <<rup_list, log, completed_list, j, tasks_for_rupture, task_list,
                   task_list_length, tuples_for_master>>

SendTuples ==
    /\ pc = "rupture" /\ i = num_ruptures
    /\ pc' = "sent"
    /\ UNCHANGED <<rup_list, log, completed_list, i, j, tasks_for_rupture, task_list,
                   task_list_length, tuples_for_master>>

Next == \/ ReadCheckpointLine \/ ReadCheckpointEnd
        \/ SkipCompleted \/ SizeRupture \/ AddTask \/ NextRupture
        \/ SendTuples

Spec == Init /\ [][Next]_vars
-----------------------------------------------------------------------------
TypeOK ==
    /\ pc \in {"checkpoint", "rupture", "tasks", "abort", "sent"}
    /\ i \in 0 .. num_ruptures
    /\ j \in 0 .. tasks_for_rupture
    /\ task_list \in Seq([rup : Nat, starting_rv_id : Nat, ending_rv_id : Nat])
    /\ task_list_length \in Nat
    /\ tuples_for_master \in Seq(Nat)

(* A task, a tuple or a line of the log is only ever written inside the      *)
(* memory allocated for the three arrays.                                    *)
WritesInBounds ==
    /\ pc = "checkpoint" /\ num_completed < Len(log) => num_completed < num_ruptures
    /\ pc = "rupture" /\ i < num_ruptures => Len(tuples_for_master) < num_ruptures
    /\ pc = "tasks" /\ j < tasks_for_rupture => num_tasks < task_list_length

Covers(t, n, v) == t.rup = n /\ t.starting_rv_id <= v /\ v < t.ending_rv_id

(* When the list is complete, each variation of a rupture that is still to   *)
(* do and of which one variation fits in memory is in exactly one task.      *)
EveryVariationOnce ==
    pc = "sent" =>
        \A n \in 0 .. num_ruptures - 1 :
            VarsPerTask(Rupture(n)) > 0 /\ ~Completed(Rupture(n)) =>
                \A v \in 0 .. Rupture(n).num_vars - 1 :
                    /\ \E k \in DOMAIN task_list : Covers(task_list[k], n, v)
                    /\ \A k, m \in DOMAIN task_list :
                           Covers(task_list[k], n, v) /\ Covers(task_list[m], n, v) => k = m

(* "Want to make sure we're not exceeding permitted memory per task"         *)
(* (task_manager.c:306): no task is empty, reaches past the rupture's last   *)
(* variation, needs more than the room there is or redoes what the log says  *)
(* is done.                                                                  *)
TasksFit ==
    \A k \in DOMAIN task_list :
        LET t == task_list[k]
            r == Rupture(t.rup)
        IN  /\ t.rup \in 0 .. num_ruptures - 1
            /\ t.starting_rv_id < t.ending_rv_id
            /\ t.ending_rv_id <= r.num_vars
            /\ (t.ending_rv_id - t.starting_rv_id) * r.rv_size <= r.room
            /\ ~Completed(r)
=============================================================================
