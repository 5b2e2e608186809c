--------------------------- MODULE TaskListProofs ---------------------------
(***************************************************************************)
(* Proofs about TaskList, for every rupture list and every log the         *)
(* assumption and Init allow.                                              *)
(***************************************************************************)
EXTENDS TaskList, FiniteSetTheorems, TLAPS

LEMMA Quotient ==
    ASSUME NEW a \in Nat, NEW b \in Nat \ {0}
    PROVE  a \div b \in Nat /\ (a \div b) * b <= a /\ a < (a \div b) * b + b
OBVIOUS

(* ceil(nv / per) tasks of per variations reach the last one, one fewer do not *)
LEMMA Ceiling ==
    ASSUME NEW nv \in Nat, NEW per \in Nat \ {0}, NEW q, q = (nv + per - 1) \div per
    PROVE  q \in Nat /\ nv <= q * per /\ (q - 1) * per < nv
<1>1. q \in Nat /\ q * per <= nv + per - 1 /\ nv + per - 1 < q * per + per
    <2>1. nv + per - 1 \in Nat
        OBVIOUS
    <2> QED BY <2>1, Quotient, SMT
<1>2. (q - 1) * per = q * per - per
    BY <1>1
<1>3. q * per \in Nat
    BY <1>1
<1> QED BY <1>1, <1>2, <1>3

LEMMA TimesMonotone ==
    ASSUME NEW a \in Nat, NEW b \in Nat, NEW c \in Nat, a <= b
    PROVE  a * c \in Nat /\ b * c \in Nat /\ a * c <= b * c
OBVIOUS

(* A task that starts at b and is cut off at the last variation *)
LEMMA CutOff ==
    ASSUME NEW b \in Nat, NEW per \in Nat \ {0}, NEW nv \in Nat, b < nv,
           NEW e, e = (IF b + per > nv THEN nv ELSE b + per)
    PROVE  b < e /\ e <= nv /\ e - b \in Nat /\ e - b <= per
OBVIOUS

LEMMA PerTask ==
    ASSUME NEW r \in Ruptures
    PROVE  /\ VarsPerTask(r) \in Int
           /\ VarsPerTask(r) > 0 => VarsPerTask(r) * r.rv_size <= r.room
<1>1. CASE r.room >= 0
    <2>1. r.room \in Nat /\ r.rv_size \in Nat \ {0}
        BY <1>1 DEF Ruptures
    <2>2. VarsPerTask(r) = r.room \div r.rv_size
        BY <1>1 DEF VarsPerTask
    <2> QED BY <2>1, <2>2, Quotient
<1>2. CASE ~(r.room >= 0)
    <2>1. -r.room \in Nat /\ r.rv_size \in Nat \ {0}
        BY <1>2 DEF Ruptures
    <2>2. (-r.room) \div r.rv_size \in Nat
        BY <2>1, Quotient
    <2> QED BY <1>2, <2>2 DEF VarsPerTask
<1> QED BY <1>1, <1>2

(* The number of tasks of a rupture, and the two bounds that make it right *)
LEMMA Counted ==
    ASSUME NEW r \in Ruptures
    PROVE  /\ TaskCount(r) \in Nat
           /\ VarsPerTask(r) <= 0 => TaskCount(r) = 0
           /\ VarsPerTask(r) > 0 => r.num_vars <= TaskCount(r) * VarsPerTask(r)
           /\ VarsPerTask(r) > 0 => (TaskCount(r) - 1) * VarsPerTask(r) < r.num_vars
<1> DEFINE per == VarsPerTask(r)
<1>1. per \in Int /\ r.num_vars \in Nat
    BY PerTask DEF Ruptures
<1>2. CASE per > 0
    <2>1. TaskCount(r) = (r.num_vars + per - 1) \div per
        BY <1>2 DEF TaskCount
    <2>2. r.num_vars \in Nat /\ per \in Nat \ {0}
        BY <1>1, <1>2
    <2> HIDE DEF per
    <2>3. TaskCount(r) \in Nat /\ r.num_vars <= TaskCount(r) * per
                               /\ (TaskCount(r) - 1) * per < r.num_vars
        BY <2>1, <2>2, Ceiling
    <2> QED BY <1>1, <1>2, <2>3 DEF per
<1>3. CASE ~(per > 0)
    BY <1>1, <1>3 DEF TaskCount
<1> QED BY <1>2, <1>3
-----------------------------------------------------------------------------
(* The inductive invariant *)
TaskRecords == [rup : Nat, starting_rv_id : Nat, ending_rv_id : Nat]

Files == /\ rup_list \in RupLists
         /\ LogOf(log, rup_list)

Types == /\ Files
         /\ pc \in {"checkpoint", "rupture", "tasks", "abort", "sent"}
         /\ i \in Nat /\ i <= num_ruptures
         /\ tasks_for_rupture \in Nat
         /\ j \in Nat /\ j <= tasks_for_rupture
         /\ task_list \in Seq(TaskRecords)
         /\ task_list_length \in Nat
         /\ tuples_for_master \in Seq(Nat)
         /\ completed_list \in Seq(Nat)

Position == /\ pc = "checkpoint" => task_list = <<>> /\ i = 0
            /\ pc \in {"tasks", "abort"} => i < num_ruptures
            /\ pc = "tasks" => tasks_for_rupture = TaskCount(Current) /\ ~Completed(Current)
            /\ pc = "sent" => i = num_ruptures

(* The two arrays that grow with the loop; the list is never full *)
Room == /\ num_completed <= Len(log)
        /\ Len(tuples_for_master) <= i + (IF pc \in {"tasks", "abort"} THEN 1 ELSE 0)
        /\ num_tasks < task_list_length

(* Variation v of rupture n has got its task: those before j of the current  *)
(* rupture have, and all those of the earlier ruptures that were not skipped *)
Reached(n, v) == /\ n \in 0 .. num_ruptures - 1
                 /\ ~Completed(Rupture(n)) /\ VarsPerTask(Rupture(n)) > 0
                 /\ v < Rupture(n).num_vars
                 /\ \/ n < i
                    \/ n = i /\ pc = "tasks" /\ v < j * VarsPerTask(Current)

Cover == \A n, v \in Nat :
    /\ Reached(n, v) => \E k \in DOMAIN task_list : Covers(task_list[k], n, v)
    /\ \A k \in DOMAIN task_list : Covers(task_list[k], n, v) => Reached(n, v)
    /\ \A k, m \in DOMAIN task_list :
           Covers(task_list[k], n, v) /\ Covers(task_list[m], n, v) => k = m

IInv == Types /\ Position /\ Room /\ Cover /\ TasksFit

LEMMA RuptureType ==
    ASSUME Files, NEW n \in 0 .. num_ruptures - 1
    PROVE  Rupture(n) \in Ruptures
BY TaskListAssumption DEF Files, num_ruptures, Rupture

(* The log is no longer than the list: its lines are distinct and each names *)
(* a rupture of the list                                                     *)
LEMMA LogFits ==
    ASSUME Files
    PROVE  Len(log) \in Nat /\ num_ruptures \in Nat \ {0} /\ Len(log) <= num_ruptures
<1>1. rup_list \in Seq(Ruptures) /\ rup_list # <<>>
    BY TaskListAssumption DEF Files
<1>2. log \in Seq({rup_list[n].id : n \in DOMAIN rup_list})
      /\ \A m, n \in DOMAIN log : log[m] = log[n] => m = n
    BY DEF Files, LogOf, Distinct
<1> DEFINE f == [k \in 1 .. Len(log) |->
                    CHOOSE m \in 1 .. Len(rup_list) : rup_list[m].id = log[k]]
<1>3. ASSUME NEW k \in 1 .. Len(log)
      PROVE  f[k] \in 1 .. Len(rup_list) /\ rup_list[f[k]].id = log[k]
    <2>1. log[k] \in {rup_list[q].id : q \in DOMAIN rup_list}
        BY <1>2
    <2>2. PICK n \in 1 .. Len(rup_list) : rup_list[n].id = log[k]
        BY <1>1, <2>1
    <2>3. f[k] = CHOOSE m \in 1 .. Len(rup_list) : rup_list[m].id = log[k]
        OBVIOUS
    <2> QED BY <2>2, <2>3
<1>4. f \in Injection(1 .. Len(log), 1 .. Len(rup_list))
    <2> HIDE DEF f
    <2>1. f \in [1 .. Len(log) -> 1 .. Len(rup_list)]
        BY <1>3 DEF f
    <2>2. ASSUME NEW a \in 1 .. Len(log), NEW b \in 1 .. Len(log), f[a] = f[b]
          PROVE  a = b
        <3>1. a \in DOMAIN log /\ b \in DOMAIN log
            BY <1>2
        <3>2. log[a] = log[b]
            BY <1>3, <2>2
        <3> QED BY <1>2, <3>1, <3>2
    <2> QED BY <2>1, <2>2 DEF Injection, IsInjective
<1>5. Len(log) \in Nat /\ Len(rup_list) \in Nat \ {0}
    BY <1>1, <1>2
<1> HIDE DEF f
<1>6. Cardinality(1 .. Len(log)) <= Cardinality(1 .. Len(rup_list))
    BY <1>4, <1>5, FS_Injection, FS_Interval
<1>7. Len(log) <= Len(rup_list)
    BY <1>5, <1>6, FS_Interval
<1> QED BY <1>5, <1>7 DEF num_ruptures

LEMMA InitInv == Init => IInv
<1> SUFFICES ASSUME Init PROVE IInv
    OBVIOUS
<1>1. Files
    BY DEF Init, Files
<1>2. num_ruptures \in Nat \ {0} /\ Len(log) \in Nat
    BY <1>1, LogFits
<1>3. Types /\ Position /\ Room
    BY <1>1, <1>2 DEF Init, Types, Position, Room, num_completed, num_tasks
<1>4. Cover
    BY <1>2 DEF Init, Cover, Reached
<1>5. TasksFit
    BY DEF Init, TasksFit
<1> QED BY <1>3, <1>4, <1>5 DEF IInv
-----------------------------------------------------------------------------
(* The input files never change, and while the log is not being read neither *)
(* does what is known about a rupture.                                       *)
LEMMA Frame ==
    ASSUME rup_list' = rup_list, completed_list' = completed_list, NEW n
    PROVE  /\ num_ruptures' = num_ruptures
           /\ Rupture(n)' = Rupture(n)
           /\ VarsPerTask(Rupture(n))' = VarsPerTask(Rupture(n))
           /\ Completed(Rupture(n))' = Completed(Rupture(n))
BY DEF num_ruptures, Rupture, VarsPerTask, Completed

LEMMA StepReadLine == IInv /\ ReadCheckpointLine => IInv'
<1> SUFFICES ASSUME IInv, ReadCheckpointLine PROVE IInv'
    OBVIOUS
<1> USE DEF ReadCheckpointLine
<1>1. num_ruptures \in Nat \ {0} /\ Len(log) \in Nat /\ num_completed \in Nat
    BY LogFits DEF IInv, Types, num_completed
<1>2. log[num_completed + 1] \in Nat
    <2>1. log \in Seq({rup_list[n].id : n \in DOMAIN rup_list}) /\ rup_list \in Seq(Ruptures)
        BY TaskListAssumption DEF IInv, Types, Files, LogOf
    <2>2. ASSUME NEW n \in DOMAIN rup_list PROVE rup_list[n].id \in Nat
        <3>1. rup_list[n] \in Ruptures
            BY <2>1
        <3> QED BY <3>1 DEF Ruptures
    <2> QED BY <1>1, <2>1, <2>2
<1>3. Types'
    BY <1>2 DEF IInv, Types, Files, LogOf, num_ruptures
<1>4. Position' /\ Room'
    BY <1>1 DEF IInv, Types, Position, Room, num_completed, num_tasks
<1>5. task_list = <<>> /\ i = 0
    BY DEF IInv, Position
<1>6. Cover'
    BY <1>1, <1>5 DEF Cover, Reached, num_ruptures
<1>7. TasksFit'
    BY <1>5 DEF TasksFit
<1> QED BY <1>3, <1>4, <1>6, <1>7 DEF IInv

(* A step that leaves the lists alone, and the variations that have got *)
(* their task, keeps their part of the invariant.                       *)
LEMMA SameTasks ==
    ASSUME Types, Cover, TasksFit,
           rup_list' = rup_list, completed_list' = completed_list, task_list' = task_list,
           \A n, v \in Nat : Reached(n, v)' <=> Reached(n, v)
    PROVE  Cover' /\ TasksFit'
<1>1. Cover'
    BY DEF Cover, Covers
<1>2. TasksFit'
    BY DEF TasksFit, Rupture, Completed, num_ruptures
<1> QED BY <1>1, <1>2

LEMMA StepReadEnd == IInv /\ ReadCheckpointEnd => IInv'
<1> SUFFICES ASSUME IInv, ReadCheckpointEnd PROVE IInv'
    OBVIOUS
<1> USE DEF ReadCheckpointEnd
<1>1. Types' /\ Position' /\ Room'
    BY DEF IInv, Types, Files, LogOf, Position, Room, num_ruptures, num_completed, num_tasks
<1>2. ASSUME NEW n \in Nat, NEW v \in Nat
      PROVE  Reached(n, v)' <=> Reached(n, v)
    BY Frame DEF IInv, Types, Reached
<1>3. Cover' /\ TasksFit'
    BY <1>2, SameTasks DEF IInv
<1> QED BY <1>1, <1>3 DEF IInv

LEMMA StepSkip == IInv /\ SkipCompleted => IInv'
<1> SUFFICES ASSUME IInv, SkipCompleted PROVE IInv'
    OBVIOUS
<1> USE DEF SkipCompleted
<1>0. num_ruptures \in Nat
    BY LogFits DEF IInv, Types
<1>1. Types' /\ Position' /\ Room'
    BY <1>0 DEF IInv, Types, Files, LogOf, Position, Room, num_ruptures, num_completed, num_tasks
<1>2. ASSUME NEW n \in Nat, NEW v \in Nat
      PROVE  Reached(n, v)' <=> Reached(n, v)
    BY Frame DEF IInv, Types, Reached, Current
<1>3. Cover' /\ TasksFit'
    BY <1>2, SameTasks DEF IInv
<1> QED BY <1>1, <1>3 DEF IInv

LEMMA StepSend == IInv /\ SendTuples => IInv'
<1> SUFFICES ASSUME IInv, SendTuples PROVE IInv'
    OBVIOUS
<1> USE DEF SendTuples
<1>1. Types' /\ Position' /\ Room'
    BY DEF IInv, Types, Files, LogOf, Position, Room, num_ruptures, num_completed, num_tasks
<1>2. ASSUME NEW n \in Nat, NEW v \in Nat
      PROVE  Reached(n, v)' <=> Reached(n, v)
    BY Frame DEF IInv, Types, Reached
<1>3. Cover' /\ TasksFit'
    BY <1>2, SameTasks DEF IInv
<1> QED BY <1>1, <1>3 DEF IInv

LEMMA StepSize == IInv /\ SizeRupture => IInv'
<1> SUFFICES ASSUME IInv, SizeRupture PROVE IInv'
    OBVIOUS
<1> USE DEF SizeRupture
<1>0. num_ruptures \in Nat /\ Current \in Ruptures
    BY LogFits, RuptureType DEF IInv, Types, Current
<1>1. TaskCount(Current) \in Nat /\ VarsPerTask(Current) \in Int
    BY <1>0, Counted, PerTask
<1>2. Types'
    BY <1>0, <1>1 DEF IInv, Types, Files, LogOf, num_ruptures
<1>3. Current' = Current /\ Completed(Current)' = Completed(Current)
      /\ TaskCount(Current)' = TaskCount(Current)
    BY DEF Current, Rupture, Completed, TaskCount, VarsPerTask
<1>4. Position'
    BY <1>3 DEF IInv, Position, num_ruptures
<1>5. Room'
    BY <1>0 DEF IInv, Types, Room, num_completed, num_tasks
<1>6. ASSUME NEW n \in Nat, NEW v \in Nat
      PROVE  Reached(n, v)' <=> Reached(n, v)
    BY <1>1, Frame, <1>3 DEF IInv, Types, Reached, Current
<1>7. Cover' /\ TasksFit'
    BY <1>6, SameTasks DEF IInv
<1> QED BY <1>2, <1>4, <1>5, <1>7 DEF IInv

LEMMA StepNextRupture == IInv /\ NextRupture => IInv'
<1> SUFFICES ASSUME IInv, NextRupture PROVE IInv'
    OBVIOUS
<1> USE DEF NextRupture
<1>0. num_ruptures \in Nat /\ i < num_ruptures /\ i \in Nat /\ Current \in Ruptures
    BY LogFits, RuptureType DEF IInv, Types, Position, Current
<1>1. Types' /\ Position' /\ Room'
    BY <1>0 DEF IInv, Types, Files, LogOf, Position, Room, num_ruptures, num_completed, num_tasks
(* The tasks of the rupture reach its last variation *)
<1>2. VarsPerTask(Current) > 0 => Current.num_vars <= j * VarsPerTask(Current)
    BY <1>0, Counted DEF IInv, Position
<1>3. VarsPerTask(Current) \in Int /\ Current.num_vars \in Nat /\ j \in Nat
      /\ j * VarsPerTask(Current) \in Int
    <2>1. VarsPerTask(Current) \in Int /\ Current.num_vars \in Nat /\ j \in Nat
        BY <1>0, PerTask DEF Ruptures, IInv, Types
    <2> QED BY <2>1
<1>4. ASSUME NEW n \in Nat, NEW v \in Nat
      PROVE  Reached(n, v)' <=> Reached(n, v)
    <2>1. CASE n = i
        <3>1. Reached(n, v) <=> /\ ~Completed(Current) /\ VarsPerTask(Current) > 0
                                /\ v < Current.num_vars /\ v < j * VarsPerTask(Current)
            BY <1>0, <2>1 DEF Reached, Current
        <3>2. Reached(n, v)' <=> /\ ~Completed(Current) /\ VarsPerTask(Current) > 0
                                 /\ v < Current.num_vars
            BY <1>0, <2>1, Frame DEF Reached, Current
        <3> QED BY <1>2, <1>3, <3>1, <3>2
    <2>2. CASE n # i
        BY <1>0, <2>2, Frame DEF Reached
    <2> QED BY <2>1, <2>2
<1>5. Cover' /\ TasksFit'
    BY <1>4, SameTasks DEF IInv
<1> QED BY <1>1, <1>5 DEF IInv

LEMMA StepAddTask == IInv /\ AddTask => IInv'
<1> SUFFICES ASSUME IInv, AddTask PROVE IInv'
    OBVIOUS
<1> USE DEF AddTask
<1> DEFINE per == VarsPerTask(Current)
           nv == Current.num_vars
<1>1. /\ num_ruptures \in Nat /\ i \in 0 .. num_ruptures - 1 /\ Current \in Ruptures
      /\ i \in Nat /\ j \in Nat /\ tasks_for_rupture = TaskCount(Current)
      /\ j < tasks_for_rupture /\ tasks_for_rupture \in Nat
      /\ pc = "tasks" /\ ~Completed(Current)
    BY LogFits, RuptureType DEF IInv, Types, Position, Current
<1>2. per \in Nat \ {0} /\ nv \in Nat
    <2>1. per \in Int /\ nv \in Nat
        BY <1>1, PerTask DEF Ruptures
    <2>2. ~(per <= 0)
        BY <1>1, <2>1, Counted
    <2> QED BY <2>1, <2>2
<1>3. j * per \in Nat /\ (j + 1) * per = j * per + per /\ j * per < nv
    <2>1. (TaskCount(Current) - 1) * per < nv
        BY <1>1, <1>2, Counted
    <2> HIDE DEF per, nv
    <2>2. j <= TaskCount(Current) - 1 /\ TaskCount(Current) - 1 \in Nat
        BY <1>1
    <2>3. j * per <= (TaskCount(Current) - 1) * per
        <3>1. \A a, b, c \in Nat : a <= b => a * c <= b * c
            OBVIOUS
        <3> QED BY <1>1, <1>2, <2>2, <3>1
    <2>4. j * per \in Nat /\ (TaskCount(Current) - 1) * per \in Nat
        BY <1>1, <1>2, <2>2
    <2> QED BY <1>1, <1>2, <2>1, <2>3, <2>4
<1> DEFINE t == Task(j)
<1>4. /\ t \in TaskRecords /\ t.rup = i /\ t.starting_rv_id = j * per
      /\ t.ending_rv_id = (IF j * per + per > nv THEN nv ELSE j * per + per)
    BY <1>1, <1>2, <1>3 DEF Task, TaskRecords
<1>5. \A n, v \in Nat : Covers(t, n, v) <=> n = i /\ j * per <= v /\ v < nv /\ v < j * per + per
    <2> HIDE DEF t, per, nv
    <2> QED BY <1>1, <1>2, <1>3, <1>4 DEF Covers
<1> DEFINE L == Len(task_list)
<1>6. /\ task_list \in Seq(TaskRecords) /\ L \in Nat /\ DOMAIN task_list = 1 .. L
      /\ task_list' \in Seq(TaskRecords) /\ DOMAIN task_list' = 1 .. L + 1
      /\ task_list'[L + 1] = t
      /\ \A k \in 1 .. L : task_list'[k] = task_list[k]
    <2> HIDE DEF t
    <2> QED BY <1>4 DEF IInv, Types, t
<1>6a. /\ task_list_length \in Nat /\ task_list_length' \in Nat /\ L < task_list_length
       /\ L + 1 < task_list_length'
    <2>1. task_list_length \in Nat /\ L < task_list_length
        BY DEF IInv, Types, Room, num_tasks
    <2>2. task_list_length' = IF L + 1 >= task_list_length
                              THEN task_list_length + tasks_for_rupture - j + num_ruptures - i - 1
                              ELSE task_list_length
        BY DEF Grown, num_tasks
    <2>3. tasks_for_rupture - j \in Nat \ {0} /\ num_ruptures - i - 1 \in Nat
        BY <1>1
    <2> DEFINE more == tasks_for_rupture - j
               rest == num_ruptures - i - 1
    <2>4. task_list_length' = IF L + 1 >= task_list_length
                              THEN task_list_length + more + rest ELSE task_list_length
        <3>1. task_list_length + tasks_for_rupture - j + num_ruptures - i - 1 =
                  task_list_length + more + rest
            BY <1>1, <2>1
        <3> QED BY <2>2, <3>1
    <2>5. L \in Nat
        BY <1>6
    <2> HIDE DEF L, more, rest
    <2>6. more \in Nat \ {0} /\ rest \in Nat
        BY <2>3 DEF more, rest
    <2> QED BY <2>1, <2>4, <2>5, <2>6
<1>7. Types'
    <2>1. task_list_length' \in Nat
        BY <1>6a
    <2>2. Types
        BY DEF IInv
    <2>3. Files'
        BY <2>2 DEF Types, Files, LogOf
    <2>4. num_ruptures' = num_ruptures /\ j' \in Nat /\ j' <= tasks_for_rupture'
        BY <1>1 DEF num_ruptures
    <2> HIDE DEF t
    <2> QED BY <1>6, <2>1, <2>2, <2>3, <2>4 DEF Types
<1>8. Position'
    <2>1. Current' = Current /\ TaskCount(Current)' = TaskCount(Current)
          /\ Completed(Current)' = Completed(Current) /\ num_ruptures' = num_ruptures
        BY DEF Current, Rupture, TaskCount, VarsPerTask, Completed, num_ruptures
    <2> QED BY <1>1, <2>1 DEF IInv, Position
<1>9. Room'
    <2>1. num_tasks = L /\ num_tasks' = L + 1
        BY <1>6 DEF num_tasks
    <2>2. num_completed' = num_completed /\ num_ruptures' = num_ruptures
        BY DEF num_completed, num_ruptures
    <2>3. Room /\ task_list_length \in Nat
        BY DEF IInv, Types
    <2>4. num_tasks' < task_list_length'
        BY <1>6a, <2>1
    <2> QED BY <2>2, <2>3, <2>4 DEF Room
(* What the new task adds to what has its task, disjoint from what had *)
<1>10. ASSUME NEW n \in Nat, NEW v \in Nat
       PROVE  /\ Reached(n, v)' <=> Reached(n, v) \/ Covers(t, n, v)
              /\ ~(Reached(n, v) /\ Covers(t, n, v))
    <2>1. CASE n = i
        <3>1. Reached(n, v) <=> v < nv /\ v < j * per
            BY <1>1, <1>2, <2>1 DEF Reached, Current
        <3>2. Reached(n, v)' <=> v < nv /\ v < (j + 1) * per
            BY <1>1, <1>2, <2>1, Frame DEF Reached, Current
        <3> HIDE DEF t, per, nv
        <3> QED BY <1>1, <1>2, <1>3, <1>5, <2>1, <3>1, <3>2
    <2>2. CASE n # i
        <3>1. ~Covers(t, n, v)
            BY <1>5, <2>2
        <3> QED BY <1>1, <2>2, <3>1, Frame DEF Reached
    <2> QED BY <2>1, <2>2
<1>11. Cover'
    <2> SUFFICES ASSUME NEW n \in Nat, NEW v \in Nat
                 PROVE  /\ Reached(n, v)' =>
                              \E k \in DOMAIN task_list' : Covers(task_list'[k], n, v)
                        /\ \A k \in DOMAIN task_list' :
                              Covers(task_list'[k], n, v) => Reached(n, v)'
                        /\ \A k, m \in DOMAIN task_list' :
                              Covers(task_list'[k], n, v) /\ Covers(task_list'[m], n, v) => k = m
        BY DEF Cover, Covers
    <2> HIDE DEF t, L
    <2>1. \A k \in 1 .. L : Covers(task_list[k], n, v) => Reached(n, v)
        BY <1>6 DEF IInv, Cover
    <2>2. Reached(n, v) => \E k \in 1 .. L : Covers(task_list[k], n, v)
        BY <1>6 DEF IInv, Cover
    <2>3. \A k, m \in 1 .. L :
              Covers(task_list[k], n, v) /\ Covers(task_list[m], n, v) => k = m
        BY <1>6 DEF IInv, Cover
    <2>4. Reached(n, v)' <=> Reached(n, v) \/ Covers(t, n, v)
        BY <1>10
    <2>5. ~(Reached(n, v) /\ Covers(t, n, v))
        BY <1>10
    <2>6. \A k \in DOMAIN task_list' :
              (k \in 1 .. L /\ task_list'[k] = task_list[k]) \/ (k = L + 1 /\ task_list'[k] = t)
        BY <1>6
    <2>7. 1 .. L \subseteq DOMAIN task_list' /\ L + 1 \in DOMAIN task_list'
        BY <1>6
    <2>8. Reached(n, v)' => \E k \in DOMAIN task_list' : Covers(task_list'[k], n, v)
        <3>1. CASE Covers(t, n, v)
            BY <1>6, <2>7, <3>1
        <3>2. CASE Reached(n, v)
            BY <1>6, <2>2, <2>7, <3>2
        <3> QED BY <2>4, <3>1, <3>2
    <2>9. \A k \in DOMAIN task_list' : Covers(task_list'[k], n, v) => Reached(n, v)'
        BY <2>1, <2>4, <2>6
    <2>10. \A k, m \in DOMAIN task_list' :
               Covers(task_list'[k], n, v) /\ Covers(task_list'[m], n, v) => k = m
        BY <2>1, <2>3, <2>5, <2>6
    <2> QED BY <2>8, <2>9, <2>10
<1>12. TasksFit'
    <2>1. ASSUME NEW k \in 1 .. L
          PROVE  LET r == Rupture(task_list[k].rup)
                 IN  /\ task_list[k].rup \in 0 .. num_ruptures - 1
                     /\ task_list[k].starting_rv_id < task_list[k].ending_rv_id
                     /\ task_list[k].ending_rv_id <= r.num_vars
                     /\ (task_list[k].ending_rv_id - task_list[k].starting_rv_id) * r.rv_size
                           <= r.room
                     /\ ~Completed(r)
        BY <1>6 DEF IInv, TasksFit
    <2>2. t.starting_rv_id < t.ending_rv_id /\ t.ending_rv_id <= nv
          /\ t.ending_rv_id - t.starting_rv_id \in Nat
          /\ t.ending_rv_id - t.starting_rv_id <= per
        <3> HIDE DEF t, per, nv
        <3> QED BY <1>2, <1>3, <1>4, CutOff
    <2>3. (t.ending_rv_id - t.starting_rv_id) * Current.rv_size <= Current.room
        <3>1. per * Current.rv_size <= Current.room /\ Current.rv_size \in Nat /\ Current.room \in Int
            BY <1>1, <1>2, PerTask DEF Ruptures
        <3> DEFINE size == t.ending_rv_id - t.starting_rv_id
        <3>2. size \in Nat /\ size <= per
            BY <2>2
        <3> HIDE DEF t, per, nv, size
        <3>3. /\ size * Current.rv_size \in Nat /\ per * Current.rv_size \in Nat
              /\ size * Current.rv_size <= per * Current.rv_size
            BY <1>2, <3>1, <3>2, TimesMonotone
        <3>4. size * Current.rv_size <= Current.room
            BY <3>1, <3>3
        <3> QED BY <3>4 DEF size
    <2>4. /\ t.rup = i /\ Rupture(i) = Current
        BY <1>4 DEF Current
    <2> HIDE DEF t, L
    <2>5. ASSUME NEW k \in DOMAIN task_list'
          PROVE  LET u == task_list'[k]
                     r == Rupture(u.rup)
                 IN  /\ u.rup \in 0 .. num_ruptures - 1
                     /\ u.starting_rv_id < u.ending_rv_id
                     /\ u.ending_rv_id <= r.num_vars
                     /\ (u.ending_rv_id - u.starting_rv_id) * r.rv_size <= r.room
                     /\ ~Completed(r)
        <3>1. CASE k = L + 1
            <4>1. task_list'[k] = t
                BY <1>6, <3>1
            <4> QED BY <1>1, <2>2, <2>3, <2>4, <4>1
        <3>2. CASE k \in 1 .. L
            BY <1>6, <2>1, <3>2
        <3> QED BY <1>6, <3>1, <3>2
    <2>6. rup_list' = rup_list /\ completed_list' = completed_list
        OBVIOUS
    <2> QED BY <2>5, <2>6 DEF TasksFit, Rupture, num_ruptures, Completed
<1> QED BY <1>7, <1>8, <1>9, <1>11, <1>12 DEF IInv
-----------------------------------------------------------------------------
LEMMA StepInv == IInv /\ [Next]_vars => IInv'
<1> SUFFICES ASSUME IInv, [Next]_vars PROVE IInv'
    OBVIOUS
<1>1. CASE Next
    BY <1>1, StepReadLine, StepReadEnd, StepSkip, StepSize, StepAddTask, StepNextRupture,
       StepSend DEF Next
<1>2. CASE UNCHANGED vars
    <2> USE <1>2 DEF vars
    <2>1. Types' /\ Position' /\ Room'
        BY Frame DEF IInv, Types, Files, LogOf, Position, Room, Current, Rupture, TaskCount,
           VarsPerTask, Completed, num_ruptures, num_completed, num_tasks
    <2>2. ASSUME NEW n \in Nat, NEW v \in Nat
          PROVE  Reached(n, v)' <=> Reached(n, v)
        <3>1. VarsPerTask(Current)' = VarsPerTask(Current)
            BY DEF Current, Rupture, VarsPerTask
        <3> QED BY Frame, <3>1 DEF Reached
    <2>3. Cover' /\ TasksFit'
        BY <2>2, SameTasks DEF IInv
    <2> QED BY <2>1, <2>3 DEF IInv
<1> QED BY <1>1, <1>2

(* The invariant holds in every reachable state. *)
THEOREM ListInvariant == Spec => []IInv
BY InitInv, StepInv, PTL DEF Spec

(* The variables keep their types. *)
THEOREM ListTypes == Spec => []TypeOK
<1>1. IInv => TypeOK
    <2> SUFFICES ASSUME IInv PROVE TypeOK
        OBVIOUS
    <2>1. num_ruptures \in Nat
        BY LogFits DEF IInv, Types
    <2> QED BY <2>1 DEF IInv, Types, TypeOK, TaskRecords
<1> QED BY <1>1, ListInvariant, PTL

(* parse_rupture_list never writes outside its three arrays. *)
THEOREM ListInBounds == Spec => []WritesInBounds
<1>1. IInv => WritesInBounds
    <2> SUFFICES ASSUME IInv PROVE WritesInBounds
        OBVIOUS
    <2>1. num_ruptures \in Nat /\ Len(log) \in Nat /\ Len(log) <= num_ruptures
          /\ num_completed \in Nat /\ Len(tuples_for_master) \in Nat
        BY LogFits DEF IInv, Types, num_completed
    <2> QED BY <2>1 DEF IInv, Types, Position, Room, WritesInBounds
<1> QED BY <1>1, ListInvariant, PTL

(* The tasks of a rupture cut its variations into disjoint parts, and leave  *)
(* none out, whatever their number and the number that fits in a task.       *)
THEOREM ListPartition == Spec => []EveryVariationOnce
<1>1. IInv => EveryVariationOnce
    <2> SUFFICES ASSUME IInv, pc = "sent", NEW n \in 0 .. num_ruptures - 1,
                        VarsPerTask(Rupture(n)) > 0, ~Completed(Rupture(n)),
                        NEW v \in 0 .. Rupture(n).num_vars - 1
                 PROVE  /\ \E k \in DOMAIN task_list : Covers(task_list[k], n, v)
                        /\ \A k, m \in DOMAIN task_list :
                              Covers(task_list[k], n, v) /\ Covers(task_list[m], n, v) => k = m
        BY DEF EveryVariationOnce
    <2>1. num_ruptures \in Nat /\ Rupture(n) \in Ruptures
        BY LogFits, RuptureType DEF IInv, Types
    <2>2. n \in Nat /\ v \in Nat /\ v < Rupture(n).num_vars
        BY <2>1 DEF Ruptures
    <2>3. Reached(n, v)
        BY <2>1, <2>2 DEF Reached, IInv, Position
    <2> QED BY <2>2, <2>3 DEF IInv, Cover
<1> QED BY <1>1, ListInvariant, PTL

(* No task is empty, goes past the rupture or asks for more than the room. *)
THEOREM ListTasksFit == Spec => []TasksFit
<1>1. IInv => TasksFit
    BY DEF IInv
<1> QED BY <1>1, ListInvariant, PTL
=============================================================================
