------------------------------ MODULE WorkPool ------------------------------
(***************************************************************************)
(* What the task manager promises: a pool of tasks, each handed to one     *)
(* worker, run once, and a pool that closes only after the last task has   *)
(* been run.  The order of the tasks, the messages and the bookkeeping of  *)
(* the manager are not visible here; TaskManager implements this module.   *)
(***************************************************************************)
CONSTANTS Workers, Tasks  \* Tasks: all that a pool may hold

VARIABLES
    todo,       \* tasks nobody has been given
    running,    \* pairs <<worker, task>>: the task has been given, not finished
    finished,   \* tasks that have been run
    closed      \* completion has been announced

vars == <<todo, running, finished, closed>>

Init == /\ todo \in SUBSET Tasks
        /\ running = {}
        /\ finished = {}
        /\ closed = FALSE

Assign(w, t) == /\ ~closed
                /\ t \in todo
                /\ \A u \in Tasks : <<w, u>> \notin running
                /\ todo' = todo \ {t}
                /\ running' = running \cup {<<w, t>>}
                /\ UNCHANGED <<finished, closed>>

Finish(w, t) == /\ <<w, t>> \in running
                /\ running' = running \ {<<w, t>>}
                /\ finished' = finished \cup {t}
                /\ UNCHANGED <<todo, closed>>

Close == /\ ~closed
         /\ todo = {}
         /\ running = {}
         /\ closed' = TRUE
         /\ UNCHANGED <<todo, running, finished>>

Next == \/ \E w \in Workers, t \in Tasks : Assign(w, t) \/ Finish(w, t)
        \/ Close

SafeSpec == Init /\ [][Next]_vars

(* The pool is emptied: as long as something can be done it is done. *)
Spec == SafeSpec /\ WF_vars(Next)
=============================================================================
