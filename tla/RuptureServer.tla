--------------------------- MODULE RuptureServer ---------------------------
(***************************************************************************)
(* The MPI rupture generator (RuptureCodes/GenRand-mpi/rupgen.c): rank 0   *)
(* (server) hands records to the other ranks (worker) in two stages.  In   *)
(* stage CALC each rupture is run once to count its slips; from the counts *)
(* the server writes the list of the files there will be (rls.list).  In   *)
(* stage WRITE each slip of each rupture is run once and its files are     *)
(* written.  A barrier separates the stages.                               *)
(*                                                                         *)
(* A worker's request for the next record carries the result of the last:  *)
(* one message goes from it to the server and one comes back, so phase[w]  *)
(* and rec[w] stand for its program counter, its record and the message    *)
(* under way, as in TaskManager.                                           *)
(***************************************************************************)
EXTENDS Integers, FiniteSets, Functions

CONSTANTS
    Workers,    \* ranks 1 .. nproc-1
    NumRup,     \* ruptures in ruptures.list
    Results     \* what a rupture's file may hold: how many slips genslip counts
                \* (0: something it cannot use), or that there is no such file

Missing == -1

ASSUME RuptureServerAssumption ==
    /\ IsFiniteSet(Workers) /\ Workers # {}
    /\ NumRup \in Nat \ {0}
    /\ Results \subseteq Nat \cup {Missing}

Rups == 0 .. NumRup - 1
CALC == 1
WRITE == 2
END == 3

VARIABLES
    files,      \* files[r]: what the file of rupture r holds
    stage, spc, \* the server's stage, and where it is in it
    list, num,  \* its argument rups (rups, then rupvars), and numrup
    currup,     \* next record to hand out
    stopped,    \* workers the loop after it has stopped (n - 1)
    wstage,     \* each worker's stage,
    phase,      \*   where it is in it,
    rec,        \*   and its record
    listed,     \* history: the files named in rls.list
    written     \* history: slips generated in stage WRITE

serverVars == <<stage, spc, list, num, currup, stopped>>
vars == <<files, serverVars, wstage, phase, rec, listed, written>>

(* A record: a rupture, stats.numslip (in stage WRITE the slip to generate,  *)
(* until the run overwrites it) and the record's place in the list.  NoRec   *)
(* is a record with an empty file name.                                      *)
Rec(r, s, k) == [rup |-> r, numslip |-> s, index |-> k]
NoRec == Rec(-1, 0, 0)

(* The slips of a table of counts, and those of the counts genslip returns   *)
SlipsOf(count) == UNION {{<<r, s>> : s \in 0 .. count[r] - 1} : r \in Rups}
Slips == SlipsOf(files)
AllSlips == UNION {{<<r, s>> : r \in Rups, s \in 0 .. n - 1} : n \in Results}
-----------------------------------------------------------------------------
Init == /\ files \in [Rups -> Results]
        /\ stage = CALC
        /\ spc = "dispatch"
        /\ list = [r \in Rups |-> Rec(r, 0, r)]
        /\ num = NumRup
        /\ currup = 0
        /\ stopped = 0
        /\ wstage = [w \in Workers |-> CALC]
        /\ phase = [w \in Workers |-> "request"]
        /\ rec = [w \in Workers |-> NoRec]
        /\ listed = {}
        /\ written = {}

(* Update the record a worker returns, in both loops of server                *)
Bad(w) == rec[w] # NoRec /\ rec[w].numslip <= 0
Updated(w) == IF rec[w] = NoRec THEN list ELSE [list EXCEPT ![rec[w].index] = rec[w]]

(* Dispatch rupture files to worker pool.                                    *)
(* Definitions named X_... are faulty forms of X, as in TaskManager.          *)
Dispatch_SameAgain(w) == /\ spc = "dispatch"
                         /\ phase[w] = "request" /\ ~Bad(w)
                         /\ list' = Updated(w)
                         /\ rec' = [rec EXCEPT ![w] = list'[currup]]
                         /\ phase' = [phase EXCEPT ![w] = "answer"]
                         /\ currup' = currup + (IF rec[w] = NoRec /\ currup > 0 THEN 0 ELSE 1)
                         /\ spc' = IF currup' = num THEN "stop" ELSE "dispatch"
                         /\ UNCHANGED <<files, stage, num, stopped, wstage, listed, written>>

Dispatch(w) == /\ spc = "dispatch"
               /\ phase[w] = "request" /\ ~Bad(w)
               /\ list' = Updated(w)
               /\ rec' = [rec EXCEPT ![w] = list'[currup]]
               /\ phase' = [phase EXCEPT ![w] = "answer"]
               /\ currup' = currup + 1
               /\ spc' = IF currup' = num THEN "stop" ELSE "dispatch"
               /\ UNCHANGED <<files, stage, num, stopped, wstage, listed, written>>

StopWorker_OneShort(w) == /\ spc = "stop"
                          /\ phase[w] = "request" /\ ~Bad(w)
                          /\ list' = Updated(w)
                          /\ rec' = [rec EXCEPT ![w] = NoRec]
                          /\ phase' = [phase EXCEPT ![w] = "answer"]
                          /\ stopped' = stopped + 1
                          /\ spc' = IF stopped' + 1 >= Cardinality(Workers) THEN "lists" ELSE "stop"
                          /\ UNCHANGED <<files, stage, num, currup, wstage, listed, written>>

(* Send stop message to all workers; the last record of each comes with its  *)
(* last request.                                                             *)
StopWorker(w) == /\ spc = "stop"
                 /\ phase[w] = "request" /\ ~Bad(w)
                 /\ list' = Updated(w)
                 /\ rec' = [rec EXCEPT ![w] = NoRec]
                 /\ phase' = [phase EXCEPT ![w] = "answer"]
                 /\ stopped' = stopped + 1
                 /\ spc' = IF stopped' = Cardinality(Workers) THEN "lists" ELSE "stop"
                 /\ UNCHANGED <<files, stage, num, currup, wstage, listed, written>>

(* "Worker %d returned bad data for rupture %d": server and main return 1    *)
Reject(w) == /\ spc \in {"dispatch", "stop"}
             /\ phase[w] = "request" /\ Bad(w)
             /\ spc' = "failed"
             /\ UNCHANGED <<files, stage, list, num, currup, stopped, wstage, phase, rec,
                            listed, written>>

(* main, after each stage: the statistics and rls.list, or nothing           *)
SaveLists == /\ spc = "lists"
             /\ listed' = IF stage = CALC
                          THEN SlipsOf([r \in Rups |-> list[r].numslip]) ELSE listed
             /\ spc' = "barrier"
             /\ UNCHANGED <<files, stage, list, num, currup, stopped, wstage, phase, rec, written>>
-----------------------------------------------------------------------------
(* Whether all have entered the barrier at the end of stage s *)
ServerEntered(s) == stage > s \/ (stage = s /\ spc = "barrier")
WorkerEntered(w, s) == wstage[w] > s \/ (wstage[w] = s /\ phase[w] = "barrier")
BarrierOpen(s) == ServerEntered(s) /\ \A w \in Workers : WorkerEntered(w, s)

(* rupvars: a record for each slip, sorted by descending slip number (qsort  *)
(* may leave equals in any order), and its place in the list as its index.   *)
Sorted(slips) == {f \in Bijection(0 .. Cardinality(slips) - 1, slips) :
                      \A j, k \in DOMAIN f : j < k => f[j][2] >= f[k][2]}

RupVar_OldIndex(k, p) == Rec(p[1], p[2], p[1])
RupVar(k, p) == Rec(p[1], p[2], k)

ServerNextStage ==
    /\ spc = "barrier" /\ BarrierOpen(stage)
    /\ stage' = stage + 1
    /\ \/ /\ stage = CALC
          /\ \E f \in Sorted(listed) : list' = [k \in DOMAIN f |-> RupVar(k, f[k])]
          /\ num' = Cardinality(listed)
          /\ spc' = "dispatch"
          /\ currup' = 0
          /\ stopped' = 0
       \/ /\ stage = WRITE
          /\ spc' = "done"
          /\ UNCHANGED <<list, num, currup, stopped>>
    /\ UNCHANGED <<files, wstage, phase, rec, listed, written>>
-----------------------------------------------------------------------------
(* worker: a record without a file name ends the stage; a file that is not   *)
(* there ends the process (main returns 1).                                  *)
Receive(w) ==
    /\ phase[w] = "answer"
    /\ phase' = [phase EXCEPT ![w] = IF rec[w] = NoRec THEN "barrier"
                                     ELSE IF files[rec[w].rup] = Missing THEN "failed" ELSE "run"]
    /\ UNCHANGED <<files, serverVars, wstage, rec, listed, written>>

(* run_genslip: rup.stats is set to the counts in both stages.               *)
Generate(w) ==
    /\ phase[w] = "run"
    /\ rec' = [rec EXCEPT ![w].numslip = files[rec[w].rup]]
    /\ phase' = [phase EXCEPT ![w] = "request"]
    /\ written' = IF wstage[w] = WRITE
                  THEN written \cup {<<rec[w].rup, rec[w].numslip>>} ELSE written
    /\ UNCHANGED <<files, serverVars, wstage, listed>>

(* worker returns, main calls mpi_barrier and then worker for stage WRITE    *)
WorkerNextStage_NoBarrier(w) ==
    /\ phase[w] = "barrier"
    /\ wstage' = [wstage EXCEPT ![w] = @ + 1]
    /\ phase' = [phase EXCEPT ![w] = IF wstage[w] = CALC THEN "request" ELSE "done"]
    /\ UNCHANGED <<files, serverVars, rec, listed, written>>

WorkerNextStage(w) ==
    /\ phase[w] = "barrier" /\ BarrierOpen(wstage[w])
    /\ wstage' = [wstage EXCEPT ![w] = @ + 1]
    /\ phase' = [phase EXCEPT ![w] = IF wstage[w] = CALC THEN "request" ELSE "done"]
    /\ UNCHANGED <<files, serverVars, rec, listed, written>>
-----------------------------------------------------------------------------
Server == \/ \E w \in Workers : Dispatch(w) \/ StopWorker(w) \/ Reject(w)
          \/ SaveLists \/ ServerNextStage
Worker(w) == Receive(w) \/ Generate(w) \/ WorkerNextStage(w)
Next == Server \/ \E w \in Workers : Worker(w)

SafeSpec == Init /\ [][Next]_vars

(* Every rank goes on while it can; which worker's request is received       *)
(* first is left open.                                                       *)
Spec == SafeSpec /\ WF_vars(Server) /\ \A w \in Workers : WF_vars(Worker(w))
-----------------------------------------------------------------------------
Recs == [rup : Rups, numslip : Int, index : Nat] \cup {NoRec}

TypeOK == /\ files \in [Rups -> Results]
          /\ stage \in {CALC, WRITE, END}
          /\ spc \in {"dispatch", "stop", "lists", "barrier", "failed", "done"}
          /\ num \in Nat
          /\ list \in [0 .. num - 1 -> Recs \ {NoRec}]
          /\ currup \in 0 .. num
          /\ stopped \in 0 .. Cardinality(Workers)
          /\ wstage \in [Workers -> {CALC, WRITE, END}]
          /\ phase \in [Workers -> {"request", "answer", "run", "barrier", "failed", "done"}]
          /\ rec \in [Workers -> Recs]
          /\ listed \subseteq AllSlips
          /\ written \subseteq AllSlips

HasWork(w) == phase[w] \in {"answer", "run"} /\ rec[w] # NoRec
HoldsSlip(w, p) == HasWork(w) /\ wstage[w] = WRITE /\ <<rec[w].rup, rec[w].numslip>> = p

(* No slip is generated by two workers or handed out again after it was      *)
(* generated: they would write the same files.                               *)
EachSlipOnce == \A w \in Workers, p \in AllSlips : HoldsSlip(w, p) =>
                    p \notin written /\ \A v \in Workers \ {w} : ~HoldsSlip(v, p)

(* The lists are made when the results of all ruptures are in, those that    *)
(* came with a worker's last request too: rls.list names every slip.         *)
StatisticsComplete == ServerEntered(CALC) => listed = Slips /\ \A r \in Rups : files[r] > 0

(* When the job ends the files that rls.list names are the ones that exist.  *)
FilesAsListed == ServerEntered(WRITE) => written = listed

(* If every file is there and can be used, the job ends, on all ranks.       *)
JobEnds == (\A r \in Rups : files[r] > 0) =>
               <>(stage = END /\ \A w \in Workers : phase[w] = "done")

(* Stage WRITE implements the abstract pool, with the slips as its tasks.    *)
ToDo == IF stage = CALC THEN Slips
        ELSE {<<list[k].rup, list[k].numslip>> : k \in currup .. num - 1}
Running == {q \in Workers \X AllSlips : HoldsSlip(q[1], q[2])}

SlipPool == INSTANCE WorkPool WITH
    Tasks <- AllSlips,
    todo <- ToDo,
    running <- Running,
    finished <- written,
    closed <- stage = END
SlipPoolSpec == SlipPool!SafeSpec
=============================================================================
