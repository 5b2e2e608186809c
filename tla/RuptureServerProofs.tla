------------------------ MODULE RuptureServerProofs ------------------------
(***************************************************************************)
(* Proofs about RuptureServer, for every number of workers and ruptures    *)
(* and whatever the files hold.  IInv is the inductive invariant.          *)
(***************************************************************************)
EXTENDS RuptureServer, FiniteSetTheorems, TLAPS

Item(k) == <<list[k].rup, list[k].numslip>>

(* A worker is in the server's stage, or waits at the end of the last one,   *)
(* or has left the barrier the server is in.                                 *)
WorkerStages == \A w \in Workers :
    /\ wstage[w] = END <=> phase[w] = "done"
    /\ phase[w] \in {"barrier", "done"} => rec[w] = NoRec
    /\ phase[w] \in {"run", "failed"} => rec[w] # NoRec
    /\ \/ wstage[w] = stage
       \/ wstage[w] = stage - 1 /\ phase[w] = "barrier"
       \/ /\ wstage[w] = stage + 1 /\ spc = "barrier"
          /\ phase[w] \in {"request", "done"} /\ rec[w] = NoRec

(* The server's count of the workers it has stopped is right. *)
IsStopped(w) == \/ wstage[w] > stage
                \/ /\ wstage[w] = stage
                   /\ phase[w] = "barrier" \/ (phase[w] = "answer" /\ rec[w] = NoRec)
StoppedCounted == stage # END => stopped = Cardinality({w \in Workers : IsStopped(w)})

(* Where the server is follows from its two counts. *)
ServerPlace == /\ spc = "dispatch" => currup < num
               /\ spc \in {"stop", "lists", "barrier", "done"} => currup = num
               /\ spc = "dispatch" => stopped = 0
               /\ spc = "stop" => stopped < Cardinality(Workers)
               /\ spc \in {"lists", "barrier"} => stopped = Cardinality(Workers)
               /\ spc = "done" <=> stage = END

(* The record in a worker's hands is one of the list. *)
Held == \A w \in Workers : rec[w] # NoRec =>
    /\ wstage[w] = stage
    /\ phase[w] \in {"answer", "run", "request", "failed"}
    /\ rec[w].rup \in Rups
    /\ rec[w].index \in 0 .. currup - 1
    /\ phase[w] = "request" => rec[w].numslip = files[rec[w].rup]
    /\ stage = CALC => rec[w].rup = rec[w].index
    /\ stage = WRITE /\ phase[w] # "request" => <<rec[w].rup, rec[w].numslip>> \in Slips

(* Stage CALC: a rupture that was handed out has its count in the list, or a *)
(* worker has it.                                                            *)
CalcList == stage = CALC =>
    /\ num = NumRup
    /\ written = {}
    /\ \A k \in Rups : /\ list[k].rup = k /\ list[k].index = k
                       /\ k < currup => \/ list[k].numslip = files[k] /\ files[k] > 0
                                        \/ \E w \in Workers : rec[w] # NoRec /\ rec[w].index = k

(* Stage WRITE: what is still to be handed out are different slips, and none *)
(* is missing.                                                               *)
WriteList == stage = WRITE =>
    /\ \A k \in 0 .. num - 1 : list[k].rup \in Rups /\ list[k].index = k
    /\ \A k \in currup .. num - 1 :
          /\ Item(k) \in Slips
          /\ Item(k) \notin written
          /\ \A w \in Workers : ~HoldsSlip(w, Item(k))
          /\ \A j \in currup .. num - 1 : Item(j) = Item(k) => j = k
    /\ \A p \in Slips : \/ p \in written
                        \/ \E k \in currup .. num - 1 : Item(k) = p
                        \/ \E w \in Workers : HoldsSlip(w, p)

WrittenKnown == written \subseteq Slips

IInv == /\ TypeOK
        /\ WorkerStages
        /\ StoppedCounted
        /\ ServerPlace
        /\ Held
        /\ CalcList
        /\ WriteList
        /\ WrittenKnown
        /\ EachSlipOnce
        /\ StatisticsComplete
        /\ FilesAsListed
-----------------------------------------------------------------------------
LEMMA ResultsInt == Results \subseteq Int
  BY RuptureServerAssumption, -1 \in Int DEF Missing

LEMMA SlipsFinite == files \in [Rups -> Results] => IsFiniteSet(Slips) /\ Slips \subseteq AllSlips
<1> SUFFICES ASSUME files \in [Rups -> Results] PROVE IsFiniteSet(Slips) /\ Slips \subseteq AllSlips
  OBVIOUS
<1> DEFINE OfRup(r) == {<<r, s>> : s \in 0 .. files[r] - 1}
           Family == {OfRup(r) : r \in Rups}
<1>1. ASSUME NEW r \in Rups PROVE IsFiniteSet(OfRup(r))
  <2> DEFINE I == 0 .. files[r] - 1
             g == [s \in I |-> <<r, s>>]
  <2>1. files[r] \in Int
    BY ResultsInt
  <2>2. IsFiniteSet(I)
    BY <2>1, FS_Interval
  <2>3. g \in Surjection(I, OfRup(r))
    BY DEF Surjection
  <2> HIDE DEF g, I, OfRup
  <2>4. QED
    BY <2>2, <2>3, FS_Surjection
<1>2. IsFiniteSet(Family)
  <2> DEFINE g == [r \in Rups |-> OfRup(r)]
  <2>1. IsFiniteSet(Rups)
    BY RuptureServerAssumption, FS_Interval DEF Rups
  <2> HIDE DEF OfRup
  <2>2. g \in Surjection(Rups, Family)
    BY DEF Surjection
  <2> HIDE DEF g, Family
  <2>3. QED
    BY <2>1, <2>2, FS_Surjection
<1>3. IsFiniteSet(UNION Family)
  <2>1. \A T \in Family : IsFiniteSet(T)
    BY <1>1
  <2> HIDE DEF Family
  <2>2. QED
    BY <1>2, <2>1, FS_UNION
<1>4. Slips = UNION Family
  BY DEF Slips, SlipsOf
<1>5. Slips \subseteq AllSlips
  BY DEF Slips, SlipsOf, AllSlips
<1>6. QED
  BY <1>3, <1>4, <1>5

LEMMA WorkersCard == Cardinality(Workers) \in Nat \ {0}
  BY RuptureServerAssumption, FS_CardinalityType, FS_EmptySet

LEMMA InitInvariant == Init => IInv
<1> SUFFICES ASSUME Init PROVE IInv
  OBVIOUS
<1> USE RuptureServerAssumption, WorkersCard DEF Init, Rups, Rec, NoRec, CALC, WRITE, END
<1>1. TypeOK
  BY DEF TypeOK, Recs
<1>2. WorkerStages /\ ServerPlace /\ Held /\ CalcList
  BY DEF WorkerStages, ServerPlace, Held, CalcList
<1>3. StoppedCounted
  <2>1. {w \in Workers : IsStopped(w)} = {}
    BY DEF IsStopped
  <2>2. QED
    BY <2>1, FS_EmptySet DEF StoppedCounted
<1>4. WriteList /\ WrittenKnown /\ EachSlipOnce /\ StatisticsComplete /\ FilesAsListed
  BY DEF WriteList, WrittenKnown, EachSlipOnce, HoldsSlip, HasWork, StatisticsComplete,
     FilesAsListed, ServerEntered
<1>5. QED
  BY <1>1, <1>2, <1>3, <1>4 DEF IInv

(* When the server has counted every worker, every worker has been stopped:  *)
(* none has a record.                                                        *)
LEMMA AllStopped ==
    ASSUME IInv, spc \in {"lists", "barrier"}
    PROVE  /\ \A w \in Workers : IsStopped(w)
           /\ \A w \in Workers : rec[w] = NoRec
           /\ stage # END
<1> USE DEF IInv
<1> DEFINE S == {w \in Workers : IsStopped(w)}
<1>1. stage # END /\ stopped = Cardinality(Workers)
  BY DEF ServerPlace
<1>2. Cardinality(S) = Cardinality(Workers)
  BY <1>1 DEF StoppedCounted
<1>3. S = Workers
  BY <1>2, RuptureServerAssumption, FS_Subset
<1>4. \A w \in Workers : rec[w] = NoRec
  BY <1>3 DEF IsStopped, Held, WorkerStages, TypeOK, CALC, WRITE, END
<1>5. QED
  BY <1>1, <1>3, <1>4

(* A worker that asks while the server serves is in the server's stage, and  *)
(* its record, if it has one, is the result of the rupture or slip it had.   *)
LEMMA Served ==
    ASSUME IInv, NEW w \in Workers, spc \in {"dispatch", "stop"}, phase[w] = "request", ~Bad(w),
           list' = Updated(w)
    PROVE  /\ stage \in {CALC, WRITE}
           /\ wstage[w] = stage
           /\ list' \in [0 .. num - 1 -> Recs \ {NoRec}]
           /\ \A k \in currup .. num - 1 : list'[k] = list[k]
           /\ \A k \in 0 .. num - 1 :
                 \/ list'[k] = list[k] /\ (rec[w] = NoRec \/ k # rec[w].index)
                 \/ rec[w] # NoRec /\ k = rec[w].index /\ list'[k] = rec[w]
           /\ rec[w] # NoRec => /\ rec[w].numslip = files[rec[w].rup] /\ rec[w].numslip > 0
                                /\ rec[w].rup \in Rups /\ rec[w].index \in 0 .. currup - 1
<1> USE RuptureServerAssumption DEF IInv, CALC, WRITE, END
<1>1. stage \in {CALC, WRITE}
  BY DEF ServerPlace, TypeOK
<1>2. wstage[w] = stage
  BY DEF WorkerStages
<1>3. rec[w] # NoRec => /\ rec[w].numslip = files[rec[w].rup] /\ rec[w].numslip > 0
                        /\ rec[w].rup \in Rups /\ rec[w].index \in 0 .. currup - 1
  <2>1. rec[w] # NoRec => rec[w].numslip = files[rec[w].rup] /\ rec[w].rup \in Rups
                          /\ rec[w].index \in 0 .. currup - 1
    BY DEF Held
  <2>2. rec[w] # NoRec => files[rec[w].rup] \in Int /\ ~(rec[w].numslip <= 0)
    BY <2>1, ResultsInt DEF TypeOK, Bad
  <2>3. QED
    BY <2>1, <2>2
<1>4. currup \in 0 .. num /\ num \in Nat /\ list \in [0 .. num - 1 -> Recs \ {NoRec}]
      /\ rec[w] \in Recs
  BY DEF TypeOK
<1>5. CASE rec[w] = NoRec
  BY <1>1, <1>2, <1>4, <1>5 DEF Updated
<1>6. CASE rec[w] # NoRec
  <2>1. list' = [list EXCEPT ![rec[w].index] = rec[w]]
    BY <1>6 DEF Updated
  <2>2. rec[w].index \in 0 .. num - 1
    BY <1>3, <1>4, <1>6
  <2>3. list' \in [0 .. num - 1 -> Recs \ {NoRec}]
    BY <1>4, <1>6, <2>1, <2>2
  <2>4. \A k \in 0 .. num - 1 : list'[k] = IF k = rec[w].index THEN rec[w] ELSE list[k]
    BY <1>4, <2>1, <2>2
  <2>5. \A k \in currup .. num - 1 : k \in 0 .. num - 1 /\ k # rec[w].index
    BY <1>3, <1>4, <1>6
  <2>6. QED
    BY <1>1, <1>2, <1>3, <1>6, <2>3, <2>4, <2>5
<1>7. QED
  BY <1>5, <1>6

LEMMA SlipsUnchanged == UNCHANGED files => Slips' = Slips
  BY DEF Slips, SlipsOf

(* The next record of the list goes to a worker. *)
LEMMA DispatchStep == ASSUME IInv, NEW w \in Workers, Dispatch(w) PROVE IInv'
<1> USE RuptureServerAssumption, WorkersCard DEF CALC, WRITE, END
<1>1. /\ stage \in {CALC, WRITE}
      /\ wstage[w] = stage
      /\ list' \in [0 .. num - 1 -> Recs \ {NoRec}]
      /\ \A k \in currup .. num - 1 : list'[k] = list[k]
      /\ \A k \in 0 .. num - 1 :
            \/ list'[k] = list[k] /\ (rec[w] = NoRec \/ k # rec[w].index)
            \/ rec[w] # NoRec /\ k = rec[w].index /\ list'[k] = rec[w]
      /\ rec[w] # NoRec => /\ rec[w].numslip = files[rec[w].rup] /\ rec[w].numslip > 0
                           /\ rec[w].rup \in Rups /\ rec[w].index \in 0 .. currup - 1
  BY Served DEF Dispatch
<1>2. /\ TypeOK /\ WorkerStages /\ StoppedCounted /\ ServerPlace /\ Held /\ CalcList
      /\ WriteList /\ WrittenKnown /\ EachSlipOnce /\ StatisticsComplete /\ FilesAsListed
  BY DEF IInv
<1>3. /\ UNCHANGED <<files, stage, num, stopped, wstage, listed, written>>
      /\ phase[w] = "request" /\ phase'[w] = "answer"
      /\ \A v \in Workers \ {w} : phase'[v] = phase[v] /\ rec'[v] = rec[v]
      /\ rec'[w] = list[currup]
      /\ currup \in 0 .. num - 1 /\ num \in Nat /\ currup' = currup + 1
      /\ spc = "dispatch" /\ spc' = IF currup' = num THEN "stop" ELSE "dispatch"
      /\ stopped = 0
  BY <1>1, <1>2 DEF Dispatch, TypeOK, ServerPlace
<1>4. /\ list[currup] \in Recs \ {NoRec}
      /\ Slips' = Slips
  BY <1>2, <1>3, SlipsUnchanged DEF TypeOK
<1>5. TypeOK'
  <2>1. rec' \in [Workers -> Recs] /\ phase' \in [Workers -> {"request", "answer", "run", "barrier", "failed", "done"}]
    BY <1>2, <1>3, <1>4 DEF TypeOK, Dispatch
  <2>2. QED
    BY <1>1, <1>2, <1>3, <2>1 DEF TypeOK
<1>6. WorkerStages'
  BY <1>1, <1>2, <1>3, <1>4 DEF WorkerStages
<1>7. StoppedCounted'
  <2>1. \A v \in Workers : IsStopped(v)' <=> IsStopped(v)
    BY <1>1, <1>3, <1>4 DEF IsStopped
  <2>2. {v \in Workers : IsStopped(v)}' = {v \in Workers : IsStopped(v)}
    BY <2>1
  <2>3. QED
    BY <1>2, <1>3, <2>2 DEF StoppedCounted
<1>8. ServerPlace'
  BY <1>1, <1>2, <1>3 DEF ServerPlace
<1>9. list[currup].rup \in Rups /\ list[currup].index = currup
      /\ (stage = CALC => list[currup].rup = currup)
      /\ (stage = WRITE => Item(currup) \in Slips)
  BY <1>1, <1>2, <1>3 DEF CalcList, WriteList, Rups
<1>10. Held'
  <2> SUFFICES ASSUME NEW v \in Workers, rec'[v] # NoRec
               PROVE  /\ wstage[v] = stage
                      /\ phase'[v] \in {"answer", "run", "request", "failed"}
                      /\ rec'[v].rup \in Rups
                      /\ rec'[v].index \in 0 .. currup
                      /\ phase'[v] = "request" => rec'[v].numslip = files[rec'[v].rup]
                      /\ stage = CALC => rec'[v].rup = rec'[v].index
                      /\ stage = WRITE /\ phase'[v] # "request"
                            => <<rec'[v].rup, rec'[v].numslip>> \in Slips
    BY <1>3, <1>4 DEF Held
  <2>1. CASE v = w
    <3>1. rec'[v] = list[currup] /\ wstage[v] = stage /\ phase'[v] \in {"answer", "run", "request", "failed"}
      BY <1>1, <1>3, <2>1
    <3>2. list[currup].numslip = files[list[currup].rup] \/ phase'[v] # "request"
      BY <1>3, <2>1
    <3>3. stage = WRITE => <<rec'[v].rup, rec'[v].numslip>> \in Slips
      BY <1>9, <3>1 DEF Item
    <3> QED BY <1>3, <1>9, <3>1, <3>2, <3>3
  <2>2. CASE v # w
    BY <1>2, <1>3, <2>2 DEF Held
  <2>3. QED
    BY <2>1, <2>2
<1>11. CalcList'
  <2> SUFFICES ASSUME stage = CALC, NEW k \in Rups
               PROVE  /\ list'[k].rup = k /\ list'[k].index = k
                      /\ k < currup + 1 => \/ list'[k].numslip = files[k] /\ files[k] > 0
                                           \/ \E v \in Workers : rec'[v] # NoRec /\ rec'[v].index = k
    BY <1>2, <1>3 DEF CalcList
  <2>1. k \in 0 .. num - 1 /\ list[k].rup = k /\ list[k].index = k
    BY <1>2 DEF CalcList, Rups
  <2>2. rec[w] # NoRec => rec[w].rup = rec[w].index
    BY <1>2 DEF Held
  <2>3. CASE rec[w] # NoRec /\ k = rec[w].index
    BY <1>1, <2>1, <2>2, <2>3
  <2>4. CASE rec[w] = NoRec \/ k # rec[w].index
    <3>1. list'[k] = list[k]
      BY <1>1, <2>1, <2>4
    <3>2. CASE k = currup
      BY <1>3, <1>4, <1>9, <2>1, <3>1, <3>2
    <3>3. CASE k < currup
      BY <1>2, <1>3, <2>1, <2>4, <3>1, <3>3 DEF CalcList
    <3>4. QED
      BY <1>3, <2>1, <3>1, <3>2, <3>3
  <2>5. QED
    BY <2>3, <2>4
<1>12. \A v \in Workers, p \in AllSlips :
          HoldsSlip(v, p)' <=> IF v = w THEN stage = WRITE /\ p = Item(currup) ELSE HoldsSlip(v, p)
  BY <1>1, <1>3, <1>4 DEF HoldsSlip, HasWork, Item
<1>13. \A p \in AllSlips : ~HoldsSlip(w, p)
  BY <1>3 DEF HoldsSlip, HasWork
<1>14. Slips \subseteq AllSlips
  BY <1>2, SlipsFinite DEF TypeOK
<1>15. EachSlipOnce'
  <2> SUFFICES ASSUME NEW v \in Workers, NEW p \in AllSlips, HoldsSlip(v, p)'
               PROVE  p \notin written /\ \A u \in Workers \ {v} : ~HoldsSlip(u, p)'
    BY <1>3 DEF EachSlipOnce
  <2>1. CASE v = w
    <3>1. stage = WRITE /\ p = Item(currup)
      BY <1>12, <2>1
    <3>2. p \notin written /\ \A u \in Workers : ~HoldsSlip(u, p)
      BY <1>2, <1>3, <3>1 DEF WriteList
    <3>3. QED
      BY <1>12, <2>1, <3>2
  <2>2. CASE v # w
    <3>1. HoldsSlip(v, p) /\ stage = WRITE
      BY <1>1, <1>2, <1>12, <2>2 DEF HoldsSlip, HasWork, Held
    <3>2. p # Item(currup)
      BY <1>2, <1>3, <3>1 DEF WriteList
    <3>3. QED
      BY <1>2, <1>12, <3>1, <3>2 DEF EachSlipOnce
  <2>3. QED
    BY <2>1, <2>2
<1>16. WriteList'
  <2> SUFFICES ASSUME stage = WRITE PROVE WriteList'
    BY <1>3 DEF WriteList
  <2>1. \A k \in currup .. num - 1 : Item(k)' = Item(k)
    BY <1>1 DEF Item
  <2>2. \A k \in 0 .. num - 1 : list'[k].rup \in Rups /\ list'[k].index = k
    BY <1>1, <1>2 DEF WriteList
  <2>3. ASSUME NEW k \in currup + 1 .. num - 1
        PROVE  /\ Item(k)' \in Slips
               /\ Item(k)' \notin written
               /\ \A v \in Workers : ~HoldsSlip(v, Item(k))'
               /\ \A j \in currup + 1 .. num - 1 : Item(j)' = Item(k)' => j = k
    <3>1. k \in currup .. num - 1 /\ Item(k) # Item(currup) /\ Item(k)' = Item(k)
      BY <1>2, <1>3, <2>1 DEF WriteList
    <3>2. \A j \in currup + 1 .. num - 1 : j \in currup .. num - 1 /\ Item(j)' = Item(j)
      BY <1>3, <2>1
    <3>3. /\ Item(k) \in Slips /\ Item(k) \in AllSlips
          /\ Item(k) \notin written
          /\ \A v \in Workers : ~HoldsSlip(v, Item(k))
          /\ \A j \in currup .. num - 1 : Item(j) = Item(k) => j = k
      BY <1>2, <1>14, <3>1 DEF WriteList
    <3>4. \A v \in Workers : ~HoldsSlip(v, Item(k))'
      BY <1>1, <1>3, <1>4, <3>1, <3>3 DEF HoldsSlip, HasWork, Item
    <3>5. QED
      BY <3>1, <3>2, <3>3, <3>4
  <2>4. ASSUME NEW p \in Slips
        PROVE  \/ p \in written
               \/ \E k \in currup + 1 .. num - 1 : Item(k)' = p
               \/ \E v \in Workers : HoldsSlip(v, p)'
    <3>1. CASE p \in written
      BY <3>1
    <3>2. CASE \E k \in currup .. num - 1 : Item(k) = p
      BY <1>3, <1>12, <1>14, <2>1, <3>2
    <3>3. CASE \E v \in Workers : HoldsSlip(v, p)
      BY <1>12, <1>13, <1>14, <3>3
    <3>4. QED
      BY <1>2, <3>1, <3>2, <3>3 DEF WriteList
  <2>5. QED
    BY <1>3, <1>4, <2>2, <2>3, <2>4 DEF WriteList
<1>17. WrittenKnown' /\ StatisticsComplete' /\ FilesAsListed'
  BY <1>2, <1>3, <1>4 DEF WrittenKnown, StatisticsComplete, FilesAsListed, ServerEntered
<1>18. QED
  BY <1>5, <1>6, <1>7, <1>8, <1>10, <1>11, <1>15, <1>16, <1>17 DEF IInv

(* A worker is stopped; its last result is in the list. *)
LEMMA StopWorkerStep == ASSUME IInv, NEW w \in Workers, StopWorker(w) PROVE IInv'
<1> USE RuptureServerAssumption, WorkersCard DEF CALC, WRITE, END
<1>1. /\ stage \in {CALC, WRITE}
      /\ wstage[w] = stage
      /\ list' \in [0 .. num - 1 -> Recs \ {NoRec}]
      /\ \A k \in currup .. num - 1 : list'[k] = list[k]
      /\ \A k \in 0 .. num - 1 :
            \/ list'[k] = list[k] /\ (rec[w] = NoRec \/ k # rec[w].index)
            \/ rec[w] # NoRec /\ k = rec[w].index /\ list'[k] = rec[w]
      /\ rec[w] # NoRec => /\ rec[w].numslip = files[rec[w].rup] /\ rec[w].numslip > 0
                           /\ rec[w].rup \in Rups /\ rec[w].index \in 0 .. currup - 1
  BY Served DEF StopWorker
<1>2. /\ TypeOK /\ WorkerStages /\ StoppedCounted /\ ServerPlace /\ Held /\ CalcList
      /\ WriteList /\ WrittenKnown /\ EachSlipOnce /\ StatisticsComplete /\ FilesAsListed
  BY DEF IInv
<1>3. /\ UNCHANGED <<files, stage, num, currup, wstage, listed, written>>
      /\ phase[w] = "request" /\ phase'[w] = "answer"
      /\ \A v \in Workers \ {w} : phase'[v] = phase[v] /\ rec'[v] = rec[v]
      /\ rec'[w] = NoRec
      /\ spc = "stop" /\ spc' = IF stopped' = Cardinality(Workers) THEN "lists" ELSE "stop"
      /\ currup = num /\ num \in Nat
      /\ stopped \in Nat /\ stopped < Cardinality(Workers) /\ stopped' = stopped + 1
      /\ Slips' = Slips
  BY <1>2, SlipsUnchanged DEF StopWorker, TypeOK, ServerPlace
<1>4. TypeOK'
  <2>1. /\ rec' \in [Workers -> Recs]
        /\ phase' \in [Workers -> {"request", "answer", "run", "barrier", "failed", "done"}]
    BY <1>2 DEF TypeOK, StopWorker, Recs
  <2>2. QED
    BY <1>1, <1>2, <1>3, <2>1 DEF TypeOK
<1>5. WorkerStages'
  BY <1>1, <1>2, <1>3 DEF WorkerStages
<1>6. StoppedCounted'
  <2> DEFINE S == {v \in Workers : IsStopped(v)}
  <2>1. \A v \in Workers : IsStopped(v)' <=> v = w \/ IsStopped(v)
    BY <1>1, <1>3 DEF IsStopped
  <2>2. S' = S \cup {w}
    BY <2>1
  <2>3. w \notin S
    BY <1>1, <1>3 DEF IsStopped
  <2>4. IsFiniteSet(S) /\ stopped = Cardinality(S)
    BY <1>1, <1>2, FS_Subset DEF StoppedCounted
  <2> HIDE DEF S
  <2>5. Cardinality(S') = Cardinality(S) + 1
    BY <2>2, <2>3, <2>4, FS_AddElement
  <2>6. stopped' = Cardinality(S')
    BY <1>3, <2>4, <2>5
  <2>7. QED
    BY <2>6 DEF StoppedCounted, S
<1>7. ServerPlace'
  BY <1>1, <1>2, <1>3 DEF ServerPlace
<1>8. Held'
  <2> SUFFICES ASSUME NEW v \in Workers, rec'[v] # NoRec
               PROVE  /\ wstage[v] = stage
                      /\ phase'[v] \in {"answer", "run", "request", "failed"}
                      /\ rec'[v].rup \in Rups
                      /\ rec'[v].index \in 0 .. currup - 1
                      /\ phase'[v] = "request" => rec'[v].numslip = files[rec'[v].rup]
                      /\ stage = CALC => rec'[v].rup = rec'[v].index
                      /\ stage = WRITE /\ phase'[v] # "request"
                            => <<rec'[v].rup, rec'[v].numslip>> \in Slips
    BY <1>3 DEF Held
  <2>1. v # w
    BY <1>3
  <2>2. QED
    BY <1>2, <1>3, <2>1 DEF Held
<1>9. CalcList'
  <2> SUFFICES ASSUME stage = CALC, NEW k \in Rups
               PROVE  /\ list'[k].rup = k /\ list'[k].index = k
                      /\ k < currup => \/ list'[k].numslip = files[k] /\ files[k] > 0
                                       \/ \E v \in Workers : rec'[v] # NoRec /\ rec'[v].index = k
    BY <1>2, <1>3 DEF CalcList
  <2>1. k \in 0 .. num - 1 /\ list[k].rup = k /\ list[k].index = k
    BY <1>2 DEF CalcList, Rups
  <2>2. CASE rec[w] # NoRec /\ k = rec[w].index
    BY <1>1, <1>2, <2>1, <2>2 DEF Held
  <2>3. CASE rec[w] = NoRec \/ k # rec[w].index
    <3>1. list'[k] = list[k]
      BY <1>1, <2>1, <2>3
    <3>2. QED
      BY <1>2, <1>3, <2>1, <2>3, <3>1 DEF CalcList
  <2>4. QED
    BY <2>2, <2>3
<1>10. \A v \in Workers, p \in AllSlips : HoldsSlip(v, p)' <=> HoldsSlip(v, p)
  BY <1>1, <1>3 DEF HoldsSlip, HasWork
<1>11. EachSlipOnce'
  BY <1>2, <1>3, <1>10 DEF EachSlipOnce
<1>12. WriteList'
  <2> SUFFICES ASSUME stage = WRITE PROVE WriteList'
    BY <1>3 DEF WriteList
  <2>1. \A k \in 0 .. num - 1 : list'[k].rup \in Rups /\ list'[k].index = k
    BY <1>1, <1>2 DEF WriteList
  <2>2. currup .. num - 1 = {} /\ (currup .. num - 1)' = {}
    BY <1>3
  <2>3. \A p \in Slips : p \in written \/ \E v \in Workers : HoldsSlip(v, p)'
    BY <1>2, <1>10, <2>2, SlipsFinite DEF WriteList, TypeOK
  <2>4. QED
    BY <1>3, <2>1, <2>2, <2>3 DEF WriteList
<1>13. WrittenKnown' /\ StatisticsComplete' /\ FilesAsListed'
  BY <1>2, <1>3 DEF WrittenKnown, StatisticsComplete, FilesAsListed, ServerEntered
<1>14. QED
  BY <1>4, <1>5, <1>6, <1>7, <1>8, <1>9, <1>11, <1>12, <1>13 DEF IInv

(* The server gives up. *)
LEMMA RejectStep == ASSUME IInv, NEW w \in Workers, Reject(w) PROVE IInv'
<1> USE DEF CALC, WRITE, END
<1>1. /\ TypeOK /\ WorkerStages /\ StoppedCounted /\ ServerPlace /\ Held /\ CalcList
      /\ WriteList /\ WrittenKnown /\ EachSlipOnce /\ StatisticsComplete /\ FilesAsListed
  BY DEF IInv
<1>2. /\ UNCHANGED <<files, stage, list, num, currup, stopped, wstage, phase, rec, listed, written>>
      /\ spc \in {"dispatch", "stop"} /\ spc' = "failed"
      /\ Slips' = Slips
  BY SlipsUnchanged DEF Reject
<1>3. TypeOK' /\ WorkerStages' /\ ServerPlace' /\ Held' /\ CalcList' /\ WrittenKnown'
  BY <1>1, <1>2 DEF TypeOK, WorkerStages, ServerPlace, Held, CalcList, WrittenKnown
<1>4. StoppedCounted'
  BY <1>1, <1>2 DEF StoppedCounted, IsStopped
<1>6. WriteList' /\ EachSlipOnce'
  BY <1>1, <1>2 DEF WriteList, EachSlipOnce, HoldsSlip, HasWork, Item
<1>7. StatisticsComplete' /\ FilesAsListed'
  BY <1>1, <1>2 DEF StatisticsComplete, FilesAsListed, ServerEntered
<1>8. QED
  BY <1>3, <1>4, <1>6, <1>7 DEF IInv

(* Every worker is stopped, so every rupture's count is in the list, and     *)
(* in stage WRITE every slip has been generated.                             *)
LEMMA SaveListsStep == ASSUME IInv, SaveLists PROVE IInv'
<1> USE RuptureServerAssumption DEF CALC, WRITE, END
<1>1. /\ TypeOK /\ WorkerStages /\ StoppedCounted /\ ServerPlace /\ Held /\ CalcList
      /\ WriteList /\ WrittenKnown /\ EachSlipOnce /\ StatisticsComplete /\ FilesAsListed
  BY DEF IInv
<1>2. /\ UNCHANGED <<files, stage, list, num, currup, stopped, wstage, phase, rec, written>>
      /\ spc = "lists" /\ spc' = "barrier"
      /\ currup = num /\ num \in Nat
      /\ Slips' = Slips
      /\ stage \in {CALC, WRITE}
  BY <1>1, SlipsUnchanged DEF SaveLists, TypeOK, ServerPlace
<1>3. \A w \in Workers : IsStopped(w) /\ rec[w] = NoRec
  BY <1>2, AllStopped
<1>4. IsFiniteSet(Slips) /\ Slips \subseteq AllSlips
  BY <1>1, SlipsFinite DEF TypeOK
<1>5. stage = CALC => listed' = Slips /\ \A r \in Rups : files[r] > 0
  <2> SUFFICES ASSUME stage = CALC PROVE listed' = Slips /\ \A r \in Rups : files[r] > 0
    OBVIOUS
  <2>1. \A r \in Rups : list[r].numslip = files[r] /\ files[r] > 0
    BY <1>1, <1>2, <1>3 DEF CalcList, Rups
  <2>2. listed' = SlipsOf([r \in Rups |-> list[r].numslip])
    BY DEF SaveLists
  <2>3. QED
    BY <2>1, <2>2 DEF Slips, SlipsOf
<1>6. stage = WRITE => listed' = listed /\ listed = Slips /\ written = Slips
  <2> SUFFICES ASSUME stage = WRITE PROVE listed' = listed /\ listed = Slips /\ written = Slips
    OBVIOUS
  <2>1. listed' = listed /\ listed = Slips
    BY <1>1 DEF SaveLists, StatisticsComplete, ServerEntered
  <2>2. \A w \in Workers, p \in Slips : ~HoldsSlip(w, p)
    BY <1>3 DEF HoldsSlip, HasWork
  <2>3. Slips \subseteq written
    BY <1>1, <1>2, <2>2 DEF WriteList
  <2>4. QED
    BY <1>1, <2>1, <2>3 DEF WrittenKnown
<1>7. TypeOK'
  BY <1>1, <1>2, <1>4, <1>5, <1>6 DEF TypeOK
<1>8. WorkerStages' /\ ServerPlace' /\ Held' /\ CalcList' /\ WrittenKnown'
  BY <1>1, <1>2 DEF WorkerStages, ServerPlace, Held, CalcList, WrittenKnown
<1>9. StoppedCounted'
  BY <1>1, <1>2 DEF StoppedCounted, IsStopped
<1>10. WriteList' /\ EachSlipOnce'
  BY <1>1, <1>2 DEF WriteList, EachSlipOnce, HoldsSlip, HasWork, Item
<1>11. StatisticsComplete'
  BY <1>1, <1>2, <1>5, <1>6 DEF StatisticsComplete, ServerEntered
<1>12. FilesAsListed'
  BY <1>2, <1>6 DEF FilesAsListed, ServerEntered
<1>13. QED
  BY <1>7, <1>8, <1>9, <1>10, <1>11, <1>12 DEF IInv

(* The list of stage WRITE: every slip in one record. *)
LEMMA ServerNextStageStep == ASSUME IInv, ServerNextStage PROVE IInv'
<1> USE RuptureServerAssumption, WorkersCard DEF CALC, WRITE, END
<1>1. /\ TypeOK /\ WorkerStages /\ StoppedCounted /\ ServerPlace /\ Held /\ CalcList
      /\ WriteList /\ WrittenKnown /\ EachSlipOnce /\ StatisticsComplete /\ FilesAsListed
  BY DEF IInv
<1>2. /\ UNCHANGED <<files, wstage, phase, rec, listed, written>>
      /\ spc = "barrier" /\ stage \in {CALC, WRITE} /\ stage' = stage + 1
      /\ BarrierOpen(stage)
      /\ Slips' = Slips
  BY <1>1, SlipsUnchanged DEF ServerNextStage, TypeOK
<1>3. \A w \in Workers : rec[w] = NoRec
  BY <1>2, AllStopped
<1>4. IsFiniteSet(Slips) /\ Slips \subseteq AllSlips
  BY <1>1, SlipsFinite DEF TypeOK
<1>5. \A w \in Workers : wstage[w] > stage \/ (wstage[w] = stage /\ phase[w] = "barrier")
  BY <1>2 DEF BarrierOpen, WorkerEntered
<1>6. listed = Slips /\ \A r \in Rups : files[r] > 0
  BY <1>1, <1>2 DEF StatisticsComplete, ServerEntered
<1>7. WorkerStages'
  <2> SUFFICES ASSUME NEW w \in Workers
               PROVE  /\ wstage[w] = END <=> phase[w] = "done"
                      /\ phase[w] \in {"barrier", "done"} => rec[w] = NoRec
                      /\ phase[w] \in {"run", "failed"} => rec[w] # NoRec
                      /\ wstage[w] = stage + 1 \/ (wstage[w] = stage /\ phase[w] = "barrier")
    BY <1>2 DEF WorkerStages
  <2>1. QED
    BY <1>1, <1>2, <1>5 DEF WorkerStages
<1>8. Held' /\ WrittenKnown'
  BY <1>1, <1>2, <1>3 DEF Held, WrittenKnown
<1>9. \A w \in Workers, p \in AllSlips : ~HoldsSlip(w, p)'
  BY <1>2, <1>3 DEF HoldsSlip, HasWork
<1>10. EachSlipOnce'
  BY <1>9 DEF EachSlipOnce
<1>11. StatisticsComplete'
  BY <1>2, <1>6 DEF StatisticsComplete
<1>12. CASE stage = CALC
  <2>1. PICK f \in Sorted(listed) : list' = [k \in DOMAIN f |-> RupVar(k, f[k])]
    BY <1>2, <1>12 DEF ServerNextStage
  <2>2. /\ num' = Cardinality(listed) /\ spc' = "dispatch" /\ currup' = 0 /\ stopped' = 0
        /\ stage' = WRITE
    BY <1>2, <1>12 DEF ServerNextStage
  <2>3. num' \in Nat \ {0}
    <3>1. 0 \in Rups /\ files[0] \in Int /\ files[0] > 0
      <4>1. 0 \in Rups
        BY DEF Rups
      <4>2. files[0] \in Results
        BY <1>1, <4>1 DEF TypeOK
      <4>3. QED
        BY <1>6, <4>1, <4>2, ResultsInt
    <3>2. <<0, 0>> \in Slips
      BY <3>1 DEF Slips, SlipsOf
    <3>3. QED
      BY <1>4, <1>6, <2>2, <3>2, FS_CardinalityType, FS_EmptySet
  <2>4. /\ f \in [0 .. num' - 1 -> Slips]
        /\ \A j, k \in 0 .. num' - 1 : f[j] = f[k] => j = k
        /\ \A p \in Slips : \E k \in 0 .. num' - 1 : f[k] = p
    BY <1>6, <2>2 DEF Sorted, Bijection, Injection, IsInjective, Surjection
  <2>5. \A p \in Slips : p = <<p[1], p[2]>> /\ p[1] \in Rups /\ p[2] \in Int
    BY <1>1, ResultsInt DEF Slips, SlipsOf, TypeOK
  <2>6. \A k \in 0 .. num' - 1 : /\ list'[k] = Rec(f[k][1], f[k][2], k)
                                 /\ list'[k].rup \in Rups /\ list'[k].index = k
                                 /\ Item(k)' = f[k]
    BY <2>1, <2>4, <2>5 DEF RupVar, Rec, Item
  <2>7. list' \in [0 .. num' - 1 -> Recs \ {NoRec}]
    <3>1. \A k \in 0 .. num' - 1 : RupVar(k, f[k]) \in Recs \ {NoRec}
      BY <2>3, <2>4, <2>5 DEF RupVar, Rec, Recs, NoRec, Rups
    <3>2. QED
      BY <2>1, <2>4, <3>1
  <2>8. TypeOK'
    BY <1>1, <1>2, <2>2, <2>3, <2>7 DEF TypeOK
  <2>9. StoppedCounted'
    <3>1. ASSUME NEW w \in Workers PROVE ~IsStopped(w)'
      <4>1. wstage[w] = 1 \/ (wstage[w] = 2 /\ phase[w] = "request")
        BY <1>1, <1>2, <1>5, <1>12 DEF WorkerStages
      <4>2. QED
        BY <1>2, <2>2, <4>1 DEF IsStopped
    <3>2. {w \in Workers : IsStopped(w)}' = {}
      BY <3>1
    <3>3. QED
      BY <2>2, <3>2, FS_EmptySet DEF StoppedCounted
  <2>10. ServerPlace' /\ CalcList' /\ FilesAsListed'
    BY <2>2, <2>3 DEF ServerPlace, CalcList, FilesAsListed, ServerEntered
  <2>11. WriteList'
    <3>1. written' = {} /\ currup' = 0
      BY <1>1, <1>2, <1>12, <2>2 DEF CalcList
    <3>2. \A k \in 0 .. num' - 1 :
             /\ Item(k)' \in Slips
             /\ \A w \in Workers : ~HoldsSlip(w, Item(k))'
             /\ \A j \in 0 .. num' - 1 : Item(j)' = Item(k)' => j = k
      BY <1>2, <1>3, <2>4, <2>6 DEF HoldsSlip, HasWork
    <3>3. \A p \in Slips : \E k \in 0 .. num' - 1 : Item(k)' = p
      BY <2>4, <2>6
    <3>4. QED
      BY <1>2, <2>6, <3>1, <3>2, <3>3 DEF WriteList
  <2>12. QED
    BY <1>7, <1>8, <1>10, <1>11, <2>8, <2>9, <2>10, <2>11 DEF IInv
<1>13. CASE stage = WRITE
  <2>1. UNCHANGED <<list, num, currup, stopped>> /\ spc' = "done" /\ stage' = END
    BY <1>2, <1>13 DEF ServerNextStage
  <2>2. TypeOK'
    BY <1>1, <1>2, <2>1 DEF TypeOK
  <2>3. StoppedCounted' /\ ServerPlace' /\ CalcList' /\ WriteList'
    BY <1>1, <1>2, <2>1 DEF StoppedCounted, ServerPlace, CalcList, WriteList
  <2>4. FilesAsListed'
    BY <1>1, <1>2, <1>13, <2>1 DEF FilesAsListed, ServerEntered
  <2>5. QED
    BY <1>7, <1>8, <1>10, <1>11, <2>2, <2>3, <2>4 DEF IInv
<1>14. QED
  BY <1>2, <1>12, <1>13
-----------------------------------------------------------------------------
LEMMA ReceiveStep == ASSUME IInv, NEW w \in Workers, Receive(w) PROVE IInv'
<1> USE DEF CALC, WRITE, END
<1>1. /\ TypeOK /\ WorkerStages /\ StoppedCounted /\ ServerPlace /\ Held /\ CalcList
      /\ WriteList /\ WrittenKnown /\ EachSlipOnce /\ StatisticsComplete /\ FilesAsListed
  BY DEF IInv
<1>2. /\ UNCHANGED <<files, stage, spc, list, num, currup, stopped, wstage, rec, listed, written>>
      /\ phase[w] = "answer"
      /\ \A v \in Workers \ {w} : phase'[v] = phase[v]
      /\ Slips' = Slips
  BY <1>1, SlipsUnchanged DEF Receive, serverVars, TypeOK
<1>3. \/ rec[w] = NoRec /\ phase'[w] = "barrier"
      \/ rec[w] # NoRec /\ files[rec[w].rup] = Missing /\ phase'[w] = "failed"
      \/ rec[w] # NoRec /\ phase'[w] = "run"
  BY <1>1 DEF Receive, TypeOK
<1>4. wstage[w] = stage
  BY <1>1, <1>2 DEF WorkerStages
<1>5. stage = WRITE => phase'[w] # "failed"
  <2>1. stage = WRITE => \A r \in Rups : files[r] > 0
    BY <1>1 DEF StatisticsComplete, ServerEntered
  <2>2. rec[w] # NoRec => rec[w].rup \in Rups
    BY <1>1 DEF Held
  <2>3. QED
    BY <1>3, <2>1, <2>2 DEF Missing
<1>6. TypeOK'
  <2>1. phase' \in [Workers -> {"request", "answer", "run", "barrier", "failed", "done"}]
    BY <1>1 DEF TypeOK, Receive
  <2>2. QED
    BY <1>1, <1>2, <2>1 DEF TypeOK
<1>7. WorkerStages'
  BY <1>1, <1>2, <1>3, <1>4 DEF WorkerStages
<1>8. StoppedCounted'
  <2>1. \A v \in Workers : IsStopped(v)' <=> IsStopped(v)
    BY <1>2, <1>3, <1>4 DEF IsStopped
  <2>2. {v \in Workers : IsStopped(v)}' = {v \in Workers : IsStopped(v)}
    BY <2>1
  <2>3. QED
    BY <1>1, <1>2, <2>2 DEF StoppedCounted
<1>9. ServerPlace' /\ CalcList' /\ WrittenKnown'
  BY <1>1, <1>2 DEF ServerPlace, CalcList, WrittenKnown
<1>10. Held'
  BY <1>1, <1>2, <1>3, <1>4 DEF Held
<1>11. \A v \in Workers : (HasWork(v) /\ wstage[v] = WRITE)' <=> HasWork(v) /\ wstage[v] = WRITE
  BY <1>2, <1>3, <1>4, <1>5 DEF HasWork
<1>12. \A v \in Workers, p \in AllSlips : HoldsSlip(v, p)' <=> HoldsSlip(v, p)
  BY <1>2, <1>11 DEF HoldsSlip
<1>13. EachSlipOnce'
  BY <1>1, <1>2, <1>12 DEF EachSlipOnce
<1>14. WriteList'
  <2>1. Slips \subseteq AllSlips
    BY <1>1, SlipsFinite DEF TypeOK
  <2>2. \A k : Item(k)' = Item(k)
    BY <1>2 DEF Item
  <2>3. \A k \in currup .. num - 1, v \in Workers :
           stage = WRITE => ~HoldsSlip(v, Item(k))'
    BY <1>1, <1>2, <1>11 DEF WriteList, HoldsSlip, Item
  <2>4. QED
    BY <1>1, <1>2, <1>12, <2>1, <2>2, <2>3 DEF WriteList
<1>15. StatisticsComplete' /\ FilesAsListed'
  BY <1>1, <1>2 DEF StatisticsComplete, FilesAsListed, ServerEntered
<1>16. QED
  BY <1>6, <1>7, <1>8, <1>9, <1>10, <1>13, <1>14, <1>15 DEF IInv

(* A run ends: in stage CALC the worker has the count, in stage WRITE the    *)
(* slip is written.                                                          *)
LEMMA GenerateStep == ASSUME IInv, NEW w \in Workers, Generate(w) PROVE IInv'
<1> USE DEF CALC, WRITE, END
<1>1. /\ TypeOK /\ WorkerStages /\ StoppedCounted /\ ServerPlace /\ Held /\ CalcList
      /\ WriteList /\ WrittenKnown /\ EachSlipOnce /\ StatisticsComplete /\ FilesAsListed
  BY DEF IInv
<1> DEFINE done == <<rec[w].rup, rec[w].numslip>>
<1>2. /\ UNCHANGED <<files, stage, spc, list, num, currup, stopped, wstage, listed>>
      /\ phase[w] = "run" /\ phase'[w] = "request"
      /\ \A v \in Workers \ {w} : phase'[v] = phase[v] /\ rec'[v] = rec[v]
      /\ written' = IF stage = WRITE THEN written \cup {done} ELSE written
      /\ Slips' = Slips
      /\ wstage[w] = stage
      /\ rec[w] # NoRec /\ rec[w].rup \in Rups /\ rec[w].index \in 0 .. currup - 1
  BY <1>1, SlipsUnchanged DEF Generate, serverVars, TypeOK, WorkerStages, Held
<1>3. /\ rec[w] \in [rup : Rups, numslip : Int, index : Nat]
      /\ files[rec[w].rup] \in Int
  BY <1>1, <1>2, ResultsInt DEF TypeOK, Recs
<1>4. rec'[w] = [rec[w] EXCEPT !.numslip = files[rec[w].rup]]
  BY <1>1 DEF Generate, TypeOK
<1>5. /\ rec'[w] \in Recs /\ rec'[w] # NoRec
      /\ rec'[w].rup = rec[w].rup /\ rec'[w].index = rec[w].index
      /\ rec'[w].numslip = files[rec[w].rup]
  BY <1>2, <1>3, <1>4 DEF Recs, NoRec, Rec, Rups
<1>6. Slips \subseteq AllSlips
  BY <1>1, SlipsFinite DEF TypeOK
<1>7. stage = WRITE => done \in Slips /\ HoldsSlip(w, done)
  BY <1>1, <1>2 DEF Held, HoldsSlip, HasWork
<1>8. TypeOK'
  <2>1. /\ rec' \in [Workers -> Recs]
        /\ phase' \in [Workers -> {"request", "answer", "run", "barrier", "failed", "done"}]
    BY <1>1, <1>4, <1>5 DEF TypeOK, Generate
  <2>2. written' \subseteq AllSlips
    BY <1>1, <1>2, <1>6, <1>7 DEF TypeOK
  <2>3. QED
    BY <1>1, <1>2, <2>1, <2>2 DEF TypeOK
<1>9. WorkerStages'
  BY <1>1, <1>2, <1>5 DEF WorkerStages
<1>10. StoppedCounted'
  <2>1. \A v \in Workers : IsStopped(v)' <=> IsStopped(v)
    BY <1>2, <1>5 DEF IsStopped
  <2>2. {v \in Workers : IsStopped(v)}' = {v \in Workers : IsStopped(v)}
    BY <2>1
  <2>3. QED
    BY <1>1, <1>2, <2>2 DEF StoppedCounted
<1>11. ServerPlace'
  BY <1>1, <1>2 DEF ServerPlace
<1>12. Held'
  <2> SUFFICES ASSUME NEW v \in Workers, rec'[v] # NoRec
               PROVE  /\ wstage[v] = stage
                      /\ phase'[v] \in {"answer", "run", "request", "failed"}
                      /\ rec'[v].rup \in Rups
                      /\ rec'[v].index \in 0 .. currup - 1
                      /\ phase'[v] = "request" => rec'[v].numslip = files[rec'[v].rup]
                      /\ stage = CALC => rec'[v].rup = rec'[v].index
                      /\ stage = WRITE /\ phase'[v] # "request"
                            => <<rec'[v].rup, rec'[v].numslip>> \in Slips
    BY <1>2 DEF Held
  <2>1. CASE v = w
    BY <1>1, <1>2, <1>5, <2>1 DEF Held
  <2>2. CASE v # w
    BY <1>1, <1>2, <2>2 DEF Held
  <2>3. QED
    BY <2>1, <2>2
<1>13. CalcList'
  <2> SUFFICES ASSUME stage = CALC, NEW k \in Rups, k < currup
               PROVE  \/ list[k].numslip = files[k] /\ files[k] > 0
                      \/ \E v \in Workers : rec'[v] # NoRec /\ rec'[v].index = k
    BY <1>1, <1>2 DEF CalcList
  <2>1. \A v \in Workers : rec[v] # NoRec => rec'[v] # NoRec /\ rec'[v].index = rec[v].index
    BY <1>2, <1>5
  <2>2. QED
    BY <1>1, <2>1 DEF CalcList
<1>14. \A v \in Workers : (HasWork(v) /\ wstage[v] = WRITE)'
                             <=> v # w /\ HasWork(v) /\ wstage[v] = WRITE
  BY <1>2 DEF HasWork
<1>15. \A v \in Workers, p \in AllSlips : HoldsSlip(v, p)' <=> v # w /\ HoldsSlip(v, p)
  BY <1>2, <1>14 DEF HoldsSlip
<1>16. EachSlipOnce'
  <2> SUFFICES ASSUME NEW v \in Workers, NEW p \in AllSlips, v # w, HoldsSlip(v, p)
               PROVE  p \notin written' /\ \A u \in Workers \ {v} : ~HoldsSlip(u, p)'
    BY <1>15 DEF EachSlipOnce
  <2>1. p \notin written /\ \A u \in Workers \ {v} : ~HoldsSlip(u, p)
    BY <1>1 DEF EachSlipOnce
  <2>2. stage = WRITE => p # done
    BY <1>7, <2>1
  <2>3. QED
    BY <1>2, <1>15, <2>1, <2>2
<1>17. WriteList'
  <2> SUFFICES ASSUME stage = WRITE PROVE WriteList'
    BY <1>2 DEF WriteList
  <2>1. \A k : Item(k)' = Item(k)
    BY <1>2 DEF Item
  <2>2. ASSUME NEW k \in currup .. num - 1
        PROVE  Item(k) \notin written' /\ \A v \in Workers : ~HoldsSlip(v, Item(k))'
    <3>1. Item(k) \in Slips /\ Item(k) \notin written /\ \A v \in Workers : ~HoldsSlip(v, Item(k))
      BY <1>1 DEF WriteList
    <3>2. Item(k) # done
      BY <1>7, <3>1
    <3>3. \A v \in Workers : ~HoldsSlip(v, Item(k))'
      BY <1>2, <1>14, <3>1 DEF HoldsSlip, Item
    <3>4. QED
      BY <1>2, <3>1, <3>2, <3>3
  <2>3. \A p \in Slips : \/ p \in written'
                         \/ \E k \in currup .. num - 1 : Item(k) = p
                         \/ \E v \in Workers : HoldsSlip(v, p)'
    <3> SUFFICES ASSUME NEW p \in Slips, p \notin written,
                        NEW v \in Workers, HoldsSlip(v, p)
                 PROVE  p \in written' \/ HoldsSlip(v, p)'
      BY <1>1, <1>2 DEF WriteList
    <3>1. v = w => p = done
      BY DEF HoldsSlip
    <3>2. QED
      BY <1>2, <1>6, <1>15, <3>1
  <2>4. QED
    BY <1>1, <1>2, <2>1, <2>2, <2>3 DEF WriteList
<1>18. WrittenKnown'
  BY <1>1, <1>2, <1>7 DEF WrittenKnown
<1>19. StatisticsComplete'
  BY <1>1, <1>2 DEF StatisticsComplete, ServerEntered
<1>20. FilesAsListed'
  <2>1. spc # "barrier" /\ stage # END
    BY <1>1, <1>2, AllStopped DEF WorkerStages
  <2>2. QED
    BY <1>1, <1>2, <2>1 DEF FilesAsListed, ServerEntered, TypeOK
<1>21. QED
  BY <1>8, <1>9, <1>10, <1>11, <1>12, <1>13, <1>16, <1>17, <1>18, <1>19, <1>20 DEF IInv

LEMMA WorkerNextStageStep == ASSUME IInv, NEW w \in Workers, WorkerNextStage(w) PROVE IInv'
<1> USE DEF CALC, WRITE, END
<1>1. /\ TypeOK /\ WorkerStages /\ StoppedCounted /\ ServerPlace /\ Held /\ CalcList
      /\ WriteList /\ WrittenKnown /\ EachSlipOnce /\ StatisticsComplete /\ FilesAsListed
  BY DEF IInv
<1>2. /\ UNCHANGED <<files, stage, spc, list, num, currup, stopped, rec, listed, written>>
      /\ phase[w] = "barrier"
      /\ wstage[w] \in {CALC, WRITE}
      /\ phase'[w] = IF wstage[w] = CALC THEN "request" ELSE "done"
      /\ wstage'[w] = wstage[w] + 1
      /\ \A v \in Workers \ {w} : phase'[v] = phase[v] /\ wstage'[v] = wstage[v]
      /\ ServerEntered(wstage[w])
      /\ rec[w] = NoRec
      /\ Slips' = Slips
  BY <1>1, SlipsUnchanged DEF WorkerNextStage, BarrierOpen, serverVars, TypeOK, WorkerStages
<1>3. TypeOK'
  <2>1. /\ wstage' \in [Workers -> {CALC, WRITE, END}]
        /\ phase' \in [Workers -> {"request", "answer", "run", "barrier", "failed", "done"}]
    BY <1>1, <1>2 DEF TypeOK, WorkerNextStage
  <2>2. QED
    BY <1>1, <1>2, <2>1 DEF TypeOK
<1>4. \/ wstage[w] = stage /\ spc = "barrier" /\ stage # END
      \/ wstage[w] = stage - 1
  BY <1>1, <1>2 DEF WorkerStages, ServerEntered, TypeOK
<1>5. WorkerStages'
  <2> SUFFICES ASSUME NEW v \in Workers
               PROVE  /\ wstage'[v] = END <=> phase'[v] = "done"
                      /\ phase'[v] \in {"barrier", "done"} => rec[v] = NoRec
                      /\ phase'[v] \in {"run", "failed"} => rec[v] # NoRec
                      /\ \/ wstage'[v] = stage
                         \/ wstage'[v] = stage - 1 /\ phase'[v] = "barrier"
                         \/ /\ wstage'[v] = stage + 1 /\ spc = "barrier"
                            /\ phase'[v] \in {"request", "done"} /\ rec[v] = NoRec
    BY <1>2 DEF WorkerStages
  <2>1. CASE v = w
    BY <1>1, <1>2, <1>4, <2>1 DEF TypeOK
  <2>2. CASE v # w
    BY <1>1, <1>2, <2>2 DEF WorkerStages
  <2>3. QED
    BY <2>1, <2>2
<1>6. StoppedCounted'
  <2> SUFFICES ASSUME stage # END PROVE StoppedCounted'
    BY <1>2 DEF StoppedCounted
  <2>1. \A v \in Workers : IsStopped(v)' <=> IsStopped(v)
    <3> SUFFICES ASSUME NEW v \in Workers PROVE IsStopped(v)' <=> IsStopped(v)
      OBVIOUS
    <3>1. CASE v = w
      BY <1>1, <1>2, <1>4, <3>1 DEF IsStopped, TypeOK
    <3>2. CASE v # w
      BY <1>2, <3>2 DEF IsStopped
    <3>3. QED
      BY <3>1, <3>2
  <2>2. {v \in Workers : IsStopped(v)}' = {v \in Workers : IsStopped(v)}
    BY <2>1
  <2>3. QED
    BY <1>1, <1>2, <2>2 DEF StoppedCounted
<1>7. ServerPlace' /\ CalcList' /\ WrittenKnown'
  BY <1>1, <1>2 DEF ServerPlace, CalcList, WrittenKnown
<1>8. Held'
  BY <1>1, <1>2 DEF Held
<1>9. \A v \in Workers : (HasWork(v) /\ wstage[v] = WRITE)' <=> HasWork(v) /\ wstage[v] = WRITE
  BY <1>2 DEF HasWork
<1>10. EachSlipOnce'
  BY <1>1, <1>2, <1>9 DEF EachSlipOnce, HoldsSlip
<1>11. WriteList'
  BY <1>1, <1>2, <1>9 DEF WriteList, HoldsSlip, Item
<1>12. StatisticsComplete' /\ FilesAsListed'
  BY <1>1, <1>2 DEF StatisticsComplete, FilesAsListed, ServerEntered
<1>13. QED
  BY <1>3, <1>5, <1>6, <1>7, <1>8, <1>10, <1>11, <1>12 DEF IInv

LEMMA StepInvariant == IInv /\ [Next]_vars => IInv'
<1> SUFFICES ASSUME IInv, [Next]_vars PROVE IInv'
  OBVIOUS
<1>1. CASE Next
  <2>1. CASE Server
    BY <2>1, DispatchStep, StopWorkerStep, RejectStep, SaveListsStep, ServerNextStageStep
    DEF Server
  <2>2. CASE \E w \in Workers : Worker(w)
    BY <2>2, ReceiveStep, GenerateStep, WorkerNextStageStep DEF Worker
  <2>3. QED
    BY <1>1, <2>1, <2>2 DEF Next
<1>2. CASE UNCHANGED vars
  BY <1>2 DEF vars, serverVars, IInv, TypeOK, WorkerStages, StoppedCounted, IsStopped,
     ServerPlace, Held, CalcList, WriteList, WrittenKnown, EachSlipOnce, StatisticsComplete,
     FilesAsListed, HoldsSlip, HasWork, ServerEntered, Item, Slips, SlipsOf
<1>3. QED
  BY <1>1, <1>2

(* The invariant holds in every interleaving of server and workers, through  *)
(* both stages.                                                              *)
THEOREM Invariant == SafeSpec => []IInv
<1>1. Init => IInv
  BY InitInvariant
<1>2. IInv /\ [Next]_vars => IInv'
  BY StepInvariant
<1>3. QED
  BY <1>1, <1>2, PTL DEF SafeSpec

(* The server's tables and the workers' records have their types. *)
THEOREM TypeCorrect == Spec => []TypeOK
<1>1. IInv => TypeOK
  BY DEF IInv
<1>2. QED
  BY <1>1, Invariant, PTL DEF Spec

(* No slip is generated twice: its files are written by one worker, once.    *)
THEOREM SlipsOnce == Spec => []EachSlipOnce
<1>1. IInv => EachSlipOnce
  BY DEF IInv
<1>2. QED
  BY <1>1, Invariant, PTL DEF Spec

(* rls.list is made from the results of all ruptures.                        *)
THEOREM ListsComplete == Spec => []StatisticsComplete
<1>1. IInv => StatisticsComplete
  BY DEF IInv
<1>2. QED
  BY <1>1, Invariant, PTL DEF Spec

(* The files there are at the end are those of rls.list.                     *)
THEOREM AsListed == Spec => []FilesAsListed
<1>1. IInv => FilesAsListed
  BY DEF IInv
<1>2. QED
  BY <1>1, Invariant, PTL DEF Spec
-----------------------------------------------------------------------------
(* The server implements the pool of slips: Dispatch in stage WRITE is its   *)
(* Assign, Generate its Finish, and the end of stage WRITE its Close.        *)
LEMMA ToDoBy == /\ stage = CALC => ToDo = Slips
                /\ stage # CALC => ToDo = {Item(k) : k \in currup .. num - 1}
  BY DEF ToDo, Item

LEMMA PoolInit == Init => SlipPool!Init
<1> SUFFICES ASSUME Init PROVE SlipPool!Init
  OBVIOUS
<1> USE DEF Init, CALC, WRITE, END
<1>1. ToDo \subseteq AllSlips
  BY SlipsFinite, ToDoBy
<1>2. Running = {}
  BY DEF Running, HoldsSlip, HasWork
<1>3. QED
  BY <1>1, <1>2 DEF SlipPool!Init

(* A step that hands out no slip of stage WRITE and generates none *)
LEMMA PoolQuiet ==
    ASSUME UNCHANGED <<files, stage, currup, num, written>>,
           \A k \in currup .. num - 1 : Item(k)' = Item(k),
           \A w \in Workers, p \in AllSlips : HoldsSlip(w, p)' <=> HoldsSlip(w, p)
    PROVE  UNCHANGED SlipPool!vars
<1>1. ToDo' = ToDo
  BY SlipsUnchanged DEF ToDo, Item
<1>2. Running' = Running
  BY DEF Running
<1>3. QED
  BY <1>1, <1>2 DEF SlipPool!vars

LEMMA PoolAssign == ASSUME IInv, NEW w \in Workers, Dispatch(w), stage = WRITE
                    PROVE  \E p \in AllSlips : SlipPool!Assign(w, p)
<1> USE DEF CALC, WRITE, END
<1>1. /\ TypeOK /\ WorkerStages /\ ServerPlace /\ Held /\ WriteList
  BY DEF IInv
<1> DEFINE p == Item(currup)
<1>2. /\ phase[w] = "request" /\ phase'[w] = "answer" /\ wstage[w] = WRITE
      /\ UNCHANGED <<files, stage, num, wstage, written>>
      /\ \A v \in Workers \ {w} : phase'[v] = phase[v] /\ rec'[v] = rec[v]
      /\ rec'[w] = list[currup] /\ list[currup] # NoRec
      /\ currup \in 0 .. num - 1 /\ num \in Nat /\ currup' = currup + 1
      /\ \A k \in currup .. num - 1 : list'[k] = list[k]
  BY <1>1, Served DEF Dispatch, TypeOK, ServerPlace
<1>3. p \in Slips /\ p \in AllSlips
  BY <1>1, <1>2, SlipsFinite DEF WriteList, TypeOK
<1>4. \A v \in Workers, q \in AllSlips : HoldsSlip(v, q)' <=> HoldsSlip(v, q) \/ (v = w /\ q = p)
  BY <1>2 DEF HoldsSlip, HasWork, Item
<1>5. \A q \in AllSlips : <<w, q>> \notin Running
  BY <1>2 DEF Running, HoldsSlip, HasWork
<1>6. Running' = Running \cup {<<w, p>>}
  BY <1>3, <1>4 DEF Running
<1>7. ToDo' = ToDo \ {p} /\ p \in ToDo
  <2>1. ToDo = {Item(k) : k \in currup .. num - 1}
    BY ToDoBy
  <2>2. ToDo' = {Item(k) : k \in currup + 1 .. num - 1}
    BY <1>2 DEF ToDo, Item
  <2>3. \A k \in currup + 1 .. num - 1 : Item(k) # p
    BY <1>1, <1>2 DEF WriteList
  <2>4. currup .. num - 1 = (currup + 1 .. num - 1) \cup {currup}
    BY <1>2
  <2> HIDE DEF p
  <2>5. ToDo = {Item(k) : k \in currup + 1 .. num - 1} \cup {p}
    BY <2>1, <2>4 DEF p
  <2>6. QED
    BY <2>2, <2>3, <2>5
<1>8. SlipPool!Assign(w, p)
  BY <1>2, <1>3, <1>5, <1>6, <1>7 DEF SlipPool!Assign
<1>9. QED
  BY <1>3, <1>8

LEMMA PoolFinish == ASSUME IInv, NEW w \in Workers, Generate(w), stage = WRITE
                    PROVE  \E p \in AllSlips : SlipPool!Finish(w, p)
<1> USE DEF CALC, WRITE, END
<1>1. /\ TypeOK /\ WorkerStages /\ Held
  BY DEF IInv
<1> DEFINE p == <<rec[w].rup, rec[w].numslip>>
<1>2. /\ phase[w] = "run" /\ phase'[w] = "request" /\ wstage[w] = WRITE
      /\ UNCHANGED <<files, stage, list, num, currup, wstage>>
      /\ \A v \in Workers \ {w} : phase'[v] = phase[v] /\ rec'[v] = rec[v]
      /\ written' = written \cup {p} /\ rec[w] # NoRec
  BY <1>1 DEF Generate, serverVars, TypeOK, WorkerStages
<1>3. p \in Slips /\ p \in AllSlips
  BY <1>1, <1>2, SlipsFinite DEF Held, TypeOK
<1>4. \A v \in Workers, q \in AllSlips : HoldsSlip(v, q)' <=> v # w /\ HoldsSlip(v, q)
  BY <1>2 DEF HoldsSlip, HasWork
<1>5. HoldsSlip(w, p) /\ \A q \in AllSlips : HoldsSlip(w, q) => q = p
  BY <1>2 DEF HoldsSlip, HasWork
<1> HIDE DEF p
<1>6. <<w, p>> \in Running /\ Running' = Running \ {<<w, p>>}
  BY <1>3, <1>4, <1>5 DEF Running
<1>7. ToDo' = ToDo
  BY <1>2 DEF ToDo
<1>8. SlipPool!Finish(w, p)
  BY <1>2, <1>6, <1>7 DEF SlipPool!Finish
<1>9. QED
  BY <1>3, <1>8

LEMMA PoolNextStage == ASSUME IInv, IInv', ServerNextStage
                       PROVE  SlipPool!Close \/ UNCHANGED SlipPool!vars
<1> USE DEF CALC, WRITE, END
<1>1. /\ TypeOK /\ ServerPlace /\ StatisticsComplete /\ WriteList' /\ TypeOK'
  BY DEF IInv
<1>2. /\ UNCHANGED <<files, wstage, phase, rec, listed, written>>
      /\ spc = "barrier" /\ stage \in {CALC, WRITE} /\ stage' = stage + 1
      /\ num \in Nat /\ currup = num
  BY <1>1 DEF ServerNextStage, TypeOK, ServerPlace
<1>3. \A w \in Workers : rec[w] = NoRec
  BY <1>2, AllStopped
<1>4. Running = {} /\ Running' = {}
  BY <1>2, <1>3 DEF Running, HoldsSlip, HasWork
<1>5. CASE stage = CALC
  <2>1. written = {} /\ Slips' = Slips /\ stage' = WRITE
    BY <1>2, <1>5, SlipsUnchanged DEF IInv, CalcList
  <2>2. \A w \in Workers, p \in Slips : ~HoldsSlip(w, p)'
    BY <1>2, <1>3 DEF HoldsSlip, HasWork
  <2>3. /\ \A k \in (currup .. num - 1)' : Item(k)' \in Slips
        /\ \A p \in Slips : \E k \in (currup .. num - 1)' : Item(k)' = p
    BY <1>1, <1>2, <2>1, <2>2 DEF WriteList
  <2>4. ToDo' = Slips
    BY <2>1, <2>3 DEF ToDo, Item
  <2>5. QED
    BY <1>2, <1>4, <1>5, <2>1, <2>4, ToDoBy DEF SlipPool!vars
<1>6. CASE stage = WRITE
  <2>1. UNCHANGED <<list, num, currup>> /\ stage' = END
    BY <1>2, <1>6 DEF ServerNextStage
  <2>2. ToDo = {} /\ ToDo' = {}
    BY <1>2, <1>6, <2>1 DEF ToDo
  <2>3. QED
    BY <1>2, <1>4, <1>6, <2>1, <2>2 DEF SlipPool!Close
<1>7. QED
  BY <1>2, <1>5, <1>6

(* Stage WRITE hands every slip to one worker and ends when all are written. *)
THEOREM ImplementsSlipPool == SafeSpec => SlipPool!SafeSpec
<1>1. IInv /\ IInv' /\ [Next]_vars => [SlipPool!Next]_(SlipPool!vars)
  <2> SUFFICES ASSUME IInv, IInv', [Next]_vars PROVE SlipPool!Next \/ UNCHANGED SlipPool!vars
    OBVIOUS
  <2> USE DEF CALC, WRITE, END
  <2>0. /\ TypeOK /\ ServerPlace /\ WorkerStages /\ Held /\ StatisticsComplete
    BY DEF IInv
  <2>1. ASSUME NEW w \in Workers, Dispatch(w) PROVE SlipPool!Next \/ UNCHANGED SlipPool!vars
    <3>1. stage \in {CALC, WRITE} /\ wstage[w] = stage /\ wstage'[w] = stage
      BY <2>1, Served DEF Dispatch
    <3>2. CASE stage = CALC
      <4>1. ToDo = Slips /\ ToDo' = Slips
        BY <2>1, <3>2, SlipsUnchanged DEF Dispatch, ToDo
      <4>2. \A v \in Workers, p \in AllSlips : HoldsSlip(v, p)' <=> HoldsSlip(v, p)
        BY <2>0, <2>1, <3>1, <3>2 DEF Dispatch, HoldsSlip, HasWork, TypeOK
      <4>3. Running' = Running
        BY <4>2 DEF Running
      <4>4. QED
        BY <2>1, <4>1, <4>3 DEF Dispatch, SlipPool!vars
    <3>3. CASE stage = WRITE
      BY <2>1, <3>3, PoolAssign DEF SlipPool!Next
    <3>4. QED
      BY <3>1, <3>2, <3>3
  <2>2. ASSUME NEW w \in Workers, StopWorker(w) PROVE UNCHANGED SlipPool!vars
    <3>1. currup = num /\ num \in Nat
      BY <2>0, <2>2 DEF StopWorker, ServerPlace, TypeOK
    <3>2. \A v \in Workers, p \in AllSlips : HoldsSlip(v, p)' <=> HoldsSlip(v, p)
      BY <2>0, <2>2 DEF StopWorker, HoldsSlip, HasWork, TypeOK
    <3>3. QED
      BY <2>2, <3>1, <3>2, PoolQuiet DEF StopWorker
  <2>3. ASSUME NEW w \in Workers, Reject(w) PROVE UNCHANGED SlipPool!vars
    BY <2>3, PoolQuiet DEF Reject, HoldsSlip, HasWork, Item
  <2>4. ASSUME SaveLists PROVE UNCHANGED SlipPool!vars
    BY <2>4, PoolQuiet DEF SaveLists, HoldsSlip, HasWork, Item
  <2>5. ASSUME ServerNextStage PROVE SlipPool!Next \/ UNCHANGED SlipPool!vars
    BY <2>5, PoolNextStage DEF SlipPool!Next
  <2>6. ASSUME NEW w \in Workers, Receive(w) PROVE UNCHANGED SlipPool!vars
    <3>1. wstage[w] = stage
      BY <2>0, <2>6 DEF Receive, WorkerStages
    <3>2. stage = WRITE /\ rec[w] # NoRec => files[rec[w].rup] # Missing
      <4>1. stage = WRITE => \A r \in Rups : files[r] > 0
        BY <2>0 DEF StatisticsComplete, ServerEntered
      <4>2. rec[w] # NoRec => rec[w].rup \in Rups
        BY <2>0 DEF Held
      <4>3. QED
        BY <4>1, <4>2 DEF Missing
    <3>3. \A v \in Workers, p \in AllSlips : HoldsSlip(v, p)' <=> HoldsSlip(v, p)
      BY <2>0, <2>6, <3>1, <3>2 DEF Receive, HoldsSlip, HasWork, TypeOK
    <3>4. QED
      BY <2>6, <3>3, PoolQuiet DEF Receive, serverVars, Item
  <2>7. ASSUME NEW w \in Workers, Generate(w) PROVE SlipPool!Next \/ UNCHANGED SlipPool!vars
    <3>1. CASE stage = WRITE
      BY <2>7, <3>1, PoolFinish DEF SlipPool!Next
    <3>2. CASE stage # WRITE
      <4>1. wstage[w] # WRITE
        BY <2>0, <2>7, <3>2 DEF Generate, WorkerStages
      <4>2. \A v \in Workers, p \in AllSlips : HoldsSlip(v, p)' <=> HoldsSlip(v, p)
        BY <2>0, <2>7, <4>1 DEF Generate, HoldsSlip, HasWork, TypeOK
      <4>3. QED
        BY <2>7, <4>1, <4>2, PoolQuiet DEF Generate, serverVars, Item
    <3>3. QED
      BY <3>1, <3>2
  <2>8. ASSUME NEW w \in Workers, WorkerNextStage(w) PROVE UNCHANGED SlipPool!vars
    <3>1. \A v \in Workers, p \in AllSlips : HoldsSlip(v, p)' <=> HoldsSlip(v, p)
      BY <2>0, <2>8 DEF WorkerNextStage, HoldsSlip, HasWork, TypeOK
    <3>2. QED
      BY <2>8, <3>1, PoolQuiet DEF WorkerNextStage, serverVars, Item
  <2>9. CASE UNCHANGED vars
    BY <2>9, PoolQuiet DEF vars, serverVars, HoldsSlip, HasWork, Item
  <2>10. QED
    BY <2>1, <2>2, <2>3, <2>4, <2>5, <2>6, <2>7, <2>8, <2>9 DEF Next, Server, Worker
<1>2. QED
  BY <1>1, PoolInit, Invariant, PTL DEF SafeSpec, SlipPool!SafeSpec
=============================================================================
