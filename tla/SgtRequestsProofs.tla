-------------------------- MODULE SgtRequestsProofs --------------------------
(***************************************************************************)
(* Proofs about SgtBuckets and SgtRequests, for every file, every number   *)
(* of handlers and every list of indices: the lists are never overrun, the *)
(* binary search ends at the handler that owns the index, with no empty    *)
(* block it never gives up on an index of the file, and the entries of a   *)
(* handler's list stay in the order of the indices (of two indices searched*)
(* together the smaller never turns right where the larger turns left).    *)
(*                                                                         *)
(* The invariant of SgtBuckets says where the cutoffs come from, that the  *)
(* part of the cutoffs still searched encloses the index, and that a       *)
(* list's capacity is the next multiple of step_size above its length.     *)
(* SgtRequests leaves that module's variables alone, so all of it holds    *)
(* there too; its own invariant says which part of which list is asked for.*)
(*                                                                         *)
(* A request never asks for more than its buffers hold or the list has; the*)
(* search in an answer ends at the entry it was for, so a point is given   *)
(* its own tensors; and no point is processed twice: PInv says which points*)
(* the answers so far have not touched, have served whole, and have left   *)
(* with a part saved.                                                      *)
(***************************************************************************)
EXTENDS SgtRequests, FiniteSetTheorems, SequenceTheorems, WellFoundedInduction, TLAPS

InputsOK == /\ sgtindx \in Seq(Nat) /\ sgtindx # <<>> /\ Ascending(sgtindx)
            /\ indx_master \in Seq(Nat)
            /\ num_sgt_handlers \in Nat \ {0, 1}

CutoffsOK == pc # "cutoffs" =>
    /\ sgt_cutoffs \in [1 .. num_sgt_handlers -> Nat]
    /\ WellBlocked => /\ \A b \in Handlers : sgt_cutoffs[b] = sgtindx[proc_points[b] + 1]
                      /\ sgt_cutoffs[num_sgt_handlers] = sgtindx[globnp] + 1

SearchOK == /\ start_index < end_index
            /\ pc = "verify" => end_index = start_index + 1
            /\ pc \in {"search", "verify"} =>
                  /\ placed < nm
                  /\ Good => sgt_cutoffs[start_index] <= indx /\ indx < sgt_cutoffs[end_index]

Room(q, length, room) == /\ q * step_size <= length
                         /\ length < (q + 1) * step_size
                         /\ room = (q + 1) * step_size

RoomOK == \A h \in Handlers : \E q \in Nat : Room(q, Len(sgts_by_handler[h]), capacity[h])

IInv == /\ InputsOK /\ TypeOK /\ CutoffsOK /\ SearchOK /\ RoomOK
        /\ OwnerFound /\ NeverAborts
-----------------------------------------------------------------------------
(* The step by which the lists grow is positive. *)
LEMMA StepPositive == InputsOK => step_size \in Nat \ {0}
<1> SUFFICES ASSUME InputsOK PROVE step_size \in Nat \ {0}
  OBVIOUS
<1>1. nm \in Nat /\ num_sgt_handlers \in Nat \ {0} /\ MinStep \in Nat \ {0}
  BY SgtBucketsAssumption DEF InputsOK, nm
<1>2. nm \div num_sgt_handlers \in Nat
  BY <1>1
<1> QED BY <1>1, <1>2 DEF step_size

(* Products with a positive number keep the order of their other factor. *)
LEMMA Monotone ==
    ASSUME NEW a \in Nat, NEW b \in Nat, NEW s \in Nat \ {0}
    PROVE  /\ a <= b => a * s <= b * s
           /\ a * s < b * s => a < b
<1>1. a <= b => a * s <= b * s
  <2> SUFFICES ASSUME a <= b PROVE a * s <= b * s
    OBVIOUS
  <2> DEFINE d == b - a
  <2>1. d \in Nat /\ b = a + d
    OBVIOUS
  <2> HIDE DEF d
  <2>2. b * s = a * s + d * s
    BY <2>1
  <2>3. d * s \in Nat /\ a * s \in Nat
    BY <2>1
  <2> QED BY <2>2, <2>3
<1>2. ASSUME a * s < b * s, ~(a < b) PROVE FALSE
  <2> DEFINE d == a - b
  <2>1. d \in Nat /\ a = b + d
    BY <1>2
  <2> HIDE DEF d
  <2>2. a * s = b * s + d * s
    BY <2>1
  <2>3. d * s \in Nat /\ b * s \in Nat /\ a * s \in Nat
    BY <2>1
  <2> QED BY <1>2, <2>2, <2>3
<1> QED BY <1>1, <1>2

(* A number between two consecutive multiples of s, the upper one included,  *)
(* is that one exactly if s divides it.                                      *)
LEMMA NextMultiple ==
    ASSUME NEW q \in Nat, NEW s \in Nat \ {0}, NEW c \in Nat,
           q * s < c, c <= (q + 1) * s
    PROVE  c % s = 0 <=> c = (q + 1) * s
<1> DEFINE d == c \div s
           r == c % s
<1>1. d \in Nat /\ r \in 0 .. s - 1 /\ c = d * s + r
  OBVIOUS
<1> HIDE DEF d, r
<1>2. ASSUME r = 0 PROVE c = (q + 1) * s
  <2>1. c = d * s
    BY <1>1, <1>2
  <2>2. q < d
    BY <1>1, <2>1, Monotone
  <2>3. (q + 1) * s <= d * s
    BY <1>1, <2>2, Monotone
  <2> QED BY <1>1, <2>1, <2>3
<1>3. ASSUME c = (q + 1) * s PROVE r = 0
  <2>1. d <= q + 1
    <3>1. d * s <= c
      BY <1>1
    <3>2. d * s < (q + 2) * s
      BY <1>1, <1>3, <3>1
    <3>3. d < q + 2
      BY <1>1, <3>2, Monotone
    <3> QED BY <1>1, <3>3
  <2>2. q + 1 <= d
    <3>1. (q + 1) * s < (d + 1) * s
      <4>1. (d + 1) * s = d * s + s /\ d * s \in Nat
        BY <1>1
      <4> QED BY <1>1, <1>3, <4>1
    <3> QED BY <1>1, <3>1, Monotone
  <2>3. d = q + 1
    BY <1>1, <2>1, <2>2
  <2> QED BY <1>1, <1>3, <2>3
<1> QED BY <1>2, <1>3 DEF r
-----------------------------------------------------------------------------
(* The blocks are not empty, so their first indices ascend.                  *)
LEMMA CutoffsAscend ==
    ASSUME InputsOK, CutoffsOK, WellBlocked, pc # "cutoffs",
           NEW b \in Handlers
    PROVE  sgt_cutoffs[b] < sgt_cutoffs[b + 1]
<1>1. num_sgt_handlers \in Nat \ {0, 1} /\ globnp \in Nat \ {0}
  BY DEF InputsOK, globnp
<1>2. b \in 1 .. num_sgt_handlers /\ b + 1 \in 1 .. num_sgt_handlers /\ b < b + 1
  BY <1>1 DEF Handlers
<1>3. /\ proc_points[b] \in 0 .. globnp /\ proc_points[b + 1] \in 0 .. globnp
      /\ proc_points[b] < proc_points[b + 1]
  BY <1>2 DEF WellBlocked
<1>4. proc_points[b] + 1 \in DOMAIN sgtindx /\ globnp \in DOMAIN sgtindx
  BY <1>1, <1>3 DEF InputsOK, globnp
<1>5. sgt_cutoffs[b] = sgtindx[proc_points[b] + 1]
  BY DEF CutoffsOK
<1>6. CASE b + 1 = num_sgt_handlers
  <2>1. sgt_cutoffs[b + 1] = sgtindx[globnp] + 1
    BY <1>6 DEF CutoffsOK
  <2>2. sgtindx[proc_points[b] + 1] <= sgtindx[globnp]
    <3>1. proc_points[b] + 1 <= globnp
      BY <1>1, <1>3
    <3>2. proc_points[b] + 1 < globnp \/ proc_points[b] + 1 = globnp
      BY <1>1, <1>3, <3>1
    <3>3. sgtindx[proc_points[b] + 1] \in Nat /\ sgtindx[globnp] \in Nat
      BY <1>4 DEF InputsOK
    <3> QED BY <1>4, <3>2, <3>3 DEF InputsOK, Ascending
  <2>3. sgtindx[proc_points[b] + 1] \in Nat /\ sgtindx[globnp] \in Nat
    BY <1>4 DEF InputsOK
  <2> QED BY <1>5, <2>1, <2>2, <2>3
<1>7. CASE b + 1 # num_sgt_handlers
  <2>1. b + 1 \in Handlers
    BY <1>1, <1>2, <1>7 DEF Handlers
  <2>2. sgt_cutoffs[b + 1] = sgtindx[proc_points[b + 1] + 1]
    BY <2>1 DEF CutoffsOK
  <2>3. proc_points[b + 1] < proc_points[num_sgt_handlers]
    BY <1>1, <1>2, <1>7 DEF WellBlocked
  <2>4. proc_points[b + 1] + 1 \in DOMAIN sgtindx
    BY <1>1, <1>3, <2>3 DEF WellBlocked, InputsOK, globnp
  <2>5. proc_points[b] + 1 < proc_points[b + 1] + 1
    BY <1>3
  <2> QED BY <1>4, <1>5, <2>2, <2>4, <2>5 DEF InputsOK, Ascending
<1> QED BY <1>6, <1>7

(* An index of the file between the cutoffs of a block is in the block: the  *)
(* worker's choice by indices is the handler's choice by points.             *)
LEMMA BetweenCutoffsOwns ==
    ASSUME InputsOK, CutoffsOK, WellBlocked, pc # "cutoffs",
           NEW b \in Handlers, NEW x \in Nat, InFile(x),
           sgt_cutoffs[b] <= x, x < sgt_cutoffs[b + 1]
    PROVE  Owns(b, x)
<1>1. num_sgt_handlers \in Nat \ {0, 1} /\ globnp \in Nat \ {0}
  BY DEF InputsOK, globnp
<1>2. b \in 1 .. num_sgt_handlers /\ b + 1 \in 1 .. num_sgt_handlers
  BY <1>1 DEF Handlers
<1>3. /\ proc_points[b] \in 0 .. globnp /\ proc_points[b + 1] \in 0 .. globnp
      /\ proc_points[b] < proc_points[b + 1]
  BY <1>1, <1>2 DEF WellBlocked
<1>4. PICK p \in 1 .. globnp : x = sgtindx[p]
  BY DEF InFile
<1>5. p \in DOMAIN sgtindx /\ proc_points[b] + 1 \in DOMAIN sgtindx
  BY <1>1, <1>3 DEF InputsOK, globnp
<1>6. proc_points[b] + 1 <= p
  <2>1. sgt_cutoffs[b] = sgtindx[proc_points[b] + 1]
    BY DEF CutoffsOK
  <2>2. ~(p < proc_points[b] + 1)
    <3>1. sgtindx[proc_points[b] + 1] \in Nat
      BY <1>5 DEF InputsOK
    <3>2. ~(sgtindx[p] < sgtindx[proc_points[b] + 1])
      BY <1>4, <2>1, <3>1
    <3> QED BY <1>5, <3>2 DEF InputsOK, Ascending
  <2> QED BY <1>3, <2>2
<1>7. p <= proc_points[b + 1]
  <2>1. CASE b + 1 = num_sgt_handlers
    BY <2>1 DEF WellBlocked
  <2>2. CASE b + 1 # num_sgt_handlers
    <3>1. b + 1 \in Handlers
      BY <1>1, <1>2, <2>2 DEF Handlers
    <3>2. sgt_cutoffs[b + 1] = sgtindx[proc_points[b + 1] + 1]
      BY <3>1 DEF CutoffsOK
    <3>3. proc_points[b + 1] < globnp
      BY <1>1, <1>2, <2>2 DEF WellBlocked
    <3>4. proc_points[b + 1] + 1 \in DOMAIN sgtindx
      BY <1>1, <1>3, <3>3 DEF InputsOK, globnp
    <3>5. sgtindx[proc_points[b + 1] + 1] \in Nat
      BY <3>4 DEF InputsOK
    <3>6. p # proc_points[b + 1] + 1 /\ ~(proc_points[b + 1] + 1 < p)
      <4>1. ~(sgtindx[proc_points[b + 1] + 1] < sgtindx[p])
        BY <1>4, <3>2, <3>5
      <4> QED BY <1>4, <1>5, <3>2, <3>4, <3>5, <4>1 DEF InputsOK, Ascending
    <3> QED BY <1>3, <3>6
  <2> QED BY <2>1, <2>2
<1>8. /\ p - 1 \in 0 .. globnp - 1 /\ (p - 1) + 1 = p
      /\ p - 1 \in proc_points[b] .. proc_points[b + 1] - 1
  BY <1>1, <1>3, <1>6, <1>7
<1> QED BY <1>4, <1>8 DEF Owns
-----------------------------------------------------------------------------
LEMMA InitKeeps == Init => IInv
<1> SUFFICES ASSUME Init PROVE IInv
  OBVIOUS
<1>1. InputsOK
  BY SgtBucketsAssumption DEF Init, InputsOK
<1>2. step_size \in Nat \ {0}
  BY <1>1, StepPositive
<1>3. TypeOK
  <2>1. num_sgt_handlers \in Nat \ {0, 1} /\ nm \in Nat
    BY <1>1 DEF InputsOK, nm
  <2> QED BY <1>2, <2>1 DEF Init, TypeOK
<1>4. RoomOK
  <2> SUFFICES ASSUME NEW h \in Handlers
               PROVE  \E q \in Nat : Room(q, Len(sgts_by_handler[h]), capacity[h])
    BY DEF RoomOK
  <2>1. Len(sgts_by_handler[h]) = 0 /\ capacity[h] = step_size
    BY DEF Init
  <2>2. Room(0, 0, step_size)
    BY <1>2 DEF Room
  <2> QED BY <2>1, <2>2
<1>5. CutoffsOK /\ NeverAborts
  BY DEF Init, CutoffsOK, NeverAborts
<1>6. SearchOK
  BY <1>1 DEF Init, SearchOK, InputsOK
<1>7. OwnerFound
  <2>1. \A h \in Handlers : sgts_by_handler[h] = <<>>
    BY DEF Init
  <2> QED BY <2>1 DEF OwnerFound
<1> QED BY <1>1, <1>3, <1>4, <1>5, <1>6, <1>7 DEF IInv

(* What no action changes, and what the actions that place nothing keep.     *)
LEMMA InputsKept ==
    ASSUME IInv, UNCHANGED inputs
    PROVE  /\ InputsOK' /\ (WellBlocked' <=> WellBlocked) /\ (Good' <=> Good)
           /\ Handlers' = Handlers /\ nm' = nm /\ globnp' = globnp /\ step_size' = step_size
<1>1. globnp' = globnp /\ nm' = nm /\ Handlers' = Handlers /\ InputsOK'
  BY DEF IInv, InputsOK, inputs, globnp, nm, Handlers, Ascending
<1>2. WellBlocked' <=> WellBlocked
  BY <1>1 DEF WellBlocked, inputs
<1>3. step_size' = step_size
  BY <1>1 DEF step_size, inputs
<1>4. \A x : InFile(x)' <=> InFile(x)
  BY <1>1 DEF InFile, inputs
<1>5. Good' <=> Good
  BY <1>1, <1>2, <1>4 DEF Good, inputs, InFile
<1> QED BY <1>1, <1>2, <1>3, <1>5

LEMMA ListsKept ==
    ASSUME IInv, UNCHANGED <<inputs, sgts_by_handler, capacity>>
    PROVE  RoomOK' /\ OwnerFound'
<1>1. Handlers' = Handlers /\ step_size' = step_size /\ (WellBlocked' <=> WellBlocked)
      /\ globnp' = globnp
  BY InputsKept
<1>2. RoomOK'
  BY <1>1 DEF IInv, RoomOK, Room
<1>3. OwnerFound'
  BY <1>1 DEF IInv, OwnerFound, Owns, InFile, inputs
<1> QED BY <1>2, <1>3

LEMMA BuildCutoffsKeeps == IInv /\ BuildCutoffs => IInv'
<1> SUFFICES ASSUME IInv, BuildCutoffs PROVE IInv'
  OBVIOUS
<1>0. UNCHANGED inputs
  BY DEF BuildCutoffs
<1>1. InputsOK' /\ RoomOK' /\ OwnerFound'
  BY <1>0, InputsKept, ListsKept DEF BuildCutoffs
<1>2. num_sgt_handlers \in Nat \ {0, 1} /\ globnp \in Nat \ {0} /\ sgtindx \in Seq(Nat)
  BY DEF IInv, InputsOK, globnp
<1>3. TypeOK'
  BY <1>0, InputsKept DEF IInv, TypeOK, BuildCutoffs, inputs
<1>4. SearchOK' /\ NeverAborts'
  BY <1>0 DEF IInv, SearchOK, BuildCutoffs, NeverAborts, inputs
<1>5. CutoffsOK'
  <2> DEFINE n == num_sgt_handlers
             points == {FirstPoint(b) : b \in Handlers} \cup {proc_points[n] - 1}
  <2>1. PICK garbage \in [points \ (0 .. globnp - 1) -> Beyond] :
            LET at(p) == IF p \in 0 .. globnp - 1 THEN sgtindx[p + 1] ELSE garbage[p]
            IN  sgt_cutoffs' = [b \in 1 .. n |-> IF b = n THEN at(proc_points[n] - 1) + 1
                                                       ELSE at(FirstPoint(b))]
    BY DEF BuildCutoffs
  <2> DEFINE at(p) == IF p \in 0 .. globnp - 1 THEN sgtindx[p + 1] ELSE garbage[p]
  <2>2. sgt_cutoffs' = [b \in 1 .. n |-> IF b = n THEN at(proc_points[n] - 1) + 1
                                               ELSE at(FirstPoint(b))]
    BY <2>1
  <2>3. \A p \in points : at(p) \in Nat
    <3> SUFFICES ASSUME NEW p \in points PROVE at(p) \in Nat
      OBVIOUS
    <3>1. CASE p \in 0 .. globnp - 1
      <4>1. p + 1 \in DOMAIN sgtindx
        BY <1>2, <3>1 DEF globnp
      <4> QED BY <1>2, <3>1, <4>1
    <3>2. CASE p \notin 0 .. globnp - 1
      <4>1. garbage[p] \in Beyond
        BY <3>2
      <4> QED BY <3>2, <4>1, SgtBucketsAssumption
    <3> QED BY <3>1, <3>2
  <2>4. \A b \in Handlers : FirstPoint(b) \in points
    OBVIOUS
  <2>5. proc_points[n] - 1 \in points
    OBVIOUS
  <2>6. \A b \in 1 .. n : b # n => b \in Handlers
    BY <1>2 DEF Handlers
  <2>7. \A b \in Handlers : b \in 1 .. n /\ b # n
    BY <1>2 DEF Handlers
  <2>8. n \in 1 .. n
    BY <1>2
  <2> HIDE DEF points
  <2>9. sgt_cutoffs' \in [1 .. n -> Nat]
    <3>1. \A b \in 1 .. n : (IF b = n THEN at(proc_points[n] - 1) + 1
                                      ELSE at(FirstPoint(b))) \in Nat
      <4> HIDE DEF at
      <4> QED BY <2>3, <2>4, <2>5, <2>6
    <3> QED BY <2>2, <3>1
  <2>10. ASSUME WellBlocked
         PROVE  /\ \A b \in Handlers : sgt_cutoffs'[b] = sgtindx[proc_points[b] + 1]
                /\ sgt_cutoffs'[n] = sgtindx[globnp] + 1
    <3>1. \A b \in Handlers : proc_points[b] \in 0 .. globnp - 1
      <4> SUFFICES ASSUME NEW b \in Handlers PROVE proc_points[b] \in 0 .. globnp - 1
        OBVIOUS
      <4>1. b \in 1 .. num_sgt_handlers /\ b < num_sgt_handlers
        BY <1>2 DEF Handlers
      <4>2. proc_points[b] < proc_points[num_sgt_handlers]
        BY <1>2, <2>8, <2>10, <4>1 DEF WellBlocked
      <4>3. proc_points[b] \in 0 .. globnp /\ proc_points[num_sgt_handlers] = globnp
        BY <2>10, <4>1 DEF WellBlocked
      <4> QED BY <1>2, <4>2, <4>3
    <3>2. \A b \in Handlers : sgt_cutoffs'[b] = sgtindx[proc_points[b] + 1]
      BY <2>2, <2>7, <3>1 DEF FirstPoint
    <3>3. proc_points[n] - 1 \in 0 .. globnp - 1 /\ (proc_points[n] - 1) + 1 = globnp
      BY <1>2, <2>10 DEF WellBlocked
    <3>4. sgt_cutoffs'[n] = sgtindx[globnp] + 1
      BY <2>2, <2>8, <3>3
    <3> QED BY <3>2, <3>4
  <2> QED
    <3>1. WellBlocked' <=> WellBlocked
      BY <1>0, InputsKept
    <3>2. Handlers' = Handlers /\ globnp' = globnp /\ sgtindx' = sgtindx
          /\ proc_points' = proc_points /\ num_sgt_handlers' = num_sgt_handlers
      BY <1>0, InputsKept DEF inputs
    <3> QED BY <2>9, <2>10, <3>1, <3>2 DEF CutoffsOK
<1> QED BY <1>1, <1>3, <1>4, <1>5 DEF IInv

LEMMA StartSearchKeeps == IInv /\ StartSearch => IInv'
<1> SUFFICES ASSUME IInv, StartSearch PROVE IInv'
  OBVIOUS
<1>0. UNCHANGED inputs /\ UNCHANGED <<sgt_cutoffs, placed>>
  BY DEF StartSearch
<1>1. InputsOK' /\ RoomOK' /\ OwnerFound'
  BY <1>0, InputsKept, ListsKept DEF StartSearch
<1>2. num_sgt_handlers \in Nat \ {0, 1} /\ globnp \in Nat \ {0} /\ nm \in Nat
  BY DEF IInv, InputsOK, globnp, nm
<1>3. TypeOK'
  BY <1>0, <1>2, InputsKept DEF IInv, TypeOK, StartSearch, inputs
<1>4. CutoffsOK' /\ NeverAborts'
  BY <1>0, InputsKept DEF IInv, CutoffsOK, StartSearch, NeverAborts, inputs
<1>5. Good => sgt_cutoffs[1] <= indx /\ indx < sgt_cutoffs[num_sgt_handlers]
  <2> SUFFICES ASSUME Good
               PROVE  sgt_cutoffs[1] <= indx /\ indx < sgt_cutoffs[num_sgt_handlers]
    OBVIOUS
  <2>1. InFile(indx)
    BY <1>2 DEF Good, IInv, TypeOK, StartSearch, indx
  <2>2. PICK p \in 1 .. globnp : indx = sgtindx[p]
    BY <2>1 DEF InFile
  <2>3. 1 \in DOMAIN sgtindx /\ p \in DOMAIN sgtindx /\ globnp \in DOMAIN sgtindx
    BY <1>2 DEF IInv, InputsOK, globnp
  <2>4. sgtindx[1] \in Nat /\ sgtindx[p] \in Nat /\ sgtindx[globnp] \in Nat
    BY <2>3 DEF IInv, InputsOK
  <2>5. (p = 1 \/ 1 < p) /\ (p = globnp \/ p < globnp)
    BY <1>2
  <2>6. sgtindx[1] <= sgtindx[p] /\ sgtindx[p] <= sgtindx[globnp]
    <3>1. \A a, b \in DOMAIN sgtindx : a < b => sgtindx[a] < sgtindx[b]
      BY DEF IInv, InputsOK, Ascending
    <3> QED BY <2>3, <2>4, <2>5, <3>1
  <2>7. 1 \in Handlers /\ proc_points[1] + 1 = 1
    BY <1>2 DEF Good, WellBlocked, Handlers
  <2>8. pc # "cutoffs" /\ CutoffsOK /\ WellBlocked
    BY DEF StartSearch, IInv, Good
  <2>9. sgt_cutoffs[1] = sgtindx[1] /\ sgt_cutoffs[num_sgt_handlers] = sgtindx[globnp] + 1
    BY <2>7, <2>8 DEF CutoffsOK
  <2> QED BY <2>2, <2>4, <2>6, <2>9
<1>6. SearchOK'
  <2>1. indx' = indx /\ nm' = nm /\ (Good' <=> Good)
    BY <1>0, InputsKept DEF indx, inputs
  <2>2. start_index' = 1 /\ end_index' = num_sgt_handlers /\ pc' = "search" /\ placed < nm
    BY DEF StartSearch
  <2> QED BY <1>0, <1>2, <1>5, <2>1, <2>2 DEF SearchOK
<1> QED BY <1>1, <1>3, <1>4, <1>6 DEF IInv

LEMMA SearchKeeps == IInv /\ Search => IInv'
<1> SUFFICES ASSUME IInv, Search PROVE IInv'
  OBVIOUS
<1>0. UNCHANGED inputs /\ UNCHANGED <<sgt_cutoffs, placed>>
  BY DEF Search
<1>1. InputsOK' /\ RoomOK' /\ OwnerFound'
  BY <1>0, InputsKept, ListsKept DEF Search
<1>2. /\ num_sgt_handlers \in Nat \ {0, 1}
      /\ start_index \in 1 .. num_sgt_handlers - 1 /\ end_index \in 2 .. num_sgt_handlers
      /\ Mid \in start_index + 1 .. end_index - 1
      /\ Mid \in Handlers /\ pc = "search" /\ placed < nm
  <2>1. /\ num_sgt_handlers \in Nat \ {0, 1} /\ end_index > start_index + 1
        /\ start_index \in 1 .. num_sgt_handlers - 1 /\ end_index \in 2 .. num_sgt_handlers
        /\ pc = "search" /\ placed < nm
    BY DEF IInv, InputsOK, TypeOK, Search, Searching, SearchOK
  <2> QED BY <2>1 DEF Mid, Handlers
<1>3. /\ sgt_cutoffs \in [1 .. num_sgt_handlers -> Nat]
      /\ placed + 1 \in DOMAIN indx_master /\ indx \in Nat
  <2>1. sgt_cutoffs \in [1 .. num_sgt_handlers -> Nat]
    BY <1>2 DEF IInv, CutoffsOK
  <2>2. placed + 1 \in DOMAIN indx_master
    BY <1>2 DEF IInv, InputsOK, TypeOK, nm
  <2> QED BY <2>1, <2>2 DEF indx, IInv, InputsOK
<1>4. sgt_cutoffs[Mid] \in Nat
  BY <1>2, <1>3 DEF Handlers
<1>5. indx' = indx /\ nm' = nm /\ (Good' <=> Good)
  BY <1>0, InputsKept DEF indx, inputs
<1>6. /\ start_index' < end_index' /\ pc' \in {"search", "verify"}
      /\ start_index' \in 1 .. num_sgt_handlers - 1 /\ end_index' \in 2 .. num_sgt_handlers
      /\ pc' = "verify" => end_index' = start_index' + 1
      /\ Good => sgt_cutoffs[start_index'] <= indx /\ indx < sgt_cutoffs[end_index']
  <2>0. Good => sgt_cutoffs[start_index] <= indx /\ indx < sgt_cutoffs[end_index]
    BY <1>2 DEF IInv, SearchOK
  <2>1. CASE indx > sgt_cutoffs[Mid] /\ start_index' = Mid /\ UNCHANGED <<pc, end_index>>
    BY <1>2, <1>3, <1>4, <2>0, <2>1
  <2>2. CASE indx < sgt_cutoffs[Mid] /\ end_index' = Mid /\ UNCHANGED <<pc, start_index>>
    BY <1>2, <1>3, <1>4, <2>0, <2>2
  <2>3. CASE /\ indx = sgt_cutoffs[Mid] /\ start_index' = Mid /\ end_index' = Mid + 1
             /\ pc' = "verify"
    <3>1. Good => sgt_cutoffs[Mid] < sgt_cutoffs[Mid + 1]
      BY <1>2, CutoffsAscend DEF IInv, Good
    <3> QED BY <1>2, <1>3, <1>4, <2>3, <3>1
  <2> QED BY <2>1, <2>2, <2>3 DEF Search, Halve
<1>7. SearchOK'
  BY <1>0, <1>2, <1>5, <1>6 DEF SearchOK
<1>8. TypeOK'
  <2>1. TypeOK /\ num_sgt_handlers' = num_sgt_handlers /\ Handlers' = Handlers
        /\ UNCHANGED <<sgts_by_handler, capacity>>
    BY <1>0, InputsKept DEF IInv, inputs, Search
  <2> QED BY <1>0, <1>5, <1>6, <2>1 DEF TypeOK
<1>9. CutoffsOK' /\ NeverAborts'
  <2>1. NeverAborts'
    BY <1>6 DEF NeverAborts
  <2>2. CutoffsOK'
    BY <1>0, <1>2, <1>6, InputsKept DEF IInv, CutoffsOK, inputs
  <2> QED BY <2>1, <2>2
<1> QED BY <1>1, <1>7, <1>8, <1>9 DEF IInv

(* What a search that is over has found. *)
LEMMA SearchOver ==
    ASSUME IInv, Found
    PROVE  /\ placed + 1 \in DOMAIN indx_master /\ placed + 1 \in 1 .. nm /\ indx \in Nat
           /\ start_index \in Handlers /\ end_index = start_index + 1
           /\ pc # "cutoffs" /\ (Good => Right)
<1>1. pc \in {"search", "verify"}
  BY DEF Found
<1>2. /\ num_sgt_handlers \in Nat \ {0, 1}
      /\ start_index \in 1 .. num_sgt_handlers - 1 /\ end_index \in 2 .. num_sgt_handlers
      /\ start_index < end_index /\ placed < nm /\ placed \in 0 .. nm /\ nm \in Nat
  BY <1>1 DEF IInv, InputsOK, TypeOK, SearchOK, nm
<1>3. end_index = start_index + 1
  BY <1>2 DEF IInv, SearchOK, Found, Searching
<1>4. placed + 1 \in DOMAIN indx_master /\ placed + 1 \in 1 .. nm
  BY <1>2 DEF IInv, InputsOK, nm
<1>5. Good => Right
  BY <1>1, <1>2 DEF IInv, SearchOK, Right
<1> QED BY <1>1, <1>2, <1>3, <1>4, <1>5 DEF Handlers, indx, IInv, InputsOK

LEMMA PlaceKeeps == IInv /\ Place => IInv'
<1> SUFFICES ASSUME IInv, Place PROVE IInv'
  OBVIOUS
<1> DEFINE L == Len(sgts_by_handler[start_index])
<1>0. UNCHANGED inputs /\ UNCHANGED <<sgt_cutoffs, start_index, end_index>>
      /\ pc' = "next" /\ placed' = placed + 1
  BY DEF Place
<1>1. InputsOK' /\ (WellBlocked' <=> WellBlocked) /\ Handlers' = Handlers
      /\ step_size' = step_size /\ nm' = nm /\ globnp' = globnp
  BY <1>0, InputsKept
<1>2. /\ placed + 1 \in 1 .. nm /\ indx \in Nat /\ start_index \in Handlers
      /\ end_index = start_index + 1 /\ pc # "cutoffs"
  BY SearchOver DEF Place
<1>3. step_size \in Nat \ {0}
  BY StepPositive DEF IInv
<1>4. /\ sgts_by_handler \in [Handlers -> Seq(Nat)] /\ capacity \in [Handlers -> Nat]
      /\ sgts_by_handler[start_index] \in Seq(Nat) /\ L \in Nat
  BY <1>2 DEF IInv, TypeOK
<1>5. /\ sgts_by_handler' = [sgts_by_handler EXCEPT ![start_index] = Append(@, indx)]
      /\ Append(sgts_by_handler[start_index], indx) \in Seq(Nat)
      /\ Len(sgts_by_handler'[start_index]) = L + 1
  BY <1>2, <1>4 DEF Place
<1>6. /\ (L + 1) % step_size = 0 => capacity'[start_index] = L + 1 + step_size
      /\ (L + 1) % step_size # 0 => capacity'[start_index] = capacity[start_index]
      /\ \A h \in Handlers \ {start_index} : capacity'[h] = capacity[h]
      /\ capacity' \in [Handlers -> Nat]
  BY <1>2, <1>3, <1>4 DEF Place, GrowTo
<1>7. TypeOK'
  <2>1. sgts_by_handler' \in [Handlers -> Seq(Nat)]
    BY <1>2, <1>4, <1>5
  <2> QED BY <1>0, <1>1, <1>2, <1>6, <2>1 DEF IInv, TypeOK, inputs
<1>8. RoomOK'
  <2> SUFFICES ASSUME NEW h \in Handlers
               PROVE  \E q \in Nat : Room(q, Len(sgts_by_handler'[h]), capacity'[h])
    BY <1>1 DEF RoomOK, Room
  <2>1. PICK q \in Nat : Room(q, Len(sgts_by_handler[h]), capacity[h])
    BY DEF IInv, RoomOK
  <2>2. CASE h # start_index
    BY <1>4, <1>5, <1>6, <2>1, <2>2
  <2>3. CASE h = start_index
    <3>1. q * step_size <= L /\ L < (q + 1) * step_size
          /\ capacity[start_index] = (q + 1) * step_size
      BY <2>1, <2>3 DEF Room
    <3>2. q * step_size \in Nat /\ (q + 1) * step_size \in Nat
          /\ ((q + 1) + 1) * step_size = (q + 1) * step_size + step_size
      BY <1>3
    <3>3. q * step_size < L + 1 /\ L + 1 <= (q + 1) * step_size
      BY <1>4, <3>1, <3>2
    <3>4. (L + 1) % step_size = 0 <=> L + 1 = (q + 1) * step_size
      <4>1. L + 1 \in Nat
        BY <1>4
      <4> HIDE DEF L
      <4> QED BY ONLY <1>3, <3>3, <4>1, NextMultiple, q \in Nat
    <3>5. CASE (L + 1) % step_size = 0
      <4>1. Room(q + 1, L + 1, capacity'[start_index])
        <5>0. L + 1 = (q + 1) * step_size
          BY <3>4, <3>5
        <5>1. (q + 1) * step_size <= L + 1
          BY <1>4, <3>2, <5>0
        <5>2. L + 1 < ((q + 1) + 1) * step_size
          <6>1. ((q + 1) + 1) * step_size = (L + 1) + step_size
            BY <3>2, <5>0
          <6> QED BY <1>3, <1>4, <6>1
        <5>3. capacity'[start_index] = ((q + 1) + 1) * step_size
          BY <1>6, <3>2, <3>5, <5>0
        <5> QED BY <5>1, <5>2, <5>3 DEF Room
      <4> QED BY <1>5, <2>3, <4>1
    <3>6. CASE (L + 1) % step_size # 0
      <4>1. Room(q, L + 1, capacity'[start_index])
        BY <1>4, <1>6, <3>1, <3>2, <3>3, <3>4, <3>6 DEF Room
      <4> QED BY <1>5, <2>3, <4>1
    <3> QED BY <3>5, <3>6
  <2> QED BY <2>2, <2>3
<1>9. OwnerFound'
  <2>1. \A h, x : Owns(h, x)' <=> Owns(h, x)
    BY <1>0, <1>1 DEF Owns, inputs
  <2>2. \A x : InFile(x)' <=> InFile(x)
    BY <1>0, <1>1 DEF InFile, inputs
  <2> SUFFICES ASSUME WellBlocked, NEW h \in Handlers, NEW k \in DOMAIN sgts_by_handler'[h],
                      InFile(sgts_by_handler'[h][k])
               PROVE  Owns(h, sgts_by_handler'[h][k])
    BY <1>0, <1>1, <2>1, <2>2 DEF OwnerFound, Owns, InFile, inputs
  <2>3. CASE h # start_index \/ k \in DOMAIN sgts_by_handler[h]
    <3>1. k \in DOMAIN sgts_by_handler[h]
          /\ sgts_by_handler'[h][k] = sgts_by_handler[h][k]
      <4>1. CASE h # start_index
        BY <1>2, <1>4, <1>5, <4>1
      <4>2. CASE h = start_index
        <5>1. sgts_by_handler'[h] = Append(sgts_by_handler[h], indx)
          BY <1>2, <1>4, <1>5, <4>2
        <5>2. k \in DOMAIN sgts_by_handler[h]
          BY <2>3, <4>2
        <5> QED BY <1>2, <1>4, <4>2, <5>1, <5>2
      <4> QED BY <4>1, <4>2
    <3> QED BY <3>1 DEF IInv, OwnerFound
  <2>4. CASE h = start_index /\ k \notin DOMAIN sgts_by_handler[h]
    <3>1. sgts_by_handler'[h][k] = indx
      <4>1. sgts_by_handler'[h] = Append(sgts_by_handler[h], indx)
        BY <1>2, <1>4, <1>5, <2>4
      <4>2. k \in 1 .. L + 1 /\ k \notin 1 .. L
        BY <1>2, <1>4, <2>4, <4>1
      <4>3. k = L + 1
        BY <1>4, <4>2
      <4> QED BY <1>2, <1>4, <2>4, <4>1, <4>3
    <3>2. sgt_cutoffs[h] <= indx /\ indx < sgt_cutoffs[h + 1]
      <4>1. sgt_cutoffs \in [1 .. num_sgt_handlers -> Nat]
        BY <1>2 DEF IInv, CutoffsOK
      <4>2. h \in 1 .. num_sgt_handlers /\ h + 1 \in 1 .. num_sgt_handlers
        BY DEF Handlers, IInv, InputsOK
      <4>3. sgt_cutoffs[h] \in Nat
        BY <4>1, <4>2
      <4> QED BY <1>2, <2>4, <4>3 DEF Place, Right
    <3> QED BY <1>2, <3>1, <3>2, BetweenCutoffsOwns DEF IInv
  <2> QED BY <2>3, <2>4
<1>10. SearchOK' /\ CutoffsOK' /\ NeverAborts'
  <2>1. SearchOK' /\ NeverAborts'
    BY <1>0 DEF IInv, SearchOK, NeverAborts
  <2>2. CutoffsOK'
    BY <1>0, <1>1, <1>2 DEF IInv, CutoffsOK, inputs
  <2> QED BY <2>1, <2>2
<1> QED BY <1>1, <1>7, <1>8, <1>9, <1>10 DEF IInv

LEMMA AbortKeeps == IInv /\ Abort => IInv'
<1> SUFFICES ASSUME IInv, Abort PROVE IInv'
  OBVIOUS
<1>0. UNCHANGED inputs /\ pc' = "abort"
      /\ UNCHANGED <<sgt_cutoffs, placed, start_index, end_index>>
  BY DEF Abort
<1>1. InputsOK' /\ RoomOK' /\ OwnerFound' /\ (Good' <=> Good) /\ Handlers' = Handlers
      /\ nm' = nm /\ globnp' = globnp /\ (WellBlocked' <=> WellBlocked)
  BY <1>0, InputsKept, ListsKept DEF Abort
<1>2. ~Good /\ pc # "cutoffs"
  BY SearchOver DEF Abort
<1>3. NeverAborts'
  <2>1. NeverAborts' <=> (Good' => pc' # "abort")
    BY DEF NeverAborts, Good
  <2> QED BY <1>1, <1>2, <2>1
<1>4. TypeOK' /\ SearchOK' /\ CutoffsOK'
  BY <1>0, <1>1, <1>2 DEF IInv, TypeOK, SearchOK, CutoffsOK, Abort, inputs
<1> QED BY <1>1, <1>3, <1>4 DEF IInv

LEMMA FinishKeeps == IInv /\ Finish => IInv'
<1> SUFFICES ASSUME IInv, Finish PROVE IInv'
  OBVIOUS
<1>0. UNCHANGED inputs /\ pc = "next" /\ pc' = "done"
      /\ UNCHANGED <<sgt_cutoffs, placed, start_index, end_index>>
  BY DEF Finish
<1>1. InputsOK' /\ RoomOK' /\ OwnerFound' /\ Handlers' = Handlers
      /\ nm' = nm /\ globnp' = globnp /\ (WellBlocked' <=> WellBlocked)
  BY <1>0, InputsKept, ListsKept DEF Finish
<1>2. TypeOK' /\ SearchOK' /\ CutoffsOK' /\ NeverAborts'
  BY <1>0, <1>1 DEF IInv, TypeOK, SearchOK, CutoffsOK, NeverAborts, Finish, inputs
<1> QED BY <1>1, <1>2 DEF IInv

LEMMA StutterKeeps == IInv /\ UNCHANGED vars => IInv'
<1> SUFFICES ASSUME IInv, UNCHANGED vars PROVE IInv'
  OBVIOUS
<1>0. UNCHANGED inputs /\ pc' = pc /\ UNCHANGED <<sgts_by_handler, capacity>>
      /\ UNCHANGED <<sgt_cutoffs, placed, start_index, end_index>>
  BY DEF vars
<1>1. InputsOK' /\ RoomOK' /\ OwnerFound' /\ (Good' <=> Good) /\ Handlers' = Handlers
      /\ nm' = nm /\ globnp' = globnp /\ (WellBlocked' <=> WellBlocked)
  BY <1>0, InputsKept, ListsKept
<1>2. indx' = indx
  BY <1>0 DEF indx, inputs
<1>3. TypeOK' /\ SearchOK' /\ CutoffsOK'
  BY <1>0, <1>1, <1>2 DEF IInv, TypeOK, SearchOK, CutoffsOK, inputs
<1>4. NeverAborts'
  <2>1. (NeverAborts' <=> (Good' => pc' # "abort")) /\ (NeverAborts <=> (Good => pc # "abort"))
    BY DEF NeverAborts, Good
  <2> QED BY <1>0, <1>1, <2>1 DEF IInv
<1> QED BY <1>1, <1>3, <1>4 DEF IInv

(* The invariant above holds in every reachable state of run_synth's loop    *)
(* over the indices (synth.c).                                               *)
THEOREM Invariance == SafeSpec => []IInv
<1>1. IInv /\ [Next]_vars => IInv'
  BY BuildCutoffsKeeps, StartSearchKeeps, SearchKeeps, PlaceKeeps, AbortKeeps, FinishKeeps,
     StutterKeeps DEF Next
<1> QED BY InitKeeps, <1>1, PTL DEF SafeSpec

(* The search indices name blocks, and the lists hold indices, in every      *)
(* state.                                                                    *)
THEOREM TypeCorrect == SafeSpec => []TypeOK
<1>1. IInv => TypeOK
  BY DEF IInv
<1> QED BY Invariance, <1>1, PTL

(* Whatever the number of tensors and of handlers, run_synth never writes    *)
(* past the end of a list it has allocated, although it compares the count   *)
(* with a multiple of the step and not with what it has allocated.           *)
THEOREM NoOverrun == SafeSpec => []ListsHaveRoom
<1>1. IInv => ListsHaveRoom
  <2> SUFFICES ASSUME IInv, NEW h \in Handlers
               PROVE  Len(sgts_by_handler[h]) < capacity[h]
    BY DEF ListsHaveRoom
  <2>1. PICK q \in Nat : Room(q, Len(sgts_by_handler[h]), capacity[h])
    BY DEF IInv, RoomOK
  <2> QED BY <2>1 DEF Room
<1> QED BY Invariance, <1>1, PTL

(* The handler that get_handler_for_sgt_index finds is the one that read the *)
(* tensor, for every file whose indices ascend and every list of tensors.    *)
THEOREM FindsOwner == SafeSpec => []OwnerFound
<1>1. IInv => OwnerFound
  BY DEF IInv
<1> QED BY Invariance, <1>1, PTL

(* With no empty block, get_handler_for_sgt_index exits for no index of the  *)
(* file.                                                                     *)
THEOREM SearchSucceeds == SafeSpec => []NeverAborts
<1>1. IInv => NeverAborts
  BY DEF IInv
<1> QED BY Invariance, <1>1, PTL
-----------------------------------------------------------------------------
(* SgtRequests goes on where SgtBuckets ends: its behaviours are behaviours  *)
(* of SgtBuckets, and what holds there holds until the task is over.         *)
THEOREM KeepsBuckets == rqSafeSpec => SafeSpec
<1>1. rqInit => Init
  BY DEF rqInit
<1>2. [rqNext]_rqVars => [Next]_vars
  BY DEF rqNext, rqVars, Synth, Begin, NextChunk, NextHandler, NotFound, Request, ProcessSplit, rqFinish
<1> QED BY <1>1, <1>2, PTL DEF rqSafeSpec, SafeSpec
-----------------------------------------------------------------------------
(* A set of natural numbers has a least element, which is its Min. *)
LEMMA LeastElement ==
    ASSUME NEW S \in SUBSET Nat, S # {}
    PROVE  Min(S) \in S /\ \A x \in S : Min(S) <= x
<1>1. PICK x \in S : \A y \in S : ~(<<y, x>> \in OpToRel(<, Nat))
  BY NatLessThanWellFounded, WFMin
<1>2. \A y \in S : x <= y
  <2> SUFFICES ASSUME NEW y \in S, ~(x <= y) PROVE FALSE
    OBVIOUS
  <2>1. y < x /\ x \in Nat /\ y \in Nat
    OBVIOUS
  <2>2. <<y, x>> \in OpToRel(<, Nat)
    BY <2>1 DEF OpToRel
  <2> QED BY <1>1, <2>2
<1> QED BY <1>2 DEF Min

(* The handler that is asked has the part of its list that is asked for, or  *)
(* there is no handler left; the lists are complete when the requests begin. *)
ChunkOK == /\ request_from_handler_id \in 0 .. num_sgt_handlers
           /\ ending_index \in 0 .. Len(CurrentList)
           /\ starting_index \in Nat

RqInv == /\ needs \in Ruptures /\ max_points_per_request \in MaxPoints
         /\ rq_pc # "wait" => pc = "done"
         /\ rq_pc \in {"next", "request"} => ChunkOK
         /\ rq_pc = "wait" => starting_index = 0 /\ ending_index = 0
         /\ RequestFits

(* The lists the loop goes through are sequences, also those of handlers     *)
(* there are not.                                                            *)
LEMMA ListType == ASSUME TypeOK, NEW h PROVE Len(List(h)) \in Nat
<1>1. CASE h \in Handlers
  BY <1>1 DEF List, TypeOK
<1>2. CASE h \notin Handlers
  BY <1>2 DEF List
<1> QED BY <1>1, <1>2

(* The next handler is one with a list, or the number of handlers. *)
LEMMA NextHandlerHasList ==
    ASSUME InputsOK, TypeOK, NEW h \in 0 .. num_sgt_handlers + 1, NEW k, k = NextWithList(h)
    PROVE  /\ k \in 0 .. num_sgt_handlers
           /\ k < num_sgt_handlers => Len(List(k)) > 0
<1> DEFINE S == {j \in h .. num_sgt_handlers - 1 : List(j) # <<>>} \cup {num_sgt_handlers}
<1>1. num_sgt_handlers \in Nat
  BY DEF InputsOK
<1>2. S \in SUBSET Nat /\ S # {}
  BY <1>1
<1>3. k \in S
  <2> HIDE DEF S
  <2>1. Min(S) \in S
    BY <1>2, LeastElement
  <2> QED BY <2>1 DEF NextWithList, S
<1>4. ASSUME k < num_sgt_handlers PROVE Len(List(k)) > 0
  <2>1. List(k) # <<>>
    BY <1>1, <1>3, <1>4
  <2>2. k \in Handlers
    BY <2>1 DEF List
  <2>3. List(k) \in Seq(Nat)
    BY <2>2 DEF List, TypeOK
  <2> QED BY <2>1, <2>3
<1> QED BY <1>1, <1>3, <1>4

(* Where a request ends: not past the list, not past the buffers, and after  *)
(* its start if anything is left.                                            *)
LEMMA ChunkEndFits ==
    ASSUME TypeOK, max_points_per_request \in Nat \ {0}, NEW h,
           NEW s \in Nat, s < Len(List(h))
    PROVE  /\ ChunkEnd(h, s) \in 0 .. Len(List(h))
           /\ s < ChunkEnd(h, s)
           /\ ChunkEnd(h, s) - s <= max_points_per_request
<1> DEFINE n == Len(List(h))
           e == ChunkEnd(h, s)
           S == {s + max_points_per_request, n}
<1>1. n \in Nat
  BY ListType
<1>2. e \in S /\ \A x \in S : e <= x
  <2> HIDE DEF n
  <2>1. S \in SUBSET Nat /\ S # {}
    BY <1>1
  <2>2. e = Min(S)
    BY DEF ChunkEnd, n
  <2> HIDE DEF S, e
  <2> QED BY <2>1, <2>2, LeastElement
<1> HIDE DEF n, e
<1>3. e \in 0 .. n /\ s < e /\ e - s <= max_points_per_request
  BY <1>1, <1>2 DEF n
<1> QED BY <1>3 DEF n, e

LEMMA RqInitKeeps == rqInit => RqInv
BY DEF rqInit, RqInv, RequestFits

LEMMA RqStepKeeps == IInv /\ RqInv /\ [rqNext]_rqVars => RqInv'
<1> SUFFICES ASSUME IInv, RqInv, [rqNext]_rqVars PROVE RqInv'
  OBVIOUS
<1> USE DEF RqInv, RequestFits
<1>0. /\ InputsOK /\ TypeOK /\ max_points_per_request \in Nat \ {0}
      /\ num_sgt_handlers \in Nat \ {0, 1}
  BY SgtRequestsAssumption DEF IInv, InputsOK
<1>a. ASSUME UNCHANGED <<inputs, sgts_by_handler>>
      PROVE  \A h : List(h)' = List(h)
  BY <1>a DEF List, Handlers, inputs
<1>1. CASE Begin
  <2>1. request_from_handler_id' \in 0 .. num_sgt_handlers
    <3>1. 0 \in 0 .. num_sgt_handlers + 1
      BY <1>0
    <3> QED BY <1>0, <1>1, <3>1, NextHandlerHasList DEF Begin
  <2>2. Len(CurrentList') \in Nat
    <3>1. CurrentList' = List(request_from_handler_id')
      BY <1>1 DEF Begin, CurrentList, List, Handlers, vars, inputs
    <3> QED BY <1>0, <3>1, ListType
  <2> QED BY <1>1, <2>1, <2>2 DEF Begin, ChunkOK, rqInputs, vars, inputs
<1>2. CASE NextChunk
  <2>1. /\ ChunkOK /\ ending_index # Len(CurrentList)
        /\ starting_index' = ending_index
        /\ ending_index' = ChunkEnd(request_from_handler_id, ending_index)
    BY <1>2 DEF NextChunk
  <2>2. Len(CurrentList) \in Nat /\ CurrentList = List(request_from_handler_id)
    BY <1>0, ListType DEF CurrentList
  <2>3. ending_index \in Nat /\ ending_index < Len(List(request_from_handler_id))
    BY <2>1, <2>2 DEF ChunkOK
  <2>4. /\ ending_index' \in 0 .. Len(CurrentList) /\ starting_index' < ending_index'
        /\ ending_index' - starting_index' <= max_points_per_request
    BY <1>0, <2>1, <2>2, <2>3, ChunkEndFits
  <2>5. CurrentList' = CurrentList
    BY <1>2, <1>a DEF NextChunk, CurrentList, vars, List, Handlers, inputs
  <2> QED BY <1>2, <2>1, <2>2, <2>3, <2>4, <2>5 DEF NextChunk, ChunkOK, rqInputs, vars, inputs
<1>3. CASE NextHandler
  <2> DEFINE h == NextWithList(request_from_handler_id + 1)
  <2>1. ChunkOK /\ request_from_handler_id + 1 \in 0 .. num_sgt_handlers + 1
    BY <1>0, <1>3 DEF NextHandler, ChunkOK
  <2>2. h \in 0 .. num_sgt_handlers /\ (h < num_sgt_handlers => Len(List(h)) > 0)
    BY <1>0, <2>1, NextHandlerHasList
  <2>3. request_from_handler_id' = h
    BY <1>3 DEF NextHandler
  <2> HIDE DEF h
  <2>4. CASE h >= num_sgt_handlers
    BY <1>0, <1>3, <2>2, <2>4 DEF NextHandler, h, rqInputs, vars, inputs
  <2>5. CASE h < num_sgt_handlers
    <3>1. /\ starting_index' = 0 /\ ending_index' = ChunkEnd(h, 0)
      BY <1>0, <1>3, <2>2, <2>5 DEF NextHandler, h
    <3>2. /\ ending_index' \in 0 .. Len(List(h)) /\ 0 < ending_index'
          /\ ending_index' - 0 <= max_points_per_request
      BY <1>0, <2>2, <2>5, <3>1, ChunkEndFits
    <3>3. CurrentList' = List(h)
      BY <1>3, <2>3 DEF NextHandler, CurrentList, vars, List, Handlers, inputs
    <3> QED BY <1>3, <2>1, <2>2, <2>3, <3>1, <3>2, <3>3
            DEF NextHandler, ChunkOK, rqInputs, vars, inputs
  <2> QED BY <1>0, <2>2, <2>4, <2>5
<1>4. CASE NotFound \/ Request
  <2>1. CurrentList' = CurrentList
    BY <1>4 DEF NotFound, Request, chunkVars, CurrentList, vars, List, Handlers, inputs
  <2> QED BY <1>4, <2>1 DEF NotFound, Request, ChunkOK, chunkVars, rqInputs, vars, inputs
<1>5. CASE ProcessSplit \/ rqFinish
  BY <1>5 DEF ProcessSplit, rqFinish, chunkVars, rqInputs, vars, inputs
<1>6. CASE Next /\ UNCHANGED <<rqInputs, rq_pc, chunkVars, srf_pts_used, splitVars, nsplit,
                               processed>>
  <2>1. pc # "done"
    BY <1>6 DEF Next, BuildCutoffs, StartSearch, Search, Place, Abort, Finish, Found
  <2> QED BY <1>6, <2>1 DEF rqInputs, chunkVars
<1>7. CASE UNCHANGED rqVars
  <2>1. CurrentList' = CurrentList
    BY <1>7 DEF rqVars, chunkVars, CurrentList, vars, List, Handlers, inputs
  <2> QED BY <1>7, <2>1 DEF rqVars, ChunkOK, chunkVars, rqInputs, vars, inputs
<1> QED BY <1>1, <1>2, <1>3, <1>4, <1>5, <1>6, <1>7 DEF rqNext, Synth

(* However a rupture's tensors lie on the handlers and whatever fits into a  *)
(* request, jbsim3d_synth never asks for an empty part of a list, for more   *)
(* than sgthead and sgtbuf hold, or for entries past the end of the list.    *)
THEOREM RequestsFit == rqSafeSpec => []RequestFits
<1>1. SafeSpec => []IInv
  BY Invariance
<1>2. RqInv => RequestFits
  BY DEF RqInv
<1> QED BY <1>1, <1>2, KeepsBuckets, RqInitKeeps, RqStepKeeps, PTL DEF rqSafeSpec
-----------------------------------------------------------------------------
(* The order of the lists.  A binary search that starts at a = <<1, n>>      *)
(* turns left or right at the middle; of two indices, the smaller never      *)
(* turns right where the larger turns left, whatever the cutoffs are.  So an *)
(* index is never placed before one that has been placed already.            *)
Middle(a) == (a[1] + a[2]) \div 2
Open(a) == a[2] > a[1] + 1
Turn(x, a) == LET m == Middle(a)
              IN  IF x > sgt_cutoffs[m] THEN <<m, a[2]>>
                  ELSE IF x < sgt_cutoffs[m] THEN <<a[1], m>>
                  ELSE <<m, m + 1>>

Nodes == (1 .. num_sgt_handlers) \X (1 .. num_sgt_handlers)
Trail(t, k, x) == /\ t \in [0 .. k -> Nodes]
                  /\ t[0] = <<1, num_sgt_handlers>>
                  /\ \A i \in 0 .. k - 1 : Open(t[i]) /\ t[i + 1] = Turn(x, t[i])
Reaches(x, a) == \E k \in Nat : \E t : Trail(t, k, x) /\ t[k] = a

Placed(h, k) == sgts_by_handler[h][k]
Before(g, i, h, j) == g < h \/ (g = h /\ i < j)

Trails == /\ \A h \in Handlers : \A k \in DOMAIN sgts_by_handler[h] :
                 Reaches(Placed(h, k), <<h, h + 1>>)
          /\ pc \in {"search", "verify"} => Reaches(indx, <<start_index, end_index>>)
Ordered == \A g, h \in Handlers :
    \A i \in DOMAIN sgts_by_handler[g], j \in DOMAIN sgts_by_handler[h] :
        Before(g, i, h, j) => Placed(g, i) < Placed(h, j)
Members == /\ \A h \in Handlers : \A k \in DOMAIN sgts_by_handler[h] :
                  \E m \in 1 .. placed : Placed(h, k) = indx_master[m]
           /\ \A m \in 1 .. placed :
                  \E h \in Handlers : \E k \in DOMAIN sgts_by_handler[h] :
                      Placed(h, k) = indx_master[m]
Listed == FlattenSeq(sgts_by_handler) = SubSeq(indx_master, 1, placed)

OInv == /\ Ascending(indx_master)
        /\ pc = "cutoffs" => placed = 0
        /\ pc = "done" => placed = nm
        /\ Trails /\ Ordered /\ Members /\ Listed
-----------------------------------------------------------------------------
(* Induction from m to n: what is in S at m and goes on from one to the next *)
LEMMA UpTo ==
    ASSUME NEW m \in Nat, NEW n \in Nat, NEW S, m \in S,
           \A i \in m .. n - 1 : i \in S => i + 1 \in S
    PROVE  \A i \in m .. n : i \in S
<1> DEFINE T == {i \in m .. n : i \notin S}
<1>1. SUFFICES ASSUME T # {} PROVE FALSE
  OBVIOUS
<1>2. T \in SUBSET Nat
  OBVIOUS
<1> DEFINE k == Min(T)
<1>3. k \in T /\ \A y \in T : k <= y
  BY <1>1, <1>2, LeastElement
<1> HIDE DEF k
<1>4. k # m /\ k - 1 \in m .. n - 1 /\ k - 1 \notin T /\ (k - 1) + 1 = k
  BY <1>3
<1>5. QED
  BY <1>3, <1>4

(* A node of a search lies within those before it. *)
LEMMA NodeFacts ==
    ASSUME NEW a \in (Nat \X Nat)
    PROVE  /\ a = <<a[1], a[2]>> /\ a[1] \in Nat /\ a[2] \in Nat
           /\ Open(a) => /\ Middle(a) \in Nat /\ a[1] < Middle(a) /\ Middle(a) < a[2]
                         /\ \A x : \/ Turn(x, a) = <<Middle(a), a[2]>>
                                   \/ Turn(x, a) = <<a[1], Middle(a)>>
                                   \/ Turn(x, a) = <<Middle(a), Middle(a) + 1>>
  BY DEF Open, Middle, Turn

LEMMA Narrower ==
    ASSUME InputsOK, NEW x, NEW k \in Nat, NEW t, Trail(t, k, x), NEW i \in 0 .. k, NEW j \in i .. k
    PROVE  t[i][1] <= t[j][1] /\ t[j][2] <= t[i][2]
<1> DEFINE S == {m \in i .. k : t[i][1] <= t[m][1] /\ t[m][2] <= t[i][2]}
<1>1. \A m \in 0 .. k : t[m] \in Nat \X Nat
  BY DEF Trail, Nodes, InputsOK
<1>2. i \in S
  BY <1>1, NodeFacts
<1>3. ASSUME NEW m \in i .. k - 1, m \in S PROVE m + 1 \in S
  <2>1. t[m] \in Nat \X Nat /\ t[m + 1] \in Nat \X Nat /\ t[i] \in Nat \X Nat
    BY <1>1
  <2>2. Open(t[m]) /\ t[m + 1] = Turn(x, t[m])
    BY DEF Trail
  <2>3. t[m][1] <= t[m + 1][1] /\ t[m + 1][2] <= t[m][2]
    BY <2>1, <2>2, NodeFacts
  <2>4. QED
    BY <1>3, <2>1, <2>3, NodeFacts
<1>4. j \in S
  <2> HIDE DEF S
  <2>1. QED
    BY <1>2, <1>3, UpTo
<1>5. QED
  BY <1>4

LEMMA NoCrossing ==
    ASSUME InputsOK, sgt_cutoffs \in [1 .. num_sgt_handlers -> Nat],
           NEW x \in Nat, NEW y \in Nat, x < y, NEW g \in Nat, NEW h \in Nat,
           Reaches(x, <<g, g + 1>>), Reaches(y, <<h, h + 1>>)
    PROVE  g <= h
<1>1. PICK k \in Nat : \E t : Trail(t, k, x) /\ t[k] = <<g, g + 1>>
  BY DEF Reaches
<1>2. PICK t : Trail(t, k, x) /\ t[k] = <<g, g + 1>>
  BY <1>1
<1>3. PICK l \in Nat : \E u : Trail(u, l, y) /\ u[l] = <<h, h + 1>>
  BY DEF Reaches
<1>4. PICK u : Trail(u, l, y) /\ u[l] = <<h, h + 1>>
  BY <1>3
<1> DEFINE D == {i \in 0 .. k : i <= l /\ t[i] # u[i]}
<1>5. CASE D = {}
  <2>1. CASE k <= l
    <3>1. u[k] = <<g, g + 1>> /\ k \in 0 .. l /\ l \in k .. l
      BY <1>2, <1>5, <2>1
    <3>2. u[k][1] <= u[l][1]
      BY <1>4, <3>1, Narrower
    <3>3. QED
      BY <1>4, <3>1, <3>2
  <2>2. CASE l <= k
    <3>1. t[l] = <<h, h + 1>> /\ l \in 0 .. k /\ k \in l .. k
      BY <1>4, <1>5, <2>2
    <3>2. t[k][2] <= t[l][2]
      BY <1>2, <3>1, Narrower
    <3>3. QED
      BY <1>2, <3>1, <3>2
  <2>3. QED
    BY <2>1, <2>2
<1>6. CASE D # {}
  <2> DEFINE i == Min(D)
  <2>1. D \in SUBSET Nat
    OBVIOUS
  <2>2. i \in D /\ \A j \in D : i <= j
    BY <1>6, <2>1, LeastElement
  <2> HIDE DEF i
  <2>2a. /\ i \in 0 .. k /\ i <= l /\ t[i] # u[i]
         /\ \A j \in 0 .. k : j <= l /\ t[j] # u[j] => i <= j
    BY <2>2
  <2> HIDE DEF D
  <2>3. i \in 1 .. k /\ i \in 1 .. l /\ t[i] # u[i]
    <3>1. t[0] = u[0]
      BY <1>2, <1>4 DEF Trail
    <3>2. i # 0
      BY <2>2a, <3>1
    <3>3. QED
      BY <2>2a, <3>2
  <2>4. i - 1 \in 0 .. k - 1 /\ i - 1 \in 0 .. l - 1 /\ (i - 1) + 1 = i /\ t[i - 1] = u[i - 1]
    <3>1. i - 1 \in 0 .. k - 1 /\ i - 1 \in 0 .. l - 1 /\ (i - 1) + 1 = i
      BY <2>3
    <3>2. i - 1 \in 0 .. k /\ i - 1 <= l /\ ~(i <= i - 1)
      BY <2>3
    <3>3. t[i - 1] = u[i - 1]
      BY <2>2a, <3>2
    <3>4. QED
      BY <3>1, <3>3
  <2> DEFINE a == t[i - 1]
  <2>5. /\ a \in Nodes /\ Open(a) /\ t[i] = Turn(x, a) /\ u[i] = Turn(y, a)
    BY <1>2, <1>4, <2>3, <2>4 DEF Trail
  <2> HIDE DEF a
  <2>6. a \in Nat \X Nat /\ Middle(a) \in 1 .. num_sgt_handlers
    <3>1. num_sgt_handlers \in Nat
      BY DEF InputsOK
    <3>2. a[1] \in 1 .. num_sgt_handlers /\ a[2] \in 1 .. num_sgt_handlers
      BY <2>5 DEF Nodes
    <3>3. a \in Nat \X Nat
      BY <2>5, <3>1 DEF Nodes
    <3>4. Middle(a) \in Nat /\ a[1] < Middle(a) /\ Middle(a) < a[2]
      BY <2>5, <3>3, NodeFacts
    <3> DEFINE m == Middle(a)
               b == a[1]
               c == a[2]
    <3>5. /\ m \in Nat /\ b < m /\ m < c
          /\ b \in 1 .. num_sgt_handlers /\ c \in 1 .. num_sgt_handlers
      BY <3>2, <3>4
    <3> HIDE DEF m, b, c
    <3>6. m \in 1 .. num_sgt_handlers
      BY <3>1, <3>5
    <3>7. QED
      BY <3>3, <3>6 DEF m
  <2>7. sgt_cutoffs[Middle(a)] \in Nat
    BY <2>6
  <2>8. /\ t[i] = <<a[1], Middle(a)>> \/ t[i] = <<Middle(a), Middle(a) + 1>>
        /\ u[i] = <<Middle(a), a[2]>> \/ u[i] = <<Middle(a), Middle(a) + 1>>
    BY <2>3, <2>5, <2>7 DEF Turn
  <2>9. t[i][2] <= Middle(a) + 1 /\ u[i][1] = Middle(a)
    BY <2>6, <2>8
  <2>10. t[k][2] <= t[i][2] /\ u[i][1] <= u[l][1]
    <3>1. i \in 0 .. k /\ k \in i .. k /\ i \in 0 .. l /\ l \in i .. l
      BY <2>3
    <3>2. QED
      BY <1>2, <1>4, <3>1, Narrower
  <2>11. QED
    BY <1>2, <1>4, <2>6, <2>8, <2>9, <2>10
<1>7. QED
  BY <1>5, <1>6
-----------------------------------------------------------------------------
(* The lists, one after the other: FlattenSeq by the parts it is made from.  *)
Grown(s, n, f) == f[1] = s[1] /\ \A i \in 2 .. n : f[i] = f[i - 1] \o s[i]
Parts(s, n, f) == f \in [1 .. n -> Seq(Nat)] /\ Grown(s, n, f)

LEMMA PartsExist ==
    ASSUME NEW n \in Nat \ {0}, NEW s \in [1 .. n -> Seq(Nat)]
    PROVE  \E f : Parts(s, n, f)
<1> DEFINE S == {k \in 1 .. n : \E f : Parts(s, k, f)}
<1>1. 1 \in S
  <2>1. Parts(s, 1, [i \in 1 .. 1 |-> s[1]])
    BY DEF Parts, Grown
  <2>2. QED
    BY <2>1
<1>2. ASSUME NEW k \in 1 .. n - 1, NEW g, Parts(s, k, g) PROVE \E f : Parts(s, k + 1, f)
  <2> DEFINE c == g[k] \o s[k + 1]
             f == [i \in 1 .. k + 1 |-> IF i = k + 1 THEN c ELSE g[i]]
  <2>1. k \in 1 .. k /\ g[k] \in Seq(Nat) /\ s[k + 1] \in Seq(Nat)
    BY <1>2 DEF Parts, Grown
  <2>2. c \in Seq(Nat)
    BY <2>1, ConcatProperties
  <2>2a. c = g[k] \o s[k + 1]
    OBVIOUS
  <2> HIDE DEF c
  <2>3. f \in [1 .. k + 1 -> Seq(Nat)]
    BY <1>2, <2>2 DEF Parts, Grown
  <2>4. f[1] = s[1]
    BY <1>2 DEF Parts, Grown
  <2>5. f[k + 1] = c /\ \A i \in 1 .. k : f[i] = g[i]
    BY <1>2
  <2> HIDE DEF f
  <2>6. ASSUME NEW i \in 2 .. k + 1 PROVE f[i] = f[i - 1] \o s[i]
    <3>1. CASE i = k + 1
      <4>1. i - 1 = k /\ f[k] = g[k]
        BY <2>5, <3>1
      <4>2. QED
        BY <2>2a, <2>5, <3>1, <4>1, Zenon
    <3>2. CASE i # k + 1
      <4>1. i \in 2 .. k /\ f[i] = g[i] /\ f[i - 1] = g[i - 1]
        BY <2>5, <2>6, <3>2
      <4>2. g[i] = g[i - 1] \o s[i]
        BY <1>2, <4>1 DEF Parts, Grown
      <4>3. QED
        BY <4>1, <4>2, Zenon
    <3>3. QED
      BY <3>1, <3>2
  <2>7. QED
    BY <2>3, <2>4, <2>6 DEF Parts, Grown
<1>3. \A k \in 1 .. n - 1 : k \in S => k + 1 \in S
  BY <1>2
<1>4. n \in S
  <2>1. 1 \in Nat /\ n \in Nat /\ n \in 1 .. n
    OBVIOUS
  <2> HIDE DEF S
  <2>2. QED
    BY <1>1, <1>3, <2>1, UpTo
<1>5. QED
  BY <1>4

LEMMA PartsUnique ==
    ASSUME NEW n \in Nat \ {0}, NEW s, NEW f, Grown(s, n, f), NEW g, Grown(s, n, g)
    PROVE  g[n] = f[n]
<1> DEFINE S == {i \in 1 .. n : g[i] = f[i]}
<1>1. 1 \in S
  BY DEF Grown
<1>2. ASSUME NEW k \in 1 .. n - 1, k \in S PROVE k + 1 \in S
  <2>1. k + 1 \in 2 .. n /\ (k + 1) - 1 = k /\ g[k] = f[k]
    BY <1>2
  <2>2. g[k + 1] = g[k] \o s[k + 1]
    BY <2>1 DEF Grown
  <2>3. f[k + 1] = f[k] \o s[k + 1]
    BY <2>1 DEF Grown
  <2>4. g[k + 1] = f[k + 1]
    BY <2>1, <2>2, <2>3, Zenon
  <2>5. QED
    BY <2>1, <2>4
<1>3. n \in S
  <2>1. 1 \in Nat /\ n \in Nat /\ n \in 1 .. n
    OBVIOUS
  <2> HIDE DEF S
  <2>2. QED
    BY <1>1, <1>2, <2>1, UpTo
<1>4. QED
  BY <1>3

LEMMA FlattenIsParts ==
    ASSUME NEW n \in Nat \ {0}, NEW s \in [1 .. n -> Seq(Nat)], NEW f, Parts(s, n, f)
    PROVE  FlattenSeq(s) = f[n]
<1>1. Len(s) = n /\ Len(s) # 0
  OBVIOUS
<1> DEFINE Body(g) == [i \in 1 .. Len(s) |-> IF i = 1 THEN s[i] ELSE g[i - 1] \o s[i]]
           c == CHOOSE g : g = [i \in 1 .. Len(s) |-> IF i = 1 THEN s[i] ELSE g[i - 1] \o s[i]]
<1>2. f = Body(f)
  <2>1. f \in [1 .. n -> Seq(Nat)]
    BY DEF Parts, Grown
  <2>2. f[1] = s[1] /\ \A i \in 1 .. n : i # 1 => f[i] = f[i - 1] \o s[i]
    <3>1. \A i \in 1 .. n : i # 1 => i \in 2 .. n
      OBVIOUS
    <3>2. QED
      BY <3>1 DEF Parts, Grown
  <2>3. QED
    BY <1>1, <2>1, <2>2
<1>3. c = Body(c)
  BY <1>2, Zenon
<1>4. FlattenSeq(s) = c[n]
  BY <1>1 DEF FlattenSeq
<1> HIDE DEF c
<1>5. c[1] = s[1] /\ \A i \in 2 .. n : c[i] = c[i - 1] \o s[i]
  <2>1. \A i \in 1 .. n : c[i] = IF i = 1 THEN s[i] ELSE c[i - 1] \o s[i]
    BY <1>1, <1>3
  <2>2. 1 \in 1 .. n /\ \A i \in 2 .. n : i \in 1 .. n /\ i # 1
    OBVIOUS
  <2>3. QED
    BY <2>1, <2>2
<1>6. c[n] = f[n]
  <2>1. Grown(s, n, c) /\ Grown(s, n, f)
    BY <1>5 DEF Parts, Grown
  <2>2. QED
    BY <2>1, PartsUnique
<1>7. QED
  BY <1>4, <1>6

LEMMA FlattenEmpty ==
    ASSUME NEW n \in Nat \ {0}, NEW s, s = [i \in 1 .. n |-> <<>>]
    PROVE  FlattenSeq(s) = <<>>
<1>1. <<>> \in Seq(Nat)
  OBVIOUS
<1>2. s \in [1 .. n -> Seq(Nat)] /\ s[1] = <<>> /\ s[n] = <<>>
  BY <1>1
<1>3. \A i \in 2 .. n : s[i] = <<>> /\ s[i - 1] = <<>>
  OBVIOUS
<1>4. <<>> \o <<>> = <<>>
  BY <1>1, ConcatEmptySeq
<1>5. \A i \in 2 .. n : s[i] = s[i - 1] \o s[i]
  BY <1>3, <1>4, Zenon
<1>6. Parts(s, n, s)
  BY <1>2, <1>5, Zenon DEF Parts, Grown
<1>7. FlattenSeq(s) = s[n]
  BY <1>2, <1>6, FlattenIsParts
<1>8. QED
  BY <1>2, <1>7

LEMMA JoinAppend ==
    ASSUME NEW a \in Seq(Nat), NEW b \in Seq(Nat), NEW x \in Nat
    PROVE  Append(a \o b, x) = a \o Append(b, x)
<1> DEFINE c == Append(a \o b, x)
           d == a \o Append(b, x)
<1>1. /\ a \o b \in Seq(Nat) /\ Len(a \o b) = Len(a) + Len(b)
      /\ Append(b, x) \in Seq(Nat) /\ Len(Append(b, x)) = Len(b) + 1
  OBVIOUS
<1>2. /\ c \in Seq(Nat) /\ Len(c) = Len(a) + Len(b) + 1
      /\ d \in Seq(Nat) /\ Len(d) = Len(a) + Len(b) + 1
  BY <1>1
<1>3. ASSUME NEW i \in 1 .. Len(c) PROVE c[i] = d[i]
  BY <1>1, <1>2
<1> HIDE DEF c, d
<1>4. c = d
  BY <1>2, <1>3, SeqEqual
<1>5. QED
  BY <1>4 DEF c, d

(* What is put at the end of the last list that is not empty is at the end.  *)
GrowsAt(s, r, n, h, x) == /\ s \in [1 .. n -> Seq(Nat)] /\ h \in 1 .. n
                          /\ \A g \in h + 1 .. n : s[g] = <<>>
                          /\ r = [s EXCEPT ![h] = Append(s[h], x)]

LEMMA FlattenAppend ==
    ASSUME NEW n \in Nat \ {0}, NEW x \in Nat, NEW s, NEW r, NEW h, GrowsAt(s, r, n, h, x)
    PROVE  FlattenSeq(r) = Append(FlattenSeq(s), x)
<1>0. s \in [1 .. n -> Seq(Nat)] /\ h \in 1 .. n
  BY DEF GrowsAt
<1> USE <1>0
<1>1. PICK f : Parts(s, n, f)
  BY <1>0, PartsExist
<1> DEFINE e == [i \in 1 .. n |-> IF i < h THEN f[i] ELSE Append(f[i], x)]
<1>2. f \in [1 .. n -> Seq(Nat)] /\ s[h] \in Seq(Nat)
  BY <1>1 DEF Parts
<1>3. e \in [1 .. n -> Seq(Nat)] /\ r \in [1 .. n -> Seq(Nat)]
  BY <1>2, AppendProperties DEF GrowsAt
<1>4. /\ \A i \in 1 .. n : i < h => e[i] = f[i]
      /\ \A i \in 1 .. n : ~(i < h) => e[i] = Append(f[i], x)
  OBVIOUS
<1>5. /\ \A i \in 1 .. n : i # h => r[i] = s[i]
      /\ r[h] = Append(s[h], x)
  BY DEF GrowsAt
<1> HIDE DEF e
<1>6. e[1] = r[1]
  <2>1. f[1] = s[1] /\ 1 \in 1 .. n
    BY <1>1 DEF Parts, Grown
  <2>2. CASE 1 < h
    <3>1. e[1] = f[1] /\ r[1] = s[1]
      BY <1>4, <1>5, <2>1, <2>2
    <3>2. QED
      BY <2>1, <3>1
  <2>3. CASE h = 1
    <3>1. e[1] = Append(f[1], x) /\ r[1] = Append(s[1], x)
      BY <1>4, <1>5, <2>1, <2>3
    <3>2. QED
      BY <2>1, <3>1
  <2>4. QED
    BY <2>2, <2>3
<1>7. ASSUME NEW i \in 2 .. n PROVE e[i] = e[i - 1] \o r[i]
  <2>1. i \in 1 .. n /\ i - 1 \in 1 .. n
    OBVIOUS
  <2>2. f[i] = f[i - 1] \o s[i]
    BY <1>1 DEF Parts, Grown
  <2>3. f[i] \in Seq(Nat) /\ f[i - 1] \in Seq(Nat) /\ s[i] \in Seq(Nat)
    BY <1>2, <2>1
  <2>4. CASE i < h
    <3>1. e[i] = f[i] /\ e[i - 1] = f[i - 1] /\ r[i] = s[i]
      BY <1>4, <1>5, <2>1, <2>4
    <3>2. QED
      BY <2>2, <3>1, Zenon
  <2>5. CASE i = h
    <3>1. ~(i < h) /\ i - 1 < h
      BY <2>5
    <3>2. e[i] = Append(f[i], x) /\ e[i - 1] = f[i - 1] /\ r[i] = Append(s[i], x)
      BY <1>4, <1>5, <2>1, <2>5, <3>1, Zenon
    <3>3. Append(f[i - 1] \o s[i], x) = f[i - 1] \o Append(s[i], x)
      BY <2>3, JoinAppend
    <3>4. QED
      BY <2>2, <3>2, <3>3, Zenon
  <2>6. CASE i > h
    <3>1. ~(i < h) /\ ~(i - 1 < h) /\ i # h /\ i \in h + 1 .. n
      BY <2>1, <2>6
    <3>2. /\ e[i] = Append(f[i], x) /\ e[i - 1] = Append(f[i - 1], x)
          /\ r[i] = s[i] /\ s[i] = <<>>
      BY <1>4, <1>5, <2>1, <3>1, Zenon DEF GrowsAt
    <3>3. Append(f[i - 1], x) \in Seq(Nat)
      BY <2>3, AppendProperties
    <3>4. f[i - 1] \o <<>> = f[i - 1] /\ Append(f[i - 1], x) \o <<>> = Append(f[i - 1], x)
      BY <2>3, <3>3, ConcatEmptySeq
    <3>5. f[i] = f[i - 1]
      BY <2>2, <3>2, <3>4, Zenon
    <3>6. QED
      BY <3>2, <3>4, <3>5, Zenon
  <2>7. i < h \/ i = h \/ i > h
    OBVIOUS
  <2>8. QED
    BY <2>4, <2>5, <2>6, <2>7, Zenon
<1>8. Parts(r, n, e)
  BY <1>3, <1>6, <1>7, Zenon DEF Parts, Grown
<1>9. FlattenSeq(s) = f[n] /\ FlattenSeq(r) = e[n]
  BY <1>1, <1>3, <1>8, FlattenIsParts
<1>10. e[n] = Append(f[n], x)
  <2>1. n \in 1 .. n /\ ~(n < h)
    OBVIOUS
  <2>2. QED
    BY <1>4, <2>1, Zenon
<1>11. QED
  BY <1>9, <1>10
-----------------------------------------------------------------------------
LEMMA ReachesKept ==
    ASSUME UNCHANGED <<sgt_cutoffs, num_sgt_handlers>>
    PROVE  \A x, a : Reaches(x, a)' <=> Reaches(x, a)
  BY DEF Reaches, Trail, Nodes, Turn, Middle, Open

LEMMA ReachesRoot == ASSUME InputsOK PROVE \A x : Reaches(x, <<1, num_sgt_handlers>>)
<1> SUFFICES ASSUME NEW x PROVE Reaches(x, <<1, num_sgt_handlers>>)
  OBVIOUS
<1> DEFINE t == [i \in 0 .. 0 |-> <<1, num_sgt_handlers>>]
<1>1. <<1, num_sgt_handlers>> \in Nodes
  BY DEF Nodes, InputsOK
<1>2. Trail(t, 0, x) /\ t[0] = <<1, num_sgt_handlers>>
  BY <1>1 DEF Trail
<1>3. QED
  BY <1>2 DEF Reaches

LEMMA ReachesNext ==
    ASSUME NEW x, NEW a, Reaches(x, a), Open(a), Turn(x, a) \in Nodes
    PROVE  Reaches(x, Turn(x, a))
<1>1. PICK k \in Nat : \E t : Trail(t, k, x) /\ t[k] = a
  BY DEF Reaches
<1>2. PICK t : Trail(t, k, x) /\ t[k] = a
  BY <1>1
<1> DEFINE b == Turn(x, a)
           u == [i \in 0 .. k + 1 |-> IF i = k + 1 THEN b ELSE t[i]]
<1>3. b \in Nodes /\ b = Turn(x, a)
  OBVIOUS
<1> HIDE DEF b
<1>4. u[k + 1] = b /\ \A i \in 0 .. k : u[i] = t[i]
  OBVIOUS
<1>5. u \in [0 .. k + 1 -> Nodes]
  BY <1>2, <1>3 DEF Trail
<1> HIDE DEF u
<1>6. ASSUME NEW i \in 0 .. (k + 1) - 1 PROVE Open(u[i]) /\ u[i + 1] = Turn(x, u[i])
  <2>1. CASE i = k
    BY <1>2, <1>3, <1>4, <2>1
  <2>2. CASE i # k
    <3>1. i \in 0 .. k - 1 /\ i \in 0 .. k /\ i + 1 \in 0 .. k
      BY <2>2
    <3>2. u[i] = t[i] /\ u[i + 1] = t[i + 1] /\ Open(t[i]) /\ t[i + 1] = Turn(x, t[i])
      BY <1>2, <1>4, <3>1 DEF Trail
    <3>3. QED
      BY <3>2
  <2>3. QED
    BY <2>1, <2>2
<1>7. u[0] = <<1, num_sgt_handlers>>
  BY <1>2, <1>4 DEF Trail
<1>8. Trail(u, k + 1, x)
  BY <1>5, <1>6, <1>7 DEF Trail
<1>9. QED
  BY <1>3, <1>4, <1>8 DEF Reaches

LEMMA InitOrder == Init => OInv
<1> SUFFICES ASSUME Init PROVE OInv
  OBVIOUS
<1>1. /\ pc = "cutoffs" /\ placed = 0 /\ num_sgt_handlers \in Nat \ {0, 1}
      /\ indx_master \in Seq(Nat) /\ Ascending(indx_master)
      /\ sgts_by_handler = [h \in Handlers |-> <<>>]
  BY SgtBucketsAssumption DEF Init
<1>2. \A h \in Handlers : DOMAIN sgts_by_handler[h] = {}
  BY <1>1
<1>3. Trails /\ Ordered /\ Members
  BY <1>1, <1>2 DEF Trails, Ordered, Members
<1>4. Listed
  <2>1. num_sgt_handlers - 1 \in Nat \ {0} /\ Handlers = 1 .. num_sgt_handlers - 1
    BY <1>1 DEF Handlers
  <2>2. FlattenSeq(sgts_by_handler) = <<>>
    BY <1>1, <2>1, FlattenEmpty
  <2>3. SubSeq(indx_master, 1, 0) = <<>>
    BY SubSeqEmpty
  <2>4. QED
    BY <1>1, <2>2, <2>3 DEF Listed
<1>5. QED
  BY <1>1, <1>3, <1>4 DEF OInv

LEMMA OrderKept ==
    ASSUME OInv, UNCHANGED <<inputs, sgt_cutoffs, placed, sgts_by_handler>>,
           pc' = "cutoffs" => pc = "cutoffs",
           pc' = "done" => pc = "done" \/ placed = nm,
           pc' \in {"search", "verify"} => Reaches(indx, <<start_index', end_index'>>)
    PROVE  OInv'
<1>1. Handlers' = Handlers /\ indx' = indx /\ indx_master' = indx_master
      /\ \A x, a : Reaches(x, a)' <=> Reaches(x, a)
  BY ReachesKept DEF inputs, Handlers, indx
<1>1a. nm' = nm
  BY DEF inputs, nm
<1>2. Trails'
  BY <1>1 DEF OInv, Trails, Placed
<1>3. Ordered' /\ Members' /\ Listed'
  BY <1>1 DEF OInv, Ordered, Members, Listed, Placed
<1>4. QED
  BY <1>1, <1>1a, <1>2, <1>3 DEF OInv

LEMMA SearchOrder == IInv /\ OInv /\ Search => OInv'
<1> SUFFICES ASSUME IInv, OInv, Search PROVE OInv'
  OBVIOUS
<1> DEFINE a == <<start_index, end_index>>
<1>1. /\ pc = "search" /\ end_index > start_index + 1 /\ Halve
      /\ UNCHANGED <<inputs, sgt_cutoffs, placed, sgts_by_handler>>
  BY DEF Search, Searching
<1>2. /\ num_sgt_handlers \in Nat \ {0, 1} /\ placed + 1 \in DOMAIN indx_master
      /\ start_index \in 1 .. num_sgt_handlers - 1 /\ end_index \in 2 .. num_sgt_handlers
      /\ sgt_cutoffs \in [1 .. num_sgt_handlers -> Nat]
      /\ indx \in Nat
  <2>1. InputsOK /\ TypeOK /\ SearchOK /\ CutoffsOK
    BY DEF IInv
  <2>2. num_sgt_handlers \in Nat \ {0, 1} /\ sgt_cutoffs \in [1 .. num_sgt_handlers -> Nat]
    BY <1>1, <2>1 DEF InputsOK, CutoffsOK
  <2>3. placed + 1 \in DOMAIN indx_master
    BY <1>1, <2>1 DEF SearchOK, TypeOK, nm
  <2>4. start_index \in 1 .. num_sgt_handlers - 1 /\ end_index \in 2 .. num_sgt_handlers
    BY <1>1, <2>1 DEF SearchOK, TypeOK
  <2>5. indx \in Nat
    BY <2>1, <2>3 DEF InputsOK, indx
  <2>6. QED
    BY <2>2, <2>3, <2>4, <2>5
<1>3. Mid \in Nat /\ start_index < Mid /\ Mid < end_index /\ Middle(a) = Mid /\ Open(a)
  BY <1>1, <1>2 DEF Mid, Middle, Open
<1>4. sgt_cutoffs[Mid] \in Nat
  BY <1>2, <1>3
<1>5. <<start_index', end_index'>> = Turn(indx, a)
  <2> DEFINE c == sgt_cutoffs[Mid]
  <2>1. indx \in Nat /\ c \in Nat
    BY <1>2, <1>4
  <2>2. Turn(indx, a) = IF indx > c THEN <<Mid, end_index>>
                        ELSE IF indx < c THEN <<start_index, Mid>> ELSE <<Mid, Mid + 1>>
    BY <1>3 DEF Turn
  <2>3. \/ indx > c /\ start_index' = Mid /\ end_index' = end_index
        \/ indx < c /\ start_index' = start_index /\ end_index' = Mid
        \/ indx = c /\ start_index' = Mid /\ end_index' = Mid + 1
    BY <1>1 DEF Halve
  <2> HIDE DEF c
  <2>4. QED
    BY <2>1, <2>2, <2>3
<1>6. <<start_index', end_index'>> \in Nodes
  <2>1. Mid \in 1 .. num_sgt_handlers /\ Mid + 1 \in 1 .. num_sgt_handlers
    BY <1>2, <1>3
  <2>2. start_index \in 1 .. num_sgt_handlers /\ end_index \in 1 .. num_sgt_handlers
    BY <1>2
  <2>3. start_index' \in {start_index, Mid} /\ end_index' \in {end_index, Mid, Mid + 1}
    BY <1>1 DEF Halve
  <2>4. QED
    BY <2>1, <2>2, <2>3 DEF Nodes
<1>7. Reaches(indx, a)
  BY <1>1 DEF OInv, Trails
<1>8. Reaches(indx, <<start_index', end_index'>>)
  BY <1>3, <1>5, <1>6, <1>7, ReachesNext
<1>9. pc' # "cutoffs" /\ pc' # "done"
  BY <1>1 DEF Halve
<1>10. QED
  BY <1>1, <1>8, <1>9, OrderKept

(* An index is larger than those before it, so the search for it has ended   *)
(* at the last list that is not empty, or behind it.                         *)
LEMMA PlaceOrder == IInv /\ OInv /\ Place => OInv'
<1> SUFFICES ASSUME IInv, OInv, Place PROVE OInv'
  OBVIOUS
<1> DEFINE s == start_index
           L == Len(sgts_by_handler[s])
<1>1. /\ UNCHANGED <<inputs, sgt_cutoffs>> /\ pc' = "next" /\ placed' = placed + 1
      /\ sgts_by_handler' = [sgts_by_handler EXCEPT ![s] = Append(@, indx)]
  BY DEF Place
<1>2. /\ placed + 1 \in DOMAIN indx_master /\ placed + 1 \in 1 .. nm /\ indx \in Nat
      /\ s \in Handlers /\ end_index = s + 1 /\ pc \in {"search", "verify"}
      /\ indx = indx_master[placed + 1] /\ placed \in Nat
  BY SearchOver DEF Place, Found, indx, IInv, TypeOK
<1>3. /\ sgts_by_handler \in [Handlers -> Seq(Nat)] /\ sgts_by_handler[s] \in Seq(Nat) /\ L \in Nat
      /\ num_sgt_handlers \in Nat \ {0, 1} /\ Handlers = 1 .. num_sgt_handlers - 1
      /\ sgt_cutoffs \in [1 .. num_sgt_handlers -> Nat] /\ indx_master \in Seq(Nat) /\ InputsOK
  <2>1. InputsOK /\ TypeOK /\ CutoffsOK /\ pc # "cutoffs"
    BY <1>2 DEF IInv
  <2>2. sgts_by_handler \in [Handlers -> Seq(Nat)] /\ num_sgt_handlers \in Nat \ {0, 1}
        /\ sgt_cutoffs \in [1 .. num_sgt_handlers -> Nat] /\ indx_master \in Seq(Nat)
    BY <2>1 DEF TypeOK, InputsOK, CutoffsOK
  <2>3. sgts_by_handler[s] \in Seq(Nat)
    BY <1>2, <2>2
  <2>4. L \in Nat
    BY <2>3, LenProperties
  <2>5. QED
    BY <2>1, <2>2, <2>3, <2>4 DEF Handlers
<1>4. Handlers' = Handlers /\ indx_master' = indx_master
      /\ \A x, a : Reaches(x, a)' <=> Reaches(x, a)
  BY <1>1, ReachesKept DEF inputs, Handlers
<1>5. ASSUME NEW h \in Handlers, NEW k \in DOMAIN sgts_by_handler[h] PROVE Placed(h, k) \in Nat /\ Placed(h, k) < indx
  <2>0. Members /\ Ascending(indx_master)
    BY DEF OInv
  <2>1. PICK m \in 1 .. placed : Placed(h, k) = indx_master[m]
    BY <2>0, Zenon DEF Members
  <2>2. m \in 1 .. Len(indx_master) /\ m \in DOMAIN indx_master /\ m < placed + 1
    <3>1. nm \in Nat /\ DOMAIN indx_master = 1 .. nm /\ nm = Len(indx_master)
      BY <1>3, LenProperties DEF nm
    <3>2. QED
      BY <1>2, <3>1
  <2>3. indx_master[m] < indx_master[placed + 1]
    BY <1>2, <2>0, <2>2, Zenon DEF Ascending
  <2>3a. indx_master[m] \in Nat
    BY <1>3, <2>2, ElementOfSeq
  <2>4. QED
    BY <1>2, <2>1, <2>3, <2>3a
<1>6. Reaches(indx, <<s, s + 1>>)
  BY <1>2 DEF OInv, Trails
<1>7. ASSUME NEW h \in Handlers, NEW k \in DOMAIN sgts_by_handler[h] PROVE h <= s
  <2>1. Reaches(Placed(h, k), <<h, h + 1>>)
    BY DEF OInv, Trails
  <2>2. h \in Nat /\ s \in Nat
    BY <1>2, <1>3
  <2>3. QED
    BY <1>2, <1>3, <1>5, <1>6, <2>1, <2>2, NoCrossing
<1>8. /\ Append(sgts_by_handler[s], indx) \in Seq(Nat)
      /\ sgts_by_handler'[s] = Append(sgts_by_handler[s], indx)
      /\ \A h \in Handlers \ {s} : sgts_by_handler'[h] = sgts_by_handler[h]
  BY <1>1, <1>2, <1>3
<1>9. /\ \A k \in DOMAIN sgts_by_handler'[s] :
             \/ k = L + 1 /\ sgts_by_handler'[s][k] = indx
             \/ k \in DOMAIN sgts_by_handler[s] /\ sgts_by_handler'[s][k] = Placed(s, k)
      /\ L + 1 \in DOMAIN sgts_by_handler'[s] /\ sgts_by_handler'[s][L + 1] = indx
      /\ \A k \in DOMAIN sgts_by_handler[s] :
             /\ k \in DOMAIN sgts_by_handler'[s] /\ k < L + 1
             /\ sgts_by_handler'[s][k] = Placed(s, k)
  <2> DEFINE a == sgts_by_handler[s]
             b == Append(a, indx)
  <2>1. a \in Seq(Nat) /\ L = Len(a) /\ indx \in Nat
    BY <1>2, <1>3
  <2>2. sgts_by_handler'[s] = b /\ \A k : Placed(s, k) = a[k]
    BY <1>8 DEF Placed
  <2> HIDE DEF a, L
  <2>3. Len(b) = L + 1 /\ DOMAIN b = 1 .. L + 1 /\ DOMAIN a = 1 .. L /\ L \in Nat
    BY <2>1, AppendProperties, LenProperties
  <2>4. b[L + 1] = indx /\ \A k \in 1 .. L : b[k] = a[k]
    BY <2>1, AppendProperties
  <2> HIDE DEF b
  <2>5. \A k \in 1 .. L + 1 : k = L + 1 \/ k \in 1 .. L
    BY <2>3
  <2>6. L + 1 \in 1 .. L + 1 /\ \A k \in 1 .. L : k \in 1 .. L + 1 /\ k < L + 1
    BY <2>3
  <2>7. QED
    BY <2>2, <2>3, <2>4, <2>5, <2>6, Zenon DEF a
<1> HIDE DEF L, s
<1>10. \A h \in Handlers : \A k \in DOMAIN sgts_by_handler'[h] :
           \/ h = s /\ k = L + 1 /\ Placed(h, k)' = indx
           \/ k \in DOMAIN sgts_by_handler[h] /\ Placed(h, k)' = Placed(h, k)
  BY <1>8, <1>9 DEF Placed
<1>11. \A h \in Handlers : \A k \in DOMAIN sgts_by_handler[h] :
           k \in DOMAIN sgts_by_handler'[h] /\ Placed(h, k)' = Placed(h, k)
  BY <1>8, <1>9 DEF Placed
<1>12. Trails'
  <2>1. ASSUME NEW h \in Handlers, NEW k \in DOMAIN sgts_by_handler'[h]
        PROVE  Reaches(Placed(h, k)', <<h, h + 1>>)
    BY <1>6, <1>10 DEF OInv, Trails
  <2>2. QED
    BY <1>1, <1>4, <2>1 DEF Trails, Placed
<1>13. Ordered'
  <2> SUFFICES ASSUME NEW g \in Handlers, NEW h \in Handlers,
                      NEW i \in DOMAIN sgts_by_handler'[g], NEW j \in DOMAIN sgts_by_handler'[h],
                      Before(g, i, h, j)
               PROVE  Placed(g, i)' < Placed(h, j)'
    BY <1>4 DEF Ordered, Placed
  <2>1. CASE j \in DOMAIN sgts_by_handler[h] /\ Placed(h, j)' = Placed(h, j)
    <3>1. ~(g = s /\ i = L + 1)
      <4>1. h <= s
        BY <1>7, <2>1
      <4>2. h = s => j < L + 1
        BY <1>9, <2>1
      <4>3. g \in Nat /\ h \in Nat /\ s \in Nat
        BY <1>2, <1>3
      <4>4. j \in Nat
        <5>1. sgts_by_handler[h] \in Seq(Nat)
          BY <1>3
        <5>2. QED
          BY <2>1, <5>1
      <4>5. ~(s < h) /\ (h = s => ~(L + 1 < j))
        BY <1>3, <4>1, <4>2, <4>3, <4>4
      <4>6. QED
        BY <4>5 DEF Before
    <3>2. i \in DOMAIN sgts_by_handler[g] /\ Placed(g, i)' = Placed(g, i)
      BY <1>10, <3>1
    <3>3. QED
      BY <2>1, <3>2 DEF OInv, Ordered
  <2>2. CASE h = s /\ j = L + 1 /\ Placed(h, j)' = indx
    <3>1. i \in DOMAIN sgts_by_handler[g] /\ Placed(g, i)' = Placed(g, i)
      <4>1. ~(g = s /\ i = L + 1)
        BY <1>2, <1>3, <2>2 DEF Before
      <4>2. QED
        BY <1>10, <4>1
    <3>2. QED
      BY <1>5, <2>2, <3>1
  <2>3. QED
    BY <1>10, <2>1, <2>2
<1>14. Members'
  <2>1. ASSUME NEW h \in Handlers, NEW k \in DOMAIN sgts_by_handler'[h]
        PROVE  \E m \in 1 .. placed + 1 : Placed(h, k)' = indx_master[m]
    <3>1. CASE Placed(h, k)' = indx
      BY <1>2, <3>1
    <3>2. CASE k \in DOMAIN sgts_by_handler[h] /\ Placed(h, k)' = Placed(h, k)
      <4>1. PICK m \in 1 .. placed : Placed(h, k) = indx_master[m]
        BY <3>2 DEF OInv, Members
      <4>2. m \in 1 .. placed + 1
        BY <1>2
      <4>3. QED
        BY <3>2, <4>1, <4>2
    <3>3. QED
      BY <1>10, <3>1, <3>2
  <2>2. ASSUME NEW m \in 1 .. placed + 1
        PROVE  \E h \in Handlers : \E k \in DOMAIN sgts_by_handler'[h] : Placed(h, k)' = indx_master[m]
    <3>1. CASE m = placed + 1
      <4>1. s \in Handlers /\ indx = indx_master[m]
        BY <1>2, <3>1 DEF s
      <4>2. L + 1 \in DOMAIN sgts_by_handler'[s] /\ sgts_by_handler'[s][L + 1] = indx_master[m]
        BY <1>9, <4>1
      <4>3. \A h \in Handlers : \A k : Placed(h, k)' = sgts_by_handler'[h][k]
        BY DEF Placed
      <4>4. QED
        BY <4>1, <4>2, <4>3
    <3>2. CASE m # placed + 1
      <4>1. m \in 1 .. placed
        BY <1>2, <3>2
      <4>2. PICK h \in Handlers : \E k \in DOMAIN sgts_by_handler[h] : Placed(h, k) = indx_master[m]
        BY <4>1 DEF OInv, Members
      <4>3. QED
        BY <1>11, <4>2
    <3>3. QED
      BY <3>1, <3>2
  <2>3. QED
    BY <1>1, <1>4, <2>1, <2>2 DEF Members, Placed
<1>15. Listed'
  <2> DEFINE n == num_sgt_handlers - 1
  <2>1. n \in Nat \ {0} /\ Handlers = 1 .. n /\ sgts_by_handler \in [1 .. n -> Seq(Nat)] /\ s \in 1 .. n
    BY <1>2, <1>3 DEF s
  <2>2. \A g \in s + 1 .. n : sgts_by_handler[g] = <<>>
    <3>1. ASSUME NEW g \in s + 1 .. n PROVE sgts_by_handler[g] = <<>>
      <4>1. g \in Handlers /\ ~(g <= s) /\ sgts_by_handler[g] \in Seq(Nat)
        BY <2>1
      <4>2. ~(1 \in DOMAIN sgts_by_handler[g])
        BY <1>7, <4>1 DEF s
      <4>3. QED
        BY <4>1, <4>2, EmptySeq
    <3>2. QED
      BY <3>1
  <2> HIDE DEF n
  <2>2a. sgts_by_handler' = [sgts_by_handler EXCEPT ![s] = Append(sgts_by_handler[s], indx)] /\ indx \in Nat
    BY <1>1, <1>2 DEF s
  <2>2b. GrowsAt(sgts_by_handler, sgts_by_handler', n, s, indx)
    BY <2>1, <2>2, <2>2a, Zenon DEF GrowsAt
  <2>3. FlattenSeq(sgts_by_handler') = Append(FlattenSeq(sgts_by_handler), indx)
    BY <2>1, <2>2a, <2>2b, FlattenAppend
  <2>4. SubSeq(indx_master, 1, placed + 1) = Append(SubSeq(indx_master, 1, placed), indx)
    <3>1. 1 \in 1 .. Len(indx_master) /\ placed + 1 \in 1 .. Len(indx_master)
      BY <1>2, <1>3 DEF nm
    <3>2. SubSeq(indx_master, 1, placed + 1)
          = SubSeq(indx_master, 1, (placed + 1) - 1) \o <<indx_master[placed + 1]>>
      BY <1>3, <3>1, SubSeqRecursiveSecond
    <3>3. (placed + 1) - 1 = placed /\ SubSeq(indx_master, 1, placed) \in Seq(Nat)
      <4>1. \A i \in 1 .. placed : indx_master[i] \in Nat
        <5>1. placed \in Nat /\ indx_master \in Seq(Nat) /\ Len(indx_master) \in Nat
          BY <1>2, <1>3, LenProperties
        <5>2. \A i \in 1 .. placed : i \in 1 .. Len(indx_master)
          BY <3>1, <5>1
        <5>3. QED
          BY <5>1, <5>2, ElementOfSeq
      <4>2. QED
        BY <1>2, <4>1, SubSeqProperties
    <3>4. QED
      BY <1>2, <3>2, <3>3, AppendIsConcat
  <2>5. QED
    BY <1>1, <1>4, <2>3, <2>4 DEF OInv, Listed
<1>16. QED
  BY <1>1, <1>4, <1>12, <1>13, <1>14, <1>15 DEF OInv

LEMMA StepOrder == IInv /\ OInv /\ [Next]_vars => OInv'
<1> SUFFICES ASSUME IInv, OInv, [Next]_vars PROVE OInv'
  OBVIOUS
<1>1. CASE BuildCutoffs
  <2>1. /\ pc = "cutoffs" /\ pc' = "next" /\ placed = 0
        /\ UNCHANGED <<inputs, placed, sgts_by_handler>>
    BY <1>1 DEF BuildCutoffs, OInv
  <2>2. Handlers' = Handlers /\ indx_master' = indx_master
    BY <2>1 DEF inputs, Handlers
  <2>3. \A h \in Handlers : DOMAIN sgts_by_handler[h] = {}
    BY <2>1 DEF OInv, Members
  <2>4. Trails'
    BY <2>1, <2>2, <2>3 DEF Trails
  <2>5. Ordered' /\ Members' /\ Listed'
    BY <2>1, <2>2 DEF OInv, Ordered, Members, Listed, Placed
  <2>6. QED
    BY <2>1, <2>2, <2>4, <2>5 DEF OInv
<1>2. CASE StartSearch
  <2>1. /\ UNCHANGED <<inputs, sgt_cutoffs, placed, sgts_by_handler>> /\ pc' = "search"
        /\ start_index' = 1 /\ end_index' = num_sgt_handlers
    BY <1>2 DEF StartSearch
  <2>2. Reaches(indx, <<1, num_sgt_handlers>>)
    BY ReachesRoot DEF IInv
  <2>3. QED
    BY <2>1, <2>2, OrderKept
<1>3. CASE Abort \/ Finish
  BY <1>3, OrderKept DEF Abort, Finish
<1>4. CASE UNCHANGED vars
  <2>1. /\ UNCHANGED <<inputs, sgt_cutoffs, placed, sgts_by_handler>>
        /\ UNCHANGED <<pc, start_index, end_index>>
    BY <1>4 DEF vars
  <2>2. pc \in {"search", "verify"} => Reaches(indx, <<start_index, end_index>>)
    BY DEF OInv, Trails
  <2>3. QED
    BY <2>1, <2>2, OrderKept
<1>5. QED
  BY <1>1, <1>2, <1>3, <1>4, SearchOrder, PlaceOrder DEF Next

(* The lists run_synth (synth.c) makes are the sorted list of indices cut     *)
(* into pieces: nothing is lost, nothing is listed twice, and every list      *)
(* ascends, whatever the blocks of the handlers and the outcome of searching  *)
(* for an index between them.                                                 *)
THEOREM KeepsOrder == SafeSpec => []ListsInOrder
<1>1. Init => OInv
  BY InitOrder
<1>2. IInv /\ OInv /\ [Next]_vars => OInv'
  BY StepOrder
<1>3. IInv /\ OInv => ListsInOrder
  <2> SUFFICES ASSUME IInv, OInv, pc = "done" PROVE FlattenSeq(sgts_by_handler) = indx_master
    BY DEF ListsInOrder
  <2>1. placed = nm /\ indx_master \in Seq(Nat)
    BY DEF OInv, IInv, InputsOK
  <2>2. SubSeq(indx_master, 1, nm) = indx_master
    BY <2>1, SubSeqFull DEF nm
  <2>3. QED
    BY <2>1, <2>2 DEF OInv, Listed
<1>4. SafeSpec => []IInv
  BY Invariance
<1>5. QED
  BY <1>1, <1>2, <1>3, <1>4, PTL DEF SafeSpec
-----------------------------------------------------------------------------
(* A finite set of numbers can be listed in ascending order.                 *)
Lists(s, S) == s \in [1 .. Cardinality(S) -> S] /\ Ascending(s) /\ ToSet(s) = S

LEMMA ListLeast ==
    ASSUME NEW S \in SUBSET Nat, IsFiniteSet(S), NEW n \in Nat, Cardinality(S) = n + 1,
           NEW m \in S, \A x \in S : m <= x, NEW r, Lists(r, S \ {m})
    PROVE  \E s : Lists(s, S)
<1>1. Cardinality(S \ {m}) = n
  BY FS_RemoveElement
<1>2. /\ r \in [1 .. n -> S \ {m}] /\ Ascending(r)
      /\ ToSet(r) = S \ {m}
  BY <1>1 DEF Lists
<1> DEFINE s == [i \in 1 .. n + 1 |-> IF i = 1 THEN m ELSE r[i - 1]]
<1>3. s[1] = m /\ \A i \in 2 .. n + 1 : i - 1 \in 1 .. n /\ s[i] = r[i - 1]
  OBVIOUS
<1>4. s \in [1 .. n + 1 -> S]
  BY <1>2, <1>3
<1>4a. DOMAIN s = 1 .. n + 1 /\ DOMAIN r = 1 .. n
  BY <1>2
<1> HIDE DEF s
<1>5. Ascending(s)
  <2> SUFFICES ASSUME NEW i \in 1 .. n + 1, NEW j \in 1 .. n + 1, i < j PROVE s[i] < s[j]
    BY <1>4a DEF Ascending
  <2>1. j \in 2 .. n + 1 /\ j - 1 \in 1 .. n /\ s[j] = r[j - 1] /\ r[j - 1] \in S \ {m}
    BY <1>2, <1>3
  <2>2. CASE i = 1
    <3>1. m <= s[j] /\ m # s[j] /\ m \in Nat /\ s[j] \in Nat
      BY <2>1
    <3>2. QED
      BY <1>3, <2>2, <3>1
  <2>3. CASE i # 1
    <3>1. i \in 2 .. n + 1 /\ i - 1 \in 1 .. n /\ i - 1 < j - 1 /\ s[i] = r[i - 1]
      BY <1>3, <2>3
    <3>2. r[i - 1] < r[j - 1]
      BY <1>2, <1>4a, <2>1, <3>1 DEF Ascending
    <3>3. QED
      BY <2>1, <3>1, <3>2
  <2>4. QED
    BY <2>2, <2>3
<1>6. ToSet(s) = S
  <2>1. ASSUME NEW x \in S PROVE \E i \in 1 .. n + 1 : s[i] = x
    <3>1. CASE x = m
      BY <1>3, <3>1
    <3>2. CASE x # m
      <4>1. x \in ToSet(r)
        BY <1>2, <3>2
      <4>2. PICK i \in 1 .. n : r[i] = x
        BY <1>4a, <4>1 DEF ToSet
      <4>3. i + 1 \in 2 .. n + 1 /\ (i + 1) - 1 = i
        OBVIOUS
      <4>4. QED
        BY <1>3, <4>2, <4>3
    <3>3. QED
      BY <3>1, <3>2
  <2>2. QED
    BY <1>4, <1>4a, <2>1 DEF ToSet
<1>7. QED
  BY <1>4, <1>5, <1>6 DEF Lists

LEMMA ListExists ==
    ASSUME NEW n \in Nat
    PROVE  \A S \in SUBSET Nat : IsFiniteSet(S) /\ Cardinality(S) = n => \E s : Lists(s, S)
<1> DEFINE Can(k) == \A S \in SUBSET Nat : IsFiniteSet(S) /\ Cardinality(S) = k => \E s : Lists(s, S)
           K == {k \in 0 .. n : Can(k)}
<1>1. 0 \in K
  <2> SUFFICES ASSUME NEW S \in SUBSET Nat, IsFiniteSet(S), Cardinality(S) = 0
               PROVE  \E s : Lists(s, S)
    OBVIOUS
  <2>1. S = {}
    BY FS_EmptySet
  <2> DEFINE s == [i \in 1 .. 0 |-> 0]
  <2>2. s \in [1 .. 0 -> S] /\ DOMAIN s = {}
    OBVIOUS
  <2> HIDE DEF s
  <2>3. Lists(s, S)
    BY <2>1, <2>2 DEF Lists, Ascending, ToSet
  <2>4. QED
    BY <2>3
<1>2. ASSUME NEW k \in 0 .. n - 1, Can(k) PROVE Can(k + 1)
  <2> SUFFICES ASSUME NEW S \in SUBSET Nat, IsFiniteSet(S), Cardinality(S) = k + 1
               PROVE  \E s : Lists(s, S)
    OBVIOUS
  <2>1. S # {}
    BY FS_EmptySet
  <2> DEFINE m == Min(S)
  <2>2. m \in S /\ \A x \in S : m <= x
    BY <2>1, LeastElement
  <2> HIDE DEF m
  <2>3. IsFiniteSet(S \ {m}) /\ Cardinality(S \ {m}) = k /\ S \ {m} \in SUBSET Nat
    BY <2>2, FS_RemoveElement
  <2>4. PICK r : Lists(r, S \ {m})
    BY <1>2, <2>3
  <2>5. QED
    BY <2>2, <2>4, ListLeast
<1>3. n \in K
  <2>1. 0 \in Nat /\ n \in 0 .. n /\ \A k \in 0 .. n - 1 : k \in K => k + 1 \in K
    BY <1>2
  <2> HIDE DEF K
  <2>2. QED
    BY <1>1, <2>1, UpTo
<1>4. QED
  BY <1>3

LEMMA InOrderLists ==
    ASSUME NEW S \in SUBSET Nat, IsFiniteSet(S)
    PROVE  /\ InOrder(S) \in [1 .. Cardinality(S) -> S] /\ Ascending(InOrder(S))
           /\ ToSet(InOrder(S)) = S /\ Cardinality(S) \in Nat
<1>1. Cardinality(S) \in Nat
  BY FS_CardinalityType
<1>2. PICK s : Lists(s, S)
  BY <1>1, ListExists
<1>3. \E t \in [1 .. Cardinality(S) -> S] : Ascending(t) /\ ToSet(t) = S
  BY <1>2 DEF Lists
<1>4. QED
  BY <1>1, <1>3, Zenon DEF InOrder
-----------------------------------------------------------------------------
(* The binary search in a part of an ascending list: it is well defined and  *)
(* ends at the entry it looks for.                                           *)
Ends == (starting_index .. ending_index) \X (starting_index .. ending_index)
Look(x, f, r) == IF x > At(CurrentList, Middle(r)) /\ Middle(r) < r[2]
                     THEN f[<<Middle(r) + 1, r[2]>>]
                 ELSE IF x < At(CurrentList, Middle(r)) /\ r[1] < Middle(r)
                     THEN f[<<r[1], Middle(r) - 1>>]
                 ELSE Middle(r)
Width(r) == ending_index + r[2] - r[1]
Solves(f, x, w) == \A r \in Ends : Width(r) < w => f[r] = Look(x, f, r)

LEMMA EndsFacts ==
    ASSUME starting_index \in Nat, ending_index \in Nat, NEW r \in Ends
    PROVE  /\ r = <<r[1], r[2]>> /\ r[1] \in Nat /\ r[2] \in Nat
           /\ starting_index <= r[1] /\ r[1] <= ending_index
           /\ starting_index <= r[2] /\ r[2] <= ending_index
           /\ Middle(r) \in Nat /\ Width(r) \in Nat /\ Width(r) <= 2 * ending_index
           /\ r[1] <= r[2] => r[1] <= Middle(r) /\ Middle(r) <= r[2]
           /\ r[1] > r[2] => r[2] <= Middle(r) /\ Middle(r) < r[1]
           /\ Middle(r) < r[2] => r[1] <= Middle(r)
           /\ r[1] < Middle(r) => Middle(r) <= r[2]
  BY DEF Ends, Middle, Width

(* Only results for smaller parts are looked up. *)
LEMMA LookSmaller ==
    ASSUME starting_index \in Nat, ending_index \in Nat, NEW r \in Ends
    PROVE  /\ Middle(r) < r[2] => /\ <<Middle(r) + 1, r[2]>> \in Ends
                                  /\ Width(<<Middle(r) + 1, r[2]>>) < Width(r)
           /\ r[1] < Middle(r) => /\ <<r[1], Middle(r) - 1>> \in Ends
                                  /\ Width(<<r[1], Middle(r) - 1>>) < Width(r)
<1>1. /\ r[1] \in Nat /\ r[2] \in Nat /\ Middle(r) \in Nat
      /\ starting_index <= r[1] /\ r[1] <= ending_index
      /\ starting_index <= r[2] /\ r[2] <= ending_index
      /\ Middle(r) < r[2] => r[1] <= Middle(r)
      /\ r[1] < Middle(r) => Middle(r) <= r[2]
  BY EndsFacts
<1>2. ASSUME Middle(r) < r[2]
      PROVE  /\ <<Middle(r) + 1, r[2]>> \in Ends
             /\ Width(<<Middle(r) + 1, r[2]>>) < Width(r)
  <2>1. Middle(r) + 1 \in starting_index .. ending_index /\ r[2] \in starting_index .. ending_index
    BY <1>1, <1>2
  <2>2. r[2] - (Middle(r) + 1) < r[2] - r[1]
    BY <1>1, <1>2
  <2>3. QED
    BY <1>1, <2>1, <2>2 DEF Ends, Width
<1>3. ASSUME r[1] < Middle(r)
      PROVE  /\ <<r[1], Middle(r) - 1>> \in Ends
             /\ Width(<<r[1], Middle(r) - 1>>) < Width(r)
  <2>1. Middle(r) - 1 \in starting_index .. ending_index /\ r[1] \in starting_index .. ending_index
    BY <1>1, <1>3
  <2>2. (Middle(r) - 1) - r[1] < r[2] - r[1]
    BY <1>1, <1>3
  <2>3. QED
    BY <1>1, <2>1, <2>2 DEF Ends, Width
<1>4. QED
  BY <1>2, <1>3

LEMMA LookAgrees ==
    ASSUME starting_index \in Nat, ending_index \in Nat, NEW x, NEW f, NEW g, NEW r \in Ends,
           \A q \in Ends : Width(q) < Width(r) => f[q] = g[q]
    PROVE  Look(x, f, r) = Look(x, g, r)
<1>1. /\ Middle(r) < r[2] => f[<<Middle(r) + 1, r[2]>>] = g[<<Middle(r) + 1, r[2]>>]
      /\ r[1] < Middle(r) => f[<<r[1], Middle(r) - 1>>] = g[<<r[1], Middle(r) - 1>>]
  BY LookSmaller
<1>2. QED
  BY <1>1 DEF Look

LEMMA SearchExists ==
    ASSUME starting_index \in Nat, ending_index \in Nat, NEW x
    PROVE  \E f : f = [r \in Ends |-> Look(x, f, r)]
<1> DEFINE n == 2 * ending_index + 1
           W == {w \in 0 .. n : \E f : Solves(f, x, w)}
<1>1. 0 \in W
  <2>1. \A r \in Ends : ~(Width(r) < 0)
    BY EndsFacts
  <2>2. Solves(0, x, 0)
    BY <2>1 DEF Solves
  <2>3. QED
    BY <2>2
<1>2. ASSUME NEW f, NEW w \in Nat, Solves(f, x, w), NEW g, g = [r \in Ends |-> Look(x, f, r)]
      PROVE  \A r \in Ends : Width(r) < w + 1 => g[r] = Look(x, g, r)
  <2> SUFFICES ASSUME NEW r \in Ends, Width(r) < w + 1 PROVE g[r] = Look(x, g, r)
    OBVIOUS
  <2>1. ASSUME NEW q \in Ends, Width(q) < Width(r) PROVE f[q] = g[q]
    <3>1. Width(q) < w
      BY <2>1, EndsFacts
    <3>2. QED
      BY <1>2, <3>1 DEF Solves
  <2>2. Look(x, f, r) = Look(x, g, r)
    BY <2>1, LookAgrees
  <2>3. g[r] = Look(x, f, r)
    BY <1>2
  <2>4. QED
    BY <2>2, <2>3
<1>3. ASSUME NEW w \in 0 .. n - 1, w \in W PROVE w + 1 \in W
  <2>1. PICK f : Solves(f, x, w)
    BY <1>3
  <2> DEFINE g == [r \in Ends |-> Look(x, f, r)]
  <2>2. Solves(g, x, w + 1)
    BY <1>2, <2>1 DEF Solves
  <2>3. QED
    BY <2>2
<1>4. n \in W
  <2>1. 0 \in Nat /\ n \in Nat /\ n \in 0 .. n
    OBVIOUS
  <2> HIDE DEF W, n
  <2>2. QED
    BY <1>1, <1>3, <2>1, UpTo
<1>5. PICK f : Solves(f, x, n)
  BY <1>4
<1> DEFINE g == [r \in Ends |-> Look(x, f, r)]
<1>6. \A r \in Ends : g[r] = Look(x, g, r)
  <2>1. n \in Nat /\ \A r \in Ends : Width(r) < n + 1
    BY EndsFacts
  <2>2. \A r \in Ends : Width(r) < n + 1 => g[r] = Look(x, g, r)
    BY <1>2, <1>5, <2>1
  <2>3. QED
    BY <2>1, <2>2
<1>7. g = [r \in Ends |-> Look(x, g, r)]
  BY <1>6
<1>8. QED
  BY <1>7

(* mid_index is the value of a function that looks where the search does.    *)
LEMMA MidIndexIs ==
    ASSUME starting_index \in Nat, ending_index \in Nat, NEW x
    PROVE  \E f : /\ f = [r \in Ends |-> Look(x, f, r)]
                 /\ MidIndex(x) = f[<<starting_index, ending_index>>]
<1> DEFINE Is(f) == f = [r \in Ends |-> Look(x, f, r)]
           c == CHOOSE f : Is(f)
<1>1. Is(c)
  <2>1. \E f : Is(f)
    BY SearchExists
  <2>2. QED
    BY <2>1, Zenon
<1>2. MidIndex(x) = c[<<starting_index, ending_index>>]
  BY Zenon DEF MidIndex, Ends, Look, Middle
<1>3. QED
  BY <1>1, <1>2

LEMMA SearchFinds ==
    ASSUME starting_index \in Nat, ending_index \in Nat, NEW x \in Nat,
           CurrentList \in Seq(Nat), Ascending(CurrentList), ending_index <= Len(CurrentList),
           NEW q \in starting_index .. ending_index - 1, x = CurrentList[q + 1]
    PROVE  MidIndex(x) = q
<1>1. PICK f : /\ f = [r \in Ends |-> Look(x, f, r)]
               /\ MidIndex(x) = f[<<starting_index, ending_index>>]
  BY MidIndexIs
<1>2. \A r \in Ends : f[r] = Look(x, f, r)
  BY <1>1
<1> DEFINE Ok(w) == \A r \in Ends : Width(r) <= w /\ r[1] <= q /\ q <= r[2] => f[r] = q
           n == 2 * ending_index
           W == {w \in 0 .. n : Ok(w)}
<1>3. ASSUME NEW r \in Ends, r[1] <= q, q <= r[2],
             \A p \in Ends : Width(p) < Width(r) /\ p[1] <= q /\ q <= p[2] => f[p] = q
      PROVE  f[r] = q
  <2> HIDE DEF Ok, n, W
  <2> DEFINE m == Middle(r)
  <2>0. r[1] <= q /\ q <= r[2]
    BY <1>3
  <2>1. /\ r[1] \in Nat /\ r[2] \in Nat /\ m \in Nat /\ r[1] <= m /\ m <= r[2]
        /\ r[2] <= ending_index
    <3>1. r[1] \in Nat /\ r[2] \in Nat /\ r[2] <= ending_index /\ m \in Nat
          /\ (r[1] <= r[2] => r[1] <= m /\ m <= r[2])
      BY EndsFacts
    <3>2. QED
      BY <2>0, <3>1
  <2>2. f[r] = Look(x, f, r)
    BY <1>2, Zenon
  <2> HIDE DEF m
  <2>3. CASE m = q
    <3>1. At(CurrentList, m) = x
      BY <2>3 DEF At
    <3>2. ~(x > At(CurrentList, m)) /\ ~(x < At(CurrentList, m))
      BY <3>1
    <3>3. QED
      BY <2>2, <2>3, <3>2, Zenon DEF Look, m
  <2>4. CASE m < q
    <3>1. At(CurrentList, m) < x
      <4>1. m + 1 \in DOMAIN CurrentList /\ q + 1 \in DOMAIN CurrentList /\ m + 1 < q + 1
        BY <2>1, <2>4
      <4>2. CurrentList[m + 1] < CurrentList[q + 1]
        BY <4>1 DEF Ascending
      <4>3. QED
        BY <4>1, <4>2 DEF At
    <3>2. m < r[2] /\ f[r] = f[<<m + 1, r[2]>>]
      <4>1. m < r[2]
        BY <2>0, <2>1, <2>4
      <4>2. x > At(CurrentList, m)
        BY <3>1
      <4>3. QED
        BY <2>2, <4>1, <4>2, Zenon DEF Look, m
    <3>3. <<m + 1, r[2]>> \in Ends /\ Width(<<m + 1, r[2]>>) < Width(r)
      BY <3>2, LookSmaller DEF m
    <3>4. m + 1 <= q
      BY <2>1, <2>4
    <3>5. f[<<m + 1, r[2]>>] = q
      BY <1>3, <2>0, <2>1, <3>3, <3>4
    <3>6. QED
      BY <3>2, <3>5
  <2>5. CASE m > q
    <3>1a. m + 1 \in DOMAIN CurrentList /\ q + 1 \in DOMAIN CurrentList /\ q + 1 < m + 1
      <4>1. r[1] < r[2]
        BY <2>0, <2>1, <2>5
      <4>2. m < r[2]
        BY <2>1, <4>1 DEF m, Middle
      <4>3. m < Len(CurrentList)
        BY <2>1, <4>2, LenProperties
      <4>4. QED
        BY <2>1, <2>5, <4>3
    <3>1. x < At(CurrentList, m)
      <4>1. CurrentList[q + 1] < CurrentList[m + 1]
        BY <3>1a DEF Ascending
      <4>2. m < Len(CurrentList)
        BY <2>1, <3>1a, LenProperties
      <4>3. QED
        BY <4>1, <4>2 DEF At
    <3>2. r[1] < m /\ f[r] = f[<<r[1], m - 1>>]
      <4>1. r[1] < m /\ m \in Nat
        BY <2>0, <2>1, <2>5
      <4>2. x < At(CurrentList, m) /\ ~(x > At(CurrentList, m))
        <5>1. m + 1 \in DOMAIN CurrentList
          BY <3>1a
        <5>2. At(CurrentList, m) \in Int
          BY <5>1, ElementOfSeq DEF At
        <5>3. QED
          BY <3>1, <5>2
      <4>3. QED
        BY <2>2, <4>1, <4>2, Zenon DEF Look, m
    <3>3. <<r[1], m - 1>> \in Ends /\ Width(<<r[1], m - 1>>) < Width(r)
      BY <3>2, LookSmaller DEF m
    <3>4. q <= m - 1
      BY <2>1, <2>5
    <3>5. f[<<r[1], m - 1>>] = q
      BY <1>3, <2>0, <2>1, <3>3, <3>4
    <3>6. QED
      BY <3>2, <3>5
  <2>6. QED
    BY <2>1, <2>3, <2>4, <2>5
<1>4. 0 \in W
  <2> SUFFICES ASSUME NEW r \in Ends, Width(r) <= 0, r[1] <= q, q <= r[2] PROVE f[r] = q
    OBVIOUS
  <2>1. \A p \in Ends : ~(Width(p) < Width(r))
    BY EndsFacts
  <2>2. QED
    BY <1>3, <2>1
<1>5. ASSUME NEW w \in 0 .. n - 1, w \in W PROVE w + 1 \in W
  <2>1. w \in Nat /\ w + 1 \in 0 .. n /\ Ok(w)
    <3>1. n \in Nat /\ w \in 0 .. n - 1
      BY <1>5
    <3> HIDE DEF n, Ok
    <3>2. w \in Nat /\ w + 1 \in 0 .. n
      BY <3>1
    <3>3. QED
      BY <1>5, <3>2
  <2>2. ASSUME NEW r \in Ends, Width(r) <= w + 1, r[1] <= q, q <= r[2] PROVE f[r] = q
    <3>1. \A p \in Ends : Width(p) < Width(r) => Width(p) <= w
      BY <2>1, <2>2, EndsFacts
    <3>2. QED
      BY <1>3, <2>1, <2>2, <3>1
  <2>3. Ok(w + 1)
    BY <2>2
  <2>4. QED
    BY <2>1, <2>3
<1>6. n \in W
  <2>1. 0 \in Nat /\ n \in Nat /\ n \in 0 .. n
    OBVIOUS
  <2> HIDE DEF W, n
  <2>2. QED
    BY <1>4, <1>5, <2>1, UpTo
<1>7. f[<<starting_index, ending_index>>] = q
  <2> DEFINE a == <<starting_index, ending_index>>
  <2>1. a \in Ends /\ a[1] = starting_index /\ a[2] = ending_index
    BY DEF Ends
  <2>2. Width(a) <= n
    BY <2>1, EndsFacts
  <2> HIDE DEF a
  <2>3. a[1] <= q /\ q <= a[2]
    BY <2>1
  <2>4. Ok(n)
    BY <1>6
  <2>5. f[a] = q
    BY <2>1, <2>2, <2>3, <2>4
  <2>6. QED
    BY <2>5 DEF a
<1>8. QED
  BY <1>1, <1>7
-----------------------------------------------------------------------------
(* Which tensors have arrived, and what has become of a point: none of its   *)
(* tensors has arrived; or all came at once and it has been processed; or it *)
(* is among the split points, what has arrived for it is saved, and it is    *)
(* processed when it is its turn.                                            *)
Cut == IF rq_pc \in {"request", "unanswered"} THEN starting_index ELSE ending_index
Behind(h, k) == \/ h < request_from_handler_id
                \/ h = request_from_handler_id /\ k <= Cut
Listing(x, h, k) == h \in Handlers /\ k \in DOMAIN sgts_by_handler[h] /\ Placed(h, k) = x
Past(x) == \E h \in Handlers : \E k \in DOMAIN sgts_by_handler[h] : Listing(x, h, k) /\ Behind(h, k)

Once(s) == \A i, j \in DOMAIN s : s[i] = s[j] => i = j
Has(s, x) == \E i \in DOMAIN s : s[i] = x
IsSplit(p) == Has(srf_indices_split, p)

Untouched(p) == /\ p \notin srf_pts_used /\ ~IsSplit(p)
                /\ processed[p] = <<>>
                /\ \A k \in DOMAIN needs[p] : ~Past(needs[p][k])
Whole(p) == /\ p \in srf_pts_used /\ ~IsSplit(p)
            /\ processed[p] = <<needs[p]>>
Waits(p) == p \notin srf_pts_used /\ processed[p] = <<>>
Saved(p) == /\ \E k \in DOMAIN needs[p] : Past(needs[p][k])
            /\ \A k \in DOMAIN needs[p] : Past(needs[p][k]) => needs[p][k] \in sgt_heads_split
            /\ \E i \in DOMAIN srf_indices_split :
                   /\ srf_indices_split[i] = p
                   /\ i <= nsplit => processed[p] = <<needs[p]>>
                   /\ i > nsplit => Waits(p)

SplitOK == /\ srf_indices_split \in Seq(Points) /\ nsplit \in 0 .. Len(srf_indices_split)
           /\ Once(srf_indices_split)
           /\ rq_pc \in {"wait", "next", "request"} => nsplit = 0
           /\ rq_pc = "done" => nsplit = Len(srf_indices_split)
           /\ DOMAIN processed = Points

PlaceOK == /\ rq_pc \in {"wait", "next", "request", "unanswered", "split", "done"}
           /\ rq_pc = "wait" => request_from_handler_id = 0
           /\ rq_pc \in {"split", "done"} => request_from_handler_id = num_sgt_handlers

PInv == /\ indx_master = MasterList(needs)
        /\ PlaceOK /\ SplitOK
        /\ \A p \in Points : Untouched(p) \/ Whole(p) \/ Saved(p)

LEMMA NeedsFacts ==
    ASSUME needs \in Ruptures
    PROVE  /\ needs \in Seq(Seq(Nat)) /\ DOMAIN needs = Points
           /\ \A p \in Points : /\ needs[p] \in Seq(Nat) /\ Len(needs[p]) \in 1 .. 4
                              /\ DOMAIN needs[p] = 1 .. Len(needs[p])
                              /\ 1 \in DOMAIN needs[p]
                              /\ \A k \in DOMAIN needs[p] : needs[p][k] \in Nat
<1>1. /\ needs \in Seq(Seq(Nat)) /\ needs # <<>>
      /\ \A p \in DOMAIN needs : Len(needs[p]) \in 1 .. 4
  BY SgtRequestsAssumption
<1>2. DOMAIN needs = Points
  BY <1>1, LenProperties DEF Points
<1>3. ASSUME NEW p \in Points PROVE needs[p] \in Seq(Nat)
  BY <1>1, ElementOfSeq DEF Points
<1>4. ASSUME NEW p \in Points
      PROVE  /\ DOMAIN needs[p] = 1 .. Len(needs[p])
             /\ \A k \in DOMAIN needs[p] : needs[p][k] \in Nat
  BY <1>3, LenProperties, ElementOfSeq
<1>5. ASSUME NEW p \in Points PROVE Len(needs[p]) \in 1 .. 4 /\ 1 \in 1 .. Len(needs[p])
  <2> DEFINE n == Len(needs[p])
  <2>1. n \in 1 .. 4
    BY <1>1, <1>2
  <2> HIDE DEF n
  <2>2. 1 \in 1 .. n
    BY <2>1
  <2>3. QED
    BY <2>1, <2>2 DEF n
<1>6. QED
  BY <1>1, <1>2, <1>3, <1>4, <1>5

(* The master list has every index a point needs.                            *)
LEMMA MasterHasNeeds ==
    ASSUME needs \in Ruptures, indx_master = MasterList(needs),
           NEW p \in Points, NEW k \in DOMAIN needs[p]
    PROVE  \E m \in 1 .. nm : needs[p][k] = indx_master[m]
<1> DEFINE T == {ToSet(needs[q]) : q \in DOMAIN needs}
           S == UNION T
<1>1. S \in SUBSET Nat
  BY NeedsFacts DEF ToSet
<1>2. IsFiniteSet(S)
  <2>1. \A q \in Points : IsFiniteSet(ToSet(needs[q]))
    <3> SUFFICES ASSUME NEW q \in Points PROVE IsFiniteSet(ToSet(needs[q]))
      OBVIOUS
    <3> DEFINE D == DOMAIN needs[q]
    <3>1. IsFiniteSet(D)
      <4>1. D = 1 .. Len(needs[q]) /\ 1 \in Int /\ Len(needs[q]) \in Int
        BY NeedsFacts
      <4> HIDE DEF D
      <4>2. QED
        BY <4>1, FS_Interval
    <3>2. needs[q] \in Surjection(D, ToSet(needs[q]))
      <4>1. needs[q] \in [D -> ToSet(needs[q])]
        BY NeedsFacts DEF ToSet
      <4>2. \A y \in ToSet(needs[q]) : \E x \in D : needs[q][x] = y
        BY DEF ToSet
      <4>3. QED
        BY <4>1, <4>2 DEF Surjection
    <3>3. QED
      BY <3>1, <3>2, FS_Surjection
  <2>2. IsFiniteSet(T)
    <3> DEFINE f == [q \in Points |-> ToSet(needs[q])]
    <3>1. f \in Surjection(Points, T)
      <4>1. DOMAIN needs = Points
        BY NeedsFacts
      <4>2. f \in [Points -> T]
        BY <4>1
      <4>3. \A y \in T : \E x \in Points : f[x] = y
        BY <4>1
      <4>4. QED
        BY <4>2, <4>3 DEF Surjection
    <3>2. IsFiniteSet(Points)
      BY NeedsFacts, LenProperties, FS_Interval DEF Points
    <3> HIDE DEF f, T
    <3>3. QED
      BY <3>1, <3>2, FS_Surjection
  <2>3. \A U \in T : IsFiniteSet(U)
    BY <2>1, NeedsFacts
  <2> HIDE DEF T
  <2>4. QED
    BY <2>2, <2>3, FS_UNION
<1>3. needs[p][k] \in S
  BY NeedsFacts DEF ToSet
<1>4. indx_master = InOrder(S)
  BY DEF MasterList
<1> HIDE DEF S
<1>5. /\ indx_master \in [1 .. Cardinality(S) -> S] /\ ToSet(indx_master) = S
      /\ Cardinality(S) \in Nat
  BY <1>1, <1>2, <1>4, InOrderLists
<1>6. nm = Cardinality(S)
  BY <1>5 DEF nm
<1>7. QED
  BY <1>3, <1>5, <1>6 DEF ToSet

LEMMA NeedListed ==
    ASSUME IInv, OInv, RqInv, PInv, pc = "done", NEW p \in Points, NEW k \in DOMAIN needs[p]
    PROVE  needs[p][k] \in Nat /\ \E h, i : Listing(needs[p][k], h, i)
<1>1. needs \in Ruptures /\ indx_master = MasterList(needs) /\ placed = nm
  BY DEF RqInv, PInv, OInv
<1>2. PICK m \in 1 .. nm : needs[p][k] = indx_master[m]
  BY <1>1, MasterHasNeeds
<1>3. \E h \in Handlers : \E i \in DOMAIN sgts_by_handler[h] : Placed(h, i) = indx_master[m]
  BY <1>1 DEF OInv, Members
<1>4. QED
  BY <1>1, <1>2, <1>3, NeedsFacts DEF Listing

(* A tensor is in one list only, and there once. *)
LEMMA ListingFacts ==
    ASSUME InputsOK, TypeOK, NEW x, NEW h, NEW k, Listing(x, h, k)
    PROVE  /\ h \in Handlers /\ h \in 1 .. num_sgt_handlers - 1 /\ h \in Nat
           /\ sgts_by_handler[h] \in Seq(Nat) /\ List(h) = sgts_by_handler[h]
           /\ k \in DOMAIN sgts_by_handler[h] /\ k \in 1 .. Len(List(h)) /\ k \in Nat
           /\ Placed(h, k) = x /\ x = List(h)[k] /\ x \in Nat
<1>1. h \in Handlers /\ k \in DOMAIN sgts_by_handler[h] /\ Placed(h, k) = x
  BY DEF Listing
<1>2. sgts_by_handler[h] \in Seq(Nat) /\ List(h) = sgts_by_handler[h]
  BY <1>1 DEF TypeOK, List
<1>3. h \in 1 .. num_sgt_handlers - 1 /\ h \in Nat
  BY <1>1 DEF Handlers, InputsOK
<1>4. k \in 1 .. Len(List(h)) /\ k \in Nat
  BY <1>1, <1>2, LenProperties
<1>5. x = List(h)[k] /\ x \in Nat
  BY <1>1, <1>2, <1>4, ElementOfSeq DEF Placed
<1>6. QED
  BY <1>1, <1>2, <1>3, <1>4, <1>5

LEMMA ListedOnce ==
    ASSUME InputsOK, TypeOK, Ordered, NEW x, NEW g, NEW i, NEW h, NEW k,
           Listing(x, g, i), Listing(x, h, k)
    PROVE  g = h /\ i = k
<1>1. /\ g \in Handlers /\ h \in Handlers /\ g \in Nat /\ h \in Nat /\ i \in Nat /\ k \in Nat
      /\ i \in DOMAIN sgts_by_handler[g] /\ k \in DOMAIN sgts_by_handler[h]
      /\ Placed(g, i) = x /\ Placed(h, k) = x /\ x \in Nat
  BY ListingFacts
<1>2. ~Before(g, i, h, k) /\ ~Before(h, k, g, i)
  BY <1>1 DEF Ordered
<1>3. QED
  BY <1>1, <1>2 DEF Before

LEMMA ListAscends ==
    ASSUME InputsOK, TypeOK, Ordered, NEW h \in Handlers
    PROVE  List(h) = sgts_by_handler[h] /\ List(h) \in Seq(Nat) /\ Ascending(List(h))
<1>1. List(h) = sgts_by_handler[h] /\ List(h) \in Seq(Nat)
  BY DEF List, TypeOK
<1>2. Ascending(List(h))
  BY <1>1 DEF Ascending, Ordered, Before, Placed
<1>3. QED
  BY <1>1, <1>2

(* The part of a list that is asked for *)
Asked == /\ InputsOK /\ TypeOK /\ Ordered
         /\ request_from_handler_id \in Handlers
         /\ starting_index \in Nat /\ ending_index \in Nat
         /\ starting_index < ending_index /\ ending_index <= Len(CurrentList)

LEMMA RequestAsks == IInv /\ OInv /\ RqInv /\ rq_pc = "request" => Asked
<1> SUFFICES ASSUME IInv, OInv, RqInv, rq_pc = "request" PROVE Asked
  OBVIOUS
<1>1. InputsOK /\ TypeOK /\ Ordered /\ ChunkOK /\ RequestFits
  BY DEF IInv, OInv, RqInv
<1>2. Len(CurrentList) \in Nat
  BY <1>1, ListType DEF CurrentList
<1>3. /\ starting_index \in Nat /\ ending_index \in Nat
      /\ starting_index < ending_index /\ ending_index <= Len(CurrentList)
  BY <1>1, <1>2 DEF ChunkOK, RequestFits
<1>4. request_from_handler_id \in Handlers
  <2>1. CurrentList # <<>>
    <3>1. Len(CurrentList) # 0
      BY <1>2, <1>3
    <3>2. QED
      BY <3>1
  <2>2. QED
    BY <2>1 DEF CurrentList, List
<1>5. QED
  BY <1>1, <1>3, <1>4 DEF Asked

(* A tensor is looked for in the answer exactly if it was asked for.         *)
LEMMA ChunkHolds ==
    ASSUME Asked, NEW x, NEW h, NEW k, Listing(x, h, k)
    PROVE  InChunk(x) <=> h = request_from_handler_id /\ starting_index < k /\ k <= ending_index
<1> DEFINE c == request_from_handler_id
           s == starting_index
           e == ending_index
<1>1. /\ InputsOK /\ TypeOK /\ Ordered /\ c \in Handlers /\ s \in Nat /\ e \in Nat
      /\ s < e /\ e <= Len(CurrentList)
  BY DEF Asked
<1>2. CurrentList = List(c) /\ List(c) \in Seq(Nat) /\ Ascending(List(c)) /\ List(c) = sgts_by_handler[c]
  BY <1>1, ListAscends DEF CurrentList
<1>3. /\ h \in Handlers /\ h \in Nat /\ k \in DOMAIN sgts_by_handler[h] /\ k \in Nat
      /\ Placed(h, k) = x /\ x \in Nat /\ x = List(h)[k] /\ k \in 1 .. Len(List(h))
  BY <1>1, ListingFacts
<1>4. c \in Nat /\ Len(List(c)) \in Nat
  BY <1>1, <1>2 DEF Handlers, InputsOK
<1> DEFINE lo == List(c)[s + 1]
           hi == List(c)[e]
<1>5. /\ s + 1 \in DOMAIN List(c) /\ e \in DOMAIN List(c)
      /\ lo \in Nat /\ hi \in Nat
  <2>1. s + 1 \in 1 .. Len(List(c)) /\ e \in 1 .. Len(List(c))
    BY <1>1, <1>2, <1>4
  <2>2. DOMAIN List(c) = 1 .. Len(List(c))
    BY <1>2, LenProperties
  <2>3. lo \in Nat /\ hi \in Nat
    BY <1>2, <2>1, ElementOfSeq
  <2>4. QED
    BY <2>1, <2>2, <2>3
<1>6. InChunk(x) <=> lo <= x /\ x <= hi
  <2>1. At(CurrentList, s) = lo /\ At(CurrentList, e - 1) = hi
    BY <1>1, <1>2, <1>4 DEF At
  <2> HIDE DEF lo, hi
  <2>2. QED
    BY <1>3, <1>5, <2>1 DEF InChunk
<1>7. lo = Placed(c, s + 1) /\ hi = Placed(c, e)
  BY <1>2 DEF Placed
<1> HIDE DEF lo, hi
<1>8. CASE h # c
  <2>1. h < c \/ c < h
    BY <1>3, <1>4, <1>8
  <2>2. ASSUME h < c PROVE x < lo
    BY <1>1, <1>2, <1>3, <1>5, <1>7, <2>2 DEF Ordered, Before
  <2>3. ASSUME c < h PROVE hi < x
    BY <1>1, <1>2, <1>3, <1>5, <1>7, <2>3 DEF Ordered, Before
  <2>4. QED
    BY <1>3, <1>5, <1>6, <1>8, <2>1, <2>2, <2>3
<1>9. CASE h = c
  <2>1. k \in DOMAIN List(c) /\ x = List(c)[k]
    BY <1>2, <1>3, <1>9
  <2>2. /\ k < s + 1 => x < lo
        /\ s + 1 < k => lo < x
        /\ k = s + 1 => x = lo
        /\ k < e => x < hi
        /\ e < k => hi < x
        /\ k = e => x = hi
    BY <1>2, <1>5, <2>1 DEF Ascending, lo, hi
  <2>3. QED
    BY <1>1, <1>3, <1>5, <1>6, <1>9, <2>2
<1>10. QED
  BY <1>8, <1>9

(* The tensor that is used for an index is the one with that index. *)
LEMMA RightTensor ==
    ASSUME Asked, NEW x, NEW h, NEW k, Listing(x, h, k), InChunk(x)
    PROVE  Tensor(x) = x
<1> DEFINE s == starting_index
           e == ending_index
           L == CurrentList
<1>1. /\ InputsOK /\ TypeOK /\ Ordered /\ request_from_handler_id \in Handlers
      /\ s \in Nat /\ e \in Nat /\ s < e /\ e <= Len(L)
  BY DEF Asked
<1>2. h = request_from_handler_id /\ s < k /\ k <= e
  BY ChunkHolds
<1>3. L = List(h) /\ L \in Seq(Nat) /\ Ascending(L)
  BY <1>1, <1>2, ListAscends DEF CurrentList
<1>4. k \in Nat /\ x = L[k] /\ x \in Nat
  BY <1>1, <1>2, <1>3, ListingFacts
<1>5. MidIndex(x) = k - 1
  <2>1. k - 1 \in s .. e - 1 /\ x = L[(k - 1) + 1]
    BY <1>1, <1>2, <1>4
  <2>2. QED
    BY <1>1, <1>3, <1>4, <2>1, SearchFinds
<1>6. Offset(x) = (k - 1) - s
  BY <1>5 DEF Offset
<1>7. Len(Chunk) = e - s /\ \A i \in 1 .. e - s : Chunk[i] = L[s + i]
  <2>1. Len(L) \in Nat /\ \A i \in s + 1 .. e : L[i] \in Nat
    BY <1>1, <1>3
  <2>2. s + 1 \in Int /\ e \in Int /\ s + 1 <= e /\ e - (s + 1) + 1 = e - s
    BY <1>1
  <2>3. /\ Len(SubSeq(L, s + 1, e)) = e - (s + 1) + 1
        /\ \A i \in 1 .. e - (s + 1) + 1 : SubSeq(L, s + 1, e)[i] = L[(s + 1) + i - 1]
    BY <2>1, <2>2, SubSeqProperties
  <2>4. \A i \in 1 .. e - s : (s + 1) + i - 1 = s + i
    BY <1>1
  <2>5. QED
    BY <2>2, <2>3, <2>4 DEF Chunk
<1>8. /\ (k - 1) - s < Len(Chunk) /\ k - s \in 1 .. e - s /\ ((k - 1) - s) + 1 = k - s
      /\ s + (k - s) = k
  BY <1>1, <1>2, <1>4, <1>7
<1>9. At(Chunk, (k - 1) - s) = x
  <2>1. Chunk[k - s] = L[k]
    BY <1>7, <1>8
  <2>2. QED
    BY <1>4, <1>8, <2>1 DEF At
<1>10. QED
  BY <1>6, <1>8, <1>9 DEF Tensor
-----------------------------------------------------------------------------
(* How what has arrived changes from step to step *)
LEMMA PastNext ==
    ASSUME UNCHANGED <<sgts_by_handler, num_sgt_handlers>>
    PROVE  \A x : Past(x)' <=> \E h \in Handlers : \E k \in DOMAIN sgts_by_handler[h] :
                                   Listing(x, h, k) /\ Behind(h, k)'
  BY DEF Past, Listing, Placed, Handlers

LEMMA NothingPast ==
    ASSUME InputsOK, request_from_handler_id = 0
    PROVE  \A x : ~Past(x)
<1>1. \A h \in Handlers : h \in Nat /\ h > 0
  BY DEF Handlers, InputsOK
<1>2. QED
  BY <1>1 DEF Past, Behind

(* The handlers that are passed over have no list. *)
LEMMA SkipsEmpty ==
    ASSUME InputsOK, NEW h \in Nat, NEW k, k = NextWithList(h)
    PROVE  /\ k \in Nat /\ k <= num_sgt_handlers
           /\ k >= h \/ k = num_sgt_handlers
           /\ \A j \in Handlers : h <= j /\ j < k => List(j) = <<>>
<1> DEFINE S == {j \in h .. num_sgt_handlers - 1 : List(j) # <<>>} \cup {num_sgt_handlers}
<1>1. num_sgt_handlers \in Nat
  BY DEF InputsOK
<1>2. S \in SUBSET Nat /\ S # {}
  BY <1>1
<1>3. k \in S /\ \A x \in S : k <= x
  <2> HIDE DEF S
  <2>1. Min(S) \in S /\ \A x \in S : Min(S) <= x
    BY <1>2, LeastElement
  <2>2. QED
    BY <2>1 DEF NextWithList, S
<1>4. ASSUME NEW j \in Handlers, h <= j, j < k PROVE List(j) = <<>>
  <2>1. j \notin S /\ j \in h .. num_sgt_handlers - 1
    BY <1>1, <1>3, <1>4 DEF Handlers
  <2>2. QED
    BY <2>1
<1>5. QED
  BY <1>1, <1>3, <1>4

LEMMA PointsKept ==
    ASSUME PInv, UNCHANGED <<needs, indx_master, srf_pts_used, srf_indices_split, sgt_heads_split,
                             processed, nsplit>>,
           \A x : Past(x)' <=> Past(x), PlaceOK', SplitOK'
    PROVE  PInv'
<1>1. Points' = Points
  BY DEF Points
<1>2. ASSUME NEW p \in Points, Untouched(p) PROVE Untouched(p)'
  BY <1>2 DEF Untouched, IsSplit
<1>3. ASSUME NEW p \in Points, Whole(p) PROVE Whole(p)'
  BY <1>3 DEF Whole, IsSplit
<1>4. ASSUME NEW p \in Points, Saved(p) PROVE Saved(p)'
  BY <1>4 DEF Saved, Waits
<1>5. \A p \in Points : Untouched(p)' \/ Whole(p)' \/ Saved(p)'
  BY <1>2, <1>3, <1>4 DEF PInv
<1>6. QED
  BY <1>1, <1>5 DEF PInv, MasterList

LEMMA InitPoints == rqInit => PInv
<1> SUFFICES ASSUME rqInit PROVE PInv
  OBVIOUS
<1>1. InputsOK /\ request_from_handler_id = 0
  BY SgtBucketsAssumption DEF rqInit, Init, InputsOK
<1>2. PlaceOK /\ indx_master = MasterList(needs)
  BY DEF rqInit, PlaceOK
<1>3. SplitOK
  BY DEF rqInit, SplitOK, Once
<1>4. ASSUME NEW p \in Points PROVE Untouched(p)
  BY <1>1, NothingPast DEF rqInit, Untouched, IsSplit, Has
<1>5. QED
  BY <1>2, <1>3, <1>4 DEF PInv

LEMMA BeginPoints == IInv /\ RqInv /\ PInv /\ Begin => PInv'
<1> SUFFICES ASSUME IInv, RqInv, PInv, Begin PROVE PInv'
  OBVIOUS
<1> DEFINE c == NextWithList(0)
<1>1. /\ rq_pc = "wait" /\ rq_pc' = "next" /\ request_from_handler_id' = c
      /\ UNCHANGED <<vars, rqInputs, starting_index, ending_index, srf_pts_used, splitVars, nsplit,
                     processed>>
  BY DEF Begin
<1>2. /\ UNCHANGED <<sgts_by_handler, num_sgt_handlers>>
      /\ UNCHANGED <<needs, indx_master, srf_pts_used, srf_indices_split, sgt_heads_split,
                     processed, nsplit>>
  BY <1>1 DEF vars, inputs, rqInputs, splitVars
<1>3. InputsOK /\ TypeOK /\ request_from_handler_id = 0 /\ ending_index = 0
  BY <1>1 DEF IInv, PInv, PlaceOK, RqInv
<1>4. \A x : ~Past(x)
  BY <1>3, NothingPast
<1>5. /\ c \in Nat /\ c <= num_sgt_handlers
      /\ \A j \in Handlers : 0 <= j /\ j < c => List(j) = <<>>
  BY <1>3, SkipsEmpty
<1>6. ASSUME NEW x, NEW h, NEW k, Listing(x, h, k) PROVE ~Behind(h, k)'
  <2>1. h \in Handlers /\ h \in Nat /\ k \in 1 .. Len(List(h))
    BY <1>3, <1>6, ListingFacts
  <2>2. List(h) # <<>>
    <3>1. CASE List(h) = <<>>
      BY <2>1, <3>1
    <3>2. QED
      BY <3>1
  <2>3. ~(h < c) /\ ~(k <= 0)
    BY <1>5, <2>1, <2>2
  <2>4. Behind(h, k)' <=> h < c \/ (h = c /\ k <= 0)
    BY <1>1, <1>3 DEF Behind, Cut
  <2>5. QED
    BY <2>3, <2>4
<1>7. \A x : Past(x)' <=> Past(x)
  BY <1>2, <1>4, <1>6, PastNext
<1>8. PlaceOK' /\ SplitOK'
  BY <1>1, <1>2 DEF PInv, PlaceOK, SplitOK, Points
<1>9. QED
  BY <1>2, <1>7, <1>8, PointsKept

LEMMA ChunkPoints == IInv /\ PInv /\ NextChunk => PInv'
<1> SUFFICES ASSUME IInv, PInv, NextChunk PROVE PInv'
  OBVIOUS
<1>1. /\ rq_pc = "next" /\ rq_pc' = "request" /\ starting_index' = ending_index
      /\ UNCHANGED <<vars, rqInputs, request_from_handler_id, srf_pts_used, splitVars, nsplit,
                     processed>>
  BY DEF NextChunk
<1>2. /\ UNCHANGED <<sgts_by_handler, num_sgt_handlers>>
      /\ UNCHANGED <<needs, indx_master, srf_pts_used, srf_indices_split, sgt_heads_split,
                     processed, nsplit>>
  BY <1>1 DEF vars, inputs, rqInputs, splitVars
<1>3. \A h, k : Behind(h, k)' <=> Behind(h, k)
  BY <1>1 DEF Behind, Cut
<1>4. \A x : Past(x)' <=> Past(x)
  BY <1>2, <1>3, PastNext DEF Past
<1>5. PlaceOK' /\ SplitOK'
  BY <1>1, <1>2 DEF PInv, PlaceOK, SplitOK, Points
<1>6. QED
  BY <1>2, <1>4, <1>5, PointsKept

LEMMA HandlerPoints == IInv /\ RqInv /\ PInv /\ NextHandler => PInv'
<1> SUFFICES ASSUME IInv, RqInv, PInv, NextHandler PROVE PInv'
  OBVIOUS
<1> DEFINE c == request_from_handler_id
           d == NextWithList(c + 1)
           n == num_sgt_handlers
<1>1. /\ rq_pc = "next" /\ ending_index = Len(CurrentList) /\ c' = d
      /\ \/ d < n /\ starting_index' = 0 /\ rq_pc' = "request"
         \/ d >= n /\ rq_pc' = "split" /\ UNCHANGED <<starting_index, ending_index>>
      /\ UNCHANGED <<vars, rqInputs, srf_pts_used, splitVars, nsplit, processed>>
  BY DEF NextHandler
<1>2. /\ UNCHANGED <<sgts_by_handler, num_sgt_handlers>>
      /\ UNCHANGED <<needs, indx_master, srf_pts_used, srf_indices_split, sgt_heads_split,
                     processed, nsplit>>
  BY <1>1 DEF vars, inputs, rqInputs, splitVars
<1>3. InputsOK /\ TypeOK /\ c \in 0 .. n /\ n \in Nat /\ c \in Nat
  BY <1>1 DEF IInv, RqInv, ChunkOK, InputsOK
<1>4. /\ d \in Nat /\ d <= n /\ (d >= c + 1 \/ d = n)
      /\ \A j \in Handlers : c + 1 <= j /\ j < d => List(j) = <<>>
  BY <1>3, SkipsEmpty
<1> HIDE DEF d
<1>5. ASSUME NEW x, NEW h, NEW k, Listing(x, h, k) PROVE Behind(h, k)' <=> Behind(h, k)
  <2>1. h \in Handlers /\ h \in 1 .. n - 1 /\ k \in 1 .. Len(List(h))
    BY <1>3, <1>5, ListingFacts
  <2>2. Len(List(h)) \in Nat
    BY <1>3, ListType
  <2>3. Behind(h, k) <=> h <= c
    <3>1. Behind(h, k) <=> h < c \/ (h = c /\ k <= Len(List(c)))
      BY <1>1 DEF Behind, Cut, CurrentList
    <3>2. QED
      BY <1>3, <2>1, <2>2, <3>1
  <2>4. Behind(h, k)' <=> h < d
    <3>1. CASE d < n /\ starting_index' = 0 /\ rq_pc' = "request"
      <4>1. Behind(h, k)' <=> h < d \/ (h = d /\ k <= 0)
        BY <1>1, <3>1 DEF Behind, Cut
      <4>2. QED
        BY <2>1, <4>1
    <3>2. CASE d >= n
      <4>1. h < d
        BY <1>3, <1>4, <2>1, <3>2
      <4>2. QED
        BY <1>1, <4>1 DEF Behind
    <3>3. QED
      BY <1>1, <3>1, <3>2
  <2>5. h < d => h <= c
    <3>1. List(h) # <<>>
      <4>1. CASE List(h) = <<>>
        BY <2>1, <4>1
      <4>2. QED
        BY <4>1
    <3>2. QED
      BY <1>3, <1>4, <2>1, <3>1
  <2>6. h <= c => h < d
    BY <1>3, <1>4, <2>1
  <2>7. QED
    BY <2>3, <2>4, <2>5, <2>6
<1>6. \A x : Past(x)' <=> Past(x)
  BY <1>2, <1>5, PastNext DEF Past
<1>7. PlaceOK' /\ SplitOK'
  <2>1. rq_pc' = "split" => d = n
    BY <1>1, <1>3, <1>4
  <2>2. PlaceOK'
    BY <1>1, <1>2, <2>1 DEF PlaceOK
  <2>3. SplitOK'
    BY <1>1, <1>2 DEF PInv, SplitOK, Points
  <2>4. QED
    BY <2>2, <2>3
<1>8. QED
  BY <1>2, <1>6, <1>7, PointsKept

LEMMA LastPoints == PInv /\ rqFinish => PInv'
<1> SUFFICES ASSUME PInv, rqFinish PROVE PInv'
  OBVIOUS
<1>1. /\ rq_pc = "split" /\ rq_pc' = "done" /\ nsplit = Len(srf_indices_split)
      /\ UNCHANGED <<vars, rqInputs, chunkVars, srf_pts_used, splitVars, nsplit, processed>>
  BY DEF rqFinish
<1>2. /\ UNCHANGED <<sgts_by_handler, num_sgt_handlers>>
      /\ UNCHANGED <<needs, indx_master, srf_pts_used, srf_indices_split, sgt_heads_split,
                     processed, nsplit>>
      /\ UNCHANGED <<request_from_handler_id, starting_index, ending_index>>
  BY <1>1 DEF vars, inputs, rqInputs, splitVars, chunkVars
<1>3. \A h, k : Behind(h, k)' <=> Behind(h, k)
  BY <1>1, <1>2 DEF Behind, Cut
<1>4. \A x : Past(x)' <=> Past(x)
  BY <1>2, <1>3, PastNext DEF Past
<1>5. PlaceOK' /\ SplitOK'
  BY <1>1, <1>2 DEF PInv, PlaceOK, SplitOK, Points
<1>6. QED
  BY <1>2, <1>4, <1>5, PointsKept

LEMMA UnansweredPoints == PInv /\ NotFound => PInv'
<1> SUFFICES ASSUME PInv, NotFound PROVE PInv'
  OBVIOUS
<1>1. /\ rq_pc = "request" /\ rq_pc' = "unanswered"
      /\ UNCHANGED <<vars, rqInputs, chunkVars, srf_pts_used, splitVars, nsplit, processed>>
  BY DEF NotFound
<1>2. /\ UNCHANGED <<sgts_by_handler, num_sgt_handlers>>
      /\ UNCHANGED <<needs, indx_master, srf_pts_used, srf_indices_split, sgt_heads_split,
                     processed, nsplit>>
      /\ UNCHANGED <<request_from_handler_id, starting_index, ending_index>>
  BY <1>1 DEF vars, inputs, rqInputs, splitVars, chunkVars
<1>3. \A h, k : Behind(h, k)' <=> Behind(h, k)
  BY <1>1, <1>2 DEF Behind, Cut
<1>4. \A x : Past(x)' <=> Past(x)
  BY <1>2, <1>3, PastNext DEF Past
<1>5. PlaceOK' /\ SplitOK'
  BY <1>1, <1>2 DEF PInv, PlaceOK, SplitOK, Points
<1>6. QED
  BY <1>2, <1>4, <1>5, PointsKept

LEMMA BucketPoints ==
    ASSUME IInv, IInv', RqInv, PInv, Next,
           UNCHANGED <<rqInputs, rq_pc, chunkVars, srf_pts_used, splitVars, nsplit, processed>>
    PROVE  PInv'
<1>1. pc # "done" /\ UNCHANGED inputs
  BY DEF Next, BuildCutoffs, StartSearch, Search, Place, Abort, Finish, Found
<1>2. rq_pc = "wait" /\ request_from_handler_id = 0 /\ rq_pc' = "wait" /\ request_from_handler_id' = 0
  BY <1>1 DEF RqInv, PInv, PlaceOK, chunkVars
<1>3. UNCHANGED <<needs, indx_master, srf_pts_used, srf_indices_split, sgt_heads_split, processed,
                  nsplit>>
  BY <1>1 DEF inputs, rqInputs, splitVars
<1>4. InputsOK /\ InputsOK' /\ Handlers' = Handlers
  BY <1>1 DEF IInv, inputs, Handlers
<1>5. \A x : ~Past(x)
  BY <1>2, <1>4, NothingPast
<1>6. \A x : ~Past(x)'
  <2>1. \A h \in Handlers : h \in Nat /\ h > 0
    BY <1>4 DEF Handlers, InputsOK
  <2>2. QED
    BY <1>2, <1>4, <2>1 DEF Past, Behind
<1>7. PlaceOK' /\ SplitOK'
  BY <1>2, <1>3 DEF PInv, PlaceOK, SplitOK, Points
<1>8. QED
  BY <1>3, <1>5, <1>6, <1>7, PointsKept
-----------------------------------------------------------------------------
(* A request: what arrives was not there before, and a point gets what it    *)
(* needs.                                                                    *)
LEMMA Arrives ==
    ASSUME IInv, OInv, RqInv, Request, NEW x, NEW h, NEW k, Listing(x, h, k)
    PROVE  /\ Past(x)' <=> Past(x) \/ InChunk(x)
           /\ Past(x) => ~InChunk(x)
           /\ InChunk(x) => Tensor(x) = x
<1> DEFINE c == request_from_handler_id
<1>1. /\ rq_pc = "request" /\ rq_pc' = "next"
      /\ UNCHANGED <<sgts_by_handler, num_sgt_handlers>>
      /\ UNCHANGED <<request_from_handler_id, starting_index, ending_index>>
  BY DEF Request, vars, inputs, chunkVars
<1>2. Asked /\ InputsOK /\ TypeOK /\ Ordered
  BY <1>1, RequestAsks DEF IInv, OInv
<1>3. \A g, i : Listing(x, g, i) => g = h /\ i = k
  BY <1>2, ListedOnce
<1>4. h \in Handlers /\ h \in Nat /\ k \in DOMAIN sgts_by_handler[h] /\ k \in Nat
  BY <1>2, ListingFacts
<1>5. Past(x) <=> Behind(h, k)
  BY <1>3, <1>4 DEF Past
<1>6. Past(x)' <=> Behind(h, k)'
  BY <1>1, <1>3, <1>4, PastNext
<1>7. /\ Behind(h, k) <=> h < c \/ (h = c /\ k <= starting_index)
      /\ Behind(h, k)' <=> h < c \/ (h = c /\ k <= ending_index)
  BY <1>1 DEF Behind, Cut
<1>8. InChunk(x) <=> h = c /\ starting_index < k /\ k <= ending_index
  BY <1>2, ChunkHolds
<1>9. c \in Nat /\ starting_index \in Nat /\ ending_index \in Nat /\ starting_index < ending_index
  BY <1>2 DEF Asked, Handlers, InputsOK
<1>10. InChunk(x) => Tensor(x) = x
  BY <1>2, RightTensor
<1>11. QED
  BY <1>4, <1>5, <1>6, <1>7, <1>8, <1>9, <1>10

LEMMA HereFacts ==
    ASSUME needs \in Ruptures, NEW p \in Points
    PROVE  /\ Here(p) \subseteq DOMAIN needs[p]
           /\ Complete(p) <=> p \notin srf_pts_used /\ Here(p) = DOMAIN needs[p]
           /\ Partial(p) <=> p \notin srf_pts_used /\ Here(p) # DOMAIN needs[p] /\ Here(p) # {}
<1> DEFINE n == Len(needs[p])
           D == DOMAIN needs[p]
           H == Here(p)
<1>1. D = 1 .. n /\ n \in 1 .. 4
  BY NeedsFacts
<1>2. H \subseteq D
  BY DEF Here
<1> HIDE DEF D, H, n
<1>3. IsFiniteSet(D) /\ Cardinality(D) = n
  <2>1. IsFiniteSet(1 .. n) /\ Cardinality(1 .. n) = n - 1 + 1
    <3>1. n \in Int /\ 1 \in Int /\ ~(1 > n)
      BY <1>1
    <3>2. QED
      BY <3>1, FS_Interval
  <2>2. QED
    BY <1>1, <2>1
<1>4. IsFiniteSet(H) /\ Cardinality(H) <= n /\ (Cardinality(H) = n => H = D) /\ Cardinality(H) \in Nat
  BY <1>2, <1>3, FS_Subset, FS_CardinalityType
<1>5. (H = D => Cardinality(H) = n) /\ (Cardinality(H) = 0 <=> H = {})
  BY <1>3, <1>4, FS_EmptySet
<1>6. (Cardinality(H) = n <=> H = D) /\ (Cardinality(H) \in 1 .. n - 1 <=> H # D /\ H # {})
  BY <1>1, <1>4, <1>5
<1>7. QED
  BY <1>2, <1>6 DEF Complete, Partial, NumFound, D, H, n

(* Two lists without repetitions that have nothing in common, joined *)
LEMMA JoinFacts ==
    ASSUME NEW S, NEW a \in Seq(S), NEW b \in Seq(S), Once(a), Once(b),
           \A x : ~(Has(a, x) /\ Has(b, x)), NEW c, c = a \o b
    PROVE  c \in Seq(S) /\ Once(c) /\ \A x : Has(c, x) <=> Has(a, x) \/ Has(b, x)
<1> DEFINE m == Len(a)
           n == Len(b)
<1>1. m \in Nat /\ n \in Nat /\ DOMAIN a = 1 .. m /\ DOMAIN b = 1 .. n
  BY LenProperties
<1>2. /\ c \in Seq(S) /\ Len(c) = m + n
      /\ \A i \in 1 .. m + n : c[i] = IF i <= m THEN a[i] ELSE b[i - m]
  BY ConcatProperties
<1>3. DOMAIN c = 1 .. m + n
  BY <1>2, LenProperties
<1> HIDE DEF m, n
<1>4. \A i \in 1 .. m + n : \/ i \in 1 .. m /\ c[i] = a[i]
                            \/ i > m /\ i - m \in 1 .. n /\ c[i] = b[i - m]
  BY <1>1, <1>2
<1>5. /\ \A i \in 1 .. m : i \in 1 .. m + n /\ c[i] = a[i]
      /\ \A i \in 1 .. n : i + m \in 1 .. m + n /\ c[i + m] = b[i]
  BY <1>1, <1>2
<1>6. \A x : Has(c, x) <=> Has(a, x) \/ Has(b, x)
  <2>1. ASSUME NEW x, Has(c, x) PROVE Has(a, x) \/ Has(b, x)
    BY <1>1, <1>3, <1>4, <2>1 DEF Has
  <2>2. ASSUME NEW x, Has(a, x) PROVE Has(c, x)
    BY <1>1, <1>3, <1>5, <2>2 DEF Has
  <2>3. ASSUME NEW x, Has(b, x) PROVE Has(c, x)
    <3>1. PICK i \in 1 .. n : b[i] = x
      BY <1>1, <2>3 DEF Has
    <3>2. QED
      BY <1>3, <1>5, <3>1 DEF Has
  <2>4. QED
    BY <2>1, <2>2, <2>3
<1>7. Once(c)
  <2> SUFFICES ASSUME NEW i \in 1 .. m + n, NEW j \in 1 .. m + n, c[i] = c[j] PROVE i = j
    BY <1>3 DEF Once
  <2>1. CASE i \in 1 .. m /\ c[i] = a[i]
    <3>1. CASE j \in 1 .. m /\ c[j] = a[j]
      BY <1>1, <2>1, <3>1 DEF Once
    <3>2. CASE j > m /\ j - m \in 1 .. n /\ c[j] = b[j - m]
      <4>1. Has(a, c[i]) /\ Has(b, c[i])
        BY <1>1, <2>1, <3>2 DEF Has
      <4>2. QED
        BY <4>1
    <3>3. QED
      BY <1>4, <3>1, <3>2
  <2>2. CASE i > m /\ i - m \in 1 .. n /\ c[i] = b[i - m]
    <3>1. CASE j \in 1 .. m /\ c[j] = a[j]
      <4>1. Has(a, c[i]) /\ Has(b, c[i])
        BY <1>1, <2>2, <3>1 DEF Has
      <4>2. QED
        BY <4>1
    <3>2. CASE j > m /\ j - m \in 1 .. n /\ c[j] = b[j - m]
      <4>1. i - m = j - m
        BY <1>1, <2>2, <3>2 DEF Once
      <4>2. QED
        BY <1>1, <4>1
    <3>3. QED
      BY <1>4, <3>1, <3>2
  <2>3. QED
    BY <1>4, <2>1, <2>2
<1>8. QED
  BY <1>2, <1>6, <1>7

LEMMA AscendingOnce ==
    ASSUME NEW s, Ascending(s), \A i \in DOMAIN s : i \in Nat /\ s[i] \in Nat
    PROVE  Once(s)
<1> SUFFICES ASSUME NEW i \in DOMAIN s, NEW j \in DOMAIN s, s[i] = s[j], i # j PROVE FALSE
  BY DEF Once
<1>1. i < j \/ j < i
  OBVIOUS
<1>2. s[i] < s[j] \/ s[j] < s[i]
  BY <1>1 DEF Ascending
<1>3. QED
  BY <1>2

LEMMA AppendFirst == ASSUME NEW v \in Seq(Nat) PROVE Append(<<>>, v) = <<v>>
<1>1. <<>> \in Seq(Seq(Nat)) /\ <<v>> \in Seq(Seq(Nat))
  OBVIOUS
<1>2. Append(<<>>, v) = <<>> \o <<v>>
  BY <1>1, AppendIsConcat
<1>3. <<>> \o <<v>> = <<v>>
  BY <1>1, ConcatEmptySeq
<1>4. QED
  BY <1>2, <1>3, Zenon

(* The points a request splits that were not split before *)
LEMMA NewlySplitFacts ==
    ASSUME RqInv, PInv
    PROVE  /\ NewlySplit \in Seq(Points) /\ Once(NewlySplit)
           /\ \A p : Has(NewlySplit, p) <=> p \in Points /\ Partial(p) /\ ~IsSplit(p)
<1> DEFINE Q == {p \in Points : Partial(p) /\ ~Contains(srf_indices_split, p)}
<1>1. Len(needs) \in Nat /\ Points = 1 .. Len(needs)
  BY NeedsFacts, LenProperties DEF RqInv, Points
<1>2. Q \in SUBSET Nat /\ Q \in SUBSET Points
  BY <1>1
<1>3. IsFiniteSet(Q)
  <2>1. IsFiniteSet(Points)
    BY <1>1, FS_Interval
  <2>2. QED
    BY <1>2, <2>1, FS_Subset
<1>4. NewlySplit = InOrder(Q)
  BY DEF NewlySplit
<1>5. \A p : p \in Q <=> p \in Points /\ Partial(p) /\ ~IsSplit(p)
  <2>1. DOMAIN srf_indices_split = 1 .. Len(srf_indices_split)
    BY LenProperties DEF PInv, SplitOK
  <2>2. QED
    BY <2>1 DEF IsSplit, Has, Contains
<1> HIDE DEF Q
<1>6. /\ NewlySplit \in [1 .. Cardinality(Q) -> Q] /\ Ascending(NewlySplit)
      /\ ToSet(NewlySplit) = Q /\ Cardinality(Q) \in Nat
  BY <1>2, <1>3, <1>4, InOrderLists
<1> DEFINE n == Cardinality(Q)
<1>7. NewlySplit \in Seq(Points)
  <2>1. n \in Nat /\ NewlySplit \in [1 .. n -> Points]
    BY <1>2, <1>6
  <2> HIDE DEF n
  <2>2. QED
    BY <2>1
<1>8. Once(NewlySplit)
  <2>1. n \in Nat /\ NewlySplit \in [1 .. n -> Nat]
    BY <1>2, <1>6
  <2> HIDE DEF n
  <2>2. \A i \in DOMAIN NewlySplit : i \in Nat /\ NewlySplit[i] \in Nat
    BY <2>1
  <2>3. QED
    BY <1>6, <2>2, AscendingOnce
<1>9. \A p : Has(NewlySplit, p) <=> p \in Q
  BY <1>6 DEF Has, ToSet
<1>10. QED
  BY <1>5, <1>7, <1>8, <1>9

LEMMA RequestPoints == IInv /\ OInv /\ RqInv /\ PInv /\ Request => PInv'
<1> SUFFICES ASSUME IInv, OInv, RqInv, PInv, Request PROVE PInv'
  OBVIOUS
<1>1. /\ rq_pc = "request" /\ rq_pc' = "next" /\ pc = "done"
      /\ srf_pts_used' = srf_pts_used \cup {p \in Points : Complete(p)}
      /\ processed' = [p \in Points |-> IF Complete(p) THEN Append(processed[p], Arrived(p))
                                                        ELSE processed[p]]
      /\ srf_indices_split' = srf_indices_split \o NewlySplit
      /\ sgt_heads_split' = sgt_heads_split \cup
             UNION {Range(Arrived(p)) : p \in {q \in Points : Partial(q)}}
  BY DEF Request, RqInv
<1>2. UNCHANGED <<needs, indx_master, nsplit, request_from_handler_id>> /\ needs \in Ruptures
  BY DEF Request, vars, inputs, rqInputs, chunkVars, RqInv
<1>3. Points' = Points /\ nsplit = 0 /\ nsplit' = 0 /\ SplitOK
  BY <1>1, <1>2 DEF Points, PInv, SplitOK
<1>4. /\ srf_indices_split' \in Seq(Points) /\ Once(srf_indices_split')
      /\ \A p : Has(srf_indices_split', p) <=>
                    IsSplit(p) \/ (p \in Points /\ Partial(p) /\ ~IsSplit(p))
  <2>1. /\ NewlySplit \in Seq(Points) /\ Once(NewlySplit)
        /\ \A p : Has(NewlySplit, p) <=> p \in Points /\ Partial(p) /\ ~IsSplit(p)
    BY NewlySplitFacts
  <2>2. srf_indices_split \in Seq(Points) /\ Once(srf_indices_split)
    BY <1>3 DEF SplitOK
  <2>3. \A p : ~(Has(srf_indices_split, p) /\ Has(NewlySplit, p))
    BY <2>1 DEF IsSplit
  <2>4. /\ srf_indices_split' \in Seq(Points) /\ Once(srf_indices_split')
        /\ \A p : Has(srf_indices_split', p) <=> Has(srf_indices_split, p) \/ Has(NewlySplit, p)
    BY <1>1, <2>1, <2>2, <2>3, JoinFacts
  <2>5. QED
    BY <2>1, <2>4 DEF IsSplit
<1>5. PlaceOK' /\ SplitOK'
  <2>1. PlaceOK'
    BY <1>1, <1>2 DEF PlaceOK
  <2>2. DOMAIN processed' = Points
    BY <1>1
  <2>3. 0 \in 0 .. Len(srf_indices_split')
    BY <1>4, LenProperties
  <2>4. QED
    BY <1>1, <1>3, <1>4, <2>1, <2>2, <2>3 DEF SplitOK
<1>6. ASSUME NEW p \in Points, NEW k \in DOMAIN needs[p]
      PROVE  /\ Past(needs[p][k])' <=> Past(needs[p][k]) \/ k \in Here(p)
             /\ Past(needs[p][k]) => k \notin Here(p)
             /\ k \in Here(p) => Tensor(needs[p][k]) = needs[p][k]
  <2> DEFINE x == needs[p][k]
  <2>1. PICK h, i : Listing(x, h, i)
    BY <1>1, NeedListed
  <2>2. k \in Here(p) <=> InChunk(x)
    BY DEF Here
  <2>3. (\A y : y = x => (Past(y)' <=> Past(y) \/ InChunk(y)))
    BY <2>1, Arrives
  <2>4. Past(x)' <=> Past(x) \/ InChunk(x)
    BY <1>2, <2>3
  <2>5. QED
    BY <2>1, <2>2, <2>4, Arrives
<1> DEFINE Saves(p) == /\ \E k \in DOMAIN needs[p] : Past(needs[p][k])'
                       /\ \A k \in DOMAIN needs[p] :
                              Past(needs[p][k])' => needs[p][k] \in sgt_heads_split'
                       /\ Has(srf_indices_split', p)
                       /\ p \notin srf_pts_used' /\ processed'[p] = <<>>
<1>7. ASSUME NEW p \in Points, Saves(p) PROVE Saved(p)'
  <2>1. PICK i \in DOMAIN srf_indices_split' : srf_indices_split'[i] = p
    BY <1>7 DEF Has
  <2>2. i > nsplit' /\ ~(i <= nsplit')
    BY <1>3, <1>4, <2>1, LenProperties
  <2>3. QED
    BY <1>2, <1>7, <2>1, <2>2 DEF Saved, Waits
<1>8. ASSUME NEW p \in Points, Partial(p), NEW k \in Here(p)
      PROVE  needs[p][k] \in sgt_heads_split'
  <2>1. k \in DOMAIN needs[p] /\ Arrived(p)[k] = needs[p][k] /\ k \in DOMAIN Arrived(p)
    BY <1>2, <1>6, <1>8, HereFacts DEF Arrived
  <2>2. needs[p][k] \in Range(Arrived(p))
    BY <2>1 DEF Range
  <2>3. QED
    BY <1>1, <1>8, <2>2
<1>9. ASSUME NEW p \in Points, Untouched(p) PROVE Untouched(p)' \/ Whole(p)' \/ Saved(p)'
  <2>1. /\ p \notin srf_pts_used /\ ~IsSplit(p) /\ processed[p] = <<>>
        /\ \A k \in DOMAIN needs[p] : ~Past(needs[p][k])
    BY <1>9 DEF Untouched
  <2>2. CASE Here(p) = {}
    <3>1. ~Complete(p) /\ ~Partial(p)
      <4>1. DOMAIN needs[p] # {}
        <5>1. 1 \in DOMAIN needs[p]
          BY <1>2, NeedsFacts
        <5>2. QED
          BY <5>1
      <4>2. QED
        BY <1>2, <2>2, <4>1, HereFacts
    <3>2. p \notin srf_pts_used' /\ processed'[p] = <<>> /\ ~Has(srf_indices_split', p)
      BY <1>1, <1>4, <2>1, <3>1
    <3>3. \A k \in DOMAIN needs[p] : ~Past(needs[p][k])'
      BY <1>6, <2>1, <2>2
    <3>4. Untouched(p)'
      BY <1>2, <3>2, <3>3 DEF Untouched, IsSplit
    <3>5. QED
      BY <3>4
  <2>3. CASE Here(p) = DOMAIN needs[p]
    <3>1. Complete(p) /\ ~Partial(p)
      BY <1>2, <2>1, <2>3, HereFacts
    <3>2. Arrived(p) = needs[p]
      <4>1. /\ needs[p] \in Seq(Nat) /\ DOMAIN needs[p] = 1 .. Len(needs[p])
        BY <1>2, NeedsFacts
      <4>2. \A k \in DOMAIN needs[p] : Tensor(needs[p][k]) = needs[p][k]
        BY <1>6, <2>3
      <4>3. Arrived(p) = [k \in DOMAIN needs[p] |-> needs[p][k]]
        BY <2>3, <4>2 DEF Arrived
      <4>4. needs[p] = [k \in DOMAIN needs[p] |-> needs[p][k]]
        BY <4>1
      <4>5. QED
        BY <4>3, <4>4, Zenon
    <3>3. processed'[p] = <<needs[p]>>
      <4>1. needs[p] \in Seq(Nat) /\ Append(<<>>, needs[p]) = <<needs[p]>>
        BY <1>2, NeedsFacts, AppendFirst
      <4>2. processed'[p] = Append(processed[p], Arrived(p))
        BY <1>1, <3>1
      <4>3. QED
        BY <2>1, <3>2, <4>1, <4>2, Zenon
    <3>4. p \in srf_pts_used' /\ ~Has(srf_indices_split', p)
      BY <1>1, <1>4, <2>1, <3>1
    <3>5. Whole(p)'
      BY <1>2, <3>3, <3>4 DEF Whole, IsSplit
    <3>6. QED
      BY <3>5
  <2>4. CASE Here(p) # {} /\ Here(p) # DOMAIN needs[p]
    <3>1. Partial(p) /\ ~Complete(p) /\ Here(p) \subseteq DOMAIN needs[p]
      BY <1>2, <2>1, <2>4, HereFacts
    <3>2. p \notin srf_pts_used' /\ processed'[p] = <<>> /\ Has(srf_indices_split', p)
      BY <1>1, <1>4, <2>1, <3>1
    <3>3. \E k \in DOMAIN needs[p] : Past(needs[p][k])'
      BY <1>6, <2>4, <3>1
    <3>4. \A k \in DOMAIN needs[p] : Past(needs[p][k])' => needs[p][k] \in sgt_heads_split'
      BY <1>6, <1>8, <2>1, <3>1
    <3>5. Saved(p)'
      BY <1>7, <3>2, <3>3, <3>4
    <3>6. QED
      BY <3>5
  <2>5. QED
    BY <2>2, <2>3, <2>4
<1>10. ASSUME NEW p \in Points, Whole(p) PROVE Whole(p)'
  <2>1. p \in srf_pts_used /\ ~IsSplit(p) /\ processed[p] = <<needs[p]>>
    BY <1>10 DEF Whole
  <2>2. ~Complete(p) /\ ~Partial(p)
    BY <2>1 DEF Complete, Partial
  <2>3. p \in srf_pts_used' /\ processed'[p] = processed[p] /\ ~Has(srf_indices_split', p)
    BY <1>1, <1>4, <2>1, <2>2
  <2>4. QED
    BY <1>2, <2>1, <2>3 DEF Whole, IsSplit
<1>11. ASSUME NEW p \in Points, Saved(p) PROVE Saved(p)'
  <2>1. /\ \E k \in DOMAIN needs[p] : Past(needs[p][k])
        /\ \A k \in DOMAIN needs[p] : Past(needs[p][k]) => needs[p][k] \in sgt_heads_split
        /\ IsSplit(p)
    BY <1>11 DEF Saved, IsSplit, Has
  <2>2. p \notin srf_pts_used /\ processed[p] = <<>>
    <3>1. PICK i \in DOMAIN srf_indices_split : srf_indices_split[i] = p /\ (i > nsplit => Waits(p))
      BY <1>11 DEF Saved
    <3>2. i > nsplit
      BY <1>3, <3>1, LenProperties DEF SplitOK
    <3>3. QED
      BY <3>1, <3>2 DEF Waits
  <2>3. ~Complete(p)
    <3>1. Here(p) # DOMAIN needs[p]
      BY <1>6, <2>1
    <3>2. QED
      BY <1>2, <3>1, HereFacts
  <2>4. p \notin srf_pts_used' /\ processed'[p] = <<>> /\ Has(srf_indices_split', p)
    BY <1>1, <1>4, <2>1, <2>2, <2>3
  <2>5. \E k \in DOMAIN needs[p] : Past(needs[p][k])'
    BY <1>6, <2>1
  <2>6. ASSUME NEW k \in DOMAIN needs[p], Past(needs[p][k])' PROVE needs[p][k] \in sgt_heads_split'
    <3>1. CASE Past(needs[p][k])
      BY <1>1, <2>1, <3>1
    <3>2. CASE k \in Here(p)
      <4>1. Partial(p)
        BY <1>2, <2>2, <2>3, <3>2, HereFacts
      <4>2. QED
        BY <1>8, <3>2, <4>1
    <3>3. QED
      BY <1>6, <2>6, <3>1, <3>2
  <2>7. QED
    BY <1>7, <2>4, <2>5, <2>6
<1>12. \A p \in Points : Untouched(p)' \/ Whole(p)' \/ Saved(p)'
  BY <1>9, <1>10, <1>11 DEF PInv
<1>13. QED
  BY <1>2, <1>3, <1>5, <1>12 DEF PInv, MasterList

(* After the last request everything has arrived, so a split point finds all *)
(* its tensors among those that are saved.                                   *)
LEMMA AllPast ==
    ASSUME IInv, OInv, RqInv, PInv, rq_pc \in {"split", "done"},
           NEW p \in Points, NEW k \in DOMAIN needs[p]
    PROVE  Past(needs[p][k])
<1>1. pc = "done" /\ request_from_handler_id = num_sgt_handlers /\ InputsOK /\ TypeOK
  BY DEF RqInv, PInv, PlaceOK, IInv
<1>2. PICK h, i : Listing(needs[p][k], h, i)
  BY <1>1, NeedListed
<1>3. /\ h \in Handlers /\ h \in 1 .. num_sgt_handlers - 1 /\ i \in DOMAIN sgts_by_handler[h]
      /\ num_sgt_handlers \in Nat
  BY <1>1, <1>2, ListingFacts DEF InputsOK
<1>4. Behind(h, i)
  BY <1>1, <1>3 DEF Behind
<1>5. QED
  BY <1>2, <1>3, <1>4 DEF Past

LEMMA SplitPoints == IInv /\ OInv /\ RqInv /\ PInv /\ ProcessSplit => PInv'
<1> SUFFICES ASSUME IInv, OInv, RqInv, PInv, ProcessSplit PROVE PInv'
  OBVIOUS
<1> DEFINE m == nsplit + 1
           p == srf_indices_split[m]
           found == ToSet(needs[p]) \subseteq sgt_heads_split
<1>1. /\ rq_pc = "split" /\ nsplit < Len(srf_indices_split)
      /\ rq_pc' = (IF found THEN rq_pc ELSE "abort")
      /\ processed' = IF found THEN [processed EXCEPT ![p] = Append(@, needs[p])] ELSE processed
      /\ srf_pts_used' = srf_pts_used \cup {p} /\ nsplit' = m
  BY DEF ProcessSplit
<1>2. /\ UNCHANGED <<needs, indx_master, srf_indices_split, sgt_heads_split>>
      /\ UNCHANGED <<sgts_by_handler, num_sgt_handlers>>
      /\ UNCHANGED <<request_from_handler_id, starting_index, ending_index>>
      /\ needs \in Ruptures
  BY DEF ProcessSplit, vars, inputs, rqInputs, chunkVars, splitVars, RqInv
<1>3. /\ srf_indices_split \in Seq(Points) /\ Once(srf_indices_split) /\ DOMAIN processed = Points
      /\ DOMAIN srf_indices_split = 1 .. Len(srf_indices_split)
      /\ nsplit \in Nat /\ Len(srf_indices_split) \in Nat /\ PlaceOK /\ Points' = Points
  BY <1>2, LenProperties DEF PInv, SplitOK, Points
<1>4. m \in DOMAIN srf_indices_split /\ p \in Points /\ m \in Nat
  BY <1>1, <1>3, ElementOfSeq
<1> HIDE DEF p, m
<1>5. /\ \A k \in DOMAIN needs[p] : Past(needs[p][k]) => needs[p][k] \in sgt_heads_split
      /\ \E i \in DOMAIN srf_indices_split : srf_indices_split[i] = p /\ (i > nsplit => Waits(p))
  <2>1. IsSplit(p)
    BY <1>4 DEF IsSplit, Has, p
  <2>2. Saved(p)
    BY <1>4, <2>1 DEF PInv, Untouched, Whole
  <2>3. QED
    BY <2>2 DEF Saved
<1>6. found
  <2>1. \A k \in DOMAIN needs[p] : needs[p][k] \in sgt_heads_split
    BY <1>1, <1>4, <1>5, AllPast
  <2>2. QED
    BY <2>1 DEF ToSet
<1>7. processed[p] = <<>>
  <2>1. PICK i \in DOMAIN srf_indices_split : srf_indices_split[i] = p /\ (i > nsplit => Waits(p))
    BY <1>5
  <2>2. i = m
    BY <1>3, <1>4, <2>1 DEF Once, p
  <2>3. i > nsplit
    BY <1>3, <2>2 DEF m
  <2>4. QED
    BY <2>1, <2>3 DEF Waits
<1>8. /\ processed'[p] = <<needs[p]>> /\ DOMAIN processed' = Points
      /\ \A q \in Points : q # p => processed'[q] = processed[q]
  <2>1. Append(<<>>, needs[p]) = <<needs[p]>>
    BY <1>2, <1>4, NeedsFacts, AppendFirst
  <2>2. processed' = [processed EXCEPT ![p] = Append(processed[p], needs[p])]
    BY <1>1, <1>6
  <2> DEFINE v == Append(processed[p], needs[p])
  <2>3. v = <<needs[p]>>
    BY <1>7, <2>1, Zenon
  <2>4. processed' = [processed EXCEPT ![p] = v]
    BY <2>2
  <2> HIDE DEF v
  <2>5. processed'[p] = v /\ DOMAIN processed' = Points
        /\ \A q \in Points : q # p => processed'[q] = processed[q]
    BY <1>3, <1>4, <2>4
  <2>6. QED
    BY <2>3, <2>5
<1>9. rq_pc' = "split"
  BY <1>1, <1>6
<1>10. PlaceOK' /\ SplitOK'
  <2>1. PlaceOK'
    BY <1>1, <1>2, <1>3, <1>9 DEF PlaceOK
  <2>2. m \in 0 .. Len(srf_indices_split)
    BY <1>3, <1>4
  <2>3. QED
    BY <1>1, <1>2, <1>3, <1>8, <1>9, <2>1, <2>2 DEF SplitOK
<1>11. \A x : Past(x)' <=> Past(x)
  <2>1. \A h, k : Behind(h, k)' <=> Behind(h, k)
    BY <1>1, <1>2, <1>9 DEF Behind, Cut
  <2>2. QED
    BY <1>2, <2>1, PastNext DEF Past
<1>12. ASSUME NEW q \in Points, Untouched(q) PROVE Untouched(q)'
  <2>1. q # p
    BY <1>4, <1>12 DEF Untouched, IsSplit, Has, p
  <2>2. QED
    BY <1>1, <1>2, <1>8, <1>11, <1>12, <2>1 DEF Untouched, IsSplit
<1>13. ASSUME NEW q \in Points, Whole(q) PROVE Whole(q)'
  <2>1. q # p
    BY <1>4, <1>13 DEF Whole, IsSplit, Has, p
  <2>2. QED
    BY <1>1, <1>2, <1>8, <1>13, <2>1 DEF Whole, IsSplit
<1>14. ASSUME NEW q \in Points, Saved(q) PROVE Saved(q)'
  <2>1. PICK i \in DOMAIN srf_indices_split :
            /\ srf_indices_split[i] = q
            /\ i <= nsplit => processed[q] = <<needs[q]>>
            /\ i > nsplit => Waits(q)
    BY <1>14 DEF Saved
  <2>2. i \in Nat
    BY <1>3
  <2>3. i <= m => processed'[q] = <<needs[q]>>
    <3>1. CASE q = p
      BY <1>8, <3>1
    <3>2. CASE q # p
      <4>1. i # m
        BY <2>1, <3>2 DEF p
      <4>2. i <= m => i <= nsplit
        BY <1>3, <2>2, <4>1 DEF m
      <4>3. QED
        BY <1>8, <2>1, <3>2, <4>2
    <3>3. QED
      BY <3>1, <3>2
  <2>4. i > m => q \notin srf_pts_used' /\ processed'[q] = <<>>
    <3> SUFFICES ASSUME i > m PROVE q \notin srf_pts_used' /\ processed'[q] = <<>>
      OBVIOUS
    <3>1. i # m /\ i > nsplit
      BY <1>3, <2>2 DEF m
    <3>2. q # p
      BY <1>3, <1>4, <2>1, <3>1 DEF Once, p
    <3>3. QED
      BY <1>1, <1>8, <2>1, <3>1, <3>2 DEF Waits
  <2>5. QED
    BY <1>1, <1>2, <1>11, <1>14, <2>1, <2>3, <2>4 DEF Saved, Waits
<1>15. \A q \in Points : Untouched(q)' \/ Whole(q)' \/ Saved(q)'
  BY <1>12, <1>13, <1>14 DEF PInv
<1>16. QED
  BY <1>2, <1>3, <1>10, <1>15 DEF PInv, MasterList

LEMMA PointsStep == IInv /\ IInv' /\ OInv /\ RqInv /\ PInv /\ [rqNext]_rqVars => PInv'
<1> SUFFICES ASSUME IInv, IInv', OInv, RqInv, PInv, [rqNext]_rqVars PROVE PInv'
  OBVIOUS
<1>1. CASE Synth
  BY <1>1, BeginPoints, ChunkPoints, HandlerPoints, UnansweredPoints, RequestPoints, SplitPoints,
     LastPoints DEF Synth
<1>2. CASE Next /\ UNCHANGED <<rqInputs, rq_pc, chunkVars, srf_pts_used, splitVars, nsplit, processed>>
  BY <1>2, BucketPoints
<1>3. CASE UNCHANGED rqVars
  <2>1. /\ UNCHANGED <<sgts_by_handler, num_sgt_handlers>>
        /\ UNCHANGED <<needs, indx_master, srf_pts_used, srf_indices_split, sgt_heads_split,
                       processed, nsplit>>
        /\ UNCHANGED <<rq_pc, request_from_handler_id, starting_index, ending_index>>
    BY <1>3 DEF rqVars, vars, inputs, rqInputs, splitVars, chunkVars
  <2>2. \A h, k : Behind(h, k)' <=> Behind(h, k)
    BY <2>1 DEF Behind, Cut
  <2>3. \A x : Past(x)' <=> Past(x)
    BY <2>1, <2>2, PastNext DEF Past
  <2>4. PlaceOK' /\ SplitOK'
    BY <2>1 DEF PInv, PlaceOK, SplitOK, Points
  <2>5. QED
    BY <2>1, <2>3, <2>4, PointsKept
<1>4. QED
  BY <1>1, <1>2, <1>3 DEF rqNext

LEMMA PointsInvariance == rqSafeSpec => [](IInv /\ OInv /\ RqInv /\ PInv)
<1>1. rqInit => Init
  BY DEF rqInit
<1>2. [rqNext]_rqVars => [Next]_vars
  BY DEF rqNext, rqVars, Synth, Begin, NextChunk, NextHandler, NotFound, Request, ProcessSplit, rqFinish
<1>3. SafeSpec => []IInv
  BY Invariance
<1>4. Init => OInv
  BY InitOrder
<1>5. IInv /\ OInv /\ [Next]_vars => OInv'
  BY StepOrder
<1>6. QED
  BY <1>1, <1>2, <1>3, <1>4, <1>5, KeepsBuckets, RqInitKeeps, RqStepKeeps, InitPoints, PointsStep, PTL
     DEF rqSafeSpec

(* A point of the rupture is processed with the tensors it needs and no      *)
(* others, each in its place, also when they came in several answers         *)
(* (jbsim3d.c 303-385 and 489-536).                                          *)
THEOREM UsesRightTensors == rqSafeSpec => []RightTensors
<1>1. RqInv /\ PInv => RightTensors
  <2> SUFFICES ASSUME RqInv, PInv, NEW p \in Points, NEW n \in DOMAIN processed[p]
               PROVE  processed[p][n] = needs[p]
    BY DEF RightTensors
  <2>1. processed[p] = <<>> \/ processed[p] = <<needs[p]>>
    <3>1. CASE Saved(p)
      <4>1. PICK i \in DOMAIN srf_indices_split :
                /\ i <= nsplit => processed[p] = <<needs[p]>>
                /\ i > nsplit => Waits(p)
        BY <3>1 DEF Saved
      <4>2. i \in Nat /\ nsplit \in Nat
        BY LenProperties DEF PInv, SplitOK
      <4>3. QED
        BY <4>1, <4>2 DEF Waits
    <3>2. QED
      BY <3>1 DEF PInv, Untouched, Whole
  <2>2. QED
    BY <2>1
<1>2. QED
  BY <1>1, PointsInvariance, PTL

(* The check that is commented out at jbsim3d.c:540 would never fail: when   *)
(* jbsim3d_synth is over every point of the rupture has been processed, none *)
(* twice, and a split point has found its tensors (the message at line 509   *)
(* is never printed), for every rupture, every distribution of its tensors   *)
(* over the handlers and every size of the requests.                         *)
THEOREM ProcessesEachPointOnce == rqSafeSpec => []EachPointOnce
<1>1. IInv /\ OInv /\ RqInv /\ PInv => EachPointOnce
  <2> SUFFICES ASSUME IInv, OInv, RqInv, PInv PROVE EachPointOnce
    OBVIOUS
  <2>1. \A p \in Points : Len(<<>>) <= 1 /\ Len(<<needs[p]>>) = 1 /\ 1 <= 1
    OBVIOUS
  <2>2. ASSUME NEW p \in Points
        PROVE  /\ Len(processed[p]) <= 1
               /\ rq_pc = "done" => Len(processed[p]) = 1
    <3>1. CASE Untouched(p)
      <4>1. processed[p] = <<>> /\ \A k \in DOMAIN needs[p] : ~Past(needs[p][k])
        BY <3>1 DEF Untouched
      <4>2. 1 \in DOMAIN needs[p]
        BY NeedsFacts DEF RqInv
      <4>3. rq_pc # "done"
        BY <4>1, <4>2, AllPast
      <4>4. QED
        BY <2>1, <4>1, <4>3
    <3>2. CASE Whole(p)
      BY <2>1, <3>2 DEF Whole
    <3>3. CASE Saved(p)
      <4>1. PICK i \in DOMAIN srf_indices_split :
                /\ i <= nsplit => processed[p] = <<needs[p]>>
                /\ i > nsplit => Waits(p)
        BY <3>3 DEF Saved
      <4>2. /\ i \in Nat /\ nsplit \in Nat /\ i <= Len(srf_indices_split)
            /\ rq_pc = "done" => nsplit = Len(srf_indices_split)
        BY LenProperties DEF PInv, SplitOK
      <4>3. i <= nsplit \/ (i > nsplit /\ rq_pc # "done")
        BY <4>2
      <4>4. processed[p] = <<needs[p]>> \/ (processed[p] = <<>> /\ rq_pc # "done")
        BY <4>1, <4>3 DEF Waits
      <4>5. QED
        BY <2>1, <4>4, Zenon
    <3>4. QED
      BY <3>1, <3>2, <3>3 DEF PInv
  <2>3. QED
    BY <2>2 DEF EachPointOnce, PInv, PlaceOK
<1>2. QED
  BY <1>1, PointsInvariance, PTL

(* The tensors of a request are in the list of the handler that is asked, so *)
(* that the handler, which the search has found for each, has them.          *)
LEMMA HandlerHasChunk ==
    ASSUME IInv, OInv, RqInv, rq_pc = "request", Good
    PROVE  Answered
<1> DEFINE h == request_from_handler_id
<1>1. Asked /\ pc = "done" /\ placed = nm /\ Members /\ OwnerFound /\ WellBlocked
  BY RequestAsks DEF IInv, OInv, RqInv, Good
<1>2. h \in Handlers /\ CurrentList = sgts_by_handler[h] /\ CurrentList \in Seq(Nat)
  BY <1>1 DEF Asked, CurrentList, List, TypeOK
<1>3. starting_index + 1 \in Nat \ {0} /\ ending_index \in Nat /\ ending_index <= Len(CurrentList)
  BY <1>1 DEF Asked
<1> SUFFICES ASSUME NEW x \in ToSet(Chunk) PROVE Owns(h, x)
  BY DEF Answered
<1>4. PICK i \in DOMAIN Chunk : x = Chunk[i]
  BY DEF ToSet
<1>5. PICK k \in DOMAIN sgts_by_handler[h] : x = sgts_by_handler[h][k]
  <2>1. /\ Len(Chunk) = (IF starting_index + 1 <= ending_index
                         THEN ending_index - (starting_index + 1) + 1 ELSE 0)
        /\ \A j \in 1 .. ending_index - (starting_index + 1) + 1 :
               Chunk[j] = CurrentList[(starting_index + 1) + j - 1]
        /\ Chunk \in Seq(Nat)
    <3>1. \A j \in starting_index + 1 .. ending_index : CurrentList[j] \in Nat
      <4> SUFFICES ASSUME NEW j \in starting_index + 1 .. ending_index PROVE CurrentList[j] \in Nat
        OBVIOUS
      <4>1. j \in 1 .. Len(CurrentList)
        BY <1>2, <1>3, LenProperties
      <4> QED BY <1>2, <4>1, ElementOfSeq
    <3> QED BY <1>3, <3>1, SubSeqProperties DEF Chunk
  <2>2. i \in 1 .. Len(Chunk)
    BY <1>4, <2>1, LenProperties
  <2>3. i \in 1 .. ending_index - (starting_index + 1) + 1 /\ starting_index \in Nat
    BY <1>1, <1>3, <2>1, <2>2 DEF Asked
  <2>4. (starting_index + 1) + i - 1 \in 1 .. Len(CurrentList)
    BY <1>2, <1>3, <2>3, LenProperties
  <2> QED BY <1>2, <1>4, <2>1, <2>3, <2>4, LenProperties
<1>6. InFile(x)
  BY <1>1, <1>2, <1>5 DEF Members, Placed, Good
<1> QED BY <1>1, <1>2, <1>5, <1>6 DEF OwnerFound

(* When the blocks cover the file, none is empty and what the rupture needs  *)
(* is in the file, the search finds a handler for each index, and            *)
(* handle_SGT_request finds all it is asked for: no worker is left in the    *)
(* receive of request_sgt, wherever requests are cut.                        *)
THEOREM HandlersAnswer == rqSafeSpec => []NobodyExits
<1>1. rqInit => RequestsAnswered
  BY DEF rqInit, RequestsAnswered
<1>2. IInv /\ OInv /\ RqInv /\ RequestsAnswered /\ [rqNext]_rqVars => RequestsAnswered'
  <2> SUFFICES ASSUME IInv, OInv, RqInv, RequestsAnswered, [rqNext]_rqVars, Good',
                      rq_pc' = "unanswered"
               PROVE  FALSE
    BY DEF RequestsAnswered
  <2>1. Good' <=> Good
    <3>1. UNCHANGED inputs
      BY DEF rqNext, rqVars, vars, Synth, Begin, NextChunk, NextHandler, NotFound, Request,
             ProcessSplit, rqFinish, Next, BuildCutoffs, StartSearch, Search, Place, Abort, Finish
    <3> QED BY <3>1, InputsKept DEF IInv
  <2>2. rq_pc # "unanswered"
    BY <2>1 DEF RequestsAnswered
  <2>3. NotFound
    BY <2>2 DEF rqNext, rqVars, Synth, Begin, NextChunk, NextHandler, Request, ProcessSplit, rqFinish
  <2> QED BY <2>1, <2>3, HandlerHasChunk DEF NotFound
<1>3. IInv /\ RequestsAnswered => NobodyExits
  BY DEF IInv, NobodyExits
<1>4. QED
  BY <1>1, <1>2, <1>3, PointsInvariance, PTL DEF rqSafeSpec
=============================================================================
