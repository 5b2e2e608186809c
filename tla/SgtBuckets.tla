----------------------------- MODULE SgtBuckets -----------------------------
(***************************************************************************)
(* Which SGT handler owns which Green's tensor.  The master gives each     *)
(* handler a block of the points of the SGT file (assign_sgt_points,       *)
(* master.c) and broadcasts where the blocks start.  A worker sorts the    *)
(* tensors its task needs into a list for each handler: a binary search    *)
(* finds the handler (get_handler_for_sgt_index, synth.c) and the list     *)
(* grows by steps (run_synth).  SgtRequests then asks the handlers for     *)
(* what is in the lists.                                                   *)
(*                                                                         *)
(* Points are numbered 0 .. globnp - 1, in the order of the file, which is *)
(* that of their indices: sgtindx[p + 1] is the index of point p.          *)
(* Handlers are 1 .. num_sgt_handlers - 1; number 0 is the master.         *)
(***************************************************************************)
EXTENDS Integers, Sequences, SequencesExt

CONSTANTS
    SgtFiles,       \* lists of indices the SGT file may hold
    HandlerCounts,  \* values of num_sgt_handlers, the master included
    Mappings,       \* contents of pt_mapping_file: points per handler
    IndexMasters,   \* lists of indices a task may need (get_master_list_opt)
    MinStep,        \* 10 in the code: the least growth of a list
    RoundingError,  \* how far a product of floats may be from the exact one
    Beyond          \* what may lie in memory past the ends of sgtindx

Ascending(s) == \A m, n \in DOMAIN s : m < n => s[m] < s[n]

ASSUME SgtBucketsAssumption ==
    /\ \A s \in SgtFiles : s \in Seq(Nat) /\ s # <<>> /\ Ascending(s)
    /\ \A s \in IndexMasters : s \in Seq(Nat) /\ Ascending(s)
    /\ \A s \in Mappings : s \in Seq(Nat)
    /\ HandlerCounts \subseteq Nat \ {0, 1}
    /\ MinStep \in Nat \ {0}
    /\ RoundingError \in Nat
    /\ Beyond \subseteq Nat

VARIABLES
    sgtindx,          \* the file's indices
    num_sgt_handlers,
    proc_points,      \* first point of each handler's block, and the end
    indx_master,      \* indices the task needs
    pc,               \* where run_synth is
    sgt_cutoffs,      \* first index of each block, and one past the last
    placed,           \* indices already placed (i in the code)
    start_index, end_index, \* the binary search
    sgts_by_handler,  \* the lists
    capacity          \* entries allocated for each of them

inputs == <<sgtindx, num_sgt_handlers, proc_points, indx_master>>
vars == <<inputs, pc, sgt_cutoffs, placed, start_index, end_index, sgts_by_handler, capacity>>

globnp == Len(sgtindx)
nm == Len(indx_master)
Handlers == 1 .. num_sgt_handlers - 1
step_size == IF nm \div num_sgt_handlers < MinStep THEN MinStep ELSE nm \div num_sgt_handlers
-----------------------------------------------------------------------------
(* assign_sgt_points: with a mapping file the blocks have the lengths it     *)
(* lists, and nothing compares their sum with the number of points; the end  *)
(* of the last block is overwritten by it.  Without one, the block of        *)
(* handler b + 1 starts at b times the average, a float, truncated.          *)
(* Rounding keeps the order of the products.                                 *)
MappedPoints(n, lengths) ==
    LET f[b \in 0 .. n] == CASE b = 0 -> -1
                             [] b = 1 -> 0
                             [] OTHER -> f[b - 1] + lengths[b - 1]
    IN  f

Truncated(b, n) ==
    LET exact == (globnp * b) \div (n - 1)
    IN  0 .. globnp \cap exact - RoundingError .. exact + RoundingError

AveragedPoints(n) ==
    {[b \in 0 .. n |-> CASE b = 0 -> -1 [] b = 1 -> 0 [] b = n -> globnp [] OTHER -> q[b - 1]] :
        q \in {r \in [1 .. n - 2 -> 0 .. globnp] :
                 /\ \A b \in 1 .. n - 2 : r[b] \in Truncated(b, n)
                 /\ \A b \in 1 .. n - 3 : r[b] <= r[b + 1]}}

(* The points whose tensors a handler finds (handler_listen's hash table).    *)
(* The entries of a block past the end of the file have keys from past the   *)
(* end of sgtindx; that one of them is an index asked for is left out.       *)
Owns(h, x) == \E p \in 0 .. globnp - 1 : /\ p \in proc_points[h] .. proc_points[h + 1] - 1
                                       /\ x = sgtindx[p + 1]

Init == /\ sgtindx \in SgtFiles
        /\ num_sgt_handlers \in HandlerCounts
        /\ indx_master \in IndexMasters
        /\ proc_points \in AveragedPoints(num_sgt_handlers) \cup
               {MappedPoints(num_sgt_handlers, m) :
                    m \in {l \in Mappings : Len(l) = num_sgt_handlers - 1}}
        /\ pc = "cutoffs"
        /\ sgt_cutoffs = <<>>
        /\ placed = 0
        /\ start_index = 1
        /\ end_index = num_sgt_handlers
        /\ sgts_by_handler = [h \in Handlers |-> <<>>]
        /\ capacity = [h \in Handlers |-> step_size]

(* Definitions named X_... are faulty forms of X, as in TaskManager.          *)
FirstPoint_Even(b) == (globnp * (b - 1)) \div (num_sgt_handlers - 1)
FirstPoint(b) == proc_points[b]

(* run_synth turns the blocks' first points into indices.  A block that is   *)
(* empty at the end of the file starts past the end of sgtindx.              *)
BuildCutoffs ==
    LET n == num_sgt_handlers
        points == {FirstPoint(b) : b \in Handlers} \cup {proc_points[n] - 1}
    IN  /\ pc = "cutoffs"
        /\ \E garbage \in [points \ (0 .. globnp - 1) -> Beyond] :
               LET at(p) == IF p \in 0 .. globnp - 1 THEN sgtindx[p + 1] ELSE garbage[p]
               IN  sgt_cutoffs' = [b \in 1 .. n |-> IF b = n THEN at(proc_points[n] - 1) + 1
                                                          ELSE at(FirstPoint(b))]
        /\ pc' = "next"
        /\ UNCHANGED <<inputs, placed, start_index, end_index, sgts_by_handler, capacity>>

StartSearch == /\ pc = "next" /\ placed < nm
               /\ start_index' = 1
               /\ end_index' = num_sgt_handlers
               /\ pc' = "search"
               /\ UNCHANGED <<inputs, sgt_cutoffs, placed, sgts_by_handler, capacity>>

indx == indx_master[placed + 1]
Mid == (start_index + end_index) \div 2

Searching_NonEmpty == end_index > start_index
Searching == end_index > start_index + 1

Halve_NoMatch == \/ /\ indx > sgt_cutoffs[Mid]
                    /\ start_index' = Mid
                    /\ UNCHANGED <<pc, end_index>>
                 \/ /\ indx <= sgt_cutoffs[Mid]
                    /\ end_index' = Mid
                    /\ UNCHANGED <<pc, start_index>>

(* get_handler_for_sgt_index, one round: the search stops at an exact match  *)
Halve == \/ /\ indx > sgt_cutoffs[Mid]
            /\ start_index' = Mid
            /\ UNCHANGED <<pc, end_index>>
         \/ /\ indx < sgt_cutoffs[Mid]
            /\ end_index' = Mid
            /\ UNCHANGED <<pc, start_index>>
         \/ /\ indx = sgt_cutoffs[Mid]
            /\ start_index' = Mid
            /\ end_index' = Mid + 1
            /\ pc' = "verify"

Search == /\ pc = "search" /\ Searching
          /\ Halve
          /\ UNCHANGED <<inputs, sgt_cutoffs, placed, sgts_by_handler, capacity>>

Found == pc = "verify" \/ (pc = "search" /\ ~Searching)
Right == indx >= sgt_cutoffs[start_index] /\ indx < sgt_cutoffs[end_index]

GrowTo_Late(h) ==
    LET count == Len(sgts_by_handler[h]) + 1
    IN  capacity' = [capacity EXCEPT ![h] = IF count % (step_size + 1) = 0
                                            THEN count + step_size ELSE @]

GrowTo(h) == LET count == Len(sgts_by_handler[h]) + 1
             IN  capacity' = [capacity EXCEPT ![h] = IF count % step_size = 0
                                                     THEN count + step_size ELSE @]

(* The check at the end of the search, and run_synth's use of the result     *)
Place == /\ Found /\ Right
         /\ sgts_by_handler' = [sgts_by_handler EXCEPT ![start_index] = Append(@, indx)]
         /\ GrowTo(start_index)
         /\ placed' = placed + 1
         /\ pc' = "next"
         /\ UNCHANGED <<inputs, sgt_cutoffs, start_index, end_index>>

Abort == /\ Found /\ ~Right
         /\ pc' = "abort"
         /\ UNCHANGED <<inputs, sgt_cutoffs, placed, start_index, end_index,
                        sgts_by_handler, capacity>>

Finish_OneShort == /\ pc = "next" /\ placed >= nm - 1
                   /\ pc' = "done"
                   /\ UNCHANGED <<inputs, sgt_cutoffs, placed, start_index, end_index,
                                  sgts_by_handler, capacity>>

Finish == /\ pc = "next" /\ placed = nm
          /\ pc' = "done"
          /\ UNCHANGED <<inputs, sgt_cutoffs, placed, start_index, end_index,
                         sgts_by_handler, capacity>>

Next == BuildCutoffs \/ StartSearch \/ Search \/ Place \/ Abort \/ Finish

SafeSpec == Init /\ [][Next]_vars
Spec == SafeSpec /\ WF_vars(Next)
-----------------------------------------------------------------------------
TypeOK == /\ pc \in {"cutoffs", "next", "search", "verify", "abort", "done"}
          /\ placed \in 0 .. nm
          /\ start_index \in 1 .. num_sgt_handlers - 1
          /\ end_index \in 2 .. num_sgt_handlers
          /\ sgts_by_handler \in [Handlers -> Seq(Nat)]
          /\ capacity \in [Handlers -> Nat]

(* An index is only ever written to an allocated entry of a list. *)
ListsHaveRoom == \A h \in Handlers : Len(sgts_by_handler[h]) < capacity[h]

(* The blocks lie in the file and cover it, and none is empty *)
WellBlocked == /\ proc_points[1] = 0 /\ proc_points[num_sgt_handlers] = globnp
               /\ \A b \in 1 .. num_sgt_handlers : proc_points[b] \in 0 .. globnp
               /\ \A b, c \in 1 .. num_sgt_handlers :
                      b < c => proc_points[b] < proc_points[c]

InFile(x) == \E p \in 1 .. globnp : x = sgtindx[p]
Good == WellBlocked /\ \A k \in 1 .. nm : InFile(indx_master[k])

(* The worker puts an index on the list of the handler that holds its data,  *)
(* which otherwise ends without an answer: the binary search over cutoffs    *)
(* agrees with the block sizes sgt_handler.c computes from proc_points.      *)
OwnerFound == WellBlocked =>
    \A h \in Handlers : \A k \in DOMAIN sgts_by_handler[h] :
        InFile(sgts_by_handler[h][k]) => Owns(h, sgts_by_handler[h][k])

(* With no empty block the search never gives up on an index in the file.    *)
NeverAborts == Good => pc # "abort"

(* The lists, one after the other, are the list of indices again: none is    *)
(* lost, none is there twice, and each list is in ascending order, which the *)
(* binary search of jbsim3d.c relies on.                                     *)
ListsInOrder == pc = "done" => FlattenSeq(sgts_by_handler) = indx_master
=============================================================================
