----------------------------- MODULE SgtRequests -----------------------------
(***************************************************************************)
(* How a worker gets the Green's tensors of a task and uses them           *)
(* (jbsim3d_synth, jbsim/jbsim3d.c).  After SgtBuckets it goes through the *)
(* lists that module leaves, handler by handler, and asks for at most      *)
(* max_points_per_request tensors at a time (request_sgt, which            *)
(* DirectSynth follows message by message).  A point of the rupture whose  *)
(* tensors are all in the answer is processed and done with.  If only some *)
(* are, because a list or a request ends between them, those are saved,    *)
(* and the point is processed from the saved ones after the last request.  *)
(*                                                                         *)
(* A tensor's data is represented by its index, which its header holds.    *)
(* Indices of arrays start at 0, as in the code.                           *)
(***************************************************************************)
EXTENDS SgtBuckets, FiniteSetsExt

CONSTANTS
    Ruptures,   \* needs of the points of a rupture: sequences of indices
    MaxPoints   \* values of max_points_per_request

ASSUME SgtRequestsAssumption ==
    /\ \A r \in Ruptures : /\ r \in Seq(Seq(Nat)) /\ r # <<>>
                          /\ \A p \in DOMAIN r : Len(r[p]) \in 1 .. 4
    /\ MaxPoints \subseteq Nat \ {0}

VARIABLES
    needs,                  \* needs[p]: indices point p needs, sgtparms[p].indx
    max_points_per_request,
    rq_pc,                  \* where jbsim3d_synth is, "wait" before it starts
    request_from_handler_id,
    starting_index, ending_index, \* the part of the list that is asked for
    srf_pts_used,           \* points marked as done with
    srf_indices_split,      \* points whose tensors came in several answers
    sgt_heads_split,        \* tensors saved for them
    nsplit,                 \* split points processed
    processed               \* tensors each point was processed with, each time

rqInputs == <<needs, max_points_per_request>>
chunkVars == <<request_from_handler_id, starting_index, ending_index>>
splitVars == <<srf_indices_split, sgt_heads_split>>
rqVars == <<vars, rqInputs, rq_pc, chunkVars, srf_pts_used, splitVars, nsplit, processed>>

Points == 1 .. Len(needs)
List(h) == IF h \in Handlers THEN sgts_by_handler[h] ELSE <<>>
CurrentList == List(request_from_handler_id)
-----------------------------------------------------------------------------
(* The members of a finite set of numbers, the smallest first *)
InOrder(S) == CHOOSE s \in [1 .. Cardinality(S) -> S] : Ascending(s) /\ ToSet(s) = S

(* get_master_list_opt: every index a point needs, once, in ascending order  *)
MasterList(r) == InOrder(UNION {ToSet(r[p]) : p \in DOMAIN r})

(* The first handler with a list that is not empty, from h on, or the number *)
(* of handlers.  The code reads the length of the list past the last before  *)
(* it compares the number, and ignores what it read.                         *)
NextWithList(h) == Min({k \in h .. num_sgt_handlers - 1 : List(k) # <<>>} \cup {num_sgt_handlers})

rqInit == /\ Init
          /\ needs \in Ruptures
          /\ indx_master = MasterList(needs)
          /\ max_points_per_request \in MaxPoints
          /\ rq_pc = "wait"
          /\ request_from_handler_id = 0
          /\ starting_index = 0
          /\ ending_index = 0
          /\ srf_pts_used = {}
          /\ srf_indices_split = <<>>
          /\ sgt_heads_split = {}
          /\ nsplit = 0
          /\ processed = [p \in Points |-> <<>>]

(* Definitions named X_... are faulty forms of X, as in TaskManager.          *)
ChunkEnd_Unlimited(h, start) == start + max_points_per_request
ChunkEnd(h, start) == Min({start + max_points_per_request, Len(List(h))})

(* run_synth calls jbsim3d_synth when its lists are complete. *)
Begin == /\ pc = "done" /\ rq_pc = "wait"
         /\ request_from_handler_id' = NextWithList(0)
         /\ rq_pc' = "next"
         /\ UNCHANGED <<vars, rqInputs, starting_index, ending_index, srf_pts_used, splitVars,
                        nsplit, processed>>

(* The head of the loop: go on in the handler's list, or to the next handler *)
NextChunk ==
    /\ rq_pc = "next"
    /\ ending_index # Len(CurrentList)
    /\ starting_index' = ending_index
    /\ ending_index' = ChunkEnd(request_from_handler_id, ending_index)
    /\ rq_pc' = "request"
    /\ UNCHANGED <<vars, rqInputs, request_from_handler_id, srf_pts_used, splitVars, nsplit, processed>>

NextHandler ==
    LET h == NextWithList(request_from_handler_id + 1)
    IN  /\ rq_pc = "next"
        /\ ending_index = Len(CurrentList)
        /\ request_from_handler_id' = h
        /\ \/ /\ h < num_sgt_handlers
              /\ starting_index' = 0
              /\ ending_index' = ChunkEnd(h, 0)
              /\ rq_pc' = "request"
           \/ /\ h >= num_sgt_handlers
              /\ rq_pc' = "split"
              /\ UNCHANGED <<starting_index, ending_index>>
        /\ UNCHANGED <<vars, rqInputs, srf_pts_used, splitVars, nsplit, processed>>
-----------------------------------------------------------------------------
(* What is read past the end of a list is no index *)
At(list, m) == IF m < Len(list) THEN list[m + 1] ELSE -1
Chunk == SubSeq(CurrentList, starting_index + 1, ending_index)

InChunk(x) == /\ x >= At(CurrentList, starting_index)
              /\ x <= At(CurrentList, ending_index - 1)

(* mid_index: the entry of the list where the binary search for x ends.  It  *)
(* starts with ending_index as its last entry, which is one too many.        *)
MidIndex(x) ==
    LET part == starting_index .. ending_index
        f[r \in part \X part] ==
            LET m == (r[1] + r[2]) \div 2
            IN  IF x > At(CurrentList, m) /\ m < r[2] THEN f[<<m + 1, r[2]>>]
                ELSE IF x < At(CurrentList, m) /\ r[1] < m THEN f[<<r[1], m - 1>>]
                ELSE m
    IN  f[<<starting_index, ending_index>>]

(* sgt_used_offset: where in the answer that is                              *)
Offset_Absolute(x) == MidIndex(x)
Offset(x) == MidIndex(x) - starting_index

(* The answer to request_sgt holds the tensors of the chunk, and the tensor  *)
(* a point uses for x is the one at x's offset.                              *)
Tensor(x) == IF Offset(x) < Len(Chunk) THEN At(Chunk, Offset(x)) ELSE -1

Here(p) == {k \in DOMAIN needs[p] : InChunk(needs[p][k])}
NumFound(p) == Cardinality(Here(p))
Complete(p) == p \notin srf_pts_used /\ NumFound(p) = Len(needs[p])
Partial(p) == p \notin srf_pts_used /\ NumFound(p) \in 1 .. Len(needs[p]) - 1

Arrived(p) == [k \in Here(p) |-> Tensor(needs[p][k])]

NewlySplit_Again == InOrder({p \in Points : Partial(p)})
NewlySplit == InOrder({p \in Points : Partial(p) /\ ~Contains(srf_indices_split, p)})

(* handle_SGT_request looks all of a request up before it sends anything. *)
Answered == \A x \in ToSet(Chunk) : Owns(request_from_handler_id, x)

(* A handler that has not one of the indices calls MPI_Finalize and exits    *)
(* (sgt_handler.c:161); the worker's receive in request_sgt is not matched.  *)
NotFound == /\ rq_pc = "request" /\ ~Answered
            /\ rq_pc' = "unanswered"
            /\ UNCHANGED <<vars, rqInputs, chunkVars, srf_pts_used, splitVars, nsplit, processed>>

(* request_sgt, the pass over the points, and the processing of those that   *)
(* are complete; every partial one has what arrived of it copied.  The       *)
(* copies are searched for by their indices only, so a set of them will do.  *)
Request ==
    /\ rq_pc = "request" /\ Answered
    /\ srf_pts_used' = srf_pts_used \cup {p \in Points : Complete(p)}
    /\ processed' = [p \in Points |-> IF Complete(p) THEN Append(processed[p], Arrived(p))
                                                      ELSE processed[p]]
    /\ srf_indices_split' = srf_indices_split \o NewlySplit
    /\ sgt_heads_split' = sgt_heads_split \cup
           UNION {Range(Arrived(p)) : p \in {q \in Points : Partial(q)}}
    /\ rq_pc' = "next"
    /\ UNCHANGED <<vars, rqInputs, chunkVars, nsplit>>

(* A split point, after the loop: each tensor is looked for among the saved  *)
(* ones, by the index in its header; one that is missing ends the job.       *)
ProcessSplit ==
    LET p == srf_indices_split[nsplit + 1]
        found == ToSet(needs[p]) \subseteq sgt_heads_split
    IN  /\ rq_pc = "split" /\ nsplit < Len(srf_indices_split)
        /\ rq_pc' = IF found THEN rq_pc ELSE "abort"
        /\ processed' = IF found THEN [processed EXCEPT ![p] = Append(@, needs[p])]
                                 ELSE processed
        /\ srf_pts_used' = srf_pts_used \cup {p}
        /\ nsplit' = nsplit + 1
        /\ UNCHANGED <<vars, rqInputs, chunkVars, splitVars>>

rqFinish == /\ rq_pc = "split" /\ nsplit = Len(srf_indices_split)
            /\ rq_pc' = "done"
            /\ UNCHANGED <<vars, rqInputs, chunkVars, srf_pts_used, splitVars, nsplit, processed>>

Synth == Begin \/ NextChunk \/ NextHandler \/ NotFound \/ Request \/ ProcessSplit \/ rqFinish
rqNext == \/ Next /\ UNCHANGED <<rqInputs, rq_pc, chunkVars, srf_pts_used, splitVars, nsplit,
                                 processed>>
          \/ Synth

rqSafeSpec == rqInit /\ [][rqNext]_rqVars
rqSpec == rqSafeSpec /\ WF_rqVars(rqNext)
-----------------------------------------------------------------------------
(* A request is for something, for no more than the buffers sgthead and      *)
(* sgtbuf hold, and for entries the list has.                                *)
RequestFits == rq_pc = "request" => /\ starting_index < ending_index
                                 /\ ending_index <= Len(CurrentList)
                                 /\ ending_index - starting_index <= max_points_per_request

(* A point is processed with the tensors it needs, each in its place, and    *)
(* what is saved of a split point is what arrived for it.                    *)
RightTensors == \A p \in Points : \A n \in DOMAIN processed[p] : processed[p][n] = needs[p]

(* "SRF point %d was never processed" (jbsim3d.c:540, commented out): every  *)
(* point of the rupture is processed, and no point twice, wherever the lists *)
(* and the requests are cut; a split point's tensors are all found (the      *)
(* message of jbsim3d.c:509 is never printed).                               *)
EachPointOnce == /\ \A p \in Points : Len(processed[p]) <= 1
                 /\ rq_pc = "done" => \A p \in Points : Len(processed[p]) = 1
                 /\ rq_pc # "abort"

(* If the blocks cover the file and none is empty, and what is asked for is  *)
(* in the file, no handler ends over a request ("I am troubled",             *)
(* sgt_handler.c:162) and leaves the worker waiting: the search by indices,  *)
(* the cuts into requests and the handlers' blocks of points fit together.   *)
RequestsAnswered == Good => rq_pc # "unanswered"

(* Nobody exits then: not the worker over an index without a handler         *)
(* (synth.c:415), and no handler over an index it does not hold.             *)
NobodyExits == NeverAborts /\ RequestsAnswered

(* Then the task is also done in the end.  In any case, with empty blocks    *)
(* and unknown indices too, the search and the loop come to an end: the task *)
(* is done, an index belongs nowhere, or a request stays without an answer.  *)
TaskEnds == /\ Good => <>(rq_pc = "done")
            /\ <>(pc = "abort" \/ rq_pc \in {"unanswered", "done"})
=============================================================================
