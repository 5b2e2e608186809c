---------------------------- MODULE HaloExchange ----------------------------
(***************************************************************************)
(* The time loop of the wave propagation code (AWP-GPU-SGT/src/pmcl3d.c):  *)
(* the grid is cut into PX by PY parts, one for each rank; a rank keeps    *)
(* its part on its GPU, with four rows and columns of its neighbours'      *)
(* velocity around it.  In each step the velocity of the rows at the front *)
(* and back is computed first and exchanged; then that of the whole part,  *)
(* and its columns at the left and right, ghost rows included, are         *)
(* exchanged: so the corners come without a message of their own.  The     *)
(* stress is not exchanged: a rank computes it two rows and columns into   *)
(* its neighbours too, from the velocity it has been sent.                 *)
(*                                                                         *)
(* The GPU works through stream_i while the host goes on; MPI takes a      *)
(* message out of its buffer some time after the send, and puts one into   *)
(* its buffer some time after the receive was posted.                      *)
(*                                                                         *)
(* A part and what surrounds it are nine regions.  Of a region's velocity  *)
(* or stress only the step it is of is kept: a value computed or copied    *)
(* from what is not of the right step, or not of the right place, is Bad.  *)
(* Above the surface the kernel of stress also computes a velocity, which  *)
(* is sent with columns only; the points where it is missing are kept one  *)
(* by one (off).                                                           *)
(***************************************************************************)
EXTENDS Integers, Sequences, Functions

CONSTANTS
    Shapes,         \* the <<PX, PY>> there may be
    nxt, nyt,       \* size of a part
    nt,             \* steps
    Sources,        \* the points <<x, y>> (from 1) the source may be at
    Stations,       \* points whose SGTs are saved
    NTISKP_SGT,     \* every which step they are saved
    WRITE_STEP      \* and how many of these go into one file

(* The kernels of velocity have no thread for a fraction of a block, and do  *)
(* not check whether a thread is beyond the part: BLOCK_SIZE_Y divides it.   *)
(* There is a step: nt = (int)(TMAX/DT) + 1 (pmcl3d.c:265).                  *)
BLOCK_SIZE_Y == 2
ASSUME HaloAssumption ==
    /\ \A s \in Shapes : s[1] \in Nat \ {0} /\ s[2] \in Nat \ {0}
    /\ nxt \in Nat /\ nxt >= 4 /\ nxt % BLOCK_SIZE_Y = 0
    /\ nyt \in Nat /\ nyt >= 4 /\ nyt % BLOCK_SIZE_Y = 0
    /\ nt \in Nat \ {0} /\ NTISKP_SGT \in Nat \ {0} /\ WRITE_STEP \in Nat \ {0}

VARIABLES
    dim, src,       \* the shape and the source of this run
    pc, cur_step,   \* each rank's place in the loop
    stream,         \* work the host has given to stream_i
    vel, str,       \* u1, v1, w1 and xx .. xy on the device: step of each region
    off,            \* where xx, yy and zz at the surface are not the grid's
    sbuf, rbuf,     \* SL_vel .. SB_vel and RL_vel .. RB_vel, pinned host memory
    sreq, rreq,     \* the requests of MPI_Isend and MPI_Irecv
    net,            \* messages MPI has taken and not delivered yet
    sgtBuf, files   \* samples of the stations; the files written

deviceVars == <<vel, str, off, sbuf>>
mpiVars == <<sreq, rreq, net>>
outVars == <<sgtBuf, files>>
vars == <<dim, src, pc, cur_step, stream, deviceVars, rbuf, mpiVars, outVars>>
-----------------------------------------------------------------------------
Ranks == (0 .. dim[1] - 1) \X (0 .. dim[2] - 1)

(* MPI_Cart_shift *)
XDirs == {"L", "R"}
YDirs == {"F", "B"}
Dirs == XDirs \cup YDirs
Opposite == [L |-> "R", R |-> "L", F |-> "B", B |-> "F"]
Shift == [L |-> <<-1, 0>>, R |-> <<1, 0>>, F |-> <<0, -1>>, B |-> <<0, 1>>]
Part(r, g) == <<r[1] + g[1], r[2] + g[2]>>
Neighbour(r, d) == Part(r, Shift[d])
HasNeighbour(r, d) == Neighbour(r, d) \in Ranks
Sides(r, ds) == {d \in ds : HasNeighbour(r, d)}

(* <<a, b>>: the left ghost columns (a = -1), the part or the right ones, and *)
(* the front, own or back rows.  Beyond the grid all stays zero.             *)
Regions == (-1 .. 1) \X (-1 .. 1)
Own == <<0, 0>>
Outside(r, g) == Part(r, g) \notin Ranks
Bad == -1
Of(val, r, g, n) == Outside(r, g) \/ val[r][g] = n

(* What the stencils read of the neighbourhood: along the axes only *)
Star(g) == {h \in Regions : \/ h[1] = g[1] /\ h[2] - g[2] \in -1 .. 1
                            \/ h[2] = g[2] /\ h[1] - g[1] \in -1 .. 1}

(* Index i of the arrays (0 and 1 are padding, 2 .. 5 ghosts, the part begins *)
(* at 6) as a coordinate of the grid, counted from 1.                        *)
Global(i, n, c) == i - 5 + n * c
-----------------------------------------------------------------------------
(* The first index of the four columns or rows that are sent, and of those   *)
(* that are received into: a strip is known by where its first one belongs.  *)
SentAt == [L |-> 6, R |-> nxt + 2, F |-> 6, B |-> nyt + 2]
ReceivedAt == [L |-> 2, R |-> nxt + 6, F |-> 2, B |-> nyt + 6]
Origin(r, d, i) == IF d \in XDirs THEN Global(i, nxt, r[1]) ELSE Global(i, nyt, r[2])
Strip(r, d, v) == [org |-> Origin(r, d, SentAt[d]), v |-> v]
Got(r, d, k) == IF rbuf[r][d].org = Origin(r, d, ReceivedAt[d]) THEN rbuf[r][d].v[k] ELSE Bad
GhostOf == [L |-> -1, R |-> 1, F |-> -1, B |-> 1]

(* Velocity of the part's columns in the rows js: from the stress up to two  *)
(* points away, the normal stress xx and zz in the row and yy in the column. *)
ReadRegions(js) == {h \in Star(Own) : /\ h[2] = -1 => \E j \in js : j - 2 < 6
                                      /\ h[2] = 1 => \E j \in js : j + 2 > nyt + 5}
ReadsNormal(p, js) == \/ p[1] \in 6 - 2 .. nxt + 5 + 1 /\ p[2] \in js
                      \/ p[1] \in 6 .. nxt + 5 /\ \E j \in js : p[2] - j \in -1 .. 2
NewVelocity(r, js) == LET n == vel[r][Own]
                      IN  IF /\ n # Bad /\ \A h \in ReadRegions(js) : Of(str, r, h, n)
                             /\ \A p \in off[r] : ~ReadsNormal(p, js)
                          THEN n + 1 ELSE Bad
Strips(d) == SentAt[d] .. SentAt[d] + 3
PartRows == 6 .. nyt + 5

(* dvelcy_H and Cpy2Host_VY *)
velocity_y(r) ==
    /\ sbuf' = [sbuf EXCEPT ![r] = [d \in Dirs |->
           IF d \in Sides(r, YDirs)
           THEN Strip(r, d, [k \in {0} |-> NewVelocity(r, Strips(d))])
           ELSE @[d]]]
    /\ UNCHANGED <<vel, str, off>>

(* Cpy2Device_VY, which ends with update_bound_y_H: the part's columns only  *)
boundary_y(r) ==
    /\ vel' = [vel EXCEPT ![r] = [g \in Regions |->
           IF \E d \in Sides(r, YDirs) : g = <<0, GhostOf[d]>>
           THEN LET d == CHOOSE d \in YDirs : g[2] = GhostOf[d] IN Got(r, d, 0)
           ELSE @[g]]]
    /\ UNCHANGED <<str, off, sbuf>>

(* Definitions named X_... are faulty forms of X, as in TaskManager.         *)
velocity_x_OwnRows(r) ==
    /\ vel' = [vel EXCEPT ![r][Own] = NewVelocity(r, PartRows)]
    /\ sbuf' = [sbuf EXCEPT ![r] = [d \in Dirs |->
           IF d \in Sides(r, XDirs)
           THEN Strip(r, d, [k \in -1 .. 1 |-> IF k = 0 THEN vel'[r][Own] ELSE 0])
           ELSE @[d]]]
    /\ UNCHANGED <<str, off>>

(* dvelcx_H, and Cpy2Host_VX: all rows, the ghosts too *)
velocity_x(r) ==
    /\ vel' = [vel EXCEPT ![r][Own] = NewVelocity(r, PartRows)]
    /\ sbuf' = [sbuf EXCEPT ![r] = [d \in Dirs |->
           IF d \in Sides(r, XDirs) THEN Strip(r, d, [k \in -1 .. 1 |-> vel'[r][<<0, k>>]])
           ELSE @[d]]]
    /\ UNCHANGED <<str, off>>

(* Cpy2Device_VX *)
boundary_x(r) ==
    /\ vel' = [vel EXCEPT ![r] = [g \in Regions |->
           IF \E d \in Sides(r, XDirs) : g[1] = GhostOf[d]
           THEN LET d == CHOOSE d \in XDirs : g[1] = GhostOf[d] IN Got(r, d, g[2])
           ELSE @[g]]]
    /\ UNCHANGED <<str, off, sbuf>>

(* xls .. xre and yls .. yre: the stress is computed two points into the     *)
(* neighbours there are.                                                     *)
Columns(r) == (IF HasNeighbour(r, "L") THEN 4 ELSE 6) .. IF HasNeighbour(r, "R") THEN nxt + 7 ELSE nxt + 5
Rows(r) == (IF HasNeighbour(r, "F") THEN 4 ELSE 6) .. IF HasNeighbour(r, "B") THEN nyt + 7 ELSE nyt + 5
Span(k, n) == CASE k = -1 -> 2 .. 5 [] k = 0 -> 6 .. n + 5 [] k = 1 -> n + 6 .. n + 9
StressPoints(r, g) == {<<Global(i, nxt, r[1]), Global(j, nyt, r[2])>> :
                           i \in Columns(r) \cap Span(g[1], nxt), j \in Rows(r) \cap Span(g[2], nyt)}

(* The velocity above the surface (k = nzt + align - 1 in dstrqc): w1 of a   *)
(* point needs v1 of the row before and u1 of the next column, of this step, *)
(* or zero beyond the grid.  The rows that are sent have none (k of          *)
(* update_boundary_y), the columns that are sent have that of the step       *)
(* before, so the point must be one where this rank computes the stress.     *)
(* The v1 may be one of the step before even then, because other threads     *)
(* write it meanwhile: that is so on an undivided grid too.                  *)
OnGrid(r, p) == /\ Global(p[1], nxt, r[1]) \in 1 .. nxt * dim[1]
                /\ Global(p[2], nyt, r[2]) \in 1 .. nyt * dim[2]
SurfaceGaps(r) ==
    LET points == Columns(r) \X Rows(r)
    IN  {p \in points : \E q \in {<<p[1], p[2] - 1>>, <<p[1] + 1, p[2]>>} :
                            OnGrid(r, q) /\ q \notin points}

(* inisource: every rank that has the source in its part, or next to it      *)
AddsSource(r) == LET nbx == nxt * r[1] + 1 - 2
                     nby == nyt * r[2] + 1 - 2
                 IN  src[1] \in nbx .. nbx + nxt + 3 /\ src[2] \in nby .. nby + nyt + 3

(* dstrqc_H and addsrc_H *)
stress(r) ==
    /\ str' = [str EXCEPT ![r] = [g \in Regions |->
           IF StressPoints(r, g) = {} THEN @[g]
           ELSE IF /\ @[g] # Bad
                   /\ \A h \in Star(g) : Of(vel, r, h, @[g] + 1)
                   /\ src \in StressPoints(r, g) => AddsSource(r)
                THEN @[g] + 1 ELSE Bad]]
    /\ off' = [off EXCEPT ![r] = @ \cup SurfaceGaps(r)]
    /\ UNCHANGED <<vel, sbuf>>

(* The GPU does the work of a stream in order. *)
Device(r) ==
    /\ stream[r] # <<>>
    /\ stream' = [stream EXCEPT ![r] = Tail(@)]
    /\ \/ Head(stream[r]) = "velocity_y" /\ velocity_y(r)
       \/ Head(stream[r]) = "boundary_y" /\ boundary_y(r)
       \/ Head(stream[r]) = "velocity_x" /\ velocity_x(r)
       \/ Head(stream[r]) = "boundary_x" /\ boundary_x(r)
       \/ Head(stream[r]) = "stress" /\ stress(r)
    /\ UNCHANGED <<dim, src, pc, cur_step, rbuf, mpiVars, outVars>>
-----------------------------------------------------------------------------
(* MPI: a message keeps to the order of those before it on its way. *)
Take(r, d) ==
    /\ sreq[r][d] = "pending"
    /\ sreq' = [sreq EXCEPT ![r][d] = "done"]
    /\ net' = [net EXCEPT ![r][d] = Append(@, sbuf[r][d])]
    /\ UNCHANGED <<dim, src, pc, cur_step, stream, deviceVars, rbuf, rreq, outVars>>

Deliver(r, d) ==
    /\ rreq[r][d] = "pending"
    /\ LET s == Neighbour(r, d)
       IN  /\ net[s][Opposite[d]] # <<>>
           /\ rbuf' = [rbuf EXCEPT ![r][d] = Head(net[s][Opposite[d]])]
           /\ net' = [net EXCEPT ![s][Opposite[d]] = Tail(@)]
    /\ rreq' = [rreq EXCEPT ![r][d] = "done"]
    /\ UNCHANGED <<dim, src, pc, cur_step, stream, deviceVars, sreq, outVars>>
-----------------------------------------------------------------------------
Requests(req, r, ds, st) ==
    [req EXCEPT ![r] = [d \in Dirs |-> IF d \in Sides(r, ds) THEN st ELSE @[d]]]
Completed(req, r, ds) == \A d \in Sides(r, ds) : req[r][d] = "done"
Goto(r, l) == pc' = [pc EXCEPT ![r] = l]

(* PostRecvMsg_Y, PostRecvMsg_X, and the first work of the step *)
Post(r) ==
    /\ pc[r] = "post" /\ Goto(r, "sync_y")
    /\ rreq' = Requests(rreq, r, Dirs, "pending")
    /\ stream' = [stream EXCEPT ![r] = @ \o <<"velocity_y">>]
    /\ UNCHANGED <<dim, src, cur_step, deviceVars, rbuf, sreq, net, outVars>>

SendY_NoSync(r) ==
    /\ pc[r] = "sync_y" /\ Goto(r, "wait_y")
    /\ sreq' = Requests(sreq, r, YDirs, "pending")
    /\ UNCHANGED <<dim, src, cur_step, stream, deviceVars, rbuf, rreq, net, outVars>>

SendY_FrontOnly(r) ==
    /\ pc[r] = "sync_y" /\ Goto(r, "wait_y")
    /\ stream[r] = <<>>
    /\ sreq' = Requests(sreq, r, {"F"}, "pending")
    /\ UNCHANGED <<dim, src, cur_step, stream, deviceVars, rbuf, rreq, net, outVars>>

(* cudaThreadSynchronize, PostSendMsg_Y *)
SendY(r) ==
    /\ pc[r] = "sync_y" /\ Goto(r, "wait_y")
    /\ stream[r] = <<>>
    /\ sreq' = Requests(sreq, r, YDirs, "pending")
    /\ UNCHANGED <<dim, src, cur_step, stream, deviceVars, rbuf, rreq, net, outVars>>

(* MPI_Waitall, for the receives and the sends, and the work that follows    *)
WaitY(r) ==
    /\ pc[r] = "wait_y" /\ Goto(r, "sync_x")
    /\ Completed(sreq, r, YDirs) /\ Completed(rreq, r, YDirs)
    /\ stream' = [stream EXCEPT ![r] = @ \o <<"boundary_y", "velocity_x">>]
    /\ sreq' = Requests(sreq, r, YDirs, "none")
    /\ rreq' = Requests(rreq, r, YDirs, "none")
    /\ UNCHANGED <<dim, src, cur_step, deviceVars, rbuf, net, outVars>>

SendX(r) ==
    /\ pc[r] = "sync_x" /\ Goto(r, "wait_x")
    /\ stream[r] = <<>>
    /\ sreq' = Requests(sreq, r, XDirs, "pending")
    /\ UNCHANGED <<dim, src, cur_step, stream, deviceVars, rbuf, rreq, net, outVars>>

WaitX(r) ==
    /\ pc[r] = "wait_x" /\ Goto(r, "sync_end")
    /\ Completed(sreq, r, XDirs) /\ Completed(rreq, r, XDirs)
    /\ stream' = [stream EXCEPT ![r] = @ \o <<"boundary_x", "stress">>]
    /\ sreq' = Requests(sreq, r, XDirs, "none")
    /\ rreq' = Requests(rreq, r, XDirs, "none")
    /\ UNCHANGED <<dim, src, cur_step, deviceVars, rbuf, net, outVars>>
-----------------------------------------------------------------------------
(* inisgt: a station belongs to the rank whose part it is in.  Those that    *)
(* have stations open a file together (MC_SGT).                              *)
sgtproc(r) == \E p \in Stations : /\ p[1] \in r[1] * nxt + 1 .. r[1] * nxt + nxt
                                  /\ p[2] \in r[2] * nyt + 1 .. r[2] * nyt + nyt
Slot_OneLate(n) == (n \div NTISKP_SGT) % WRITE_STEP
Slot(n) == (n \div NTISKP_SGT - 1) % WRITE_STEP
Sampled(r) == sgtproc(r) /\ cur_step[r] % NTISKP_SGT = 0
FileDue(r) == Sampled(r) /\ (cur_step[r] \div NTISKP_SGT) % WRITE_STEP = 0

(* The loop goes on, or ends *)
NextStep(r) == /\ cur_step' = [cur_step EXCEPT ![r] = @ + 1]
               /\ Goto(r, IF cur_step[r] < nt THEN "post" ELSE "done")

(* ComputeSGT and the copy into sgtBuf; cudaThreadSynchronize in any case    *)
EndStep(r) ==
    /\ pc[r] = "sync_end"
    /\ stream[r] = <<>>
    /\ sgtBuf' = IF Sampled(r) THEN [sgtBuf EXCEPT ![r][Slot(cur_step[r])] = str[r][Own]]
                               ELSE sgtBuf
    /\ IF FileDue(r) THEN Goto(r, "open") /\ UNCHANGED cur_step ELSE NextStep(r)
    /\ UNCHANGED <<dim, src, stream, deviceVars, rbuf, mpiVars, files>>

(* MPI_File_open waits for the ranks of MC_SGT. *)
Opens(r, n) == cur_step[r] > n \/ (cur_step[r] = n /\ pc[r] = "open")
WriteFile(r) ==
    /\ pc[r] = "open"
    /\ \A q \in Ranks : sgtproc(q) => Opens(q, cur_step[r])
    /\ files' = [files EXCEPT ![r] = @ \cup {[step |-> cur_step[r], samples |-> sgtBuf[r]]}]
    /\ NextStep(r)
    /\ UNCHANGED <<dim, src, stream, deviceVars, rbuf, mpiVars, sgtBuf>>
-----------------------------------------------------------------------------
Init == /\ dim \in Shapes
        /\ src \in {p \in Sources : p[1] <= nxt * dim[1] /\ p[2] <= nyt * dim[2]}
        /\ pc = [r \in Ranks |-> "post"]
        /\ cur_step = [r \in Ranks |-> 1]
        /\ stream = [r \in Ranks |-> <<>>]
        /\ vel = [r \in Ranks |-> [g \in Regions |-> 0]]
        /\ str = [r \in Ranks |-> [g \in Regions |-> 0]]
        /\ off = [r \in Ranks |-> {}]
        /\ sbuf = [r \in Ranks |-> [d \in Dirs |-> <<>>]]
        /\ rbuf = [r \in Ranks |-> [d \in Dirs |-> <<>>]]
        /\ sreq = [r \in Ranks |-> [d \in Dirs |-> "none"]]
        /\ rreq = [r \in Ranks |-> [d \in Dirs |-> "none"]]
        /\ net = [r \in Ranks |-> [d \in Dirs |-> <<>>]]
        /\ sgtBuf = [r \in Ranks |-> [k \in 0 .. WRITE_STEP - 1 |-> 0]]
        /\ files = [r \in Ranks |-> {}]

Host(r) == Post(r) \/ SendY(r) \/ WaitY(r) \/ SendX(r) \/ WaitX(r) \/ EndStep(r) \/ WriteFile(r)
Message(r, d) == Take(r, d) \/ Deliver(r, d)
Next == \E r \in Ranks : Host(r) \/ Device(r) \/ \E d \in Dirs : Message(r, d)

SafeSpec == Init /\ [][Next]_vars
Spec == SafeSpec /\ WF_vars(Next)
-----------------------------------------------------------------------------
(* Between two steps every rank has the velocity of its part and the stress  *)
(* of its part and all around it that the grid has after as many steps: no   *)
(* point is of another step or place, and none has missed the source.  Only  *)
(* xx, yy and zz at the surface need not be so in the outermost ghost row at *)
(* the front and column at the right, where no velocity is computed from     *)
(* them.                                                                     *)
DecompositionExact ==
    \A r \in Ranks : pc[r] \in {"post", "open", "done"} =>
        LET n == IF pc[r] = "open" THEN cur_step[r] ELSE cur_step[r] - 1
        IN  /\ Of(vel, r, Own, n) /\ \A g \in Regions : Of(str, r, g, n)
            /\ \A p \in off[r] : p[2] = 4 \/ p[1] = nxt + 7

(* A buffer is MPI's or the device's: no work that writes it is under way    *)
(* while it is being sent, none that reads it while it is received into.     *)
BuffersOwned ==
    \A r \in Ranks : \A op \in Range(stream[r]) :
        /\ op = "velocity_y" => \A d \in YDirs : sreq[r][d] # "pending"
        /\ op = "velocity_x" => \A d \in XDirs : sreq[r][d] # "pending"
        /\ op = "boundary_y" => \A d \in YDirs : rreq[r][d] # "pending"
        /\ op = "boundary_x" => \A d \in XDirs : rreq[r][d] # "pending"

(* A file holds WRITE_STEP samples one after the other, the last of them of  *)
(* the step in its name, and there is one for each WRITE_STEP samples.       *)
FilesComplete ==
    \A r \in Ranks : sgtproc(r) =>
        /\ \A f \in files[r], k \in 0 .. WRITE_STEP - 1 :
               f.samples[k] = f.step - (WRITE_STEP - 1 - k) * NTISKP_SGT
        /\ pc[r] = "done" =>
               {f.step : f \in files[r]} = {n \in 1 .. nt : n % (NTISKP_SGT * WRITE_STEP) = 0}

(* All ranks come to the end. *)
LoopEnds == <>(\A r \in Ranks : pc[r] = "done")
=============================================================================
