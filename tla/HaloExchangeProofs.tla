------------------------- MODULE HaloExchangeProofs -------------------------
(***************************************************************************)
(* Proofs about HaloExchange, for every shape and size of the grid, every  *)
(* number of steps and every order in which GPUs and messages go on:       *)
(*   - no buffer of the exchange is used by MPI and by the device at the   *)
(*     same time: where a rank is in its loop tells what may be left of    *)
(*     the stream, and which requests may be open (IInv);                  *)
(*   - a decomposed grid computes what an undivided one does: the number   *)
(*     of kernels that are over tells the step every region is of, and a   *)
(*     strip under way is of the step that its place among those sent and  *)
(*     received gives (GInv);                                              *)
(*   - the files hold every sample, in order: sgtBuf is filled from the    *)
(*     remainder of the samples taken (FInv).                              *)
(***************************************************************************)
EXTENDS HaloExchange, SequenceTheorems, TLAPS

Work == {"velocity_y", "boundary_y", "velocity_x", "boundary_x", "stress"}
States == {"none", "pending", "done"}
HostType == /\ pc \in [Ranks -> {"post", "sync_y", "wait_y", "sync_x", "wait_x", "sync_end",
                                 "open", "done"}]
            /\ stream \in [Ranks -> Seq(Work)]
            /\ sreq \in [Ranks -> [Dirs -> States]]
            /\ rreq \in [Ranks -> [Dirs -> States]]

StreamAt(r) ==
    /\ pc[r] \in {"post", "wait_y", "wait_x", "open", "done"} => stream[r] = <<>>
    /\ pc[r] = "sync_y" => stream[r] \in {<<>>, <<"velocity_y">>}
    /\ pc[r] = "sync_x" => stream[r] \in {<<>>, <<"velocity_x">>, <<"boundary_y", "velocity_x">>}
    /\ pc[r] = "sync_end" => stream[r] \in {<<>>, <<"stress">>, <<"boundary_x", "stress">>}

RequestsAt(r) ==
    /\ pc[r] # "wait_y" => \A d \in YDirs : sreq[r][d] = "none"
    /\ pc[r] # "wait_x" => \A d \in XDirs : sreq[r][d] = "none"
    /\ pc[r] \notin {"sync_y", "wait_y"} => \A d \in YDirs : rreq[r][d] = "none"
    /\ pc[r] \notin {"sync_y", "wait_y", "sync_x", "wait_x"} => \A d \in XDirs : rreq[r][d] = "none"
    /\ \A d \in Dirs : ~HasNeighbour(r, d) => sreq[r][d] = "none" /\ rreq[r][d] = "none"

IInv == HostType /\ \A r \in Ranks : StreamAt(r) /\ RequestsAt(r)
-----------------------------------------------------------------------------
LEMMA RanksUnchanged == UNCHANGED dim => Ranks' = Ranks
  BY DEF Ranks

LEMMA NeighboursUnchanged ==
    ASSUME UNCHANGED dim PROVE \A r, d : HasNeighbour(r, d)' <=> HasNeighbour(r, d)
  BY DEF HasNeighbour, Neighbour, Part, Ranks

(* Work given to an empty stream *)
LEMMA FirstWork ==
    ASSUME NEW a \in Work, NEW b \in Work
    PROVE  /\ <<a>> \in Seq(Work) /\ <<>> \o <<a>> = <<a>>
           /\ <<a, b>> \in Seq(Work) /\ <<>> \o <<a, b>> = <<a, b>>
<1>1. <<a>> \in Seq(Work)
  BY Z3
<1>2. <<a, b>> \in Seq(Work)
  BY Z3
<1>3. QED
  BY <1>1, <1>2, ConcatEmptySeq

LEMMA InitInvariant == Init => IInv
  BY DEF Init, IInv, HostType, StreamAt, RequestsAt, Dirs, XDirs, YDirs, States

(* A step that changes what belongs to one rank keeps the invariant of the   *)
(* others.                                                                   *)
LEMMA OneRank ==
    ASSUME IInv, HostType', UNCHANGED dim, NEW r \in Ranks,
           \A q \in Ranks \ {r} : /\ pc'[q] = pc[q] /\ stream'[q] = stream[q]
                                  /\ sreq'[q] = sreq[q] /\ rreq'[q] = rreq[q],
           StreamAt(r)', RequestsAt(r)'
    PROVE  IInv'
<1>1. ASSUME NEW q \in Ranks \ {r} PROVE StreamAt(q)' /\ RequestsAt(q)'
  BY <1>1, NeighboursUnchanged DEF IInv, StreamAt, RequestsAt
<1>2. QED
  BY <1>1, RanksUnchanged DEF IInv

(* The host's steps change pc, stream and the requests of one rank only. *)
LEMMA HostStep ==
    ASSUME IInv, UNCHANGED dim, NEW r \in Ranks,
           NEW l \in {"post", "sync_y", "wait_y", "sync_x", "wait_x", "sync_end", "open", "done"},
           NEW w \in Seq(Work),
           Goto(r, l), stream' = [stream EXCEPT ![r] = w],
           NEW s \in [Ranks -> [Dirs -> States]], NEW t \in [Ranks -> [Dirs -> States]],
           sreq' = s, rreq' = t,
           \A q \in Ranks \ {r} : s[q] = sreq[q] /\ t[q] = rreq[q],
           StreamAt(r)', RequestsAt(r)'
    PROVE  IInv'
<1>1. HostType'
  BY RanksUnchanged DEF IInv, HostType, Goto
<1>2. \A q \in Ranks \ {r} : /\ pc'[q] = pc[q] /\ stream'[q] = stream[q]
                             /\ sreq'[q] = sreq[q] /\ rreq'[q] = rreq[q]
  BY DEF IInv, HostType, Goto
<1>3. QED
  BY <1>1, <1>2, OneRank

LEMMA PostInvariant == ASSUME IInv, NEW r \in Ranks, Post(r) PROVE IInv'
<1> DEFINE t == Requests(rreq, r, Dirs, "pending")
<1>1. /\ t \in [Ranks -> [Dirs -> States]]
      /\ \A q \in Ranks \ {r} : t[q] = rreq[q]
      /\ \A d \in Dirs : t[r][d] \in {"pending", rreq[r][d]}
      /\ \A d \in Dirs : ~HasNeighbour(r, d) => t[r][d] = rreq[r][d]
  BY DEF IInv, HostType, Requests, Sides, States
<1>2. stream[r] = <<>> /\ stream[r] \o <<"velocity_y">> = <<"velocity_y">>
  BY FirstWork DEF Work, IInv, StreamAt, Post
<1>3. StreamAt(r)'
  BY <1>2 DEF StreamAt, Post, Goto, IInv, HostType
<1>4. RequestsAt(r)'
  BY <1>1, NeighboursUnchanged DEF IInv, RequestsAt, Post, Goto, HostType, Dirs, XDirs, YDirs
<1>5. <<"velocity_y">> \in Seq(Work)
  BY FirstWork DEF Work
<1>6. QED
  BY <1>1, <1>2, <1>3, <1>4, <1>5, HostStep DEF Post, IInv, HostType

LEMMA SendYInvariant == ASSUME IInv, NEW r \in Ranks, SendY(r) PROVE IInv'
<1> DEFINE s == Requests(sreq, r, YDirs, "pending")
<1>1. /\ s \in [Ranks -> [Dirs -> States]]
      /\ \A q \in Ranks \ {r} : s[q] = sreq[q]
      /\ \A d \in XDirs : s[r][d] = sreq[r][d]
      /\ \A d \in Dirs : ~HasNeighbour(r, d) => s[r][d] = sreq[r][d]
  BY DEF IInv, HostType, Requests, Sides, States, Dirs, XDirs, YDirs
<1>2. StreamAt(r)' /\ stream' = [stream EXCEPT ![r] = <<>>]
  BY DEF StreamAt, SendY, Goto, IInv, HostType
<1>3. RequestsAt(r)'
  BY <1>1, NeighboursUnchanged DEF IInv, RequestsAt, SendY, Goto, HostType, Dirs, XDirs, YDirs
<1>4. QED
  BY <1>1, <1>2, <1>3, HostStep DEF SendY, IInv, HostType

LEMMA SendXInvariant == ASSUME IInv, NEW r \in Ranks, SendX(r) PROVE IInv'
<1> DEFINE s == Requests(sreq, r, XDirs, "pending")
<1>1. /\ s \in [Ranks -> [Dirs -> States]]
      /\ \A q \in Ranks \ {r} : s[q] = sreq[q]
      /\ \A d \in YDirs : s[r][d] = sreq[r][d]
      /\ \A d \in Dirs : ~HasNeighbour(r, d) => s[r][d] = sreq[r][d]
  BY DEF IInv, HostType, Requests, Sides, States, Dirs, XDirs, YDirs
<1>2. StreamAt(r)' /\ stream' = [stream EXCEPT ![r] = <<>>]
  BY DEF StreamAt, SendX, Goto, IInv, HostType
<1>3. RequestsAt(r)'
  BY <1>1, NeighboursUnchanged DEF IInv, RequestsAt, SendX, Goto, HostType, Dirs, XDirs, YDirs
<1>4. QED
  BY <1>1, <1>2, <1>3, HostStep DEF SendX, IInv, HostType

(* After a wait the requests of its directions are gone: there were none     *)
(* where there is no neighbour.                                              *)
LEMMA WaitYInvariant == ASSUME IInv, NEW r \in Ranks, WaitY(r) PROVE IInv'
<1> DEFINE s == Requests(sreq, r, YDirs, "none")
           t == Requests(rreq, r, YDirs, "none")
<1>1. pc[r] = "wait_y" /\ Goto(r, "sync_x") /\ dim' = dim /\ sreq' = s /\ rreq' = t
      /\ stream' = [stream EXCEPT ![r] = stream[r] \o <<"boundary_y", "velocity_x">>]
  BY DEF WaitY
<1>2. /\ s \in [Ranks -> [Dirs -> States]]
      /\ \A q \in Ranks \ {r} : s[q] = sreq[q]
      /\ \A d \in XDirs : s[r][d] = sreq[r][d]
      /\ \A d \in Dirs : HasNeighbour(r, d) /\ d \in YDirs => s[r][d] = "none"
      /\ \A d \in Dirs : ~HasNeighbour(r, d) => s[r][d] = sreq[r][d]
  BY DEF IInv, HostType, Requests, Sides, States, Dirs, XDirs, YDirs
<1>3. /\ t \in [Ranks -> [Dirs -> States]]
      /\ \A q \in Ranks \ {r} : t[q] = rreq[q]
      /\ \A d \in XDirs : t[r][d] = rreq[r][d]
      /\ \A d \in Dirs : HasNeighbour(r, d) /\ d \in YDirs => t[r][d] = "none"
      /\ \A d \in Dirs : ~HasNeighbour(r, d) => t[r][d] = rreq[r][d]
  BY DEF IInv, HostType, Requests, Sides, States, Dirs, XDirs, YDirs
<1> HIDE DEF s, t
<1>4. \A d \in Dirs : ~HasNeighbour(r, d) => sreq[r][d] = "none" /\ rreq[r][d] = "none"
  BY DEF IInv, RequestsAt
<1>5. \A d \in YDirs : s[r][d] = "none" /\ t[r][d] = "none"
  BY <1>2, <1>3, <1>4 DEF Dirs
<1>6. stream[r] = <<>> /\ stream[r] \o <<"boundary_y", "velocity_x">> = <<"boundary_y", "velocity_x">>
  BY <1>1, FirstWork DEF Work, IInv, StreamAt
<1>7. StreamAt(r)'
  BY <1>1, <1>6 DEF StreamAt, Goto, IInv, HostType
<1>8. RequestsAt(r)'
  <2>1. \A d \in Dirs : HasNeighbour(r, d)' <=> HasNeighbour(r, d)
    BY <1>1, NeighboursUnchanged
  <2>2. pc'[r] = "sync_x"
    BY <1>1 DEF Goto, IInv, HostType
  <2>3. \A d \in XDirs : sreq[r][d] = "none"
    BY <1>1 DEF IInv, RequestsAt
  <2>4. \A d \in XDirs : s[r][d] = "none"
    BY <1>2, <1>3, <2>3
  <2>5. \A d \in Dirs : ~HasNeighbour(r, d) => s[r][d] = "none" /\ t[r][d] = "none"
    BY <1>2, <1>3, <1>4
  <2>6. QED
    BY <1>1, <1>5, <2>1, <2>2, <2>4, <2>5 DEF RequestsAt
<1>9. <<"boundary_y", "velocity_x">> \in Seq(Work)
  BY FirstWork DEF Work
<1>10. QED
  BY <1>1, <1>2, <1>3, <1>6, <1>7, <1>8, <1>9, HostStep

LEMMA WaitXInvariant == ASSUME IInv, NEW r \in Ranks, WaitX(r) PROVE IInv'
<1> DEFINE s == Requests(sreq, r, XDirs, "none")
           t == Requests(rreq, r, XDirs, "none")
<1>1. pc[r] = "wait_x" /\ Goto(r, "sync_end") /\ dim' = dim /\ sreq' = s /\ rreq' = t
      /\ stream' = [stream EXCEPT ![r] = stream[r] \o <<"boundary_x", "stress">>]
  BY DEF WaitX
<1>2. /\ s \in [Ranks -> [Dirs -> States]]
      /\ \A q \in Ranks \ {r} : s[q] = sreq[q]
      /\ \A d \in YDirs : s[r][d] = sreq[r][d]
      /\ \A d \in Dirs : HasNeighbour(r, d) /\ d \in XDirs => s[r][d] = "none"
      /\ \A d \in Dirs : ~HasNeighbour(r, d) => s[r][d] = sreq[r][d]
  BY DEF IInv, HostType, Requests, Sides, States, Dirs, XDirs, YDirs
<1>3. /\ t \in [Ranks -> [Dirs -> States]]
      /\ \A q \in Ranks \ {r} : t[q] = rreq[q]
      /\ \A d \in YDirs : t[r][d] = rreq[r][d]
      /\ \A d \in Dirs : HasNeighbour(r, d) /\ d \in XDirs => t[r][d] = "none"
      /\ \A d \in Dirs : ~HasNeighbour(r, d) => t[r][d] = rreq[r][d]
  BY DEF IInv, HostType, Requests, Sides, States, Dirs, XDirs, YDirs
<1> HIDE DEF s, t
<1>4. \A d \in Dirs : ~HasNeighbour(r, d) => sreq[r][d] = "none" /\ rreq[r][d] = "none"
  BY DEF IInv, RequestsAt
<1>5. \A d \in XDirs : s[r][d] = "none" /\ t[r][d] = "none"
  BY <1>2, <1>3, <1>4 DEF Dirs
<1>6. stream[r] = <<>> /\ stream[r] \o <<"boundary_x", "stress">> = <<"boundary_x", "stress">>
  BY <1>1, FirstWork DEF Work, IInv, StreamAt
<1>7. StreamAt(r)'
  BY <1>1, <1>6 DEF StreamAt, Goto, IInv, HostType
<1>8. RequestsAt(r)'
  <2>1. \A d \in Dirs : HasNeighbour(r, d)' <=> HasNeighbour(r, d)
    BY <1>1, NeighboursUnchanged
  <2>2. pc'[r] = "sync_end"
    BY <1>1 DEF Goto, IInv, HostType
  <2>3. \A d \in YDirs : sreq[r][d] = "none" /\ rreq[r][d] = "none"
    BY <1>1 DEF IInv, RequestsAt
  <2>4. \A d \in YDirs : s[r][d] = "none" /\ t[r][d] = "none"
    BY <1>2, <1>3, <2>3
  <2>5. \A d \in Dirs : ~HasNeighbour(r, d) => s[r][d] = "none" /\ t[r][d] = "none"
    BY <1>2, <1>3, <1>4
  <2>6. QED
    BY <1>1, <1>5, <2>1, <2>2, <2>4, <2>5 DEF RequestsAt
<1>9. <<"boundary_x", "stress">> \in Seq(Work)
  BY FirstWork DEF Work
<1>10. QED
  BY <1>1, <1>2, <1>3, <1>6, <1>7, <1>8, <1>9, HostStep

(* The end of a step: nothing is left, and the rank goes on, to open a file, *)
(* or out of the loop.                                                       *)
LEMMA QuietStep ==
    ASSUME IInv, NEW r \in Ranks, pc[r] \in {"sync_end", "open"}, stream[r] = <<>>,
           NEW l \in {"post", "open", "done"}, Goto(r, l),
           UNCHANGED <<dim, stream, sreq, rreq>>
    PROVE  IInv'
<1>1. StreamAt(r)'
  BY DEF StreamAt, Goto, IInv, HostType
<1>2. RequestsAt(r)'
  BY NeighboursUnchanged DEF IInv, RequestsAt, Goto, HostType
<1>3. QED
  BY <1>1, <1>2, HostStep DEF IInv, HostType

LEMMA EndInvariant ==
    ASSUME IInv, NEW r \in Ranks, EndStep(r) \/ WriteFile(r) PROVE IInv'
<1>1. stream[r] = <<>> /\ pc[r] \in {"sync_end", "open"} /\ UNCHANGED <<dim, stream, sreq, rreq>>
  BY DEF EndStep, WriteFile, IInv, StreamAt, mpiVars
<1>2. \E l \in {"post", "open", "done"} : Goto(r, l)
  BY DEF EndStep, WriteFile, NextStep, Goto
<1>3. QED
  BY <1>1, <1>2, QuietStep

LEMMA DeviceInvariant == ASSUME IInv, NEW r \in Ranks, Device(r) PROVE IInv'
<1>1. /\ UNCHANGED <<dim, pc, sreq, rreq>>
      /\ stream[r] # <<>> /\ stream' = [stream EXCEPT ![r] = Tail(stream[r])]
  BY DEF Device, mpiVars
<1>2. HostType'
  <2>1. Tail(stream[r]) \in Seq(Work)
    BY <1>1 DEF IInv, HostType
  <2>2. QED
    BY <1>1, <2>1, RanksUnchanged DEF IInv, HostType
<1>3. StreamAt(r)'
  <2>1. CASE stream[r] = <<"velocity_y">> \/ stream[r] = <<"velocity_x">> \/ stream[r] = <<"stress">>
    <3>1. Tail(stream[r]) = <<>>
      <4>1. \A w \in {"velocity_y", "velocity_x", "stress"} : Tail(<<w>>) = <<>>
        OBVIOUS
      <4>2. QED
        BY <2>1, <4>1
    <3>2. stream'[r] = <<>> /\ pc'[r] = pc[r]
      BY <1>1, <3>1 DEF IInv, HostType
    <3>3. QED
      BY <2>1, <3>2 DEF IInv, StreamAt
  <2>2. CASE stream[r] = <<"boundary_y", "velocity_x">>
    <3>1. Tail(stream[r]) = <<"velocity_x">>
      BY <2>2
    <3>2. QED
      BY <1>1, <2>2, <3>1 DEF IInv, HostType, StreamAt
  <2>3. CASE stream[r] = <<"boundary_x", "stress">>
    <3>1. Tail(stream[r]) = <<"stress">>
      BY <2>3
    <3>2. QED
      BY <1>1, <2>3, <3>1 DEF IInv, HostType, StreamAt
  <2>4. QED
    BY <1>1, <2>1, <2>2, <2>3 DEF IInv, HostType, StreamAt
<1>4. RequestsAt(r)'
  BY <1>1, NeighboursUnchanged DEF IInv, RequestsAt
<1>5. \A q \in Ranks \ {r} : stream'[q] = stream[q]
  BY <1>1 DEF IInv, HostType
<1>6. QED
  BY <1>1, <1>2, <1>3, <1>4, <1>5, OneRank

(* MPI completes a request that is open. *)
LEMMA MessageInvariant ==
    ASSUME IInv, NEW r \in Ranks, NEW d \in Dirs, Message(r, d) PROVE IInv'
<1>1. CASE Take(r, d)
  <2>1. HostType'
    BY <1>1, RanksUnchanged DEF Take, IInv, HostType, States
  <2>2. StreamAt(r)' /\ RequestsAt(r)'
    BY <1>1, NeighboursUnchanged DEF Take, IInv, HostType, StreamAt, RequestsAt, Dirs, XDirs, YDirs
  <2>3. QED
    BY <1>1, <2>1, <2>2, OneRank DEF Take, IInv, HostType
<1>2. CASE Deliver(r, d)
  <2>1. HostType'
    BY <1>2, RanksUnchanged DEF Deliver, IInv, HostType, States
  <2>2. StreamAt(r)' /\ RequestsAt(r)'
    BY <1>2, NeighboursUnchanged DEF Deliver, IInv, HostType, StreamAt, RequestsAt, Dirs, XDirs, YDirs
  <2>3. QED
    BY <1>2, <2>1, <2>2, OneRank DEF Deliver, IInv, HostType
<1>3. QED
  BY <1>1, <1>2 DEF Message

LEMMA StepInvariant == IInv /\ [Next]_vars => IInv'
<1> SUFFICES ASSUME IInv, [Next]_vars PROVE IInv'
  OBVIOUS
<1>1. CASE UNCHANGED vars
  BY <1>1, RanksUnchanged, NeighboursUnchanged
     DEF vars, mpiVars, IInv, HostType, StreamAt, RequestsAt
<1>2. ASSUME NEW r \in Ranks, Host(r) PROVE IInv'
  BY <1>2, PostInvariant, SendYInvariant, WaitYInvariant, SendXInvariant, WaitXInvariant,
     EndInvariant DEF Host
<1>3. QED
  BY <1>1, <1>2, DeviceInvariant, MessageInvariant DEF Next

(* While the stream still holds work on a buffer, no request for the buffer  *)
(* is open.                                                                  *)
LEMMA StreamKnown == IInv => BuffersOwned
<1> SUFFICES ASSUME IInv, NEW r \in Ranks, NEW op \in Range(stream[r])
             PROVE  /\ op = "velocity_y" => pc[r] = "sync_y"
                    /\ op \in {"velocity_x", "boundary_y"} => pc[r] = "sync_x"
                    /\ op = "boundary_x" => pc[r] = "sync_end"
  BY DEF BuffersOwned, IInv, RequestsAt
<1>1. stream[r] = <<>> => FALSE
  BY DEF Range
<1>2. \A a : stream[r] = <<a>> => op = a
  BY DEF Range
<1>3. \A a, b : stream[r] = <<a, b>> => op \in {a, b}
  BY DEF Range
<1>4. QED
  BY <1>1, <1>2, <1>3 DEF IInv, HostType, StreamAt

(* No strip of velocity is written by the GPU while MPI still sends it, none *)
(* is read by the GPU while MPI may write it, for any grid, any number of    *)
(* ranks and of steps (pmcl3d.c 845-961).                                    *)
THEOREM BuffersSafe == SafeSpec => []BuffersOwned
<1>1. QED
  BY InitInvariant, StepInvariant, StreamKnown, PTL DEF SafeSpec
-----------------------------------------------------------------------------
(* The values.  Done(r) of the five kernels of a step are over: those the    *)
(* host has started so far, less those in the stream.                        *)
Started == [post |-> 0, sync_y |-> 1, wait_y |-> 1, sync_x |-> 3, wait_x |-> 3,
            sync_end |-> 5, open |-> 5, done |-> 0]
Done(r) == Started[pc[r]] - Len(stream[r])

(* Steps of the velocity and the stress of a region when k kernels of step n *)
(* are over                                                                  *)
VelAt(g, k, n) == IF \/ g[1] # 0 /\ k >= 4
                     \/ g[1] = 0 /\ g[2] # 0 /\ k >= 2
                     \/ g = Own /\ k >= 3
                  THEN n ELSE n - 1
StrAt(k, n) == IF k >= 5 THEN n ELSE n - 1
Values(r) == \A g \in Regions : Part(r, g) \in Ranks =>
    /\ vel[r][g] = VelAt(g, Done(r), cur_step[r])
    /\ str[r][g] = StrAt(Done(r), cur_step[r])

(* s is the strip that rank r sends in direction d in step n. *)
StripRows(d) == IF d \in XDirs THEN -1 .. 1 ELSE {0}
IsStrip(s, r, d, n) ==
    /\ s \in [org : Int, v : [StripRows(d) -> Int]]
    /\ s.org = Origin(r, d, SentAt[d])
    /\ \A k \in StripRows(d) : Part(r, <<0, k>>) \in Ranks => s.v[k] = n

Prepared(r) ==
    /\ Done(r) >= 1 => \A d \in Sides(r, YDirs) : IsStrip(sbuf[r][d], r, d, cur_step[r])
    /\ Done(r) >= 3 => \A d \in Sides(r, XDirs) : IsStrip(sbuf[r][d], r, d, cur_step[r])

(* How many messages MPI has taken from r in direction d, and put into its   *)
(* buffer of that direction: one in each step that has come so far.          *)
Past(r, d) == Started[pc[r]] >= (IF d \in YDirs THEN 3 ELSE 5)
Sent(r, d) == IF Past(r, d) \/ sreq[r][d] = "done" THEN cur_step[r] ELSE cur_step[r] - 1
Received(r, d) == IF Past(r, d) \/ rreq[r][d] = "done" THEN cur_step[r] ELSE cur_step[r] - 1

(* The messages under way to r from the neighbour s are those in between.    *)
InTransit(r, d, s, e) ==
    /\ Len(net[s][e]) = Sent(s, e) - Received(r, d)
    /\ \A j \in 1 .. Len(net[s][e]) : IsStrip(net[s][e][j], s, e, Received(r, d) + j)
Link(r, d) == HasNeighbour(r, d) =>
    /\ InTransit(r, d, Neighbour(r, d), Opposite[d])
    /\ Received(r, d) = cur_step[r] =>
           IsStrip(rbuf[r][d], Neighbour(r, d), Opposite[d], cur_step[r])

(* Where the stress at the surface may not be that of the grid: the front    *)
(* ghost row and the right ghost column that are computed last.              *)
Edge == {p \in Int \X Int : p[2] = 4 \/ p[1] = nxt + 7}

GridType ==
    /\ dim \in Shapes
    /\ off \in [Ranks -> SUBSET Edge]
    /\ cur_step \in [Ranks -> Nat \ {0}]
    /\ vel \in [Ranks -> [Regions -> Int]]
    /\ str \in [Ranks -> [Regions -> Int]]
    /\ DOMAIN sbuf = Ranks /\ (\A r \in Ranks : DOMAIN sbuf[r] = Dirs)
    /\ DOMAIN rbuf = Ranks /\ (\A r \in Ranks : DOMAIN rbuf[r] = Dirs)
    /\ net \in [Ranks -> [Dirs -> Seq([org : Int, v : UNION {[StripRows(d) -> Int] : d \in Dirs}])]]

GInv == GridType /\ \A r \in Ranks : Values(r) /\ Prepared(r) /\ \A d \in Dirs : Link(r, d)
-----------------------------------------------------------------------------
LEMMA Sizes ==
    /\ nxt \in Nat /\ nyt \in Nat /\ nt \in Nat \ {0}
    /\ NTISKP_SGT \in Nat \ {0} /\ WRITE_STEP \in Nat \ {0}
    /\ \A s \in Shapes : s[1] \in Nat \ {0} /\ s[2] \in Nat \ {0}
  BY HaloAssumption

LEMMA RankPair ==
    ASSUME GridType, NEW r \in Ranks
    PROVE  /\ r = <<r[1], r[2]>> /\ r[1] \in 0 .. dim[1] - 1 /\ r[2] \in 0 .. dim[2] - 1
           /\ dim[1] \in Nat /\ dim[2] \in Nat
  BY Sizes DEF Ranks, GridType

(* The neighbour on a side has this rank on its other side. *)
LEMMA NeighbourBack ==
    ASSUME GridType, NEW r \in Ranks, NEW d \in Dirs
    PROVE  /\ Opposite[d] \in Dirs /\ Opposite[Opposite[d]] = d
           /\ d \in XDirs <=> Opposite[d] \in XDirs
           /\ Neighbour(Neighbour(r, d), Opposite[d]) = r
           /\ HasNeighbour(r, d) => HasNeighbour(Neighbour(r, d), Opposite[d])
<1>1. /\ r = <<r[1], r[2]>> /\ r[1] \in Int /\ r[2] \in Int
  BY RankPair
<1>2. d \in {"L", "R", "F", "B"}
  BY DEF Dirs, XDirs, YDirs
<1>3. /\ Opposite[d] \in Dirs /\ Opposite[Opposite[d]] = d
      /\ d \in XDirs <=> Opposite[d] \in XDirs
  BY <1>2 DEF Opposite, Dirs, XDirs, YDirs
<1>4. Neighbour(Neighbour(r, d), Opposite[d]) = r
  BY <1>1, <1>2 DEF Neighbour, Part, Shift, Opposite
<1>5. QED
  BY <1>3, <1>4 DEF HasNeighbour

(* The four columns or rows sent by a neighbour are the ghosts received into *)
LEMMA StripFits ==
    ASSUME GridType, NEW r \in Ranks, NEW d \in Dirs
    PROVE  Origin(Neighbour(r, d), Opposite[d], SentAt[Opposite[d]]) = Origin(r, d, ReceivedAt[d])
<1>1. /\ r[1] \in Int /\ r[2] \in Int /\ nxt \in Int /\ nyt \in Int
  BY RankPair, Sizes
<1>2. /\ nxt * (r[1] + 1) = nxt * r[1] + nxt /\ nxt * (r[1] + -1) = nxt * r[1] - nxt
      /\ nyt * (r[2] + 1) = nyt * r[2] + nyt /\ nyt * (r[2] + -1) = nyt * r[2] - nyt
      /\ nxt * r[1] \in Int /\ nyt * r[2] \in Int
  BY <1>1
<1>3. /\ Neighbour(r, "L") = <<r[1] + -1, r[2] + 0>> /\ Neighbour(r, "R") = <<r[1] + 1, r[2] + 0>>
      /\ Neighbour(r, "F") = <<r[1] + 0, r[2] + -1>> /\ Neighbour(r, "B") = <<r[1] + 0, r[2] + 1>>
  BY DEF Neighbour, Part, Shift
<1>4. /\ Opposite["L"] = "R" /\ Opposite["R"] = "L" /\ Opposite["F"] = "B" /\ Opposite["B"] = "F"
  BY DEF Opposite
<1>5. /\ SentAt["L"] = 6 /\ SentAt["R"] = nxt + 2 /\ SentAt["F"] = 6 /\ SentAt["B"] = nyt + 2
      /\ ReceivedAt["L"] = 2 /\ ReceivedAt["R"] = nxt + 6
      /\ ReceivedAt["F"] = 2 /\ ReceivedAt["B"] = nyt + 6
  BY DEF SentAt, ReceivedAt
<1>6. CASE d = "L"
  BY <1>1, <1>2, <1>3, <1>4, <1>5, <1>6 DEF Origin, Global, XDirs
<1>7. CASE d = "R"
  BY <1>1, <1>2, <1>3, <1>4, <1>5, <1>7 DEF Origin, Global, XDirs
<1>8. CASE d = "F"
  BY <1>1, <1>2, <1>3, <1>4, <1>5, <1>8 DEF Origin, Global, XDirs
<1>9. CASE d = "B"
  BY <1>1, <1>2, <1>3, <1>4, <1>5, <1>9 DEF Origin, Global, XDirs
<1>10. QED
  BY <1>6, <1>7, <1>8, <1>9 DEF Dirs, XDirs, YDirs

(* What has been given to the stream and is not over is what is left in it.  *)
LEMMA WorkLeft ==
    ASSUME IInv, NEW r \in Ranks
    PROVE  /\ Done(r) \in 0 .. 5
           /\ pc[r] \in {"post", "done"} => Done(r) = 0
           /\ pc[r] = "open" => Done(r) = 5
           /\ stream[r] = <<>> => Done(r) = Started[pc[r]]
           /\ stream[r] # <<>> =>
                 \/ Head(stream[r]) = "velocity_y" /\ Done(r) = 0 /\ pc[r] = "sync_y"
                 \/ Head(stream[r]) = "boundary_y" /\ Done(r) = 1 /\ pc[r] = "sync_x"
                 \/ Head(stream[r]) = "velocity_x" /\ Done(r) = 2 /\ pc[r] = "sync_x"
                 \/ Head(stream[r]) = "boundary_x" /\ Done(r) = 3 /\ pc[r] = "sync_end"
                 \/ Head(stream[r]) = "stress" /\ Done(r) = 4 /\ pc[r] = "sync_end"
<1>1. /\ Len(<<>>) = 0
      /\ \A a : Len(<<a>>) = 1 /\ Head(<<a>>) = a /\ <<a>> # <<>>
      /\ \A a, b : Len(<<a, b>>) = 2 /\ Head(<<a, b>>) = a /\ <<a, b>> # <<>>
  OBVIOUS
<1>2. CASE stream[r] = <<>>
  BY <1>1, <1>2 DEF IInv, HostType, Done, Started
<1>3. CASE stream[r] # <<>>
  <2>1. \/ pc[r] = "sync_y" /\ stream[r] = <<"velocity_y">>
        \/ pc[r] = "sync_x" /\ stream[r] = <<"boundary_y", "velocity_x">>
        \/ pc[r] = "sync_x" /\ stream[r] = <<"velocity_x">>
        \/ pc[r] = "sync_end" /\ stream[r] = <<"boundary_x", "stress">>
        \/ pc[r] = "sync_end" /\ stream[r] = <<"stress">>
    BY <1>3 DEF IInv, HostType, StreamAt
  <2>2. Started["sync_y"] = 1 /\ Started["sync_x"] = 3 /\ Started["sync_end"] = 5
    BY DEF Started
  <2>3. CASE pc[r] = "sync_y" /\ stream[r] = <<"velocity_y">>
    BY <1>1, <2>2, <2>3 DEF Done
  <2>4. CASE pc[r] = "sync_x" /\ stream[r] = <<"boundary_y", "velocity_x">>
    BY <1>1, <2>2, <2>4 DEF Done
  <2>5. CASE pc[r] = "sync_x" /\ stream[r] = <<"velocity_x">>
    BY <1>1, <2>2, <2>5 DEF Done
  <2>6. CASE pc[r] = "sync_end" /\ stream[r] = <<"boundary_x", "stress">>
    BY <1>1, <2>2, <2>6 DEF Done
  <2>7. CASE pc[r] = "sync_end" /\ stream[r] = <<"stress">>
    BY <1>1, <2>2, <2>7 DEF Done
  <2>8. QED
    BY <2>1, <2>3, <2>4, <2>5, <2>6, <2>7
<1>4. QED
  BY <1>2, <1>3

LEMMA StripsUnchanged ==
    ASSUME UNCHANGED dim PROVE \A s, r, d, n : IsStrip(s, r, d, n)' <=> IsStrip(s, r, d, n)
  BY RanksUnchanged DEF IsStrip

(* A rank that holds its place, its values and what it has prepared *)
LEMMA Undisturbed ==
    ASSUME UNCHANGED dim, NEW q \in Ranks,
           Done(q)' = Done(q), cur_step'[q] = cur_step[q],
           vel'[q] = vel[q], str'[q] = str[q], sbuf'[q] = sbuf[q]
    PROVE  /\ Values(q) => Values(q)'
           /\ Prepared(q) => Prepared(q)'
<1>1. Values(q) => Values(q)'
  BY RanksUnchanged DEF Values
<1>2. Prepared(q) => Prepared(q)'
  BY StripsUnchanged, NeighboursUnchanged DEF Prepared, Sides
<1>3. QED
  BY <1>1, <1>2

LEMMA RegionFacts ==
    /\ Own \in Regions /\ Own = <<0, 0>>
    /\ \A g \in Regions : g = <<g[1], g[2]>> /\ g[1] \in -1 .. 1 /\ g[2] \in -1 .. 1
    /\ \A g : Star(g) \subseteq Regions
  BY DEF Own, Regions, Star

LEMMA OwnPart ==
    ASSUME GridType, NEW r \in Ranks PROVE Part(r, Own) = r
  BY RankPair DEF Part, Own

(* No velocity is computed from the normal stress of the edge. *)
LEMMA EdgeNotRead ==
    ASSUME NEW js \in SUBSET PartRows, NEW p \in Edge PROVE ~ReadsNormal(p, js)
<1>1. nxt \in Nat /\ nyt \in Nat /\ \A j \in js : j \in 6 .. nyt + 5
  BY Sizes DEF PartRows
<1>2. QED
  BY <1>1 DEF Edge, ReadsNormal

(* The velocity is computed while everything around is of the last step. *)
LEMMA NewVelocityExact ==
    ASSUME GridType, NEW r \in Ranks, Values(r), Done(r) \in 0 .. 2, NEW js \in SUBSET PartRows
    PROVE  NewVelocity(r, js) = cur_step[r]
<1>1. vel[r][Own] = cur_step[r] - 1 /\ cur_step[r] \in Nat \ {0}
  <2>1. Part(r, Own) = r /\ Own \in Regions
    BY OwnPart, RegionFacts
  <2>2. VelAt(Own, Done(r), cur_step[r]) = cur_step[r] - 1
    BY RegionFacts DEF VelAt
  <2>3. QED
    BY <2>1, <2>2 DEF Values, GridType
<1>2. \A h \in Regions : Part(r, h) \in Ranks => str[r][h] = cur_step[r] - 1
  BY DEF Values, StrAt
<1>3. ReadRegions(js) \subseteq Regions
  BY RegionFacts DEF ReadRegions
<1>4. \A p \in off[r] : ~ReadsNormal(p, js)
  BY EdgeNotRead DEF GridType
<1>5. QED
  BY <1>1, <1>2, <1>3, <1>4 DEF NewVelocity, Of, Outside, Bad

LEMMA KernelFrame ==
    ASSUME IInv, GridType, NEW r \in Ranks, Device(r)
    PROVE  /\ UNCHANGED <<dim, pc, cur_step, rbuf, sreq, rreq, net>>
           /\ Done(r)' = Done(r) + 1
           /\ \A q \in Ranks \ {r} : Done(q)' = Done(q)
<1>1. UNCHANGED <<dim, pc, cur_step, rbuf, sreq, rreq, net>>
  BY DEF Device, mpiVars
<1>2. stream[r] # <<>> /\ stream' = [stream EXCEPT ![r] = Tail(stream[r])] /\ stream[r] \in Seq(Work)
  BY DEF Device, IInv, HostType
<1>3. Len(Tail(stream[r])) = Len(stream[r]) - 1 /\ Len(stream[r]) \in Nat
  BY <1>2
<1>4. stream'[r] = Tail(stream[r]) /\ \A q \in Ranks \ {r} : stream'[q] = stream[q]
  BY <1>2 DEF IInv, HostType
<1>5. Started[pc[r]] \in Int
  BY DEF IInv, HostType, Started
<1>6. QED
  BY <1>1, <1>3, <1>4, <1>5 DEF Done

LEMMA OriginType ==
    ASSUME GridType, NEW r \in Ranks, NEW d \in Dirs, NEW i \in Int PROVE Origin(r, d, i) \in Int
<1>1. nxt * r[1] \in Int /\ nyt * r[2] \in Int
  BY RankPair, Sizes
<1>2. QED
  BY <1>1 DEF Origin, Global

(* What a rank puts into its buffers is a strip, if the values are right. *)
LEMMA StripMade ==
    ASSUME GridType, NEW r \in Ranks, NEW d \in Dirs, NEW n, NEW v \in [StripRows(d) -> Int],
           \A k \in StripRows(d) : Part(r, <<0, k>>) \in Ranks => v[k] = n
    PROVE  IsStrip(Strip(r, d, v), r, d, n)
<1>1. SentAt[d] \in Int
  BY Sizes DEF SentAt, Dirs, XDirs, YDirs
<1>2. Origin(r, d, SentAt[d]) \in Int
  BY <1>1, OriginType
<1>3. QED
  BY <1>2 DEF IsStrip, Strip

(* dvelcy_H: the rows the neighbours need *)
LEMMA VelocityYKeeps ==
    ASSUME GridType, NEW r \in Ranks, Values(r), Done(r) = 0, velocity_y(r),
           UNCHANGED <<dim, cur_step>>, Done(r)' = 1
    PROVE  /\ DOMAIN sbuf' = Ranks /\ \A q \in Ranks : DOMAIN sbuf'[q] = Dirs
           /\ \A q \in Ranks \ {r} : sbuf'[q] = sbuf[q]
           /\ Values(r)' /\ Prepared(r)'
<1>1. /\ DOMAIN sbuf' = Ranks /\ \A q \in Ranks : DOMAIN sbuf'[q] = Dirs
      /\ \A q \in Ranks \ {r} : sbuf'[q] = sbuf[q]
  BY DEF velocity_y, GridType
<1>2. Values(r)'
  BY RanksUnchanged, RegionFacts DEF Values, VelAt, StrAt, velocity_y
<1>3. ASSUME NEW d \in Sides(r, YDirs) PROVE IsStrip(sbuf'[r][d], r, d, cur_step[r])
  <2> DEFINE v == [k \in {0} |-> NewVelocity(r, Strips(d))]
  <2>1. d \in Dirs /\ StripRows(d) = {0}
    BY <1>3 DEF Sides, Dirs, StripRows, XDirs, YDirs
  <2>2. NewVelocity(r, Strips(d)) = cur_step[r]
    <3>1. SentAt[d] \in {6, nyt + 2} /\ nyt \in Nat /\ nyt >= 4
      BY <1>3, HaloAssumption DEF Sides, YDirs, SentAt
    <3>2. Strips(d) \in SUBSET PartRows
      BY <3>1 DEF Strips, PartRows
    <3>3. QED
      BY <3>2, NewVelocityExact
  <2>3. v \in [StripRows(d) -> Int] /\ \A k \in StripRows(d) : v[k] = cur_step[r]
    BY <2>1, <2>2 DEF GridType
  <2>4. sbuf'[r][d] = Strip(r, d, v)
    BY <1>3, <2>1 DEF velocity_y, GridType
  <2>5. QED
    BY <2>1, <2>3, <2>4, StripMade
<1>4. Prepared(r)'
  BY <1>3, StripsUnchanged, NeighboursUnchanged DEF Prepared, Sides
<1>5. QED
  BY <1>1, <1>2, <1>4

(* What has been received fits, and is of this step. *)
LEMMA GotExact ==
    ASSUME GridType, NEW r \in Ranks, NEW d \in Dirs, NEW k \in StripRows(d), NEW n,
           IsStrip(rbuf[r][d], Neighbour(r, d), Opposite[d], n)
    PROVE  /\ Got(r, d, k) \in Int
           /\ Part(Neighbour(r, d), <<0, k>>) \in Ranks => Got(r, d, k) = n
<1>1. StripRows(Opposite[d]) = StripRows(d)
  BY NeighbourBack DEF StripRows
<1>2. QED
  BY <1>1, StripFits DEF IsStrip, Got

(* Which neighbour's strip a ghost region is filled from *)
LEMMA GhostSide ==
    /\ \A d \in YDirs : GhostOf[d] \in {-1, 1} /\ Shift[d] = <<0, GhostOf[d]>>
    /\ \A d \in XDirs : GhostOf[d] \in {-1, 1} /\ Shift[d] = <<GhostOf[d], 0>>
    /\ \A g : \A d \in YDirs : g[2] = GhostOf[d] => (CHOOSE e \in YDirs : g[2] = GhostOf[e]) = d
    /\ \A g : \A d \in XDirs : g[1] = GhostOf[d] => (CHOOSE e \in XDirs : g[1] = GhostOf[e]) = d
    /\ \A i \in {-1, 1} : /\ \E d \in YDirs : GhostOf[d] = i
                          /\ \E d \in XDirs : GhostOf[d] = i
<1>1. /\ GhostOf["F"] = -1 /\ GhostOf["B"] = 1 /\ GhostOf["L"] = -1 /\ GhostOf["R"] = 1
      /\ Shift["F"] = <<0, -1>> /\ Shift["B"] = <<0, 1>>
      /\ Shift["L"] = <<-1, 0>> /\ Shift["R"] = <<1, 0>>
  BY DEF GhostOf, Shift
<1>2. ASSUME NEW g, NEW d \in YDirs, g[2] = GhostOf[d]
      PROVE (CHOOSE e \in YDirs : g[2] = GhostOf[e]) = d
  BY <1>1, <1>2 DEF YDirs
<1>3. ASSUME NEW g, NEW d \in XDirs, g[1] = GhostOf[d]
      PROVE (CHOOSE e \in XDirs : g[1] = GhostOf[e]) = d
  BY <1>1, <1>3 DEF XDirs
<1>4. QED
  BY <1>1, <1>2, <1>3 DEF XDirs, YDirs

(* Cpy2Device_VY: the ghost rows, without their corners *)
LEMMA BoundaryYKeeps ==
    ASSUME GridType, NEW r \in Ranks, Values(r), Prepared(r), Done(r) = 1, boundary_y(r),
           \A d \in Sides(r, YDirs) : IsStrip(rbuf[r][d], Neighbour(r, d), Opposite[d], cur_step[r]),
           UNCHANGED <<dim, cur_step>>, Done(r)' = 2
    PROVE  /\ vel' \in [Ranks -> [Regions -> Int]]
           /\ \A q \in Ranks \ {r} : vel'[q] = vel[q]
           /\ Values(r)' /\ Prepared(r)'
<1>1. ASSUME NEW d \in Sides(r, YDirs)
      PROVE  Got(r, d, 0) = cur_step[r] /\ cur_step[r] \in Int
  <2>1. d \in Dirs /\ 0 \in StripRows(d) /\ Neighbour(r, d) \in Ranks
    BY <1>1 DEF Sides, Dirs, StripRows, XDirs, YDirs, HasNeighbour
  <2>2. Part(Neighbour(r, d), <<0, 0>>) = Neighbour(r, d)
    BY <2>1, OwnPart DEF Own
  <2>3. IsStrip(rbuf[r][d], Neighbour(r, d), Opposite[d], cur_step[r])
    BY <1>1
  <2>4. Got(r, d, 0) \in Int /\ Got(r, d, 0) = cur_step[r]
    BY <2>1, <2>2, <2>3, GotExact
  <2>5. QED
    BY <2>4
<1> DEFINE ghost(g) == \E d \in Sides(r, YDirs) : g = <<0, GhostOf[d]>>
           new(g) == LET d == CHOOSE d \in YDirs : g[2] = GhostOf[d] IN Got(r, d, 0)
<1>2. ASSUME NEW g \in Regions, ghost(g) PROVE new(g) = cur_step[r] /\ new(g) \in Int
  <2>1. PICK d \in Sides(r, YDirs) : g = <<0, GhostOf[d]>>
    BY <1>2
  <2>2. d \in YDirs /\ g[2] = GhostOf[d]
    BY <2>1 DEF Sides
  <2>3. new(g) = Got(r, d, 0)
    BY <2>2, GhostSide
  <2>4. QED
    BY <1>1, <2>1, <2>3
<1>3. vel' = [vel EXCEPT ![r] = [g \in Regions |-> IF ghost(g) THEN new(g) ELSE vel[r][g]]]
  BY DEF boundary_y
<1> HIDE DEF ghost, new
<1>4. /\ vel' \in [Ranks -> [Regions -> Int]]
      /\ \A q \in Ranks \ {r} : vel'[q] = vel[q]
      /\ \A g \in Regions : vel'[r][g] = IF ghost(g) THEN cur_step[r] ELSE vel[r][g]
  BY <1>2, <1>3 DEF GridType
<1>5. ASSUME NEW g \in Regions, Part(r, g) \in Ranks
      PROVE  ghost(g) <=> g[1] = 0 /\ g[2] # 0
  <2>1. ghost(g) => g[1] = 0 /\ g[2] # 0
    BY GhostSide DEF ghost, Sides
  <2>2. ASSUME g[1] = 0, g[2] # 0 PROVE ghost(g)
    <3>1. PICK d \in YDirs : GhostOf[d] = g[2]
      BY <2>2, GhostSide, RegionFacts
    <3>2. g = <<0, GhostOf[d]>> /\ Neighbour(r, d) = Part(r, g)
      BY <2>2, <3>1, GhostSide, RegionFacts DEF Neighbour
    <3>3. QED
      BY <1>5, <3>1, <3>2 DEF ghost, Sides, HasNeighbour
  <2>3. QED
    BY <2>1, <2>2
<1>6. Values(r)'
  <2> SUFFICES ASSUME NEW g \in Regions, Part(r, g) \in Ranks
               PROVE  /\ vel'[r][g] = VelAt(g, 2, cur_step[r])
                      /\ str'[r][g] = StrAt(2, cur_step[r])
    BY RanksUnchanged DEF Values
  <2>1. vel[r][g] = VelAt(g, 1, cur_step[r]) /\ str[r][g] = StrAt(1, cur_step[r]) /\ str' = str
    BY DEF Values, boundary_y
  <2>2. QED
    BY <1>4, <1>5, <2>1, RegionFacts DEF VelAt, StrAt
<1>7. Prepared(r)'
  BY StripsUnchanged, NeighboursUnchanged DEF Prepared, Sides, boundary_y
<1>8. QED
  BY <1>4, <1>6, <1>7

(* dvelcx_H: the part itself; its columns are sent with the ghost rows *)
LEMMA VelocityXKeeps ==
    ASSUME GridType, NEW r \in Ranks, Values(r), Prepared(r), Done(r) = 2, velocity_x(r),
           UNCHANGED <<dim, cur_step>>, Done(r)' = 3
    PROVE  /\ vel' \in [Ranks -> [Regions -> Int]]
           /\ DOMAIN sbuf' = Ranks /\ \A q \in Ranks : DOMAIN sbuf'[q] = Dirs
           /\ \A q \in Ranks \ {r} : vel'[q] = vel[q] /\ sbuf'[q] = sbuf[q]
           /\ Values(r)' /\ Prepared(r)'
<1>1. NewVelocity(r, PartRows) = cur_step[r] /\ cur_step[r] \in Int
  <2>1. Done(r) \in 0 .. 2 /\ PartRows \in SUBSET PartRows
    OBVIOUS
  <2>2. NewVelocity(r, PartRows) = cur_step[r]
    BY <2>1, NewVelocityExact
  <2>3. cur_step[r] \in Int
    BY DEF GridType
  <2>4. QED
    BY <2>2, <2>3
<1>2. /\ vel' \in [Ranks -> [Regions -> Int]]
      /\ \A q \in Ranks \ {r} : vel'[q] = vel[q]
      /\ \A g \in Regions : vel'[r][g] = IF g = Own THEN cur_step[r] ELSE vel[r][g]
  BY <1>1, RegionFacts DEF velocity_x, GridType
<1>3. /\ DOMAIN sbuf' = Ranks /\ \A q \in Ranks : DOMAIN sbuf'[q] = Dirs
      /\ \A q \in Ranks \ {r} : sbuf'[q] = sbuf[q]
      /\ \A d \in Dirs \ Sides(r, XDirs) : sbuf'[r][d] = sbuf[r][d]
  BY DEF velocity_x, GridType
<1>4. ASSUME NEW g \in Regions, Part(r, g) \in Ranks
      PROVE  vel'[r][g] = VelAt(g, 3, cur_step[r]) /\ str'[r][g] = StrAt(3, cur_step[r])
  <2>1. vel[r][g] = VelAt(g, 2, cur_step[r]) /\ str[r][g] = StrAt(2, cur_step[r]) /\ str' = str
    BY <1>4 DEF Values, velocity_x
  <2>2. QED
    BY <1>2, <2>1, RegionFacts DEF VelAt, StrAt
<1>5. Values(r)'
  BY <1>4, RanksUnchanged DEF Values
<1>6. ASSUME NEW d \in Sides(r, XDirs) PROVE IsStrip(sbuf'[r][d], r, d, cur_step[r])
  <2> DEFINE v == [k \in -1 .. 1 |-> vel'[r][<<0, k>>]]
  <2>1. d \in Dirs /\ StripRows(d) = -1 .. 1
    BY <1>6 DEF Sides, Dirs, StripRows
  <2>2. \A k \in -1 .. 1 : <<0, k>> \in Regions
    BY DEF Regions
  <2>3. v \in [StripRows(d) -> Int]
    BY <1>2, <2>1, <2>2
  <2>4. ASSUME NEW k \in StripRows(d), Part(r, <<0, k>>) \in Ranks PROVE v[k] = cur_step[r]
    <3>1. v[k] = VelAt(<<0, k>>, 3, cur_step[r])
      BY <1>4, <2>1, <2>2, <2>4
    <3>2. QED
      BY <2>1, <3>1 DEF VelAt, Own
  <2>5. sbuf'[r][d] = Strip(r, d, v)
    BY <1>6, <2>1 DEF velocity_x, GridType
  <2>6. QED
    BY <2>1, <2>3, <2>4, <2>5, StripMade
<1>7. \A d \in Sides(r, YDirs) : IsStrip(sbuf'[r][d], r, d, cur_step[r])
  BY <1>3 DEF Prepared, Sides, Dirs, XDirs, YDirs
<1>8. Prepared(r)'
  BY <1>6, <1>7, StripsUnchanged, NeighboursUnchanged DEF Prepared, Sides
<1>9. QED
  BY <1>2, <1>3, <1>5, <1>8

(* Cpy2Device_VX: the ghost columns, with their corners *)
LEMMA BoundaryXKeeps ==
    ASSUME GridType, NEW r \in Ranks, Values(r), Prepared(r), Done(r) = 3, boundary_x(r),
           \A d \in Sides(r, XDirs) : IsStrip(rbuf[r][d], Neighbour(r, d), Opposite[d], cur_step[r]),
           UNCHANGED <<dim, cur_step>>, Done(r)' = 4
    PROVE  /\ vel' \in [Ranks -> [Regions -> Int]]
           /\ \A q \in Ranks \ {r} : vel'[q] = vel[q]
           /\ Values(r)' /\ Prepared(r)'
<1>1. ASSUME NEW d \in Sides(r, XDirs), NEW g \in Regions, g[1] = GhostOf[d]
      PROVE  /\ Got(r, d, g[2]) \in Int
             /\ Part(r, g) \in Ranks => Got(r, d, g[2]) = cur_step[r]
  <2>1. d \in Dirs /\ g[2] \in StripRows(d)
    BY <1>1, RegionFacts DEF Sides, Dirs, StripRows
  <2>2. d \in XDirs /\ Shift[d] = <<GhostOf[d], 0>> /\ GhostOf[d] \in Int
    BY <1>1, GhostSide DEF Sides
  <2>3. Part(Neighbour(r, d), <<0, g[2]>>) = Part(r, g)
    <3>1. r[1] \in Int /\ r[2] \in Int /\ g[2] \in Int
      BY RankPair, RegionFacts
    <3>2. Neighbour(r, d) = <<r[1] + g[1], r[2] + 0>>
      BY <1>1, <2>2 DEF Neighbour, Part
    <3>3. QED
      BY <1>1, <2>2, <3>1, <3>2 DEF Part
  <2>4. QED
    BY <2>1, <2>3, GotExact
<1> DEFINE ghost(g) == \E d \in Sides(r, XDirs) : g[1] = GhostOf[d]
           new(g) == LET d == CHOOSE d \in XDirs : g[1] = GhostOf[d] IN Got(r, d, g[2])
<1>2. ASSUME NEW g \in Regions, ghost(g)
      PROVE  /\ new(g) \in Int
             /\ Part(r, g) \in Ranks => new(g) = cur_step[r]
  <2>1. PICK d \in Sides(r, XDirs) : g[1] = GhostOf[d]
    BY <1>2
  <2>2. new(g) = Got(r, d, g[2])
    <3>1. d \in XDirs
      BY DEF Sides
    <3>2. (CHOOSE e \in XDirs : g[1] = GhostOf[e]) = d
      BY <2>1, <3>1, GhostSide
    <3>3. QED
      BY <3>2
  <2>3. QED
    BY <1>1, <2>1, <2>2
<1>3. vel' = [vel EXCEPT ![r] = [g \in Regions |-> IF ghost(g) THEN new(g) ELSE vel[r][g]]]
  BY DEF boundary_x
<1> HIDE DEF ghost, new
<1>4. /\ vel' \in [Ranks -> [Regions -> Int]]
      /\ \A q \in Ranks \ {r} : vel'[q] = vel[q]
      /\ \A g \in Regions : vel'[r][g] = IF ghost(g) THEN new(g) ELSE vel[r][g]
  BY <1>2, <1>3 DEF GridType
<1>5. ASSUME NEW g \in Regions, Part(r, g) \in Ranks
      PROVE  ghost(g) <=> g[1] # 0
  <2>1. ghost(g) => g[1] # 0
    BY GhostSide DEF ghost, Sides
  <2>2. ASSUME g[1] # 0 PROVE ghost(g)
    <3>1. PICK d \in XDirs : GhostOf[d] = g[1]
      BY <2>2, GhostSide, RegionFacts
    <3>2. Neighbour(r, d) = <<r[1] + g[1], r[2]>>
      BY <3>1, GhostSide, RankPair DEF Neighbour, Part
    <3>3. Neighbour(r, d) \in Ranks
      BY <1>5, <3>2, RankPair DEF Part, Ranks
    <3>4. QED
      BY <3>1, <3>3 DEF ghost, Sides, HasNeighbour
  <2>3. QED
    BY <2>1, <2>2
<1>6. Values(r)'
  <2> SUFFICES ASSUME NEW g \in Regions, Part(r, g) \in Ranks
               PROVE  /\ vel'[r][g] = VelAt(g, 4, cur_step[r])
                      /\ str'[r][g] = StrAt(4, cur_step[r])
    BY RanksUnchanged DEF Values
  <2>1. vel[r][g] = VelAt(g, 3, cur_step[r]) /\ str[r][g] = StrAt(3, cur_step[r]) /\ str' = str
    BY DEF Values, boundary_x
  <2>2. QED
    BY <1>2, <1>4, <1>5, <2>1, RegionFacts DEF VelAt, StrAt
<1>7. Prepared(r)'
  BY StripsUnchanged, NeighboursUnchanged DEF Prepared, Sides, boundary_x
<1>8. QED
  BY <1>4, <1>6, <1>7

(* The stress is computed of the regions that are in the grid, and where it  *)
(* is, the source is added if it is there.                                   *)
LEMMA StressWhere ==
    ASSUME GridType, NEW r \in Ranks, NEW g \in Regions, Part(r, g) \in Ranks
    PROVE  StressPoints(r, g) # {}
<1>1. /\ r = <<r[1], r[2]>> /\ r[1] \in 0 .. dim[1] - 1 /\ r[2] \in 0 .. dim[2] - 1
      /\ dim[1] \in Nat /\ dim[2] \in Nat
      /\ g[1] \in -1 .. 1 /\ g[2] \in -1 .. 1
  BY RankPair, RegionFacts
<1>2. r[1] + g[1] \in 0 .. dim[1] - 1 /\ r[2] + g[2] \in 0 .. dim[2] - 1
  BY DEF Part, Ranks
<1>3. /\ g[1] = -1 => HasNeighbour(r, "L")
      /\ g[1] = 1 => HasNeighbour(r, "R")
      /\ g[2] = -1 => HasNeighbour(r, "F")
      /\ g[2] = 1 => HasNeighbour(r, "B")
  BY <1>1, <1>2 DEF HasNeighbour, Neighbour, Part, Shift, Ranks
<1>4. nxt \in Nat /\ nxt >= 4 /\ nyt \in Nat /\ nyt >= 4
  BY HaloAssumption
<1>5. \E i : i \in Columns(r) \cap Span(g[1], nxt)
  <2>1. CASE g[1] = -1
    <3>1. 4 \in Columns(r) \cap Span(g[1], nxt)
      BY <1>3, <1>4, <2>1 DEF Columns, Span
    <3>2. QED
      BY <3>1
  <2>2. CASE g[1] = 0
    <3>1. 6 \in Columns(r) \cap Span(g[1], nxt)
      BY <1>4, <2>2 DEF Columns, Span
    <3>2. QED
      BY <3>1
  <2>3. CASE g[1] = 1
    <3>1. nxt + 6 \in Columns(r) \cap Span(g[1], nxt)
      BY <1>3, <1>4, <2>3 DEF Columns, Span
    <3>2. QED
      BY <3>1
  <2>4. QED
    BY <1>1, <2>1, <2>2, <2>3
<1>6. \E j : j \in Rows(r) \cap Span(g[2], nyt)
  <2>1. CASE g[2] = -1
    <3>1. 4 \in Rows(r) \cap Span(g[2], nyt)
      BY <1>3, <1>4, <2>1 DEF Rows, Span
    <3>2. QED
      BY <3>1
  <2>2. CASE g[2] = 0
    <3>1. 6 \in Rows(r) \cap Span(g[2], nyt)
      BY <1>4, <2>2 DEF Rows, Span
    <3>2. QED
      BY <3>1
  <2>3. CASE g[2] = 1
    <3>1. nyt + 6 \in Rows(r) \cap Span(g[2], nyt)
      BY <1>3, <1>4, <2>3 DEF Rows, Span
    <3>2. QED
      BY <3>1
  <2>4. QED
    BY <1>1, <2>1, <2>2, <2>3
<1>7. PICK i \in Columns(r) \cap Span(g[1], nxt), j \in Rows(r) \cap Span(g[2], nyt) : TRUE
  BY <1>5, <1>6
<1>8. <<Global(i, nxt, r[1]), Global(j, nyt, r[2])>> \in StressPoints(r, g)
  BY <1>7 DEF StressPoints
<1>9. QED
  BY <1>8

LEMMA SourceAdded ==
    ASSUME GridType, NEW r \in Ranks, NEW g \in Regions, src \in StressPoints(r, g)
    PROVE  AddsSource(r)
<1>1. nxt \in Nat /\ nyt \in Nat
  BY Sizes
<1>2. Columns(r) \subseteq 4 .. nxt + 7 /\ Rows(r) \subseteq 4 .. nyt + 7
  BY <1>1 DEF Columns, Rows
<1>3. PICK i \in 4 .. nxt + 7, j \in 4 .. nyt + 7 :
        src = <<Global(i, nxt, r[1]), Global(j, nyt, r[2])>>
  BY <1>2 DEF StressPoints
<1>4. nxt * r[1] \in Int /\ nyt * r[2] \in Int
  BY <1>1, RankPair
<1>5. QED
  BY <1>1, <1>3, <1>4 DEF AddsSource, Global

(* A point that needs a velocity above the surface that is not this rank's   *)
(* is in the row or the column that is computed last, next to the neighbour. *)
LEMMA GapsAtEdge ==
    ASSUME GridType, NEW r \in Ranks PROVE SurfaceGaps(r) \in SUBSET Edge
<1>1. /\ nxt \in Nat /\ nyt \in Nat
      /\ r = <<r[1], r[2]>> /\ r[1] \in 0 .. dim[1] - 1 /\ r[2] \in 0 .. dim[2] - 1
      /\ dim[1] \in Nat /\ dim[2] \in Nat
  BY RankPair, Sizes
<1>2. Columns(r) \subseteq Int /\ Rows(r) \subseteq Int
  BY <1>1 DEF Columns, Rows
<1>3. ~HasNeighbour(r, "F") => r[2] = 0
  BY <1>1 DEF HasNeighbour, Neighbour, Part, Shift, Ranks
<1>4. ~HasNeighbour(r, "R") => r[1] = dim[1] - 1
  BY <1>1 DEF HasNeighbour, Neighbour, Part, Shift, Ranks
<1> DEFINE points == Columns(r) \X Rows(r)
<1>5. ASSUME NEW i \in Columns(r), NEW j \in Rows(r),
             OnGrid(r, <<i, j - 1>>), <<i, j - 1>> \notin points
      PROVE  j = 4
  <2>1. Global(j - 1, nyt, r[2]) >= 1 /\ j - 1 \notin Rows(r)
    BY <1>1, <1>2, <1>5 DEF OnGrid
  <2>2. CASE HasNeighbour(r, "F")
    BY <1>1, <2>1, <2>2 DEF Rows
  <2>3. CASE ~HasNeighbour(r, "F")
    <3>1. j = 6
      BY <1>1, <2>1, <2>3 DEF Rows
    <3>2. nyt * r[2] = 0
      BY <1>1, <1>3, <2>3
    <3>3. QED
      BY <2>1, <3>1, <3>2 DEF Global
  <2>4. QED
    BY <2>2, <2>3
<1>6. ASSUME NEW i \in Columns(r), NEW j \in Rows(r),
             OnGrid(r, <<i + 1, j>>), <<i + 1, j>> \notin points
      PROVE  i = nxt + 7
  <2>1. Global(i + 1, nxt, r[1]) <= nxt * dim[1] /\ i + 1 \notin Columns(r)
    BY <1>1, <1>2, <1>6 DEF OnGrid
  <2>2. CASE HasNeighbour(r, "R")
    BY <1>1, <2>1, <2>2 DEF Columns
  <2>3. CASE ~HasNeighbour(r, "R")
    <3>1. i = nxt + 5
      BY <1>1, <2>1, <2>3 DEF Columns
    <3>2. nxt * r[1] = nxt * dim[1] - nxt /\ nxt * dim[1] \in Int
      BY <1>1, <1>4, <2>3
    <3>3. QED
      BY <1>1, <2>1, <3>1, <3>2 DEF Global
  <2>4. QED
    BY <2>2, <2>3
<1>7. QED
  BY <1>2, <1>5, <1>6 DEF SurfaceGaps, Edge

(* dstrqc_H, addsrc_H *)
LEMMA StressKeeps ==
    ASSUME GridType, NEW r \in Ranks, Values(r), Prepared(r), Done(r) = 4, stress(r),
           UNCHANGED <<dim, cur_step>>, Done(r)' = 5
    PROVE  /\ str' \in [Ranks -> [Regions -> Int]]
           /\ off' \in [Ranks -> SUBSET Edge]
           /\ \A q \in Ranks \ {r} : str'[q] = str[q]
           /\ Values(r)' /\ Prepared(r)'
<1> DEFINE ok(g) == /\ str[r][g] # Bad
                    /\ \A h \in Star(g) : Of(vel, r, h, str[r][g] + 1)
                    /\ src \in StressPoints(r, g) => AddsSource(r)
           new(g) == IF StressPoints(r, g) = {} THEN str[r][g]
                     ELSE IF ok(g) THEN str[r][g] + 1 ELSE Bad
<1>1. str' = [str EXCEPT ![r] = [g \in Regions |-> new(g)]]
  BY DEF stress
<1>2. \A g \in Regions : new(g) \in Int
  BY DEF GridType, Bad
<1>3. ASSUME NEW g \in Regions, Part(r, g) \in Ranks PROVE new(g) = cur_step[r]
  <2>1. str[r][g] = cur_step[r] - 1 /\ cur_step[r] \in Nat \ {0}
    BY <1>3 DEF Values, StrAt, GridType
  <2>2. \A h \in Regions : Part(r, h) \in Ranks => vel[r][h] = cur_step[r]
    BY RegionFacts DEF Values, VelAt
  <2>3. ok(g)
    BY <2>1, <2>2, RegionFacts, SourceAdded DEF Of, Outside, Bad
  <2>4. QED
    BY <1>3, <2>1, <2>3, StressWhere
<1> HIDE DEF new
<1>4. /\ str' \in [Ranks -> [Regions -> Int]]
      /\ \A q \in Ranks \ {r} : str'[q] = str[q]
      /\ \A g \in Regions : str'[r][g] = new(g)
  BY <1>1, <1>2 DEF GridType
<1>5. Values(r)'
  <2> SUFFICES ASSUME NEW g \in Regions, Part(r, g) \in Ranks
               PROVE  /\ vel'[r][g] = VelAt(g, 5, cur_step[r])
                      /\ str'[r][g] = StrAt(5, cur_step[r])
    BY RanksUnchanged DEF Values
  <2>1. vel[r][g] = VelAt(g, 4, cur_step[r]) /\ vel' = vel
    BY DEF Values, stress
  <2>2. QED
    BY <1>3, <1>4, <2>1, RegionFacts DEF VelAt, StrAt
<1>6. Prepared(r)'
  BY StripsUnchanged, NeighboursUnchanged DEF Prepared, Sides, stress
<1>7. off' \in [Ranks -> SUBSET Edge]
  BY GapsAtEdge DEF stress, GridType
<1>8. QED
  BY <1>4, <1>5, <1>6, <1>7

(* A step that moves no message leaves the links as they are. *)
LEMMA LinksUndisturbed ==
    ASSUME GInv, UNCHANGED <<dim, net, rbuf>>,
           \A q \in Ranks, e \in Dirs : HasNeighbour(q, e) =>
               /\ Sent(q, e)' = Sent(q, e)
               /\ Received(q, e)' = Received(q, e)
               /\ Received(q, e)' = cur_step'[q] => cur_step'[q] = cur_step[q]
    PROVE  \A q \in Ranks, e \in Dirs : Link(q, e)'
<1> SUFFICES ASSUME NEW r \in Ranks, NEW d \in Dirs, HasNeighbour(r, d)
             PROVE  Link(r, d)'
  BY NeighboursUnchanged DEF Link
<1> DEFINE s == Neighbour(r, d)
           e == Opposite[d]
<1>1. s \in Ranks /\ e \in Dirs /\ HasNeighbour(s, e)
  BY NeighbourBack DEF GInv, HasNeighbour
<1>2. Sent(s, e)' = Sent(s, e) /\ Received(r, d)' = Received(r, d)
  BY <1>1
<1>3. InTransit(r, d, s, e)
  BY DEF GInv, Link
<1>4. InTransit(r, d, s, e)'
  BY <1>2, <1>3, StripsUnchanged DEF InTransit
<1>5. ASSUME Received(r, d)' = cur_step'[r] PROVE IsStrip(rbuf[r][d], s, e, cur_step[r])'
  BY <1>2, <1>5, StripsUnchanged DEF GInv, Link
<1>6. QED
  BY <1>4, <1>5 DEF Link

(* Work of the GPU *)
LEMMA DeviceKeeps == ASSUME IInv, GInv, NEW r \in Ranks, Device(r) PROVE GInv'
<1>1. GridType /\ Values(r) /\ Prepared(r)
  BY DEF GInv
<1>2. /\ UNCHANGED <<dim, pc, cur_step, rbuf, sreq, rreq, net>>
      /\ Done(r)' = Done(r) + 1
      /\ \A q \in Ranks \ {r} : Done(q)' = Done(q)
  BY <1>1, KernelFrame
<1>3. \A q \in Ranks, d \in Dirs : Link(q, d)'
  BY <1>2, LinksUndisturbed DEF Sent, Received, Past
<1>4. ASSUME NEW d \in Sides(r, Dirs), Received(r, d) = cur_step[r]
      PROVE  IsStrip(rbuf[r][d], Neighbour(r, d), Opposite[d], cur_step[r])
  BY <1>4 DEF GInv, Link, Sides
<1> DEFINE typed == /\ vel \in [Ranks -> [Regions -> Int]]
                    /\ str \in [Ranks -> [Regions -> Int]]
                    /\ off \in [Ranks -> SUBSET Edge]
                    /\ DOMAIN sbuf = Ranks /\ \A q \in Ranks : DOMAIN sbuf[q] = Dirs
<1>t. typed
  BY <1>1 DEF GridType
<1>5. /\ vel' \in [Ranks -> [Regions -> Int]]
      /\ str' \in [Ranks -> [Regions -> Int]]
      /\ off' \in [Ranks -> SUBSET Edge]
      /\ DOMAIN sbuf' = Ranks /\ \A q \in Ranks : DOMAIN sbuf'[q] = Dirs
      /\ \A q \in Ranks \ {r} : vel'[q] = vel[q] /\ str'[q] = str[q] /\ sbuf'[q] = sbuf[q]
      /\ Values(r)' /\ Prepared(r)'
  <2>1. CASE Head(stream[r]) = "velocity_y" /\ velocity_y(r)
    <3>1. Done(r) = 0
      BY <2>1, WorkLeft DEF Device
    <3>2. UNCHANGED <<vel, str, off>>
      BY <2>1 DEF velocity_y
    <3>3. QED
      BY <1>1, <1>2, <1>t, <2>1, <3>1, <3>2, VelocityYKeeps
  <2>2. CASE Head(stream[r]) = "boundary_y" /\ boundary_y(r)
    <3>1. Done(r) = 1 /\ pc[r] = "sync_x"
      BY <2>2, WorkLeft DEF Device
    <3>2. UNCHANGED <<str, off, sbuf>>
      BY <2>2 DEF boundary_y
    <3>3. \A d \in Sides(r, YDirs) : d \in Sides(r, Dirs) /\ Received(r, d) = cur_step[r]
      BY <3>1 DEF Sides, Dirs, Received, Past, Started
    <3>4. QED
      BY <1>1, <1>2, <1>t, <1>4, <2>2, <3>1, <3>2, <3>3, BoundaryYKeeps
  <2>3. CASE Head(stream[r]) = "velocity_x" /\ velocity_x(r)
    <3>1. Done(r) = 2
      BY <2>3, WorkLeft DEF Device
    <3>2. UNCHANGED <<str, off>>
      BY <2>3 DEF velocity_x
    <3>3. QED
      BY <1>1, <1>2, <1>t, <2>3, <3>1, <3>2, VelocityXKeeps
  <2>4. CASE Head(stream[r]) = "boundary_x" /\ boundary_x(r)
    <3>1. Done(r) = 3 /\ pc[r] = "sync_end"
      BY <2>4, WorkLeft DEF Device
    <3>2. UNCHANGED <<str, off, sbuf>>
      BY <2>4 DEF boundary_x
    <3>3. \A d \in Sides(r, XDirs) : d \in Sides(r, Dirs) /\ Received(r, d) = cur_step[r]
      BY <3>1 DEF Sides, Dirs, Received, Past, Started
    <3>4. QED
      BY <1>1, <1>2, <1>t, <1>4, <2>4, <3>1, <3>2, <3>3, BoundaryXKeeps
  <2>5. CASE Head(stream[r]) = "stress" /\ stress(r)
    <3>1. Done(r) = 4
      BY <2>5, WorkLeft DEF Device
    <3>2. UNCHANGED <<vel, sbuf>>
      BY <2>5 DEF stress
    <3>3. QED
      BY <1>1, <1>2, <1>t, <2>5, <3>1, <3>2, StressKeeps
  <2>6. QED
    BY <2>1, <2>2, <2>3, <2>4, <2>5 DEF Device
<1>6. \A q \in Ranks \ {r} : Values(q)' /\ Prepared(q)'
  BY <1>2, <1>5, Undisturbed DEF GInv
<1>7. GridType'
  BY <1>1, <1>2, <1>5, RanksUnchanged DEF GridType
<1>8. QED
  BY <1>2, <1>3, <1>5, <1>6, <1>7, RanksUnchanged DEF GInv

(* A step of the host within a time step: no value changes, and no message   *)
(* moves.                                                                    *)
LEMMA HostKeeps ==
    ASSUME GInv, NEW r \in Ranks,
           UNCHANGED <<dim, cur_step, vel, str, off, sbuf, rbuf, net>>,
           \A q \in Ranks \ {r} : /\ pc'[q] = pc[q] /\ stream'[q] = stream[q]
                                  /\ sreq'[q] = sreq[q] /\ rreq'[q] = rreq[q],
           Done(r)' = Done(r),
           \A d \in Dirs : HasNeighbour(r, d) => Sent(r, d)' = Sent(r, d)
                                              /\ Received(r, d)' = Received(r, d)
    PROVE  GInv'
<1>1. \A q \in Ranks : Done(q)' = Done(q)
  BY DEF Done
<1>2. \A q \in Ranks, d \in Dirs : HasNeighbour(q, d) =>
          Sent(q, d)' = Sent(q, d) /\ Received(q, d)' = Received(q, d)
  BY DEF Sent, Received, Past
<1>3. \A q \in Ranks : Values(q)' /\ Prepared(q)'
  BY <1>1, Undisturbed DEF GInv
<1>4. \A q \in Ranks, d \in Dirs : Link(q, d)'
  BY <1>2, LinksUndisturbed
<1>5. GridType'
  BY RanksUnchanged DEF GInv, GridType
<1>6. QED
  BY <1>3, <1>4, <1>5, RanksUnchanged DEF GInv

LEMMA PostKeeps == ASSUME IInv, GInv, NEW r \in Ranks, Post(r) PROVE GInv'
<1>1. /\ UNCHANGED <<dim, cur_step, vel, str, off, sbuf, rbuf, sreq, net>>
      /\ pc[r] = "post" /\ pc'[r] = "sync_y"
      /\ \A q \in Ranks \ {r} : pc'[q] = pc[q] /\ stream'[q] = stream[q] /\ rreq'[q] = rreq[q]
      /\ stream'[r] = stream[r] \o <<"velocity_y">>
      /\ \A d \in Dirs : rreq'[r][d] \in {"pending", rreq[r][d]}
  BY DEF Post, Goto, Requests, deviceVars, IInv, HostType
<1>2. stream[r] = <<>> /\ \A d \in Dirs : rreq[r][d] = "none"
  BY <1>1 DEF IInv, StreamAt, RequestsAt, Dirs
<1>3. Done(r)' = Done(r)
  <2>1. stream'[r] = <<"velocity_y">>
    BY <1>1, <1>2, FirstWork DEF Work
  <2>2. QED
    BY <1>1, <1>2, <2>1 DEF Done, Started
<1>4. \A d \in Dirs : Sent(r, d)' = Sent(r, d) /\ Received(r, d)' = Received(r, d)
  BY <1>1, <1>2 DEF Sent, Received, Past, Started
<1>5. QED
  BY <1>1, <1>3, <1>4, HostKeeps

LEMMA SendKeeps == ASSUME IInv, GInv, NEW r \in Ranks, SendY(r) \/ SendX(r) PROVE GInv'
<1>1. /\ UNCHANGED <<dim, cur_step, vel, str, off, sbuf, rbuf, rreq, net, stream>>
      /\ \/ pc[r] = "sync_y" /\ pc'[r] = "wait_y"
         \/ pc[r] = "sync_x" /\ pc'[r] = "wait_x"
      /\ \A q \in Ranks \ {r} : pc'[q] = pc[q] /\ sreq'[q] = sreq[q]
      /\ \A d \in Dirs : sreq'[r][d] \in {"pending", sreq[r][d]}
  BY DEF SendY, SendX, Goto, Requests, deviceVars, IInv, HostType
<1>2. \A d \in Dirs : sreq[r][d] = "none"
  BY <1>1 DEF IInv, RequestsAt, Dirs
<1>3. Started[pc'[r]] = Started[pc[r]]
  BY <1>1 DEF Started
<1>4. Done(r)' = Done(r)
  BY <1>1, <1>3 DEF Done
<1>5. \A d \in Dirs : Sent(r, d)' = Sent(r, d) /\ Received(r, d)' = Received(r, d)
  BY <1>1, <1>2, <1>3 DEF Sent, Received, Past
<1>6. QED
  BY <1>1, <1>4, <1>5, HostKeeps

(* With a wait over, the step's message has gone in these directions and has *)
(* come from them.                                                           *)
LEMMA WaitKeeps == ASSUME IInv, GInv, NEW r \in Ranks, WaitY(r) \/ WaitX(r) PROVE GInv'
<1> DEFINE ds == IF pc[r] = "wait_y" THEN YDirs ELSE XDirs
<1>1. /\ UNCHANGED <<dim, cur_step, vel, str, off, sbuf, rbuf, net>>
      /\ \/ /\ pc[r] = "wait_y" /\ pc'[r] = "sync_x"
            /\ stream' = [stream EXCEPT ![r] = stream[r] \o <<"boundary_y", "velocity_x">>]
         \/ /\ pc[r] = "wait_x" /\ pc'[r] = "sync_end"
            /\ stream' = [stream EXCEPT ![r] = stream[r] \o <<"boundary_x", "stress">>]
      /\ sreq' = Requests(sreq, r, ds, "none") /\ rreq' = Requests(rreq, r, ds, "none")
      /\ Completed(sreq, r, ds) /\ Completed(rreq, r, ds)
      /\ \A q \in Ranks \ {r} : pc'[q] = pc[q]
  BY DEF WaitY, WaitX, Goto, deviceVars, IInv, HostType
<1>2. /\ \A q \in Ranks \ {r} : sreq'[q] = sreq[q] /\ rreq'[q] = rreq[q] /\ stream'[q] = stream[q]
      /\ \A d \in Dirs \ ds : sreq'[r][d] = sreq[r][d] /\ rreq'[r][d] = rreq[r][d]
      /\ \A d \in Dirs : HasNeighbour(r, d) /\ d \in ds => sreq[r][d] = "done" /\ rreq[r][d] = "done"
  BY <1>1 DEF Requests, Completed, Sides, IInv, HostType
<1>3. Done(r)' = Done(r)
  <2>1. stream[r] = <<>>
    BY <1>1 DEF IInv, StreamAt
  <2>2. Len(stream'[r]) = 2
    <3>1. \/ stream'[r] = <<"boundary_y", "velocity_x">>
          \/ stream'[r] = <<"boundary_x", "stress">>
      BY <1>1, <2>1, FirstWork DEF Work, IInv, HostType
    <3>2. \A a, b : Len(<<a, b>>) = 2
      OBVIOUS
    <3>3. QED
      BY <3>1, <3>2
  <2>3. Len(stream[r]) = 0 /\ Started[pc'[r]] = Started[pc[r]] + 2 /\ Started[pc[r]] \in Int
    BY <1>1, <2>1 DEF Started
  <2>4. QED
    BY <2>2, <2>3 DEF Done
<1>4. \A d \in Dirs : HasNeighbour(r, d) => /\ Sent(r, d)' = Sent(r, d)
                                            /\ Received(r, d)' = Received(r, d)
  <2> SUFFICES ASSUME NEW d \in Dirs, HasNeighbour(r, d)
               PROVE  Sent(r, d)' = Sent(r, d) /\ Received(r, d)' = Received(r, d)
    OBVIOUS
  <2>1. CASE d \in ds
    <3>1. Past(r, d)'
      BY <1>1, <2>1 DEF Past, Started, XDirs, YDirs
    <3>2. QED
      BY <1>1, <1>2, <2>1, <3>1 DEF Sent, Received
  <2>2. CASE d \notin ds
    <3>1. Past(r, d)' = Past(r, d)
      BY <1>1, <2>2 DEF Past, Started, Dirs, XDirs, YDirs
    <3>2. QED
      BY <1>1, <1>2, <2>2, <3>1 DEF Sent, Received
  <2>3. QED
    BY <2>1, <2>2
<1>5. QED
  BY <1>1, <1>2, <1>3, <1>4, HostKeeps

(* The end of a time step: before the last step's file is written ...        *)
LEMMA OpenKeeps ==
    ASSUME IInv, GInv, NEW r \in Ranks, pc[r] = "sync_end", stream[r] = <<>>, Goto(r, "open"),
           UNCHANGED <<dim, cur_step, vel, str, off, sbuf, rbuf, net, stream, sreq, rreq>>
    PROVE  GInv'
<1>1. pc'[r] = "open" /\ \A q \in Ranks \ {r} : pc'[q] = pc[q]
  BY DEF Goto, IInv, HostType
<1>2. Started[pc'[r]] = Started[pc[r]]
  BY <1>1 DEF Started
<1>3. QED
  BY <1>1, <1>2, HostKeeps DEF Done, Sent, Received, Past

(* ... and on to the next step: what was of this step is of the last one.    *)
LEMMA NextStepKeeps ==
    ASSUME IInv, GInv, NEW r \in Ranks, pc[r] \in {"sync_end", "open"}, stream[r] = <<>>,
           NextStep(r),
           UNCHANGED <<dim, vel, str, off, sbuf, rbuf, net, stream, sreq, rreq>>
    PROVE  GInv'
<1>1. /\ pc'[r] \in {"post", "done"} /\ cur_step'[r] = cur_step[r] + 1
      /\ cur_step' \in [Ranks -> Nat \ {0}]
      /\ \A q \in Ranks \ {r} : pc'[q] = pc[q] /\ cur_step'[q] = cur_step[q]
      /\ cur_step[r] \in Nat
  BY DEF NextStep, Goto, IInv, HostType, GInv, GridType
<1>2. /\ Started[pc[r]] = 5 /\ Started[pc'[r]] = 0
      /\ Done(r) = 5 /\ Done(r)' = 0
      /\ \A q \in Ranks \ {r} : Done(q)' = Done(q)
  BY <1>1 DEF Started, Done
<1>3. \A q \in Ranks \ {r} : Values(q)' /\ Prepared(q)'
  BY <1>1, <1>2, Undisturbed DEF GInv
<1>4. Values(r)'
  <2> SUFFICES ASSUME NEW g \in Regions, Part(r, g) \in Ranks
               PROVE  /\ vel[r][g] = VelAt(g, 0, cur_step[r] + 1)
                      /\ str[r][g] = StrAt(0, cur_step[r] + 1)
    BY <1>1, <1>2, RanksUnchanged DEF Values
  <2>1. vel[r][g] = VelAt(g, 5, cur_step[r]) /\ str[r][g] = StrAt(5, cur_step[r])
    BY <1>2 DEF GInv, Values
  <2>2. QED
    BY <1>1, <2>1, RegionFacts DEF VelAt, StrAt
<1>5. Prepared(r)'
  BY <1>2 DEF Prepared
<1>6. ASSUME NEW q \in Ranks, NEW e \in Dirs
      PROVE  /\ Sent(q, e)' = Sent(q, e)
             /\ Received(q, e)' = Received(q, e)
             /\ Received(q, e)' = cur_step'[q] => cur_step'[q] = cur_step[q]
  <2>1. CASE q = r
    <3>1. Past(r, e) /\ ~Past(r, e)' /\ sreq[r][e] = "none" /\ rreq[r][e] = "none"
      BY <1>2 DEF Past, IInv, RequestsAt, Dirs
    <3>2. QED
      BY <1>1, <2>1, <3>1 DEF Sent, Received
  <2>2. CASE q # r
    BY <1>1, <2>2 DEF Sent, Received, Past
  <2>3. QED
    BY <2>1, <2>2
<1>7. \A q \in Ranks, e \in Dirs : Link(q, e)'
  BY <1>6, LinksUndisturbed
<1>8. GridType'
  BY <1>1, RanksUnchanged DEF GInv, GridType
<1>9. QED
  BY <1>3, <1>4, <1>5, <1>7, <1>8, RanksUnchanged DEF GInv

(* MPI takes the strip that has been made, behind those already on their way *)
LEMMA TakeKeeps ==
    ASSUME IInv, GInv, NEW r \in Ranks, NEW d \in Dirs, Take(r, d) PROVE GInv'
<1> DEFINE q == net[r][d]
           x == sbuf[r][d]
           Some == [org : Int, v : UNION {[StripRows(e) -> Int] : e \in Dirs}]
<1>1. /\ UNCHANGED <<dim, pc, cur_step, stream, vel, str, off, sbuf, rbuf, rreq>>
      /\ sreq[r][d] = "pending"
      /\ \A p \in Ranks, e \in Dirs : <<p, e>> # <<r, d>> => /\ sreq'[p][e] = sreq[p][e]
                                                             /\ net'[p][e] = net[p][e]
      /\ sreq'[r][d] = "done" /\ net'[r][d] = Append(q, x)
      /\ net' = [net EXCEPT ![r][d] = Append(q, x)]
  BY DEF Take, deviceVars, IInv, HostType, GInv, GridType
<1>2. /\ HasNeighbour(r, d)
      /\ pc[r] = IF d \in YDirs THEN "wait_y" ELSE "wait_x"
  BY <1>1 DEF IInv, RequestsAt, Dirs
<1>3. Sent(r, d) = cur_step[r] - 1 /\ Sent(r, d)' = cur_step[r]
  BY <1>1, <1>2 DEF Sent, Past, Started
<1>4. IsStrip(x, r, d, cur_step[r])
  <2>1. stream[r] = <<>>
    BY <1>2 DEF IInv, StreamAt
  <2>2. Done(r) = IF d \in YDirs THEN 1 ELSE 3
    BY <1>2, <2>1, WorkLeft DEF Started
  <2>3. QED
    BY <1>2, <2>2 DEF GInv, Prepared, Sides, Dirs
<1>5. x \in Some /\ q \in Seq(Some)
  BY <1>4 DEF IsStrip, GInv, GridType
<1>6. /\ Append(q, x) \in Seq(Some) /\ Len(Append(q, x)) = Len(q) + 1 /\ Len(q) \in Nat
      /\ \A j \in 1 .. Len(q) : Append(q, x)[j] = q[j]
      /\ Append(q, x)[Len(q) + 1] = x
  BY <1>5, AppendProperties
<1> HIDE DEF q, x, Some
<1>7. \A p \in Ranks, e \in Dirs : /\ Received(p, e)' = Received(p, e)
                                   /\ <<p, e>> # <<r, d>> => Sent(p, e)' = Sent(p, e)
  BY <1>1 DEF Sent, Received, Past
<1>8. ASSUME NEW p \in Ranks, NEW e \in Dirs, HasNeighbour(p, e) PROVE Link(p, e)'
  <2>1. Neighbour(p, e) \in Ranks /\ Opposite[e] \in Dirs
    BY <1>8, NeighbourBack DEF HasNeighbour, GInv
  <2>2. InTransit(p, e, Neighbour(p, e), Opposite[e])
    BY <1>8 DEF GInv, Link
  <2>3. CASE Neighbour(p, e) = r /\ Opposite[e] = d
    <3>1. Len(q) = Sent(r, d) - Received(p, e)
          /\ \A j \in 1 .. Len(q) : IsStrip(q[j], r, d, Received(p, e) + j)
      BY <2>2, <2>3 DEF InTransit, q
    <3>2. Received(p, e) \in Int /\ cur_step[r] \in Int
      BY DEF Received, GInv, GridType
    <3>3. Len(Append(q, x)) = cur_step[r] - Received(p, e)
      BY <1>3, <1>6, <3>1, <3>2
    <3>4. ASSUME NEW j \in 1 .. Len(Append(q, x))
          PROVE  IsStrip(Append(q, x)[j], r, d, Received(p, e) + j)
      <4>1. CASE j \in 1 .. Len(q)
        BY <1>6, <3>1, <4>1
      <4>2. CASE j = Len(q) + 1
        <5>1. Received(p, e) + j = cur_step[r] /\ Append(q, x)[j] = x
          BY <1>3, <1>6, <3>1, <3>2, <4>2
        <5>2. QED
          BY <1>4, <5>1
      <4>3. QED
        BY <1>6, <4>1, <4>2
    <3>5. InTransit(p, e, r, d)'
      BY <1>1, <1>3, <1>7, <3>3, <3>4, StripsUnchanged DEF InTransit
    <3>6. QED
      BY <1>1, <1>7, <1>8, <2>3, <3>5, StripsUnchanged DEF GInv, Link
  <2>4. CASE ~(Neighbour(p, e) = r /\ Opposite[e] = d)
    <3>1. /\ net'[Neighbour(p, e)][Opposite[e]] = net[Neighbour(p, e)][Opposite[e]]
          /\ Sent(Neighbour(p, e), Opposite[e])' = Sent(Neighbour(p, e), Opposite[e])
      BY <1>1, <1>7, <2>1, <2>4
    <3>2. InTransit(p, e, Neighbour(p, e), Opposite[e])'
      BY <1>1, <1>7, <2>2, <3>1, StripsUnchanged DEF InTransit
    <3>3. QED
      BY <1>1, <1>7, <1>8, <3>2, StripsUnchanged DEF GInv, Link
  <2>5. QED
    BY <2>3, <2>4
<1>9. \A p \in Ranks, e \in Dirs : Link(p, e)'
  BY <1>1, <1>8, NeighboursUnchanged DEF Link
<1>10. \A p \in Ranks : Values(p)' /\ Prepared(p)'
  BY <1>1, Undisturbed DEF GInv, Done
<1>11. GridType'
  BY <1>1, <1>6, RanksUnchanged DEF GInv, GridType, Some
<1>12. QED
  BY <1>1, <1>9, <1>10, <1>11, RanksUnchanged DEF GInv

(* MPI delivers the oldest strip on its way, that of the receiver's step.    *)
LEMMA DeliverKeeps ==
    ASSUME IInv, GInv, NEW r \in Ranks, NEW d \in Dirs, Deliver(r, d) PROVE GInv'
<1> DEFINE s == Neighbour(r, d)
           f == Opposite[d]
           q == net[s][f]
           Some == [org : Int, v : UNION {[StripRows(e) -> Int] : e \in Dirs}]
<1>1. HasNeighbour(r, d) /\ ~Past(r, d)
  BY DEF Deliver, IInv, HostType, RequestsAt, Past, Started, Dirs
<1>2. s \in Ranks /\ f \in Dirs
  BY <1>1, NeighbourBack DEF HasNeighbour, GInv
<1>3. /\ UNCHANGED <<dim, pc, cur_step, stream, vel, str, off, sbuf, sreq>>
      /\ rreq[r][d] = "pending" /\ q # <<>>
      /\ \A p \in Ranks, e \in Dirs : <<p, e>> # <<r, d>> => /\ rreq'[p][e] = rreq[p][e]
                                                             /\ rbuf'[p][e] = rbuf[p][e]
      /\ \A p \in Ranks, e \in Dirs : <<p, e>> # <<s, f>> => net'[p][e] = net[p][e]
      /\ rreq'[r][d] = "done" /\ rbuf'[r][d] = Head(q) /\ net'[s][f] = Tail(q)
      /\ net' = [net EXCEPT ![s][f] = Tail(q)]
      /\ DOMAIN rbuf' = Ranks /\ \A p \in Ranks : DOMAIN rbuf'[p] = Dirs
  BY <1>2 DEF Deliver, deviceVars, IInv, HostType, GInv, GridType
<1>4. Received(r, d) = cur_step[r] - 1 /\ Received(r, d)' = cur_step[r]
  BY <1>1, <1>3 DEF Received, Past
<1>5. q \in Seq(Some)
  BY <1>2 DEF GInv, GridType
<1>6. /\ Tail(q) \in Seq(Some) /\ Len(Tail(q)) = Len(q) - 1 /\ Len(q) \in Nat \ {0}
      /\ Head(q) = q[1]
      /\ \A j \in 1 .. Len(q) - 1 : Tail(q)[j] = q[j + 1]
  BY <1>3, <1>5, HeadTailProperties
<1>7. /\ Len(q) = Sent(s, f) - Received(r, d)
      /\ \A j \in 1 .. Len(q) : IsStrip(q[j], s, f, Received(r, d) + j)
  BY <1>1 DEF GInv, Link, InTransit
<1>8. cur_step[r] \in Int /\ Sent(s, f) \in Int
  BY <1>2 DEF Sent, GInv, GridType
<1>9. \A p \in Ranks, e \in Dirs : /\ Sent(p, e)' = Sent(p, e)
                                   /\ <<p, e>> # <<r, d>> => Received(p, e)' = Received(p, e)
  BY <1>3 DEF Sent, Received, Past
<1> HIDE DEF q, Some
<1>10. Link(r, d)'
  <2>1. Len(Tail(q)) = Sent(s, f) - cur_step[r]
    BY <1>4, <1>6, <1>7, <1>8
  <2>2. \A j \in 1 .. Len(Tail(q)) : IsStrip(Tail(q)[j], s, f, cur_step[r] + j)
    <3> SUFFICES ASSUME NEW j \in 1 .. Len(Tail(q)) PROVE IsStrip(Tail(q)[j], s, f, cur_step[r] + j)
      OBVIOUS
    <3>1. j + 1 \in 1 .. Len(q) /\ Tail(q)[j] = q[j + 1]
      BY <1>6
    <3>2. Received(r, d) + (j + 1) = cur_step[r] + j
      BY <1>4, <1>6, <1>8
    <3>3. QED
      BY <1>7, <3>1, <3>2
  <2>3. IsStrip(Head(q), s, f, cur_step[r])
    <3>1. 1 \in 1 .. Len(q) /\ Received(r, d) + 1 = cur_step[r]
      BY <1>4, <1>6, <1>8
    <3>2. QED
      BY <1>6, <1>7, <3>1
  <2>4. InTransit(r, d, s, f)'
    BY <1>2, <1>3, <1>4, <1>9, <2>1, <2>2, StripsUnchanged DEF InTransit
  <2>5. QED
    BY <1>3, <2>3, <2>4, StripsUnchanged DEF Link
<1>11. ASSUME NEW p \in Ranks, NEW e \in Dirs, HasNeighbour(p, e), <<p, e>> # <<r, d>>
       PROVE  Link(p, e)'
  <2>1. Neighbour(p, e) \in Ranks /\ Opposite[e] \in Dirs
    BY <1>11, NeighbourBack DEF HasNeighbour, GInv
  <2>2. <<Neighbour(p, e), Opposite[e]>> # <<s, f>>
    BY <1>11, NeighbourBack DEF GInv
  <2>3. /\ net'[Neighbour(p, e)][Opposite[e]] = net[Neighbour(p, e)][Opposite[e]]
        /\ Sent(Neighbour(p, e), Opposite[e])' = Sent(Neighbour(p, e), Opposite[e])
        /\ Received(p, e)' = Received(p, e) /\ rbuf'[p][e] = rbuf[p][e]
    BY <1>3, <1>9, <1>11, <2>1, <2>2
  <2>4. InTransit(p, e, Neighbour(p, e), Opposite[e])
    BY <1>11 DEF GInv, Link
  <2>5. InTransit(p, e, Neighbour(p, e), Opposite[e])'
    BY <1>3, <2>3, <2>4, StripsUnchanged DEF InTransit
  <2>6. QED
    BY <1>3, <1>11, <2>3, <2>5, StripsUnchanged DEF GInv, Link
<1>12. \A p \in Ranks, e \in Dirs : Link(p, e)'
  BY <1>3, <1>10, <1>11, NeighboursUnchanged DEF Link
<1>13. \A p \in Ranks : Values(p)' /\ Prepared(p)'
  BY <1>3, Undisturbed DEF GInv, Done
<1>14. GridType'
  BY <1>3, <1>6, RanksUnchanged DEF GInv, GridType, Some
<1>15. QED
  BY <1>3, <1>12, <1>13, <1>14, RanksUnchanged DEF GInv

LEMMA InitGrid == Init => GInv
<1> SUFFICES ASSUME Init PROVE GInv
  OBVIOUS
<1>1. GridType
  BY EmptySeq DEF Init, GridType
<1>2. ASSUME NEW r \in Ranks PROVE Values(r) /\ Prepared(r)
  <2>1. Done(r) = 0 /\ cur_step[r] = 1
    BY <1>2 DEF Init, Done, Started
  <2>2. QED
    BY <1>2, <2>1 DEF Init, Values, Prepared, VelAt, StrAt
<1>3. ASSUME NEW r \in Ranks, NEW d \in Dirs, HasNeighbour(r, d) PROVE Link(r, d)
  <2>1. Neighbour(r, d) \in Ranks /\ Opposite[d] \in Dirs
    BY <1>1, <1>3, NeighbourBack DEF HasNeighbour
  <2>2. \A q \in Ranks, e \in Dirs : Sent(q, e) = 0 /\ Received(q, e) = 0
    BY DEF Init, Sent, Received, Past, Started
  <2>3. net[Neighbour(r, d)][Opposite[d]] = <<>> /\ cur_step[r] = 1
    BY <2>1 DEF Init
  <2>4. InTransit(r, d, Neighbour(r, d), Opposite[d])
    BY <2>1, <2>2, <2>3 DEF InTransit
  <2>5. QED
    BY <2>2, <2>3, <2>4 DEF Link
<1>4. QED
  BY <1>1, <1>2, <1>3 DEF GInv, Link

LEMMA EndKeeps == ASSUME IInv, GInv, NEW r \in Ranks, EndStep(r) \/ WriteFile(r) PROVE GInv'
<1>1. /\ pc[r] \in {"sync_end", "open"} /\ stream[r] = <<>>
      /\ UNCHANGED <<dim, vel, str, off, sbuf, rbuf, net, stream, sreq, rreq>>
  BY DEF EndStep, WriteFile, IInv, StreamAt, deviceVars, mpiVars
<1>2. \/ NextStep(r)
      \/ pc[r] = "sync_end" /\ Goto(r, "open") /\ UNCHANGED cur_step
  BY DEF EndStep, WriteFile
<1>3. QED
  BY <1>1, <1>2, NextStepKeeps, OpenKeeps

LEMMA StepGrid == IInv /\ GInv /\ [Next]_vars => GInv'
<1> SUFFICES ASSUME IInv, GInv, [Next]_vars PROVE GInv'
  OBVIOUS
<1>1. CASE UNCHANGED vars
  <2>1. UNCHANGED <<dim, pc, cur_step, stream, vel, str, off, sbuf, rbuf, sreq, rreq, net>>
    BY <1>1 DEF vars, deviceVars, mpiVars
  <2>2. \A q \in Ranks : Values(q)' /\ Prepared(q)'
    BY <2>1, Undisturbed DEF GInv, Done
  <2>3. \A q \in Ranks, e \in Dirs : Link(q, e)'
    BY <2>1, LinksUndisturbed DEF Sent, Received, Past
  <2>4. GridType'
    BY <2>1, RanksUnchanged DEF GInv, GridType
  <2>5. QED
    BY <2>1, <2>2, <2>3, <2>4, RanksUnchanged DEF GInv
<1>2. ASSUME NEW r \in Ranks, Host(r) PROVE GInv'
  BY <1>2, PostKeeps, SendKeeps, WaitKeeps, EndKeeps DEF Host
<1>3. ASSUME NEW r \in Ranks, NEW d \in Dirs, Message(r, d) PROVE GInv'
  BY <1>3, TakeKeeps, DeliverKeeps DEF Message
<1>4. QED
  BY <1>1, <1>2, <1>3, DeviceKeeps DEF Next

LEMMA GridExact == IInv /\ GInv => DecompositionExact
<1> SUFFICES ASSUME IInv, GInv, NEW r \in Ranks, pc[r] \in {"post", "open", "done"}
             PROVE  LET n == IF pc[r] = "open" THEN cur_step[r] ELSE cur_step[r] - 1
                    IN  /\ Of(vel, r, Own, n) /\ \A g \in Regions : Of(str, r, g, n)
                        /\ \A p \in off[r] : p[2] = 4 \/ p[1] = nxt + 7
  BY DEF DecompositionExact
<1> DEFINE n == IF pc[r] = "open" THEN cur_step[r] ELSE cur_step[r] - 1
<1>1. Done(r) = IF pc[r] = "open" THEN 5 ELSE 0
  BY WorkLeft
<1>2. \A g \in Regions : Part(r, g) \in Ranks => vel[r][g] = n /\ str[r][g] = n
  BY <1>1, RegionFacts DEF GInv, Values, VelAt, StrAt
<1>3. \A p \in off[r] : p[2] = 4 \/ p[1] = nxt + 7
  BY DEF GInv, GridType, Edge
<1>4. QED
  BY <1>2, <1>3, RegionFacts DEF Of, Outside

(* After each step a rank has the velocity of its part, and the stress of    *)
(* its part and two rows and columns around it, that a grid which is not     *)
(* divided would have: the exchange of columns after that of rows, the       *)
(* stress computed beyond the part and the source added there leave no point *)
(* of another step or another place, however far ahead a neighbour is        *)
(* (pmcl3d.c 841-961).  The exception is the normal stress at the surface,   *)
(* for which dstrqc needs a velocity above it that is not exchanged: it may  *)
(* differ in the front ghost row and the right ghost column computed last,   *)
(* and from these no velocity is computed.                                   *)
THEOREM Exact == SafeSpec => []DecompositionExact
<1>1. Init => IInv /\ GInv
  BY InitInvariant, InitGrid
<1>2. (IInv /\ GInv) /\ [Next]_vars => (IInv /\ GInv)'
  BY StepInvariant, StepGrid
<1>3. QED
  BY <1>1, <1>2, GridExact, PTL DEF SafeSpec
-----------------------------------------------------------------------------
(* The files.  Of the samples a rank has taken, those after the last full    *)
(* file are in sgtBuf, in their order; when a file is due, all of its are.   *)
Finished(r) == IF pc[r] = "open" THEN cur_step[r] ELSE cur_step[r] - 1
Taken(r) == Finished(r) \div NTISKP_SGT

Buffered(r) == sgtproc(r) =>
    /\ pc[r] # "open" => \A k \in 0 .. WRITE_STEP - 1 : k < Taken(r) % WRITE_STEP =>
           sgtBuf[r][k] = (Taken(r) - (Taken(r) % WRITE_STEP) + k + 1) * NTISKP_SGT
    /\ pc[r] = "open" =>
           /\ cur_step[r] = NTISKP_SGT * Taken(r) /\ Taken(r) % WRITE_STEP = 0
           /\ \A k \in 0 .. WRITE_STEP - 1 :
                  sgtBuf[r][k] = (Taken(r) - WRITE_STEP + k + 1) * NTISKP_SGT

Filed(r) == sgtproc(r) =>
    /\ {f.step : f \in files[r]} = {n \in 1 .. cur_step[r] - 1 : n % (NTISKP_SGT * WRITE_STEP) = 0}
    /\ \A f \in files[r], k \in 0 .. WRITE_STEP - 1 :
           f.samples[k] = f.step - (WRITE_STEP - 1 - k) * NTISKP_SGT

Steps(r) == IF pc[r] = "done" THEN cur_step[r] = nt + 1 ELSE cur_step[r] \in 1 .. nt

OutType == /\ sgtBuf \in [Ranks -> [0 .. WRITE_STEP - 1 -> Int]]
           /\ files \in [Ranks -> SUBSET [step : Nat, samples : [0 .. WRITE_STEP - 1 -> Int]]]

FInv == OutType /\ \A r \in Ranks : Buffered(r) /\ Filed(r) /\ Steps(r)
-----------------------------------------------------------------------------
LEMMA Division ==
    ASSUME NEW n \in Nat, NEW t \in Nat \ {0}
    PROVE  n \div t \in Nat /\ n % t \in 0 .. t - 1 /\ n = t * (n \div t) + (n % t)
  OBVIOUS

LEMMA DivisionUnique ==
    ASSUME NEW n \in Nat, NEW t \in Nat \ {0}, NEW q \in Nat, NEW s \in 0 .. t - 1, n = t * q + s
    PROVE  n \div t = q /\ n % t = s
<1> DEFINE d == n \div t
           e == n % t
<1>1. d \in Nat /\ e \in 0 .. t - 1 /\ n = t * d + e
  BY Division
<1> HIDE DEF d, e
<1>2. ASSUME NEW a \in Nat, NEW b \in Nat, a < b PROVE t * b >= t * a + t
  <2> DEFINE z == b - a - 1
  <2>1. z \in Nat /\ b = a + 1 + z
    BY <1>2
  <2> HIDE DEF z
  <2>2. t * b = t * a + t + t * z /\ t * z \in Nat /\ t * a \in Nat
    BY <2>1
  <2>3. QED
    BY <2>2
<1>3. t * d \in Nat /\ t * q \in Nat
  BY <1>1
<1>4. ~(d < q)
  BY <1>1, <1>2, <1>3
<1>5. ~(q < d)
  BY <1>1, <1>2, <1>3
<1>6. d = q
  BY <1>1, <1>4, <1>5
<1>7. e = s
  BY <1>1, <1>3, <1>6
<1>8. QED
  BY <1>6, <1>7 DEF d, e

(* The quotient goes up by one when the remainder comes back to zero. *)
LEMMA NextDivision ==
    ASSUME NEW n \in Nat, NEW t \in Nat \ {0}
    PROVE  /\ (n + 1) % t = 0 <=> n % t = t - 1
           /\ (n + 1) % t = 0 => (n + 1) \div t = n \div t + 1 /\ n + 1 = t * (n \div t + 1)
           /\ (n + 1) % t # 0 => (n + 1) \div t = n \div t /\ (n + 1) % t = (n % t) + 1
<1> DEFINE d == n \div t
           e == n % t
<1>1. d \in Nat /\ e \in 0 .. t - 1 /\ n = t * d + e
  BY Division
<1> HIDE DEF d, e
<1>2. t * (d + 1) = t * d + t /\ t * d \in Nat
  BY <1>1
<1>3. CASE e = t - 1
  <2>1. n + 1 = t * (d + 1) + 0 /\ d + 1 \in Nat /\ 0 \in 0 .. t - 1
    BY <1>1, <1>2, <1>3
  <2>2. (n + 1) \div t = d + 1 /\ (n + 1) % t = 0
    BY <2>1, DivisionUnique
  <2>3. QED
    BY <1>3, <2>1, <2>2 DEF d, e
<1>4. CASE e # t - 1
  <2>1. n + 1 = t * d + (e + 1) /\ e + 1 \in 0 .. t - 1
    BY <1>1, <1>2, <1>4
  <2>2. (n + 1) \div t = d /\ (n + 1) % t = e + 1
    BY <1>1, <2>1, DivisionUnique
  <2>3. QED
    BY <1>1, <1>4, <2>2 DEF d, e
<1>5. QED
  BY <1>3, <1>4

(* A multiple of a product is a multiple of a multiple. *)
LEMMA MultipleOfBoth ==
    ASSUME NEW n \in Nat, NEW t \in Nat \ {0}, NEW w \in Nat \ {0}
    PROVE  /\ t * w \in Nat \ {0}
           /\ n % (t * w) = 0 <=> n % t = 0 /\ (n \div t) % w = 0
<1>1. t * w \in Nat \ {0}
  <2> DEFINE z == w - 1
  <2>1. z \in Nat /\ w = z + 1
    OBVIOUS
  <2> HIDE DEF z
  <2>2. t * w = t * z + t /\ t * z \in Nat
    BY <2>1
  <2>3. QED
    BY <2>2
<1>2. ASSUME n % (t * w) = 0 PROVE n % t = 0 /\ (n \div t) % w = 0
  <2> DEFINE p == t * w
             d == n \div p
  <2>0. p \in Nat \ {0} /\ p = t * w /\ n % p = 0
    BY <1>1, <1>2
  <2> HIDE DEF p
  <2>1a. d \in Nat /\ n % p \in 0 .. p - 1 /\ n = p * d + (n % p)
    <3>1. p \in Nat \ {0}
      BY <2>0
    <3>2. QED
      BY <3>1, Division
  <2> HIDE DEF d
  <2>1b. n = p * d
    BY <2>0, <2>1a
  <2>1. d \in Nat /\ n = (t * w) * d
    BY <2>0, <2>1a, <2>1b
  <2>2. w * d \in Nat /\ n = t * (w * d) + 0 /\ 0 \in 0 .. t - 1 /\ 0 \in 0 .. w - 1
    BY <2>1
  <2>3. n \div t = w * d /\ n % t = 0
    BY <2>2, DivisionUnique
  <2>4. n \div t \in Nat /\ n \div t = w * d + 0
    BY <2>2, <2>3
  <2>5. (n \div t) % w = 0
    <3> DEFINE c == n \div t
    <3>1. c \in Nat /\ c = w * d + 0 /\ 0 \in 0 .. w - 1
      BY <2>2, <2>4
    <3> HIDE DEF c
    <3>2. c % w = 0
      BY <2>1, <3>1, DivisionUnique
    <3>3. QED
      BY <3>2 DEF c
  <2>6. QED
    BY <2>3, <2>5
<1>3. ASSUME n % t = 0, (n \div t) % w = 0 PROVE n % (t * w) = 0
  <2> DEFINE d == n \div t
             c == d \div w
  <2>1. d \in Nat /\ n = t * d
    BY <1>3, Division
  <2>2. c \in Nat /\ d = w * c
    BY <1>3, <2>1, Division
  <2> HIDE DEF d, c
  <2>3. n = (t * w) * c + 0 /\ 0 \in 0 .. (t * w) - 1
    BY <1>1, <2>1, <2>2
  <2>4. QED
    BY <1>1, <2>2, <2>3, DivisionUnique
<1>4. QED
  BY <1>1, <1>2, <1>3

(* What is new with step n, if it is one of those that are sampled *)
LEMMA SampledStep ==
    ASSUME NEW c \in Nat \ {0}, NEW m, m = (c - 1) \div NTISKP_SGT
    PROVE  /\ m \in Nat /\ m % WRITE_STEP \in 0 .. WRITE_STEP - 1
           /\ c % NTISKP_SGT # 0 => c \div NTISKP_SGT = m
           /\ c % NTISKP_SGT = 0 =>
                 /\ c \div NTISKP_SGT = m + 1 /\ c = NTISKP_SGT * (m + 1)
                 /\ Slot(c) = m % WRITE_STEP
                 /\ (m + 1) % WRITE_STEP = 0 => m % WRITE_STEP = WRITE_STEP - 1
                 /\ (m + 1) % WRITE_STEP # 0 => (m + 1) % WRITE_STEP = (m % WRITE_STEP) + 1
           /\ c % (NTISKP_SGT * WRITE_STEP) = 0
                 <=> c % NTISKP_SGT = 0 /\ (c \div NTISKP_SGT) % WRITE_STEP = 0
<1> DEFINE n == c - 1
<1>1. n \in Nat /\ c = n + 1 /\ m = n \div NTISKP_SGT
  OBVIOUS
<1> HIDE DEF n
<1>2. m \in Nat
  BY <1>1, Sizes, Division
<1>3. m % WRITE_STEP \in 0 .. WRITE_STEP - 1
  BY <1>2, Sizes, Division
<1>4. /\ c % NTISKP_SGT = 0 => c \div NTISKP_SGT = m + 1 /\ c = NTISKP_SGT * (m + 1)
      /\ c % NTISKP_SGT # 0 => c \div NTISKP_SGT = m
  <2>1. /\ (n + 1) % NTISKP_SGT = 0 =>
               /\ (n + 1) \div NTISKP_SGT = n \div NTISKP_SGT + 1
               /\ n + 1 = NTISKP_SGT * (n \div NTISKP_SGT + 1)
        /\ (n + 1) % NTISKP_SGT # 0 => (n + 1) \div NTISKP_SGT = n \div NTISKP_SGT
    BY <1>1, Sizes, NextDivision
  <2>2. QED
    BY <1>1, <2>1, Zenon
<1>5. c % NTISKP_SGT = 0 => Slot(c) = m % WRITE_STEP
  <2> SUFFICES ASSUME c % NTISKP_SGT = 0 PROVE Slot(c) = m % WRITE_STEP
    OBVIOUS
  <2>1. c \div NTISKP_SGT - 1 = m
    BY <1>2, <1>4
  <2>2. QED
    BY <2>1 DEF Slot
<1>6. /\ (m + 1) % WRITE_STEP = 0 => m % WRITE_STEP = WRITE_STEP - 1
      /\ (m + 1) % WRITE_STEP # 0 => (m + 1) % WRITE_STEP = (m % WRITE_STEP) + 1
  BY <1>2, Sizes, NextDivision
<1>7. c % (NTISKP_SGT * WRITE_STEP) = 0
         <=> c % NTISKP_SGT = 0 /\ (c \div NTISKP_SGT) % WRITE_STEP = 0
  <2>1. c \in Nat /\ NTISKP_SGT \in Nat \ {0} /\ WRITE_STEP \in Nat \ {0}
    BY <1>1, Sizes
  <2>2. QED
    BY <2>1, MultipleOfBoth, Zenon
<1>8. QED
  BY <1>2, <1>3, <1>4, <1>5, <1>6, <1>7

LEMMA OutputKept ==
    ASSUME NEW q, cur_step'[q] = cur_step[q], sgtBuf'[q] = sgtBuf[q], files'[q] = files[q],
           pc'[q] = "open" <=> pc[q] = "open", pc'[q] = "done" <=> pc[q] = "done"
    PROVE  Buffered(q) /\ Filed(q) /\ Steps(q) => Buffered(q)' /\ Filed(q)' /\ Steps(q)'
<1>1. Finished(q)' = Finished(q)
  BY DEF Finished
<1>2. Taken(q)' = Taken(q)
  BY <1>1 DEF Taken
<1>3. Buffered(q) => Buffered(q)'
  BY <1>2 DEF Buffered
<1>4. Filed(q) => Filed(q)'
  BY DEF Filed
<1>5. Steps(q) => Steps(q)'
  BY DEF Steps
<1>6. QED
  BY <1>3, <1>4, <1>5

LEMMA OutputUndisturbed ==
    ASSUME FInv, UNCHANGED <<dim, cur_step, sgtBuf, files>>,
           \A q \in Ranks : /\ pc'[q] = "open" <=> pc[q] = "open"
                            /\ pc'[q] = "done" <=> pc[q] = "done"
    PROVE  FInv'
<1>1. \A q \in Ranks : Buffered(q)' /\ Filed(q)' /\ Steps(q)'
  BY OutputKept DEF FInv
<1>2. OutType'
  BY RanksUnchanged DEF FInv, OutType
<1>3. QED
  BY <1>1, <1>2, RanksUnchanged DEF FInv

(* The loop does not go beyond its last step. *)
LEMMA NextSteps ==
    ASSUME IInv, GInv, NEW r \in Ranks, pc[r] # "done", Steps(r), NextStep(r)
    PROVE  /\ Steps(r)' /\ pc'[r] \in {"post", "done"} /\ cur_step'[r] = cur_step[r] + 1
           /\ \A q \in Ranks \ {r} : pc'[q] = pc[q] /\ cur_step'[q] = cur_step[q]
  BY Sizes DEF Steps, NextStep, Goto, IInv, HostType, GInv, GridType

(* At the end of a step the sample goes behind those of the same file.       *)
LEMMA EndFiles == ASSUME IInv, GInv, FInv, NEW r \in Ranks, EndStep(r) PROVE FInv'
<1> DEFINE m == (cur_step[r] - 1) \div NTISKP_SGT
           Val(k) == (m - (m % WRITE_STEP) + k + 1) * NTISKP_SGT
<1>1. /\ pc[r] = "sync_end" /\ stream[r] = <<>> /\ UNCHANGED <<dim, files>>
      /\ sgtBuf' = IF Sampled(r) THEN [sgtBuf EXCEPT ![r][Slot(cur_step[r])] = str[r][Own]]
                                 ELSE sgtBuf
      /\ IF FileDue(r) THEN Goto(r, "open") /\ UNCHANGED cur_step ELSE NextStep(r)
  BY DEF EndStep, deviceVars, mpiVars
<1>2. cur_step[r] \in Nat \ {0} /\ m = (cur_step[r] - 1) \div NTISKP_SGT
  BY DEF GInv, GridType
<1> HIDE DEF m
<1>3. str[r][Own] = cur_step[r]
  <2>1. Done(r) = 5
    BY <1>1, WorkLeft DEF Started
  <2>2. Part(r, Own) \in Ranks /\ Own \in Regions
    BY OwnPart DEF GInv, Own, Regions
  <2>3. QED
    BY <2>1, <2>2 DEF GInv, Values, StrAt
<1>4. Steps(r) /\ Buffered(r) /\ Filed(r) /\ OutType
  BY DEF FInv
<1>5. Taken(r) = m
  BY <1>1 DEF Finished, Taken, m
<1>6. /\ m \in Nat /\ m % WRITE_STEP \in 0 .. WRITE_STEP - 1
      /\ cur_step[r] % NTISKP_SGT # 0 => cur_step[r] \div NTISKP_SGT = m
      /\ cur_step[r] % NTISKP_SGT = 0 =>
            /\ cur_step[r] \div NTISKP_SGT = m + 1 /\ cur_step[r] = NTISKP_SGT * (m + 1)
            /\ Slot(cur_step[r]) = m % WRITE_STEP
            /\ (m + 1) % WRITE_STEP = 0 => m % WRITE_STEP = WRITE_STEP - 1
            /\ (m + 1) % WRITE_STEP # 0 => (m + 1) % WRITE_STEP = (m % WRITE_STEP) + 1
      /\ cur_step[r] % (NTISKP_SGT * WRITE_STEP) = 0
            <=> cur_step[r] % NTISKP_SGT = 0 /\ (cur_step[r] \div NTISKP_SGT) % WRITE_STEP = 0
  BY <1>2, SampledStep
<1>7. sgtproc(r) => \A k \in 0 .. WRITE_STEP - 1 : k < m % WRITE_STEP => sgtBuf[r][k] = Val(k)
  BY <1>1, <1>4, <1>5 DEF Buffered
<1>8. ASSUME Sampled(r)
      PROVE  \A k \in 0 .. WRITE_STEP - 1 : k <= m % WRITE_STEP => sgtBuf'[r][k] = Val(k)
  <2>1. sgtproc(r) /\ cur_step[r] % NTISKP_SGT = 0
    BY <1>8 DEF Sampled
  <2>2. /\ sgtBuf'[r][m % WRITE_STEP] = cur_step[r]
        /\ \A k \in 0 .. WRITE_STEP - 1 : k # m % WRITE_STEP => sgtBuf'[r][k] = sgtBuf[r][k]
    BY <1>1, <1>3, <1>4, <1>6, <1>8, <2>1 DEF OutType
  <2>3. Val(m % WRITE_STEP) = cur_step[r]
    <3>1. m - (m % WRITE_STEP) + (m % WRITE_STEP) + 1 = m + 1
      BY <1>6
    <3>2. QED
      BY <1>6, <2>1, <3>1, Sizes
  <2>4. QED
    BY <1>6, <1>7, <2>1, <2>2, <2>3
<1> HIDE DEF Val
<1>9. OutType'
  BY <1>1, <1>2, <1>3, <1>4, <1>6, RanksUnchanged DEF OutType, Sampled
<1>10. sgtBuf' = [sgtBuf EXCEPT ![r] = sgtBuf'[r]] /\ \A q \in Ranks \ {r} : sgtBuf'[q] = sgtBuf[q]
  BY <1>1, <1>4 DEF OutType
<1>11. CASE FileDue(r)
  <2>1. /\ Sampled(r) /\ cur_step' = cur_step /\ pc'[r] = "open"
        /\ \A q \in Ranks \ {r} : pc'[q] = pc[q]
    BY <1>1, <1>11 DEF FileDue, Goto, IInv, HostType
  <2>2. cur_step[r] % NTISKP_SGT = 0 /\ (m + 1) % WRITE_STEP = 0
    BY <1>6, <1>11, <2>1 DEF FileDue, Sampled
  <2>3. Taken(r)' = m + 1
    BY <1>6, <2>1, <2>2 DEF Taken, Finished
  <2>4. Buffered(r)'
    <3>1. ASSUME NEW k \in 0 .. WRITE_STEP - 1
          PROVE  sgtBuf'[r][k] = (m + 1 - WRITE_STEP + k + 1) * NTISKP_SGT
      <4>1. m % WRITE_STEP = WRITE_STEP - 1
        BY <1>6, <2>2
      <4>2. sgtBuf'[r][k] = Val(k)
        BY <1>8, <2>1, <4>1, Sizes
      <4>3. m - (m % WRITE_STEP) + k + 1 = m + 1 - WRITE_STEP + k + 1
        BY <1>6, <4>1, Sizes
      <4>4. QED
        BY <4>2, <4>3 DEF Val
    <3>2. cur_step'[r] = NTISKP_SGT * Taken(r)' /\ Taken(r)' % WRITE_STEP = 0
      BY <1>6, <2>1, <2>2, <2>3
    <3>3. \A k \in 0 .. WRITE_STEP - 1 :
              sgtBuf'[r][k] = (Taken(r)' - WRITE_STEP + k + 1) * NTISKP_SGT
      BY <1>6, <2>3, <3>1, Sizes
    <3>4. QED
      BY <2>1, <3>2, <3>3 DEF Buffered
  <2>5. Filed(r)'
    BY <1>1, <1>4, <2>1 DEF Filed
  <2>6. Steps(r)'
    BY <1>1, <1>4, <2>1 DEF Steps
  <2>7. \A q \in Ranks \ {r} : Buffered(q)' /\ Filed(q)' /\ Steps(q)'
    BY <1>1, <1>10, <2>1, OutputKept DEF FInv
  <2>8. QED
    BY <1>1, <1>9, <2>4, <2>5, <2>6, <2>7, RanksUnchanged DEF FInv
<1>12. CASE ~FileDue(r)
  <2>1. /\ Steps(r)' /\ pc'[r] \in {"post", "done"} /\ cur_step'[r] = cur_step[r] + 1
        /\ \A q \in Ranks \ {r} : pc'[q] = pc[q] /\ cur_step'[q] = cur_step[q]
    BY <1>1, <1>4, <1>12, NextSteps
  <2>2. Taken(r)' = cur_step[r] \div NTISKP_SGT
    <3>1. Finished(r)' = cur_step[r]
      BY <1>2, <2>1 DEF Finished
    <3>2. QED
      BY <3>1 DEF Taken
  <2>3. ASSUME sgtproc(r)
        PROVE  \A k \in 0 .. WRITE_STEP - 1 : k < Taken(r)' % WRITE_STEP =>
                   sgtBuf'[r][k] = (Taken(r)' - (Taken(r)' % WRITE_STEP) + k + 1) * NTISKP_SGT
    <3>1. CASE cur_step[r] % NTISKP_SGT = 0
      <4>1. Sampled(r) /\ Taken(r)' = m + 1 /\ (m + 1) % WRITE_STEP # 0
        BY <1>6, <1>12, <2>2, <2>3, <3>1 DEF Sampled, FileDue
      <4>2. Taken(r)' % WRITE_STEP = (m % WRITE_STEP) + 1
        BY <1>6, <3>1, <4>1
      <4>3. Taken(r)' - (Taken(r)' % WRITE_STEP) = m - (m % WRITE_STEP)
        BY <1>6, <4>1, <4>2
      <4>4. QED
        BY <1>6, <1>8, <4>1, <4>2, <4>3 DEF Val
    <3>2. CASE cur_step[r] % NTISKP_SGT # 0
      <4>1. ~Sampled(r) /\ Taken(r)' = m /\ sgtBuf' = sgtBuf
        BY <1>1, <1>6, <2>2, <3>2 DEF Sampled
      <4>2. QED
        BY <1>7, <2>3, <4>1 DEF Val
    <3>3. QED
      BY <3>1, <3>2
  <2>4. Buffered(r)'
    BY <2>1, <2>3 DEF Buffered
  <2>5. Filed(r)'
    <3> SUFFICES ASSUME sgtproc(r)
                 PROVE  {i \in 1 .. cur_step'[r] - 1 : i % (NTISKP_SGT * WRITE_STEP) = 0}
                        = {i \in 1 .. cur_step[r] - 1 : i % (NTISKP_SGT * WRITE_STEP) = 0}
      BY <1>1, <1>4 DEF Filed
    <3>1. cur_step[r] % (NTISKP_SGT * WRITE_STEP) # 0
      BY <1>6, <1>12 DEF FileDue, Sampled
    <3>2. \A i : i \in 1 .. cur_step'[r] - 1
                   <=> i \in 1 .. cur_step[r] - 1 \/ i = cur_step[r]
      BY <1>2, <2>1
    <3>3. QED
      BY <3>1, <3>2
  <2>6. \A q \in Ranks \ {r} : Buffered(q)' /\ Filed(q)' /\ Steps(q)'
    BY <1>1, <1>10, <2>1, OutputKept DEF FInv
  <2>7. QED
    BY <1>1, <1>9, <2>1, <2>4, <2>5, <2>6, RanksUnchanged DEF FInv
<1>13. QED
  BY <1>11, <1>12

(* A file gets the whole of sgtBuf, under the name of the step it is due in. *)
LEMMA WriteFiles == ASSUME IInv, GInv, FInv, NEW r \in Ranks, WriteFile(r) PROVE FInv'
<1> DEFINE f == [step |-> cur_step[r], samples |-> sgtBuf[r]]
           Due(c) == {i \in 1 .. c : i % (NTISKP_SGT * WRITE_STEP) = 0}
<1>1. /\ pc[r] = "open" /\ UNCHANGED <<dim, sgtBuf>> /\ NextStep(r)
      /\ files' = [files EXCEPT ![r] = @ \cup {f}]
  BY DEF WriteFile
<1>2. Steps(r) /\ Buffered(r) /\ Filed(r) /\ OutType /\ cur_step[r] \in Nat \ {0}
  BY DEF FInv, GInv, GridType
<1>3. /\ Steps(r)' /\ pc'[r] \in {"post", "done"} /\ cur_step'[r] = cur_step[r] + 1
      /\ \A q \in Ranks \ {r} : pc'[q] = pc[q] /\ cur_step'[q] = cur_step[q]
  BY <1>1, <1>2, NextSteps
<1>4. files'[r] = files[r] \cup {f} /\ \A q \in Ranks \ {r} : files'[q] = files[q]
  BY <1>1, <1>2 DEF OutType
<1>5. f \in [step : Nat, samples : [0 .. WRITE_STEP - 1 -> Int]]
  BY <1>2 DEF OutType
<1> HIDE DEF f
<1>6. f.step = cur_step[r] /\ f.samples = sgtBuf[r]
  BY DEF f
<1>7. Taken(r) = cur_step[r] \div NTISKP_SGT /\ Taken(r)' = Taken(r) /\ Taken(r) \in Nat
  <2>1. Finished(r) = cur_step[r] /\ Finished(r)' = cur_step[r]
    BY <1>1, <1>2, <1>3 DEF Finished
  <2>2. QED
    BY <1>2, <2>1, Sizes, Division DEF Taken
<1>8. ASSUME sgtproc(r)
      PROVE  /\ cur_step[r] = NTISKP_SGT * Taken(r) /\ Taken(r) % WRITE_STEP = 0
             /\ \A k \in 0 .. WRITE_STEP - 1 :
                    sgtBuf[r][k] = (Taken(r) - WRITE_STEP + k + 1) * NTISKP_SGT
  BY <1>1, <1>2, <1>8 DEF Buffered
<1>9. Buffered(r)'
  BY <1>3, <1>7, <1>8 DEF Buffered
<1>10. ASSUME sgtproc(r), NEW k \in 0 .. WRITE_STEP - 1
       PROVE  f.samples[k] = f.step - (WRITE_STEP - 1 - k) * NTISKP_SGT
  <2> DEFINE a == Taken(r)
             b == WRITE_STEP - 1 - k
  <2>1. a \in Nat /\ b \in Nat /\ a - WRITE_STEP + k + 1 = a - b
    BY <1>7, Sizes
  <2>2. f.samples[k] = (a - b) * NTISKP_SGT /\ f.step = NTISKP_SGT * a
    BY <1>6, <1>8, <1>10, <2>1
  <2> HIDE DEF a, b
  <2>3. (a - b) * NTISKP_SGT = NTISKP_SGT * a - b * NTISKP_SGT
    BY <2>1, Sizes
  <2>4. QED
    BY <2>2, <2>3 DEF b
<1>11. ASSUME sgtproc(r) PROVE Due(cur_step'[r] - 1) = Due(cur_step[r] - 1) \cup {cur_step[r]}
  <2>1. cur_step[r] % NTISKP_SGT = 0 /\ (cur_step[r] \div NTISKP_SGT) % WRITE_STEP = 0
    <3>1. cur_step[r] = NTISKP_SGT * Taken(r) + 0 /\ 0 \in 0 .. NTISKP_SGT - 1
      BY <1>7, <1>8, <1>11, Sizes
    <3>2. cur_step[r] % NTISKP_SGT = 0
      BY <1>2, <1>7, <3>1, Sizes, DivisionUnique
    <3>3. QED
      BY <1>7, <1>8, <1>11, <3>2
  <2>2. cur_step[r] % (NTISKP_SGT * WRITE_STEP) = 0
    BY <1>2, <2>1, Sizes, MultipleOfBoth
  <2>3. \A i : i \in 1 .. cur_step'[r] - 1 <=> i \in 1 .. cur_step[r] - 1 \/ i = cur_step[r]
    BY <1>2, <1>3
  <2>4. QED
    BY <2>2, <2>3
<1>12. Filed(r)'
  <2> SUFFICES ASSUME sgtproc(r)
               PROVE  /\ {g.step : g \in files'[r]} = Due(cur_step'[r] - 1)
                      /\ \A g \in files'[r], k \in 0 .. WRITE_STEP - 1 :
                             g.samples[k] = g.step - (WRITE_STEP - 1 - k) * NTISKP_SGT
    BY DEF Filed
  <2>1. {g.step : g \in files[r]} = Due(cur_step[r] - 1)
    BY <1>2 DEF Filed
  <2>2. {g.step : g \in files'[r]} = {g.step : g \in files[r]} \cup {f.step}
    BY <1>4
  <2>3. \A g \in files[r], k \in 0 .. WRITE_STEP - 1 :
            g.samples[k] = g.step - (WRITE_STEP - 1 - k) * NTISKP_SGT
    BY <1>2 DEF Filed
  <2> HIDE DEF Due
  <2>4. QED
    BY <1>4, <1>6, <1>10, <1>11, <2>1, <2>2, <2>3
<1>13. \A q \in Ranks \ {r} : Buffered(q)' /\ Filed(q)' /\ Steps(q)'
  BY <1>1, <1>3, <1>4, OutputKept DEF FInv
<1>14. OutType'
  BY <1>1, <1>2, <1>5, RanksUnchanged DEF OutType
<1>15. QED
  BY <1>1, <1>3, <1>9, <1>12, <1>13, <1>14, RanksUnchanged DEF FInv

LEMMA InitFiles == Init => FInv
<1> SUFFICES ASSUME Init PROVE FInv
  OBVIOUS
<1>1. OutType
  BY DEF Init, OutType
<1>2. ASSUME NEW r \in Ranks PROVE Buffered(r) /\ Filed(r) /\ Steps(r)
  <2>1. pc[r] = "post" /\ cur_step[r] = 1 /\ files[r] = {}
    BY <1>2 DEF Init
  <2>2. Steps(r)
    BY <2>1, Sizes DEF Steps
  <2>3. Filed(r)
    BY <2>1 DEF Filed
  <2>4. Taken(r) = 0 /\ Taken(r) % WRITE_STEP = 0
    <3>1. 0 = NTISKP_SGT * 0 + 0 /\ 0 \in 0 .. NTISKP_SGT - 1
      BY Sizes
    <3>2. 0 = WRITE_STEP * 0 + 0 /\ 0 \in 0 .. WRITE_STEP - 1
      BY Sizes
    <3>3. 0 \div NTISKP_SGT = 0 /\ 0 % WRITE_STEP = 0
      BY <3>1, <3>2, Sizes, DivisionUnique
    <3>4. QED
      BY <2>1, <3>3 DEF Taken, Finished
  <2>5. Buffered(r)
    BY <2>1, <2>4 DEF Buffered
  <2>6. QED
    BY <2>2, <2>3, <2>5
<1>3. QED
  BY <1>1, <1>2 DEF FInv

LEMMA StepFiles == IInv /\ GInv /\ FInv /\ [Next]_vars => FInv'
<1> SUFFICES ASSUME IInv, GInv, FInv, [Next]_vars PROVE FInv'
  OBVIOUS
<1>1. CASE UNCHANGED vars
  BY <1>1, OutputUndisturbed DEF vars, outVars
<1>2. ASSUME NEW r \in Ranks, Post(r) \/ SendY(r) \/ WaitY(r) \/ SendX(r) \/ WaitX(r) PROVE FInv'
  <2>1. UNCHANGED <<dim, cur_step, sgtBuf, files>>
    BY <1>2 DEF Post, SendY, WaitY, SendX, WaitX, outVars
  <2>2. \E l \in {"sync_y", "wait_y", "sync_x", "wait_x", "sync_end"} : Goto(r, l)
    BY <1>2 DEF Post, SendY, WaitY, SendX, WaitX
  <2>3. pc[r] \notin {"open", "done"}
    BY <1>2 DEF Post, SendY, WaitY, SendX, WaitX
  <2>4. \A q \in Ranks : /\ pc'[q] = "open" <=> pc[q] = "open"
                         /\ pc'[q] = "done" <=> pc[q] = "done"
    BY <2>2, <2>3 DEF Goto, IInv, HostType
  <2>5. QED
    BY <2>1, <2>4, OutputUndisturbed
<1>3. ASSUME NEW r \in Ranks, Device(r) \/ \E d \in Dirs : Message(r, d) PROVE FInv'
  BY <1>3, OutputUndisturbed DEF Device, Message, Take, Deliver, outVars
<1>4. QED
  BY <1>1, <1>2, <1>3, EndFiles, WriteFiles DEF Next, Host

LEMMA FilesWhole == FInv => FilesComplete
<1> SUFFICES ASSUME FInv, NEW r \in Ranks, sgtproc(r), pc[r] = "done"
             PROVE  {f.step : f \in files[r]}
                    = {n \in 1 .. nt : n % (NTISKP_SGT * WRITE_STEP) = 0}
  BY DEF FInv, Filed, FilesComplete
<1>1. cur_step[r] - 1 = nt
  BY Sizes DEF FInv, Steps
<1>2. QED
  BY <1>1 DEF FInv, Filed

(* Every file holds WRITE_STEP samples, one after the other, the last of the *)
(* step in its name, and at the end of the loop there is one for every       *)
(* NTISKP_SGT * WRITE_STEP steps: none is missed or written twice            *)
(* (pmcl3d.c 905-954).                                                       *)
THEOREM FilesWritten == SafeSpec => []FilesComplete
<1>1. Init => IInv /\ GInv /\ FInv
  BY InitInvariant, InitGrid, InitFiles
<1>2. (IInv /\ GInv /\ FInv) /\ [Next]_vars => (IInv /\ GInv /\ FInv)'
  BY StepInvariant, StepGrid, StepFiles
<1>3. QED
  BY <1>1, <1>2, FilesWhole, PTL DEF SafeSpec
=============================================================================
