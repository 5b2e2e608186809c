------------------------------ MODULE Startup ------------------------------
(***************************************************************************)
(* DirectSynth from the start of the ranks on: the broadcasts from the     *)
(* master every rank takes part in, the SGT headers sent to the handlers   *)
(* on their own communicator, the collective read of the SGT files, and    *)
(* the list of ruptures the task manager sends to the master.  A rank      *)
(* enters the part DirectSynth models when its own start is over, while    *)
(* others may still be starting: a worker may ask for work, and ask a      *)
(* handler for SGTs, before these are read.                                *)
(***************************************************************************)
EXTENDS DirectSynth

VARIABLES
    bcasts,     \* bcasts[p]: broadcasts rank p has entered and left
    headers,    \* headers[h]: header messages from the master on sgt_handler_comm
    headed,     \* headed[h]: components whose headers handler h has received
    readin,     \* readin[h]: components handler h has entered the read of
    sent,       \* header messages the master has sent
    tuples,     \* what it has received of the list of ruptures
    told        \* what the task manager has sent of it

startVars == <<bcasts, headers, headed, readin, sent, tuples, told>>
suVars == <<dsVars, startVars>>

Ranks == Servers \cup Workers \cup {TaskManagerId}

suInit == /\ dsInit
          /\ bcasts = [p \in Ranks |-> 0]
          /\ headers = [h \in Handlers |-> <<>>]
          /\ headed = [h \in Handlers |-> 0]
          /\ readin = [h \in Handlers |-> 0]
          /\ sent = 0
          /\ tuples = 0
          /\ told = 0

(* check_bcast.  The root may leave as soon as MPI has buffered its data or  *)
(* only when every rank is there; the others leave after the root has come.  *)
NumBcasts_ManagerSkips(p) == IF p = TaskManagerId THEN 2 ELSE 3
NumBcasts(p) == 3      \* sgtmast, sgtindx, proc_points

Waiting(p) == bcasts[p] < NumBcasts(p)

BroadcastRoot ==
    /\ Waiting(Master)
    /\ \/ "BCAST" \in mode.buffered
       \/ \A p \in Ranks \ {Master} : Waiting(p) /\ bcasts[p] = bcasts[Master]
    /\ bcasts' = [bcasts EXCEPT ![Master] = @ + 1]
    /\ UNCHANGED <<dsVars, headers, headed, readin, sent, tuples, told>>

Broadcast(p) == /\ Waiting(p)
                /\ bcasts[p] < bcasts[Master]
                /\ bcasts' = [bcasts EXCEPT ![p] = @ + 1]
                /\ UNCHANGED <<dsVars, headers, headed, readin, sent, tuples, told>>

(* send_header_data: every component's headers, to one handler after another *)
HeadersTaken == \A h \in Handlers : headers[h] # <<>> => "SGT_HEADER_DATA" \in mode.buffered

SendHeaders == /\ ~Waiting(Master)
               /\ sent < NumComps * NumHandlers
               /\ HeadersTaken
               /\ headers' = [headers EXCEPT ![(sent % NumHandlers) + 1] =
                                  Append(@, (sent \div NumHandlers) + 1)]
               /\ sent' = sent + 1
               /\ UNCHANGED <<dsVars, bcasts, headed, readin, tuples, told>>

(* get_SGT_data: the headers, then readSGT_MPI for each component, which no  *)
(* handler leaves before all have entered it                                 *)
ReceiveHeaders(h) == /\ ~Waiting(h)
                     /\ headed[h] < NumComps
                     /\ headers[h] # <<>>
                     /\ headers' = [headers EXCEPT ![h] = Tail(@)]
                     /\ headed' = [headed EXCEPT ![h] = @ + 1]
                     /\ UNCHANGED <<dsVars, bcasts, readin, sent, tuples, told>>

ReadEntered(c) == \A h \in Handlers : readin[h] >= c

ReadSGT(h) == /\ headed[h] = NumComps
              /\ readin[h] < NumComps
              /\ ReadEntered(readin[h])
              /\ readin' = [readin EXCEPT ![h] = @ + 1]
              /\ UNCHANGED <<dsVars, bcasts, headers, headed, sent, tuples, told>>

(* The end of parse_rupture_list, and the master's side of it *)
SendTuples == /\ ~Waiting(TaskManagerId)
              /\ told < 2
              /\ Send(TaskManagerId, Master,
                      Msg(IF told = 0 THEN "NUM_RUPTURES" ELSE "VARIATION_INFO", NoTask, 0))
              /\ told' = told + 1
              /\ UNCHANGED <<vars, mode, netVars, bcasts, headers, headed, readin, sent, tuples>>

TupleMessages_CountOnly == 1
TupleMessages == 2

ReceiveTuples == /\ sent = NumComps * NumHandlers
                 /\ HeadersTaken
                 /\ tuples < TupleMessages
                 /\ MasterTake(TaskManagerId,
                               IF tuples = 0 THEN "NUM_RUPTURES_TAG" ELSE "VARIATION_INFO_TAG")
                 /\ tuples' = tuples + 1
                 /\ UNCHANGED <<vars, mode, workerVars, handlerVars, mpc, msrc, notified,
                                bcasts, headers, headed, readin, sent, told>>
-----------------------------------------------------------------------------
(* A rank behaves as in DirectSynth once its own start is over. *)
Started(A, ready) == ready /\ A /\ UNCHANGED startVars

HandlerReady(h) == readin[h] = NumComps /\ ReadEntered(NumComps)
ManagerReady == told = 2 /\ Unblocked(TaskManagerId)

suMaster == \/ BroadcastRoot \/ SendHeaders \/ ReceiveTuples
            \/ Started(dsMaster, tuples = TupleMessages)
suManager == \/ Broadcast(TaskManagerId) \/ SendTuples
             \/ Started(dsManager, ManagerReady)
suHandler(h) == \/ Broadcast(h) \/ ReceiveHeaders(h) \/ ReadSGT(h)
                \/ Started(dsHandler(h), HandlerReady(h))
suWorker(w) == \/ Broadcast(w)
               \/ Started(dsWorker(w), ~Waiting(w))

suNext == \/ suMaster \/ suManager
          \/ \E h \in Handlers : suHandler(h)
          \/ \E w \in Workers : suWorker(w)

suSafeSpec == suInit /\ [][suNext]_suVars

suSpec == /\ suSafeSpec
          /\ WF_suVars(suMaster) /\ WF_suVars(suManager)
          /\ \A h \in Handlers : WF_suVars(suHandler(h))
          /\ \A w \in Workers : WF_suVars(suWorker(w))
=============================================================================
