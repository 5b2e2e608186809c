---------------------------- MODULE DirectSynth ----------------------------
(***************************************************************************)
(* The whole job: TaskManager's manager and workers, the SGT handlers      *)
(* (ranks 1..N-1, sgt_handler.c) the workers ask for Green's tensors, and  *)
(* the master (rank 0, master.c) they send results to, with the messages   *)
(* between them.  run_synth, one action in TaskManager, is here a sequence *)
(* of blocking MPI calls.                                                  *)
(*                                                                         *)
(* chan[<<a, b>>] holds the messages sent by a and not yet received by b,  *)
(* in order: MPI keeps the order of messages between two processes that    *)
(* one receive could match.  MPI_Send may return once MPI has buffered the *)
(* message, or only when it is received: messages of a kind in buffered    *)
(* let the sender go on, after any other it waits.                         *)
(***************************************************************************)
EXTENDS TaskManager, SequencesExt, FiniteSetsExt

CONSTANTS
    NumHandlers,    \* num_sgt_handlers - 1: the handlers are 1 .. NumHandlers
    TaskManagerId,  \* the task manager, as an end point of a channel
    Needs,          \* Needs[t]: handlers that own the SGTs task t uses
    NumComps,       \* SGT components, one raw data message each
    NumClusters,    \* data clusters a task sends to the master
    Modes           \* ways MPI and the manager's sleep(5) may behave: records
                    \* of buffered, the kinds of message a send need not wait
                    \* for, and sleep_suffices, whether the sleep outlasts
                    \* the master's backlog

Master == 0
Handlers == 1 .. NumHandlers
Servers == {Master} \cup Handlers
Links == (Workers \X Servers) \cup (Handlers \X Workers) \cup ({TaskManagerId} \X Servers)

ASSUME DirectSynthAssumption ==
    /\ NumHandlers \in Nat
    /\ \A t \in AllTasks : Needs[t] \subseteq Handlers
    /\ NumComps \in 1 .. 3
    /\ NumClusters \in 1 .. 4
    /\ \A m \in Modes : m.sleep_suffices \in BOOLEAN
    /\ Workers \cap Servers = {}
    /\ TaskManagerId \notin Workers \cup Servers

VARIABLES
    mode,       \* the member of Modes this job runs in
    chan,       \* messages in transit
    at, count,  \* where a worker is in run_synth; messages handled there
    ask,        \* handlers the worker has still to ask
    hpc, hsrc,  \* a handler's program counter, the worker it serves
    hlist, hcount, \* the list of SGTs it serves, and messages sent for it
    mpc, msrc,  \* the master's program counter, the worker it receives from
    written,    \* data clusters written, in order
    notified    \* servers told that the workers are done

netVars == <<at, count, ask, hpc, hsrc, hlist, hcount, mpc, msrc, written, notified>>
dsVars == <<vars, mode, chan, netVars>>

workerVars == <<at, count, ask>>
handlerVars == <<hpc, hsrc, hlist, hcount>>
masterVars == <<mpc, msrc, written>>
-----------------------------------------------------------------------------
(* check_send and check_recv *)
Unblocked(p) == \A l \in {x \in Links : x[1] = p /\ chan[x] # <<>>} :
    Last(chan[l]).kind \in mode.buffered

Send(p, q, m) == Unblocked(p) /\ chan' = [chan EXCEPT ![<<p, q>>] = Append(@, m)]

(* Receiving needs the process to be out of its last send. *)
CanReceive(p, q) == Unblocked(q) /\ chan[<<p, q>>] # <<>>
Received(p, q) == chan' = [chan EXCEPT ![<<p, q>>] = Tail(@)]

Msg(k, t, n) == [kind |-> k, task |-> t, n |-> n]
-----------------------------------------------------------------------------
dsInit == /\ Init
          /\ mode \in Modes
          /\ chan = [l \in Links |-> <<>>]
          /\ at = [w \in Workers |-> "idle"]
          /\ count = [w \in Workers |-> 0]
          /\ ask = [w \in Workers |-> {}]
          /\ hpc = [h \in Handlers |-> "listen"]
          /\ hsrc = [h \in Handlers |-> TaskManagerId]
          /\ hlist = [h \in Handlers |-> NoTask]
          /\ hcount = [h \in Handlers |-> 0]
          /\ mpc = "listen"
          /\ msrc = TaskManagerId
          /\ written = <<>>
          /\ notified = 0

(* get_task returned a task: run_synth starts, with the handlers that own   *)
(* one of the task's SGTs (sgts_by_handler) to be asked in turn             *)
StartTask(w) == /\ ReceiveTask(w)
                /\ at' = [at EXCEPT ![w] = IF Needs[task[w]] = {} THEN "header" ELSE "ask"]
                /\ ask' = [ask EXCEPT ![w] = Needs[task[w]]]
                /\ count' = [count EXCEPT ![w] = 0]
                /\ UNCHANGED <<chan, handlerVars, masterVars, notified>>

(* request_sgt: the request's header, the list of SGTs, then the SGT headers *)
(* and one message of raw data for each component                            *)
Asking(w) == Min(ask[w])

SendRequest(w) == /\ at[w] = "ask"
                  /\ Send(w, Asking(w), Msg("SGT_REQUEST", task[w], 0))
                  /\ at' = [at EXCEPT ![w] = "list"]
                  /\ UNCHANGED <<vars, count, ask, handlerVars, masterVars, notified>>

SendList(w) == /\ at[w] = "list"
               /\ Send(w, Asking(w), Msg("SGT_LIST", task[w], 0))
               /\ at' = [at EXCEPT ![w] = "reply"]
               /\ UNCHANGED <<vars, count, ask, handlerVars, masterVars, notified>>

ReceiveReply(w) ==
    /\ at[w] = "reply"
    /\ CanReceive(Asking(w), w)
    /\ Received(Asking(w), w)
    /\ IF count[w] < NumComps
       THEN count' = [count EXCEPT ![w] = @ + 1] /\ UNCHANGED <<at, ask>>
       ELSE /\ count' = [count EXCEPT ![w] = 0]
            /\ ask' = [ask EXCEPT ![w] = @ \ {Asking(w)}]
            /\ at' = [at EXCEPT ![w] = IF ask'[w] = {} THEN "header" ELSE "ask"]
    /\ UNCHANGED <<vars, handlerVars, masterVars, notified>>

(* send_data_cluster: announcement, metadata and contents to the master, for *)
(* the seismograms first and then for each further kind of output            *)
SendCluster(w) ==
    /\ \/ /\ at[w] = "header"
          /\ Send(w, Master, Msg("DATA_FILE", task[w], count[w]))
          /\ at' = [at EXCEPT ![w] = "metadata"]
          /\ UNCHANGED count
       \/ /\ at[w] = "metadata"
          /\ Send(w, Master, Msg("METADATA", task[w], count[w]))
          /\ at' = [at EXCEPT ![w] = "contents"]
          /\ UNCHANGED count
       \/ /\ at[w] = "contents"
          /\ Send(w, Master, Msg("DATA", task[w], count[w]))
          /\ count' = [count EXCEPT ![w] = @ + 1]
          /\ at' = [at EXCEPT ![w] = IF count'[w] = NumClusters THEN "end" ELSE "header"]
    /\ UNCHANGED <<vars, ask, handlerVars, masterVars, notified>>

(* run_synth returns once its last send has, and the worker asks for more    *)
EndTask(w) == /\ at[w] = "end"
              /\ Unblocked(w)
              /\ FinishTask(w)
              /\ at' = [at EXCEPT ![w] = "idle"]
              /\ UNCHANGED <<chan, count, ask, handlerVars, masterVars, notified>>
-----------------------------------------------------------------------------
(* handler_listen: MPI_ANY_SOURCE, MPI_ANY_TAG.  What arrives is taken for a *)
(* message of three integers; another kind of message ends in an abort.      *)
HandlerListen(h) == \E p \in Workers \cup {TaskManagerId} :
    /\ hpc[h] = "listen"
    /\ CanReceive(p, h)
    /\ Received(p, h)
    /\ LET kind == Head(chan[<<p, h>>]).kind
       IN  /\ hpc' = [hpc EXCEPT ![h] = CASE kind = "SGT_REQUEST" -> "list"
                                          [] kind = "WORKERS_COMPLETE" -> "exited"
                                          [] OTHER -> "abort"]
           /\ hsrc' = [hsrc EXCEPT ![h] = p]
    /\ UNCHANGED <<vars, workerVars, hlist, hcount, masterVars, notified>>

HandlerTakeList(h, p) ==
    /\ hpc[h] = "list"
    /\ CanReceive(p, h)
    /\ Head(chan[<<p, h>>]).kind \in {"SGT_REQUEST", "SGT_LIST"}   \* SGT_REQUEST_TAG
    /\ Received(p, h)
    /\ hlist' = [hlist EXCEPT ![h] = Head(chan[<<p, h>>]).task]
    /\ hpc' = [hpc EXCEPT ![h] = "reply"]
    /\ hcount' = [hcount EXCEPT ![h] = 0]
    /\ UNCHANGED <<vars, workerVars, hsrc, masterVars, notified>>

HandlerReceiveList_AnySource(h) == \E p \in Workers : HandlerTakeList(h, p)
HandlerReceiveList(h) == hsrc[h] \in Workers /\ HandlerTakeList(h, hsrc[h])

HandlerReply_OneShort(h) ==
    /\ hpc[h] = "reply"
    /\ Send(h, hsrc[h], Msg(IF hcount[h] = 0 THEN "SGT_HEADER" ELSE "SGT_RAW",
                            hlist[h], hcount[h]))
    /\ hcount' = [hcount EXCEPT ![h] = @ + 1]
    /\ hpc' = [hpc EXCEPT ![h] = IF hcount[h] = NumComps - 1 THEN "listen" ELSE "reply"]
    /\ UNCHANGED <<vars, workerVars, hsrc, hlist, masterVars, notified>>

(* handle_SGT_request: the headers, then the raw data of each component      *)
HandlerReply(h) ==
    /\ hpc[h] = "reply"
    /\ Send(h, hsrc[h], Msg(IF hcount[h] = 0 THEN "SGT_HEADER" ELSE "SGT_RAW",
                            hlist[h], hcount[h]))
    /\ hcount' = [hcount EXCEPT ![h] = @ + 1]
    /\ hpc' = [hpc EXCEPT ![h] = IF hcount[h] = NumComps THEN "listen" ELSE "reply"]
    /\ UNCHANGED <<vars, workerVars, hsrc, hlist, masterVars, notified>>
-----------------------------------------------------------------------------
(* master_listen: a wildcard receive, then metadata and contents from the    *)
(* worker that announced them.  The receive by source and tag takes the      *)
(* first message from that source with that tag.                             *)
MasterListen == \E p \in Workers \cup {TaskManagerId} :
    /\ mpc = "listen"
    /\ CanReceive(p, Master)
    /\ Received(p, Master)
    /\ LET kind == Head(chan[<<p, Master>>]).kind
       IN  mpc' = CASE kind = "DATA_FILE" -> "metadata"
                    [] kind = "WORKERS_COMPLETE" -> "exited"
                    [] OTHER -> "abort"
    /\ msrc' = p
    /\ UNCHANGED <<vars, workerVars, handlerVars, written, notified>>

TagOf == [DATA_FILE |-> "DATA_TAG", METADATA |-> "DATA_FILENAME_TAG", DATA |-> "DATA_TAG",
          NUM_RUPTURES |-> "NUM_RUPTURES_TAG", VARIATION_INFO |-> "VARIATION_INFO_TAG",
          WORKERS_COMPLETE |-> "WORK_COMPLETE_TAG"]

MasterTake(p, tag) == \E i \in DOMAIN chan[<<p, Master>>] :
    /\ TagOf[chan[<<p, Master>>][i].kind] = tag
    /\ \A j \in 1 .. i - 1 : TagOf[chan[<<p, Master>>][j].kind] # tag
    /\ chan' = [chan EXCEPT ![<<p, Master>>] = RemoveAt(@, i)]
    /\ written' = IF tag = "DATA_TAG" THEN Append(written, chan[<<p, Master>>][i])
                                      ELSE written

MasterMetadata == /\ mpc = "metadata"
                  /\ MasterTake(msrc, "DATA_FILENAME_TAG")
                  /\ mpc' = "contents"
                  /\ UNCHANGED <<vars, workerVars, handlerVars, msrc, notified>>

MasterContents_AnySource == /\ mpc = "contents"
                            /\ \E p \in Workers : MasterTake(p, "DATA_TAG")
                            /\ mpc' = "listen"
                            /\ UNCHANGED <<vars, workerVars, handlerVars, msrc, notified>>

MasterContents == /\ mpc = "contents"
                  /\ MasterTake(msrc, "DATA_TAG")
                  /\ mpc' = "listen"
                  /\ UNCHANGED <<vars, workerVars, handlerVars, msrc, notified>>
-----------------------------------------------------------------------------
Drained == mpc = "listen" /\ \A w \in Workers : chan[<<w, Master>>] = <<>>

BroadcastCompletion_NoSleep ==
    /\ tm_pc = "returned"
    /\ notified < Cardinality(Servers)
    /\ Send(TaskManagerId, notified, Msg("WORKERS_COMPLETE", NoTask, 0))
    /\ notified' = notified + 1
    /\ UNCHANGED <<vars, workerVars, handlerVars, masterVars>>

(* task_manager after manager_listen: sleep(5), then broadcast_completion to *)
(* ranks 0 .. N-1 in turn.  If the sleep suffices it lasts until the master  *)
(* has received what was sent to it.                                         *)
BroadcastCompletion ==
    /\ tm_pc = "returned"
    /\ notified < Cardinality(Servers)
    /\ notified = 0 /\ mode.sleep_suffices => Drained
    /\ Send(TaskManagerId, notified, Msg("WORKERS_COMPLETE", NoTask, 0))
    /\ notified' = notified + 1
    /\ UNCHANGED <<vars, workerVars, handlerVars, masterVars>>

(* Steps of TaskManager that involve neither handlers nor master *)
Protocol(A) == A /\ UNCHANGED <<chan, netVars>>

dsWorker(w) == /\ \/ Protocol(WakeUp(w) \/ ReceiveComplete(w))
                  \/ StartTask(w) \/ SendRequest(w) \/ SendList(w) \/ ReceiveReply(w)
                  \/ SendCluster(w) \/ EndTask(w)
               /\ UNCHANGED mode
dsHandler(h) == /\ HandlerListen(h) \/ HandlerReceiveList(h) \/ HandlerReply(h)
                /\ UNCHANGED mode
dsMaster == /\ MasterListen \/ MasterMetadata \/ MasterContents
            /\ UNCHANGED mode
dsManager == /\ Protocol(Manager) \/ BroadcastCompletion
             /\ UNCHANGED mode

dsNext == \/ dsManager \/ dsMaster
          \/ \E w \in Workers : dsWorker(w)
          \/ \E h \in Handlers : dsHandler(h)

dsSafeSpec == dsInit /\ [][dsNext]_dsVars

(* Each process takes its next step once it can; nothing is assumed about    *)
(* the choice among the sources of a wildcard receive.                       *)
dsSpec == /\ dsSafeSpec
          /\ WF_dsVars(dsManager) /\ WF_dsVars(dsMaster)
          /\ \A w \in Workers : WF_dsVars(dsWorker(w))
          /\ \A h \in Handlers : WF_dsVars(dsHandler(h))
-----------------------------------------------------------------------------
(* The wildcard receives of the master and of the handlers only ever match   *)
(* the message that opens an exchange: a list, metadata or contents taken    *)
(* for three integers would abort the job.                                   *)
NoMisreceive == mpc # "abort" /\ \A h \in Handlers : hpc[h] # "abort"

(* What a handler sends to a worker answers the request that worker is       *)
(* waiting on, and arrives in the order of the components, however the       *)
(* requests of several workers interleave at the handler.                    *)
AnswersOwnRequest == \A h \in Handlers, w \in Workers :
    LET replies == chan[<<h, w>>]
    IN  replies # <<>> => /\ at[w] = "reply" /\ Asking(w) = h
                          /\ \A i \in DOMAIN replies :
                                /\ replies[i].task = task[w]
                                /\ replies[i].n = count[w] + i - 1

(* The master writes contents only, each cluster of each task once.          *)
WrittenOnce == /\ \A i \in DOMAIN written : written[i].kind = "DATA"
               /\ IsInjective(written)

(* No handler exits while a worker still has to ask it or waits for it.      *)
HandlersOutliveRequests == \A h \in Handlers, w \in Workers :
    hpc[h] = "exited" => ~(at[w] \in {"ask", "list", "reply"} /\ h \in ask[w])

(* "Sleep for 5 seconds to allow any final files going to the master to get  *)
(* accepted and written" (task_manager.c:61): when the master shuts down it  *)
(* has received every cluster of every task.                                 *)
AllDataWritten == mpc = "exited" =>
    ToSet(written) = {Msg("DATA", t, n) : t \in Tasks, n \in 0 .. NumClusters - 1}

(* Master and handlers are told to stop and do.  With nothing buffered this  *)
(* also says that the blocking sends cannot lock the processes up.           *)
ServersExit == Workers # {} => <>(mpc = "exited" /\ \A h \in Handlers : hpc[h] = "exited")

(* run_synth always returns: the fairness TaskManager assumes of its         *)
(* FinishTask is the one this module provides.                               *)
TaskManagerSpec == Spec
=============================================================================
