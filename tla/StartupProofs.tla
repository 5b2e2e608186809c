--------------------------- MODULE StartupProofs ---------------------------
(***************************************************************************)
(* Proofs about Startup, and so about DirectSynth: the whole job keeps to  *)
(* the protocol of TaskManager, and the messages of its ranks are never    *)
(* mixed up, for any number of workers, handlers, tasks and messages, and  *)
(* whatever MPI buffers.                                                   *)
(*                                                                         *)
(* The invariant describes each pair of ranks by itself: between a worker  *)
(* and a handler there is one exchange at a time, whose messages are those *)
(* its place calls for (Exchange); what a worker has sent to the master    *)
(* goes round announcement, metadata, contents, from what the master is    *)
(* waiting for to what the worker sends next (Streams); the manager sends  *)
(* its list and then completions (ManagerLinks).  The data itself is made  *)
(* by a worker that runs its task, is in transit or written, and never     *)
(* both (DataProduced, DataOnce, DataKept).  That none is in transit when  *)
(* the master leaves holds where SoundModes does: what a worker has sent   *)
(* is received before it goes on (Flushed), or before the servers are told *)
(* to stop (Emptied).                                                      *)
(***************************************************************************)
EXTENDS Startup, TaskManagerProofs, WellFoundedInduction, SequenceTheorems

Kinds == {"SGT_REQUEST", "SGT_LIST", "SGT_HEADER", "SGT_RAW", "DATA_FILE", "METADATA", "DATA",
          "NUM_RUPTURES", "VARIATION_INFO", "WORKERS_COMPLETE"}
Message == [kind : Kinds, task : Int, n : Int]

Places == {"idle", "ask", "list", "reply", "header", "metadata", "contents", "end"}

NetTypes ==
    /\ mode \in Modes
    /\ chan \in [Links -> Seq(Message)]
    /\ at \in [Workers -> Places]
    /\ count \in [Workers -> Nat]
    /\ ask \in [Workers -> SUBSET Handlers]
    /\ hpc \in [Handlers -> {"listen", "list", "reply", "exited", "abort"}]
    /\ hsrc \in [Handlers -> Workers \cup {TaskManagerId}]
    /\ hlist \in [Handlers -> Int]
    /\ hcount \in [Handlers -> Nat]
    /\ mpc \in {"listen", "metadata", "contents", "exited", "abort"}
    /\ msrc \in Workers \cup {TaskManagerId}
    /\ written \in Seq(Message)
    /\ notified \in Nat
    /\ tuples \in 0 .. 2
    /\ told \in 0 .. 2

(* A worker is in run_synth while it has a task to run. *)
WorkerPlace == \A w \in Workers :
    /\ at[w] # "idle" <=> phase[w] = "run_synth"
    /\ at[w] \in {"ask", "list", "reply"} => ask[w] # {}
    /\ at[w] \in {"ask", "list"} => count[w] = 0
    /\ at[w] \in {"header", "metadata", "contents"} => count[w] < NumClusters
    /\ at[w] = "end" => count[w] = NumClusters
-----------------------------------------------------------------------------
(* The exchange of a worker and a handler, place by place *)
Asks(w, h) == at[w] \in {"list", "reply"} /\ Asking(w) = h
Serves(h, w) == hpc[h] \in {"list", "reply"} /\ hsrc[h] = w

Nothing(w, h) == chan[<<w, h>>] = <<>> /\ chan[<<h, w>>] = <<>>

NotAsked(w, h) == ~Asks(w, h) /\ ~Serves(h, w) /\ Nothing(w, h)

Requested(w, h) == /\ Asks(w, h) /\ at[w] = "list" /\ ~Serves(h, w)
                   /\ chan[<<w, h>>] = <<Msg("SGT_REQUEST", task[w], 0)>>
                   /\ chan[<<h, w>>] = <<>>

RequestTaken(w, h) == /\ Asks(w, h) /\ at[w] = "list"
                      /\ Serves(h, w) /\ hpc[h] = "list" /\ Nothing(w, h)

BothSent(w, h) == /\ Asks(w, h) /\ at[w] = "reply" /\ ~Serves(h, w) /\ count[w] = 0
                  /\ chan[<<w, h>>] = <<Msg("SGT_REQUEST", task[w], 0),
                                        Msg("SGT_LIST", task[w], 0)>>
                  /\ chan[<<h, w>>] = <<>>

ListSent(w, h) == /\ Asks(w, h) /\ at[w] = "reply" /\ count[w] = 0
                  /\ Serves(h, w) /\ hpc[h] = "list"
                  /\ chan[<<w, h>>] = <<Msg("SGT_LIST", task[w], 0)>>
                  /\ chan[<<h, w>>] = <<>>

(* Answers in transit: the ones from where the worker is to what was sent *)
InOrder(s, t, c) == \A i \in 1 .. Len(s) : s[i].task = t /\ s[i].n = c + i - 1

Answers(w, h, sofar) == /\ chan[<<w, h>>] = <<>>
                        /\ count[w] + Len(chan[<<h, w>>]) = sofar
                        /\ InOrder(chan[<<h, w>>], task[w], count[w])

Answered(w, h) == /\ Asks(w, h) /\ at[w] = "reply"
                  /\ Serves(h, w) /\ hpc[h] = "reply"
                  /\ hlist[h] = task[w] /\ hcount[h] <= NumComps
                  /\ Answers(w, h, hcount[h])

AllAnswered(w, h) == /\ Asks(w, h) /\ at[w] = "reply" /\ ~Serves(h, w)
                     /\ count[w] <= NumComps
                     /\ Answers(w, h, NumComps + 1)

Pair(w, h) == \/ NotAsked(w, h) \/ Requested(w, h) \/ RequestTaken(w, h) \/ BothSent(w, h)
              \/ ListSent(w, h) \/ Answered(w, h) \/ AllAnswered(w, h)

Exchange == /\ \A w \in Workers, h \in Handlers : Pair(w, h)
            /\ \A h \in Handlers : hpc[h] \in {"list", "reply"} => hsrc[h] \in Workers
            /\ \A h \in Handlers : hpc[h] # "abort"
-----------------------------------------------------------------------------
(* A worker's messages to the master *)
ToMaster(w) == chan[<<w, Master>>]

Follows(k) == IF k = "DATA_FILE" THEN "METADATA"
              ELSE IF k = "METADATA" THEN "DATA" ELSE "DATA_FILE"
ClusterKinds == {"DATA_FILE", "METADATA", "DATA"}

Stream(s, first, next) ==
    /\ \A i \in DOMAIN s : s[i].kind \in ClusterKinds
    /\ \A i \in 1 .. Len(s) - 1 : s[i + 1].kind = Follows(s[i].kind)
    /\ s = <<>> => first = next
    /\ s # <<>> => s[1].kind = first /\ next = Follows(s[Len(s)].kind)

Awaited(w) == IF msrc # w THEN "DATA_FILE"
              ELSE IF mpc = "metadata" THEN "METADATA"
              ELSE IF mpc = "contents" THEN "DATA" ELSE "DATA_FILE"
SentNext(w) == IF at[w] = "metadata" THEN "METADATA"
               ELSE IF at[w] = "contents" THEN "DATA" ELSE "DATA_FILE"

Streams == /\ \A w \in Workers : Stream(ToMaster(w), Awaited(w), SentNext(w))
           /\ mpc \in {"metadata", "contents"} => msrc \in Workers
           /\ mpc # "abort"
-----------------------------------------------------------------------------
(* The manager's messages: its list of ruptures to the master, completions   *)
FromManager == chan[<<TaskManagerId, Master>>]
ListKind(k) == IF k = 1 THEN "NUM_RUPTURES" ELSE "VARIATION_INFO"

ManagerLinks ==
    /\ tuples <= told
    /\ told < 2 => notified = 0
    /\ told - tuples <= Len(FromManager)
    /\ notified = 0 => Len(FromManager) = told - tuples
    /\ \A i \in DOMAIN FromManager :
           FromManager[i].kind = IF i <= told - tuples THEN ListKind(tuples + i)
                                 ELSE "WORKERS_COMPLETE"
    /\ \A h \in Handlers : \A i \in DOMAIN chan[<<TaskManagerId, h>>] :
           chan[<<TaskManagerId, h>>][i].kind = "WORKERS_COMPLETE" /\ notified > 0

Told == /\ notified > 0 => tm_pc = "returned"
        /\ mpc = "exited" => notified > 0
        /\ \A h \in Handlers : hpc[h] = "exited" => notified > 0
-----------------------------------------------------------------------------
(* Data clusters a worker has sent of its task, and those there are *)
NumSent(w) == IF at[w] \in {"header", "metadata", "contents", "end"} THEN count[w] ELSE 0

Produced(t, n) == /\ t \in Tasks /\ n \in 0 .. NumClusters - 1
                  /\ t \in finished \/ \E w \in Workers : task[w] = t /\ n < NumSent(w)

(* The contents among a sequence of messages, and that none is there twice *)
Data(s) == {i \in 1 .. Len(s) : s[i].kind = "DATA"}
Contents(s) == {s[i] : i \in Data(s)}
Distinct(s) == \A i, j \in Data(s) : s[i] = s[j] => i = j

DataProduced ==
    /\ \A w \in Workers : \A m \in Contents(ToMaster(w)) : Produced(m.task, m.n)
    /\ \A m \in Contents(written) : Produced(m.task, m.n)

DataOnce ==
    /\ Distinct(written)
    /\ \A i \in 1 .. Len(written) : written[i].kind = "DATA"
    /\ \A w \in Workers : /\ Distinct(ToMaster(w))
                          /\ Contents(ToMaster(w)) \cap Contents(written) = {}
    /\ \A w, v \in Workers :
           w # v => Contents(ToMaster(w)) \cap Contents(ToMaster(v)) = {}

DataKept == \A t \in Tasks, n \in 0 .. NumClusters - 1 : Produced(t, n) =>
    \/ Msg("DATA", t, n) \in Contents(written)
    \/ \E w \in Workers : Msg("DATA", t, n) \in Contents(ToMaster(w))

(* Either contents are received before a send of them returns, or the sleep  *)
(* is long enough: then nothing is left behind when completion is announced. *)
SoundModes == \A m \in Modes : m.sleep_suffices \/ "DATA" \notin m.buffered

Flushed == \A w \in Workers : at[w] = "idle" /\ ToMaster(w) # <<>> =>
               ToMaster(w)[Len(ToMaster(w))].kind \in mode.buffered

Emptied == notified > 0 => \A w \in Workers : ToMaster(w) = <<>>

NetInv == /\ NetTypes /\ WorkerPlace /\ Exchange /\ Streams /\ ManagerLinks /\ Told
DataInv == DataProduced /\ DataOnce /\ DataKept
-----------------------------------------------------------------------------
(* The steps of Startup by what they do to the protocol *)
Quiet == UNCHANGED <<dsVars, tuples, told>>
Kept == UNCHANGED <<mode, tuples, told>>

ProtocolStep == /\ Manager \/ \E w \in Workers : WakeUp(w) \/ ReceiveComplete(w)
                /\ UNCHANGED <<chan, netVars>> /\ Kept

AskingStep(w) == (StartTask(w) \/ SendRequest(w) \/ SendList(w) \/ ReceiveReply(w)) /\ Kept
SendingStep(w) == (SendCluster(w) \/ EndTask(w)) /\ Kept
HandlerStep(h) == (HandlerListen(h) \/ HandlerReceiveList(h) \/ HandlerReply(h)) /\ Kept
MasterStep == (MasterListen \/ MasterMetadata \/ MasterContents) /\ tuples = 2 /\ Kept
CompletionStep == BroadcastCompletion /\ told = 2 /\ Kept
TupleStep == (SendTuples \/ ReceiveTuples)

LEMMA StepCases ==
    ASSUME [suNext]_suVars
    PROVE  \/ Quiet \/ ProtocolStep \/ MasterStep \/ CompletionStep \/ TupleStep
           \/ \E w \in Workers : AskingStep(w) \/ SendingStep(w)
           \/ \E h \in Handlers : HandlerStep(h)
<1>1. CASE UNCHANGED suVars
  BY <1>1 DEF suVars, startVars, Quiet
<1>2. CASE suMaster
  BY <1>2 DEF suMaster, BroadcastRoot, SendHeaders, ReceiveTuples, Started, dsMaster, Quiet,
              TupleStep, MasterStep, Kept, startVars, TupleMessages
<1>3. CASE suManager
  <2>1. CASE Started(dsManager, ManagerReady)
    BY <2>1 DEF Started, dsManager, ManagerReady, Protocol, ProtocolStep, CompletionStep,
                Kept, startVars
  <2> QED BY <1>3, <2>1 DEF suManager, Broadcast, TupleStep, Quiet
<1>4. ASSUME NEW h \in Handlers, suHandler(h)
      PROVE  Quiet \/ HandlerStep(h)
  BY <1>4 DEF suHandler, Broadcast, ReceiveHeaders, ReadSGT, Started, dsHandler, Quiet,
              HandlerStep, Kept, startVars
<1>5. ASSUME NEW w \in Workers, suWorker(w)
      PROVE  Quiet \/ ProtocolStep \/ AskingStep(w) \/ SendingStep(w)
  <2>1. CASE Started(dsWorker(w), ~Waiting(w))
    BY <2>1 DEF Started, dsWorker, Protocol, ProtocolStep, AskingStep, SendingStep, Kept, startVars
  <2> QED BY <1>5, <2>1 DEF suWorker, Broadcast, Quiet
<1> QED BY <1>1, <1>2, <1>3, <1>4, <1>5 DEF suNext

(* The whole job keeps to the protocol of TaskManager: all that handlers,    *)
(* master and the start of the ranks add lies within a run_synth, or leaves  *)
(* the manager and the workers alone.                                        *)
THEOREM ImplementsTaskManager == suSafeSpec => SafeSpec
<1>1. suInit => Init
  BY DEF suInit, dsInit
<1>2. [suNext]_suVars => [Next]_vars
  <2> SUFFICES ASSUME [suNext]_suVars PROVE [Next]_vars
    OBVIOUS
  <2>1. CASE Quiet
    BY <2>1 DEF Quiet, dsVars
  <2>2. CASE ProtocolStep
    BY <2>2 DEF ProtocolStep, Next, Worker
  <2>3. CASE MasterStep \/ CompletionStep \/ TupleStep
    BY <2>3 DEF MasterStep, CompletionStep, TupleStep, MasterListen, MasterMetadata,
                MasterContents, BroadcastCompletion, SendTuples, ReceiveTuples
  <2>4. ASSUME NEW w \in Workers, AskingStep(w) \/ SendingStep(w) PROVE [Next]_vars
    BY <2>4 DEF AskingStep, SendingStep, StartTask, SendRequest, SendList, ReceiveReply,
                SendCluster, EndTask, Next, Worker
  <2>5. ASSUME NEW h \in Handlers, HandlerStep(h) PROVE [Next]_vars
    BY <2>5 DEF HandlerStep, HandlerListen, HandlerReceiveList, HandlerTakeList, HandlerReply
  <2> QED BY <2>1, <2>2, <2>3, <2>4, <2>5, StepCases
<1> QED BY <1>1, <1>2, PTL DEF suSafeSpec, SafeSpec
-----------------------------------------------------------------------------
(* Master, handlers, manager and workers are different ranks. *)
LEMMA LinksApart ==
    /\ \A w \in Workers : <<w, Master>> \in Links /\ w # TaskManagerId /\ w # Master
    /\ \A h \in Handlers : h # TaskManagerId /\ h # Master /\ h \notin Workers
    /\ \A w \in Workers, h \in Handlers : <<w, h>> \in Links /\ <<h, w>> \in Links
    /\ \A s \in Servers : <<TaskManagerId, s>> \in Links
    /\ Master \in Servers /\ Handlers \subseteq Servers
    /\ TaskManagerId # Master
<1>1. \A h \in Handlers : h # Master
  BY DirectSynthAssumption DEF Handlers, Master
<1> QED BY <1>1, DirectSynthAssumption DEF Links, Servers

(* What a send and a receive do to the links *)
LEMMA SendEffect ==
    ASSUME NetTypes, NEW p, NEW q, <<p, q>> \in Links, NEW m \in Message, Send(p, q, m)
    PROVE  /\ chan' \in [Links -> Seq(Message)]
           /\ chan'[<<p, q>>] = Append(chan[<<p, q>>], m)
           /\ \A l \in Links : l # <<p, q>> => chan'[l] = chan[l]
BY DEF NetTypes, Send

LEMMA ReceiveEffect ==
    ASSUME NetTypes, NEW p, NEW q, <<p, q>> \in Links, chan[<<p, q>>] # <<>>, Received(p, q)
    PROVE  /\ chan' \in [Links -> Seq(Message)]
           /\ chan'[<<p, q>>] = Tail(chan[<<p, q>>])
           /\ \A l \in Links : l # <<p, q>> => chan'[l] = chan[l]
           /\ Head(chan[<<p, q>>]) \in Message
           /\ Head(chan[<<p, q>>]) = chan[<<p, q>>][1]
BY DEF NetTypes, Received

LEMMA Tags == /\ TagOf["DATA_FILE"] = "DATA_TAG" /\ TagOf["METADATA"] = "DATA_FILENAME_TAG"
              /\ TagOf["DATA"] = "DATA_TAG" /\ TagOf["NUM_RUPTURES"] = "NUM_RUPTURES_TAG"
              /\ TagOf["VARIATION_INFO"] = "VARIATION_INFO_TAG"
              /\ TagOf["WORKERS_COMPLETE"] = "WORK_COMPLETE_TAG"
BY DEF TagOf

LEMMA LeastElement ==
    ASSUME NEW S \in SUBSET Nat, S # {}
    PROVE  Min(S) \in S
<1>1. PICK x \in S : \A y \in S : ~(<<y, x>> \in OpToRel(<, Nat))
  BY NatLessThanWellFounded, WFMin
<1>2. \A y \in S : x <= y
  <2> SUFFICES ASSUME NEW y \in S, ~(x <= y) PROVE FALSE
    OBVIOUS
  <2>1. y < x /\ x \in Nat /\ y \in Nat
    OBVIOUS
  <2>2. <<y, x>> \in OpToRel(<, Nat)
    BY <2>1 DEF OpToRel
  <2> QED BY <1>1, <2>2
<1> QED BY <1>2 DEF Min

LEMMA AskedIsHandler ==
    ASSUME NetTypes, WorkerPlace, NEW w \in Workers, at[w] \in {"ask", "list", "reply"}
    PROVE  Asking(w) \in Handlers
<1>1. ask[w] \in SUBSET Handlers /\ ask[w] # {}
  BY DEF NetTypes, WorkerPlace
<1>2. ask[w] \in SUBSET Nat
  BY <1>1 DEF Handlers
<1> QED BY <1>1, <1>2, LeastElement DEF Asking

(* A receive by source and tag that matches the first message takes it. *)
LEMMA TakeFirst ==
    ASSUME NetTypes, NEW p, <<p, Master>> \in Links, NEW tag, MasterTake(p, tag),
           chan[<<p, Master>>] # <<>> => TagOf[chan[<<p, Master>>][1].kind] = tag
    PROVE  /\ chan[<<p, Master>>] # <<>> /\ Received(p, Master)
           /\ chan[<<p, Master>>][1] \in Message
           /\ written' = IF tag = "DATA_TAG" THEN Append(written, chan[<<p, Master>>][1])
                         ELSE written
<1> DEFINE s == chan[<<p, Master>>]
<1>1. PICK i \in DOMAIN s : /\ TagOf[s[i].kind] = tag
                            /\ \A j \in 1 .. i - 1 : TagOf[s[j].kind] # tag
                            /\ chan' = [chan EXCEPT ![<<p, Master>>] = RemoveAt(@, i)]
                            /\ written' = IF tag = "DATA_TAG" THEN Append(written, s[i]) ELSE written
  BY DEF MasterTake
<1>2. s \in Seq(Message) /\ s # <<>>
  BY <1>1 DEF NetTypes
<1> DEFINE g(j) == TagOf[s[j].kind]
<1>3. i = 1
  <2>1. g(1) = tag /\ g(i) = tag /\ (\A j \in 1 .. i - 1 : g(j) # tag)
    BY <1>1, <1>2
  <2>2. i \in Nat \ {0}
    BY <1>1, <1>2
  <2> HIDE DEF g
  <2> QED BY <2>1, <2>2
<1>4. RemoveAt(s, 1) = Tail(s)
  <2>1. SubSeq(s, 1, 0) = <<>> /\ SubSeq(s, 2, Len(s)) = Tail(s)
    BY <1>2
  <2>2. Tail(s) \in Seq(Message)
    BY <1>2
  <2> QED BY <1>2, <2>1, <2>2 DEF RemoveAt
<1>5. s[1] \in Message
  BY <1>2
<1>6. chan' = [chan EXCEPT ![<<p, Master>>] = Tail(s)]
  BY <1>1, <1>3, <1>4
<1>7. written' = IF tag = "DATA_TAG" THEN Append(written, s[1]) ELSE written
  BY <1>1, <1>3
<1> QED BY <1>2, <1>5, <1>6, <1>7 DEF Received
-----------------------------------------------------------------------------
(* What leaves a pair of worker and handler as it is: neither of them moves, *)
(* or the handler turns to somebody else, or the worker does.                *)
LEMMA PairFrame ==
    ASSUME NEW w \in Workers, NEW h \in Handlers, Pair(w, h),
           at'[w] = at[w], ask'[w] = ask[w], count'[w] = count[w],
           at[w] # "idle" => task'[w] = task[w],
           Serves(h, w)' <=> Serves(h, w),
           Serves(h, w) => hpc'[h] = hpc[h] /\ hlist'[h] = hlist[h] /\ hcount'[h] = hcount[h],
           chan'[<<w, h>>] = chan[<<w, h>>], chan'[<<h, w>>] = chan[<<h, w>>]
    PROVE  Pair(w, h)'
<1>1. Asks(w, h)' <=> Asks(w, h)
  BY DEF Asks, Asking
<1>2. Nothing(w, h)' <=> Nothing(w, h)
  BY DEF Nothing
<1>3. Asks(w, h) => task'[w] = task[w]
  BY DEF Asks
<1>4. CASE NotAsked(w, h)
  BY <1>1, <1>2, <1>4 DEF NotAsked, Pair
<1>5. CASE Requested(w, h) \/ BothSent(w, h)
  BY <1>1, <1>3, <1>5 DEF Requested, BothSent, Pair
<1>6. CASE RequestTaken(w, h) \/ ListSent(w, h)
  BY <1>1, <1>2, <1>3, <1>6 DEF RequestTaken, ListSent, Pair
<1>7. CASE Answered(w, h) \/ AllAnswered(w, h)
  BY <1>1, <1>3, <1>7 DEF Answered, AllAnswered, Answers, Pair
<1> QED BY <1>4, <1>5, <1>6, <1>7 DEF Pair

LEMMA NotAskedFrame ==
    ASSUME NEW w \in Workers, NEW h \in Handlers, Pair(w, h), ~Asks(w, h), ~Asks(w, h)',
           hpc'[h] = hpc[h], hsrc'[h] = hsrc[h],
           chan'[<<w, h>>] = chan[<<w, h>>], chan'[<<h, w>>] = chan[<<h, w>>]
    PROVE  Pair(w, h)'
<1>1. NotAsked(w, h)
  BY DEF Pair, NotAsked, Requested, RequestTaken, BothSent, ListSent, Answered, AllAnswered
<1>2. NotAsked(w, h)'
  BY <1>1 DEF NotAsked, Serves, Nothing
<1> QED BY <1>2 DEF Pair

LEMMA StreamsFrame ==
    ASSUME Streams, UNCHANGED <<mpc, msrc>>,
           \A w \in Workers : chan'[<<w, Master>>] = chan[<<w, Master>>] /\ SentNext(w)' = SentNext(w)
    PROVE  Streams'
<1>1. \A w \in Workers : Awaited(w)' = Awaited(w) /\ ToMaster(w)' = ToMaster(w)
  BY DEF Awaited, ToMaster
<1>2. \A w \in Workers : Stream(ToMaster(w), Awaited(w), SentNext(w))'
  <2> SUFFICES ASSUME NEW w \in Workers
               PROVE  Stream(ToMaster(w), Awaited(w), SentNext(w))'
    OBVIOUS
  <2>1. Stream(ToMaster(w), Awaited(w), SentNext(w))
    BY DEF Streams
  <2> QED BY <1>1, <2>1 DEF Stream
<1> QED BY <1>2 DEF Streams

LEMMA ManagerFrame ==
    ASSUME ManagerLinks, UNCHANGED <<tuples, told, notified>>,
           \A s \in Servers : chan'[<<TaskManagerId, s>>] = chan[<<TaskManagerId, s>>]
    PROVE  ManagerLinks'
<1>1. FromManager' = FromManager
  BY LinksApart DEF FromManager
<1>2. \A h \in Handlers : chan'[<<TaskManagerId, h>>] = chan[<<TaskManagerId, h>>]
  BY LinksApart
<1>3. \A i \in DOMAIN FromManager :
          FromManager[i].kind = IF i <= told - tuples THEN ListKind(tuples + i)
                                ELSE "WORKERS_COMPLETE"
  BY DEF ManagerLinks
<1>4. \A i \in DOMAIN FromManager' :
          FromManager'[i].kind = IF i <= told' - tuples' THEN ListKind(tuples' + i)
                                 ELSE "WORKERS_COMPLETE"
  BY <1>1, <1>3
<1> QED BY <1>1, <1>2, <1>4 DEF ManagerLinks

LEMMA AppendOne ==
    ASSUME NEW a \in Message, NEW b \in Message PROVE Append(<<a>>, b) = <<a, b>>
<1>1. /\ <<a>> \in Seq(Message) /\ <<a, b>> \in Seq(Message)
      /\ Append(<<a>>, b) \in Seq(Message)
  OBVIOUS
<1>2. Len(Append(<<a>>, b)) = 2 /\ Append(<<a>>, b)[1] = a /\ Append(<<a>>, b)[2] = b
  BY <1>1
<1>3. Len(<<a, b>>) = 2 /\ <<a, b>>[1] = a /\ <<a, b>>[2] = b
  OBVIOUS
<1> HIDE DEF Message
<1> DEFINE s == Append(<<a>>, b)
           t == <<a, b>>
<1>4. s \in Seq(Message) /\ t \in Seq(Message) /\ Len(s) = Len(t)
      /\ \A i \in 1 .. Len(s) : s[i] = t[i]
  BY <1>1, <1>2, <1>3
<1> HIDE DEF s, t
<1>5. s = t
  BY <1>4, SeqEqual
<1> QED BY <1>5 DEF s, t

LEMMA MessageType ==
    ASSUME NEW k \in Kinds, NEW t \in Int, NEW n \in Int PROVE Msg(k, t, n) \in Message
BY DEF Msg, Message

LEMMA TaskType == ASSUME IInv PROVE \A w \in Workers : task[w] \in Int
<1>1. \A w \in Workers : task[w] \in Tasks \cup {NoTask}
  BY DEF IInv, TypeOK
<1>2. Tasks \subseteq Int
  BY DEF Tasks
<1>3. NoTask \in Int
  BY DEF NoTask
<1> QED BY <1>1, <1>2, <1>3
-----------------------------------------------------------------------------
LEMMA NetInit == suInit => NetInv
<1> SUFFICES ASSUME suInit PROVE NetInv
  OBVIOUS
<1> USE LinksApart DEF suInit, dsInit
<1>1. NetTypes
  BY DEF NetTypes, NoTask, Places
<1>2. WorkerPlace
  BY DEF WorkerPlace, Init
<1>3. Exchange
  BY DEF Exchange, Pair, NotAsked, Asks, Serves, Nothing
<1>4. Streams
  BY DEF Streams, Stream, ToMaster, Awaited, SentNext
<1>5. ManagerLinks /\ Told
  BY DEF ManagerLinks, Told, FromManager
<1> QED BY <1>1, <1>2, <1>3, <1>4, <1>5 DEF NetInv

LEMMA QuietKeeps == NetInv /\ Quiet => NetInv'
<1> SUFFICES ASSUME NetInv, Quiet PROVE NetInv'
  OBVIOUS
<1> USE DEF NetInv, Quiet, dsVars, vars, netVars, managerVars
<1>1. NetTypes' /\ WorkerPlace' /\ Told'
  BY DEF NetTypes, WorkerPlace, Told
<1>2. Exchange'
  BY PairFrame DEF Exchange, Serves
<1>3. Streams' /\ ManagerLinks'
  BY StreamsFrame, ManagerFrame DEF SentNext
<1> QED BY <1>1, <1>2, <1>3

(* The manager's and the workers' own steps: no worker enters or leaves      *)
(* run_synth, and the task of one that is there stays.                       *)
LEMMA ProtocolEffect ==
    ASSUME IInv, ProtocolStep
    PROVE  /\ UNCHANGED <<mode, chan, netVars, tuples, told, finished, num_tasks>>
           /\ \A w \in Workers : /\ phase'[w] = "run_synth" <=> phase[w] = "run_synth"
                                 /\ phase[w] = "run_synth" => task'[w] = task[w]
           /\ tm_pc = "returned" => tm_pc' = "returned"
<1>1. phase \in [Workers -> Phases] /\ task \in [Workers -> Tasks \cup {NoTask}]
  BY DEF IInv, TypeOK
<1>2. CASE NotifyReturn
  BY <1>2 DEF ProtocolStep, Kept, NotifyReturn
<1>3. ASSUME NEW w \in Workers, NotifyNoWork(w)
      PROVE  /\ UNCHANGED <<finished, num_tasks, tm_pc, task>> /\ phase[w] = "WORK_REQUEST"
             /\ phase' = [phase EXCEPT ![w] = "WORK_COMPLETE"]
  BY <1>3 DEF NotifyNoWork, SendComplete
<1>4. ASSUME NEW w \in Workers, HandleRequest(w)
      PROVE  /\ UNCHANGED <<finished, num_tasks>> /\ tm_pc = "listen" /\ phase[w] = "WORK_REQUEST"
             /\ \E p \in {"WORK_RESPONSE", "WORK_COMPLETE"} : phase' = [phase EXCEPT ![w] = p]
             /\ \E t \in {current_task, task[w]} : task' = [task EXCEPT ![w] = t]
  BY <1>1, <1>4 DEF HandleRequest, SendTask, SendComplete
<1>5. ASSUME NEW w \in Workers, WakeUp(w) \/ ReceiveComplete(w)
      PROVE  /\ UNCHANGED <<finished, num_tasks, tm_pc, task>> /\ phase[w] # "run_synth"
             /\ \E p \in {"WORK_REQUEST", "exited"} : phase' = [phase EXCEPT ![w] = p]
  BY <1>5 DEF WakeUp, ReceiveComplete, managerVars
<1>6. CASE \E w \in Workers : NotifyNoWork(w)
  BY <1>1, <1>3, <1>6 DEF ProtocolStep, Kept
<1>7. CASE \E w \in Workers : HandleRequest(w)
  BY <1>1, <1>4, <1>7 DEF ProtocolStep, Kept
<1>8. CASE \E w \in Workers : WakeUp(w) \/ ReceiveComplete(w)
  BY <1>1, <1>5, <1>8 DEF ProtocolStep, Kept
<1> QED BY <1>2, <1>6, <1>7, <1>8 DEF ProtocolStep, Manager

LEMMA ProtocolKeeps == IInv /\ NetInv /\ ProtocolStep => NetInv'
<1> SUFFICES ASSUME IInv, NetInv, ProtocolStep PROVE NetInv'
  OBVIOUS
<1> USE DEF NetInv
<1>1. /\ UNCHANGED <<mode, chan, netVars, tuples, told>>
      /\ \A w \in Workers : /\ phase'[w] = "run_synth" <=> phase[w] = "run_synth"
                            /\ phase[w] = "run_synth" => task'[w] = task[w]
      /\ tm_pc = "returned" => tm_pc' = "returned"
  BY ProtocolEffect
<1>2. NetTypes' /\ WorkerPlace' /\ Told'
  BY <1>1 DEF NetTypes, WorkerPlace, Told, netVars
<1>3. Exchange'
  BY <1>1, PairFrame DEF Exchange, Serves, netVars, WorkerPlace
<1>4. Streams' /\ ManagerLinks'
  BY <1>1, StreamsFrame, ManagerFrame DEF SentNext, netVars
<1> QED BY <1>2, <1>3, <1>4
-----------------------------------------------------------------------------
(* A worker that is not with a handler has no exchange with any. *)
LEMMA ElsewhereNotAsked ==
    ASSUME NetInv, NEW w \in Workers, at[w] \notin {"list", "reply"}, NEW h \in Handlers
    PROVE  NotAsked(w, h)
BY DEF NetInv, Exchange, Pair, Asks, NotAsked, Requested, RequestTaken, BothSent, ListSent,
       Answered, AllAnswered

(* A step of one worker that is with the handler h, or turns to it, touches  *)
(* no other pair.                                                            *)
LEMMA OtherPairs ==
    ASSUME NetInv, NEW w \in Workers, NEW g \in Handlers,
           UNCHANGED <<task, hpc, hsrc, hlist, hcount>>,
           \A v \in Workers \ {w} : at'[v] = at[v] /\ ask'[v] = ask[v] /\ count'[v] = count[v],
           \A h \in Handlers \ {g} : ~Asks(w, h) /\ ~Asks(w, h)',
           \A l \in Links : l # <<w, g>> /\ l # <<g, w>> => chan'[l] = chan[l]
    PROVE  \A v \in Workers, h \in Handlers : <<v, h>> # <<w, g>> => Pair(v, h)'
<1> SUFFICES ASSUME NEW v \in Workers, NEW h \in Handlers, <<v, h>> # <<w, g>>
             PROVE  Pair(v, h)'
  OBVIOUS
<1>1. Pair(v, h)
  BY DEF NetInv, Exchange
<1>2. chan'[<<v, h>>] = chan[<<v, h>>] /\ chan'[<<h, v>>] = chan[<<h, v>>]
  BY LinksApart
<1>3. CASE v # w
  BY <1>1, <1>2, <1>3, PairFrame DEF Serves
<1>4. CASE v = w
  BY <1>1, <1>2, <1>4, NotAskedFrame
<1> QED BY <1>3, <1>4

(* What a worker's step among the handlers leaves as it is *)
LEMMA AskingFrame ==
    ASSUME NetInv, NEW w \in Workers, UNCHANGED <<mode, tuples, told, masterVars, notified, tm_pc>>,
           UNCHANGED hpc,
           \A v \in Workers \ {w} : at'[v] = at[v],
           at[w] \notin {"metadata", "contents"}, at'[w] \notin {"metadata", "contents"},
           \A v \in Workers : chan'[<<v, Master>>] = chan[<<v, Master>>],
           \A s \in Servers : chan'[<<TaskManagerId, s>>] = chan[<<TaskManagerId, s>>]
    PROVE  Streams' /\ ManagerLinks' /\ Told'
<1>1. \A v \in Workers : SentNext(v)' = SentNext(v)
  BY DEF SentNext
<1> QED BY <1>1, StreamsFrame, ManagerFrame DEF NetInv, masterVars, Told

LEMMA HandlerLinksOnly ==
    ASSUME NEW w \in Workers, NEW g \in Handlers,
           \A l \in Links : l # <<w, g>> /\ l # <<g, w>> => chan'[l] = chan[l]
    PROVE  /\ \A v \in Workers : chan'[<<v, Master>>] = chan[<<v, Master>>]
           /\ \A s \in Servers : chan'[<<TaskManagerId, s>>] = chan[<<TaskManagerId, s>>]
<1>1. \A v \in Workers : <<v, Master>> # <<w, g>> /\ <<v, Master>> # <<g, w>>
  BY LinksApart
<1>2. \A s \in Servers : <<TaskManagerId, s>> # <<w, g>> /\ <<TaskManagerId, s>> # <<g, w>>
  BY LinksApart
<1> QED BY <1>1, <1>2, LinksApart

LEMMA StartTaskKeeps ==
    ASSUME IInv, NetInv, NEW w \in Workers, StartTask(w), Kept PROVE NetInv'
<1> USE DEF NetInv
<1>1. phase[w] = "WORK_RESPONSE" /\ task[w] \in Tasks /\ at[w] = "idle"
  BY DEF StartTask, ReceiveTask, IInv, HeldKnown, Busy, WorkerPlace
<1>2. Needs[task[w]] \in SUBSET Handlers
  BY <1>1, TasksBounded, DirectSynthAssumption DEF IInv
<1>3. /\ at' = [at EXCEPT ![w] = IF Needs[task[w]] = {} THEN "header" ELSE "ask"]
      /\ ask' = [ask EXCEPT ![w] = Needs[task[w]]] /\ count' = [count EXCEPT ![w] = 0]
      /\ phase' = [phase EXCEPT ![w] = "run_synth"]
      /\ UNCHANGED <<task, tm_pc, chan, handlerVars, masterVars, notified, mode, tuples, told>>
  BY DEF StartTask, ReceiveTask, managerVars, Kept
<1>4. NetTypes'
  BY <1>2, <1>3 DEF NetTypes, handlerVars, masterVars, Places
<1>5. phase \in [Workers -> Phases] /\ NumClusters > 0
  BY DirectSynthAssumption DEF IInv, TypeOK
<1>6. WorkerPlace'
  BY <1>1, <1>3, <1>5 DEF WorkerPlace, NetTypes
<1>7. \A v \in Workers \ {w} : at'[v] = at[v] /\ ask'[v] = ask[v] /\ count'[v] = count[v]
  BY <1>3 DEF NetTypes
<1>8. at'[w] \in {"header", "ask"}
  BY <1>3 DEF NetTypes
<1>9. Streams' /\ ManagerLinks' /\ Told'
  BY <1>1, <1>3, <1>7, <1>8, AskingFrame DEF handlerVars
<1>10. ASSUME NEW v \in Workers, NEW h \in Handlers PROVE Pair(v, h)'
  <2>1. CASE v # w
    BY <1>3, <1>7, <2>1, PairFrame DEF Exchange, Serves, handlerVars
  <2>2. CASE v = w
    BY <1>1, <1>3, <1>8, <2>2, NotAskedFrame DEF Exchange, Asks, handlerVars
  <2> QED BY <2>1, <2>2
<1> QED BY <1>3, <1>4, <1>6, <1>9, <1>10 DEF Exchange, handlerVars

(* One of the two messages of a request: only its own pair moves. *)
LEMMA RequestPart ==
    ASSUME NetInv, NEW w \in Workers, NEW g \in Handlers, g = Asking(w), NEW m \in Message,
           NEW p \in {"list", "reply"}, at[w] \in {"ask", "list"}, Send(w, g, m),
           at' = [at EXCEPT ![w] = p], Kept,
           UNCHANGED <<vars, count, ask, handlerVars, masterVars, notified>>
    PROVE  /\ chan'[<<w, g>>] = Append(chan[<<w, g>>], m)
           /\ chan'[<<g, w>>] = chan[<<g, w>>]
           /\ at'[w] = p
           /\ Pair(w, g)' => NetInv'
<1>1. <<w, g>> \in Links /\ <<g, w>> \in Links /\ <<g, w>> # <<w, g>>
  BY LinksApart
<1>2. NetTypes
  BY DEF NetInv
<1>3. /\ chan' \in [Links -> Seq(Message)]
      /\ chan'[<<w, g>>] = Append(chan[<<w, g>>], m)
      /\ \A l \in Links : l # <<w, g>> => chan'[l] = chan[l]
  BY <1>1, <1>2, SendEffect
<1>4. NetTypes'
  BY <1>2, <1>3 DEF NetTypes, handlerVars, masterVars, Places, Kept
<1>5. at'[w] = p /\ \A v \in Workers \ {w} : at'[v] = at[v]
  BY <1>2 DEF NetTypes
<1>6. WorkerPlace'
  BY <1>5 DEF WorkerPlace, vars, NetInv
<1>7. Streams' /\ ManagerLinks' /\ Told'
  <2>1. /\ \A v \in Workers : chan'[<<v, Master>>] = chan[<<v, Master>>]
        /\ \A s \in Servers : chan'[<<TaskManagerId, s>>] = chan[<<TaskManagerId, s>>]
    BY <1>3, HandlerLinksOnly
  <2> QED BY <1>5, <2>1, AskingFrame DEF handlerVars, vars, managerVars, Kept
<1>8. \A v \in Workers, h \in Handlers : <<v, h>> # <<w, g>> => Pair(v, h)'
  <2>1. \A h \in Handlers \ {g} : ~Asks(w, h) /\ ~Asks(w, h)'
    BY DEF Asks, Asking
  <2> QED BY <1>3, <1>5, <2>1, OtherPairs DEF handlerVars, vars
<1> QED BY <1>1, <1>3, <1>4, <1>5, <1>6, <1>7, <1>8 DEF Exchange, handlerVars, NetInv

LEMMA SendRequestKeeps ==
    ASSUME IInv, NetInv, NEW w \in Workers, SendRequest(w), Kept PROVE NetInv'
<1>1. at[w] = "ask" /\ Asking(w) \in Handlers
  BY AskedIsHandler DEF SendRequest, NetInv
<1> PICK g \in Handlers : g = Asking(w)
  BY <1>1
<1>2. Msg("SGT_REQUEST", task[w], 0) \in Message
  <2>1. task[w] \in Int /\ "SGT_REQUEST" \in Kinds
    BY TaskType DEF Kinds
  <2> QED BY <2>1, MessageType
<1> PICK m \in Message : m = Msg("SGT_REQUEST", task[w], 0)
  BY <1>2
<1>3. /\ at' = [at EXCEPT ![w] = "list"] /\ Send(w, g, m)
      /\ UNCHANGED <<vars, count, ask, handlerVars, masterVars, notified>>
  BY DEF SendRequest
<1>4. /\ chan'[<<w, g>>] = Append(chan[<<w, g>>], m) /\ chan'[<<g, w>>] = chan[<<g, w>>]
      /\ at'[w] = "list" /\ (Pair(w, g)' => NetInv')
  BY <1>1, <1>3, RequestPart
<1>5. NotAsked(w, g)
  BY <1>1, ElsewhereNotAsked
<1>6. chan'[<<w, g>>] = <<m>> /\ chan'[<<g, w>>] = <<>>
  BY <1>4, <1>5 DEF NotAsked, Nothing
<1>7. Requested(w, g)'
  BY <1>3, <1>4, <1>5, <1>6 DEF Requested, Asks, Asking, NotAsked, Serves, handlerVars, vars
<1> QED BY <1>4, <1>7 DEF Pair

LEMMA SendListKeeps ==
    ASSUME IInv, NetInv, NEW w \in Workers, SendList(w), Kept PROVE NetInv'
<1>1. at[w] = "list" /\ Asking(w) \in Handlers
  BY AskedIsHandler DEF SendList, NetInv
<1> PICK g \in Handlers : g = Asking(w)
  BY <1>1
<1>2. Msg("SGT_LIST", task[w], 0) \in Message
  <2>1. task[w] \in Int /\ "SGT_LIST" \in Kinds
    BY TaskType DEF Kinds
  <2> QED BY <2>1, MessageType
<1> PICK m \in Message : m = Msg("SGT_LIST", task[w], 0)
  BY <1>2
<1>3. /\ at' = [at EXCEPT ![w] = "reply"] /\ Send(w, g, m)
      /\ UNCHANGED <<vars, count, ask, handlerVars, masterVars, notified>>
  BY DEF SendList
<1>4. /\ chan'[<<w, g>>] = Append(chan[<<w, g>>], m) /\ chan'[<<g, w>>] = chan[<<g, w>>]
      /\ at'[w] = "reply" /\ (Pair(w, g)' => NetInv')
  BY <1>1, <1>3, RequestPart
<1>5. Asks(w, g) /\ Asks(w, g)' /\ count'[w] = 0 /\ (Serves(g, w)' <=> Serves(g, w))
  BY <1>1, <1>3, <1>4 DEF Asks, Asking, NetInv, WorkerPlace, Serves, handlerVars
<1>6. Requested(w, g) \/ RequestTaken(w, g)
  BY <1>1, <1>5 DEF NetInv, Exchange, Pair, NotAsked, BothSent, ListSent, Answered, AllAnswered
<1>7. CASE Requested(w, g)
  <2> DEFINE r == Msg("SGT_REQUEST", task[w], 0)
  <2>2. chan[<<w, g>>] = <<r>> /\ chan[<<g, w>>] = <<>> /\ ~Serves(g, w) /\ task' = task
    BY <1>3, <1>7 DEF Requested, vars
  <2>4. r \in Message
    <3>1. task[w] \in Int /\ "SGT_REQUEST" \in Kinds
      BY TaskType DEF Kinds
    <3> QED BY <3>1, MessageType
  <2>3. chan'[<<w, g>>] = <<r, m>>
    <3> HIDE DEF r
    <3> QED BY <1>4, <2>2, <2>4, AppendOne
  <2>1. BothSent(w, g)'
    BY <1>4, <1>5, <2>2, <2>3 DEF BothSent
  <2> QED BY <1>4, <2>1 DEF Pair
<1>8. CASE RequestTaken(w, g)
  <2>1. ListSent(w, g)'
    BY <1>3, <1>4, <1>5, <1>8 DEF RequestTaken, ListSent, Nothing, vars, handlerVars
  <2> QED BY <1>4, <2>1 DEF Pair
<1> QED BY <1>6, <1>7, <1>8

(* Answers stay in order when one is received and when one is sent. *)
LEMMA InOrderTail ==
    ASSUME NEW s \in Seq(Message), s # <<>>, NEW t, NEW c \in Nat, InOrder(s, t, c)
    PROVE  InOrder(Tail(s), t, c + 1)
<1> SUFFICES ASSUME NEW i \in 1 .. Len(Tail(s))
             PROVE  Tail(s)[i].task = t /\ Tail(s)[i].n = (c + 1) + i - 1
  BY DEF InOrder
<1>1. i \in Nat /\ i + 1 \in 1 .. Len(s) /\ Tail(s)[i] = s[i + 1]
  OBVIOUS
<1>2. s[i + 1].task = t /\ s[i + 1].n = c + (i + 1) - 1
  BY <1>1 DEF InOrder
<1>3. c + (i + 1) - 1 = (c + 1) + i - 1
  BY <1>1
<1> QED BY <1>1, <1>2, <1>3

LEMMA InOrderAppend ==
    ASSUME NEW s \in Seq(Message), NEW t, NEW c \in Nat, InOrder(s, t, c),
           NEW m \in Message, m.task = t, m.n = c + Len(s)
    PROVE  InOrder(Append(s, m), t, c)
<1> SUFFICES ASSUME NEW i \in 1 .. Len(s) + 1
             PROVE  Append(s, m)[i].task = t /\ Append(s, m)[i].n = c + i - 1
  BY DEF InOrder
<1>1. CASE i \in 1 .. Len(s)
  <2>1. Append(s, m)[i] = s[i]
    BY <1>1
  <2> QED BY <1>1, <2>1 DEF InOrder
<1>2. CASE i = Len(s) + 1
  <2>1. Append(s, m)[i] = m /\ c + i - 1 = c + Len(s)
    BY <1>2
  <2> QED BY <2>1
<1> QED BY <1>1, <1>2

LEMMA AnswersTail ==
    ASSUME NetInv, NEW w \in Workers, NEW h \in Handlers, NEW sofar \in Int, Answers(w, h, sofar),
           chan[<<h, w>>] # <<>>, chan'[<<h, w>>] = Tail(chan[<<h, w>>]),
           chan'[<<w, h>>] = chan[<<w, h>>], task'[w] = task[w], count'[w] = count[w] + 1
    PROVE  Answers(w, h, sofar)'
<1>1. chan[<<h, w>>] \in Seq(Message) /\ count[w] \in Nat
  BY LinksApart DEF NetInv, NetTypes
<1>2. InOrder(Tail(chan[<<h, w>>]), task[w], count[w] + 1)
  BY <1>1, InOrderTail DEF Answers
<1>3. Len(Tail(chan[<<h, w>>])) = Len(chan[<<h, w>>]) - 1 /\ Len(chan[<<h, w>>]) \in Nat
  BY <1>1
<1>4. InOrder(chan[<<h, w>>], task[w], count[w])'
  BY <1>2
<1>5. (count[w] + 1) + (Len(chan[<<h, w>>]) - 1) = sofar /\ chan[<<w, h>>] = <<>>
  <2> DEFINE n == Len(chan[<<h, w>>])
  <2>1. count[w] + n = sofar /\ n \in Nat /\ chan[<<w, h>>] = <<>>
    BY <1>3 DEF Answers
  <2> HIDE DEF n
  <2>2. (count[w] + 1) + (n - 1) = sofar
    BY <1>1, <2>1
  <2> QED BY <2>1, <2>2 DEF n
<1> QED BY <1>3, <1>4, <1>5 DEF Answers

LEMMA ReceiveReplyKeeps ==
    ASSUME IInv, NetInv, NEW w \in Workers, ReceiveReply(w), Kept PROVE NetInv'
<1>1. at[w] = "reply" /\ Asking(w) \in Handlers
  BY AskedIsHandler DEF ReceiveReply, NetInv
<1> PICK g \in Handlers : g = Asking(w)
  BY <1>1
<1>2. /\ chan[<<g, w>>] # <<>> /\ Received(g, w)
      /\ UNCHANGED <<vars, handlerVars, masterVars, notified>>
  BY DEF ReceiveReply, CanReceive
<1>3. NetTypes /\ <<g, w>> \in Links /\ <<w, g>> \in Links /\ <<w, g>> # <<g, w>>
  BY LinksApart DEF NetInv
<1>4. /\ chan' \in [Links -> Seq(Message)]
      /\ chan'[<<g, w>>] = Tail(chan[<<g, w>>])
      /\ \A l \in Links : l # <<g, w>> => chan'[l] = chan[l]
  BY <1>2, <1>3, ReceiveEffect
<1>5. Asks(w, g) /\ (Answered(w, g) \/ AllAnswered(w, g))
  BY <1>1, <1>2 DEF Asks, NetInv, Exchange, Pair, NotAsked, Nothing, Requested, RequestTaken,
                    BothSent, ListSent
<1>6. (Serves(g, w)' <=> Serves(g, w)) /\ task' = task
  BY <1>2 DEF Serves, handlerVars, vars
<1>7. /\ count \in [Workers -> Nat] /\ NumComps \in Nat /\ at \in [Workers -> Places]
      /\ ask \in [Workers -> SUBSET Handlers] /\ NumClusters > 0 /\ hcount[g] \in Nat
  BY <1>3, DirectSynthAssumption DEF NetTypes
<1>8. chan'[<<w, g>>] = chan[<<w, g>>]
  BY <1>3, <1>4
<1> DEFINE Moved == /\ WorkerPlace' /\ Pair(w, g)'
                    /\ \A v \in Workers \ {w} : /\ at'[v] = at[v] /\ ask'[v] = ask[v]
                                                 /\ count'[v] = count[v]
                    /\ \A h \in Handlers \ {g} : ~Asks(w, h) /\ ~Asks(w, h)'
                    /\ at'[w] \in {"reply", "header", "ask"}
                    /\ ask' \in [Workers -> SUBSET Handlers] /\ count' \in [Workers -> Nat]
                    /\ at' \in [Workers -> Places]
<1>9. ASSUME count[w] < NumComps PROVE Moved
  <2>1. count' = [count EXCEPT ![w] = @ + 1] /\ UNCHANGED <<at, ask>>
    BY <1>9 DEF ReceiveReply
  <2>2. count'[w] = count[w] + 1 /\ Asks(w, g)'
    BY <1>5, <1>7, <2>1 DEF Asks, Asking
  <2>3. ASSUME Answered(w, g) PROVE Pair(w, g)'
    <3>1. Answers(w, g, hcount[g])'
      BY <1>2, <1>4, <1>6, <1>7, <1>8, <2>2, <2>3, AnswersTail DEF Answered, handlerVars
    <3>2. Answered(w, g)'
      BY <1>2, <1>6, <2>1, <2>2, <2>3, <3>1 DEF Answered, handlerVars
    <3> QED BY <3>2 DEF Pair
  <2>4. ASSUME AllAnswered(w, g) PROVE Pair(w, g)'
    <3>1. Answers(w, g, NumComps + 1)'
      BY <1>2, <1>4, <1>6, <1>7, <1>8, <2>2, <2>4, AnswersTail DEF AllAnswered
    <3>2. AllAnswered(w, g)'
      BY <1>6, <1>7, <1>9, <2>1, <2>2, <2>4, <3>1 DEF AllAnswered
    <3> QED BY <3>2 DEF Pair
  <2>5. \A h \in Handlers \ {g} : ~Asks(w, h) /\ ~Asks(w, h)'
    BY <2>1 DEF Asks, Asking
  <2>6. at'[w] = "reply" /\ WorkerPlace'
    BY <1>1, <1>2, <1>7, <2>1 DEF WorkerPlace, vars, NetInv
  <2>7. \A v \in Workers \ {w} : at'[v] = at[v] /\ ask'[v] = ask[v] /\ count'[v] = count[v]
    BY <1>7, <2>1
  <2>8. ask' \in [Workers -> SUBSET Handlers] /\ count' \in [Workers -> Nat]
        /\ at' \in [Workers -> Places]
    BY <1>7, <2>1
  <2> QED BY <1>5, <2>3, <2>4, <2>5, <2>6, <2>7, <2>8
<1>10. ASSUME ~(count[w] < NumComps) PROVE Moved
  <2>1. /\ count' = [count EXCEPT ![w] = 0] /\ ask' = [ask EXCEPT ![w] = @ \ {g}]
        /\ at' = [at EXCEPT ![w] = IF ask'[w] = {} THEN "header" ELSE "ask"]
    BY <1>10 DEF ReceiveReply
  <2>2. count'[w] = 0 /\ at'[w] = IF ask'[w] = {} THEN "header" ELSE "ask"
    BY <1>7, <2>1
  <2>3. \A v \in Workers \ {w} : at'[v] = at[v] /\ ask'[v] = ask[v] /\ count'[v] = count[v]
    BY <1>7, <2>1
  <2>4. \A h \in Handlers : ~Asks(w, h)'
    BY <2>2 DEF Asks
  <2>5. \A h \in Handlers \ {g} : ~Asks(w, h)
    BY DEF Asks
  <2> DEFINE n == Len(chan[<<g, w>>])
  <2>6. n \in Nat \ {0} /\ count[w] \in Nat
    BY <1>2, <1>3, <1>7 DEF NetTypes
  <2>7. chan[<<w, g>>] = <<>> /\ ~Serves(g, w) /\ n = 1
    <3>1. ~Answered(w, g)
      <4>1. Answered(w, g) => hcount[g] <= NumComps /\ count[w] + n = hcount[g]
        BY DEF Answered, Answers
      <4> HIDE DEF n
      <4> QED BY <1>7, <1>10, <2>6, <4>1
    <3>2. chan[<<w, g>>] = <<>> /\ ~Serves(g, w) /\ count[w] <= NumComps
          /\ count[w] + n = NumComps + 1
      BY <1>5, <3>1 DEF AllAnswered, Answers
    <3> HIDE DEF n
    <3> QED BY <1>7, <1>10, <2>6, <3>2
  <2>8. chan'[<<g, w>>] = <<>>
    <3>1. chan[<<g, w>>] \in Seq(Message)
      BY <1>3 DEF NetTypes
    <3>2. Tail(chan[<<g, w>>]) \in Seq(Message) /\ Len(Tail(chan[<<g, w>>])) = 0
      BY <1>2, <2>7, <3>1
    <3> QED BY <1>4, <3>2, EmptySeq
  <2>9. Pair(w, g)'
    BY <1>6, <1>8, <2>4, <2>7, <2>8 DEF NotAsked, Nothing, Pair
  <2>10. WorkerPlace'
    BY <1>1, <1>2, <1>7, <2>2, <2>3 DEF WorkerPlace, vars, NetInv
  <2>11. ask' \in [Workers -> SUBSET Handlers] /\ count' \in [Workers -> Nat]
         /\ at' \in [Workers -> Places]
    BY <1>7, <2>1 DEF Places
  <2>12. at'[w] \in {"reply", "header", "ask"}
    BY <2>2
  <2> QED BY <2>3, <2>4, <2>5, <2>9, <2>10, <2>11, <2>12
<1>11. Moved
  BY <1>9, <1>10
<1>12. NetTypes'
  BY <1>2, <1>3, <1>4, <1>11 DEF NetTypes, handlerVars, masterVars, Kept
<1>13. Streams' /\ ManagerLinks' /\ Told'
  <2>1. /\ \A v \in Workers : chan'[<<v, Master>>] = chan[<<v, Master>>]
        /\ \A s \in Servers : chan'[<<TaskManagerId, s>>] = chan[<<TaskManagerId, s>>]
    BY <1>4, HandlerLinksOnly
  <2> QED BY <1>1, <1>2, <1>11, <2>1, AskingFrame DEF handlerVars, vars, managerVars, Kept
<1>14. \A v \in Workers, h \in Handlers : <<v, h>> # <<w, g>> => Pair(v, h)'
  <2>1. UNCHANGED <<task, hpc, hsrc, hlist, hcount>>
    BY <1>2 DEF handlerVars, vars
  <2>2. /\ \A v \in Workers \ {w} : at'[v] = at[v] /\ ask'[v] = ask[v] /\ count'[v] = count[v]
        /\ \A h \in Handlers \ {g} : ~Asks(w, h) /\ ~Asks(w, h)'
    BY <1>11
  <2>3. \A l \in Links : l # <<w, g>> /\ l # <<g, w>> => chan'[l] = chan[l]
    BY <1>4
  <2> QED BY <2>1, <2>2, <2>3, OtherPairs
<1> QED BY <1>2, <1>11, <1>12, <1>13, <1>14 DEF Exchange, handlerVars, NetInv
-----------------------------------------------------------------------------
(* A step of a handler for one worker touches no other pair. *)
HandlerTypes == /\ hpc \in [Handlers -> {"listen", "list", "reply", "exited", "abort"}]
                /\ hsrc \in [Handlers -> Workers \cup {TaskManagerId}]
                /\ hlist \in [Handlers -> Int]
                /\ hcount \in [Handlers -> Nat]

LEMMA HandlerMove ==
    ASSUME NetInv, NEW w \in Workers, NEW h \in Handlers, Kept,
           UNCHANGED <<vars, workerVars, masterVars, notified>>,
           HandlerTypes', hpc'[h] \in {"listen", "list", "reply"}, hsrc'[h] = w,
           \A g \in Handlers \ {h} : /\ hpc'[g] = hpc[g] /\ hsrc'[g] = hsrc[g]
                                     /\ hlist'[g] = hlist[g] /\ hcount'[g] = hcount[g],
           chan' \in [Links -> Seq(Message)],
           \A l \in Links : l # <<w, h>> /\ l # <<h, w>> => chan'[l] = chan[l],
           \A v \in Workers \ {w} : ~Serves(h, v)
    PROVE  /\ UNCHANGED <<at, ask, count, task>>
           /\ Pair(w, h)' => NetInv'
<1>1. NetTypes
  BY DEF NetInv
<1>2. /\ hsrc'[h] = w
      /\ \A g \in Handlers \ {h} : /\ hpc'[g] = hpc[g] /\ hsrc'[g] = hsrc[g]
                                    /\ hlist'[g] = hlist[g] /\ hcount'[g] = hcount[g]
  OBVIOUS
<1>3. UNCHANGED <<at, ask, count, task, phase, mpc, msrc, written, notified, tuples, told, mode, tm_pc>>
  BY DEF workerVars, masterVars, vars, managerVars, Kept
<1>4. NetTypes'
  BY <1>1, <1>3 DEF NetTypes, HandlerTypes
<1>5. WorkerPlace'
  BY <1>3 DEF WorkerPlace, NetInv
<1>6. Streams' /\ ManagerLinks'
  <2>1. /\ \A v \in Workers : chan'[<<v, Master>>] = chan[<<v, Master>>]
        /\ \A s \in Servers : chan'[<<TaskManagerId, s>>] = chan[<<TaskManagerId, s>>]
    BY HandlerLinksOnly
  <2>2. \A v \in Workers : SentNext(v)' = SentNext(v)
    BY <1>3 DEF SentNext
  <2> QED BY <1>3, <2>1, <2>2, StreamsFrame, ManagerFrame DEF NetInv
<1>7. Told'
  BY <1>2, <1>3 DEF Told, NetInv
<1>8. ASSUME NEW v \in Workers, NEW g \in Handlers, <<v, g>> # <<w, h>> PROVE Pair(v, g)'
  <2>1. Pair(v, g)
    BY DEF NetInv, Exchange
  <2>2. chan'[<<v, g>>] = chan[<<v, g>>] /\ chan'[<<g, v>>] = chan[<<g, v>>]
    BY <1>8, LinksApart
  <2>3. CASE g # h
    BY <1>2, <1>3, <2>1, <2>2, <2>3, PairFrame DEF Serves
  <2>4. CASE g = h
    <3>1. v # w /\ ~Serves(h, v) /\ ~Serves(h, v)'
      BY <1>2, <1>8, <2>4 DEF Serves
    <3> QED BY <1>3, <2>1, <2>2, <2>4, <3>1, PairFrame
  <2> QED BY <2>3, <2>4
<1>9. /\ \A g \in Handlers : hpc'[g] \in {"list", "reply"} => hsrc'[g] \in Workers
      /\ \A g \in Handlers : hpc'[g] # "abort"
  BY <1>2 DEF NetInv, Exchange
<1> QED BY <1>2, <1>3, <1>4, <1>5, <1>6, <1>7, <1>8, <1>9 DEF NetInv, Exchange

LEMMA HandlerListenKeeps ==
    ASSUME IInv, NetInv, NEW h \in Handlers, HandlerListen(h), Kept PROVE NetInv'
<1>0. PICK p \in Workers \cup {TaskManagerId} :
        /\ hpc[h] = "listen" /\ chan[<<p, h>>] # <<>> /\ Received(p, h)
        /\ LET kind == Head(chan[<<p, h>>]).kind
           IN  /\ hpc' = [hpc EXCEPT ![h] = CASE kind = "SGT_REQUEST" -> "list"
                                              [] kind = "WORKERS_COMPLETE" -> "exited"
                                              [] OTHER -> "abort"]
               /\ hsrc' = [hsrc EXCEPT ![h] = p]
        /\ UNCHANGED <<vars, workerVars, hlist, hcount, masterVars, notified>>
  BY DEF HandlerListen, CanReceive
<1>1. NetTypes /\ <<p, h>> \in Links /\ \A v \in Workers : ~Serves(h, v)
  BY <1>0, LinksApart DEF NetInv, Serves
<1>2. /\ chan' \in [Links -> Seq(Message)]
      /\ chan'[<<p, h>>] = Tail(chan[<<p, h>>])
      /\ \A l \in Links : l # <<p, h>> => chan'[l] = chan[l]
      /\ Head(chan[<<p, h>>]) = chan[<<p, h>>][1]
  BY <1>0, <1>1, ReceiveEffect
<1> DEFINE kind == chan[<<p, h>>][1].kind
<1>3. CASE p = TaskManagerId
  <2>1. kind = "WORKERS_COMPLETE" /\ notified > 0
    <3>1. chan[<<TaskManagerId, h>>] \in Seq(Message)
      BY <1>1, LinksApart DEF NetTypes
    <3>2. 1 \in DOMAIN chan[<<TaskManagerId, h>>]
      BY <1>0, <1>3, <3>1
    <3> QED BY <1>3, <3>2 DEF NetInv, ManagerLinks
  <2>2. hpc' = [hpc EXCEPT ![h] = "exited"] /\ hsrc' = [hsrc EXCEPT ![h] = TaskManagerId]
    BY <1>0, <1>2, <1>3, <2>1
  <2>3. UNCHANGED <<at, ask, count, task, phase, mpc, msrc, written, notified, tuples, told, mode,
                    tm_pc, hlist, hcount>>
    BY <1>0 DEF workerVars, masterVars, vars, managerVars, Kept
  <2>4. NetTypes'
    <3>1. /\ hpc' \in [Handlers -> {"listen", "list", "reply", "exited", "abort"}]
          /\ hsrc' \in [Handlers -> Workers \cup {TaskManagerId}]
      BY <1>1, <2>2 DEF NetTypes
    <3> QED BY <1>1, <1>2, <2>3, <3>1 DEF NetTypes
  <2>5. WorkerPlace'
    BY <2>3 DEF WorkerPlace, NetInv
  <2>6. hpc'[h] = "exited" /\ \A g \in Handlers \ {h} : hpc'[g] = hpc[g] /\ hsrc'[g] = hsrc[g]
    BY <1>1, <2>2 DEF NetTypes
  <2>7. Told'
    BY <2>1, <2>3, <2>6 DEF Told, NetInv
  <2>8. /\ \A v \in Workers : chan'[<<v, Master>>] = chan[<<v, Master>>]
        /\ chan'[<<TaskManagerId, Master>>] = chan[<<TaskManagerId, Master>>]
        /\ \A g \in Handlers \ {h} : chan'[<<TaskManagerId, g>>] = chan[<<TaskManagerId, g>>]
        /\ \A v \in Workers, g \in Handlers : /\ chan'[<<v, g>>] = chan[<<v, g>>]
                                             /\ chan'[<<g, v>>] = chan[<<g, v>>]
    BY <1>2, <1>3, LinksApart
  <2>9. Streams'
    <3>1. \A v \in Workers : SentNext(v)' = SentNext(v)
      BY <2>3 DEF SentNext
    <3> QED BY <2>3, <2>8, <3>1, StreamsFrame DEF NetInv
  <2>10. Exchange'
    <3>1. ASSUME NEW v \in Workers, NEW g \in Handlers PROVE Pair(v, g)'
      <4>1. Pair(v, g)
        BY DEF NetInv, Exchange
      <4>2. CASE g # h
        BY <2>3, <2>6, <2>8, <4>1, <4>2, PairFrame DEF Serves
      <4>3. CASE g = h
        <5>1. ~Serves(h, v) /\ ~Serves(h, v)'
          BY <1>1, <2>6 DEF Serves
        <5> QED BY <2>3, <2>8, <4>1, <4>3, <5>1, PairFrame
      <4> QED BY <4>2, <4>3
    <3> QED BY <2>6, <3>1 DEF NetInv, Exchange
  <2>11. ManagerLinks'
    <3>1. FromManager' = FromManager
      BY <2>8 DEF FromManager
    <3>2. \A i \in DOMAIN chan'[<<TaskManagerId, h>>] :
              chan'[<<TaskManagerId, h>>][i].kind = "WORKERS_COMPLETE"
      <4>1. chan[<<TaskManagerId, h>>] \in Seq(Message) /\ chan[<<TaskManagerId, h>>] # <<>>
        BY <1>0, <1>1, <1>3, LinksApart DEF NetTypes
      <4>2. \A i \in 1 .. Len(chan[<<TaskManagerId, h>>]) :
                chan[<<TaskManagerId, h>>][i].kind = "WORKERS_COMPLETE"
        BY <4>1 DEF NetInv, ManagerLinks
      <4> DEFINE r == chan[<<TaskManagerId, h>>]
                 kd(i) == r[i].kind
      <4>3. \A i \in 1 .. Len(Tail(r)) : Tail(r)[i].kind = kd(i + 1) /\ i + 1 \in 1 .. Len(r)
        <5> HIDE DEF r
        <5> QED BY <4>1
      <4>4. \A i \in 1 .. Len(r) : kd(i) = "WORKERS_COMPLETE"
        BY <4>2
      <4>5. chan'[<<TaskManagerId, h>>] = Tail(r) /\ DOMAIN Tail(r) = 1 .. Len(Tail(r))
        BY <1>2, <1>3, <4>1
      <4> HIDE DEF kd, r
      <4> QED BY <4>3, <4>4, <4>5
    <3>3. ManagerLinks
      BY DEF NetInv
    <3> QED BY <2>1, <2>3, <2>8, <3>1, <3>2, <3>3 DEF ManagerLinks
  <2> QED BY <2>4, <2>5, <2>7, <2>9, <2>10, <2>11 DEF NetInv
<1>4. CASE p \in Workers
  <2> DEFINE s == chan[<<p, h>>]
  <2>1. Requested(p, h) \/ BothSent(p, h)
    <3>1. Pair(p, h) /\ ~Serves(h, p)
      BY <1>1, <1>4 DEF NetInv, Exchange
    <3> QED BY <1>0, <3>1 DEF Pair, NotAsked, Nothing, RequestTaken, ListSent, Answered, AllAnswered,
                        Answers
  <2>2. kind = "SGT_REQUEST"
    BY <2>1 DEF Requested, BothSent, Msg
  <2>3. hpc' = [hpc EXCEPT ![h] = "list"] /\ hsrc' = [hsrc EXCEPT ![h] = p]
    BY <1>0, <1>2, <2>2
  <2>5. /\ hpc'[h] = "list" /\ hsrc'[h] = p /\ UNCHANGED <<at, ask, count, task>>
        /\ (Pair(p, h)' => NetInv')
    <3>0. /\ HandlerTypes' /\ hpc'[h] = "list" /\ hsrc'[h] = p
          /\ \A g \in Handlers \ {h} : /\ hpc'[g] = hpc[g] /\ hsrc'[g] = hsrc[g]
                                        /\ hlist'[g] = hlist[g] /\ hcount'[g] = hcount[g]
      BY <1>0, <1>1, <1>4, <2>3 DEF NetTypes, HandlerTypes
    <3>1. /\ UNCHANGED <<vars, workerVars, masterVars, notified>>
          /\ \A l \in Links : l # <<p, h>> /\ l # <<h, p>> => chan'[l] = chan[l]
          /\ \A v \in Workers \ {p} : ~Serves(h, v)
          /\ chan' \in [Links -> Seq(Message)]
      BY <1>0, <1>1, <1>2
    <3> HIDE DEF kind
    <3> QED BY <1>4, <3>0, <3>1, HandlerMove
  <2>6. chan'[<<h, p>>] = <<>> /\ Serves(h, p)' /\ Asks(p, h)'
    <3>1. chan'[<<h, p>>] = chan[<<h, p>>]
      BY <1>2, <1>4, LinksApart
    <3> QED BY <1>4, <2>1, <2>5, <3>1 DEF Requested, BothSent, Asks, Asking, Serves
  <2>7. CASE Requested(p, h)
    <3>1. chan'[<<p, h>>] = <<>>
      BY <1>2, <2>7 DEF Requested
    <3>2. RequestTaken(p, h)'
      BY <2>5, <2>6, <2>7, <3>1 DEF RequestTaken, Requested, Nothing
    <3> QED BY <2>5, <3>2 DEF Pair
  <2>8. CASE BothSent(p, h)
    <3>1. chan'[<<p, h>>] = <<Msg("SGT_LIST", task[p], 0)>>
      BY <1>2, <2>8 DEF BothSent
    <3>2. ListSent(p, h)'
      BY <2>5, <2>6, <2>8, <3>1 DEF ListSent, BothSent
    <3> QED BY <2>5, <3>2 DEF Pair
  <2> QED BY <2>1, <2>7, <2>8
<1> QED BY <1>0, <1>3, <1>4

LEMMA HandlerListKeeps ==
    ASSUME IInv, NetInv, NEW h \in Handlers, HandlerReceiveList(h), Kept PROVE NetInv'
<1>1. hpc[h] = "list" /\ hsrc[h] \in Workers
  BY DEF HandlerReceiveList, HandlerTakeList
<1>0. PICK w \in Workers : w = hsrc[h]
  BY <1>1
<1>2. /\ chan[<<w, h>>] # <<>> /\ Received(w, h)
      /\ hlist' = [hlist EXCEPT ![h] = Head(chan[<<w, h>>]).task]
      /\ hpc' = [hpc EXCEPT ![h] = "reply"]
      /\ hcount' = [hcount EXCEPT ![h] = 0]
      /\ UNCHANGED <<vars, workerVars, hsrc, masterVars, notified>>
  BY <1>0 DEF HandlerReceiveList, HandlerTakeList, CanReceive
<1>3. NetTypes /\ <<w, h>> \in Links /\ Serves(h, w) /\ \A v \in Workers \ {w} : ~Serves(h, v)
  BY <1>0, <1>1, LinksApart DEF NetInv, Serves
<1>4. ListSent(w, h)
  <2>1. Pair(w, h)
    BY DEF NetInv, Exchange
  <2> QED BY <1>1, <1>2, <1>3, <2>1 DEF Pair, NotAsked, Requested, RequestTaken, BothSent, Nothing,
                Answered, AllAnswered
<1>5. /\ chan' \in [Links -> Seq(Message)]
      /\ chan'[<<w, h>>] = Tail(chan[<<w, h>>])
      /\ \A l \in Links : l # <<w, h>> => chan'[l] = chan[l]
      /\ Head(chan[<<w, h>>]) = chan[<<w, h>>][1]
  BY <1>2, <1>3, ReceiveEffect
<1>6. /\ chan[<<w, h>>] = <<Msg("SGT_LIST", task[w], 0)>> /\ chan[<<h, w>>] = <<>>
      /\ Asks(w, h) /\ at[w] = "reply" /\ count[w] = 0
  BY <1>4 DEF ListSent
<1>7. chan'[<<w, h>>] = <<>> /\ chan'[<<h, w>>] = <<>>
  BY <1>5, <1>6, LinksApart
<1>8. Head(chan[<<w, h>>]).task = task[w] /\ task[w] \in Int
  BY <1>5, <1>6, TaskType DEF Msg
<1> PICK t \in Int : t = task[w]
  BY <1>8
<1>9. /\ HandlerTypes' /\ hpc'[h] = "reply" /\ hsrc'[h] = w /\ hlist'[h] = t /\ hcount'[h] = 0
      /\ \A g \in Handlers \ {h} : /\ hpc'[g] = hpc[g] /\ hsrc'[g] = hsrc[g]
                                    /\ hlist'[g] = hlist[g] /\ hcount'[g] = hcount[g]
  BY <1>0, <1>2, <1>3, <1>8 DEF NetTypes, HandlerTypes
<1>10. UNCHANGED <<at, ask, count, task>> /\ (Pair(w, h)' => NetInv')
  <2>1. /\ UNCHANGED <<vars, workerVars, masterVars, notified>>
        /\ \A l \in Links : l # <<w, h>> /\ l # <<h, w>> => chan'[l] = chan[l]
        /\ chan' \in [Links -> Seq(Message)]
    BY <1>2, <1>5
  <2>2. \A v \in Workers \ {w} : ~Serves(h, v)
    BY <1>3
  <2> QED BY <1>9, <2>1, <2>2, HandlerMove
<1>11. Answers(w, h, 0)'
  BY <1>6, <1>7, <1>9, <1>10 DEF Answers, InOrder
<1>12. Asks(w, h)' /\ Serves(h, w)'
  BY <1>6, <1>9, <1>10 DEF Asks, Asking, Serves
<1>13. NumComps >= 0
  BY DirectSynthAssumption
<1>14. Answered(w, h)'
  BY <1>6, <1>9, <1>10, <1>11, <1>12, <1>13 DEF Answered
<1> QED BY <1>9, <1>10, <1>14 DEF Pair

(* An answer sent follows on from the ones before it. *)
LEMMA HandlerReplyKeeps ==
    ASSUME IInv, NetInv, NEW h \in Handlers, HandlerReply(h), Kept PROVE NetInv'
<1>1. hpc[h] = "reply" /\ hsrc[h] \in Workers
  BY DEF HandlerReply, NetInv, Exchange
<1>0. PICK w \in Workers : w = hsrc[h]
  BY <1>1
<1>2. NetTypes /\ <<h, w>> \in Links /\ <<w, h>> \in Links /\ <<h, w>> # <<w, h>>
      /\ Serves(h, w) /\ \A v \in Workers \ {w} : ~Serves(h, v)
  BY <1>0, <1>1, LinksApart DEF NetInv, Serves
<1>3. Answered(w, h)
  <2>1. Pair(w, h)
    BY DEF NetInv, Exchange
  <2> QED BY <1>1, <1>2, <2>1 DEF Pair, NotAsked, Requested, RequestTaken, BothSent, ListSent,
                AllAnswered
<1>4. /\ hlist[h] = task[w] /\ hlist[h] \in Int /\ hcount[h] \in Nat /\ count[w] \in Nat
      /\ hcount[h] <= NumComps /\ NumComps \in Nat /\ chan[<<h, w>>] \in Seq(Message)
  BY <1>2, <1>3, DirectSynthAssumption DEF Answered, NetTypes
<1> DEFINE r == Msg(IF hcount[h] = 0 THEN "SGT_HEADER" ELSE "SGT_RAW", hlist[h], hcount[h])
<1>5. r \in Message /\ r.task = task[w] /\ r.n = hcount[h]
  <2>1. (IF hcount[h] = 0 THEN "SGT_HEADER" ELSE "SGT_RAW") \in Kinds
    BY DEF Kinds
  <2> QED BY <1>4, <2>1, MessageType DEF Msg
<1> PICK m \in Message : m = r
  BY <1>5
<1>6. m.task = task[w] /\ m.n = hcount[h]
  BY <1>5
<1> HIDE DEF r
<1> PICK p \in {"listen", "list", "reply"} : p = IF hcount[h] = NumComps THEN "listen" ELSE "reply"
  OBVIOUS
<1>7. /\ Send(h, w, m)
      /\ hcount' = [hcount EXCEPT ![h] = hcount[h] + 1]
      /\ hpc' = [hpc EXCEPT ![h] = p]
      /\ UNCHANGED <<vars, workerVars, hsrc, hlist, masterVars, notified>>
  BY <1>0 DEF HandlerReply, r
<1>8. /\ chan' \in [Links -> Seq(Message)]
      /\ chan'[<<h, w>>] = Append(chan[<<h, w>>], m)
      /\ \A l \in Links : l # <<h, w>> => chan'[l] = chan[l]
  BY <1>2, <1>7, SendEffect
<1> PICK c \in Nat : c = hcount[h] + 1
  BY <1>4
<1>9. /\ HandlerTypes' /\ hpc'[h] = p /\ hsrc'[h] = w /\ hlist'[h] = hlist[h] /\ hcount'[h] = c
      /\ \A g \in Handlers \ {h} : /\ hpc'[g] = hpc[g] /\ hsrc'[g] = hsrc[g]
                                    /\ hlist'[g] = hlist[g] /\ hcount'[g] = hcount[g]
  BY <1>0, <1>2, <1>7 DEF NetTypes, HandlerTypes
<1>10. UNCHANGED <<at, ask, count, task>> /\ (Pair(w, h)' => NetInv')
  <2>1. /\ UNCHANGED <<vars, workerVars, masterVars, notified>>
        /\ \A l \in Links : l # <<w, h>> /\ l # <<h, w>> => chan'[l] = chan[l]
        /\ chan' \in [Links -> Seq(Message)]
    BY <1>7, <1>8
  <2>2. \A v \in Workers \ {w} : ~Serves(h, v)
    BY <1>2
  <2> QED BY <1>9, <2>1, <2>2, HandlerMove
<1>11. chan'[<<w, h>>] = <<>> /\ Asks(w, h)' /\ at[w] = "reply"
  BY <1>2, <1>3, <1>8, <1>9, <1>10 DEF Answered, Answers, Asks, Asking
<1>12. Answers(w, h, c)'
  <2> DEFINE s == chan[<<h, w>>]
  <2>1. count[w] + Len(s) = hcount[h] /\ InOrder(s, task[w], count[w])
    BY <1>3 DEF Answered, Answers
  <2>2. Len(s) \in Nat /\ Len(Append(s, m)) = Len(s) + 1
    BY <1>4
  <2>3. InOrder(Append(s, m), task[w], count[w])
    BY <1>4, <1>6, <2>1, InOrderAppend
  <2>4. InOrder(chan[<<h, w>>], task[w], count[w])'
    BY <1>8, <1>9, <1>10, <2>3
  <2>5. count[w] + Len(Append(s, m)) = c
    <3> DEFINE n == Len(s)
    <3>1. count[w] + n = hcount[h] /\ n \in Nat /\ Len(Append(s, m)) = n + 1
      BY <2>1, <2>2
    <3>2. count[w] \in Nat /\ hcount[h] \in Nat /\ c = hcount[h] + 1
      BY <1>4
    <3> HIDE DEF n, s
    <3> QED BY <3>1, <3>2
  <2> QED BY <1>8, <1>9, <1>10, <1>11, <2>4, <2>5 DEF Answers
<1>13. CASE hcount[h] = NumComps
  <2>1. ~Serves(h, w)' /\ c = NumComps + 1
    BY <1>9, <1>10, <1>13 DEF Serves
  <2>2. count'[w] <= NumComps
    <3>1. count[w] + Len(chan[<<h, w>>]) = hcount[h] /\ Len(chan[<<h, w>>]) \in Nat
      BY <1>3, <1>4 DEF Answered, Answers
    <3> HIDE DEF r
    <3> QED BY <1>4, <1>9, <1>10, <3>1
  <2>3. AllAnswered(w, h)'
    BY <1>9, <1>10, <1>11, <1>12, <2>1, <2>2 DEF AllAnswered
  <2> QED BY <1>9, <1>10, <2>3 DEF Pair
<1>14. CASE hcount[h] # NumComps
  <2>1. Serves(h, w)' /\ p = "reply" /\ c <= NumComps
    BY <1>4, <1>9, <1>10, <1>14 DEF Serves
  <2>2. Answered(w, h)'
    BY <1>4, <1>9, <1>10, <1>11, <1>12, <2>1 DEF Answered
  <2> QED BY <1>9, <1>10, <2>2 DEF Pair
<1> QED BY <1>13, <1>14
-----------------------------------------------------------------------------
(* A worker's messages to the master keep their round when one is sent and   *)
(* when one is received.                                                     *)
LEMMA StreamAppend ==
    ASSUME NEW s \in Seq(Message), NEW first, NEW next \in ClusterKinds, Stream(s, first, next),
           NEW m \in Message, m.kind = next
    PROVE  Stream(Append(s, m), first, Follows(next))
<1> DEFINE t == Append(s, m)
           n == Len(s)
<1>1. n \in Nat /\ t \in Seq(Message) /\ Len(t) = n + 1 /\ t[n + 1] = m /\ t # <<>>
  OBVIOUS
<1>2. \A i \in 1 .. n : t[i] = s[i]
  OBVIOUS
<1>3. /\ \A i \in 1 .. n : s[i].kind \in ClusterKinds
      /\ \A i \in 1 .. n - 1 : s[i + 1].kind = Follows(s[i].kind)
      /\ s = <<>> => first = next
      /\ s # <<>> => s[1].kind = first /\ next = Follows(s[n].kind)
  BY DEF Stream
<1>4. s = <<>> <=> n = 0
  BY EmptySeq
<1> HIDE DEF t, n
<1>5. \A i \in 1 .. n + 1 : t[i].kind \in ClusterKinds
  BY <1>1, <1>2, <1>3
<1>6. ASSUME NEW i \in 1 .. n PROVE t[i + 1].kind = Follows(t[i].kind)
  <2>1. CASE i = n
    BY <1>1, <1>2, <1>3, <1>4, <2>1
  <2>2. CASE i # n
    <3>1. i \in 1 .. n - 1 /\ i + 1 \in 1 .. n
      BY <1>1, <2>2
    <3> QED BY <1>2, <1>3, <3>1
  <2> QED BY <2>1, <2>2
<1>7. t[1].kind = first
  <2>1. CASE n = 0
    BY <1>1, <1>3, <1>4, <2>1
  <2>2. CASE n # 0
    BY <1>1, <1>2, <1>3, <1>4, <2>2
  <2> QED BY <2>1, <2>2
<1>8. DOMAIN t = 1 .. n + 1 /\ Len(t) - 1 = n
  BY <1>1
<1>9. Stream(t, first, Follows(next))
  BY <1>1, <1>5, <1>6, <1>7, <1>8 DEF Stream
<1> QED BY <1>9 DEF t

LEMMA StreamTail ==
    ASSUME NEW s \in Seq(Message), s # <<>>, NEW first, NEW next, Stream(s, first, next)
    PROVE  Stream(Tail(s), Follows(first), next) /\ s[1].kind = first
<1> DEFINE t == Tail(s)
           n == Len(s)
<1>1. n \in Nat \ {0} /\ t \in Seq(Message) /\ Len(t) = n - 1
  OBVIOUS
<1>2. \A i \in 1 .. n - 1 : t[i] = s[i + 1]
  OBVIOUS
<1>3. /\ \A i \in 1 .. n : s[i].kind \in ClusterKinds
      /\ \A i \in 1 .. n - 1 : s[i + 1].kind = Follows(s[i].kind)
      /\ s[1].kind = first /\ next = Follows(s[n].kind)
  BY DEF Stream
<1> HIDE DEF t, n
<1>4. t = <<>> <=> n = 1
  <2>1. t # <<>> => Len(t) \in Nat \ {0}
    BY <1>1, EmptySeq
  <2>2. t = <<>> => Len(t) = 0
    BY EmptySeq
  <2> QED BY <1>1, <2>1, <2>2
<1>5. \A i \in 1 .. n - 1 : t[i].kind \in ClusterKinds
  <2> SUFFICES ASSUME NEW i \in 1 .. n - 1 PROVE t[i].kind \in ClusterKinds
    OBVIOUS
  <2>1. i + 1 \in 1 .. n /\ t[i] = s[i + 1]
    BY <1>1, <1>2
  <2> QED BY <1>3, <2>1
<1>6. ASSUME NEW i \in 1 .. n - 2 PROVE t[i + 1].kind = Follows(t[i].kind)
  <2>1. i \in 1 .. n - 1 /\ i + 1 \in 1 .. n - 1
    BY <1>1
  <2> QED BY <1>2, <1>3, <2>1
<1>7. n = 1 => Follows(first) = next
  BY <1>3
<1>8. n # 1 => t[1].kind = Follows(first) /\ next = Follows(t[n - 1].kind)
  BY <1>1, <1>2, <1>3
<1>9. DOMAIN t = 1 .. n - 1 /\ Len(t) - 1 = n - 2
  BY <1>1
<1>10. Stream(t, Follows(first), next)
  BY <1>1, <1>4, <1>5, <1>6, <1>7, <1>8, <1>9 DEF Stream
<1> QED BY <1>3, <1>10 DEF t

(* A worker away from the handlers leaves every exchange as it is. *)
LEMMA AwayFrame ==
    ASSUME NetInv, NEW w \in Workers, at[w] \notin {"list", "reply"}, at'[w] \notin {"list", "reply"},
           UNCHANGED <<task, ask, hpc, hsrc, hlist, hcount>>,
           \A v \in Workers \ {w} : at'[v] = at[v] /\ count'[v] = count[v],
           \A v \in Workers, h \in Handlers : /\ chan'[<<v, h>>] = chan[<<v, h>>]
                                            /\ chan'[<<h, v>>] = chan[<<h, v>>]
    PROVE  Exchange'
<1>1. ASSUME NEW v \in Workers, NEW h \in Handlers PROVE Pair(v, h)'
  <2>1. Pair(v, h)
    BY DEF NetInv, Exchange
  <2>2. CASE v # w
    BY <2>1, <2>2, PairFrame DEF Serves
  <2>3. CASE v = w
    <3>1. ~Asks(w, h) /\ ~Asks(w, h)'
      BY DEF Asks
    <3> QED BY <2>1, <2>3, <3>1, NotAskedFrame
  <2> QED BY <2>2, <2>3
<1> QED BY <1>1 DEF NetInv, Exchange

(* Nobody on either side of a handler's links moves. *)
LEMMA StillFrame ==
    ASSUME NetInv, UNCHANGED <<task, at, ask, count, hpc, hsrc, hlist, hcount>>,
           \A v \in Workers, h \in Handlers : /\ chan'[<<v, h>>] = chan[<<v, h>>]
                                            /\ chan'[<<h, v>>] = chan[<<h, v>>]
    PROVE  Exchange'
BY PairFrame DEF NetInv, Exchange, Serves

LEMMA EndTaskKeeps ==
    ASSUME IInv, NetInv, NEW w \in Workers, EndTask(w), Kept PROVE NetInv'
<1>1. /\ at[w] = "end" /\ at' = [at EXCEPT ![w] = "idle"]
      /\ phase' = [phase EXCEPT ![w] = "WORK_REQUEST"]
      /\ UNCHANGED <<task, tm_pc, chan, count, ask, handlerVars, masterVars, notified, mode, tuples, told>>
  BY DEF EndTask, FinishTask, managerVars, Kept
<1>2. NetTypes /\ phase \in [Workers -> Phases]
  BY DEF NetInv, IInv, TypeOK
<1>3. NetTypes'
  BY <1>1, <1>2 DEF NetTypes, handlerVars, masterVars, Places
<1>4. at'[w] = "idle" /\ \A v \in Workers \ {w} : at'[v] = at[v]
  BY <1>1, <1>2 DEF NetTypes
<1>5. WorkerPlace'
  BY <1>1, <1>2, <1>4 DEF WorkerPlace, NetInv
<1>6. Streams' /\ ManagerLinks' /\ Told'
  BY <1>1, <1>4, AskingFrame DEF handlerVars
<1>7. Exchange'
  BY <1>1, <1>4, AwayFrame DEF handlerVars
<1> QED BY <1>3, <1>5, <1>6, <1>7 DEF NetInv

LEMMA SendClusterKeeps ==
    ASSUME IInv, NetInv, NEW w \in Workers, SendCluster(w), Kept PROVE NetInv'
<1> DEFINE k == SentNext(w)
<1>1. NetTypes /\ <<w, Master>> \in Links /\ NumClusters \in Nat
  BY LinksApart, DirectSynthAssumption DEF NetInv
<1>2. /\ at[w] \in {"header", "metadata", "contents"} /\ count[w] \in Nat /\ count[w] < NumClusters
      /\ phase[w] = "run_synth"
  BY <1>1 DEF SendCluster, NetTypes, NetInv, WorkerPlace
<1>3. k \in ClusterKinds /\ k \in Kinds
  BY DEF SentNext, ClusterKinds, Kinds
<1>4. Msg(k, task[w], count[w]) \in Message
  <2>1. task[w] \in Int /\ count[w] \in Int
    BY <1>2, TaskType
  <2> HIDE DEF k
  <2> QED BY <1>3, <2>1, MessageType
<1>5. PICK m \in Message : m = Msg(k, task[w], count[w])
  BY <1>4
<1>6. m.kind = k
  BY <1>5 DEF Msg
<1>7. Send(w, Master, m) /\ UNCHANGED <<vars, ask, handlerVars, masterVars, notified>>
  BY <1>5 DEF SendCluster, SentNext
<1>8. /\ chan' \in [Links -> Seq(Message)]
      /\ chan'[<<w, Master>>] = Append(chan[<<w, Master>>], m)
      /\ \A l \in Links : l # <<w, Master>> => chan'[l] = chan[l]
  BY <1>1, <1>7, SendEffect
<1>9. /\ at' \in [Workers -> Places] /\ count' \in [Workers -> Nat]
      /\ \A v \in Workers \ {w} : at'[v] = at[v] /\ count'[v] = count[v]
      /\ at'[w] \in {"metadata", "contents", "header", "end"}
      /\ at'[w] = "end" => count'[w] = NumClusters
      /\ at'[w] # "end" => count'[w] < NumClusters
      /\ SentNext(w)' = Follows(k)
  <2>1. CASE at[w] = "header"
    <3>1. at' = [at EXCEPT ![w] = "metadata"] /\ count' = count
      BY <2>1 DEF SendCluster
    <3> QED BY <1>1, <1>2, <2>1, <3>1 DEF NetTypes, Places, SentNext, Follows
  <2>2. CASE at[w] = "metadata"
    <3>1. at' = [at EXCEPT ![w] = "contents"] /\ count' = count
      BY <2>2 DEF SendCluster
    <3> QED BY <1>1, <1>2, <2>2, <3>1 DEF NetTypes, Places, SentNext, Follows
  <2>3. CASE at[w] = "contents"
    <3>1. /\ count' = [count EXCEPT ![w] = @ + 1]
          /\ at' = [at EXCEPT ![w] = IF count'[w] = NumClusters THEN "end" ELSE "header"]
      BY <2>3 DEF SendCluster
    <3>2. /\ at'[w] = IF count'[w] = NumClusters THEN "end" ELSE "header"
          /\ count'[w] = count[w] + 1
      BY <1>1, <3>1 DEF NetTypes
    <3> QED BY <1>1, <1>2, <2>3, <3>1, <3>2 DEF NetTypes, Places, SentNext, Follows
  <2> QED BY <1>2, <2>1, <2>2, <2>3
<1> HIDE DEF k
<1>10. UNCHANGED <<phase, task, tm_pc, ask, hpc, hsrc, hlist, hcount, mpc, msrc, written, notified,
                   mode, tuples, told>>
  BY <1>7 DEF vars, managerVars, handlerVars, masterVars, Kept
<1>11. NetTypes'
  BY <1>1, <1>8, <1>9, <1>10 DEF NetTypes
<1>12. WorkerPlace'
  BY <1>2, <1>9, <1>10 DEF WorkerPlace, NetInv
<1>13. Exchange'
  <2>1. \A v \in Workers, h \in Handlers : /\ chan'[<<v, h>>] = chan[<<v, h>>]
                                         /\ chan'[<<h, v>>] = chan[<<h, v>>]
    BY <1>8, LinksApart
  <2> QED BY <1>2, <1>9, <1>10, <2>1, AwayFrame
<1>14. Streams'
  <2>1. Stream(ToMaster(w), Awaited(w), k) /\ ToMaster(w) \in Seq(Message)
    BY <1>1 DEF NetInv, Streams, NetTypes, ToMaster, k
  <2>2. Stream(Append(ToMaster(w), m), Awaited(w), Follows(k))
    BY <1>3, <1>6, <2>1, StreamAppend
  <2>3. \A v \in Workers : Awaited(v)' = Awaited(v)
    BY <1>10 DEF Awaited
  <2>4. Stream(ToMaster(w), Awaited(w), SentNext(w))'
    BY <1>8, <1>9, <2>2, <2>3 DEF ToMaster
  <2>5. ASSUME NEW v \in Workers, v # w PROVE Stream(ToMaster(v), Awaited(v), SentNext(v))'
    <3>1. ToMaster(v)' = ToMaster(v) /\ SentNext(v)' = SentNext(v)
      BY <1>8, <1>9, <2>5, LinksApart DEF ToMaster, SentNext
    <3>2. Stream(ToMaster(v), Awaited(v), SentNext(v))
      BY DEF NetInv, Streams
    <3> QED BY <2>3, <3>1, <3>2
  <2> QED BY <1>10, <2>4, <2>5 DEF NetInv, Streams
<1>15. ManagerLinks' /\ Told'
  <2>1. \A s \in Servers : chan'[<<TaskManagerId, s>>] = chan[<<TaskManagerId, s>>]
    BY <1>8, LinksApart
  <2> QED BY <1>10, <2>1, ManagerFrame DEF NetInv, Told
<1> QED BY <1>11, <1>12, <1>13, <1>14, <1>15 DEF NetInv
-----------------------------------------------------------------------------
(* A message of a worker received by the master: what the master waits for   *)
(* next is what follows in the worker's round.                               *)
LEMMA MasterMove ==
    ASSUME NetInv, NEW w \in Workers, Kept, UNCHANGED <<vars, workerVars, handlerVars, notified>>,
           chan[<<w, Master>>] # <<>>, Received(w, Master), written' \in Seq(Message),
           mpc' \in {"listen", "metadata", "contents"}, msrc' = w,
           Awaited(w)' = Follows(Awaited(w)),
           \A v \in Workers \ {w} : Awaited(v)' = Awaited(v)
    PROVE  NetInv'
<1>1. NetTypes /\ <<w, Master>> \in Links
  BY LinksApart DEF NetInv
<1>2. /\ chan' \in [Links -> Seq(Message)]
      /\ chan'[<<w, Master>>] = Tail(chan[<<w, Master>>])
      /\ \A l \in Links : l # <<w, Master>> => chan'[l] = chan[l]
  BY <1>1, ReceiveEffect
<1>3. UNCHANGED <<phase, task, tm_pc, at, count, ask, hpc, hsrc, hlist, hcount, notified,
                  mode, tuples, told>>
  BY DEF vars, managerVars, workerVars, handlerVars, Kept
<1>4. NetTypes'
  BY <1>1, <1>2, <1>3 DEF NetTypes
<1>5. WorkerPlace'
  BY <1>3 DEF NetInv, WorkerPlace
<1>6. Exchange'
  <2>1. \A v \in Workers, h \in Handlers : /\ chan'[<<v, h>>] = chan[<<v, h>>]
                                         /\ chan'[<<h, v>>] = chan[<<h, v>>]
    BY <1>2, LinksApart
  <2> QED BY <1>3, <2>1, StillFrame
<1>7. Streams'
  <2>1. Stream(ToMaster(w), Awaited(w), SentNext(w)) /\ ToMaster(w) \in Seq(Message)
        /\ ToMaster(w) # <<>>
    BY <1>1 DEF NetInv, Streams, NetTypes, ToMaster
  <2>2. Stream(Tail(ToMaster(w)), Follows(Awaited(w)), SentNext(w))
    BY <2>1, StreamTail
  <2>3. \A v \in Workers : SentNext(v)' = SentNext(v)
    BY <1>3 DEF SentNext
  <2>4. Stream(ToMaster(w), Awaited(w), SentNext(w))'
    BY <1>2, <2>2, <2>3 DEF ToMaster
  <2>5. ASSUME NEW v \in Workers, v # w PROVE Stream(ToMaster(v), Awaited(v), SentNext(v))'
    <3>1. ToMaster(v)' = ToMaster(v)
      BY <1>2, <2>5, LinksApart DEF ToMaster
    <3>2. Stream(ToMaster(v), Awaited(v), SentNext(v))
      BY DEF NetInv, Streams
    <3> QED BY <2>3, <2>5, <3>1, <3>2
  <2> QED BY <2>4, <2>5 DEF Streams
<1>8. ManagerLinks' /\ Told'
  <2>1. \A s \in Servers : chan'[<<TaskManagerId, s>>] = chan[<<TaskManagerId, s>>]
    BY <1>2, LinksApart
  <2> QED BY <1>3, <2>1, ManagerFrame DEF NetInv, Told
<1> QED BY <1>4, <1>5, <1>6, <1>7, <1>8 DEF NetInv

LEMMA MasterListenKeeps ==
    ASSUME IInv, NetInv, MasterListen, tuples = 2, Kept PROVE NetInv'
<1>0. PICK p \in Workers \cup {TaskManagerId} :
        /\ mpc = "listen" /\ chan[<<p, Master>>] # <<>> /\ Received(p, Master)
        /\ LET kind == Head(chan[<<p, Master>>]).kind
           IN  mpc' = CASE kind = "DATA_FILE" -> "metadata"
                        [] kind = "WORKERS_COMPLETE" -> "exited"
                        [] OTHER -> "abort"
        /\ msrc' = p
        /\ UNCHANGED <<vars, workerVars, handlerVars, written, notified>>
  BY DEF MasterListen, CanReceive
<1>1. NetTypes /\ <<p, Master>> \in Links /\ chan[<<p, Master>>] \in Seq(Message)
  BY LinksApart DEF NetInv, NetTypes
<1>2. /\ chan' \in [Links -> Seq(Message)]
      /\ chan'[<<p, Master>>] = Tail(chan[<<p, Master>>])
      /\ \A l \in Links : l # <<p, Master>> => chan'[l] = chan[l]
      /\ Head(chan[<<p, Master>>]) = chan[<<p, Master>>][1]
  BY <1>0, <1>1, ReceiveEffect
<1>3. \A v \in Workers : Awaited(v) = "DATA_FILE"
  BY <1>0 DEF Awaited
<1>4. CASE p \in Workers
  <2>1. chan[<<p, Master>>][1].kind = "DATA_FILE"
    <3>1. Stream(ToMaster(p), Awaited(p), SentNext(p)) /\ ToMaster(p) # <<>>
      BY <1>0, <1>4 DEF NetInv, Streams, ToMaster
    <3> QED BY <1>3, <1>4, <3>1 DEF Stream, ToMaster
  <2>2. mpc' = "metadata" /\ msrc' = p
    BY <1>0, <1>2, <2>1
  <2>3. Awaited(p)' = Follows(Awaited(p)) /\ \A v \in Workers \ {p} : Awaited(v)' = Awaited(v)
    BY <1>3, <1>4, <2>2 DEF Awaited, Follows
  <2>4. written' \in Seq(Message) /\ UNCHANGED <<vars, workerVars, handlerVars, notified>>
    BY <1>0, <1>1 DEF NetTypes
  <2> QED BY <1>0, <1>4, <2>2, <2>3, <2>4, MasterMove
<1>5. CASE p = TaskManagerId
  <2>1. told = 2 /\ Len(FromManager) > 0 /\ FromManager \in Seq(Message)
    <3>1. FromManager \in Seq(Message) /\ FromManager # <<>>
      BY <1>0, <1>1, <1>5 DEF FromManager
    <3>2. told = 2
      BY <1>1 DEF NetTypes, NetInv, ManagerLinks
    <3> QED BY <3>1, <3>2
  <2>2. FromManager[1].kind = "WORKERS_COMPLETE" /\ notified > 0
    <3>1. 1 \in DOMAIN FromManager /\ notified \in Nat
      BY <1>1, <2>1 DEF NetTypes
    <3>2. FromManager[1].kind = IF 1 <= told - tuples THEN ListKind(tuples + 1) ELSE "WORKERS_COMPLETE"
      BY <3>1 DEF NetInv, ManagerLinks
    <3>3. notified = 0 => Len(FromManager) = told - tuples
      BY DEF NetInv, ManagerLinks
    <3> QED BY <2>1, <3>1, <3>2, <3>3
  <2>3. mpc' = "exited" /\ msrc' = TaskManagerId
    BY <1>0, <1>2, <1>5, <2>2 DEF FromManager
  <2>4. UNCHANGED <<phase, task, tm_pc, at, count, ask, hpc, hsrc, hlist, hcount, notified,
                    mode, tuples, told, written>>
    BY <1>0 DEF vars, managerVars, workerVars, handlerVars, Kept
  <2>5. NetTypes'
    BY <1>1, <1>2, <2>3, <2>4 DEF NetTypes
  <2>6. WorkerPlace' /\ Told'
    BY <2>2, <2>3, <2>4 DEF NetInv, WorkerPlace, Told
  <2>7. /\ \A v \in Workers, h \in Handlers : /\ chan'[<<v, h>>] = chan[<<v, h>>]
                                            /\ chan'[<<h, v>>] = chan[<<h, v>>]
        /\ \A v \in Workers : chan'[<<v, Master>>] = chan[<<v, Master>>]
        /\ \A h \in Handlers : chan'[<<TaskManagerId, h>>] = chan[<<TaskManagerId, h>>]
    BY <1>2, <1>5, LinksApart
  <2>8. Exchange'
    BY <2>4, <2>7, StillFrame
  <2>9. Streams'
    <3>1. \A v \in Workers : /\ Awaited(v)' = Awaited(v) /\ SentNext(v)' = SentNext(v)
                            /\ ToMaster(v)' = ToMaster(v)
      BY <1>3, <2>3, <2>4, <2>7, LinksApart DEF Awaited, SentNext, ToMaster
    <3> QED BY <2>3, <3>1 DEF NetInv, Streams
  <2>10. ManagerLinks'
    <3>1. FromManager' = Tail(FromManager)
      BY <1>2, <1>5 DEF FromManager
    <3>2. \A i \in 1 .. Len(Tail(FromManager)) :
              Tail(FromManager)[i] = FromManager[i + 1] /\ i + 1 \in 1 .. Len(FromManager)
      BY <2>1
    <3>3. \A i \in 1 .. Len(FromManager) : FromManager[i].kind = "WORKERS_COMPLETE"
      <4>1. \A i \in 1 .. Len(FromManager) : FromManager[i].kind =
                IF i <= told - tuples THEN ListKind(tuples + i) ELSE "WORKERS_COMPLETE"
        BY <2>1 DEF NetInv, ManagerLinks
      <4> QED BY <2>1, <4>1
    <3>4. DOMAIN FromManager' = 1 .. Len(Tail(FromManager)) /\ Len(FromManager') \in Nat
      BY <2>1, <3>1
    <3>5. \A i \in DOMAIN FromManager' : FromManager'[i].kind = "WORKERS_COMPLETE"
      <4> DEFINE kd(i) == FromManager[i].kind
                 ok(i) == Tail(FromManager)[i].kind = kd(i + 1)
      <4>1. \A i \in 1 .. Len(Tail(FromManager)) : ok(i) /\ i + 1 \in 1 .. Len(FromManager)
        BY <3>2
      <4>2. \A i \in 1 .. Len(FromManager) : kd(i) = "WORKERS_COMPLETE"
        BY <3>3
      <4> HIDE DEF kd
      <4> QED BY <3>1, <3>4, <4>1, <4>2
    <3>6. \A h \in Handlers : \A i \in DOMAIN chan'[<<TaskManagerId, h>>] :
              chan'[<<TaskManagerId, h>>][i].kind = "WORKERS_COMPLETE"
      BY <2>7 DEF NetInv, ManagerLinks
    <3>7. \A i \in DOMAIN FromManager' : ~(i <= told' - tuples')
      BY <2>1, <2>4, <3>4
    <3> QED BY <2>1, <2>2, <2>4, <3>4, <3>5, <3>6, <3>7 DEF ManagerLinks
  <2> QED BY <2>5, <2>6, <2>8, <2>9, <2>10 DEF NetInv
<1> QED BY <1>4, <1>5

LEMMA MasterMetadataKeeps ==
    ASSUME IInv, NetInv, MasterMetadata, Kept PROVE NetInv'
<1>1. mpc = "metadata" /\ msrc \in Workers
  BY DEF MasterMetadata, NetInv, Streams
<1>0. PICK w \in Workers : w = msrc
  BY <1>1
<1>2. /\ MasterTake(w, "DATA_FILENAME_TAG") /\ mpc' = "contents" /\ msrc' = w
      /\ UNCHANGED <<vars, workerVars, handlerVars, notified>>
  BY <1>0 DEF MasterMetadata
<1>3. NetTypes /\ <<w, Master>> \in Links /\ Awaited(w) = "METADATA"
  BY <1>0, <1>1, LinksApart DEF NetInv, Awaited
<1>4. chan[<<w, Master>>] # <<>> => TagOf[chan[<<w, Master>>][1].kind] = "DATA_FILENAME_TAG"
  BY <1>3, Tags DEF NetInv, Streams, Stream, ToMaster
<1>5. /\ chan[<<w, Master>>] # <<>> /\ Received(w, Master)
      /\ written' = IF "DATA_FILENAME_TAG" = "DATA_TAG" THEN Append(written, chan[<<w, Master>>][1])
                    ELSE written
  BY <1>2, <1>3, <1>4, TakeFirst
<1>6. written' = written /\ written \in Seq(Message)
  BY <1>3, <1>5 DEF NetTypes
<1>7. Awaited(w)' = Follows(Awaited(w)) /\ \A v \in Workers \ {w} : Awaited(v)' = Awaited(v)
  BY <1>0, <1>2, <1>3 DEF Awaited, Follows
<1> QED BY <1>2, <1>5, <1>6, <1>7, MasterMove

LEMMA MasterContentsKeeps ==
    ASSUME IInv, NetInv, MasterContents, Kept PROVE NetInv'
<1>1. mpc = "contents" /\ msrc \in Workers
  BY DEF MasterContents, NetInv, Streams
<1>0. PICK w \in Workers : w = msrc
  BY <1>1
<1>2. /\ MasterTake(w, "DATA_TAG") /\ mpc' = "listen" /\ msrc' = w
      /\ UNCHANGED <<vars, workerVars, handlerVars, notified>>
  BY <1>0 DEF MasterContents
<1>3. NetTypes /\ <<w, Master>> \in Links /\ Awaited(w) = "DATA"
  BY <1>0, <1>1, LinksApart DEF NetInv, Awaited
<1>4. chan[<<w, Master>>] # <<>> => TagOf[chan[<<w, Master>>][1].kind] = "DATA_TAG"
  BY <1>3, Tags DEF NetInv, Streams, Stream, ToMaster
<1>5. /\ chan[<<w, Master>>] # <<>> /\ Received(w, Master) /\ chan[<<w, Master>>][1] \in Message
      /\ written' = IF "DATA_TAG" = "DATA_TAG" THEN Append(written, chan[<<w, Master>>][1])
                    ELSE written
  BY <1>2, <1>3, <1>4, TakeFirst
<1>6. written' \in Seq(Message)
  BY <1>3, <1>5 DEF NetTypes
<1>7. Awaited(w)' = Follows(Awaited(w)) /\ \A v \in Workers \ {w} : Awaited(v)' = Awaited(v)
  BY <1>0, <1>2, <1>3 DEF Awaited, Follows
<1> QED BY <1>2, <1>5, <1>6, <1>7, MasterMove
-----------------------------------------------------------------------------
(* A message of the manager, or one received from it, is no other rank's     *)
(* business.                                                                 *)
LEMMA ManagerMove ==
    ASSUME NetInv, NEW s \in Servers, UNCHANGED <<vars, mode, workerVars, handlerVars, mpc, msrc>>,
           written' \in Seq(Message), notified' \in Nat, tuples' \in 0 .. 2, told' \in 0 .. 2,
           chan' \in [Links -> Seq(Message)],
           \A l \in Links : l # <<TaskManagerId, s>> => chan'[l] = chan[l]
    PROVE  NetTypes' /\ WorkerPlace' /\ Exchange' /\ Streams'
<1>1. UNCHANGED <<phase, task, tm_pc, at, count, ask, hpc, hsrc, hlist, hcount, mpc, msrc, mode>>
  BY DEF vars, managerVars, workerVars, handlerVars
<1>2. NetTypes' /\ WorkerPlace'
  BY <1>1 DEF NetInv, NetTypes, WorkerPlace
<1>3. /\ \A v \in Workers, h \in Handlers : /\ chan'[<<v, h>>] = chan[<<v, h>>]
                                          /\ chan'[<<h, v>>] = chan[<<h, v>>]
      /\ \A v \in Workers : chan'[<<v, Master>>] = chan[<<v, Master>>]
  BY LinksApart
<1>4. Exchange'
  BY <1>1, <1>3, StillFrame
<1>5. Streams'
  <2>1. \A v \in Workers : SentNext(v)' = SentNext(v)
    BY <1>1 DEF SentNext
  <2> QED BY <1>1, <1>3, <2>1, StreamsFrame DEF NetInv
<1> QED BY <1>2, <1>4, <1>5

LEMMA AppendKinds ==
    ASSUME NEW s \in Seq(Message), NEW m \in Message
    PROVE  /\ Len(Append(s, m)) = Len(s) + 1 /\ DOMAIN Append(s, m) = 1 .. Len(s) + 1
           /\ \A i \in 1 .. Len(s) : Append(s, m)[i].kind = s[i].kind
           /\ Append(s, m)[Len(s) + 1].kind = m.kind
<1>1. \A i \in 1 .. Len(s) : Append(s, m)[i] = s[i]
  OBVIOUS
<1>2. Append(s, m)[Len(s) + 1] = m /\ Len(Append(s, m)) = Len(s) + 1 /\ Append(s, m) \in Seq(Message)
  OBVIOUS
<1> QED BY <1>1, <1>2

LEMMA CompletionKeeps ==
    ASSUME IInv, NetInv, BroadcastCompletion, told = 2, Kept PROVE NetInv'
<1>1. NetTypes /\ NumHandlers \in Nat
  BY DirectSynthAssumption DEF NetInv
<1>2. notified \in Servers
  <2>1. Servers = 0 .. NumHandlers
    BY <1>1 DEF Servers, Handlers, Master
  <2>2. Cardinality(0 .. NumHandlers) = NumHandlers + 1
    BY <1>1, FS_Interval
  <2>3. notified < NumHandlers + 1 /\ notified \in Nat
    BY <1>1, <2>1, <2>2 DEF BroadcastCompletion, NetTypes
  <2> QED BY <1>1, <2>1, <2>3
<1>0. PICK s \in Servers : s = notified
  BY <1>2
<1>3. Msg("WORKERS_COMPLETE", NoTask, 0) \in Message
  <2>1. NoTask \in Int /\ "WORKERS_COMPLETE" \in Kinds
    BY DEF NoTask, Kinds
  <2> QED BY <2>1, MessageType
<1>4. PICK m \in Message : m = Msg("WORKERS_COMPLETE", NoTask, 0)
  BY <1>3
<1>5. m.kind = "WORKERS_COMPLETE"
  BY <1>4 DEF Msg
<1>6. /\ tm_pc = "returned" /\ Send(TaskManagerId, s, m) /\ notified' = notified + 1
      /\ UNCHANGED <<vars, workerVars, handlerVars, masterVars>>
  BY <1>0, <1>4 DEF BroadcastCompletion
<1>7. <<TaskManagerId, s>> \in Links /\ <<TaskManagerId, Master>> \in Links
  BY LinksApart
<1>8. /\ chan' \in [Links -> Seq(Message)]
      /\ chan'[<<TaskManagerId, s>>] = Append(chan[<<TaskManagerId, s>>], m)
      /\ \A l \in Links : l # <<TaskManagerId, s>> => chan'[l] = chan[l]
  BY <1>1, <1>6, <1>7, SendEffect
<1>9. /\ notified \in Nat /\ notified' = notified + 1 /\ written' = written /\ written \in Seq(Message)
      /\ UNCHANGED <<tuples, told, mode, hpc, mpc, msrc, tm_pc>> /\ tuples \in 0 .. 2
  <2>1. notified \in Nat /\ tuples \in 0 .. 2 /\ written \in Seq(Message)
    BY <1>1 DEF NetTypes
  <2>2. UNCHANGED <<hpc, mpc, msrc, tm_pc, written>>
    BY <1>6 DEF masterVars, handlerVars, vars, managerVars
  <2> QED BY <1>6, <2>1, <2>2 DEF Kept
<1>10. NetTypes' /\ WorkerPlace' /\ Exchange' /\ Streams'
  <2>1. UNCHANGED <<vars, mode, workerVars, handlerVars, mpc, msrc>>
    BY <1>6, <1>9
  <2>2. written' \in Seq(Message) /\ notified' \in Nat /\ tuples' \in 0 .. 2 /\ told' \in 0 .. 2
    BY <1>9
  <2> QED BY <1>8, <2>1, <2>2, ManagerMove
<1>11. Told'
  BY <1>6, <1>9 DEF Told
<1> DEFINE f == FromManager
<1>12. /\ f \in Seq(Message) /\ told - tuples <= Len(f) /\ tuples <= told
       /\ \A i \in DOMAIN f : f[i].kind = IF i <= told - tuples THEN ListKind(tuples + i)
                                         ELSE "WORKERS_COMPLETE"
       /\ \A h \in Handlers : \A i \in DOMAIN chan[<<TaskManagerId, h>>] :
              chan[<<TaskManagerId, h>>][i].kind = "WORKERS_COMPLETE"
  BY <1>1, <1>7 DEF NetInv, ManagerLinks, NetTypes, FromManager
<1>13. told' < 2 => notified' = 0
  BY <1>9
<1>14. notified' > 0
  BY <1>9
<1>15. CASE s = Master
  <2>1. FromManager' = Append(f, m)
    BY <1>8, <1>15 DEF FromManager
  <2>2. /\ Len(Append(f, m)) = Len(f) + 1 /\ DOMAIN Append(f, m) = 1 .. Len(f) + 1
        /\ \A i \in 1 .. Len(f) : Append(f, m)[i].kind = f[i].kind
        /\ Append(f, m)[Len(f) + 1].kind = "WORKERS_COMPLETE"
    BY <1>5, <1>12, AppendKinds
  <2> HIDE DEF f
  <2>3. \A i \in 1 .. Len(f) + 1 : Append(f, m)[i].kind =
            IF i <= told - tuples THEN ListKind(tuples + i) ELSE "WORKERS_COMPLETE"
    <3> SUFFICES ASSUME NEW i \in 1 .. Len(f) + 1
                 PROVE  Append(f, m)[i].kind =
                            IF i <= told - tuples THEN ListKind(tuples + i) ELSE "WORKERS_COMPLETE"
      OBVIOUS
    <3>1. CASE i \in 1 .. Len(f)
      BY <1>12, <2>2, <3>1
    <3>2. CASE i = Len(f) + 1
      <4>1. ~(i <= told - tuples)
        BY <1>9, <1>12, <3>2
      <4> QED BY <2>2, <3>2, <4>1
    <3> QED BY <1>12, <3>1, <3>2
  <2>4. \A h \in Handlers : chan'[<<TaskManagerId, h>>] = chan[<<TaskManagerId, h>>]
    BY <1>8, <1>15, LinksApart
  <2>5. told - tuples <= Len(f) + 1
    BY <1>9, <1>12
  <2>6. ManagerLinks'
    <3>1. \A i \in DOMAIN FromManager' :
              FromManager'[i].kind = IF i <= told' - tuples' THEN ListKind(tuples' + i)
                                     ELSE "WORKERS_COMPLETE"
      BY <1>9, <2>1, <2>2, <2>3
    <3>2. \A h \in Handlers : \A i \in DOMAIN chan'[<<TaskManagerId, h>>] :
              chan'[<<TaskManagerId, h>>][i].kind = "WORKERS_COMPLETE" /\ notified' > 0
      BY <1>12, <1>14, <2>4
    <3>3. tuples' <= told' /\ told' - tuples' <= Len(FromManager')
      BY <1>9, <1>12, <2>1, <2>2, <2>5
    <3> QED BY <1>13, <1>14, <3>1, <3>2, <3>3 DEF ManagerLinks
  <2> QED BY <1>10, <1>11, <2>6 DEF NetInv
<1>16. CASE s \in Handlers
  <2>1. FromManager' = FromManager
    BY <1>8, <1>16, LinksApart DEF FromManager
  <2>2. \A h \in Handlers \ {s} : chan'[<<TaskManagerId, h>>] = chan[<<TaskManagerId, h>>]
    BY <1>8, LinksApart
  <2> DEFINE g == chan[<<TaskManagerId, s>>]
  <2>3. g \in Seq(Message)
    BY <1>1, <1>7 DEF NetTypes
  <2>4. /\ DOMAIN Append(g, m) = 1 .. Len(g) + 1
        /\ \A i \in 1 .. Len(g) : Append(g, m)[i].kind = g[i].kind
        /\ Append(g, m)[Len(g) + 1].kind = "WORKERS_COMPLETE"
    BY <1>5, <2>3, AppendKinds
  <2>5. \A i \in 1 .. Len(g) : g[i].kind = "WORKERS_COMPLETE"
    BY <1>12, <1>16, <2>3
  <2>6. Len(g) \in Nat
    BY <2>3
  <2>7. chan'[<<TaskManagerId, s>>] = Append(g, m)
    BY <1>8
  <2> HIDE DEF g
  <2>8. \A i \in DOMAIN Append(g, m) : Append(g, m)[i].kind = "WORKERS_COMPLETE"
    BY <2>4, <2>5, <2>6
  <2>9. \A h \in Handlers : \A i \in DOMAIN chan'[<<TaskManagerId, h>>] :
            chan'[<<TaskManagerId, h>>][i].kind = "WORKERS_COMPLETE"
    BY <1>12, <2>2, <2>7, <2>8
  <2>10. ManagerLinks'
    BY <1>9, <1>12, <1>13, <1>14, <2>1, <2>9 DEF ManagerLinks
  <2> QED BY <1>10, <1>11, <2>10 DEF NetInv
<1> QED BY <1>15, <1>16 DEF Servers

LEMMA SendTuplesKeeps ==
    ASSUME IInv, NetInv, SendTuples PROVE NetInv'
<1>1. NetTypes /\ <<TaskManagerId, Master>> \in Links /\ Master \in Servers
  BY LinksApart DEF NetInv
<1> DEFINE k == IF told = 0 THEN "NUM_RUPTURES" ELSE "VARIATION_INFO"
<1>2. Msg(k, NoTask, 0) \in Message
  <2>1. NoTask \in Int /\ k \in Kinds
    BY DEF NoTask, Kinds
  <2> HIDE DEF k
  <2> QED BY <2>1, MessageType
<1>3. PICK m \in Message : m = Msg(k, NoTask, 0)
  BY <1>2
<1>4. m.kind = k
  BY <1>3 DEF Msg
<1>5. /\ told < 2 /\ Send(TaskManagerId, Master, m) /\ told' = told + 1
      /\ UNCHANGED <<vars, mode, netVars, tuples>>
  BY <1>3 DEF SendTuples
<1>6. /\ chan' \in [Links -> Seq(Message)]
      /\ chan'[<<TaskManagerId, Master>>] = Append(chan[<<TaskManagerId, Master>>], m)
      /\ \A l \in Links : l # <<TaskManagerId, Master>> => chan'[l] = chan[l]
  BY <1>1, <1>5, SendEffect
<1>7. UNCHANGED <<tm_pc, mpc, hpc, notified, tuples, written>> /\ told \in 0 .. 1 /\ tuples \in 0 .. 2
  BY <1>1, <1>5 DEF NetTypes, netVars, vars, managerVars
<1>8. NetTypes' /\ WorkerPlace' /\ Exchange' /\ Streams'
  <2>1. UNCHANGED <<vars, mode, workerVars, handlerVars, mpc, msrc>>
    BY <1>5 DEF netVars, workerVars, handlerVars
  <2>2. written' \in Seq(Message) /\ notified' \in Nat /\ tuples' \in 0 .. 2 /\ told' \in 0 .. 2
    BY <1>1, <1>5, <1>7 DEF NetTypes
  <2> QED BY <1>1, <1>6, <2>1, <2>2, ManagerMove
<1>9. Told'
  BY <1>7 DEF NetInv, Told
<1> DEFINE f == FromManager
<1>10. /\ f \in Seq(Message) /\ Len(f) = told - tuples /\ tuples <= told /\ notified = 0
       /\ \A i \in 1 .. Len(f) : f[i].kind = IF i <= told - tuples THEN ListKind(tuples + i)
                                            ELSE "WORKERS_COMPLETE"
  <2>1. f \in Seq(Message)
    BY <1>1 DEF NetTypes, FromManager
  <2>2. DOMAIN f = 1 .. Len(f)
    BY <2>1
  <2>3. /\ told < 2 => notified = 0
        /\ notified = 0 => Len(f) = told - tuples
        /\ tuples <= told
        /\ \A i \in DOMAIN f : f[i].kind = IF i <= told - tuples THEN ListKind(tuples + i)
                                          ELSE "WORKERS_COMPLETE"
    BY DEF NetInv, ManagerLinks
  <2> HIDE DEF f
  <2> QED BY <1>5, <2>1, <2>2, <2>3
<1>11. FromManager' = Append(f, m)
  BY <1>6 DEF FromManager
<1>12. /\ Len(Append(f, m)) = Len(f) + 1 /\ DOMAIN Append(f, m) = 1 .. Len(f) + 1
       /\ \A i \in 1 .. Len(f) : Append(f, m)[i].kind = f[i].kind
       /\ Append(f, m)[Len(f) + 1].kind = k
  BY <1>4, <1>10, AppendKinds
<1>13. k = ListKind(told + 1)
  BY <1>7 DEF ListKind
<1> HIDE DEF f, k
<1>14. \A i \in 1 .. Len(f) + 1 : Append(f, m)[i].kind =
           IF i <= told' - tuples' THEN ListKind(tuples' + i) ELSE "WORKERS_COMPLETE"
  <2> SUFFICES ASSUME NEW i \in 1 .. Len(f) + 1
               PROVE  Append(f, m)[i].kind = ListKind(tuples + i) /\ i <= (told + 1) - tuples
    BY <1>5, <1>7
  <2>1. CASE i \in 1 .. Len(f)
    BY <1>7, <1>10, <1>12, <2>1
  <2>2. CASE i = Len(f) + 1
    <3>1. tuples + i = told + 1
      BY <1>7, <1>10, <2>2
    <3> QED BY <1>7, <1>10, <1>12, <1>13, <2>2, <3>1
  <2> QED BY <1>7, <1>10, <2>1, <2>2
<1>15. \A h \in Handlers : chan'[<<TaskManagerId, h>>] = chan[<<TaskManagerId, h>>]
  BY <1>6, LinksApart
<1>16. \A h \in Handlers : \A i \in DOMAIN chan'[<<TaskManagerId, h>>] :
           chan'[<<TaskManagerId, h>>][i].kind = "WORKERS_COMPLETE" /\ notified' > 0
  BY <1>7, <1>15 DEF NetInv, ManagerLinks
<1>17. Len(f) + 1 = told' - tuples' /\ tuples' <= told' /\ notified' = 0
  BY <1>5, <1>7, <1>10
<1>18. told' - tuples' <= Len(FromManager') /\ Len(FromManager') = told' - tuples'
       /\ DOMAIN FromManager' = 1 .. Len(f) + 1
  BY <1>10, <1>11, <1>12, <1>17
<1>19. ManagerLinks'
  BY <1>11, <1>14, <1>16, <1>17, <1>18 DEF ManagerLinks
<1> QED BY <1>8, <1>9, <1>19 DEF NetInv

LEMMA ReceiveTuplesKeeps ==
    ASSUME IInv, NetInv, ReceiveTuples PROVE NetInv'
<1>1. NetTypes /\ <<TaskManagerId, Master>> \in Links /\ Master \in Servers
  BY LinksApart DEF NetInv
<1> DEFINE tag == IF tuples = 0 THEN "NUM_RUPTURES_TAG" ELSE "VARIATION_INFO_TAG"
           f == FromManager
<1>2. /\ tuples < 2 /\ MasterTake(TaskManagerId, tag) /\ tuples' = tuples + 1
      /\ UNCHANGED <<vars, mode, workerVars, handlerVars, mpc, msrc, notified, told>>
  BY DEF ReceiveTuples, TupleMessages
<1>3. /\ f \in Seq(Message) /\ tuples \in 0 .. 1 /\ told \in 0 .. 2 /\ tuples <= told
      /\ told - tuples <= Len(f)
  BY <1>1, <1>2 DEF NetInv, ManagerLinks, NetTypes, FromManager
<1>4. /\ told < 2 => notified = 0
      /\ notified = 0 => Len(f) = told - tuples
      /\ \A i \in 1 .. Len(f) : f[i].kind = IF i <= told - tuples THEN ListKind(tuples + i)
                                           ELSE "WORKERS_COMPLETE"
  BY <1>3 DEF NetInv, ManagerLinks
<1>5. f # <<>> => Len(f) \in Nat \ {0}
  BY <1>3
<1> HIDE DEF f
<1>6. f # <<>> => told - tuples >= 1 /\ f[1].kind = ListKind(tuples + 1)
  <2> SUFFICES ASSUME f # <<>> PROVE told - tuples >= 1 /\ f[1].kind = ListKind(tuples + 1)
    OBVIOUS
  <2>1. told - tuples >= 1
    BY <1>3, <1>4, <1>5
  <2>2. 1 \in 1 .. Len(f)
    BY <1>5
  <2> QED BY <1>3, <1>4, <2>1, <2>2
<1>7. TagOf[ListKind(tuples + 1)] = tag
  BY <1>3, Tags DEF ListKind
<1>8. chan[<<TaskManagerId, Master>>] # <<>> => TagOf[chan[<<TaskManagerId, Master>>][1].kind] = tag
  BY <1>6, <1>7 DEF f, FromManager
<1>9. tag # "DATA_TAG"
  OBVIOUS
<1>10. /\ f # <<>> /\ Received(TaskManagerId, Master) /\ written' = written
  <2> HIDE DEF tag
  <2>1. /\ chan[<<TaskManagerId, Master>>] # <<>> /\ Received(TaskManagerId, Master)
        /\ written' = IF tag = "DATA_TAG" THEN Append(written, chan[<<TaskManagerId, Master>>][1])
                      ELSE written
    BY <1>1, <1>2, <1>8, TakeFirst
  <2> QED BY <1>9, <2>1 DEF f, FromManager
<1>11. /\ chan' \in [Links -> Seq(Message)]
       /\ chan'[<<TaskManagerId, Master>>] = Tail(f)
       /\ \A l \in Links : l # <<TaskManagerId, Master>> => chan'[l] = chan[l]
  BY <1>1, <1>10, ReceiveEffect DEF f, FromManager
<1>12. UNCHANGED <<tm_pc, mpc, hpc, notified, told>>
  BY <1>2 DEF vars, managerVars, handlerVars
<1>13. NetTypes' /\ WorkerPlace' /\ Exchange' /\ Streams'
  <2>1. written' \in Seq(Message) /\ notified' \in Nat /\ tuples' \in 0 .. 2 /\ told' \in 0 .. 2
    BY <1>1, <1>2, <1>3, <1>10, <1>12 DEF NetTypes
  <2> QED BY <1>1, <1>2, <1>11, <2>1, ManagerMove
<1>14. Told'
  BY <1>12 DEF NetInv, Told
<1> DEFINE t == Tail(f)
           n == Len(f)
<1>15. n \in Nat \ {0} /\ t \in Seq(Message) /\ Len(t) = n - 1 /\ DOMAIN t = 1 .. n - 1
  BY <1>3, <1>10
<1>16. \A i \in 1 .. n - 1 : t[i] = f[i + 1]
  BY <1>3, <1>10
<1> HIDE DEF t, n
<1>17. told - tuples >= 1 /\ tuples' = tuples + 1
  BY <1>2, <1>6, <1>10
<1>18. \A i \in 1 .. n - 1 : t[i].kind = IF i <= told' - tuples' THEN ListKind(tuples' + i)
                                        ELSE "WORKERS_COMPLETE"
  <2> SUFFICES ASSUME NEW i \in 1 .. n - 1
               PROVE  t[i].kind = IF i <= told - (tuples + 1) THEN ListKind((tuples + 1) + i)
                                  ELSE "WORKERS_COMPLETE"
    BY <1>12, <1>17
  <2>1. i + 1 \in 1 .. n /\ i \in Nat
    BY <1>15
  <2>2. f[i + 1].kind = IF i + 1 <= told - tuples THEN ListKind(tuples + (i + 1))
                        ELSE "WORKERS_COMPLETE"
    BY <1>4, <2>1 DEF n
  <2>3. /\ tuples + (i + 1) = (tuples + 1) + i
        /\ i + 1 <= told - tuples <=> i <= told - (tuples + 1)
    BY <1>3, <2>1
  <2> QED BY <1>16, <2>2, <2>3
<1>19. /\ FromManager' = t /\ DOMAIN FromManager' = 1 .. n - 1 /\ Len(FromManager') = n - 1
  BY <1>11, <1>15 DEF FromManager, t
<1>20. /\ told' - tuples' <= n - 1 /\ tuples' <= told' /\ (told' < 2 => notified' = 0)
       /\ (notified' = 0 => n - 1 = told' - tuples')
  <2>1. told - tuples <= n /\ (notified = 0 => n = told - tuples)
    BY <1>3, <1>4 DEF n
  <2> QED BY <1>3, <1>4, <1>12, <1>15, <1>17, <2>1
<1>21. \A h \in Handlers : \A i \in DOMAIN chan'[<<TaskManagerId, h>>] :
           chan'[<<TaskManagerId, h>>][i].kind = "WORKERS_COMPLETE" /\ notified' > 0
  <2>1. \A h \in Handlers : chan'[<<TaskManagerId, h>>] = chan[<<TaskManagerId, h>>]
    BY <1>11, LinksApart
  <2> QED BY <1>12, <2>1 DEF NetInv, ManagerLinks
<1>22. ManagerLinks'
  BY <1>18, <1>19, <1>20, <1>21 DEF ManagerLinks
<1> QED BY <1>13, <1>14, <1>22 DEF NetInv
-----------------------------------------------------------------------------
LEMMA NetStep == IInv /\ NetInv /\ [suNext]_suVars => NetInv'
<1> SUFFICES ASSUME IInv, NetInv, [suNext]_suVars PROVE NetInv'
  OBVIOUS
<1>1. CASE Quiet
  BY <1>1, QuietKeeps
<1>2. CASE ProtocolStep
  BY <1>2, ProtocolKeeps
<1>3. CASE MasterStep
  BY <1>3, MasterListenKeeps, MasterMetadataKeeps, MasterContentsKeeps DEF MasterStep
<1>4. CASE CompletionStep
  BY <1>4, CompletionKeeps DEF CompletionStep
<1>5. CASE TupleStep
  BY <1>5, SendTuplesKeeps, ReceiveTuplesKeeps DEF TupleStep
<1>6. ASSUME NEW w \in Workers, AskingStep(w) PROVE NetInv'
  BY <1>6, StartTaskKeeps, SendRequestKeeps, SendListKeeps, ReceiveReplyKeeps DEF AskingStep
<1>7. ASSUME NEW w \in Workers, SendingStep(w) PROVE NetInv'
  BY <1>7, SendClusterKeeps, EndTaskKeeps DEF SendingStep
<1>8. ASSUME NEW h \in Handlers, HandlerStep(h) PROVE NetInv'
  BY <1>8, HandlerListenKeeps, HandlerListKeeps, HandlerReplyKeeps DEF HandlerStep
<1> QED BY <1>1, <1>2, <1>3, <1>4, <1>5, <1>6, <1>7, <1>8, StepCases

(* TaskManager's invariant and the one of the messages hold together. *)
THEOREM NetInvariance == suSafeSpec => []IInv /\ []NetInv
<1>1. suSafeSpec => []IInv
  BY ImplementsTaskManager, Invariance, PTL
<1>2. IInv /\ NetInv /\ [suNext]_suVars => NetInv'
  BY NetStep
<1>3. suInit => NetInv
  BY NetInit
<1> QED BY <1>1, <1>2, <1>3, PTL DEF suSafeSpec

(* No wildcard receive of the master or of a handler ever matches a message  *)
(* inside an exchange (the receives with MPI_ANY_SOURCE and MPI_ANY_TAG of   *)
(* master_listen and handler_listen).                                        *)
THEOREM NeverMisreceived == suSafeSpec => []NoMisreceive
<1>1. NetInv => NoMisreceive
  BY DEF NetInv, Exchange, Streams, NoMisreceive
<1> QED BY <1>1, NetInvariance, PTL

(* What a handler sends to a worker answers the request the worker waits on, *)
(* component after component (handle_SGT_request and request_sgt).           *)
THEOREM AnswersMatch == suSafeSpec => []AnswersOwnRequest
<1>1. NetInv => AnswersOwnRequest
  <2> SUFFICES ASSUME NetInv, NEW h \in Handlers, NEW w \in Workers, chan[<<h, w>>] # <<>>
               PROVE  /\ at[w] = "reply" /\ Asking(w) = h
                      /\ \A i \in DOMAIN chan[<<h, w>>] :
                             /\ chan[<<h, w>>][i].task = task[w]
                             /\ chan[<<h, w>>][i].n = count[w] + i - 1
    BY DEF AnswersOwnRequest
  <2>1. Pair(w, h)
    BY DEF NetInv, Exchange
  <2>2. Answered(w, h) \/ AllAnswered(w, h)
    BY <2>1 DEF Pair, NotAsked, Nothing, Requested, RequestTaken, BothSent, ListSent
  <2>3. Asks(w, h) /\ at[w] = "reply" /\ InOrder(chan[<<h, w>>], task[w], count[w])
    BY <2>2 DEF Answered, AllAnswered, Answers
  <2>4. chan[<<h, w>>] \in Seq(Message)
    BY LinksApart DEF NetInv, NetTypes
  <2>5. DOMAIN chan[<<h, w>>] = 1 .. Len(chan[<<h, w>>])
    BY <2>4
  <2> QED BY <2>3, <2>5 DEF Asks, InOrder
<1> QED BY <1>1, NetInvariance, PTL

(* The handlers are told to stop only once no worker is in run_synth         *)
(* (task_manager returns to broadcast_completion after every worker's last   *)
(* request).                                                                 *)
THEOREM HandlersStay == suSafeSpec => []HandlersOutliveRequests
<1>1. IInv /\ NetInv => HandlersOutliveRequests
  <2> SUFFICES ASSUME IInv, NetInv, NEW h \in Handlers, NEW w \in Workers, hpc[h] = "exited"
               PROVE  at[w] \notin {"ask", "list", "reply"}
    BY DEF HandlersOutliveRequests
  <2>1. tm_pc = "returned"
    BY DEF NetInv, Told
  <2>2. phase[w] # "run_synth"
    BY <2>1 DEF IInv, ReturnedLast, Busy
  <2> QED BY <2>2 DEF NetInv, WorkerPlace
<1> QED BY <1>1, NetInvariance, PTL
-----------------------------------------------------------------------------
LEMMA ContentsTail ==
    ASSUME NEW s \in Seq(Message), s # <<>>, Distinct(s)
    PROVE  /\ Distinct(Tail(s))
           /\ s[1].kind # "DATA" => Contents(Tail(s)) = Contents(s)
           /\ s[1].kind = "DATA" => /\ Contents(Tail(s)) = Contents(s) \ {s[1]}
                                    /\ s[1] \in Contents(s)
<1> DEFINE t == Tail(s)
           n == Len(s)
<1>1. n \in Nat \ {0} /\ Len(t) = n - 1
  OBVIOUS
<1>2. \A i \in 1 .. n - 1 : t[i] = s[i + 1]
  OBVIOUS
<1> HIDE DEF t, n
<1>3. \A i \in 1 .. n - 1 : i \in Data(t) <=> i + 1 \in Data(s)
  BY <1>1, <1>2 DEF Data, n
<1>4. Data(t) \subseteq 1 .. n - 1 /\ Data(s) \subseteq 1 .. n
  BY <1>1 DEF Data, n
<1>5. Distinct(t)
  <2> SUFFICES ASSUME NEW i \in Data(t), NEW j \in Data(t), t[i] = t[j] PROVE i = j
    BY DEF Distinct
  <2>1. i + 1 \in Data(s) /\ j + 1 \in Data(s) /\ s[i + 1] = s[j + 1] /\ i \in Nat /\ j \in Nat
    BY <1>1, <1>2, <1>3, <1>4
  <2>2. i + 1 = j + 1
    BY <2>1 DEF Distinct
  <2> QED BY <2>1, <2>2
<1>6. Contents(t) = {s[i] : i \in Data(s) \ {1}}
  <2>1. ASSUME NEW i \in Data(t) PROVE \E j \in Data(s) \ {1} : t[i] = s[j]
    <3>1. i + 1 \in Data(s) \ {1} /\ t[i] = s[i + 1]
      BY <1>1, <1>2, <1>3, <1>4
    <3> QED BY <3>1
  <2>2. ASSUME NEW j \in Data(s) \ {1} PROVE \E i \in Data(t) : t[i] = s[j]
    <3>1. j \in 2 .. n
      BY <1>1, <1>4
    <3>2. j - 1 \in 1 .. n - 1 /\ (j - 1) + 1 = j
      BY <1>1, <3>1
    <3>3. j - 1 \in Data(t) /\ t[j - 1] = s[j]
      BY <1>2, <1>3, <3>2
    <3> QED BY <3>3
  <2> QED BY <2>1, <2>2 DEF Contents
<1>7. s[1].kind # "DATA" => 1 \notin Data(s)
  BY DEF Data
<1>8. s[1].kind = "DATA" => 1 \in Data(s)
  BY <1>1 DEF Data, n
<1>9. s[1].kind # "DATA" => Contents(t) = Contents(s)
  BY <1>6, <1>7 DEF Contents
<1>10. s[1].kind = "DATA" => Contents(t) = Contents(s) \ {s[1]} /\ s[1] \in Contents(s)
  BY <1>6, <1>8 DEF Contents, Distinct
<1> QED BY <1>5, <1>9, <1>10 DEF t

LEMMA ContentsAppend ==
    ASSUME NEW s \in Seq(Message), NEW m \in Message, Distinct(s)
    PROVE  /\ m.kind # "DATA" => Distinct(Append(s, m)) /\ Contents(Append(s, m)) = Contents(s)
           /\ m.kind = "DATA" => Contents(Append(s, m)) = Contents(s) \cup {m}
           /\ m.kind = "DATA" /\ m \notin Contents(s) => Distinct(Append(s, m))
<1> DEFINE t == Append(s, m)
           n == Len(s)
<1>1. n \in Nat /\ Len(t) = n + 1 /\ t[n + 1] = m
  OBVIOUS
<1>2. \A i \in 1 .. n : t[i] = s[i]
  OBVIOUS
<1> HIDE DEF t, n
<1>3. Data(s) \subseteq 1 .. n
  BY DEF Data, n
<1>4. m.kind # "DATA" => Data(t) = Data(s)
  BY <1>1, <1>2 DEF Data, n
<1>5. m.kind = "DATA" => Data(t) = Data(s) \cup {n + 1}
  BY <1>1, <1>2 DEF Data, n
<1>6. ASSUME m.kind # "DATA" PROVE Distinct(t) /\ Contents(t) = Contents(s)
  BY <1>2, <1>3, <1>4, <1>6 DEF Distinct, Contents
<1>7. ASSUME m.kind = "DATA" PROVE Contents(t) = Contents(s) \cup {m}
  BY <1>1, <1>2, <1>3, <1>5, <1>7 DEF Contents
<1>8. ASSUME m.kind = "DATA", m \notin Contents(s) PROVE Distinct(t)
  BY <1>1, <1>2, <1>3, <1>5, <1>8 DEF Distinct, Contents
<1> QED BY <1>6, <1>7, <1>8 DEF t

(* Steps that neither make nor lose data *)
LEMMA DataFrame ==
    ASSUME DataInv, UNCHANGED <<written, num_tasks>>,
           \A w \in Workers : /\ Contents(ToMaster(w)') = Contents(ToMaster(w))
                              /\ Distinct(ToMaster(w)'),
           \A t \in Tasks, n \in 0 .. NumClusters - 1 : Produced(t, n)' <=> Produced(t, n)
    PROVE  DataInv'
<1>1. Tasks' = Tasks
  BY DEF Tasks
<1>2. \A t, n : Produced(t, n)' <=> Produced(t, n)
  BY <1>1 DEF Produced
<1>3. \A w \in Workers : /\ Contents(ToMaster(w))' = Contents(ToMaster(w))
                         /\ Distinct(ToMaster(w))'
  BY DEF Contents, Distinct, Data
<1>4. Contents(written)' = Contents(written) /\ Distinct(written)' = Distinct(written)
  BY DEF Contents, Distinct, Data
<1>5. DataProduced'
  BY <1>2, <1>3, <1>4 DEF DataInv, DataProduced
<1>6. DataOnce'
  BY <1>3, <1>4 DEF DataInv, DataOnce
<1>7. DataKept'
  BY <1>1, <1>2, <1>3, <1>4 DEF DataInv, DataKept
<1> QED BY <1>5, <1>6, <1>7 DEF DataInv

LEMMA DataStill ==
    ASSUME NetInv, DataInv, UNCHANGED <<written, num_tasks, finished>>,
           \A w \in Workers : chan'[<<w, Master>>] = chan[<<w, Master>>],
           \A w \in Workers : NumSent(w)' = NumSent(w) /\ (NumSent(w) # 0 => task'[w] = task[w])
    PROVE  DataInv'
<1>1. \A w \in Workers : ToMaster(w)' = ToMaster(w) /\ NumSent(w) \in Nat
  BY DEF ToMaster, NumSent, NetInv, NetTypes
<1>2. \A w \in Workers : /\ Contents(ToMaster(w)') = Contents(ToMaster(w))
                         /\ Distinct(ToMaster(w)')
  BY <1>1 DEF DataInv, DataOnce
<1>3. Tasks' = Tasks
  BY DEF Tasks
<1>4. \A t \in Tasks, n \in 0 .. NumClusters - 1 : Produced(t, n)' <=> Produced(t, n)
  <2> SUFFICES ASSUME NEW t \in Tasks, NEW n \in 0 .. NumClusters - 1
               PROVE  Produced(t, n)' <=> Produced(t, n)
    OBVIOUS
  <2>1. \A w \in Workers : task'[w] = t /\ n < NumSent(w)' <=> task[w] = t /\ n < NumSent(w)
    BY <1>1
  <2> QED BY <1>3, <2>1 DEF Produced
<1> QED BY <1>2, <1>4, DataFrame

LEMMA DataInit == suInit => DataInv
<1> SUFFICES ASSUME suInit PROVE DataInv
  OBVIOUS
<1>1. \A w \in Workers : ToMaster(w) = <<>> /\ NumSent(w) = 0
  BY LinksApart DEF suInit, dsInit, ToMaster, NumSent
<1>2. written = <<>> /\ finished = {}
  BY DEF suInit, dsInit, Init
<1>3. Data(<<>>) = {}
  BY DEF Data
<1>4. Contents(<<>>) = {} /\ Distinct(<<>>)
  BY <1>3 DEF Contents, Distinct
<1>5. DataProduced /\ DataOnce
  BY <1>1, <1>2, <1>4 DEF DataProduced, DataOnce
<1>6. DataKept
  BY <1>1, <1>2 DEF DataKept, Produced
<1> QED BY <1>5, <1>6 DEF DataInv

(* Send and receive on a link that does not lead from a worker to the master *)
LEMMA OffMaster ==
    ASSUME NetInv, NEW p, NEW q, <<p, q>> \in Links, NEW s,
           chan' = [chan EXCEPT ![<<p, q>>] = s], q # Master \/ p \notin Workers
    PROVE  \A w \in Workers : chan'[<<w, Master>>] = chan[<<w, Master>>]
BY LinksApart DEF NetInv, NetTypes

LEMMA AskingOff ==
    ASSUME IInv, NetInv, NEW w \in Workers, AskingStep(w)
    PROVE  \A v \in Workers : chan'[<<v, Master>>] = chan[<<v, Master>>]
<1>1. CASE StartTask(w)
  BY <1>1 DEF StartTask
<1>2. CASE ~StartTask(w)
  <2>1. Asking(w) \in Handlers
    BY <1>2, AskedIsHandler DEF AskingStep, SendRequest, SendList, ReceiveReply, NetInv
  <2>2. PICK g \in Handlers : g = Asking(w)
    BY <2>1
  <2>3. \/ \E s : chan' = [chan EXCEPT ![<<w, g>>] = s]
        \/ \E s : chan' = [chan EXCEPT ![<<g, w>>] = s]
    BY <1>2, <2>2 DEF AskingStep, SendRequest, SendList, ReceiveReply, Send, Received
  <2> QED BY <2>3, OffMaster, LinksApart
<1> QED BY <1>1, <1>2

LEMMA AskingData ==
    ASSUME IInv, NetInv, DataInv, NEW w \in Workers, AskingStep(w) PROVE DataInv'
<1>1. /\ at[w] \in {"idle", "ask", "list", "reply"}
      /\ UNCHANGED <<written, num_tasks, finished, task>>
  BY DEF AskingStep, StartTask, ReceiveTask, SendRequest, SendList, ReceiveReply, masterVars, vars,
         managerVars, NetInv, WorkerPlace
<1>2. /\ at'[w] = "header" => count'[w] = 0
      /\ at'[w] \in {"ask", "list", "reply", "header"}
      /\ \A v \in Workers \ {w} : at'[v] = at[v] /\ count'[v] = count[v]
  <2>1. at \in [Workers -> Places] /\ count \in [Workers -> Nat]
    BY DEF NetInv, NetTypes
  <2>2. CASE StartTask(w)
    BY <2>1, <2>2 DEF StartTask
  <2>3. CASE SendRequest(w) \/ SendList(w)
    BY <2>1, <2>3 DEF SendRequest, SendList
  <2>4. CASE ReceiveReply(w)
    <3>1. CASE count[w] < NumComps
      BY <2>1, <2>4, <3>1 DEF ReceiveReply
    <3>2. CASE ~(count[w] < NumComps)
      BY <2>1, <2>4, <3>2 DEF ReceiveReply
    <3> QED BY <3>1, <3>2
  <2> QED BY <2>2, <2>3, <2>4 DEF AskingStep
<1>3. \A v \in Workers : NumSent(v)' = NumSent(v)
  BY <1>1, <1>2 DEF NumSent
<1>4. \A v \in Workers : chan'[<<v, Master>>] = chan[<<v, Master>>]
  BY AskingOff
<1> QED BY <1>1, <1>3, <1>4, DataStill

LEMMA HandlerOff ==
    ASSUME IInv, NetInv, NEW h \in Handlers, HandlerStep(h)
    PROVE  \A v \in Workers : chan'[<<v, Master>>] = chan[<<v, Master>>]
<1>1. \/ \E p \in Workers \cup {TaskManagerId} : \E s : chan' = [chan EXCEPT ![<<p, h>>] = s]
      \/ \E p \in Workers : \E s : chan' = [chan EXCEPT ![<<h, p>>] = s]
  <2>1. CASE HandlerListen(h)
    BY <2>1 DEF HandlerListen, Received
  <2>2. CASE HandlerReceiveList(h)
    BY <2>2 DEF HandlerReceiveList, HandlerTakeList, Received
  <2>3. CASE HandlerReply(h)
    BY <2>3 DEF HandlerReply, Send, NetInv, Exchange
  <2> QED BY <2>1, <2>2, <2>3 DEF HandlerStep
<1> QED BY <1>1, OffMaster, LinksApart

LEMMA HandlerData ==
    ASSUME IInv, NetInv, DataInv, NEW h \in Handlers, HandlerStep(h) PROVE DataInv'
<1>1. UNCHANGED <<written, num_tasks, finished, task, at, count>>
  BY DEF HandlerStep, HandlerListen, HandlerReceiveList, HandlerTakeList, HandlerReply, masterVars,
         workerVars, vars, managerVars
<1>2. \A v \in Workers : chan'[<<v, Master>>] = chan[<<v, Master>>]
  BY HandlerOff
<1>3. \A v \in Workers : NumSent(v)' = NumSent(v)
  BY <1>1 DEF NumSent
<1> QED BY <1>1, <1>2, <1>3, DataStill

LEMMA ManagerOff ==
    ASSUME NetInv, CompletionStep \/ TupleStep
    PROVE  \A v \in Workers : chan'[<<v, Master>>] = chan[<<v, Master>>]
<1>1. \E q, s : chan' = [chan EXCEPT ![<<TaskManagerId, q>>] = s]
  BY DEF CompletionStep, BroadcastCompletion, TupleStep, SendTuples, ReceiveTuples, MasterTake, Send
<1> QED BY <1>1, LinksApart DEF NetInv, NetTypes

LEMMA ManagerData ==
    ASSUME IInv, NetInv, DataInv, CompletionStep \/ TupleStep PROVE DataInv'
<1>1. UNCHANGED <<written, num_tasks, finished, task, at, count>>
  <2>1. CASE CompletionStep \/ SendTuples
    BY <2>1 DEF CompletionStep, BroadcastCompletion, SendTuples, netVars, masterVars, workerVars,
                vars, managerVars
  <2>2. CASE ReceiveTuples
    <3> DEFINE tag == IF tuples = 0 THEN "NUM_RUPTURES_TAG" ELSE "VARIATION_INFO_TAG"
    <3>1. MasterTake(TaskManagerId, tag) /\ tag # "DATA_TAG"
      BY <2>2 DEF ReceiveTuples
    <3> HIDE DEF tag
    <3>2. written' = written
      BY <3>1 DEF MasterTake
    <3> QED BY <2>2, <3>2 DEF ReceiveTuples, workerVars, vars, managerVars
  <2> QED BY <2>1, <2>2 DEF TupleStep
<1>2. \A v \in Workers : chan'[<<v, Master>>] = chan[<<v, Master>>]
  BY ManagerOff
<1>3. \A v \in Workers : NumSent(v)' = NumSent(v)
  BY <1>1 DEF NumSent
<1> QED BY <1>1, <1>2, <1>3, DataStill

LEMMA ProtocolData ==
    ASSUME IInv, NetInv, DataInv, ProtocolStep PROVE DataInv'
<1>1. /\ UNCHANGED <<mode, chan, netVars, tuples, told, finished, num_tasks>>
      /\ \A w \in Workers : phase[w] = "run_synth" => task'[w] = task[w]
  BY ProtocolEffect
<1>2. \A v \in Workers : NumSent(v)' = NumSent(v) /\ (NumSent(v) # 0 => phase[v] = "run_synth")
  BY <1>1 DEF NumSent, netVars, NetInv, WorkerPlace
<1> QED BY <1>1, <1>2, DataStill DEF netVars

LEMMA QuietData == NetInv /\ DataInv /\ Quiet => DataInv'
<1> SUFFICES ASSUME NetInv, DataInv, Quiet PROVE DataInv'
  OBVIOUS
<1>1. \A v \in Workers : NumSent(v)' = NumSent(v)
  BY DEF Quiet, dsVars, netVars, NumSent
<1> QED BY <1>1, DataStill DEF Quiet, dsVars, vars, managerVars, netVars

(* The end of a task: what it sent counts as made by a finished task. *)
LEMMA EndTaskData ==
    ASSUME IInv, NetInv, DataInv, NEW w \in Workers, EndTask(w) PROVE DataInv'
<1>1. /\ at[w] = "end" /\ at' = [at EXCEPT ![w] = "idle"]
      /\ finished' = finished \cup {task[w]}
      /\ UNCHANGED <<num_tasks, task, chan, count, written>>
  BY DEF EndTask, FinishTask, managerVars, masterVars
<1>2. at'[w] = "idle" /\ \A v \in Workers \ {w} : at'[v] = at[v]
  BY <1>1 DEF NetInv, NetTypes
<1>3. NumSent(w) = NumClusters /\ NumSent(w)' = 0
      /\ \A v \in Workers \ {w} : NumSent(v)' = NumSent(v)
  BY <1>1, <1>2 DEF NumSent, NetInv, WorkerPlace
<1>4. \A v \in Workers : ToMaster(v)' = ToMaster(v)
  BY <1>1 DEF ToMaster
<1>5. \A v \in Workers : /\ Contents(ToMaster(v)') = Contents(ToMaster(v))
                         /\ Distinct(ToMaster(v)')
  BY <1>4 DEF DataInv, DataOnce
<1>6. Tasks' = Tasks
  BY <1>1 DEF Tasks
<1>7. ASSUME NEW t \in Tasks, NEW n \in 0 .. NumClusters - 1
      PROVE  Produced(t, n)' <=> Produced(t, n)
  <2>0. NumClusters \in Nat /\ n \in Nat /\ n < NumClusters
    BY DirectSynthAssumption
  <2>1. CASE t = task[w]
    <3>1. Produced(t, n)
      BY <1>3, <2>0, <2>1 DEF Produced
    <3>2. Produced(t, n)'
      BY <1>1, <1>6, <2>1 DEF Produced
    <3> QED BY <3>1, <3>2
  <2>2. CASE t # task[w]
    BY <1>1, <1>3, <1>6, <2>0, <2>2 DEF Produced
  <2> QED BY <2>1, <2>2
<1> QED BY <1>1, <1>5, <1>7, DataFrame

(* The announcement and the metadata, received or sent, are not data. *)
LEMMA OtherTaken ==
    ASSUME IInv, NetInv, DataInv, NEW w \in Workers, UNCHANGED <<vars, workerVars, written>>,
           chan[<<w, Master>>] # <<>>, chan[<<w, Master>>][1].kind # "DATA", Received(w, Master)
    PROVE  DataInv'
<1>1. NetTypes /\ <<w, Master>> \in Links /\ ToMaster(w) \in Seq(Message)
  BY LinksApart DEF NetInv, NetTypes, ToMaster
<1>2. /\ chan'[<<w, Master>>] = Tail(chan[<<w, Master>>])
      /\ \A l \in Links : l # <<w, Master>> => chan'[l] = chan[l]
  BY <1>1, ReceiveEffect
<1>3. Contents(ToMaster(w)') = Contents(ToMaster(w)) /\ Distinct(ToMaster(w)')
  <2>1. Distinct(ToMaster(w)) /\ ToMaster(w) # <<>> /\ ToMaster(w)[1].kind # "DATA"
        /\ ToMaster(w)' = Tail(ToMaster(w))
    BY <1>2 DEF DataInv, DataOnce, ToMaster
  <2> QED BY <1>1, <2>1, ContentsTail
<1>4. ASSUME NEW v \in Workers, v # w
      PROVE  Contents(ToMaster(v)') = Contents(ToMaster(v)) /\ Distinct(ToMaster(v)')
  <2>1. ToMaster(v)' = ToMaster(v)
    BY <1>2, <1>4, LinksApart DEF ToMaster
  <2> QED BY <2>1 DEF DataInv, DataOnce
<1>5. \A t, n : Produced(t, n)' <=> Produced(t, n)
  BY DEF Produced, NumSent, Tasks, vars, managerVars, workerVars
<1> QED BY <1>3, <1>4, <1>5, DataFrame DEF vars, managerVars

LEMMA MasterData ==
    ASSUME IInv, NetInv, DataInv, MasterStep PROVE DataInv'
<1>1. CASE MasterListen
  <2>1. PICK p \in Workers \cup {TaskManagerId} :
          /\ mpc = "listen" /\ chan[<<p, Master>>] # <<>> /\ Received(p, Master)
          /\ UNCHANGED <<vars, workerVars, handlerVars, written, notified>>
    BY <1>1 DEF MasterListen, CanReceive
  <2>2. CASE p = TaskManagerId
    <3>1. \A v \in Workers : chan'[<<v, Master>>] = chan[<<v, Master>>]
      BY <2>1, <2>2, LinksApart DEF Received, NetInv, NetTypes
    <3>2. \A v \in Workers : NumSent(v)' = NumSent(v)
      BY <2>1 DEF NumSent, workerVars
    <3> QED BY <2>1, <3>1, <3>2, DataStill DEF vars, managerVars
  <2>3. CASE p \in Workers
    <3>1. Stream(ToMaster(p), Awaited(p), SentNext(p)) /\ ToMaster(p) # <<>> /\ Awaited(p) = "DATA_FILE"
      BY <2>1, <2>3 DEF NetInv, Streams, ToMaster, Awaited
    <3>2. chan[<<p, Master>>][1].kind = "DATA_FILE"
      BY <3>1 DEF Stream, ToMaster
    <3> QED BY <2>1, <2>3, <3>2, OtherTaken
  <2> QED BY <2>2, <2>3
<1>2. CASE MasterMetadata \/ MasterContents
  <2>1. msrc \in Workers /\ mpc \in {"metadata", "contents"}
    BY <1>2 DEF MasterMetadata, MasterContents, NetInv, Streams
  <2>2. PICK w \in Workers : w = msrc
    BY <2>1
  <2> DEFINE s == chan[<<w, Master>>]
  <2>3. NetTypes /\ <<w, Master>> \in Links /\ s \in Seq(Message)
    BY LinksApart DEF NetInv, NetTypes
  <2>4. /\ mpc = "metadata" => (s # <<>> => s[1].kind = "METADATA")
        /\ mpc = "contents" => (s # <<>> => s[1].kind = "DATA")
    BY <2>2 DEF NetInv, Streams, Stream, ToMaster, Awaited
  <2>5. UNCHANGED <<vars, workerVars>>
    BY <1>2 DEF MasterMetadata, MasterContents
  <2>6. CASE MasterMetadata
    <3>1. MasterTake(w, "DATA_FILENAME_TAG") /\ mpc = "metadata"
      BY <2>2, <2>6 DEF MasterMetadata
    <3>2. s # <<>> => TagOf[s[1].kind] = "DATA_FILENAME_TAG"
      BY <2>4, <3>1, Tags
    <3>3. /\ s # <<>> /\ Received(w, Master)
          /\ written' = IF "DATA_FILENAME_TAG" = "DATA_TAG" THEN Append(written, s[1]) ELSE written
      BY <2>3, <3>1, <3>2, TakeFirst
    <3>4. s[1].kind # "DATA" /\ written' = written
      BY <2>4, <3>1, <3>3
    <3> QED BY <2>5, <3>3, <3>4, OtherTaken
  <2>7. CASE MasterContents
    <3>1. MasterTake(w, "DATA_TAG") /\ mpc = "contents"
      BY <2>2, <2>7 DEF MasterContents
    <3>2. s # <<>> => TagOf[s[1].kind] = "DATA_TAG"
      BY <2>4, <3>1, Tags
    <3>3. /\ s # <<>> /\ Received(w, Master) /\ s[1] \in Message
          /\ written' = IF "DATA_TAG" = "DATA_TAG" THEN Append(written, s[1]) ELSE written
      BY <2>3, <3>1, <3>2, TakeFirst
    <3>4. PICK m \in Message : m = s[1]
      BY <3>3
    <3>5. m.kind = "DATA" /\ written' = Append(written, m) /\ written \in Seq(Message)
      BY <2>3, <2>4, <3>1, <3>3, <3>4 DEF NetTypes
    <3>6. Distinct(s) /\ Distinct(written) /\ Contents(s) \cap Contents(written) = {}
      BY DEF DataInv, DataOnce, ToMaster
    <3>7. Distinct(Tail(s)) /\ Contents(Tail(s)) = Contents(s) \ {m} /\ m \in Contents(s)
      <4> HIDE DEF s
      <4> QED BY <2>3, <3>3, <3>4, <3>5, <3>6, ContentsTail
    <3>8. Contents(written') = Contents(written) \cup {m} /\ Distinct(written')
      BY <3>5, <3>6, <3>7, ContentsAppend
    <3>9. ToMaster(w)' = Tail(s) /\ \A v \in Workers \ {w} : ToMaster(v)' = ToMaster(v)
      BY <2>3, <3>3, ReceiveEffect, LinksApart DEF ToMaster
    <3>10. \A t, n : Produced(t, n)' <=> Produced(t, n)
      BY <2>5 DEF Produced, NumSent, Tasks, vars, managerVars, workerVars
    <3>11. /\ Contents(ToMaster(w)') = Contents(ToMaster(w)) \ {m} /\ m \in Contents(ToMaster(w))
           /\ Distinct(ToMaster(w)')
           /\ \A v \in Workers \ {w} : /\ Contents(ToMaster(v)') = Contents(ToMaster(v))
                                        /\ Distinct(ToMaster(v)')
      BY <3>7, <3>9 DEF ToMaster, DataInv, DataOnce
    <3>12. \A v \in Workers : /\ Contents(ToMaster(v))' = Contents(ToMaster(v)')
                              /\ Distinct(ToMaster(v))' <=> Distinct(ToMaster(v)')
      BY DEF Contents, Distinct, Data
    <3>13. Contents(written)' = Contents(written') /\ (Distinct(written)' <=> Distinct(written'))
      BY DEF Contents, Distinct, Data
    <3>14. DataProduced'
      BY <3>8, <3>10, <3>11, <3>12, <3>13 DEF DataInv, DataProduced
    <3>15. \A i \in 1 .. Len(written') : written'[i].kind = "DATA"
      <4>1. \A i \in 1 .. Len(written) : written[i].kind = "DATA"
        BY DEF DataInv, DataOnce
      <4>2. /\ Len(Append(written, m)) = Len(written) + 1
            /\ \A i \in 1 .. Len(written) : Append(written, m)[i].kind = written[i].kind
            /\ Append(written, m)[Len(written) + 1].kind = m.kind
        BY <3>5, AppendKinds
      <4>3. Len(written) \in Nat
        BY <3>5
      <4> QED BY <3>5, <4>1, <4>2, <4>3
    <3>16. DataOnce'
      <4>1. \A v \in Workers : Contents(ToMaster(v))' \subseteq Contents(ToMaster(v))
        BY <3>11, <3>12
      <4>2. \A v \in Workers : Contents(ToMaster(v))' \cap Contents(written)' = {}
        BY <3>8, <3>11, <3>12, <3>13 DEF DataInv, DataOnce
      <4>3. \A v, u \in Workers :
               v # u => Contents(ToMaster(v))' \cap Contents(ToMaster(u))' = {}
        BY <4>1 DEF DataInv, DataOnce
      <4> QED BY <3>8, <3>11, <3>12, <3>13, <3>15, <4>2, <4>3 DEF DataOnce
    <3>17. DataKept'
      <4>1. Tasks' = Tasks
        BY <2>5 DEF Tasks, vars, managerVars
      <4> QED BY <3>8, <3>10, <3>11, <3>12, <3>13, <4>1 DEF DataInv, DataKept
    <3> QED BY <3>14, <3>16, <3>17 DEF DataInv
  <2> QED BY <1>2, <2>6, <2>7
<1> QED BY <1>1, <1>2 DEF MasterStep

(* A cluster sent is a new one: its worker alone holds the task, and has not *)
(* sent it before.                                                           *)
LEMMA SendClusterData ==
    ASSUME IInv, NetInv, DataInv, NEW w \in Workers, SendCluster(w) PROVE DataInv'
<1>1. NetTypes /\ <<w, Master>> \in Links /\ NumClusters \in Nat /\ ToMaster(w) \in Seq(Message)
  BY LinksApart, DirectSynthAssumption DEF NetInv, NetTypes, ToMaster
<1>2. /\ at[w] \in {"header", "metadata", "contents"} /\ count[w] \in Nat /\ count[w] < NumClusters
      /\ phase[w] = "run_synth"
  BY <1>1 DEF SendCluster, NetTypes, NetInv, WorkerPlace
<1>3. task[w] \in Tasks /\ Tasks \subseteq Int
  BY <1>2 DEF IInv, HeldKnown, Busy, Tasks
<1>4. UNCHANGED <<num_tasks, finished, task, written>>
  BY DEF SendCluster, vars, managerVars, masterVars
<1>5. Distinct(ToMaster(w))
  BY DEF DataInv, DataOnce
<1>6. Tasks' = Tasks
  BY <1>4 DEF Tasks
<1>7. CASE at[w] # "contents"
  <2> DEFINE k == IF at[w] = "header" THEN "DATA_FILE" ELSE "METADATA"
  <2>1. Send(w, Master, Msg(k, task[w], count[w])) /\ UNCHANGED count
        /\ at' = [at EXCEPT ![w] = IF at[w] = "header" THEN "metadata" ELSE "contents"]
    BY <1>2, <1>7 DEF SendCluster
  <2>2. Msg(k, task[w], count[w]) \in Message
    <3>1. k \in Kinds /\ task[w] \in Int /\ count[w] \in Int
      BY <1>2, TaskType DEF Kinds
    <3> HIDE DEF k
    <3> QED BY <3>1, MessageType
  <2>3. PICK m \in Message : m = Msg(k, task[w], count[w])
    BY <2>2
  <2>4. m.kind # "DATA" /\ Send(w, Master, m)
    BY <2>1, <2>3 DEF Msg
  <2>5. ToMaster(w)' = Append(ToMaster(w), m) /\ \A v \in Workers \ {w} : ToMaster(v)' = ToMaster(v)
    BY <1>1, <2>4, SendEffect, LinksApart DEF ToMaster
  <2>6. Contents(ToMaster(w)') = Contents(ToMaster(w)) /\ Distinct(ToMaster(w)')
    BY <1>1, <1>5, <2>4, <2>5, ContentsAppend
  <2>7. \A v \in Workers : /\ Contents(ToMaster(v)') = Contents(ToMaster(v))
                           /\ Distinct(ToMaster(v)')
    BY <2>5, <2>6 DEF DataInv, DataOnce
  <2>8. \A v \in Workers : NumSent(v)' = NumSent(v)
    BY <1>1, <1>2, <2>1 DEF NumSent, NetTypes
  <2>9. \A t, n : Produced(t, n)' <=> Produced(t, n)
    BY <1>4, <1>6, <2>8 DEF Produced
  <2> QED BY <1>4, <2>7, <2>9, DataFrame
<1>8. CASE at[w] = "contents"
  <2>1. /\ Send(w, Master, Msg("DATA", task[w], count[w]))
        /\ count' = [count EXCEPT ![w] = @ + 1]
        /\ at' = [at EXCEPT ![w] = IF count'[w] = NumClusters THEN "end" ELSE "header"]
    BY <1>8 DEF SendCluster
  <2>2. Msg("DATA", task[w], count[w]) \in Message
    <3>1. "DATA" \in Kinds /\ task[w] \in Int /\ count[w] \in Int
      BY <1>2, TaskType DEF Kinds
    <3> QED BY <3>1, MessageType
  <2>3. PICK m \in Message : m = Msg("DATA", task[w], count[w])
    BY <2>2
  <2>4. m.kind = "DATA" /\ m.task = task[w] /\ m.n = count[w] /\ Send(w, Master, m)
    BY <2>1, <2>3 DEF Msg
  <2>5. ToMaster(w)' = Append(ToMaster(w), m) /\ \A v \in Workers \ {w} : ToMaster(v)' = ToMaster(v)
    BY <1>1, <2>4, SendEffect, LinksApart DEF ToMaster
  <2>6. NumSent(w) = count[w] /\ NumSent(w)' = count[w] + 1
        /\ \A v \in Workers \ {w} : NumSent(v)' = NumSent(v)
    BY <1>1, <1>8, <2>1 DEF NumSent, NetTypes
  <2>7. ~Produced(m.task, m.n)
    <3>1. task[w] \notin finished /\ \A v \in Workers \ {w} : ~Holds(v, task[w])
      BY <1>2, <1>3 DEF IInv, EachTaskRunOnce, Holds
    <3>2. \A v \in Workers \ {w} : task[v] = task[w] => NumSent(v) = 0
      BY <3>1 DEF Holds, NumSent, NetInv, WorkerPlace
    <3> QED BY <1>2, <2>4, <2>6, <3>1, <3>2 DEF Produced
  <2>8. \A t, n : Produced(t, n)' <=> Produced(t, n) \/ (t = m.task /\ n = m.n)
    <3> SUFFICES ASSUME NEW t, NEW n
                 PROVE  Produced(t, n)' <=> Produced(t, n) \/ (t = m.task /\ n = m.n)
      OBVIOUS
    <3>1. CASE t = task[w] /\ n \in 0 .. NumClusters - 1
      <4>1. n < count[w] + 1 <=> n < count[w] \/ n = count[w]
        BY <1>2, <3>1
      <4>2. (\E v \in Workers : task[v] = t /\ n < NumSent(v)')
            <=> (\E v \in Workers : task[v] = t /\ n < NumSent(v)) \/ n = m.n
        <5>1. \A v \in Workers : n < NumSent(v)' <=> n < NumSent(v) \/ (v = w /\ n = m.n)
          BY <2>4, <2>6, <4>1
        <5> QED BY <3>1, <5>1
      <4>3. t \in Tasks /\ t = m.task
        BY <1>3, <2>4, <3>1
      <4> QED BY <1>4, <1>6, <3>1, <4>2, <4>3 DEF Produced
    <3>2. CASE t # task[w]
      BY <1>4, <1>6, <2>4, <2>6, <3>2 DEF Produced
    <3>3. CASE n \notin 0 .. NumClusters - 1
      BY <1>1, <1>2, <2>4, <3>3 DEF Produced
    <3> QED BY <3>1, <3>2, <3>3
  <2>9. /\ \A v \in Workers : m \notin Contents(ToMaster(v))
        /\ m \notin Contents(written)
    BY <2>7 DEF DataInv, DataProduced
  <2>10. Contents(ToMaster(w)') = Contents(ToMaster(w)) \cup {m} /\ Distinct(ToMaster(w)')
    BY <1>1, <1>5, <2>4, <2>5, <2>9, ContentsAppend
  <2>11. /\ Contents(ToMaster(w))' = Contents(ToMaster(w)) \cup {m} /\ Distinct(ToMaster(w))'
         /\ \A v \in Workers \ {w} : /\ Contents(ToMaster(v))' = Contents(ToMaster(v))
                                      /\ Distinct(ToMaster(v))'
    <3>1. \A v \in Workers : /\ Contents(ToMaster(v))' = Contents(ToMaster(v)')
                             /\ Distinct(ToMaster(v))' <=> Distinct(ToMaster(v)')
      BY DEF Contents, Distinct, Data
    <3> QED BY <2>5, <2>10, <3>1 DEF DataInv, DataOnce
  <2>12. /\ Contents(written)' = Contents(written) /\ (Distinct(written)' <=> Distinct(written))
    BY <1>4 DEF Contents, Distinct, Data
  <2>13. DataProduced'
    BY <2>8, <2>11, <2>12 DEF DataInv, DataProduced
  <2>14. DataOnce'
    <3>1. \A v \in Workers : Contents(ToMaster(v))' \cap Contents(written)' = {}
      BY <2>9, <2>11, <2>12 DEF DataInv, DataOnce
    <3>2. \A v, u \in Workers :
             v # u => Contents(ToMaster(v))' \cap Contents(ToMaster(u))' = {}
      BY <2>9, <2>11 DEF DataInv, DataOnce
    <3> QED BY <1>4, <2>11, <2>12, <3>1, <3>2 DEF DataInv, DataOnce
  <2>15. DataKept'
    <3> SUFFICES ASSUME NEW t \in Tasks, NEW n \in 0 .. NumClusters - 1, Produced(t, n)'
                 PROVE  \/ Msg("DATA", t, n) \in Contents(written)'
                        \/ \E v \in Workers : Msg("DATA", t, n) \in Contents(ToMaster(v))'
      BY <1>6 DEF DataKept
    <3>1. CASE Produced(t, n)
      BY <2>11, <2>12, <3>1 DEF DataInv, DataKept
    <3>2. CASE t = m.task /\ n = m.n
      <4>1. Msg("DATA", t, n) = m
        BY <2>3, <2>4, <3>2
      <4> QED BY <2>11, <4>1
    <3> QED BY <2>8, <3>1, <3>2
  <2> QED BY <2>13, <2>14, <2>15 DEF DataInv
<1> QED BY <1>7, <1>8

LEMMA DataStep == IInv /\ NetInv /\ DataInv /\ [suNext]_suVars => DataInv'
<1> SUFFICES ASSUME IInv, NetInv, DataInv, [suNext]_suVars PROVE DataInv'
  OBVIOUS
<1>1. CASE Quiet
  BY <1>1, QuietData
<1>2. CASE ProtocolStep
  BY <1>2, ProtocolData
<1>3. CASE MasterStep
  BY <1>3, MasterData
<1>4. CASE CompletionStep \/ TupleStep
  BY <1>4, ManagerData
<1>5. ASSUME NEW w \in Workers, AskingStep(w) PROVE DataInv'
  BY <1>5, AskingData
<1>6. ASSUME NEW w \in Workers, SendingStep(w) PROVE DataInv'
  BY <1>6, SendClusterData, EndTaskData DEF SendingStep
<1>7. ASSUME NEW h \in Handlers, HandlerStep(h) PROVE DataInv'
  BY <1>7, HandlerData
<1> QED BY <1>1, <1>2, <1>3, <1>4, <1>5, <1>6, <1>7, StepCases

(* What was made of a task is with its worker, in transit or written, in one *)
(* of these places only (the clusters run_synth sends and master_listen      *)
(* writes).                                                                  *)
THEOREM DataInvariance == suSafeSpec => []DataInv
BY NetInvariance, DataInit, DataStep, PTL DEF suSafeSpec

(* The master writes contents only, each cluster of each task once: the      *)
(* receives of master_listen by source and tag take the contents that belong *)
(* to the announcement.                                                      *)
THEOREM ClustersWrittenOnce == suSafeSpec => []WrittenOnce
<1>1. NetInv /\ DataInv => WrittenOnce
  <2> SUFFICES ASSUME NetInv, DataInv PROVE WrittenOnce
    OBVIOUS
  <2>1. written \in Seq(Message)
    BY DEF NetInv, NetTypes
  <2>2. DOMAIN written = 1 .. Len(written)
    BY <2>1
  <2>3. \A i \in 1 .. Len(written) : written[i].kind = "DATA"
    BY DEF DataInv, DataOnce
  <2>4. \A i, j \in 1 .. Len(written) : written[i] = written[j] => i = j
    BY <2>3 DEF DataInv, DataOnce, Distinct, Data
  <2> QED BY <2>2, <2>3, <2>4 DEF WrittenOnce, IsInjective
<1> QED BY <1>1, NetInvariance, DataInvariance, PTL
-----------------------------------------------------------------------------
(* What a step does to the links to the master: it leaves them alone, takes  *)
(* the first message of one, or is a worker's that is not idle after it.     *)
LinksKept == \A v \in Workers : ToMaster(v)' = ToMaster(v)
TakenFrom(w) == /\ ToMaster(w) # <<>> /\ ToMaster(w)' = Tail(ToMaster(w)) /\ UNCHANGED at
                /\ \A v \in Workers \ {w} : ToMaster(v)' = ToMaster(v)

LEMMA MasterTakes ==
    ASSUME IInv, NetInv, MasterStep
    PROVE  (LinksKept \/ \E w \in Workers : TakenFrom(w)) /\ UNCHANGED <<at, notified>>
<1>1. UNCHANGED <<at, notified>>
  BY DEF MasterStep, MasterListen, MasterMetadata, MasterContents, workerVars
<1>2. ASSUME NEW p \in Workers \cup {TaskManagerId}, chan[<<p, Master>>] # <<>>, Received(p, Master)
      PROVE  LinksKept \/ \E w \in Workers : TakenFrom(w)
  <2>1. /\ chan'[<<p, Master>>] = Tail(chan[<<p, Master>>])
        /\ \A l \in Links : l # <<p, Master>> => chan'[l] = chan[l]
    BY <1>2, LinksApart, ReceiveEffect DEF NetInv
  <2>2. CASE p \in Workers
    BY <1>1, <1>2, <2>1, <2>2, LinksApart DEF TakenFrom, ToMaster
  <2>3. CASE p = TaskManagerId
    BY <2>1, <2>3, LinksApart DEF LinksKept, ToMaster
  <2> QED BY <2>2, <2>3
<1>3. CASE MasterListen
  BY <1>1, <1>2, <1>3 DEF MasterListen, CanReceive
<1>4. CASE MasterMetadata \/ MasterContents
  <2>1. msrc \in Workers /\ mpc \in {"metadata", "contents"}
    BY <1>4 DEF MasterMetadata, MasterContents, NetInv, Streams
  <2>2. PICK w \in Workers : w = msrc
    BY <2>1
  <2> DEFINE s == chan[<<w, Master>>]
  <2>3. NetTypes /\ <<w, Master>> \in Links
    BY LinksApart DEF NetInv
  <2>4. /\ mpc = "metadata" => (s # <<>> => s[1].kind = "METADATA")
        /\ mpc = "contents" => (s # <<>> => s[1].kind = "DATA")
    BY <2>2 DEF NetInv, Streams, Stream, ToMaster, Awaited
  <2>5. CASE MasterMetadata
    <3>1. MasterTake(w, "DATA_FILENAME_TAG") /\ mpc = "metadata"
      BY <2>2, <2>5 DEF MasterMetadata
    <3>2. s # <<>> => TagOf[s[1].kind] = "DATA_FILENAME_TAG"
      BY <2>4, <3>1, Tags
    <3> QED BY <1>1, <1>2, <2>3, <3>1, <3>2, TakeFirst
  <2>6. CASE MasterContents
    <3>1. MasterTake(w, "DATA_TAG") /\ mpc = "contents"
      BY <2>2, <2>6 DEF MasterContents
    <3>2. s # <<>> => TagOf[s[1].kind] = "DATA_TAG"
      BY <2>4, <3>1, Tags
    <3> QED BY <1>1, <1>2, <2>3, <3>1, <3>2, TakeFirst
  <2> QED BY <1>4, <2>5, <2>6
<1> QED BY <1>1, <1>3, <1>4 DEF MasterStep

LEMMA MasterLinks ==
    ASSUME IInv, NetInv, [suNext]_suVars
    PROVE  /\ mode' = mode
           /\ \/ LinksKept /\ \A v \in Workers : at'[v] = "idle" => at[v] = "idle"
              \/ \E w \in Workers : TakenFrom(w)
              \/ \E w \in Workers : SendCluster(w) \/ EndTask(w)
           /\ notified' = notified \/ CompletionStep
<1>1. CASE Quiet
  BY <1>1 DEF Quiet, dsVars, netVars, LinksKept, ToMaster
<1>2. CASE ProtocolStep
  BY <1>2 DEF ProtocolStep, Kept, netVars, LinksKept, ToMaster
<1>3. CASE MasterStep
  BY <1>3, MasterTakes DEF MasterStep, Kept
<1>4. CASE CompletionStep \/ TupleStep
  <2>1. mode' = mode /\ at' = at
    BY <1>4 DEF CompletionStep, BroadcastCompletion, TupleStep, SendTuples, ReceiveTuples, Kept, netVars,
                workerVars
  <2>2. notified' = notified \/ CompletionStep
    BY <1>4 DEF TupleStep, SendTuples, ReceiveTuples, netVars
  <2> QED BY <1>4, <2>1, <2>2, ManagerOff DEF LinksKept, ToMaster
<1>5. ASSUME NEW w \in Workers, AskingStep(w)
      PROVE  /\ UNCHANGED <<mode, notified>> /\ LinksKept
             /\ \A v \in Workers : at'[v] = "idle" => at[v] = "idle"
  <2>1. UNCHANGED <<mode, notified>>
    BY <1>5 DEF AskingStep, Kept, StartTask, SendRequest, SendList, ReceiveReply
  <2>2. at' = at \/ \E p \in {"header", "ask", "list", "reply"} : at' = [at EXCEPT ![w] = p]
    BY <1>5 DEF AskingStep, StartTask, SendRequest, SendList, ReceiveReply
  <2> QED BY <1>5, <2>1, <2>2, AskingOff DEF LinksKept, ToMaster, NetInv, NetTypes
<1>6. ASSUME NEW w \in Workers, SendingStep(w)
      PROVE  UNCHANGED <<mode, notified>> /\ (SendCluster(w) \/ EndTask(w))
  BY <1>6 DEF SendingStep, Kept, SendCluster, EndTask
<1>7. ASSUME NEW h \in Handlers, HandlerStep(h)
      PROVE  UNCHANGED <<mode, notified, at>> /\ LinksKept
  <2>1. UNCHANGED <<mode, notified, at>>
    BY <1>7 DEF HandlerStep, Kept, HandlerListen, HandlerReceiveList, HandlerTakeList, HandlerReply,
                workerVars
  <2> QED BY <1>7, <2>1, HandlerOff DEF LinksKept, ToMaster
<1> QED BY <1>1, <1>2, <1>3, <1>4, <1>5, <1>6, <1>7, StepCases

(* A worker that has asked for more is past its last send: MPI has buffered  *)
(* what of it has not been received.                                         *)
LEMMA FlushedStep ==
    ASSUME IInv, NetInv, Flushed, [suNext]_suVars PROVE Flushed'
<1>1. mode' = mode
  BY MasterLinks
<1>2. ASSUME LinksKept, \A v \in Workers : at'[v] = "idle" => at[v] = "idle" PROVE Flushed'
  <2> SUFFICES ASSUME NEW v \in Workers, at'[v] = "idle", ToMaster(v)' # <<>>
               PROVE  ToMaster(v)'[Len(ToMaster(v)')].kind \in mode'.buffered
    BY DEF Flushed
  <2>1. ToMaster(v)' = ToMaster(v) /\ at[v] = "idle"
    BY <1>2 DEF LinksKept
  <2> QED BY <1>1, <2>1 DEF Flushed
<1>3. ASSUME NEW w \in Workers, TakenFrom(w) PROVE Flushed'
  <2> SUFFICES ASSUME NEW v \in Workers, at'[v] = "idle", ToMaster(v)' # <<>>
               PROVE  ToMaster(v)'[Len(ToMaster(v)')].kind \in mode'.buffered
    BY DEF Flushed
  <2>1. ToMaster(v) \in Seq(Message) /\ at[v] = "idle"
    BY <1>3, LinksApart DEF NetInv, NetTypes, ToMaster, TakenFrom
  <2>2. CASE v # w
    BY <1>1, <1>3, <2>1, <2>2 DEF Flushed, TakenFrom
  <2>3. CASE v = w
    <3> DEFINE s == ToMaster(v)
    <3>1. s # <<>> /\ ToMaster(v)' = Tail(s) /\ s[Len(s)].kind \in mode.buffered
      BY <1>3, <2>1, <2>3 DEF Flushed, TakenFrom
    <3>2. Tail(s)[Len(Tail(s))] = s[Len(s)]
      <4>1. Tail(s) # <<>> /\ s \in Seq(Message) /\ s # <<>>
        BY <2>1, <3>1
      <4> HIDE DEF s
      <4>2. Len(Tail(s)) = Len(s) - 1 /\ Tail(s) \in Seq(Message)
        BY <4>1
      <4>3. Len(Tail(s)) \in Nat \ {0}
        BY <4>1, <4>2, EmptySeq
      <4> QED BY <4>1, <4>2, <4>3
    <3> HIDE DEF s
    <3> QED BY <1>1, <3>1, <3>2
  <2> QED BY <2>2, <2>3
<1>4. ASSUME NEW w \in Workers, SendCluster(w) PROVE Flushed'
  <2>1. at'[w] # "idle" /\ \A v \in Workers \ {w} : at'[v] = at[v]
    BY <1>4 DEF SendCluster, NetInv, NetTypes
  <2>2. \A v \in Workers \ {w} : ToMaster(v)' = ToMaster(v)
    <3>1. \E m : chan' = [chan EXCEPT ![<<w, Master>>] = m]
      BY <1>4 DEF SendCluster, Send
    <3> QED BY <3>1, LinksApart DEF ToMaster, NetInv, NetTypes
  <2> QED BY <1>1, <2>1, <2>2 DEF Flushed
<1>5. ASSUME NEW w \in Workers, EndTask(w) PROVE Flushed'
  <2>1. at' = [at EXCEPT ![w] = "idle"] /\ chan' = chan /\ Unblocked(w)
    BY <1>5 DEF EndTask
  <2>2. \A v \in Workers : ToMaster(v)' = ToMaster(v)
    BY <2>1 DEF ToMaster
  <2>3. ToMaster(w) # <<>> => ToMaster(w)[Len(ToMaster(w))].kind \in mode.buffered
    BY <2>1, LinksApart DEF Unblocked, ToMaster, Last
  <2>4. \A v \in Workers \ {w} : at'[v] = at[v]
    BY <2>1 DEF NetInv, NetTypes
  <2> QED BY <1>1, <2>2, <2>3, <2>4 DEF Flushed
<1> QED BY <1>2, <1>3, <1>4, <1>5, MasterLinks

(* When completion is first announced the master has been sent nothing that  *)
(* it has not received, and nothing more is sent to it.                      *)
LEMMA EmptiedStep ==
    ASSUME SoundModes, IInv, NetInv, Flushed, Emptied, [suNext]_suVars PROVE Emptied'
<1> SUFFICES ASSUME notified' > 0 PROVE \A v \in Workers : ToMaster(v)' = <<>>
  BY DEF Emptied
<1>1. tm_pc = "returned"
  BY MasterLinks DEF NetInv, Told, CompletionStep, BroadcastCompletion
<1>2. \A v \in Workers : at[v] = "idle"
  BY <1>1 DEF IInv, ReturnedLast, Busy, NetInv, WorkerPlace
<1>3. CASE CompletionStep
  <2>1. \A v \in Workers : ToMaster(v)' = ToMaster(v)
    BY <1>3, ManagerOff DEF ToMaster
  <2>2. CASE notified # 0
    BY <2>1, <2>2 DEF Emptied, NetInv, NetTypes
  <2>3. CASE notified = 0 /\ mode.sleep_suffices
    <3>1. Drained
      BY <1>3, <2>3 DEF CompletionStep, BroadcastCompletion
    <3> QED BY <2>1, <3>1 DEF Drained, ToMaster
  <2>4. CASE ~mode.sleep_suffices
    <3>1. "DATA" \notin mode.buffered
      BY <2>4 DEF SoundModes, NetInv, NetTypes
    <3>2. ASSUME NEW v \in Workers, ToMaster(v) # <<>> PROVE FALSE
      <4>1. Follows(ToMaster(v)[Len(ToMaster(v))].kind) = "DATA_FILE"
        BY <1>2, <3>2 DEF NetInv, Streams, Stream, SentNext
      <4>2. ToMaster(v)[Len(ToMaster(v))].kind \in ClusterKinds
        <5>1. ToMaster(v) \in Seq(Message)
          BY LinksApart DEF NetInv, NetTypes, ToMaster
        <5>2. Len(ToMaster(v)) \in DOMAIN ToMaster(v)
          BY <3>2, <5>1
        <5> QED BY <5>2 DEF NetInv, Streams, Stream
      <4>3. ToMaster(v)[Len(ToMaster(v))].kind = "DATA"
        BY <4>1, <4>2 DEF Follows, ClusterKinds
      <4>4. ToMaster(v)[Len(ToMaster(v))].kind \in mode.buffered
        BY <1>2, <3>2 DEF Flushed
      <4> QED BY <3>1, <4>3, <4>4
    <3> QED BY <2>1, <3>2
  <2> QED BY <2>2, <2>3, <2>4
<1>4. CASE notified' = notified
  <2>1. \A v \in Workers : ToMaster(v) = <<>>
    BY <1>4 DEF Emptied
  <2>2. ~ \E w \in Workers : SendCluster(w) \/ EndTask(w)
    BY <1>2 DEF SendCluster, EndTask
  <2>3. LinksKept
    BY <2>1, <2>2, MasterLinks DEF TakenFrom
  <2> QED BY <2>1, <2>3 DEF LinksKept
<1> QED BY <1>3, <1>4, MasterLinks

(* Where either contents are received before their send returns or the sleep *)
(* is long enough, the master has written every cluster of every task when   *)
(* it shuts down ("Sleep for 5 seconds", task_manager.c:61).                 *)
THEOREM AllWritten == ASSUME SoundModes PROVE suSafeSpec => []AllDataWritten
<1>1. suInit => Flushed /\ Emptied
  BY LinksApart DEF suInit, dsInit, Flushed, Emptied, ToMaster
<1>2. SoundModes /\ IInv /\ NetInv /\ Flushed /\ Emptied /\ [suNext]_suVars => Flushed' /\ Emptied'
  BY FlushedStep, EmptiedStep
<1>3. IInv /\ NetInv /\ DataInv /\ Emptied => AllDataWritten
  <2> SUFFICES ASSUME IInv, NetInv, DataInv, Emptied, mpc = "exited"
               PROVE  ToSet(written) = {Msg("DATA", t, n) : t \in Tasks, n \in 0 .. NumClusters - 1}
    BY DEF AllDataWritten
  <2>1. notified > 0 /\ tm_pc = "returned"
    BY DEF NetInv, Told
  <2>2. \A v \in Workers : ToMaster(v) = <<>>
    BY <2>1 DEF Emptied
  <2>3. finished = Tasks
    BY <2>1, InvariantImpliesDone DEF ReturnsOnlyWhenDone
  <2>4. written \in Seq(Message)
    BY DEF NetInv, NetTypes
  <2>5. ToSet(written) = Contents(written)
    <3>1. DOMAIN written = 1 .. Len(written)
      BY <2>4
    <3>2. Data(written) = 1 .. Len(written)
      BY DEF DataInv, DataOnce, Data
    <3> QED BY <3>1, <3>2 DEF ToSet, Contents
  <2>6. ASSUME NEW m \in Contents(written)
        PROVE  \E t \in Tasks, n \in 0 .. NumClusters - 1 : m = Msg("DATA", t, n)
    <3>1. m \in Message /\ m.kind = "DATA"
      BY <2>4, <2>6 DEF Contents, Data
    <3>2. m.task \in Tasks /\ m.n \in 0 .. NumClusters - 1
      BY <2>6 DEF DataInv, DataProduced, Produced
    <3>3. m = Msg("DATA", m.task, m.n)
      BY <3>1 DEF Message, Msg
    <3> QED BY <3>2, <3>3
  <2>7. ASSUME NEW t \in Tasks, NEW n \in 0 .. NumClusters - 1
        PROVE  Msg("DATA", t, n) \in Contents(written)
    <3>1. Produced(t, n)
      BY <2>3 DEF Produced
    <3>2. \A v \in Workers : Contents(ToMaster(v)) = {}
      BY <2>2 DEF Contents, Data
    <3> QED BY <3>1, <3>2 DEF DataInv, DataKept
  <2> QED BY <2>5, <2>6, <2>7
<1>4. suSafeSpec => [](Flushed /\ Emptied)
  BY <1>1, <1>2, NetInvariance, PTL DEF suSafeSpec
<1> QED BY <1>3, <1>4, NetInvariance, DataInvariance, PTL
=============================================================================
