----------------------------- MODULE Checkpoint -----------------------------
(***************************************************************************)
(* The master's output (master_listen, write_to_file, fp_cache.c) across   *)
(* crashes and restarts: data clusters are appended to the output files of *)
(* a rupture, its count of missing files goes down, and at zero its files  *)
(* are closed and a line goes to checkpoint.out; a restarted job skips the *)
(* ruptures with a line (parse_rupture_list) and deletes the output files  *)
(* of the others (master_listen).                                          *)
(*                                                                         *)
(* A cluster is named by the part (task) of the rupture it holds.  Written *)
(* data passes through three places: pending, the buffer of the open       *)
(* stream, lost when the process dies; file, what the operating system     *)
(* has; and of that the first durable[f] clusters have been synced to      *)
(* disk, which is what a failing node leaves at least.                     *)
(***************************************************************************)
EXTENDS Integers, FiniteSetsExt, SequencesExt

CONSTANTS
    Ruptures,       \* entries of the rupture list
    Kinds,          \* output kinds the master counts on, in sending order
    NumVars,        \* variations of a rupture
    Rvs,            \* parts of each rupture: <<starting_rv, ending_rv>>
    ShortValues,    \* values of the short in src_rup_table, 2^16
    CacheSize,      \* entries of the file pointer cache
    MaxStops,       \* bound on crashes of the process and early shutdowns
    MaxNodeCrashes  \* bound on crashes of the node

VARIABLES
    pc,             \* where the master is; "down" between two jobs
    queue,          \* ruptures this job processes
    src_rup_table,  \* files still missing, as the short holds it
    arrived,        \* clusters received of each part, in the order of Kinds
    cur, step,      \* rupture being closed, next kind of it to close
    recent,         \* the file pointer cache
    pending, file, durable,
    log, logDurable, \* checkpoint.out, and how much of it is surely on disk
    stops, nodeCrashes

memory == <<pc, queue, src_rup_table, arrived, cur, step, recent>>
storage == <<pending, file, durable, log, logDurable>>
vars == <<memory, storage, stops, nodeCrashes>>

Parts == DOMAIN Rvs
Files == Ruptures \X ToSet(Kinds)
Lru == INSTANCE LruFiles

(* The variations of a part end before ending_rv.  The parts of a rupture    *)
(* are the tasks parse_rupture_list cuts it into: TaskList shows that these  *)
(* have each variation once.                                                 *)
Variations(p) == Rvs[p][1] .. Rvs[p][2] - 1

ASSUME CheckpointAssumption ==
    /\ CacheSize \in Nat \ {0}
    /\ Kinds # <<>> /\ Kinds \in Seq(STRING) /\ IsInjective(Kinds)
    /\ IsFiniteSet(Parts) /\ Parts # {}
    /\ \A p \in Parts : Rvs[p][1] \in Nat /\ Rvs[p][2] \in Nat /\ Rvs[p][1] < Rvs[p][2]
    /\ NumVars \in Nat
    /\ UNION {Variations(p) : p \in Parts} = 0 .. NumVars - 1
    /\ \A p, q \in Parts : p # q => Variations(p) \cap Variations(q) = {}

NumFiles_AllKinds == ((Len(Kinds) + 1) * NumVars) % ShortValues
NumFiles == (Len(Kinds) * NumVars) % ShortValues

(* What run_synth sends for a task: the seismograms, and the other kinds    *)
(* that are asked for unless run_PSA is off, when it returns before them.   *)
SentKinds == IF "PeakVals" \in ToSet(Kinds) THEN Kinds
             ELSE SelectSeq(Kinds, LAMBDA k : k = "Seismogram")

(* The short holds every count that occurs: it may turn negative, but does  *)
(* not pass zero on the way.                                                *)
ASSUME CountFits == ShortValues \in Nat /\ Len(Kinds) * NumVars < ShortValues

Logged == ToSet(log)
-----------------------------------------------------------------------------
Init == /\ pc = "listen"
        /\ queue = Ruptures
        /\ src_rup_table = [r \in Ruptures |-> NumFiles]
        /\ arrived = [r \in Ruptures |-> [p \in Parts |-> 0]]
        /\ cur \in Ruptures
        /\ step = 1
        /\ recent = <<>>
        /\ pending = [f \in Files |-> <<>>]
        /\ file = [f \in Files |-> <<>>]
        /\ durable = [f \in Files |-> 0]
        /\ log = <<>>
        /\ logDurable = 0
        /\ stops = 0
        /\ nodeCrashes = 0

(* write_to_file: a stream evicted from the cache is flushed and closed;    *)
(* after frite the first n of the clusters written to f have left the       *)
(* stream's buffer.                                                         *)
Write(f, p) ==
    LET unwritten == Append(pending[f], p)
    IN  \E n \in 0 .. Len(unwritten) :
          /\ Lru!Use(f)
          /\ file' = [g \in Files |->
                IF g = f THEN file[f] \o SubSeq(unwritten, 1, n)
                ELSE IF g \in Lru!Evicted(f) THEN file[g] \o pending[g] ELSE file[g]]
          /\ pending' = [g \in Files |->
                IF g = f THEN SubSeq(unwritten, n + 1, Len(unwritten))
                ELSE IF g \in Lru!Evicted(f) THEN <<>> ELSE pending[g]]

RuptureDone_AtOne(missing) == missing <= 1
RuptureDone(missing) == missing = 0

(* master_listen, DATA_FILE: the next cluster of part p of rupture r.  The  *)
(* worker that has p sends one cluster of each of its kinds, in order.      *)
ReceiveCluster(r, p) ==
    /\ pc = "listen"
    /\ r \in queue
    /\ arrived[r][p] < Len(SentKinds)
    /\ arrived' = [arrived EXCEPT ![r][p] = @ + 1]
    /\ Write(<<r, SentKinds[arrived[r][p] + 1]>>, p)
    /\ src_rup_table' = [src_rup_table EXCEPT ![r] = (@ - (Rvs[p][2] - Rvs[p][1])) % ShortValues]
    /\ IF RuptureDone(src_rup_table'[r])
       THEN pc' = "sync" /\ cur' = r /\ step' = 1
       ELSE UNCHANGED <<pc, cur, step>>
    /\ UNCHANGED <<queue, durable, log, logDurable, stops, nodeCrashes>>

(* fsync_and_close of one file of the finished rupture.  fsync(fd) comes    *)
(* first and covers what the operating system has; the buffer follows in    *)
(* fclose.  A file evicted earlier is left alone.                           *)
FsyncAndClose_NoFlush ==
    /\ pc = "sync"
    /\ LET f == <<cur, Kinds[step]>>
       IN  /\ Lru!Close(f)
           /\ durable' = [durable EXCEPT ![f] = Len(file[f])]
           /\ pending' = [pending EXCEPT ![f] = <<>>]
           /\ UNCHANGED file
    /\ IF step < Len(Kinds) THEN step' = step + 1 /\ pc' = pc
                            ELSE step' = step /\ pc' = "mark"
    /\ UNCHANGED <<queue, src_rup_table, arrived, cur, log, logDurable, stops, nodeCrashes>>

FsyncAndClose ==
    /\ pc = "sync"
    /\ LET f == <<cur, Kinds[step]>>
       IN  IF Lru!IsCached(f)
           THEN /\ Lru!Close(f)
                /\ durable' = [durable EXCEPT ![f] = Len(file[f])]
                /\ file' = [file EXCEPT ![f] = @ \o pending[f]]
                /\ pending' = [pending EXCEPT ![f] = <<>>]
           ELSE UNCHANGED <<recent, durable, file, pending>>
    /\ IF step < Len(Kinds) THEN step' = step + 1 /\ pc' = pc
                            ELSE step' = step /\ pc' = "mark"
    /\ UNCHANGED <<queue, src_rup_table, arrived, cur, log, logDurable, stops, nodeCrashes>>

(* The rupture's line is written to checkpoint.out and flushed. *)
Mark == /\ pc = "mark"
        /\ log' = Append(log, cur)
        /\ pc' = "listen"
        /\ UNCHANGED <<queue, src_rup_table, arrived, cur, step, recent,
                       pending, file, durable, logDurable, stops, nodeCrashes>>

(* WORKERS_COMPLETE: remove_fp_cache flushes and closes every stream.  The   *)
(* master does not look at src_rup_table, so the message ends the job even  *)
(* where data is missing; that counts as a stop.                            *)
AllArrived == \A r \in queue, p \in Parts : arrived[r][p] = Len(SentKinds)

WorkersComplete ==
    /\ pc = "listen"
    /\ pc' = "down"
    /\ Lru!CloseAll
    /\ file' = [f \in Files |-> file[f] \o pending[f]]
    /\ pending' = [f \in Files |-> <<>>]
    /\ IF AllArrived THEN UNCHANGED stops
                     ELSE stops < MaxStops /\ stops' = stops + 1
    /\ UNCHANGED <<queue, src_rup_table, arrived, cur, step, durable, log, logDurable,
                   nodeCrashes>>
-----------------------------------------------------------------------------
(* The environment: the process or the node dies, the job is submitted      *)
(* again.                                                                   *)
LoseMemory == /\ pc' = "down"
              /\ recent' = <<>>
              /\ pending' = [f \in Files |-> <<>>]
              /\ UNCHANGED <<queue, src_rup_table, arrived, cur, step>>

ProcessCrash == /\ pc # "down"
                /\ stops < MaxStops
                /\ stops' = stops + 1
                /\ LoseMemory
                /\ UNCHANGED <<file, durable, log, logDurable, nodeCrashes>>

(* The operating system has written back what it liked of the files and of  *)
(* the log, at least what was synced.  Nothing syncs the log.               *)
WrittenBack == {kept \in [Files -> 0 .. Max({Len(file[f]) : f \in Files})] :
                   \A f \in Files : kept[f] \in durable[f] .. Len(file[f])}

NodeCrash == /\ nodeCrashes < MaxNodeCrashes
             /\ nodeCrashes' = nodeCrashes + 1
             /\ LoseMemory
             /\ \E kept \in WrittenBack, lines \in logDurable .. Len(log) :
                   /\ file' = [f \in Files |-> SubSeq(file[f], 1, kept[f])]
                   /\ durable' = kept
                   /\ log' = SubSeq(log, 1, lines)
                   /\ logDurable' = lines
             /\ UNCHANGED stops

(* The next job: parse_rupture_list skips the ruptures in checkpoint.out,   *)
(* master_listen sets up the table and unlinks the outputs of the others.   *)
Unlink(rs) == /\ file' = [f \in Files |-> IF f[1] \in rs THEN <<>> ELSE file[f]]
              /\ durable' = [f \in Files |-> IF f[1] \in rs THEN 0 ELSE durable[f]]

Restart_With(rs, deleted) ==
    /\ pc = "down"
    /\ pc' = "listen"
    /\ queue' = rs
    /\ src_rup_table' = [r \in Ruptures |-> IF r \in rs THEN NumFiles ELSE src_rup_table[r]]
    /\ arrived' = [r \in Ruptures |-> [p \in Parts |-> 0]]
    /\ Unlink(deleted)
    /\ UNCHANGED <<cur, step, recent, pending, log, logDurable, stops, nodeCrashes>>

Restart_UnlinkAll == Restart_With(Ruptures \ Logged, Ruptures)
Restart == Restart_With(Ruptures \ Logged, Ruptures \ Logged)
-----------------------------------------------------------------------------
Master == (\E r \in Ruptures, p \in Parts : ReceiveCluster(r, p)) \/ FsyncAndClose \/ Mark
Next == Master \/ WorkersComplete \/ ProcessCrash \/ NodeCrash \/ Restart

SafeSpec == Init /\ [][Next]_vars

(* Data keeps arriving and the master keeps handling it while the job runs, *)
(* and the job is submitted again while ruptures are missing.              *)
Spec == SafeSpec /\ WF_vars(Master) /\ WF_vars(Restart)
-----------------------------------------------------------------------------
TypeOK == /\ pc \in {"listen", "sync", "mark", "down"}
          /\ queue \subseteq Ruptures
          /\ src_rup_table \in [Ruptures -> 0 .. ShortValues - 1]
          /\ step \in 1 .. Len(Kinds)
          /\ ToSet(recent) \subseteq Files
          /\ \A f \in Files : /\ ToSet(file[f]) \cup ToSet(pending[f]) \subseteq Parts
                              /\ durable[f] \in 0 .. Len(file[f])
                              /\ pending[f] # <<>> => f \in ToSet(recent)
          /\ logDurable \in 0 .. Len(log)

Complete(f) == ToSet(file[f]) = Parts /\ Len(file[f]) = Cardinality(Parts)

(* As long as the node is up, a rupture with a line in checkpoint.out has   *)
(* every output file complete, each part in it once, whenever the process   *)
(* was stopped and restarted.                                               *)
CheckpointedComplete == nodeCrashes = 0 =>
    \A r \in Logged, i \in DOMAIN Kinds : Complete(<<r, Kinds[i]>>)

(* No rupture gets a second line: parse_rupture_list makes room for as many *)
(* lines as the list has ruptures, and copies without a check.              *)
LoggedOnce == IsInjective(log)

(* Once checkpointed, a rupture's files are never written to, nor deleted   *)
(* by a restart; a failure of the node is all that changes them.            *)
CheckpointedUntouched ==
    [][nodeCrashes' = nodeCrashes => \A r \in Logged, i \in DOMAIN Kinds :
           file'[<<r, Kinds[i]>>] = file[<<r, Kinds[i]>>]]_vars

(* A job that has received everything has checkpointed every rupture: the   *)
(* next one has nothing left to do.                                         *)
AllDataAllLogged == pc = "listen" /\ AllArrived => Logged = Ruptures

(* However often the job is stopped, in the end every rupture is logged. *)
EventuallyAllLogged == <>[](Logged = Ruptures)

(* "This rupture is done; sync the files and write to checkpoint log"       *)
(* (master.c:142): with its line in the log, a rupture's data is on disk.   *)
LoggedOnDisk == \A r \in Logged, i \in DOMAIN Kinds :
                    durable[<<r, Kinds[i]>>] = Cardinality(Parts)
=============================================================================
