# Verification of CyberShake's parallel programs

CyberShake computes the seismic hazard of a site from Green's tensors (SGTs).  Three
MPI programs of this repository do the work that is hard to get right:

* *AWP-GPU-SGT* propagates waves through a grid that is cut into parts, one to a GPU,
  and saves the tensors at chosen points;
* the *MPI rupture generator* writes the variations of every rupture;
* *DirectSynth* reads the tensors, synthesizes seismograms and intensity measures for
  all rupture variations of one site, and logs what is finished, so that an aborted
  job can be submitted again.

This directory models the three in TLA+, checks them with TLC and proves much of it
with TLAPS.  Most of it is about DirectSynth.

Everything is translated from the sources: `src/DirectSynth/src`,
`src/RuptureCodes/GenRand-mpi/rupgen.c` and `src/AWP-GPU-SGT/src`.  MPI, CUDA, the
file system and the C library are modelled only as far as that code uses them.

## 1. The system

### DirectSynth

    rank 0            master          output files, checkpoint.out
    ranks 1 .. N-1    SGT handlers    each holds a block of the SGT file in memory
    rank N            task manager    list of tasks, status of the workers
    ranks N+1 ..      workers         run one task at a time

A task is a range of variations of one rupture.  A worker asks the manager for a
task (`get_task`), asks handlers for the tensors it needs, synthesizes, sends data
clusters (seismograms, peak values, RotD, durations) to the master, and asks again.
After the last task the manager releases the workers, sleeps five seconds, and tells
master and handlers to stop.  Before all that the master broadcasts the lists of points
and sends headers to the handlers, which read the SGT files together, and the manager
parses the rupture list and sends the master what it needs of it; every rank starts its
own work when it is through, while others may still be starting.

| component | state | operations | talks to |
|---|---|---|---|
| task manager (`task_manager.c`) | `current_task`, `worker_status`, `workers_working` | `manager_listen`, `handle_work_request`, `broadcast_completion` | workers by request and answer, servers at the end |
| worker (`worker.c`, `synth.c`) | where it is in `run_synth`, task in hand | `do_work`, `get_task`, `run_synth` | manager, handlers, master |
| rupture list (`parse_rupture_list`) | arrays `completed_list`, `task_list`, `tuples_for_master` | read log, skip, cut into tasks, grow | reads `checkpoint.out`, feeds manager and master |
| SGT handler (`sgt_handler.c`) | block of points, request being served | `handler_listen`, `handle_SGT_request` | workers |
| master (`master.c`) | files missing per rupture (a `short`) | `master_listen`, `write_to_file`, checkpoint line | workers, file system |
| file pointer cache (`fp_cache.c`) | array of streams in order of use | `find_and_use_fp`, `fsync_and_close`, `remove_fp_cache` | called by the master |
| points to handlers (`assign_sgt_points`, `get_handler_for_sgt_index`) | `proc_points`, cutoffs, a list for each handler | assign, search, grow lists | master to handlers and workers |
| request loop (`jbsim3d_synth`) | part of a list asked for, points split between answers | request, process, save, process split | handlers |
| start-up (`direct_synth.c`, `mpi_functions.c`, `get_SGT_data`) | broadcasts passed, headers, files read | `check_bcast`, `send_header_data`, `readSGT_MPI`, tuples | all ranks |

### The rupture generator

Rank 0 (`server`) hands records to the other ranks (`worker`) in two stages.  In the
first each rupture is run to count its slips; from the results the server writes the
statistics and `rls.list`, the list of the files there will be.  In the second each slip
is generated and its files are written.  A request for a record carries the result of
the last one; both stages use the same tags, with a barrier between them.

### Wave propagation

Each rank of AWP-GPU-SGT holds one part of the grid, surrounded by ghost columns and
rows.  In each of `nt` steps it computes the velocity of its outer rows, exchanges them
with the ranks in front and behind, computes the rest, exchanges columns with the ranks
to the left and right, and computes the stress, also of the first ghosts, so that
stress needs no exchange.  The GPU works on streams while the host goes on; messages
are non-blocking.  Ranks with stations sample the tensors and write them together, when
a buffer of `WRITE_STEP` samples is full.

### What is hard

* *Manager and workers.*  Requests of all workers meet at one `MPI_ANY_SOURCE`
  receive; the loop ends on a counter.  Each task must be run once, and the manager
  must not leave with a task running or a worker unanswered.
* *Blocking messages.*  All sends are blocking; how much MPI buffers is not known to
  the program.  Exchanges that share a tag must not be mixed up, nobody may wait in a
  circle, and no data may be left behind when the job ends.
* *Checkpoint.*  Data is appended to files through a bounded cache of streams, and a
  line in the log says that it is all there.  A stop between any two steps must leave
  a state from which the next job neither repeats nor drops data.
* *Start-up.*  Three broadcasts and two collective reads need every rank, in one order;
  wildcard receives of those who are ready meet messages of those who are not.
* *Two stages over one pair of tags* (rupture generator).  The last results arrive with
  the requests that are answered by "stop"; lists written earlier would lack them, and
  a request of the next stage must not be taken for one of this.
* *Asynchronous copies* (AWP).  A send buffer is filled by the GPU and emptied by MPI, a
  receive buffer the other way round: each must be over before the other begins.  The
  corners come with the columns, so the ghost rows have to be there before.
* *Arrays that grow.*  The task list, the log's list and the lists of tensors are grown
  by estimates, after a write; none may be written past its end.
* *Numeric edges.*  Missing files are counted in a `short`; tasks are a quotient rounded
  up; blocks are products of floats rounded down; two binary searches begin with
  unusual bounds; a point's tensors may be cut across answers; two points around a part
  are computed twice, the source included.

`PROJECT.json` lists every hazard at its line, with the properties that watch it.

## 2. Modules

    WorkPool  <--implements--  TaskManager  <--implements--  DirectSynth  <--extended by--  Startup
    WorkPool  <--implements--  RuptureServer (its second stage)
    LruFiles  <--implements--  FpCache
    LruFiles  <--used by-----  Checkpoint
    TaskList     log -> tasks, tuples      (what TaskManager and Checkpoint start from)
    SgtBuckets   tensors -> lists          <--extended by--  SgtRequests  lists -> requests, points
    HaloExchange                           (stands alone)

`MC*` modules hold values for TLC, `*Proofs` modules theorems.  Names of variables
and actions are the code's where it has one.  In a module, definitions named
after another one, as `SendTask_NoAdvance` after `SendTask`, are faulty forms of it that
no specification uses.  Put in its place they must break a property: `PROJECT.json` says
which.

**WorkPool** (abstract).  Tasks to do, running, finished; a pool that closes only
after the last task has been run.

**TaskManager**.  `manager_listen` with its two branches (an empty list has a loop
of its own), `handle_work_request` with both answers, and the worker's `do_work`.
A worker in `get_task` is blocked until it is answered, so its program counter and
the one message in flight are one variable, `phase`.  `run_synth` is one step here.

**DirectSynth** extends TaskManager and refines `run_synth` into its messages: SGT
request, list, headers and raw data for each handler, then announcement, metadata
and contents of each cluster to the master; with `handler_listen`, `master_listen`
and `broadcast_completion`.  `chan` is a queue for each pair of processes.  A receive
by source and tag takes the first message that matches; a wildcard receive takes the
first of any sender.  `mode` chooses between sends that wait for their receiver and
sends that MPI buffers, and says whether the manager's sleep outlasts the master's
backlog.  A handler is asked once for each task, and has what it is asked for;
SgtRequests has the splitting, and the handler that lacks an index.

**Startup** extends DirectSynth backwards to the start of the ranks: the broadcasts of
`check_bcast` (the root may leave early if MPI buffers its data), headers on the
handlers' communicator, the two collective reads, the manager's list of ruptures.  A
rank behaves as in DirectSynth when its own start is over (`Started`).  The list goes
through the same channel as the rest, so that what the master did not take by source
and tag would meet its wildcard receive.

**LruFiles** (abstract) and **FpCache**.  The list of most recently used files, and
the array of `fp_cache.c` with `find_fp`'s early end at the first empty entry and the
shifts of both operations.  `opened` counts the streams on a file.

**Checkpoint**.  `master_listen`'s data branch with `write_to_file` on the cache,
`fsync_and_close` one file at a time, the line in `checkpoint.out`, the end of the
job, and a restart.  Written data moves from the stream's buffer (`pending`) to the
operating system (`file`) to the disk (the first `durable` clusters).  A stop of the
process loses the first; a failure of the node keeps any prefix not shorter than what
was synced, and any prefix of the log, which nothing syncs.  `short` is a number modulo
`ShortValues`.

**TaskList**.  `parse_rupture_list`: reading the log, skipping, the quotient that sizes
a task, writing and growing the list, the tuples for the master.  The estimate of the
memory a variation needs is data (`room`, `rv_size`), negative and zero included.

**SgtBuckets**.  `assign_sgt_points` (balanced, with the truncated float, or from a
mapping file), the cutoffs of `run_synth`, the search of `get_handler_for_sgt_index`
round by round, and the lists with their growth.  Reads past the ends of `sgtindx`
(an empty last block, a wrong mapping file) give any value in `Beyond`.

**SgtRequests** extends SgtBuckets: on the lists that module leaves, the loop of
`jbsim3d_synth` over lists and requests, its binary search in an answer, the points
whose tensors come in several answers, and the pass over those at the end.  A handler
looks up every index of a request before it answers (`Answered`); if it lacks one it
ends, and the worker's receive is not matched any more (`NotFound`, "unanswered").

**RuptureServer**.  `server`, `worker` and `main` of `rupgen.c` in both stages: dispatch,
stopping, the statistics and lists between them, the barrier, rejected results (which end
the server only) and missing files (which end a worker only).  What genslip computes of a
rupture is the number of its slips.  As in TaskManager, `phase` and `rec` are a worker's
program counter and the one message between it and the server.

**HaloExchange**.  The decomposition and the time loop of `pmcl3d.c`.  A part and what
surrounds it are nine regions, and of a region's velocity or stress only the *step* it is
of is kept.  A kernel reads the regions its stencil reads, and what it computes from
anything but the right step is `Bad`; a strip that is received into another place than
it comes from is `Bad`, and so is the stress of a region whose source was not added.
The index arithmetic that decides this (`xls`, `yls`, `nbx`, the offsets of the copies)
is the code's.  Above the surface `dstrqc` computes a velocity of its own, from that of
the row before and the next column, and the normal stress at the surface from it.  The
rows that are exchanged do not contain it, the columns one that is a step old: so the
points where it is missing are kept (`off`), and a velocity that is computed from normal
stress there is `Bad`.  Work of the GPU is a queue (`stream`), requests of MPI have states
(`sreq`, `rreq`), messages travel in `net`.

## 3. Runs

No run checks for deadlock: each of these programs comes to an end, and a stopped
job is a state without a step.  That they do not stop too early is what the liveness
properties say.

| run | bounds | states | shows |
|---|---|---|---|
| `task_manager` | 4 workers; 0, 1 or 4 tasks | 71 144 | no task is run twice, the manager returns only when all is run, workers that have worked are released, with an empty list every worker is told; implements WorkPool |
| `tm_late` | 3 workers, 2 tasks | violation | finding 1 |
| `fp_cache` | 5 files, 4 entries | 208 | compact array, one stream per cached file; implements LruFiles |
| `checkpoint` | 2 ruptures of 2 parts (1 and 2 variations), 2 kinds, 2 streams, 8 values of the `short`, 1 stop, 1 node failure | 338 554 | a logged rupture is complete unless the node failed, is not logged twice, not touched again; all are logged in the end |
| `ckpt_durable` | 1 rupture | violation | finding 4 |
| `ckpt_no_psa` | 1 rupture | violation | finding 3 |
| `direct_synth` | Startup: 2 workers, 0 or 2 tasks, 2 handlers, 2 components, 2 clusters, 3 kinds of buffering | 141 968 | exchanges are not mixed up, all data is written, nobody is stuck from the first broadcast on; implements TaskManager with its fairness |
| `ds_no_sleep` | DirectSynth, 2 tasks | violation | finding 2 |
| `task_list` | lists of 1 to 3 ruptures, 6 logs | 149 012 | arrays in bounds, each variation in one task, tasks fit |
| `sgt_requests` | files of 4 to 6 points, 2 to 5 handlers, ruptures of 2 or 3 points, requests of 1 to 3 tensors | 379 274 | the owner is found, lists have room and are in order, requests fit, each point is processed once with its own tensors; with blocks that cover the file and indices in it every request is answered and the task is done |
| `rupture_server` | 3 workers, 2 ruptures of 1 to 3 slips, unusable or missing | 130 426 | no slip is generated twice, the lists are complete, the files are those listed, the job ends; implements WorkPool |
| `halo_exchange` | 2 x 2, 3 x 1 and 1 x 3 ranks, parts of 4 x 4 points, 3 steps, 2 sources, 3 stations | 169 912 | velocity of each part, and stress in and around it, are those of the whole grid, but for normal stress at the surface in the outermost ghosts; buffers have one owner, files are complete, all ranks end |

Why these bounds.  *Manager:* four workers allow one that works, one released, one
with a request under way and one still asleep at once; with four tasks a worker can
take several while another sleeps.  *Cache:* with five files for four entries a hit
can be first, in the middle or last, and a miss evicts; the array of the code has
100 entries, and the proofs hold for every number.  *Checkpoint:* two streams for
four files force eviction during a rupture and between ruptures; two parts, of one
and two variations, arrive interleaved; with eight values the count of a rupture (6)
is negative as a signed number, as it may be in the code.  *DirectSynth:* two workers
meet at one handler and at the master, and one of them uses two handlers; `Modes` are
sends that all wait for their receiver, small ones that do not, and all buffered with
a sleep that suffices.
*TaskList:* the room admits no variation, one, several or all, and is negative or
less than one variation; the logs are subsets of the list in several orders.
*SgtRequests:* more handlers than points, mapping files with an empty block at each
position, with too few and too many points, a rounding error of one point, indices
that are in no block (beyond the file, and between two that are in it, so that they go
to a handler which does not have them); points of one, two and four tensors, adjacent and far apart,
lists that are empty, shorter and longer than a request.  *RuptureServer:* three
workers, so that with two records a worker is stopped at its first request, and six
slips, so that each works several times.  *HaloExchange:* in a square every rank has a
neighbour on two sides and a corner; in a row the middle one has both neighbours of
one direction; one source is within two points of all four parts.  Three steps are
enough for a buffer to be used again while the last message is under way, and for a
file and a sample that fills none; two stations share a rank or a column.  Parts of four
points are the smallest that fill a strip of four; with them a strip's stencil reaches
into the ghosts on both sides.

Bounds named in the models: `MaxStops`, `MaxNodeCrashes` (how often the environment
fails), `ShortValues` (65536 in the code), `MinStep` (10 in the code), `RoundingError`,
`nt`.  `CountFits` assumes that a rupture has fewer files than the `short` can tell
apart from zero, as the code silently does; `HaloAssumption` that blocks divide a part,
as every configuration in the repository keeps and the kernels do not check.

### Fairness

* `TaskManager`, `DirectSynth`, `Startup`, `RuptureServer`: weak fairness for each process.  A rank in a blocking
  MPI call goes on when the call can complete, and between calls it computes.  Nothing
  is assumed about which of several messages a wildcard receive takes first; the
  liveness properties hold although a worker could be passed over for any finite time.
* `WorkPool`: weak fairness of the whole pool; TaskManager's fairness implies it.
* `Checkpoint`: the master handles data that keeps arriving, and a job that ended is
  submitted again.  The failures are not fair and are bounded.
* `SgtBuckets`, `SgtRequests`: one sequential process takes its next step.
* `HaloExchange`: while any rank, GPU or message can go on, something does.  No more is
  needed, because `nt` bounds every behaviour.

`JobEnds` of RuptureServer promises nothing if a result is rejected or a file missing:
the code does not either, and leaves the others waiting until the job's time is up.

`TaskEnds` of SgtRequests has two parts.  If no block is empty, the blocks cover the file
and the indices are in it (`Good`), the task is done in the end.  Otherwise the loop ends
too, but perhaps at a request that nobody answers: with an empty block an index can go
to a handler that does not have it.  `OwnerFound` and `NobodyExits` speak of blocks that
are not empty only.

### Findings

1. `tm_late`: the loop of `manager_listen` ends when no worker is *working*.  A worker
   in its staggered sleep (`worker.c:79`) when the others finish a short list is not
   waited for, and its request is never answered.  It holds for an empty list.
2. `ds_no_sleep`: the five seconds before `broadcast_completion` are all that keeps
   the completion message behind the workers' last data.  If MPI buffers the data and
   the master is further behind, it stops and the data is lost.
3. `ckpt_no_psa`: with `run_psa=0` and RotD on (its default) the master counts files
   that `run_synth` returns before sending, and no rupture is ever logged.
4. `ckpt_durable`: `fsync` precedes the flush of the stream, and evicted streams are
   never synced, so the line in the log does not mean that the data is on disk.

## 4. Proofs

All theorems are of the form "for every value of the constants that satisfy the
module's named assumptions".  A component has one inductive invariant, `IInv`, one lemma
per action, and one theorem per property; a module that extends another adds its own
invariant to the other's.

**TaskManagerProofs** (workers: any finite set; tasks: any number).  Type correctness,
`WorkersCounted`, `EachTaskRunOnce`, `ReturnsOnlyWhenDone`, `NoWorkAfterRelease`,
`EmptyListAllTold`, and that each step is a step of WorkPool or a stutter.  None of the properties is
inductive.  That the loop ends with everything run needs that a busy worker is down
as working (`HeldKnown`), that no task handed out is lost (`NoneLost`), and that a
release means the list is used up (`ReleasedLast`): the count is zero, so no worker is
busy, so every task handed out is finished, and a release means all were handed out.

**FpCacheProofs** (any files, any positive `CACHE_SIZE`).  `Compact` and
`OneStreamEach`.  They hold only together, with the absence of duplicates: a search
that ends at the first empty entry is exact because the array is compact, and a miss
opens no second stream because the search is exact.  On top of that, all of `LruSpec`
(`ImplementsLru`): entries in use come first, so they are as many as the place of the
first empty one (`UsedFirst`), and what each call does to the array is what `Use` or
`Close` does to the list (`UseLru`, `CloseLru`).

**CheckpointProofs** (any ruptures, parts, kinds of output; any number of streams, stops
and failures; PSA on).  `CheckpointedComplete`, `LoggedOnce`, `AllDataAllLogged` and the
action property `CheckpointedUntouched`.  The heart is that the count in the `short`
equals, modulo `ShortValues`, the number of (kind, variation) pairs the rupture lacks
(`Lacking`), a set whose size falls by a whole part when a cluster is written; with
`CountFits` it is zero exactly when the set is empty.  The invariant has five parts:
types, which streams hold what is not in the file yet (`Streams`), what this job has
counted and written (`Job`), how far the closing of a rupture has come (`Closing`), and
that a marked rupture is complete (`Marked`), which a restart leaves alone because it
deletes only files of ruptures that have no line.

**TaskListProofs** (any list with distinct ruptures, any log of it).  `WritesInBounds`,
`EveryVariationOnce`, `TasksFit`.  The invariant says that the task list always
has a free entry (a rupture's first task is written without a look at the capacity),
and exactly which variations the tasks written so far cover (`Reached`).  The log has
room because it names ruptures of the list without repetition: an assumption here, the
proved invariant `LoggedOnce` of Checkpoint there.

**SgtRequestsProofs** (any file of ascending indices, any blocks, handlers, indices; any
rupture, any room in a request).  All safety of both modules.  Of SgtBuckets:

* `ListsHaveRoom`: a list's capacity is the next multiple of the step above its length,
  which is why growing at multiples suffices (`NextMultiple`).
* `OwnerFound`, `NeverAborts`: the cutoffs still searched enclose the index; with no empty
  block cutoffs ascend, so an exact match is in its own block; between two cutoffs is in
  the block (`BetweenCutoffsOwns`), which the handler computes from points and the worker
  from indices.
* `ListsInOrder`, also with empty blocks, where the cutoffs do not ascend and the search
  may end at a wrong handler.  What makes it true is that all searches are made with the
  same cutoffs: where the searches of two indices part, the smaller index goes left of
  the larger (`NoCrossing`), so the entry placed next belongs at or behind the last list
  that is not empty.  `OInv` keeps for each entry the path of its search (`Trails`), that
  entries in list order ascend (`Ordered`), and that the lists joined are what has been
  placed of the sorted list (`Listed`, from `FlattenAppend`).

The loop over requests leaves all that alone (`KeepsBuckets`).  Of SgtRequests:

* `RequestFits` follows from where the loop is (`RqInv`): the handler asked is the least
  one left that has a list (`LeastElement`), so its part is not empty, and the part's end
  is the smaller of the list's end and the room.
* `NobodyExits`: the search succeeds (`NeverAborts`), an entry of a list is in its handler's
  block (`OwnerFound`), and a part of a list holds entries of it only (`HandlerHasChunk`).
* `RightTensors`: the search in an answer starts with one entry too many, which it may
  look at but cannot end at, because the parts shrink around the entry that is looked for
  (`SearchFinds`).  So a tensor that was asked for is copied from its own place.
* `EachPointOnce`: since the lists hold every index once and in order, what was asked for
  so far is a set of tensors that grows by whole requests (`Past`, `ChunkHolds`).  A
  point is in one of three situations (`PInv`): none of its tensors is past, all are
  and it was processed from one answer, or it is on the list of split points and those
  of its tensors that are past are saved.  At the end all are past, so a point on that
  list finds its tensors.

Induction over data is done in these proofs without the library's induction theorems: a
set of numbers that holds 0 and goes on from each to the next is all of 0 .. n, because
otherwise it would lack a least one (`UpTo`, from the well-foundedness of the naturals).
With it the recursive functions of the model (`FlattenSeq` of the community modules,
`MidIndex`) are shown to exist and to satisfy their equations.

**StartupProofs** (any workers, handlers, tasks, components, clusters; any MPI buffers).
All safety of DirectSynth, under Startup's steps: `NoMisreceive`, `AnswersOwnRequest`,
`HandlersOutliveRequests`, `WrittenOnce`, `AllDataWritten`.  First, every step is one of
TaskManager's or leaves its variables alone (`ImplementsTaskManager`), so that
TaskManager's invariant can be used.  The rest describes each pair of ranks by itself:

* a worker and a handler are in one of seven situations (`Pair`), from "not asked" over
  request, list and answers to "all answered"; each step of either moves the pair on by
  one, and a step of another worker or handler leaves it where it is;
* a worker's messages to the master go round announcement, metadata, contents, from what
  the master waits for to what the worker sends next (`Streams`): hence an announcement
  is the only thing a wildcard receive of the master can meet from a worker;
* the manager sends the master its list, then completions, and handlers completions only
  (`ManagerLinks`), after the last worker has come back (`Told`).

Of the data, what a worker has sent of the tasks it was given is in transit or written
(`DataKept`), never in two places (`DataOnce`), and nothing else is (`DataProduced`).
`AllWritten` alone needs an assumption about MPI, `SoundModes`: contents are received
before their send returns, or the manager's sleep is long enough.  Then nothing of a
worker that is back at the manager is left in transit (`Flushed`), and nothing at all
once completion is announced (`Emptied`).  Finding 2 is what happens without it.

**RuptureServerProofs** (any workers, any ruptures and results).  `EachSlipOnce`,
`StatisticsComplete`, `FilesAsListed`, and that the second stage implements the safety
part of WorkPool.  That the lists are complete when written needs where every result is:
in the list already, or with the worker that still holds its record (`CalcList`, `Held`),
and that a worker which was stopped holds none (`WorkerStages`, `StoppedCounted`).  In
the second stage the list's order is that of `rls.list` and a record's index its place
(`WriteList`), which is why a result overwrites no record that is still to be handed out.

**HaloExchangeProofs** (any shape of grid, number of steps, order of messages).  All its
safety.

* `BuffersOwned`: no buffer is read by one of MPI and GPU while the other writes it.  The
  invariant ties the work that can be in a stream and the requests that can be pending to
  the host's place in the loop (`StreamAt`, `RequestsAt`).
* `DecompositionExact`: how many of a step's five kernels are over (`Done`) tells of which
  step each region's velocity and stress are (`Values`, `Prepared`).  The strips under
  way to a rank are those its neighbour has sent and it has not received, each of the step
  that its place among them gives (`InTransit`), however far ahead the neighbour is; and
  one that has come fits the place it is received into (`StripFits`, `GotExact`).  Columns
  are sent after the ghost rows have come (`Prepared`), hence the corners.  `GInv` joins
  these.  Of the surface: a point lacks a velocity above it only in the front ghost row
  or right ghost column that is computed last (`GapsAtEdge`), because beyond the grid that
  velocity is zero, and no velocity is computed from normal stress there (`EdgeNotRead`).
* `FilesComplete`: `Slot` and the condition for writing are remainders of the same counter
  by `NTISKP_SGT` and by `NTISKP_SGT * WRITE_STEP`, so a full buffer and a file coincide
  (`MultipleOfBoth`), and the buffer is filled from its start again (`Buffered`, `Filed`).

All three assume `nt > 0`, as the model begins within the first step; `pmcl3d.c:265`
computes it as one more than a quotient.

Every safety invariant and action property that the passing runs check is proved.  Only
model-checked is all liveness: `JobEnds` of both parts, `LoopEnds`, `TaskEnds`,
`ServersExit`, `KnownWorkersReleased`, `EventuallyAllLogged`, and the fair parts of
`PoolSpec`, `SlipPoolSpec` and `TaskManagerSpec`, because temporal reasoning about ENABLED
is outside the prover.  The safety parts of those refinements are proved.

## 5. What is not modelled

In DirectSynth:

* Contents: the numbers of seismograms, spectra, RotD and durations.
* A line of the log cut in the middle; the text of the log is not modelled.
* Sizes in bytes: tensors are counted.  The product of `int` at `jbsim3d.c:382` passes
  2^31 after 23860 saved tensors of 5000 steps.
* `max_points_per_request` of zero (`jbsim3d.c:219`, a tensor larger than the buffer):
  excluded by assumption, the code would not end.
* Rejected parameters, which end all ranks at once; the check at `direct_synth.c:58`
  also rejects all three components, which the rest of the code supports.
* Inconsistent SGT files: handlers that see different moments (`sgt_handler.c:233`) or
  too large a block leave alone in the middle of collective calls, and headers are looked
  for with the first component's file only (`sgt_handler.c:277`).
* A handler with an empty block looks at the moment of its first header
  (`sgt_handler.c:233`) in an allocation of no bytes; a handler whose block ends past the
  file takes keys from past the end of `sgtindx` (`sgt_handler.c:99`).  In SgtBuckets
  the first starts all the same, and none of the second is an index that is asked for.
* The handler that lacks an index (`sgt_handler.c:161`) is in SgtRequests only: in
  DirectSynth and Startup lists hold indices of their handler.  What happens in the job
  after it, with a handler in `MPI_Finalize` and a worker in a receive, is not modelled.
* Failing system calls, which end the job: a stop in Checkpoint.

In AWP-GPU-SGT: parameters other than `NPC=0` and `NVE=1`, for which `pmcl3d.c:836`
has no time loop; reading of mesh, stations and source (a master that cannot open a
list returns while the others wait, `sgt.c:36`); recording of velocities at the surface,
and the values the kernels compute.  Samples after the last full buffer are never
written (`pmcl3d.c:932`): `FilesComplete` says so.  The communicator of the grid may
reorder ranks (`pmcl3d.c:270`); the model has one rank for each place, as the MPI
libraries in use do.

The velocity that `dstrqc` computes above
the surface needs that of the row before, which another thread of the same kernel writes
without synchronisation: it may be this step's or the last one's, on an undivided grid
too, so what is compared there is what has the same choice.  With `IGREEN` 1, 2, 3 or -2
the source goes into the velocity after the stress (`addsrc_cu`), of which ghosts more
than two points away have none before the next exchange; the model has a source that
goes into the stress, and `DecompositionExact` says nothing of the velocity of ghosts.

In the rupture generator: genslip itself, of which each version is several thousand
lines of random fields in one process; and that the server cannot open `variations.list`
or `rls.list` (`rupgen.c:498`, `522`): it then returns 1, and the workers stay in the
barrier, as they do after a rejected result.

The rest of the repository, which is most of its lines, has no protocol: wave
propagation codes of third parties (AWP-ODC-SGT, SimSgt), velocity models and meshes,
conversion of SGTs, older single-task post-processing, response spectra, loaders for
the database and job scripts.  They are floating-point numerics, generated code, or
input and output of one process.  `PROJECT.json` lists each with its reason.

## 6. Plan

Done, in the order of their weight for the job: TaskManager, FpCache, Checkpoint,
DirectSynth; the sequential parts TaskList, SgtBuckets, SgtRequests; then Startup,
RuptureServer and HaloExchange.  What would come next:

1. *Several requests per handler* in DirectSynth, with the lists of SgtRequests.
2. *Text of the log*: cut lines, and what the next job reads.
3. Proofs: the lemmas that connect the components, such as that the lists of SgtRequests
   are what a handler of DirectSynth is asked for, once item 1 is modelled.
