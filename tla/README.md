# FISH, modelled in TLA+

FISH traces a ROS 2 application (LTTng events, Nsight Systems reports, snapshots
of the system), puts them into a database and turns them into task graphs. Most
of what can go wrong while it records comes from processes that start, wait for,
kill and replace each other with nothing between them but files in `/tmp`,
`/proc` and signals; afterwards, from recordings with losses that are read as if
they were whole, and from derived data that outlives what it was derived from.
This directory models that: the session and its processes, the mission over
several containers, the database, and the algorithms that conclude something
from a trace. TLC checks the models on small instances; TLAPS proves the central
safety properties for every size.

## 1. The system

### Components

| component | source | state it keeps | operations |
|---|---|---|---|
| ROS wrappers | `scripts/install_fish.sh` 560-760 (the `ros2` and `launch_test` shims it writes) | none of their own | `start`, `inc`, run the node, `dec`; TERM/INT trap calls `stop` |
| trace_session.sh | `scripts/install_fish.sh` 30-515 | `/tmp/fish_session_dir`, `_name`, `_counter`; the lock directory `.stopping` and its `pid`; the LTTng session | `start_session`, `increment_counter`, `decrement_counter`, `stop_session`, `status` |
| daemon control | `python/fish/gpu.py` 1957-2047 | `/tmp/fish_daemon.lock` (flock), `/tmp/fish_daemon_pid` | `start_daemon`, `stop_daemon`, `daemon_status` |
| daemon | `python/fish/gpu.py` 1101-1955 | `known_pids`, `nsys_children`, counters of the two stability checks, signal files | wait until stable, scan, kill and relaunch under nsys, replay, poll, shut down |
| live collector and snapshot | `python/fish/snapshot.py` | node sets under a lock, stop event, `node_list.txt`, `node_info_all.json`, `params.json` | poll, ask in batches, sweep parameters; list, ask, sweep and merge at shutdown |
| launch wrappers | `python/fish/launch_wrap.py`, `launch_test_wrap.py`, `launch_inspect.py` | patched launch classes | prefix GPU containers with nsys |
| orchestrator | `fish_orchestrator.py` | interrupt flag, `daemon_seen`, confirmed stops | start containers, wait until stable, run actions, stop, collect, clean up |
| ingest and stores | `postprocess/ingest_pg.py`, `pg_store.py`, `graph_store_pg.py` | the session's rows, the saved graph | forced and plain ingest, save a graph, delete a session |
| graph extraction | `postprocess/model_improved_pg.py` | windows, evidence and edges, in memory | identify executors, endpoints, callbacks; detect joins, state, polled reads; build and measure the graph |
| kernel trace parsers | `postprocess/ksched_split.py`, `ksched_parse_parallel.py` | running thread per CPU, pending intervals per thread | sequential and parallel reconstruction of on/off-CPU time |
| viewer | `postprocess/fish_viz_server.py` | `gantt_spans`, `gantt_meta`, a directory of cached pages | build the callback windows of a session once, serve views |
| pipeline | `scripts/post_run_pipeline.sh` | - | ingest, model, windows, thread attributes, then analyses that only read |
| other analyses, scripts, tests, papers | the rest | - | - |

### How they interact

```
 ros2 run / ros2 launch / launch_test            ros2 run fish stop
        | start, inc ... dec                            |
        v                                               v
 trace_session.sh  -- counter, name file, .stopping lock --  stop_session
        | gpu daemon start / stop                       | SIGTERM, 130 s
        v                                               v
 daemon  -- pid file, flock -->  kill + relaunch  -->  nsys -- node
        ^                                               ^
        | auto_stop: runs stop_session itself           | launch_wrap: nsys around
                                                        | containers (not its children)

 fish_orchestrator -- docker exec -->  all of this in each of several containers
        | docker cp, 15 s after the last stop
        v
 session directory --> ingest_pg --> PostgreSQL <--> model_improved_pg, ksched_split
                                         ^
                                         | gantt_spans: pipeline, fish_viz_server
```

The daemon runs phases: (1) wait until the component list and the launch log are
stable, (2) kill every standalone process that uses CUDA and run it again under
nsys, (3) replay a bag if asked, (4) install its signal handlers and poll for
new processes. `stop_session` takes a snapshot, freezes the LTTng session, stops
the daemon, which interrupts its nsys children and waits for their reports, then
drains: it waits until no report file has appeared for a while, destroys the
session and removes the files.

### What is hard

* check-then-act on files without atomicity: the stop lock, the pid file, the
  counter, the name file;
* descriptors shared across `fork` (one flock for parent and child);
* deaths between any two steps, leaving locks and pid files behind;
* decisions about a process taken from `/proc` seconds before they are used;
* nested timeouts (children in turn, the stopper, the drain) around work whose
  length nobody knows;
* two processes that merge into the same files through one temporary name;
* a stop that outlasts the one who asked for it, interrupts in any phase;
* two implementations of one parser that must agree on every interleaving of
  CPUs, ties and lost events;
* events that LTTng discards, and matching rules (the last window opened, the
  next callback on the thread, the deposits since the last erasure) that must
  not attribute to one callback what another one did;
* a graph with one edge per pair of vertices, built in stages that may overwrite
  each other;
* loads in several transactions and threads that fail or die half-way, and
  derived tables and files without a foreign key.

`PROJECT.json` lists 40 hazards at their lines with the properties aimed at them.

### What makes each component correct

| component | properties |
|---|---|
| stop lock | one shutdown at a time; it happens; every caller returns, whoever dies |
| daemon control | without one of three named races, at most one daemon at work, and the pid file finds it; every stop returns |
| stabilisation | stable means stable; run mode has a reason; the phase ends once the session is there to stay |
| GPU handling | a node never runs twice; what runs under nsys, and containers, are left alone; copies stay owned; signals come after the work; every seen process gets its turn |
| report flushing | late reports only are killed; done means reported; the stop ends |
| trace session | without one of three named races, counted nodes are traced, the last `dec` stops, the name file leads to the session |
| kernel parsers | same result; right dates; intervals tile time; waits are the real ones |
| collector and snapshot | `params.json` never loses a node; the merge at shutdown is complete; the stop ends |
| orchestrator | a session reported as stopped is copied whole or its copy failed; no target is forgotten; the mission ends |
| recorded flows | a loss does not move events to other callbacks; hops, polled reads and evidence are the real ones |
| task graph | later edges leave the hops; calls end where they should; joins stay together; coarser layers lose no interaction and claim none that was not recorded, except among the clients of a service |
| database | nothing is loaded twice; success means everything that sqlite let the ingest read; when the ingest got to remove the windows, those at the end belong to the rows and the graph that are there |

## 2. The modules

Every action is one step of the code at the grain at which others can see it: a shell
command, a system call, one scan of `/proc`. `pc`-like variables name the places between the
steps. Operators named `Slip...` are plausible slips of the code next to the definition that
they would replace; no specification uses them, they show that a property notices.

**StopLock** (`install_fish.sh` 249-280). `dir` and `ownerPid` are the directory `.stopping`
and its `pid`; `owner` is `_owner`. `Enter`, `StealDir`, `Poll...`, `Claim`, `Release` are
the commands in order. `Die` kills a caller anywhere; its RETURN trap does not run.
**StopOnce** is the abstract promise (one shutdown at a time; who returns without one has
seen another one finish, or taken over from a dead one). `KeepsPromise` maps every label
between `idle` and `stopping` to `pending` and says that StopLock implements StopOnce.

**DaemonSingleton** (`gpu.py` 1837-2047). Files are a path and an inode, so that unlinking a
file under a held flock or writing through an old descriptor does what it does in Unix.
`Start` runs flock, pid-file test, probe, fork, write; `ChildUnlock` is the child's
`LOCK_UN` on the description it shares with its parent. `Flushed` and `Exit` are the two
removals of `shutdown()`; `AutoStop` removes the pid file after the replay and `AutoExit` is
the `sys.exit` that follows later; `Crash` is any other death. Starts, stops and status
calls overlap in any way. The code does not stand all of it, and the history variable
`raced` says when it did not: a start got the flock while another one had forked and not yet
written its pid; the pid file was removed (by path) under another daemon at work; the lock
file was removed under a start. `OneAtWork` without that premise is false
(`DaemonStartRace.cfg`). A daemon is "at work" until it has removed its pid file; after that
it has only to exit, and a new one may overlap with that.

**Stability** (`gpu.py` 1101-1346). `Iteration` polls either check or both, and only while
the session is active (1181); `AfterList`, `AfterEmptyList`, `AfterZeroProcs` are the
branches on a reading. The system under test changes up to `MaxChanges` times; the session
comes and goes as it likes (`SessionChanges`). `StableUnlessNoLaunch` says that a session
that stays in the end is enough, but for containers without launched processes, where the
documentation promises an end and the code has none (`StabilityLaunchTest.cfg`).

**GpuDaemon** (`gpu.py` 157-455, 1362-1375, 1609-1955). A process is `<<node, run>>`; run 1
belongs to the user or the launch system, later runs to the daemon. `Application` starts
processes, lets CUDA initialise and ends them at any moment; `Daemon` is the loop: `Scan`,
`Handle`, `Kill`, `Launch`/`LaunchFails`, `Register`, replay, signals, polling. `traits`
tells containers, children of launch, wrapped processes and those that may not be signalled
apart. A process of the launch system that the inspector did not recognise is found by its
ancestors (`launch_owned`) and left alone, although `docs/operating_modes.md` 78-80 has it
killed and launched again (`GpuDaemonUnrecognised.cfg`); what is checked and proved is that
nothing that runs under nsys is killed, nor a container.

**NsysStop** (`gpu.py` 1408-1474, 1843-1862, 1996-2030; `install_fish.sh` 297-395). Discrete
time: `Tick` lets a unit pass for everyone and only when nobody can act at once. `Flush` is
the daemon (collector, children one after the other, forced kills, foreign processes),
`Stop` the script (`stop_daemon` with its deadline, the drain). `setting` chooses explicit
stop or auto-stop and how long reports take; it never changes.

**TraceSession** (`install_fish.sh` 84-513 and the wrappers). `Check`, `WriteName`,
`ClearLock`, `CreateSession`, `StartDaemon`, then `IncRead`, `IncWrite`; `DecRead`,
`DecWrite`; `Enter`, `Freeze`, `StopDaemon`, `Destroy`, `Cleanup`, `Release`. Reading and
writing the counter are two steps, as in the script, and a reader may meet the file empty
while another one writes it. All calls overlap. `raced` is set by the three orders that the
scripts do not stand: a start while another one creates the session or a stop is at work; a
stop that begins while a wrapper is entering; a write of the counter over an update made
since it was read. The properties are about runs without them; dropping any of the three
breaks a property, and `LastDecAlwaysStops`, the sentence of the documentation without the
premise, is false (`TraceSessionDecs.cfg`).

**KernelTrace** and **KschedParse** (`postprocess/`). KernelTrace is not code of this
repository: it generates what a kernel session may contain, streams per CPU from threads
that are switched, migrate, wake others and call futex, with ring buffers that discard.
KschedParse holds both parsers: `Sequential`, a recursive function over the merged lines
(`Order` and `Merged` are what babeltrace2 prints), `Parallel` with a `Worker` per stream,
`Pair` (the vectorised `_pair`) and the final stable sorts. numpy's stable sorts are
`Sorted` (each record goes behind those that are not greater), boolean masks are `Kept`; all
of it is recursive functions, so that it can be proved about.

**ParamsFile** and **Snapshot** (`snapshot.py` 167-309, 573-797; the daemon's part of a stop
in `gpu.py`). ParamsFile is `capture_params`: `ReadParams`, `AskParams`, `OpenTmp`, `Dump`,
`Replace` of a sweeper, with a file that is torn between open and write. Snapshot has the
collector (`Poll`, `StartBatch`, the workers' `Take`, `Answer`, `NoAnswer`, `JoinWorkers`,
`DumpInfo`, `NextPoll`, `EndPolling`) and both kinds of stop (`SetEvent`, `JoinCollector`,
`ListAtStop`, `AskAtStop`, `WriteInfo`, the shutdown sweep). Joins may give up; `gaveUp`
records it.

**Mission** (`fish_orchestrator.py`). `pc` is the phase of `run_mission`; in a phase the
containers are taken one at a time, in any order, `cur` is the one whose turn it is.
`session[c]` is the trace session inside a container, which starts at any time, settles, is
stopped, and may stop by itself; `ContainerDown` takes a stop under way along. `CallStop`
only calls docker exec (`asked[c] = "sent"`); the stop in the container begins when it does
(`StopBegins`), also after its caller has given up (`StopFailed`), or never. `Collect`
begins a copy, which leaves an `unfinished` directory until `Copied`, and for ever if docker
cp fails or the program is interrupted; what is copied is the session as it was when the
copy began. `Interrupt` is the SIGINT handler: the first one skips actions, the second ends
the program.

**RosTrace** and **CallbackFlow** (`model_improved_pg.py` 1672-2552). RosTrace is not code
of this repository: the threads of a traced process, callbacks inside callbacks,
publications, takes, polled reads, operations on a container, retained pointers, with
history of what really happened. CallbackFlow has the functions that read it: `Windows` and
`Owner`, `CallbackF`/`ThreadF` (publisher threads), `PolledReads`, `Dispatched`, `Hops`,
`ContainerEvidence`, `PointerEvidence`. What the code does and a reader may not expect: two
losses can let the damage spread over several windows; what an executor that spins inside a
callback takes for dispatch counts as a polled read of that callback; container operations
outside windows are ignored; of two polled subscriptions to one topic both are marked.

**FlowGraph** (`model_improved_pg.py` 583-1184, 1493-1669, 2869-3421). A recorded
application is given (`app`); `Primary`, `Known`, `Completers`, `PublishJoins`,
`FilterJoin`, `InferredLinks` are what is concluded of it, and `DeclareMessages` to
`LiftEdges` are the stages of `add_horizontal_edges` in their order, call by call where the
order of a set decides. Edges do overwrite each other in places: tf and service edges a hop;
a state link the request between endpoints of one node; a polled link the tie of a join; and
a synchroniser is not looked for when one of its inputs is in a publish join: of three
synchronised inputs two that complete the set are a join, and the third, if it is of another
type, is left out and counts as a deposit. The properties except these. A client endpoint
has the aspects of a server (559), so that a caller gets edges to the other clients of its
service, in other nodes too (`FlowGraphComments.cfg`); the properties count those as what
they are, not as calls. The lifting drops interactions of a node with itself, where its
comment says that such pairs are kept (`FlowGraphComments.cfg`).

**Store** (`ingest_pg.py`, `pg_store.py`, `graph_store_pg.py`, `fish_viz_server.py`
2732-2934, `scripts/post_run_pipeline.sh`). `rows[part]` counts how often what one
transaction loads is in the database. An ingest runs `Exists`, `CleanSpans` (which may fail,
and the session is deleted all the same), `DeleteSession`, `RegisterSession`, `LoadSmall`
for the small files, then two threads: `LoadTrace`, and per report `OpenReport`, `LoadTable`
or `TableFails` for each table of the pool, `EndReport`. `IngestFails` is no directory or no
database; the pipeline goes on to the model after that as after any ingest. A table or
metadata that sqlite does not let it read (`OperationalError`) is passed over without an
error: `passed` in the thread's state. `swept` notes that the ingest of a program has
removed the windows or found none. `Extract`, `GraphExists`, `SaveGraph` are a model run,
`HasMeta`, `FillSpans`, `WriteMeta` the build of the callback windows in autocommit mode,
`FromFile` to `KeepPage` a request, for a session that is there or not. `Die` kills any of
them between two steps.

How they compose. Snapshot is the collector that NsysStop's daemon stops first; Mission
drives whole sessions (TraceSession, StopLock, NsysStop) through `OwnStop` and `StopDone`;
Store loads what Mission has copied, and CallbackFlow and FlowGraph are inside its
`Extract`. StopLock is the lock step (`Enter`, `Release`) of TraceSession; GpuDaemon starts
where Stability signals; NsysStop is the inside of TraceSession's `StopDaemon` and of
DaemonSingleton's `flush`. DaemonSingleton's constant `Impatient` (the stops that may give
up) is the question that `FlushedBeforeGivingUp` of NsysStop answers: when reports and
collector are in time, `stop_daemon` does not give up on a daemon that flushes. The
composition is by these assumptions, not yet by a common module.

## 3. The runs

| run | question | bounds | result |
|---|---|---|---|
| `stop_lock_pair` | Does the lock hold for two callers, one of which may die anywhere? | 2 callers (the pair the comment at line 251 names), 1 death, any interleaving | all hold, StopOnce is implemented |
| `daemon_calls` | Is there one daemon at work, can it be found, do stops return? | 2 starts, 2 stops of which one may give up, 1 status, all overlapping; crashes and auto-stop anywhere | all hold, the first two of runs without a race |
| `stability_wait` | Does the phase end, except for containers without launched processes? | counts 2 and 3, container counts 1 and 2, process counts 0 to 2, three changes; the session comes and goes | holds |
| `gpu_handling` | What may kill and relaunch hit and lose? | 2 nodes, one standalone and one of four kinds, 2 runs each | all hold |
| `nsys_reports` | Are the reports there when the stop is done? | 2 children, 1 foreign process; explicit or auto-stop; times in and out of the timeout; a unit is 10 s | all hold |
| `trace_calls` | Does the session last as long as its nodes? | 3 wrappers, 2 explicit stops, 1 kill, all overlapping; a run is followed until its calls race | all hold |
| `ksched_parse` | Do both parsers give the same, and the truth? | 2 CPUs, 2 threads, 5 events, 1 discarded, a midnight in between | all hold |
| `snapshot` | Do the files keep and get everything, and does the stop end? | 2 nodes, one late, one worker, 3 polls, either kind of stop, one node may go | all hold |
| `mission` | Are whole traces copied, and is nobody forgotten? | 2 containers, one with an older session, one timed and one parallel action, 1 container going down, docker exec and docker cp failing anywhere, any interrupts | all hold |
| `callback_flow` | Is what is concluded from events real? | 2 threads, a subscription, a timer, a polled subscription, a container; 8 events (9 with pointers), 1 discarded in the plain case | all hold |
| `flow_graph` | Do the stages of the graph keep what they must? | 11 endpoints in 3 nodes and 2 executors, 1944 applications | all hold |
| `store` | Is the database right after failures and deaths? | 4 programs of any kind in turn, 2 reports of 2 tables, 1 death, a failure at every step, nothing read at any table | all hold |

The properties of a run are in `PROJECT.json`; every one has a slip of the code that
violates it.

Configurations that are kept as counterexamples (they are expected to fail, and show that
the premises of the properties above are needed, or where a document or comment says what
the code does not do). `FlowGraphComments.cfg` and `StoreDocs.cfg` have more than one
property, run them with `tlc -continue`:

| configuration | property | what it shows |
|---|---|---|
| `StopLockOverlap.cfg` | `MutualExclusion` | Three overlapping stops run two shutdowns at once, without any death: the owner's pid is read on one line and probed on the next. The comment at `install_fish.sh` 252 wants the second caller to wait. |
| `DaemonStartRace.cfg` | `OneAtWork` | Two overlapping starts make two daemons: the child's unlock releases the flock of its parent before the pid file is written. |
| `StabilityLaunchTest.cfg` | `LaunchTestIsStable` | Under `launch_test` with containers the first phase never ends, for EX waits for `ex_seen_nonzero` or a fallback that containers rule out. `docs/operating_modes.md` 95-97 says that the fallback of EX fires after 60 to 90 s. |
| `GpuDaemonLaunchOwned.cfg` | `LaunchOwnedIsNeverRelaunched` | A process of the launch system that ends before its turn is launched again: a process that is gone has no ancestors. |
| `GpuDaemonUnrecognised.cfg` | `UnrecognisedIsRelaunched` | A process of the launch system that no wrapper was put around stays as it is. `docs/operating_modes.md` 78-80 says that it is killed and launched again. |
| `NsysStopSlow.cfg` | `DrainedMeansDone` | The drain finishes while a report is being written, when the next one takes longer than the pause it waits for. |
| `TraceSessionDecs.cfg` | `LastDecAlwaysStops` | Two `dec` at once lose an update: nobody stops the session (`docs/operating_modes.md` 32). |
| `SnapshotMerge.cfg` | `MergeIsComplete` | In an explicit stop the collector still runs while the shutdown snapshot merges: entries are lost. |
| `FlowGraphComments.cfg` | `OnlyServersAnswer` | What is left of a caller gets an answer from a client of the service in another node; the comment at `model_improved_pg.py` 3113 has servers only. |
| `FlowGraphComments.cfg` | `SelfPairsAreKept` | A node that talks to itself has no self-loop, against the comment at `model_improved_pg.py` 3344. |
| `StoreDocs.cfg` | `PageIsCurrent` | A page of the viewer's cache is served after the model was built again, although "it survives model rebuilds - reload the page" (`docs/pipeline.md` 76); the windows too are those of the old graph. |
| `StoreOverlap.cfg` | `SpansAreCurrent` | A request during a forced ingest, or two builds at once: windows of the old rows, or each twice. |
| `StoreDocs.cfg` | `EveryErrorShows` | A table that sqlite does not answer for is left out and the ingest logs DONE; the comment at `ingest_pg.py` 1299 wants errors to surface. |
| `StoreDocs.cfg` | `EveryPipelineRebuilds` | Windows that were built before the session had a row (by a request, or by the pipeline after an ingest that failed) stay when it is loaded: an ingest removes windows only along with a session. |

Why the bounds are enough. The lock and pid-file races need a caller that decides, one that
invalidates the decision and, for the stop lock, a third whose lock is removed; the runs
have that many. Stability compares only "equal or not", so two counts tell everything and
three changes lead through every branch twice. In GpuDaemon the interesting second node is
any of four kinds, and two runs of a node are the original and its copy. NsysStop needs two
children because waits add up, one foreign process for the second loop, and write times
below, at and beyond the timeout. TraceSession needs a wrapper that enters, one that leaves
and one that stays; a run whose calls have raced is not followed on (`PastRaces`), since the
properties say nothing of it. In KschedParse the longest scenario is a futex wait during
which the thread migrates: switch-in, entry, switch-out, switch-in elsewhere, exit, five
events; there are two threads so that a CPU has somebody to switch to and two intervals can
end at the same time on two CPUs. Snapshot needs one node that the first poll finds and one
that a later one finds. Mission needs a second container to show that one failure does not
keep the other from being stopped. In CallbackFlow eight events hold two nested callbacks
with what they publish and take, and pointers need one more; a discarded event is combined
with messages only. Four programs in Store are a load, what is built on it, whatever a death
or a request leaves behind, and the load after that; `MCView` takes states for the same that
differ in what a finished program was and said. Threads are numbered so that those running
at the start come first (nothing depends on which is which).

Symmetry is used for callers in StopLock and TraceSession, in runs with invariants only.
Deadlock is not checked in any run: every behaviour ends (calls return, sessions stop,
bounds are used up), and what must not remain unfinished is stated as a property
(`EveryStopReturns`, `StopDaemonReturns`, `StableUnlessNoLaunch`, `SeenIsHandled`,
`StopEnds`, `StopReturns`, `MissionEnds`).

### Fairness

* StopLock: a caller inside `stop_session` keeps running (weak fairness of each
  `Step`); the `for` loop over 900 polls ends (strong fairness of `PollsOver`,
  since polling alone would go on for ever). Nobody is forced to call.
* DaemonSingleton: a stop that has begun goes on; a signalled daemon flushes and
  exits (its waits have timeouts, and what is late is killed). Nothing forces a daemon
  out of its start-up phases, which may last for ever.
* Stability: the loop goes on, both checks are polled again and again (their
  intervals have elapsed by then), and the fallback time passes. Nothing is promised of the
  session, hence the premise of the property.
* GpuDaemon: the daemon's loop is a single thread that never blocks for ever.
  The application owes nothing.
* NsysStop: daemon, script and time go on. Nsys processes owe nothing: an application
  may never end.
* Snapshot: the stop goes on (`Stop`, the sweep at shutdown). The collector, its
  workers and the nodes owe nothing: joins have timeouts.
* Mission: the program goes on (docker's own commands end, in success or not), timed actions elapse, and an
  interrupted wait ends. Containers, their sessions and parallel commands owe nothing.
* TraceSession, KschedParse, CallbackFlow, FlowGraph and Store have safety
  properties only.

### Remarks

The `ksched_parse` run shows two limits of comments: off-CPU intervals of two threads that
end in the same nanosecond come out in thread order, not in stream order (`SameResult`
therefore compares them thread by thread, as their consumers do), and the sequential parser
dates a session a day early when the first kernel event lies after a midnight that the
session's start lies before (`StartsOnItsDay`, the premise of the comparison).

Of the orchestrator: `host_trace_path` is read (375) but never put into the containers'
dictionaries (193-198); an interrupt in phase 1 aborts without the clean-up that the comment
at 497 speaks of; the result of `collect_traces` (402) is not looked at, so that the
manifest names a session whose copy failed half-way; a stop that found no session is
reported like one that stopped it.

Of the database: an ingest whose threads failed ends with exit code 0, so that the
pipeline's INGEST FAILED appears only for failures before them; a plain ingest after one
that was killed takes the row of the session for a finished one; the metadata of the last
report replaces that of the others; when the removal of the windows fails (1335), the
session is deleted and loaded again, and the old windows count as its own.

## 4. The proofs

Each `...Proofs` module has the inductive invariant, one lemma per group of actions, and the
theorems. All of them hold for every value of the constants under the named `ASSUME` of the
component and the assumptions below.

| module | theorems | assumption | argument |
|---|---|---|---|
| LockProofs, on StopLock | `LockTypesCorrect`, `PairExcludes`, `PairKeepsPromise`, `PairShutsDown` | two callers, `~SlowStop` (all but the first); at most one death (the last) | `PairInv`: where one caller is limits where the other may be and what the directory holds; `PairKeepsPromise` shows that each step maps to a step of StopOnce or a stutter. For three callers it is false (`StopLockOverlap.cfg`). |
| LockProofs, on DaemonSingleton | `TypeCorrect`, `OneDaemon`, `DaemonFound` | none; the last two conclude of runs without one of the three races, which is part of the properties | `DaemonInv == TypeOK /\ (~raced => Sound)`. `Sound`: whoever is in `start_daemon` has the lock file open that is there (`LockAt`); one start at a time decides (`OneDecides`), and when it is about to fork no daemon is at work (`StarterAt`); the pid file names the daemon at work, except while its starter writes it (`PidFileAt`). `AtMostOneDaemon` alone is not inductive: a start decides from a pid file that it read steps ago. |
| GpuDaemonProofs | `TypeCorrect`, `OneRun`, `NsysLeftAlone`, `SignalAfterHandling`, `CopiesOwned` | none | `GpuInv`: runs of a node are born in order, each after the end of the one before; a process in a batch is the latest run of its node; what is about to be killed and still lives was found standalone. |
| GpuDaemonProofs, on Stability | `StabilityTypeCorrect`, `ClStable`, `RunModeJustified` | none | the counter never exceeds the run of equal readings that it stands for; `ok` is set only at the required count. The launch log's counter has no such theorem, it counts zero readings on top of others. |
| NsysStopProofs | `TypeCorrect`, `LateKill`, `FlushedFirst`, `NothingLost`, `DoneMeansReported` | none; the last three conclude under `InTime` (reports within the timeout, collector fast enough), which is part of the properties | `StopInv`: a wait that is over has lasted the whole timeout. Under `InTime`, whoever is writing has no more to go than the time left of the present wait, so that no wait times out. |
| TraceSessionProofs | `TypeCorrect`, `NodesStayTraced`, `NothingIsLeft`, `SessionIsFound` | none; the last three conclude of runs without one of the three races, which is part of the properties | `SessionIInv == TypeOK /\ OnlyWrappers /\ (~raced => InOrder)`. `InOrder`: while one wrapper creates the session no other enters, and none while a stop is at work (`Alone`); the stop lock's holder is the one that takes the session down (`LockInv`, `SessionInv`), and the counter bounds the number of counted wrappers from both sides (`HighInv`, `LowInv`, cardinalities of finite sets), except when somebody was killed or a stop is on its way. |
| SnapshotProofs | `TypeCorrect`, `ParamsAreKept`, `MergeAfterCollector`, `NoNodeIsForgotten` | none; the second is about sweeps that do not overlap, the third about auto-stop without a thread given up, both part of the properties | `SnapshotIInv`: a sweep on its own holds all of `params.json` and owns the temporary file (`SweepInv`); under auto-stop the collector is over before the list is read, what anyone has answered is in its set or in the fresh one, and nothing is dropped between reading and writing (`MergeInv`). |
| MissionProofs | `TypeCorrect`, `EveryTargetIsStopped`, `ConfirmedCopies`, `ConfirmedIsNotCut` | none | `MissionIInv`: a live session runs in a container that is up; in the stop phase every target is still to come, its turn, or was asked; a stop that was confirmed after it had found a session is over, and copies come after all stops (`CopiesComeLast`, which also says that the source of a copy under way is whole when the stop was confirmed). `ConfirmedIsWhole` alone says nothing of the time before the copy. |
| PostprocessProofs, on Store | `TypeCorrect`, `LoadedOnce`, `DoneMeansWhole`, `WindowsAreCurrent` | `~MayOverlap`: programs run one after the other (all but the first) | `StoreInv`: where the one active program is tells what the database holds. What an ingest has not come to is absent, what it has loaded is there once, for the small files in order (`SmallProgress`), for the trace, and for each table of the present report (`NsysProgress`), or it is among what sqlite would not read; once the windows have been removed or found absent (`swept`), those that come are of the row that is there, or were left by a build that died before its note. `PartsOnce` alone does not say why a part that is about to be loaded is absent. |
| PostprocessProofs, on KschedParse | `StampsRight`, `RowsTile`, `WaitsFound`, `SameResults` | `KernelTraceAssumption`: a session is shorter than half a day. That nothing was discarded and that the session has an event before midnight are premises of the properties | `KernelBasics`: streams are in the order of time. `Scheduling`, while nothing was discarded: a thread is on one CPU, is not switched twice at a time, is where its latest switch left it (`Placed`), a CPU runs what its last switch says (`Seated`), and the switches of a thread alternate between in and out on the same CPU (`Alternating`). `FutexShows`: the call a thread is in, and its waits, are those that its events show (`CallShows`, `WaitsShow`). `MoveInv`, for `SameResults`: `KernelBasics`, and a switch changes the thread, for nothing else is left when events are missing. See below for the walk over the lines. |
| CallbackFlowProofs | `OwnersFound`, `EvidenceFound`, `ReadsFound`, `HopsFound`, `PointersFound` | `ReadsFound`, `HopsFound`: a node subscribes to a topic once (`SameTopicSubs(s) = {s}`), since the code books a take on every subscription of the topic in the node. One discarded event at most, or a whole trace, are premises of the properties | `OwnerInv`: the stack that `_callback_windows` keeps for a thread is the stack of the callbacks that the thread is in, or has one too many at the bottom, or is wrong inside one damaged outermost callback only (`TracksInv`); so a window around an event of an intact callback begins no later than that callback, and the callback's own window is there when it has ended (`WindowsInv`). `ContentsInv`: each erasure took what the operations since the last one had put there. `ReadsInv`: while callbacks do not run inside others a thread is in one, or in two the first of which is damaged (`ShallowInv`), so that the window a `callback_end` closes is that of the callback that ends and a window around an event has its time and name (`FitsInv`). `HopsInv`: a sample that was taken was published before (`SamplesInv`), and of the callbacks that have begun on a thread since a take for dispatch the first is that of the sample (`NextInv`); both need `TracksInv` for the stack to be empty at rest. `PointersInv`: two runs of one callback do not overlap, on whichever threads (`ExclusiveInv`), so that the window in which a pointer goes and that of a later publication of the same callback are one run or are apart; a retain event lies between the callback that has returned and the next one of its thread (`RetainsInv`). |
| CallbackFlowProofs, on FlowGraph | `HopsStay`, `CallsReachServers`, `InputsMeet`, `LayersShowInteractions` | `FlowGraphAssumption`: finitely many endpoints, applications that can be recorded | `GraphInv`, stage by stage: `RecordedIsKnown` (what was recorded of a traced endpoint counts for it and no other); `EntityInv` for the calls declared so far, in any order; `FlowInv` for the callback layer, which ties inside nodes leave alone (`TiesKeep`, from `AddedTies`: what adding ties does to a layer); `JoinInv`: every join has an anchor, and a tie to it is in the way of no deposit, polled read, tf read or GXF pair. |

`raced` is a history variable: no action reads it (but for the bound `PastRaces`), so that
it restricts nothing. Each of its clauses is needed: when one is dropped TLC finds a
property violated (for the removal of the daemon's lock file it takes three starts and a
stop).

The proofs about CallbackFlow go over traces of any length. The library's induction theorems
take an operator as a parameter and cannot be used here; `NatIsInductive` states induction
for a set (from `WFMin`, the least element of a well-founded relation), and with it the
recursive functions `Walk`, `ContainerEvidence` and `PointerEvidence` are unrolled by one
event (`WalkGoesOn`, `EvidenceFollows`, `PointersFollow`). `PointersAreReal` calls a
callback a possible reader when it publishes during the hold *in the node that deposited*,
for the code looks at no others: callbacks of another node in the process that publish
meanwhile make neither a flow nor a reason to doubt a drop. `OwnersSurviveLoss` is stated
for one loss because two can break it: when the end of one callback and the start of a later
one are discarded, the end of the later one closes the window of the first, and what
happened in between is given to it. `PolledReadsAreReal` has the same premise: such a window
also makes a reader of a callback that does not read.

The proofs about KschedParse have two halves. The one is about the kernel: the invariants of
the table, kept by every step. The other is about the parsers, in a given state:
`OrderSorts` (every event is printed once, after all earlier ones) carries the invariants
over to the merged lines, `OrderIs`, `StampsAre` and `SequentialIs` unroll the recursive
functions by one line, and an induction over the lines shows what the parser knows after
each of them. For the dates that is whether midnight has passed (`SeqStampsAre`); for the
rows (`Walk`), that `running[cpu]` is the last switch of the CPU, `pending[thread]` the last
switch-out of the thread, and the rows are the pairs of consecutive switches so far, each
once; for the waits (`CallsRead`), that `pending_fx[thread]` is the last futex entry of the
thread if it was a wait. No fact about the rows alone would do: that a row begins where the
last one of the thread ended follows from `Alternating` and from what is pending.

`SameResults` says the same of no event at all, for any of them may be missing; it compares
what the two parsers do with the same lines. `Lists(s, A, f, R)` says that the sequence `s`
shows each member of the set `A` once, as `f` has it, in the order `R`, and a set has one
listing in a strict total order. So each column is shown to list the same set of line
numbers on both sides. For the sequential parser that is an induction over the lines
(`SequentialLists`). For the parallel one it goes the way of the data: what a worker holds
after a line of its stream is what the sequential parser holds of that CPU (`WorkerSees`),
so a worker's column lists the lines of its CPU; `OfAll` lists them CPU by CPU; a stable
sort by time makes of that the order of the lines, since lines of one time are merged by CPU
and those of one CPU keep their order. On-CPU rows and marks are then the same lines. For
`Pair` the records are sorted by thread once more, so that the last opener before a take is
the last one of its thread, and it is of use when no other take came between: exactly what
`pending[thread]` and `pending_fx[thread]` hold (`Closers` are the takes that find
something). A switch counts as two records, its halves 2n - 1 and 2n; here `MoveInv` is
needed, because one line that switched a thread to itself would set and take what is pending
at once. The threads met are the first lines that switch them out.

The type invariants are proved, not listed with the runs. Only model-checked: all liveness,
which rests on fairness and ENABLED, which the prover does not handle.

## 5. Not modelled

* **Launch wrappers, settings, provenance**: text work without state of its own;
  which process gets which wrapper is an input of GpuDaemon (`traits`) and NsysStop.
* **Container reload in gpu.py** (452-1036, 1476-1606): has no caller.
* **Samplers of the collector** (topics, rates, threads, libraries): files of their own.
* **Kernel session, status command, the daemon's own stop as a caller of
  TraceSession**: left out of TraceSession.
* **Pid reuse, zombies**: left out of the daemon and GPU models.
* **Graph extraction**: how executors, nodes and endpoints are read from the trace and
  the snapshot; recycled handles (545-549); QoS, threads and callback groups, phases,
  detection of tf links and actions; message_filters evidence and stamps.
* **Ingest**: the parse of lines, and of blocks of lines in a process pool (both date a
  line by its hour; the roll at midnight is done by the parent in order).
* **Analyses after the graph** (`extract_fish_tasks.py`, `fish_compose.py`,
  `gpu_attribution.py`, `fish_window.py`, the rest of `ksched_split.py`): each reads a
  finished graph or trace once and in order, and computes sums, quantiles and merges by
  name. One remark on `fish_compose.py` 162-341: the placeholder of an external
  publisher is removed also when its only real publisher is of its own role.
* **Views, tracepoints, images, campaign scripts**: no behaviour over time beyond what
  Store has.

Known hazards that no property covers: the execution counter counts zero readings on top of
others (`gpu.py` 1288); a node that gets its CUDA context after its batch stays a CPU node
(1909); `known_pids` never shrinks (1879); a SIGTERM before the handlers are installed
(1865); a session that starts while the daemon's own stop waits (304); equal timestamps of
one CPU (`ksched_parse_parallel.py` 197); the clock change (`ksched_split.py` 160).

## 6. Plan

Done, in order: StopOnce and StopLock; DaemonSingleton; Stability; GpuDaemon; NsysStop;
TraceSession; KernelTrace and KschedParse; ParamsFile and Snapshot; Mission; RosTrace and
CallbackFlow; FlowGraph; Store.

Next:

1. **Session**: a composition of TraceSession, DaemonSingleton and NsysStop with
   the daemon's own stop as a caller and SIGTERM before the handlers are installed.
2. **Store and Snapshot with their readers**: the two transactions of `load_graph` and
   `to_viz_json` against a `save_graph` in between.
3. **Pure algorithms**: days of other lengths for all four ways of dating a line; the windows
   that the viewer pairs in SQL (`lead` per thread, 2725-2730) against CallbackFlow's `Windows`
   for nested callbacks; what is wrapped by `launch_wrap`.

## 7. Running

```
tlc -config StopLockPair.cfg MCStopLock        # the pairs are in PROJECT.json
tlapm LockProofs.tla
```
