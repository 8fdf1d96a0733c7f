# A TLA+ verification project for agentic-hpc-dashboard

The repository watches AI coding agents on HPC login nodes. On each host a
**collector** (`src/collector/ebpf_trace.py`) follows every process with eBPF and
appends one JSON line per process exit, and some others, to a day-file. One
**dashboard** (`src/dashboard/rc_dashboard`) tails the day-files of all hosts,
keeps a live tier and a set of built windows, and serves them to a **web page**
(`src/dashboard/web`). There is no database and no message broker: the day-files
are the protocol, written by processes that are killed at will, compressed behind
the readers' backs, and read by several threads at different offsets.

What can go wrong is therefore mostly accounting: a record counted twice, or by
nobody, because two readers, or a reader and a writer, disagreed about where a
file had been read to; a process given another's record because a pid was reused
or an event lost; a total that depends on how a window was cut into hours; a
window that is never built. That is what is modelled here.

Modules and configurations are in this directory. To check a run:
`tlc -workers 2 -config HourStore.cfg HourStoreMC`; to check proofs:
`tlapm HourStore_proofs.tla`. `PROJECT.json` lists the runs, the source lines each
definition stands for, a plausible bug for each property (the operators commented
`Bug:` beside the one they would replace), the hazards, and the theorems. A one-line
helper is not listed by itself when its lines are those of a definition that is:
the sentence it stands for is read there.

## 1. Inventory

### Collector

| Part | State | Operations | Hard behaviour | What makes it correct | Module |
|---|---|---|---|---|---|
| Day-file writer (`DailyWriter`, `_compress_file`, `_sweep_sealed_days`) | open file and day, stdio buffer, compress threads | write, roll over, flush, close; gzip a sealed day; startup sweep | SIGKILL mid-line, gzip killed, the clock set back, gzip racing every reader | no line is torn, lost once flushed, or hidden | `FeedTail` |
| Event queue (`enqueue_event`, `dispatch_events`) | a list of stamped events | poll the rings, apply what is older than `REORDER_MS` | rings drain by CPU, not by time; slow and lost events | applied in the order of the kernel's stamps | `ProcTable` |
| Process table (`on_fork`, `on_exec`, `on_argv`, `on_tcp`, `on_exit`, `reconcile_proc`, `gc`) | pid → entry, misses, held exits | one handler per event; resync and residency reconcile; hold, drain and flush of records | pid reuse, lost exits, a second thread's exit, late closes, a stop in any round | one record per process, with its own argv and connections; no ghost | `ProcTable` |
| Attribution (`resolve`, `invalidate`, the sandbox verdict) | memos and verdicts on entries | seed from /proc, inherit, resolve, tick | memos of an image that changed; a parent's pid reused | the agent named is an ancestor, the nearest | `Attribution`, `Roles` |
| Thread accounting (C text, `_exit_totals`) | per-process accumulators and claims in a kernel map | each thread adds itself or writes the record | threads of one process exit concurrently; a map that is full, or holds a dead process's | each thread is counted once | `Threads` |
| Endpoint table and netio series | counters per process and endpoint | announce, read at ticks and exits, sweep | announcements lost; an entry outlives its process | bytes are attributed once | `Endpoints` |
| Connections (schema 6) | socket births, blocks of counts | birth, accept, close, fold | late closes; caps | no fold is lost uncounted; a connection is folded once (it is not, see section 5) | `Conns` |
| Host-name worker | a queue, a cache, one thread | ask, resolve, answer | full queue, expiry | one lookup at a time, bounded | `Lookups` |
| `node_snapshot.py`, `ebpfm.sh`, `lib/` | a sampler, a control script, parsers | | little: sequential | | - |

### Dashboard

| Part | State | Operations | Hard behaviour | What makes it correct | Module |
|---|---|---|---|---|---|
| Tail and read-back (`tail.py`) | path → (inode, offset); planned ranges | position, poll, prune, read back | a file changes name and inode under an offset; caps; partial lines | every line once, none skipped | `FeedTail` |
| Aggregator (`aggregator.py`, `app.py`) | the lock, the live tier, backfill progress | poll, consume, backfill, refresh | four threads and one lock released between steps | the page moves on | `FeedTail`, `BuildSeam`, `WindowRegistry` |
| Window registry (`windows.WindowRegistry`) | LRU of views, queue, one worker | request, prewarm, evict, build, refresh | lookups, evictions and state changes under different locks | every view is built or put out; the cap; the default stays | `WindowRegistry` |
| Panel view (`windows.PanelView`, `_build`) | reducers, replay buffer, `consumed_through` | scan, buffer, swap, replay, save, resume | scan and tail read the same growing files | each record counted once | `BuildSeam` |
| Hour store (`hours.py`) | saved hours, days, chains | ensure, reduce a run, patch, merge a day, prune | late records; a stop between two saves; windows asked for in any order | each record reduced once; runs are joined | `HourStore` |
| Historical reducers (`reducers/`, `procindex.py`) | folds over records; join state between hours | feed, seed, strip, merge, result | a join across an hour's boundary; caps and dedupe that depend on order | hours merged are one pass | `Reduction` and what it extends |
| Live tier (`reducers/live.py`, `buckets.py`) | bins, roots, sessions, identities | feed from tail and backfill, frame | two feeders in opposite orders; expiry | what is served is as if fed in order | `LiveTier` |
| Roster (`roster.py`) | two tiers of bins, cached sums | add, roll, counts | a cached sum as bins expire | a window counts what is in it | `Roster` |
| Health (`health.py`) | runs, heartbeats, stops | feed, report | a killed run looks like one that is silent | the verdict is the truth | `Health` |
| Slurm accounting (`sacct.py`) | a reduction and its cache | reduce, merge runs, serve | inputs replaced during the reduction; jobs seen twice | a job is spent once; what is served is current | `Accounting` |
| Question runner (`ask.py`) | questions, slots, processes, the done list | submit, run, time out, mark, restart | an agent that ignores its kill; a save that fails | slots bound agents; questions end; marks last | `Asker` |
| I/O lookups (`iocmds.py`) | lookups, a gate | start, read, poll, trim | trimmed while polled; two asking the same | what is polled is held | `Lookups` |
| Session tree (`proctree.py`) | a tree under construction | feed, claim, demote, resolve | parents after children; room | every process is counted where it belongs | `SessionTree` |
| Snapshot store (`snapshots.py`) | a saved build per window | save, load | a crash between save and swap | a saved build is what its offsets say | `BuildSeam` (in part) |
| gzip index, feeds, configuration, node tier | caches and plain values | | little | | - |

### Web page

`useLive.ts` keeps a WebSocket with retries and falls back to polling; the other
files render. Its hard behaviour is a stale answer for a window left since, and a
fallback that is never left. It is not modelled yet.

### Interactions

The collector and the dashboard share only the files. Inside the dashboard the
ingest thread polls the tail and feeds the live tier and every held view under the
aggregator's lock; the backfill thread positions the tail and reads history into
the live tier; the build worker scans the same files for a window, under no lock,
and takes the lock to swap; the hours it needs are reduced and saved by the hour
store, each of them by the reducers; the rebuild loop queues views that drifted
and hours that closed; HTTP threads request views, ask questions and poll lookups.

## 2. Modules, and how they correspond to the code

### `FeedTail` (with `FeedOnce`): a host's day-files from both ends

Composes the writer, the compressor, the tail and the read-back, since no question
about one of them can be asked without the others. A file is its length and the
offsets of its newlines, each with the record on that line; `size` is what is on
disk and `end` what the collector wrote, so that a spill may end anywhere in a
line and a kill cuts it there. `plain`, `gzip`, `gzOf` are the names of a day and
the inodes behind them. `state` is the tail's offset map, `plan` the read-back's
ranges; `fed`, `again` and `missed` record what was handed over. Each step of a
poll and of a positioning that another process can fall between is an action
(`PollBegin`, `ReadOne`, `PollEnd`: listing, each file, the prune on a listing of
its own); a positioning may also fail half-way (`PositionFail`), which gives up the
read-back and lets the tail go on from the files positioned so far. The read-back's check of a name and its open are two.

`FeedOnce` says what the live tier promises, with no file in sight: a line becomes
durable once and is handed over at most once. `FeedTail` implements it, with the
durable lines as the refinement mapping.

One file per day stands for the two streams and all hosts, which share nothing
in these operations. Directories are dated by day and `TailDays` of them followed.

### `WindowRegistry`: the LRU of views, the queue and the worker

`request` is `Reuse` or `Create`, which evicts in the same step since both are
under one lock; queueing the key (`EnqueueCall`) is under another, so it is a
later step. The worker's pop, look-up, marking, and end or failure are separate:
`job.own` says whether the view it holds is still the one in the registry. What a
build reads is left to `BuildSeam`; that a view may drift again is chosen freely.

### `BuildSeam`: how a view gets its records

Each host's file is the sequence of its records' timestamps. A build plans, opens
each stream, merges on the least head, swaps and saves, while collectors append
and the tail polls. `Feed` is `PanelView.feed`: into the replay buffer while there
is one, else into the reducers if newer than `consumed_through`. Resume, failure,
eviction and restart are actions. Positioning and one poll are atomic, since they
hold the aggregator's lock and a view is fed under it; the order in which a poll
takes the files is chosen. The stamp `through` is what the scan reached.

### `HourStore`: hourly merge-reduce

A record is an hour number in a host's file; hours are reduced in runs, each hour
reading from where the hour before stopped, its late records (`strays`) merged
into hours already saved. Saved hours, days and chains persist; `Stop` (a kill, or
a save that raises) may fall between any two saves. `closed_end`'s slack and the
grace are zero: what they delay, lateness of any length covers. An hour's join
state is reduced to how far back it reaches; what a merge adds up is `Reduction`.

### `ProcTable`: the collector's event queue and process table

Kernel actions stamp events into a wire; `Poll` takes any subset that includes
everything older than `REORDER_MS` before the poll began, but for slow events; a
full ring drops others, at most `MaxFaults` of both. `Apply` runs the handler of
the oldest due event, `Drain` writes the held exits whose time has come, and then
the timers run in the main loop's order: resync, gc, tick. One clock is the
kernel's and the timers'.

Left out: processes found by the startup walk, attribution (see the next module),
submit capture, `EXIT_HOLD_MS=0`, and records not written because they are quiet.
`on_tcp` looks at the pid alone, so a connection may be folded onto an earlier
process's entry after a fork and an exit were lost; `OwnArgv` is about the argv
only. `OwnArgv` and `LateLands` say nothing of a record written in the last round,
which applies all it has.

### `Attribution`, `Roles`: who a process is attributed to

Processes fork, run an image, isolate themselves and exit; events are applied in
order and at once, but one may be lost. An entry keeps its parent, its memo of
the agent, and its sandbox verdict; `Resolve` walks up, `Invalidate` drops the
memos below an image that changed, a tick reads again what was only inherited.
Namespaces are the kernel's: a child may be cloned into a sandbox, and a live
process may enter one after its exec was read (`Isolate`, of which no event
tells); a launcher runs its payload as a child or in its own place. Which
command lines do so is `Isolating`. Leaving a sandbox (`setns`) and the seccomp
filter, whose verdict goes the same way as that of the namespaces, are left out.
`Roles` is the classifier: a command line is what `agent_role` and `classify`
tell apart of it. The pid of a dead parent may come back, which is why `resolve`
compares births (`BornAfter`, exact here: `Slack = 0`; with the code's tolerance
a reused pid within it can be taken for the parent, and `AgentIsAncestor`
fails).

### `Threads`, `Endpoints`, `Conns`: what a process's record counts

`Threads` follows one process: threads leave `signal->live`, reach their
tracepoint and are released, in any order, the leader last; the accumulator may
be a dead process's, the map full, the event lost. A counter is the number of
times each thread is in it. `Endpoints` is a bounded kernel table of cumulative
counts, its announcements, the index, the tick, exit and sweep that read it, and
what a full table loses. `Conns` is the birth map, the block of counts on the
entry, its caps, and the late close. What it counts is folds, of which an accepted
connection has two (an accept and a close). Entries whose announcement was lost stay out
of the index until the sweep; a pid is not reused while its exit is held.

### `Reduction`: a window cut into hours, and the same window in one pass

The historical reducers are folds, with a seed from the hour before, a strip of
what the hour did not touch and a merge of a later state. `Reduction` chooses
records and cuts, feeds both ways and compares what is served. It extends, one
module to a file of the source: `Reducers` (the shared sketch, series, top lists),
`ProcIndex` (`procindex.py`), `Slurm`, `Costs` (resources, io, tools), `Risk`,
`Sandbox`, `Pending` and `Trajectories` and `SessionRows` (sessions, from log to
row), `Commands` and `Workspace` and `Blast` (paths of command lines, from tokens
to rows), `Cascades` (which agents started which). Each has one host; one sum
stands for all that are summed alike; numbers are small and rounding is left out.

* Sessions: schema 8 and one kind of key; the tools' chain stands for that of the
  purposes; names, previews, tag sets, wrote flags and helper starts are left out,
  as are `REAPED_MAX` and the ageing of the carry. A record without a time that
  begins an hour has drift 0. `Lost` is what a cap drops and counts.
* Commands: words are split and unquoted already; verbs that are read alike are
  one; parser errors, masking, examples and rounding are left out.
* Sandbox, Cascades, Risk: a pid is one user's; `install` is not modelled.

### `LiveTier`, `Roster`, `Health`, `Accounting`, `Asker`, `Lookups`, `SessionTree`: what is served beside the panels

`LiveTier` is fed forwards by the tail and newest first by the backfill, for one
host. `Roster` is one account's bins over time. `Health` is one host's runs, each
with a pid of its own. `Accounting` is `sacct.py` and the command line that runs
it: two concurrent reductions of one file would share a `.part`, which is excluded,
and `force` is never used. `Asker` runs each question on its own thread with an
agent that may read its prompt or not, close its standard input, fill its stderr,
and ignore its kill; one that leaves a daemon behind is excluded. `Lookups` is the
I/O lookups and the collector's host-name worker. `SessionTree` is the tree of one
session key (in the mode that draws the oldest, `drawn` is `itemised`).

### Composition

`CountsMC` and `ReportsMC` put parts that share no state into one machine, a part
chosen at the start; what they check of each part is independent of the others.
`Selections` holds what is left of a list when some members are picked, in order,
with the facts the proofs cite.

Abstractions shared by the modules: a record is a number or a small record;
timestamps are small integers; a `.gz` reads as the bytes it was made from;
file-system calls are atomic, a write as a prefix of its bytes.

## 3. Runs

States are distinct states. With two workers the passing runs take one to four
minutes each.

| Run | Bounds | States | Shows |
|---|---|---|---|
| `feed_tail` | 3 days, 2 records of 2 bytes, 1 kill, read cap 3, 2 days followed, history from record 2 | 45 000 | `NoneTwice`; `FeedOnce` is implemented (`AtMostOnce`); `EveryLineFed` under fairness |
| `registry` | 2 windows, 1 filter, 2 threads, room for 2 | 1.2 M | `NoneStranded` |
| `registry_live` | 2 windows, 2 threads, room for 1, hours on | 70 000 | `Answered`, `DriftHealed` |
| `seam` | 2 hosts, 3 records, stamps 1-2, buffer of 1 | 0.76 M | `CountedOnce`, `SavedIsWhole`, `NoneNewerLost` |
| `hours` | 2 hosts, 4 hours, 3 records, gap 1, days of 2 hours, 1 unreadable file | 2.2 M | `MergedOnce`, `ResumesThere`, `SeamsJoined` |
| `procs` | 1 pid, events stamped 1-4, 1 lost or slow, both timers | 0.26 M | `OneRecord`, `OwnArgv`, `LateLands`; `NoGhost` under fairness |
| `attribution` | 2 pids, 3 processes, 1 exec in all, 1 exit lost, 1 process from before the collector, a launcher that isolates itself or its child | 0.24 M | `AgentIsAncestor`, `MemoIsNearest`, `TickTells` |
| `counts` | a few records in up to three hours for each reducer; 3 addresses and a table of 2; 3 threads; 2 sockets | 0.3 M | ten properties, one for each part |
| `reports` | 2 jobs in 2 files, 2 questions and 1 slot, 2 lookups and 1 kept, 2 collectors, 4 records of a session, ... | 0.3 M | ten properties, one for each part, and `QuestionsEnd` under fairness |
| `seam_lag` | as `seam`, windows from 0 | counterexample | `SeamAccounted` |
| `attribution_chain` | as `attribution`, nothing lost, 2 processes from before | counterexample | `ChainsEnd` |
| `newest_runs` | 3 runs of a collector where 2 are kept | counterexample | `NewestHeld` |

The parts of `counts`: hours merged against one pass (`MergedIsOne`), quantiles
within a bucket (`RanksClose`), polls of the scheduler as loops (`PollsAreLoops`),
trees of agents (`TreesWhole`), risk rules (`RulesCounted`), what ran under a
process placed where it was (`PlacedByParent`), workspace rows (`RowsKeepAll`),
bytes by endpoint (`BytesConserved`), threads (`ThreadsCountedOnce`) and
connections (`FoldsConserved`). Of `reports`: a job's spending (`SpentOnce`), the
cached reduction (`ServedIsCurrent`), a command's paths (`PlacedWhereRun`), the
live tier fed from both ends (`BackfillIsOrder`), the roster (`RosterInWindow`), a
host's verdict (`VerdictIsTrue`), slots and marks (`AgentsInSlots`, `DoneLasts`),
lookups (`PolledIsHeld`), the session's tree (`AllCounted`).

Why the bounds are enough for the cases the properties are about. *FeedTail*:
two days are one rollover and one compression, and the third moves a day out of
the window the tail follows; two records give a line behind the hand-over and
one after or at it; records of two bytes have one place to be cut; a cap of 3
always cuts one; one kill is a torn line or a dead gzip. *WindowRegistry*: three
keys for two places force evictions, and a filter, a default and a prewarmed
window are all that `_evict` tells apart. *BuildSeam*: two hosts, one ahead of
the other or equal; a buffer of one overflows at the second record. *HourStore*:
four hours are two runs with a gap, a join, and a day on either side.
*ProcTable*: four stamps hold a process with an exec and its exit and the next
one on its pid, or three processes in turn. Pids share nothing but the queue,
whose order does not depend on them, so one pid stands for all. *Attribution*:
three processes are an agent, its child and a grandchild, or one that takes a
dead one's pid; one exec is of an agent, of its payload or of a launcher, whose
own image may also be from before (with an exec lost as well it was checked
once, in 0.33 M states). *Threads*: three are the leader, the writer and one in
between. The reducers: three hours have one with an hour on both sides; two of
everything that is capped at one or two overflows.

Deadlock is checked where the system runs for ever (`registry*`, `seam*`, `hours`).
The others say `CHECK_DEADLOCK FALSE`, since their bounds (days, records, clock)
may be used up with nothing left to do, or the collector stops.

### Fairness

* `FeedTail!FairSpec`: the collector's loop flushes each round; compress threads
  run; the ingest loop polls for ever (strong, since another thread may hold the
  lock each time it looks); a thread that holds the lock goes through its step;
  the backfill thread reads on. Nothing makes the collector write, restart or see
  midnight.
* `WindowRegistry!FairSpec`: a thread that left one lock goes on to the next; the
  worker runs, and each build ends or fails; each round of the refresh loop looks
  at every view that stays drifted (strong, because a view is looked at in turn).
  No reader need ever come.
* `ProcTable!FairSpec`: the main loop never blocks for good (its poll has a
  timeout and every handler is caught), and time passes. Nothing makes a process
  exit, or a lost event be reported.
* `AskerFairness`: the question's thread and its timer run. Nothing makes the agent
  read, answer or exit: the timer and the kill that follows end it.

## 4. What is proved

Each theorem holds for every value of the constants, from the named assumption of
the module alone. The assumptions say that bounds are naturals (positive where a
bound of none would make the thing vanish), that sets of hosts or questions are
finite, and that the sentinels (`None`, `NotRead`, `Boot`, `Hours`) are no member
of what they are sentinels in.

### Day-files and tail (`FeedTail_proofs`)

`TypeCorrect`; `NoLineTwice`: no line reaches the live tier twice; `FeedsOnce`:
`FeedTail` implements `FeedOnce`, every step either makes lines durable, or hands
over durable lines not handed over before, or changes neither.

`NoneTwice` is not inductive: whether a poll repeats a line depends on the offset
it starts from, that on which inode a name stood for when the offset was taken,
and that on what the compressor may do to which day. The invariant `IInv` has a
part for each. `DayInv`: only days before today, and not the open one, are ever
compressed. `NameInv`: a day is one inode, under whichever names, and no two days
share one. `FileInv`: the disk never holds more than was written, and an unused
inode is empty. `OffsetInv`: an offset belongs to its day's inode and is within
it; only a finished `.gz` is ever listed. `PlanInv`: a planned range lies behind
the point the tail took the day up at, and nothing in it was handed over. `FedInv`:
all that was handed over of a followed day is behind that point. There is one lemma
per action, and under it one step per part the action disturbs; two frame lemmas
dispose of the parts an action of the other side leaves alone. Line growth
(`CollectorGrows`, `DurableGrows`) then gives the refinement. The invariant needs
the clock not to step back (`Spec`, not `SpecBack`), where a day's name may return
as another inode.

### Window registry (`WindowRegistry_proofs`)

`RegistryTypes`; `NoKeyTwice`; `NoViewStranded`: a view said to be queued is in the
queue, or with a thread about to queue it, or in the worker's hands;
`DefaultNotPushedOut`: the default window leaves only in a step that adds another
unfiltered view.

`NoneStranded` alone says nothing of a view the worker *owns* that was evicted and
made anew meanwhile, nor of the startup thread. `OwnedIsHeld` says that a view the
worker found as the one held is still held while it is found or built (eviction
clears `own`), and `BootOK` that nothing happens before the startup thread asked
for the default window, after which it only prewarms others. The lemmas about the
LRU (`VictimsAre`: eviction takes views that are held, never the one asked for, and
never the default for a filter) rest on `Selections`.

### Build seam (`BuildSeam_proofs`)

`SeamTypes`; `NoRecordTwice` (`CountedOnce`); `SavedWhole` (`SavedIsWhole`);
`NoneNewerGone` (`NoneNewerLost`); `ScanInOrder` (`ScanAscends`).

The invariant is `Sorted /\ Whole /\ Counted /\ Kept /\ Ascends`. `Sorted`: each
host's file is in the order of its stamps, on which all else rests. `Whole`: what a
build was fed is exactly what its files hold of the window up to where it is in
them, less the heads the merge holds; so that a build that ends, is saved, or is
resumed is whole, and resuming repeats nothing. `Counted`: a record in the reducers
was scanned, and is no newer than `through`, or was handed over by the tail, and
lies behind the tail's offset: the tail will not hand it over again, and `Feed`
refuses those the scan took. `Kept`: what was handed over during a build is in the
buffer, was counted as dropped, is too old, or lies in a file where the build will
still come by or has come by. `Ascends`: what is merged is no newer than any head
the merge holds. The interesting step is the swap: the replay skips what is no newer
than the scan's newest record, and `Kept` and `Ascends` together say that each such
record was one the scan took, or lies in the seam `NoneNewerLost` excepts.

### Hour store (`HourStore_proofs`)

`HourTypesOK`; `NoneMergedTwice` (`MergedOnce`); `BuildResumes` (`ResumesThere`);
`NoSeamLeft` (`SeamsJoined`).

`Holds` says of every saved hour, and of what was read for the next, that it is of
that hour only, and `patched` names what was taken a second time. `SeamInv` is about
the order of the saves: a chain is saved before its hour, and dropped only when the
next hour has been; an hour saved unseeded beside a saved hour can still be seeded,
since the one before has its chain; the plan of a pass (`Plan`) has runs that lie
apart, within what was asked for, each beginning where the request does or after a
saved hour with a chain, and covers every hour not yet saved or not yet joined. The
parts that a file found unreadable breaks are under `rotted = 0`, as the code's own
promise is. `SeamsJoined` is then what the plan says when nothing is left of it.

### Process table (`ProcTable_proofs`)

`TableTypes`; `AppliedInOrder` (`InOrder`); `RecordedOnce` (`OneRecord`);
`NoExitLost` (`ExitsKept`); `NoneRevived` (`NotRevived`); `OwnArgvKept` (`OwnArgv`).

`OneRecord` is a matter of what can still happen to a process whose exit was handled:
a second exit of it, from another of its threads, must find an entry that tells it
ended, and no resync may seed it anew, as long as one may come. `Once` says so
(`Over`, `Silent`), and that no two staged or written exits are of one process; it
rests on three parts. `KernelOrder` is what the kernel gives: the processes of a pid
follow each other, each makes its events in order, and after its exit come only
closes and other threads' exits, within `Teardown`. `Table`: an entry that has ended
is of a process whose exit was handled (`Done`), and is pending exactly while its own
exit is staged. `Order`: while no event is slow, the loop is past all it polled for
(the cut of `due`), so what it applies is in order, and an entry whose hold is over
is of a process torn down since, because `Hold >= RoundLen + Teardown`. That
assumption is the code's "two poll rounds is generous" (`EXIT_HOLD_MS` is 250,
`POLL_MS` is 100), and its bet that the other threads and sockets of an exiting
process end within what is left; without it an entry may be dropped before the last
thread's exit, which is then a second record.

The kernel's five actions are one shape (`KStep`), and what an event does to the
table is one of three (`Alters`, `Begins`, `Ends`: it fills in an entry, makes one,
ends one), each with its lemma. `AppliedInOrder` and `RecordedOnce` speak of a
collector no event of which is slow (`slow = {}`), as the properties do; `ExitsKept`,
`NotRevived` and the types hold without that.

`OwnArgv` needs, besides, what became of the exec that an argv goes with. It speaks of a
collector that was not stopped, none of whose events was slow, and at most one lost
(`Keeping`). The invariant then says: an entry's marks are of what has been applied, and a
fork is yet to be (`Marked`); what is still to come of a pid whose entry has not ended and
has an argv is of the process of that argv, or of one born since (`LentAll`); an argv to
come finds its exec waiting, or the exec's mark in the entry, or the exec is the event that
was lost and the exit is to come (`ArgvWaits`); and the entry of a staged exit, and a record
written of one, have the argv of their own process or none (`StagedOwn`, `WrittenOwn`).

### What a record counts (`Counts_proofs`)

`ThreadsOnce` (`ThreadsCountedOnce`); `ConnsConserved` (`FoldsConserved`); `BytesKept`
(`BytesConserved`); `SeriesWhole` and `NoneUnannounced`, which state `SeriesSums` and
`Indexed` of `Endpoints`.

The invariant of `ThreadsOnce` has one part for each place a
thread can be counted in. `AccOnce`: the accumulator holds a thread in its base (it
had been released when the accumulator was made) or in its sum (it added itself), not
in both, and no thread that wrote or found the map full. `AccWhole`: until the record
is made, whoever need not be left out is in it, or in `signal_struct`. `EventSound`:
an event counts its own thread and those released at its time; if it saw an
accumulator that one is still there and was made before its thread was released
(`_thread_acc_sweep` takes none while an event is to come or staged), and if it saw
none, one made since holds exactly those not released then. What `_exit_totals` adds
up is then each once (`TotalsOnce`), by cases on what the event saw.

`FoldsConserved` and `BytesConserved` are sums over sets, and each step moves a part of
a sum from one place to another. `ConnInv` adds to the equation that a connection that
is opening or open, and an event in the queue, are of a process not yet recorded, that
the birth map holds only sockets that were begun (`ConnsLive`), and that each block adds
up, the accepted among the established (`Adds`). `EndInv` adds what makes a read of the
kernel's table take a process's entries once: what was read of a live or held process is
in the index and still in the table, and of an unknown one nothing was read (`Noted`); a
process whose exit is recorded is done with, and one that still runs is unknown or live
(`Released`). Reads (`Reads`) and releases (`Lets`) are the two ways the sum's parts
move; every action is a read, then a release. `SeriesInv` adds that what a process was
told to have sent only rises (`Rises`), that whatever is in the table is announced
(`Covered`), that the netio records written of a process sum to its last totals
(`Summed`), and that nothing follows the last record (`Over`).

`ThreadsSpec`, `ConnSpec` and `EndpointSpec` are the components alone; the run `counts`
composes them with parts that leave their variables unchanged.

### Services (`Services_proofs`)

`AgentsStayInSlots`: an agent runs only in its question's slot, or with its standard
input closed by itself, and no more than `Slots` do. The invariant adds that no
agent exists before its question is launched, and that its standard error is read
only once it is gone. `MarksLast`: what the page was told is marked is marked, in
memory and in the file, whichever save failed and whenever the service restarts.
`PolledStays`: a lookup that is still read is held whatever the trim takes, and is
the only one that reads for its question; the invariant adds that one at the gate
has not settled. `NothingStaleServed` (`ServedIsCurrent`): `ReduceInv` says that what a
call has read, what is cached under a fingerprint, and what was answered are each no
older than that fingerprint, which was taken before anything was read, and that a call's
list of versions grows with the files it is through.

`RosterWhole` (`RosterInWindow`): `RosterInv` says that each record taken is counted in
one of the two tiers, or is out of retention; that those of the hourly tier are older
than the fine tier reaches; and of a cached sum made in the fine bin the last roll ran
in, that it is of the closed bins of its signature, all of them if the version is the
same, and otherwise all but what came late after it was built. A sum of an earlier bin
says nothing, and is not used: its signature differs. The theorem needs a fine bin to be
no longer than the fine tier reaches (`FineS <= FineSpan`, 600 and 86400 s); where it is
longer a record of the open bin goes to the hourly tier, which the cached sum leaves
out, and TLC finds `RosterInWindow` violated.

`AskerSpec`, `LookupSpec`, `ReduceSpec` and `RosterSpec` are the components alone; the
run `reports` composes them with parts that leave their variables unchanged.

### Lemmas on lists and sums (`Selections`)

`Only(s, S)`, the list comprehension, as a recursive function: its members, its
order, that it keeps injectivity, and that it is `SelectSeq`; with the same facts
for appending and concatenating that the registry, the seam and the marks cite. And the
community modules' sum over a finite set: that any member can be taken from it, that it
is split by any part, and what changing one number does to it. These hold by induction
over the subsets of the set (`SetsUp`), without an operator as a parameter.

### Only model-checked

* Liveness (`EveryLineFed`, `Answered`, `DriftHealed`, `NoGhost`, `QuestionsEnd`):
  temporal reasoning under fairness and ENABLED are beyond the prover.
* `LateLands` of `ProcTable`: its invariant must also follow which event of which
  process was late. With one fault it was checked with six stamps as well, where the
  second process has time to be recorded.
* `Attribution` (`AgentIsAncestor`, `MemoIsNearest`, `TickTells`): the walk up the
  parents is a recursive operator, which the prover does not take.
* The reducers and what is served (`counts` and `reports`, but for the eight properties
  proved above): folds and walks over data, written with recursive operators; what they
  compute for every input is induction over data, which the provers cannot instantiate.

Every invariant was model-checked before it was proved: `IInv` of `BuildSeam` with
the bounds of `seam`, that of `HourStore` with those of `hours` and with one host, six
hours and a gap of two; that of `ProcTable` with those of `procs`, with two faults, and with
two pids; those of `Counts_proofs` and of `Roster` with the constants of `counts` and of
`reports`.

## 5. Where the code and what it says of itself disagree

Shown by a run that expects the violation:

* `SeamAccounted` (`seam_lag`): a record of a lagging host that lands in the seam,
  and is no newer than another host's last scanned one, is neither scanned, replayed
  nor counted.
* `ChainsEnd` (`attribution_chain`): `resolve` walks a chain of parents with no
  guard; a process from before the collector whose dead parent's pid was given to
  its own child makes a cycle.
* `NewestHeld` (`newest_runs`): past `MAX_RUNS`, `health.py` drops the newest run
  instead of the oldest.

Stated at the end of each module, and violated when added to its configuration as an
invariant or a property (their runs are not kept, so that each run stays a question
of its own):

* `FeedTail`: `ReadBackOpens` (the read-back looks whether the plain file is there,
  then opens it; a gzip that finishes in between costs the whole range);
  `SweepTakesEverySealedDay` (a partial `.gz` keeps its day from ever being
  compressed); `FlushedIsReadable` (the first record after a kill mid-line is glued
  to the fragment); `PlainIsComplete` (with the clock set back, under `SpecBack`).
* `WindowRegistry`: `BuiltWithinCap` (the cap is exceeded until the next new
  window); `OpenedOutlivesPrewarmed` (a prewarmed view in flight outlives an opened
  one); `BuildIsHeld` (a view may be evicted between look-up and marking).
* `BuildSeam`: `FailureAccounted` (a failed rebuild drops its buffer uncounted);
  `ScanCoversBackfill` (the default window's build may start before the tail is
  positioned).
* `HourStore`: `StraysAreMerged` (late records found by a run that stops after
  saving its hour, before merging them, are never found again); `ReducedOnce`;
  `NoneSkipped` (a host's new file is read from the hour on).
* `ProcTable`: `RetiredIsLost` (a resync and a residency tick in the same round are
  two misses at once).
* `Threads`: `OneThreadWrites` (two threads may both find themselves last; the
  second event is dropped and counted as late).
* `LiveTier`: `ExitRemoves` (under `LiveSpec`: a root's exit older than what is held
  of it is ignored, so the root stays).
* `Attribution`: `IsolationTold` (the tick is said to catch "a process that isolates
  itself later", but reads again only a verdict that is inherited, denied or missing.
  A launcher such as `unshare`, which no rule tags, is read at its own exec, before it
  isolates itself; the payload it runs in its own place stays "unsandboxed" for good.
  Found with `MCTagless`, `Isolating = {"unshare"}`, 2 processes and 2 execs. It is
  the one exception to `TickTells`, `ReadTooSoon`).
* `Conns`: `FoldedOnce` (under `ConnSpec`: where a tcp block and the accept block are
  loaded, an accepted connection is folded at its accept and again at its close, and
  counts twice in `n`, `accepted`, `established` and its peer's `n`; so
  `FoldsConserved` is about folds, not connections).
* `Asker`: `SilentIsKilled`. `ProcIndex`: `EvictionsCounted` (`merge` does not add
  what the later hour evicted).

Met while modelling, and left as the code has it:

* A marked suggestion whose save failed is acknowledged when it is marked again. An
  agent that closes its standard input makes its question an error while it runs on.
* A user's aggregate takes the user of the hour's first record; homes are read only
  when a command line is not cached; an aged workspace key goes uncounted; a `cd`
  within `git -C`, `sbatch --wrap` or a subshell leaks into the line.
* In the live tier, a root's record older than the one held never corrects its
  parent or version; a host whose clock is ahead moves the newest exit for all.
* `Reducers`: `_break_cycles` cuts below a loop. `Attribution`: an entry seeded at
  start, or whose fork was lost, has no birth; `_ROLE_INFRA_SUB` lacks two of the
  names the classifier knows; the tree's root is walked to with no guard on births;
  `on_exit`'s `proc_add` sets the parent without dropping the memo.
* `ProcTable`: with a fork, an exec and the exit of one process lost, so that only
  its argv arrives, the next process on the pid is lent that argv (`OwnArgv` is
  about one loss).

## 6. Not modelled, and why

See `components` in `PROJECT.json`. In short: rules about text (redaction, phase
naming, anonymizing, parsing of Slurm and command lines), which no interleaving
changes; the node tier (`NodeReducer`, `node_snapshot.py`), a sequential sampler and
its fold; feeds and configuration, plain values; rendering and packaging. Of what is
modelled in part: the identity checks of saved snapshots; the gzip seek index;
assembling a window from saved hours; the scan lock and cache of process trees;
submit capture. The web client's transport is planned.

## 7. Plan

Done: every module above, and the proofs of section 4.

Next, the most important first:

1. Proofs: `LateLands` of `ProcTable`. With nothing lost the invariant has to say
   that an exit comes after all its process did before it, that the argv of the image it
   ends with is waiting or in its entry, and that one written or set aside is behind all
   that came of its process; TLC agrees. Then `SpentOnce` of `Accounting`, whose folds
   over lists are to be split by job as the sums are by process; `AgentIsAncestor` with
   the walk as a function.
2. `UseLive` and the server's WebSocket loop: windows, frames, retries, polling.
3. Assembling a window from saved hours; `SnapshotStore`; the gzip index.
