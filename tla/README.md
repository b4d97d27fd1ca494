# mm-mem: specification, model checking and proofs

mm-mem is a memory micro-benchmark for Linux: C++ programs that measure idle
latency, peak bandwidth, memcpy bandwidth and loaded latency with pinned worker
threads, and Python scripts that prepare a host, run the programs as a suite and
put the host back. This directory holds a TLA+ model of its core, the
configurations TLC checks it with, and proofs for TLAPS. `PROJECT.json` maps every
definition that models code to the lines it stands for.

    tlc -config MCSuiteRunner.cfg MCSuiteRunner      # any run of the table below
    tlapm SuiteRunnerProofs.tla                      # any *Proofs module

## 1. Inventory

| Part | State | Operations | What is hard | What makes it correct |
|---|---|---|---|---|
| Reversible kernel settings, `scripts/host_config.py` | `original` (first value of each path changed), `prefix` | `write`, `set`, `restore` | reads and writes fail, the kernel applies a write in part, a signal abandons a call between any two statements | a changed path always has its first value on record; `restore` tries every path and names those it could not put back |
| Suite runner, `scripts/run_cpu_micro.py`, with `setup_huge_pages` and `setup_autonuma` | arguments, two settings objects, `failed`, the exception in flight, signal handlers, exit status | validate, change settings, undo a failed change, run benchmarks, restore, report | nested `try`/`except`/`finally`, SIGINT and SIGTERM as exceptions at any statement, expiring sudo | the host is put back or what is left is named; success means clean; no benchmark sees a half-made configuration; the runner ends |
| Worker threads, `common/worker_thread_manager.h` | `workers_`, `created_`, `start_routines_`, packets | `create`, `join` with a watchdog, the routines | packets are shared without locks, thread creation and allocation fail, workers hang, one deadline for all joins | no packet is used by two threads at once; results are of their phase; a thread is given up only after the whole timeout |
| Memory region, `common/mem_region.cc` | page and line geometry, the pointers in the region | constructor, `stride_init`, `page_random_init`, `all_random_init` | boundaries: last page, last line, page larger than the region, line that does not divide the page; `rand()` shared by all workers | the pointers are one cycle through all active lines, page by page where promised |
| NUMA configuration and matrix drivers, `common/numa_config.cc`, `cpu_idle_latency.cc`, `cpu_peak_bandwidth.cc` | nodes, allowed cpus, row, column, binding, cells | discovery, binding of workers, allocation policy, the loops over rows and columns | nodes without cpus or memory, affinity masks, `MemType` arithmetic, warm-up recognised by a previous result of 0 | workers are pinned to distinct usable cpus of the row's node; a cell is measured on the memory it is printed for; no pair is lost but one whose warm-up was truncated to 0 |
| Measuring loops, `worker_latency.h`, `worker_bandwidth.h`, `worker_memcpy.h`, `worker_branch_throughput.h`, with `common/timing.h` | loop index, work done, next checkpoint, timer | kernel call, checkpoint, next pass | the check falls on the last call of a pass, regions smaller than a call, calls of any duration | the reported time covers exactly the reported work; the loop ends at the first checkpoint past its target |
| Loaded latency, `cpu_loaded_latency.cc` with the kernels | list of kernels, previous bandwidth and latency | `get_kernels_with_delays`, `build_delays_and_kernels`, the measuring loop | durations depend on the previous, truncated result; nearest-delay search; fraction of writes by hand | the nearest kernel is measured; every row once and at full length; accounted bytes are those the kernel touches |
| Memcpy driver, `cpu_memcpy.cc` | packets | fragment check, setup, measurement | 64-bit products of sizes, otherwise as worker threads | the fragment fits the region |
| Branch throughput, `cpu_branch_throughput.cc`, with `worker_branch_throughput.h` and `common/cycle_counter.h` | packets, the maxima, whether a warning was printed | check of the arguments, one case after the other, report | packets are reused from case to case; the counter fails in any of five ways, per worker and case; the duration is split among cases | a row holds the numbers of its worker and case; `n/a` exactly where nothing was counted; the budget is spent |
| Command line and configuration, `common/command_line.h`, `lib_configuration.cc` | options seen, members of the configuration | `value`, `flag`, `parse`, the corrections after it | a value may be the next argument, which may look like an option; narrow integer types | the configuration is what was written, or the line is refused |
| Standalone helpers, `config_huge_page.py`, `config_sysfs_settings.py` | a settings object | set up, clear, enable, disable | a failing step or a Ctrl-C half way, SIGTERM | all done, or put back or named |
| Statistics collectors, `scripts/measure_stats.py` | child processes | start, wait, terminate | one fails or the user interrupts while others run | no collector outlives the script, no failure is forgotten |
| Size formatting, named timers, host report, installers | - | parsing, printing, packaging | - | unit-tested text processing |

**How the parts interact.** The runner calls `KernelSettings` in-process and runs
each C++ program as a child process, one at a time. A program builds a
`NumaConfig`, gives cpus to a `WorkerThreadManager`, and drives it in phases: the
workers allocate their `MemRegion`, warm up, and measure in a timed loop. Main
thread and workers share only the packets; `create` and `join` are the only
synchronisation. `cpu_loaded_latency` runs the latency and the bandwidth routine
in the same phase and feeds a result into the parameters of the next phase.

The hazards of each part, at the line where they bite, and the property that
would catch each are listed in `PROJECT.json`.

## 2. Modules

| Module | Models | State and actions |
|---|---|---|
| `KernelSettings` | class `KernelSettings` and the kernel behind it | path 0 is `numa_balancing`, path *i* the huge-page pool of node *i*. `original` is the dictionary of both objects (each owns a range of paths; insertion order is ascending). `pc` runs through the statements of `set` and `restore` that touch the host: read, record, write, readback. `KernelApplies` lets a pool stop anywhere between its old and its requested size. The constants both clients share (`Eligible`, `Want`, `MaxSignals`) are declared here. |
| `SuiteRunner` (extends `KernelSettings`) | `main()`, `run_tests()`, `setup_huge_pages()`, `setup_autonuma()`, the signal handlers, the exit code | `stage` is the place in `main()`, `pending` the exception leaving the `try`, `plan` the benchmark commands to go. A call on settings starts with `CallSet` or `CallRestore`, and a `...Done` action of the runner takes its outcome. `Interrupt` is a signal at any place, including inside a call; `handler` says whether it raises. |
| `WorkerThreads` | `WorkerThreadManager` with a driver and its workers | `mpc`, `idx`: the main thread's place and loop variable; per thread `created`, `routine`, `worker` and the packet's `input`, `output`, `region`, as the phase they belong to. `Hang` and `AllocationFails` are the failures of a worker, `Tick` advances `age` (time a routine has run) and `left` (time to the deadline). |
| `MemRegion` | the three list initialisations | one step per iteration of the Fisher-Yates loop, `rand()` any index; then the move of offset 0 to the front; `Link` writes the pointers of the pattern. |
| `NumaMatrix` | topology, binding, allocation policy, the matrix loops of both drivers | `row`, `col`: the loops; `pins`: the cpu of each worker; `placed`: nodes the memory comes from; `last`: the previous result, by which the driver tells the warm-up from the measurement; `slow` (history): the pairs whose warm-up was truncated to 0; `table`: the printed cells. |
| `TimedLoop` | the loop the four routines share, with `Timer` | `Kernel` (one call, any duration of `Costs`), `NoCheckpoint`, `Checkpoint` (`endTimer`, the test, `resumeTimer`), `NextPass`. |
| `LoadedLatency` | kernel lists and selection, feedback between data points, the accesses of a kernel | `SelectStep`/`SelectDone`: the nearest-delay search and the copy of the first kernel to the front; `Prepare`/`Measure`: durations, the phase and its truncated results. |
| `StatsCollectors` | `main()` of `measure_stats.py` | `pc`, `idx`: the place in `main()` and its loops; `processes`: the length of the list of children; `child`, `reaped`: what each child does and whether it was waited for. `Popen` and `Track` (the `append`) are two steps because a Ctrl-C can come between; `Leave` is a `return` or an exception on its way to the `finally` block. |
| `HostTransaction` | what the runner promises, abstractly | `phase` (changing, a window, restoring, over), `dirty`: the settings that differ, `named`: those reported. |
| `PhaseBarrier` | what `create` and `join` promise, abstractly | `phase`, the workers `busy` and `done` in it, `outcome`. |
| `Configuration` | the command line and what becomes of it | `argv`, `i`, `seen`: `parse()` and its loop; `config`: the members under the names of their options. `ParseArgument` is an iteration of the loop with every way it can throw, `ParseOptionsEnd` the rest of `parse_options`. |
| `BenchmarkMain` (extends `Configuration`) | the five `main` functions up to their measurement, and the whole branch sweep | `PrepareCase` fills the packets, `StartWorker`, `Batch` and `Stop` are a worker's `branch_tp` with the cycle counter's outcome, `Report` prints the rows of a case and updates the maxima. |
| `StandaloneHelpers` (extends `KernelSettings`) | the two helper scripts run by hand | `action`: the option given; `place` and `path`: where `main` and its loop are; `writes`: the one-shot writes to go. `OneShots`, `NextSetting`, `SetDone`, `UndoDone`, `After`: the statements of `main` and of the function it calls; `KeyboardInterrupt` and `Terminate`: signals at any place. The specification is `HSpec`. |

Two refinements connect detailed and abstract modules:

* `SuiteRunner` implements `HostTransaction` (`KeepsTransaction`): `phase` is the part of `main()` that `stage` is in
  (`TransactionPhase`; the window is between the end of the `try` block and the `try` that restores, where a signal can
  still abandon the run, see finding 1), `dirty` the paths whose value is not the first one, `named` what was warned about.
* `WorkerThreads` implements `PhaseBarrier` (`KeepsBarrier`): a worker is `busy` from `pthread_create` until its routine
  ends, `done` when its packet holds an output of this phase. A stuck, uncreated or failed worker maps to `Fail`.

`MC*` modules give the constants their values. `*Proofs` modules hold the
theorems of the module they are named after; `SuiteRunnerProofs` those of both clients of
`KernelSettings`, the runner and the standalone helpers, and `BenchmarkMainProofs` also those of `Configuration`. A definition whose comment begins
with *Mutant* is a plausible mistake in the definition that follows it; no
specification uses it, it shows that a property would notice the mistake.

**Abstractions.** Values of settings are small numbers; sizes in bytes are units;
what a benchmark prints is the order and identity of the cells. A `subprocess`
call is one step with every outcome the code distinguishes. In `WorkerThreads` the
content of a packet is the phase it was written in, which is what tells a fresh
value from a stale one. In `NumaMatrix` cpus are single hardware threads: sibling
threads count as cpus of their own. In `Configuration` an argument is a token: how it begins, which name it asks for, what is
attached to it, and what it reads as when it is the value of the option before it. Where the code uses a value it does not
compute (a clock, `rand()`, free memory, the outcome of a write) the model takes any.

## 3. Runs

Every run of a passing configuration is an exhaustive search.

| Run | Instance | Shows |
|---|---|---|
| `MCSuiteRunner` | 3 pools of which nodes 1 and 3 are eligible, values 0..2, 6 command lines, up to 2 signals; about 566,000 states | `ChangesAreRecorded`, `UnrestoredIsReported`, `SuccessMeansClean`, `BenchmarksSeeWholeConfiguration`, `RestorationIsNotInterrupted`, `RunnerEnds`, and the refinement `KeepsTransaction`. |
| `SuiteRunnerWindow` (violated) | 1 pool, 1 signal | `RestoresOrReports`: see finding 1. |
| `MCWorkerThreads` | 3 threads, 3 phases (allocation, warm-up, measurement), watchdog off or 3 time units; about 61,000 states | `NoPacketRace`, `ResultsAreFresh`, `JoinsValidHandle`, `RegionBeforeUse`, `StuckHadTheTimeout`, `WatchdogEnds`, and the refinement `KeepsBarrier`. |
| `MCMemRegion` | 3 patterns, active sizes 4, 6, 7, 8, pages 3, 4, 9, lines 1, 2; every shuffle; about 250,000 states | `ShufflePermutes`, `SingleCycle`, `PageByPage`. |
| `MCNumaMatrix` | all distributions of 3 cpus over 3 nodes, all affinity masks, all sets of nodes with enough memory, 1 or 3 threads, results above and below one printed unit; about 325,000 states | `PinnedWhereAllowed`, `WorkersHaveOwnCpu`, `CellMeasuresItsNode`, `MatrixIsComplete`. |
| `NumaMatrixGap` (violated) | three nodes, the second without memory | finding 2. |
| `MCTimedLoop` | regions of 1, 2 and 3 calls (2, 5, 6 units; the second leaves a remainder), checkpoints 0, 2, 3, 7, targets 0, 1, 6, calls of 1 or 3; about 1,000 states | `TimeCoversWork`, `EndsAtTarget`, `CheckpointsKeepUp`, `LoopEnds`. |
| `MCLoadedLatency` | the 4 documented mixes, 13 delays (the sweep, listed delays, between two, beyond the last), bandwidth above and below 1 GB/s; about 2,300 states | `NearestKernelIsFound`, `RowsFollowTheList`, `TrafficIsAccounted`, `LatencyRunsTheTarget`. |
| `LoadedLatencySlow` (violated) | the same | finding 3. |
| `StatsCollectors` | up to 3 selected processes and `mpstat`, up to 2 Ctrl-C; about 17,500 states | `NoneOutlives`, `StatusTellsOutcome`, `CleanupEnds`. |
| `MCBenchmarkMain` | the five benchmarks; all lines of up to 2 of about 30 arguments and of 3 of about 10; sweeps of 2 cases, up to 2 workers, batches of two lengths, target durations of 1, 2, 3 and 8 time units; about 1,440,000 states | `ParsedAsWritten`, `HugePageRegionIsOnePage`, `SweepReport`, `SweepLastsTarget`. |
| `StandaloneHelpers` | 3 pools of which nodes 1 and 3 are eligible, values 0..2, four actions, up to 2 signals; about 180,000 states | `AllOrNothing`. |

**Why the bounds are enough.** Settings: three pools let a failure hit the first, a
middle and the last path of a restoration, with a node that is skipped in between;
three values are needed for a pool that is raised in part or was large enough
already. Two signals are one to end the benchmarks and one more for the restoration;
SIGINT and SIGTERM are distinct because the handlers are replaced one after the
other. Threads: three make a first, a middle and a last in the loops of `create` and
`join`, and three phases are every kind of phase there is plus a repetition; the
watchdog's three units exceed the warm-up (two) and not the measurement (four), so it
fires for hanging and for healthy workers and is also met in time. Regions: the sizes cover
one page and several, a remainder behind the last page, a page larger than the
region (replaced by the fallback) and a line that does not divide the page. Loop:
every order of "last call of the pass", "checkpoint due" and "target reached"
occurs. Collectors: a first, a middle and a last counter before `mpstat`; a second
Ctrl-C is the one that meets the `finally` block. Arguments: two are an option and its value, a repetition, or an option after
`--`; three add an option after a value that looks like one. `U32` and `U64` are scaled to 2^30 and 1.5 * 2^30, so that
products with 1024 wrap inside TLC's integers and the default sizes stay below the limits; the sizes next to the limits are
among the values. Branch sweep: two of the
twelve cases suffice for "the case before", and two workers for "another worker's maximum"; `MaxThreads` ends the model, not
the program, for larger `-n`. `MaxSignals`, `MaxThreads`, `MaxPids`, `MaxValue`, `NumPhases` and the sets of inputs are the only
bounds; counters inside the code are bounded by its own loops.

`CHECK_DEADLOCK FALSE` is set where the program ends: the other modules simply have
no step then. `SuiteRunner` has an explicit `Terminated` step and is checked for
deadlock.

**Fairness.** `SuiteRunner`: weak fairness of the runner's own steps, because Python
executes them one after the other, `subprocess.run` waits for short commands, and a
benchmark ends by its own watchdog. Signals are not fair: none need arrive.
`WorkerThreads`: the main thread runs, time passes, and a running worker ends or
hangs; no worker is assumed to end. `Tick` (time) and `Hang` (a thread the kernel never runs) are steps of the environment. `TimedLoop`: the worker's thread is scheduled.
`StatsCollectors`: `main()` runs and a killed child dies; a collector need not end by
itself, which is why `CleanupEnds` depends on the `kill` after two seconds.
The other modules have safety properties only.

## 4. Proofs

Checked by tlapm for all values of the constants, from the named `ASSUME`s of the
modules: numbers are naturals, sets of inputs have the right types, `LoopWork` and
the cost of a call are positive. Three say more than a type. `InvocationsAssumption`: a command line is a
finite sequence of the argument tokens. `SweepAssumption`: among the durations of a batch there is a longest, without which
`SweepLastsTarget` would name no bound. `SwitchAssumption`: 0 and 1 are values of `numa_balancing`, since "disable" and "enable"
write them. Every invariant and every action property of the passing runs is the conclusion of a theorem.

* `SuiteRunnerProofs`: `TypeCorrect` and `ChangesRecorded`. `ChangesAreRecorded` alone is
  not inductive: between the read of the previous value and the write the local
  `previous` must be the current value (`PreviousIsCurrent`), the first value must be on
  record before a write (`RecordedBeforeWrite`), and a call must work on a path that
  exists (`WorksOnPath`). Together these are `KInv`; `SetStep` and `RestoreStep` show that
  every step of a call keeps it, whether a failure or not, `CallStep` that starting,
  ending or abandoning one does, and `RunnerCalls` that the runner does nothing else to
  the settings, signals included. `TypeCorrect` needs in addition that
  `setup_huge_pages` is at an existing node while it waits for a call (`SetsOnNode`).
* `SuiteRunnerProofs`, the restoration: `UnrestoredReported`, `SuccessIsClean`
  and `RestorationCompletes`, from `EndInv`. None of the three is inductive: what
  is true at the exit was established several stages before. `Progress` says, for each
  stage of the final restoration, which paths are settled (as they were, or named in a warning),
  and inside a call (`Restoring`) that every path the descending loop has passed is put back or in
  `errors`; `Ignoring` that both signals are ignored while this goes on; `Unprivileged` that a
  dry run, in which signals are not ignored, has changed nothing; `IdleOutside` that no call is
  abandoned half-way without `EndCall`; `Outcome` which facts the exit status is computed from.
  `RestoringStep` is the lemma about one step of `restore`; `CallEnd`, `BodyEnd`, `FinallyEnd` and
  `SignalEnd` are the four kinds of step.
  `TransactionKept`, the refinement, needs the invariants
  above and no other; `Unrestored` can only shrink while `restore` runs because a write there aims at the
  recorded first value, and `End` of the transaction is enabled because of `Progress`.
* `SuiteRunnerProofs`, the configuration: `BenchmarksAreConfigured`, from `ConfInv`, which
  describes the configuration at each stage up to the benchmarks: pools below the node at
  hand have their goal, the others are untouched (`PoolsUpTo`), and a call of `set` that
  returns without an exception has reached its value (`Setting`). That an undone provisioning
  leaves the pools as they were comes from `Restoring` again.
* `SuiteRunnerProofs`, the helpers: `HelperAllOrNothing`, from `HelperInv`. What the property says of the end
  is followed from the beginning: `Asked` is the value an action wants at a path, `DoneUpTo` says that the paths the
  loop has passed have it and that the others are as they were, and inside a call `Setting` and `Restoring`, with the lemmas
  about one step of `set` and `restore`, are those of the runner. The switch of NUMA balancing is not undone by its
  helper, so `Restoring` is about the pools and a failed switch is not promised anything.
* `StatsCollectorsProofs`: `CollectorsEnd`, `StatusIsRight` and `TypeCorrect` from `Inv`: which
  children exist (`Launched`: those on the list and the one between `Popen` and `append`),
  which have been waited for at each place (`Waited`), and what `failed` and `result` stand for
  (`Remembered`).
* `WorkerThreadsProofs`: `NoRace`, `FreshResults`, `ValidHandles`, `RegionsAllocated` follow
  from one invariant `Inv`: which workers may be alive at each place of the main thread
  (`CreateInv` for those below and above the loop index, `JoinInv` for those already
  joined or counted as stuck, `DoneInv` for what an ended worker has left in its packet).
  `GivesTheTimeout` is `StuckHadTheTimeout` for all durations and timeouts: each thread that is given up had the
  whole timeout, also those that `join` came to after the deadline had passed. Its last part,
  `StuckHasACause`, is the lemma `NoFalseAlarm`. Both come from `WatchInv`, which relates the age of a running worker to the
  time left until the deadline and says of every thread passed that it was joined or is overdue. That a routine is shorter
  than the timeout is nothing the code establishes: with the default of 300 s and `-t 300` it is not, and healthy workers
  are reported (section 5). `BarrierKept`, the
  refinement of `PhaseBarrier`, maps each step under `Inv`: that `done` is all workers when the next phase
  begins is `FreshResults`, that none is `busy` is `NoRace`, and that a phase begins with none `done` is `NotYet`: no
  packet holds an output of a phase that has not begun.
* `TimedLoopProofs`: `TimeIsComplete`, `EndsOnTarget`, `ClockIsRead` and `TypeCorrect` from `LoopInv`,
  the essential part of which is that the time already added up ends where the current
  interval begins, and that after a call the index is below `loop_count`.
* `MemRegionProofs`: `PointersStayInRegion` (the type invariant: every index of the shuffle is inside the
  sequence and every pointer inside the active region) and `ShuffleKeepsLines`. A
  swap with an arbitrary index keeps a bijection; between the `Swap`s and after `Front`
  the sequence is one of all lines. `OneCycle` and `PagesInTurn` speak of `Chase`, an iterated function. Where an induction is
  wanted they take the least counterexample (`Least`), which is a fact about one set of numbers: `Chased` says that
  whatever starts at 0 and goes from each place to the next along the pointers is what `Chase` visits.
  `CycleInv` adds to the shuffle's invariant that the sequence begins with offset 0 before the links are written and
  that the links are those of the pattern after it. For each pattern a closed form of the walk is given, and `Circle` finishes: a walk
  that follows the links, meets every line, and comes back after as many steps as there are lines, is the one cycle (`StrideCycle`,
  `RandomCycle`, `PageCycle`). For the page-random pattern the closed form also gives the order
  of the pages (`PageWalkIsLinked`, `PageWalkCovers`).
* `NumaMatrixProofs`: `TypeCorrect`; `CellsMeasureTheirNode`, under the hypothesis that every node has a name
  in `MemType` (at most eight nodes), from `PlaceInv` (which policy holds where in a cell) and `CellsInv` (the same for what is
  printed already); `PinnedToUsableCpus` and `OneWorkerPerCpu`, from `PinsInv` and the lemma `AscendingList`: a
  finite set of cpus becomes a list of its elements without repetition. Ranks are an injection into as many numbers as there
  are cpus, so every number is a rank (`RanksAreNumbers`); this is why `Ascending` is defined by ranks.
  `MatrixComplete` from `MatrixInv`: the rows and columns the loops have passed stand in the table at
  their ranks (`RankBelow`, `CompleteRow`, `CompleteTable`). A warm-up truncated to 0 makes the measurement look like a
  warm-up, and its cell is not printed; the history variable `slow` keeps these pairs, `SlowIsPast` says that none is of a cell
  yet to come, and `WithoutColumn` that a missing cell leaves the ranks of those before it alone.
* `LoadedLatencyProofs`: `RowsAreTheList` and `FullDuration` from `RowsInv`, for any delays, target and
  bandwidths: no result is positive before the first measurement and the latency is after it, so the truncated bandwidth never
  decides whether a row is printed. `NearestKernel` from `NearInv` (the walk has found the nearest kernel of those it has
  passed), under the hypothesis that the mix is one of the four documented ones: every list begins with a delay of 1,
  which is nearer than the initial distance. For another mix the list has one entry with delay 0, which is not nearer
  than that, and `front()` is called on an empty vector. `TrafficAccounted`, under the same hypothesis: the lemmas `Joined` and
  `Repeated` say which access stands at each of the 256 places of a kernel, and a bijection per mix counts
  the cache lines with a write among them: none, all 128, 64 and 43 of 128, which is the code's 33.33 percent to within one.
* `BenchmarkMainProofs`, the command line: `ParseIsFaithful` for lines of any length. The property says which
  arguments are options by a recursive function of the place (`ReadsAsValue`); `ReadingExists` and `ReadingsAgree` say that there is
  exactly one such function. `ArgumentsRead` is the loop invariant of `parse()`: every option before place `i` is
  seen, at one place, and has the value written there. `Refused`: each way the loop can throw is a fault in the line;
  `AllRead`: at the end of the arguments the line is well formed; `ReadNext` is an iteration. `HugePageCoversRegion`
  from `ChunkInv`: after the corrections the chunk is the region.
* `BenchmarkMainProofs`, the branch sweep: `SweepIsReported` and `SweepLasts` from `SweepInv`, which TLC
  confirms on the run's instance. `WorkerInv` says what a packet holds while its worker is idle, counting or done; `TruthInv` that a
  finished case lasted its share of the budget and would not have without its last batch (`Whole`); `RowsInv` that each row
  printed holds the numbers of its worker and case; `PeakInv` that the maxima are the best of them
  (`Best`, with `NotLess`: the comparison of quotients by products is transitive); `WarnInv` that a warning was printed exactly if a row
  says `n/a`. The duration is a sum over the cases: `SumExists`, `SumBounds`.

Only model-checked are the liveness properties `RunnerEnds`, `WatchdogEnds`, `LoopEnds` and `CleanupEnds`: they
rest on fairness, and fairness and `ENABLED` are out of the prover's reach. The three
violated properties are findings and have no theorem.

## 5. Findings

1. *A signal at the start of the `finally` block.* `main()` installs SIG_IGN in the first
   statements of the block and enters the restoring `try` after them. A signal handled
   there leaves the block with `KeyboardInterrupt`: nothing is restored or named. `README.md`
   lines 90-91 promise restoration on Ctrl-C and SIGTERM.
2. *Cells under the wrong header.* A node without enough memory is skipped in the rows
   of a matrix but not in the header.
3. *Slow loads.* After a result below 1 GB/s, truncated to 0, the load runs for one second
   while the latency is measured for the whole target duration.

Limits that no run states as a property, because the code has no line that says otherwise, but that show in the
preconditions of the model:

* A region smaller than one kernel call (256 lines, 8 KiB) has `loop_count` 0 (`worker_latency.h:41`): the loop neither works nor
  looks at the clock, and only the watchdog ends the program. `MCTimedLoop` takes regions of at least one call.
* `NODE0 + 8` is `INTERLEAVE` (`worker_thread_packet.h:84`): on a machine with nine nodes the ninth column is measured on
  interleaved memory, further ones under the host's policy. `CellsMeasureTheirNode` has at most eight nodes as hypothesis.
* `chunk_size_kb * 1024` is a product of `uint32_t` (`worker_latency.h:17`): with huge pages, where the chunk is the region,
  4 GiB give page size 0, by which the constructor of `MemRegion` divides (`mem_region.cc:34`); 7 GiB give pages of 3 GiB, of
  which the random order covers 6 GiB. `HugePageRegionIsOnePage` holds below 4 GiB, and no property of the full region
  does above. `region_size_kb * 1024` wraps at 2^64 in the same way, also in the fragment check of `cpu_memcpy`.
* `-c 0` and `-s 0` are accepted and divide by zero in the constructor of `MemRegion`; a region smaller than a line gives
  an empty sequence and an index out of the vector (`mem_region.cc:162`). `ParamsAssumption` excludes both.
* The watchdog waits 300 s for every phase whatever `-t` says (`worker_thread_manager.h:198`): a healthy measurement with
  `-t 300` or more ends with "threads never finished". `StuckHadTheTimeout` says that no shorter one does. The deadline is
  on a clock that can be set (line 241).
* A warm-up whose result is truncated to 0 (bandwidth below 1 GB/s, a latency below 1 ps) makes the measurement look
  like another warm-up, and its cell is missing from the matrix without a word. `MatrixIsComplete` says that it is the only one.

## 6. Not modelled, and why

* The values that are measured and their units: arithmetic on results without influence on
  control. Where a truncated result is fed back, it is modelled.
* `dump`, the rounding of `mmap` and the destructor of `MemRegion`; the overrun warnings of the
  loops: diagnostics.
* `CLOCK_REALTIME` stepping during a `join`: the model's time is the watchdog's.
* An empty sequence in `randomizeSequence_` (a region smaller than a line): the code indexes out of a
  vector; `ParamsAssumption` excludes it.
* Data of the Linux kernel beyond the two settings; sudo and its prompt (`priv` and a write that may
  fail stand for them).
* SIGTERM sent to `measure_stats.py`: Python's default action ends it without the `finally` block.
* The text side of the command line (how `--name=value` is cut, usage messages, `dump`); size formatting, named timers, host
  report, installers: sequential text processing without effect on control.
* The machine code of the branch chains and of the kernels: the model has the number of branches or accesses.

## 7. Plan

Done, in this order: settings and runner, because they change the user's machine; worker threads,
because everything measured depends on them; region, matrix, loop and loaded latency; the
collectors; the two abstract specifications with their refinements; the command line, the `main`
functions and the branch sweep; the standalone helpers; proofs of the refinements and of every safety
property of these modules.

What is left, the most important first:

1. The safety facts that the liveness properties rest on, as invariants with proofs: that a step is always possible
   before the end (deadlock freedom of `WorkerThreads` and `TimedLoop` without `ENABLED`), and what decreases.
2. The precondition `ParamsAssumption` of `MemRegion`, derived from the configurations that `Configuration` accepts, which would
   show by a run which command lines reach the empty sequence (`mem_region.cc:162`).
