# WattWatcher in TLA+

WattWatcher estimates the power of a program from hardware counters. A shell
script samples the counters with `perf`; Python programs turn the samples into
bins of equal length, write a McPAT input for each bin and run McPAT on it;
McPAT (C++) models a processor, asks cacti for the best organization of each
memory array, and prints the power of each component.

This directory holds a model of that code: TLA+ modules with the TLC
configurations that check them on small instances, and theorems that TLAPS
proves for all instances. `PROJECT.json` lists components, runs, the source
lines behind each definition, the hazards of the code and the theorems.

    tlc -config MCNormalize.cfg MCNormalize      # a run
    tlapm NormalizeStatsProof.tla                # a proof

## 1. Inventory

| Component | State it keeps | Operations | Model |
|---|---|---|---|
| Measuring session, `cluster_functions.sh` | shell variables `EXIT_CODE`, `QUIET_MODE`, `PERF_START_TIME`, `PERF_END_TIME`; `counters.csv` and `<name>-counters.csv` on each node; a perf process per node | `run_perf`, `stop_perf`, `marshal_perf`, `analyze_perf`, `execute` | `PerfSession` |
| Re-binning, `normalize_stats` of `process.py` | the open even bin, the rest of the real bin, `scaled_stats` | one function, two `for` loops and a `while` | `NormalizeStats` |
| Analysis, `process.py`, `process_cntrs.py`, `generate_mcpat.py`, `run_mcpat.py` | the statistics by core and time, one XML tree, the directory of config files, a pool of threads and its pending results, the table of power | `process`, `create_total_category`, `process_cntrs`, `generate_mcpat`, `run_mcpat` | `PowerPipeline` |
| Organization search, `cacti/Ucache.cc` | per-thread lists and minima, merged lists and minima, the list of solutions | `solve`, `calc_time_mt_wrapper`, `find_optimal_uca`, the filters | `CactiSolve` |
| Array optimization, `array.cc` | the result, two overflow flags, the deviation, the candidates, the memory of power-gated results | `ArrayST::optimize_array`, `compute_base_power`, `cleanup` | `ArrayOptimize` |
| Result cache, `cacti/io.cc` (`cacti_interface`) | a Berkeley DB file shared by all McPAT processes of a user | get, solve, get / delete / put, sync | `ResultCache` |
| McPAT's parts: cores, shared caches, directories, controllers, networks (`core.cc`, `sharedcache.cc`, `memoryctrl.cc`, `noc.cc`, `iocontrollers.cc`, `logic.cc`) | a tree of units and leaves (arrays, logic blocks); `stats_t` and `power_t` of each leaf, shared by both passes; totals | constructors, `computeEnergy` for the peak and for the run time, `displayEnergy`, destructors | `McpatPart` over the tables `McpatCore` and `McpatUncore`; `PowerModel` |
| McPAT's main program, XML input and `Processor` (`main.cc`, `XML_Parse.cc`, `processor.cc`) | the entries of `root_system`, a cursor over the file's components; the parts and the totals of each kind and of the chip | `parse`, the `Processor`'s constructor, `displayEnergy`, destructors | `McpatMain`; `PowerModel` |
| cacti's technology and input check (`technology.cc`, `io.cc`, `Ucache.cc`) | the globals `g_ip` and `g_tp`, the static wires | `error_checking`, `init_tech_params`, `init_interface`, `cacti_interface`, `update_dvs`, `update_pg` | `Technology` over `TechTables` |
| Circuit models of cacti (`mat.cc`, `decoder.cc`, `wire.cc`, ...) | none between calls | formulas over floating point | not modelled |
| NUCA search, stand-alone cacti | | | not modelled: McPAT never asks for it |
| `sniper_libs`, counter lists, processor files | none | | not modelled: data and third-party helpers |

How they interact: a run script sources `cluster_functions.sh` and calls
`run_perf`, the workload, `stop_perf` and `marshal_perf`. The session and perf
share files and a signal, nothing else. `marshal_perf` calls `process.py`, which
reads the log and calls the rest of the analysis; `run_mcpat` starts McPAT as a
process per bin, in a pool of threads. McPAT reads its XML file and builds the
chip part by part; arrays in a part are `ArrayST`s, which call `cacti_interface`
again and again; that looks a result up in the shared cache or calculates the
technology and calls `solve`, which starts its threads. Logic, links and routers
take the technology directly.

What is hard, and what makes each component correct:

- **Session.** perf is neither waited for nor told which file is whose: it may
  still be writing while its log is moved, appended to and rewritten by `sed -i`.
  The times are global, `EXIT_CODE` may be stale. Correct: one log holds one
  session; the times posted are that session's, but for one case of a remote node
  (section 5); what was sampled before the stop is analysed; perf ends.
- **Re-binning.** Samples and bins straddle each other arbitrarily; one local is
  not reset between counters. Correct: no time and no event lost or counted twice,
  each bin holds what happened in it, every counter gets the same bins.
- **Analysis.** The directory listing has no order, outputs are kept by place, one
  tree is reused for all bins, an earlier session may have left files, McPAT may
  fail silently, and a counter may be zero where the program divides by it. Correct: each
  bin gets the power of its own counters.
- **Search.** Threads share out the partitions by a stride, keep minima of their
  own, and the list of solutions is erased from while it is walked. Correct: every
  partition evaluated once, the merged minima true, the cheapest organization
  returned, independently of the schedule.
- **Array optimization.** Up to nine searches with an ever tighter bound, two flags
  that survive from one to the next, copies of a result that share memory.
  Correct: a solution found is returned, the fastest is left when there is none (which
  holds of arrays without a tag array only, section 5), and memory is freed exactly once.
- **Result cache.** The file outlives processes and builds, has no locks, and every
  step of a call can fail or be the last. Correct: the result returned never depends on
  what the database did, and what is saved is found again.
- **Parts.** Which leaves exist depends on a dozen choices, and five functions of
  each class repeat the conditions; the peak and the run-time pass share the
  statistics and the power of each leaf. Correct: no pointer to what is not built, each
  leaf and unit in each total once, run-time power of run-time statistics.
- **Main program.** Sections of the file and parts of the chip are counted by
  different rules, and each kind is added up by its own copy of the code. Correct: a
  part reads what components of its kind filled in, the chip's totals hold every copy of every
  part once, links are sized when the area is complete, and the program ends.
- **Technology.** Globals filled with `+=` for each array, voltage and unit.
  Correct: one whole of the two neighbouring nodes, nothing unassigned in it, and each
  array in the technology of its own kind.

## 2. Modules

Every component is a module with its constants, one action per step of the code
and its properties; a module `MC...` gives the constants values; a module
`...Proof` extends the component's with the theorems. `McpatMainProof` extends both
`McpatMain` and `McpatPart`, the parts that the main program is made of; a name that both
would define is the part's with its own prefix or suffix (`PartInit`, `PartNext`,
`PartSpec`, `PartTypeOK`, `ConstructUnit`). The modules compose by what they promise: `PowerPipeline` uses bins as `NormalizeStats` makes them and a log
such as `PerfSession` leaves (whole, or cut in its last sample); `ArrayOptimize`
searches with what `CactiSolve` promises; a part of `McpatMain` is in one of the
stages of `PowerModel`, which `McpatPart` implements; `Technology` gives the arrays
that `CactiSolve` searches the values they are calculated from.

### NormalizeStats

`normalize_stats` line by line: `BeginStat` is the head of the loop over the
counters, `LoadSample` an iteration of the loop over the time stamps,
`FillEvenBin` and `DrainRealBin` the two branches of the `while`. Variables have
the program's names. Time is counted in ticks, and each sample's value is a whole
rate times its length, so that all divisions are exact: the floating point of the
code is abstracted to exact numbers. `loaded` and `emitted` are history. What a bin
should hold is counted without the program's arithmetic: `Events` is the set of events
of a span, as many at each tick as the rate of the sample that covers it.

### CactiSolve

The main thread of `solve` and the threads of `calc_time_mt_wrapper`. A thread's
five nested loops are its place `pos` and `NextPos`; `Evaluate` is one body of the
innermost loop. What `calculate_time` gives a partition is a table, an input, since
it reads only the partition and the technology. An array has a delay and an energy; leakage, cycle time
and area go through the code the same way. `FilterAndCombine`, `Examine` and
`Return` are the filters, the walk of `find_optimal_uca` with its iterator, and
the end.

### ArrayOptimize

`optimize_array` over the data and tag arrays that cacti may find: a search (`Search`)
returns the first least costly organization within the deviation, which is what
`CactiSolve`'s `FirstLeastPicked` says `solve` does when it searches more
than one wire type, as McPAT has it do. Of an array without a tag array the organizations
are its data arrays. Of a cache, `cycle_time_dev` filters the tag arrays first
(`Ucache.cc:538`, 651): `TagArray` is the one left, and the organizations of a search are
the data arrays `Combined` with it, as `find_cyc`, `find_delay` and `find_energy` do for
each access mode. So each search of a cache may have other organizations and other
minima. `Iterate` is the body of the `while`,
`Choose` of the loop over the candidates. A result owns memory only with power
gating (`uca_pg_reference`); `live` is what has not been freed and `twice` whether
anything was freed twice. The scaling of the final result is left out.

### ResultCache and ArrayService

`cacti_interface`: `Call` opens the file on a process's first call, `LookUp` is the
first get and the copy of a hit, `Solve`, `DeleteOld` (the second get), `Put` and
`Sync` the rest. A key stands for the bytes between `first` and `last`; the
constructor of `InputParameter` zeroes their padding, so equal parameters are equal
keys. A result is the build and the parameters that gave it. Berkeley DB is external:
a process changes pages of its own (`view`, `dirty`), which reach the file at the
sync or earlier (`Evict`) and are lost if the process ends before; opening, deleting,
putting and writing may fail. The code does not look at what `del` returns: if it failed,
`DB_NOOVERWRITE` makes the `put` fail too, with a message, and the old result stays. A page is written whole. Writing while another process has the file
open sets `corrupt`, after which a get may return anything: the comment of
`run_mcpat.py` on more than one McPAT at a time.

`ArrayService` is what the caller is promised: a question is answered with the array
of its parameters, as computed by a build with results of the same size, or the
process ends. That is less than the comment at `io.cc:3445` ("Or from a different
version") hopes for, and all that comparing sizes can give. `Service` maps a call
under way to "asked" and hides the rest.

### PerfSession

The shell functions as the steps between which perf can run: a call (`RunPerf`,
`StopPerf`, `BeginMarshal`), the two `echo >>`, the read and the rename of `sed -i`,
and `process.py`. perf is a process of its own (`PerfStarts`, `WritePart`,
`PerfExits`) that flushes a sample in two parts, at its own offset in whichever file
it has open: the log, the log moved, or a file that has been deleted. External to
the repository, and modelled from how it is used: perf, `mv`, `sed -i`, `scp`,
`pkill`. A script measures each node at most once.

### PowerPipeline

The analysis from the log to the table, with an exception as the state `error`.
`ParseSample` to `Derive` are `process.py` and `process_cntrs.py`,
`ClearDirectory` and `Generate` are `generate_mcpat.py`, the rest `run_mcpat.py`:
the listing in any order, batches for the pool (`Launch`, `Run` in any order,
`Collect`), and the reading back by number. Of the counters it keeps the busy cycles
apart from those whose absence matters (L3, floating point, L2 reads and writes);
the rates computed from them are abstracted to the cycles themselves, except that
`Divisors` are the counters they divide by: `Derive` ends in a `ZeroDivisionError` if one of
them is 0 for a core in some bin. Which ones are is an input (`Works`, `Zeros`); a counter
that perf could not count is entered as 1 (`process.py:133`) and is none of them. A sum over
logical cores is the number of their cycles as a set (`CyclesOf`). McPAT may
succeed, fail, or end with status 0 and no component in its output.

### McpatPart, with McpatTypes, McpatCore and McpatUncore

A part is a list of units in the order in which each phase of the program calls
them: constructors, `computeEnergy` for the peak (TDP) and for the run time (RTP),
`displayEnergy`, destructors. What a unit's class does to its leaves is a row of
tables: what it builds, the fields of `stats_t` each pass sets, the `power_t` it
resets, the fields it multiplies into `power_t`, what it adds to each total, what it
shows, what it frees, each as a set that depends on the configuration with the
conditions of the code. The tables follow the sources (`McpatCore` is `core.cc`,
`McpatUncore` the caches, controllers and networks) and are written one function at a
time, because it is the agreement of the functions that is in question.
`ConstructUnit`, `ComputeUnitEnergy`, `DisplayUnitEnergy` and `DestroyUnit` do what one
unit's function does to its own leaves. `power_t` remembers from which pass each number
came, `known` which heights and peak powers were assigned. Statistics come from the
XML file in both passes with different fields; sizes, areas and powers are left out.

Four kinds of block are left out of a total by the code or added twice, and are
named in `Uncounted`: the arbiter of the memory controller; the instruction selection
and the dependency checks, in area and leakage; and of the NIU, in leakage, the SerDes,
in whose place the front end's gates are added a second time.

`PowerModel` is what a part promises the `Processor`: its stages in order, each total
whole at the end of its stage and for good.

### McpatMain

`main`: `CheckNumbers` is the head of `parse` (a file, the numbers), `ReadEntry` the
body of a section's loop with its test of a component's name or id (`Recognised`), `EndSection` its end with the cursor, `ReadSingle` a
controller's section. `CheckPrivateL2` and `BuildPart` are the `Processor`'s
constructor, one iteration of the loop over a kind in three steps (construct, two
passes, add up), `AddRouter`, `AddLinks`, `AddEnergy` the three loops of the networks,
then `DisplayEnergy`, `DeleteXML` and `DeleteParts`. A total is the sequence of what
was added to it, with the number of copies and the scale, so that order and
repetition stay visible; `CopiesOf` is the set of the copies of a kind in it. A heterogeneous chip with no core reads on without a bound
(`number_of_cores - 1`, unsigned), until a component is missing.

### Technology and TechTables

`TechTables` holds, of each table of `init_tech_params`, the columns Vdd, v_th and
ild_thickness, and says which device types, DRAM cells, wires and temperatures it
assigns. In `Technology`, a request is the stand-alone program's, an `ArrayST`'s or a
McPAT unit's. `Check` is `error_checking`, `InitInterface` `init_interface` with
`init_tech_params` and the wires, `CacheHit` a result found, `SearchTag` and
`SearchData` the two halves of `solve`'s caller with their technologies, `DvsLevel`
and `EndDvs` `update_dvs`, `UpdateGating` `update_pg`. `g_tp` is a sum of shares of
nodes, kept times the denominator so that all numbers are integers; what is added
from a local that nothing assigned, or from past its array, makes its group `unset`,
and a test of such a value may go either way.

## 3. Runs

| Run | What it asks | What it shows |
|---|---|---|
| `normalize` | Does re-binning keep time and events, fill each bin with its own events, and never rewrite? | holds |
| `solve` | Does every schedule of the threads evaluate each partition once, merge true minima, pick the cheapest organization and the first of equals, and end? | holds, with two wire types |
| `array` | Is a solution found returned, the fastest left when there is none, and memory freed once? | holds; the fastest is left for arrays without a tag array |
| `array_partial` | `array.cc:173`: a miss gets a warning | violated: two searches that each meet one constraint clear both flags |
| `result_cache` | Does each call return, with the array asked for, whatever the database does, and does what is saved stay and get found again? Does it implement `ArrayService`? | holds for one McPAT at a time |
| `session` | Does a log hold one session, with its own times and all its whole samples, and does perf end? | holds for scripts that measure one node; a remote node without a log, over an earlier result, is the exception to its own times |
| `session_race` | "Post the start and end times for this run": are the times still there when the log is analysed? | violated: perf's last sample overwrites them |
| `pipeline` | Does every bin get the power of its own counters, whatever the order of the listing and the pool and whatever files are left? Is a whole log analysed? | holds for bins of one second and logs in which no counter that is divided by is 0 |
| `part` | Under every configuration: does a part use only what it built and assigned, free it once, keep the passes apart, and count everything once? Does it implement `PowerModel`? | holds, home nodes and cores without heights apart |
| `part_homenode` | `sharedcache.cc:658`, "init stats for runtime power (RTP)": is a home node's run-time power of run-time accesses? | violated: the peak pass's accesses are multiplied again |
| `chip` | Do parts read what components of their kind filled, do the totals hold each part as often as the file says, are links sized last, does the program end? | holds; an L2 directory's component may have filled an L2's entry |
| `technology` | Is each value one whole of its nodes, nothing unassigned in it, and every array of its own technology? | holds, with the exceptions the properties name |

The three violations are listed under "findings" with the lines they contradict.

### Bounds, and why they are enough

- `normalize`: two counters, up to four samples, each half or one and a half
  seconds after the last, bins of half, one and one and a half seconds. So a sample
  spans several bins, a bin several samples, both end together and apart, and the
  second counter starts from what the first left. More samples repeat these cases;
  the conservation properties are proved for any number.
- `solve`: two threads over two Nspd, two iterations and two wire types: each thread
  has several places, the lists interleave, and each wire type appears. Every table
  of three kinds of arrays with an invalid one among the partitions; tag tables with
  none, one and two equally dear arrays, each objective and each access mode. Deviations
  and weights make each filter drop and keep something.
- `array`: all lists of up to three organizations out of nine: cycle times that meet
  the throughput or not, accesses that meet the latency or not, a cheap and a dear
  energy, areas under and over the threshold. Three suffice for a pick to change twice
  while the deviation falls from 100 to 20. Caches: up to two tag arrays of three over up
  to two data arrays of four, in each access mode, so that the tag array picked changes
  with the deviation; and `Slowing`, a cache whose last search leaves a cycle of 101 after
  100 was found, the case `BestTimingLeft` excludes.
- `result_cache`: three builds, two of one size; two parameters, so that an entry of
  another key is under way when a delete or a write fails; two processes, of which one runs.
- `session`: two samples before the stop and two after it, a clock that reaches 4, so
  that start, stop and an earlier session have different times; each node, this machine and a remote one, with and
  without old files.
- `pipeline`: four logical cores on two physical ones, three bins, a pool of two
  (a full batch and a partial one; the program's own is one), old files 0 and 4 (one
  that is overwritten and one that is not). Cycles that differ in every core and bin, that
  repeat, or with one idle core in one bin; no zero, or one in the first bin, in another, of
  the L3's counters, or in a sample that makes no bin; logs whole or cut.

- `part`: 157 configurations. All parts; of a core each choice combined with every
  choice that appears in a condition with it: scheduler, renaming, reorder buffer,
  load queue, FPUs and multipliers out of order; threads, register windows and
  units in order; prediction, write policy and private L2 for the front end and the
  caches; all kinds of directories; type, PHY and global links of the rest. The
  walk of a part has no loops, so nothing is cut off. The theorems about parts are for
  every valid configuration, combinations of choices that no condition of the code
  reads together among them.
- `chip`: 384 files with two entries per kind (`MAX_NUM_CORES`) and numbers from
  none to one too many; each kind homogeneous or not, cores with private L2s in
  all combinations of their numbers, every set of buses and of linked networks,
  controllers without units or channels; files with one component missing or
  doubled at every place, files with an L2 directory's component in the place of an
  L2's, also of a core's private one, and files with cores that their number does not promise.
  With two a cursor off by one reads another kind.
- `technology`: 1257 inputs of the stand-alone program and every sequence of two
  requests of McPAT. Feature sizes are every table's, one between each two
  neighbours, the ends of a node's window (31 and 91 nm, where the comparisons of the
  code disagree, among them) and invalid ones; all device types, user
  voltages below, at and above the defaults, DVS with one and two levels, gating,
  temperatures inside, between and outside the tables. Two requests suffice for a
  request to meet what another left, because each begins by setting `g_ip`; the
  proof is for any number.

`MaxSamples` and `MaxTime` of the session and `MaxRequests` of the technology are
the only bounds in guards; `MAX_NUM_CORES` is the program's own constant (1024), made
small.

### Fairness

`CactiSolve`: weak fairness of the main thread and of each
worker; pthreads run when they can, and nothing but `pthread_join` blocks.
`ResultCache`: of each process within a call, where nothing blocks; that McPAT asks again
is not assumed. `PerfSession`: of the shell, and of perf on each node; perf needs none to be stopped,
only to write what is left and exit. The clock has none. `PowerPipeline`: of the
interpreter and of the pool; that McPAT ends is `CactiSolve`'s and `McpatMain`'s
`Terminates`. `McpatMain`: of the program, which is alone on its thread and calls
nothing that waits. `McpatPart`, `Technology`, `NormalizeStats` and
`ArrayOptimize` state no liveness: the walks of the first two are straight, loops of the
latter run over a list once (the deviation of `ArrayOptimize` ends at 20), and
`PowerModel` is a safety specification.

## 4. Theorems

| Module | Theorem | Says, for all constants |
|---|---|---|
| `NormalizeStatsProof` | `TypeCorrect`, `TimeIsConserved`, `ValueIsConserved` | types; no time and no event lost or counted twice |
| | `RecordedStaysFinal` | no step rewrites a recorded bin |
| | `BinsAreExact` | every bin holds the events of its own span, every counter has all bins before the last sample |
| `CactiSolveProof` | `TypeCorrect` | types, for any number of threads and partitions |
| | `MinimaCorrect` | the merged minima are those of the merged lists |
| | `PartitionsSharedOut` | the threads share out the partitions: the merged lists hold each array once |
| | `LeastIsPicked` | the organization returned is the first of the cheapest allowed, if costs are below BIGNUM and wire types are several |
| `ArrayOptimizeProof` | `TypeCorrect` | types; every search finds something, the deviation ends at 20 |
| | `MemoryIsOwned` | memory is freed once, not while in use |
| | `BestTimingIsLeft` | the result left, without a tag array, is the fastest found; it is whole in any case |
| | `FoundIsNotLost` | a solution found is returned, the least energy of all |
| `ResultCacheProof` | `TypeCorrect` | types; a process that ended leaves no handle and no page |
| | `AnswersAlwaysMatch` | an answer is the array asked for |
| | `SavedAlwaysStays` | only a build of another size removes a result |
| | `CacheServes` | the cache implements `ArrayService` |
| `PerfSessionProof` | `TypeCorrect` | types, for any nodes, scripts and samples |
| | `LogsHoldOneSession` | a log analysed is of one session, an earlier one only if this one left no log to take |
| | `StoppedSamplesAreAnalysed` | what was whole at the stop is analysed |
| | `TimesAreOfThisRun` | a log is analysed under its own times or none, if scripts measure one node; or it is an earlier one, of a remote node without a log, under this session's |
| `PowerPipelineProof` | `OutputsAreOfTheirFiles` | McPAT runs on this session's files; outputs are kept at their files' places |
| | `TableIsOfItsBins` | a table written has one row for each bin, of that bin |
| | `PowerIsOfItsBin` | that, and the physical cores of a config file share the cycles of all logical ones |
| | `TypesKept` | types; the loops keep their bounds, wherever the analysis ends |
| `McpatMainProof` | `EntriesAreFilled` | each part reads only entries of the XML data that a component of its kind has filled in, or an L2's that an L2 directory's component has |
| | `ChipIsWhole` | the totals hold each copy of each part once, and the links after all parts |
| | `TypesKept` | types; indices stay within the entries, parts go through their stages in order |
| | `NoPointerDangles` | no function of a part uses or frees what is not built or freed already; nothing is left at the end |
| | `NumbersAreAssigned` | heights and peak powers are assigned before they are read |
| | `PassesKeepApart` | the power of a leaf is made of one pass's statistics |
| | `PartKeepsPromise` | a part implements `PowerModel` |
| | `PartTypesKept` | types; the walk stays within the orders of calls |
| `TechnologyProof` | `ArraysAlwaysOfTheirTechnology` | each array is calculated in its own technology, over any number of requests |
| | `TechnologyInterpolated` | each group of `g_tp` is one whole of its nodes, between their values |
| | `AcceptedInputsAssigned` | nothing unassigned enters `g_tp` for an input that was accepted |
| | `TypesKept` | types; no share of a group exceeds the whole |
| | `SharesMakeOneWhole` | the shares of two neighbouring nodes are positive, make one whole and average to the feature size |

Each rests only on the `ASSUME`s of the modules it extends, which TLC evaluates in the
runs: of the parts (`ConfigsAssumption`) that a configuration is one `set_*_param` can
make of an XML file. Three have an assumption more, which the code needs as well:

- `TimesAreOfThisRun`: a script measures one node; with two the property is false.
- `LeastIsPicked`: `BIGNUM` is above every cost, as the code takes for granted when it
  starts its minimum there, and more than one wire type is searched, without which the
  walk passes over an organization (section 5).
- `TypesKept` of the main program: a file whose heterogeneous chip promises no cores
  lists no more of them than `MAX_NUM_CORES` (`CoresEnd`). The section's loop then runs
  until another component comes, and nothing else keeps it within `sys.core`.

Sums, folds and recursion are stated so that no induction over data is needed: a sum is
the cardinality of a set of items, and that it grows by what is added is a fact about
disjoint sets; where a loop's effect is needed, the invariant carries it from step to
step; where something must be the first of its kind, a least counterexample is taken by
the well-foundedness of the naturals.

**Re-binning.** Neither conservation law is inductive alone: `IInv` adds the types
(the time left in the open bin stays within `0 .. bin_size`, the value while there is
time) and `Position`, which ties `prev_time_stamp` to the sample read last. That a
share and the rest of a value add up needs no property of the division, so the law
holds for whatever rounding. `RecordedStaysFinal` needs `FInv`: whatever is recorded
of the counter at hand lies before the open bin, and of the counters still to do
nothing is.

`BinsAreExact` is stronger than conservation, which a wrong split between two bins
would leave intact. `GInv` follows the events themselves. Each sample holds its rate for
each of its ticks (`WholeRates`), so a share is exact. While a counter is at hand
(`AtHand`), the rest of the real bin is the sample's rate times the time left of it, the open
bin holds the events from its start to the place reached, and the bins before it are
recorded. Each recorded bin has the events of its span (`BinsExact`), and a finished
counter those bins that end before its last sample, which is never poured
(`BinsComplete`). A span's events are those of its two halves (`EventsSplit`), and within
one sample they are rate times length (`EventsOfSample`).

**Search.** The minima are merged long after they are computed. `IInv` says of each
thread that its minima are those of all it ever found (`Of(res[b][t], FoundBy(b, t))`),
that its list holds only its own entries and is empty whenever another phase begins,
that the threads below `joined` have exited and those from `created` on have not
started, and that the merged minima so far are those of the threads merged so far.
`UpdateOfUnion` is the step: the lesser of two minima is the minimum of the union.

`PartitionsSharedOut` goes through the linear order of the loops' places. A thread at
`pos` has looked at exactly the iterations before it that are its own by remainder
(`Share`), and a stride leads from one of them to the next with none between (`StepPasses`);
the remainders of all threads are all iterations (`Remainders`), so the lists of
exited threads together are the arrays (`MergedIsAll`).

`LeastIsPicked` rests on it, since an organization must be in the list before it can be
picked. The list is sorted, so of equally dear ones the first in it is the least by rank.
While `find_optimal_uca` walks and erases, `Left` says what the list still holds, and
`Best` that the one taken is the first of the cheapest among those passed. The one
organization that the iterator skips after erasing the first has a twin of
another wire type and of the same cost next to it (`Twins`); this is where the second
wire type is needed. That the first allowed one is taken at all is where every cost must be
below `BIGNUM`.

**Array optimization.** The lemmas about the search come first: a set of numbers that
is not empty has a least one (`LeastExists`, from the well-foundedness of the
naturals), so a search always finds something (`SearchPicks`), and a tighter bound
finds the same organization or a faster one (`TighterIsFaster`): what the wider bound
found is either still within the tighter one, and then still the first least costly,
or slower than all within it. That is a fact about one list, so it needs `tags = <<>>`; for a
cache each search has a list of its own (`SearchType`), of which the other theorems use only
that something is picked from it (`SomePicked`, `FirstPicked`). Then `MemoryInv`: with power gating there is never more
than one candidate, and it is the result, because power gating is off for
content-addressable arrays, and for the others a solution is kept only when it ends
the loop; this is why no candidate is ever cleaned up while power-gated.
`TimingInv` says that the result is that of the last search and, without a tag array, the
fastest of all,
and `FoundInv` that the candidates are exactly the solutions kept and that the choice
has the least energy of those it has passed.

**Result cache.** The heart is `OneAtATime`: the pool's single worker means that a
process that runs is alone and nobody corrupts the file. `MissSeen` says that a call
that goes on to solve has seen no result of its size, which stays so although pages may
be written in between (`Evict` changes nothing that is seen); so a page not yet written
never hides a result of this build's size (`DirtyHidesOthers`), which gives
`SavedStays`. None of it needs a delete to succeed: a put changes a page only if nothing is
seen under its key, and otherwise nothing. For the refinement `InsideIsUnseen` and `ReturnAnswers` sort the steps of
a call into stutters and the answer; `Service!Safe` is the safety part, the fairness is
model-checked.

**Session.** `IInv` adds to the types what the code relies on without saying so.
`PerfInv` bounds what perf has written and may still write in each state of its
process. `LogInv` says of the file perf has open that it holds exactly what perf has
written so far, wherever that file is by now, and of every log, in either directory,
in `sed`'s hands or analysed, that it is of one session: a perf that outlives its log
writes to a file that is deleted or was moved with it, and never to one that an
earlier session left. For the samples, `Kept` follows what was whole at the stop: it
is in `counters.csv` until the node is marshalled, then in the result or, between
the two steps of `sed -i`, in `sed`'s copy, and is never shortened on the way
(`LongerIsPrefix`). For the times, `Timed` says that the shell's two times are those of
the one node being measured (`TimesInv`). `Taken` says that a log that was taken is never
an earlier one, which `run_perf` removed; so an earlier log is analysed only when there was
none to take, and what is then posted to it is a matter of `EXIT_CODE` (`OldTimesInv`): on
this machine the `mv` that failed has set it, and nothing is posted; for a remote node
nothing sets it, it is 0, and both times are. This is the exception in the theorem. With two
nodes the rest fails in a script of four calls.

**Analysis.** `Written` says that the config files are 0 to the bin before the
current one, each with the sums of its own bin: the directory was cleared, and
`range(k, HW_THREADS, CORES)` is the set of logical cores of a physical one
(`ThreadsByRemainder`). `Collecting` says that place n of the outputs is of place n of
the listing, by the length of the outputs at the head of the loop; the last batch is
shorter than the pool (`BatchIsInterval`, `Joined`). `ReadBack` says that the table has the rows
read so far. At the end all rows are there because a listing without
repetition of all files meets each of them (`AllListed`, from the pigeonhole
theorem of the library). That row is of its bin although the code takes a file's number
as seconds: if every file's time is some bin's label, a bin lasts one second or
there is only one (`TimesFit`: the first file bounds the bin's length from above, the
last from below), and in all other cases the analysis has already ended in a
`KeyError`. `PowerIsOfItsBin` adds what a row is made of: the logical cores of the
physical ones are disjoint and together all of them, because a logical core goes to the
physical one of its remainder, so the cycles of a config file's cores are, as a set, in
one-to-one correspondence with the cycles of all logical cores in the bin.

**McPAT's main program.** Sections of the file and parts of the chip are counted by
different rules, and between them stands only `parse`'s order. `Read` says which
sections are filled in up to the section and index at hand, and keeps the refusals
(`TooMany`, `L2sMissing`) for later; `Built` says of every part but a network which stage
it is in while the Processor goes from kind to kind, from which follows that nothing but
a part of the chip is ever constructed (`BuiltAreParts`). A kind has no more parts than
its section has entries (`PartsAreWanted`), and as many L2s as cores when they are
private; so what a part reads is filled in (`FilledBy`): by a component of its kind, or, since the L2
section accepts any name with an "L2", by an L2 directory's (`misread`).

For `ChipIsWhole` the copies in a total are a set, which grows by the copies of the term
appended and by nothing else. The invariant gives, for each place the Processor can be
at, the parts that are in each column of each total: areas and powers of cores, caches
and controllers come in one loop, those of networks in three, of which the second adds
no part but the links of networks that have them. No item is there twice because each
loop's index has passed it once. A homogeneous kind has one part with as many copies as
the file says, the others as many parts with one copy each. `TypesKept` needs
that no loop's index passes the entries: the check of the numbers gives it for all loops
but one, and `CoresEnd` for that.

**McPAT's parts.** What could be wrong is that two functions of a class, hundreds of
lines apart, disagree about a leaf under some combination of choices; the walk itself
is straight. So the argument has two halves. The first is about the tables alone. `Agree(u)`
says of one unit that what it multiplies it has built, has reset in the same pass and has
set in the same pass (`StatsAgree`), that it adds what it owes and adds none of it again
(`SumsAgree`), that it shows and frees what it has built and leaves nothing, except a
functional unit or a controller's back end, which the unit above frees (`FreesAgree`).
There is one lemma per unit, from `FetchAgrees` to `FlashAgrees`, for all of its
configurations. `Apart` says that no two units build or free the same, `BelowFirst` that
the constructors reach every unit before the one above it, and before EXECU
the units whose heights its bypasses need.

The second half is the walk. `Visits`: every phase's order of calls has every unit of the
part once. Thus a step adds one unit to those its phase has visited and leaves
the other phases' alone (`SeenNext`), and every variable is a function of the sets
`Seen(p)`: `Lives` (what the constructors visited have made less what the destructors
visited have freed), `Knows` (their heights, and the peak powers of the second phase),
`Counts` (the sums of the units visited for a total, none of them twice but `Again`),
`Powers` (each number in `power_t` comes from a unit's products, and outside a home node's
array from the last pass that visited that unit). `PartInv` is their conjunction with
`PartTypeOK`; neither `NoDanglingPointer` nor `OwnNumbers` is inductive without it, because
they speak of the unit at hand, or of a leaf, and what makes them true was done phases
before. For `OwnNumbers` both halves meet: a number of another pass could only stay in
`power_t` if no reset reached it, or come in through a field set by the other pass only.

For `PowerModel` a total is whole exactly when all units that owe it something have been
visited in its phase (`WholeIsSettled`), and every total is owed something
(`SomethingOwed`), so that none is whole at the start; a step within a phase is then `Work`,
the last of a phase `Advance`.

**Technology.** Each step leaves `g_ip` and `g_tp` for the next to find. `Placed` says,
of each place a call can be at, what `g_ip`, `g_tp`, the wires and the results so far
are made of; a label `Of(x, t)` names all a technology depends on. The steps that
do not restore it are harmless because of `error_checking`: with DVS, tag and data
have the same device types (`OneType`), and the reference of power gating is left out
where it is not so.

`TechnologyInterpolated` says what that technology is. Whoever calculated it last,
`g_tp` was emptied first and then made by one run of `init_tech_params` for one input
(`TechInv`). Each run adds to each group the share of one node, or of two, which make one
whole (`WeightsOf`), and a group's sums are those of the nodes' table entries
(`DeviceSum`, `DramSum`, `WireSum`), so a value lies between its nodes' (`Average`).
`AcceptedInputsAssigned` goes through what `error_checking` lets pass: sizes,
device types and temperatures of an accepted input all have entries
(`AcceptedIsInTables`). The proofs, being for every feature size and not the run's
selection, found two corners of the code, which the properties now name and the run now
includes: embedded DRAM repeats 32 nm's values from 31 nm down, and 91 nm
(section 5).

TLAPS proves neither liveness under fairness nor ENABLED; those stay with TLC.

**Only model-checked**: liveness (`Terminates` of the search and of the main program,
the fairness of `ImplementsService`, `StoppedPerfEnds`, `WholeLogAnalysed`), and the three
violations, which are single executions.

## 5. What the code does, found while modelling

Beside the three findings, the models follow the code in these places, and the
properties exclude them by name or the inputs reach them:

- Search: with one wire type the element after an erased first one is never
  examined (`Ucache.cc:610`); McPAT searches more than one.
- Session: the times are global, so those of two nodes are the last one's
  (`cluster_functions.sh:60`). No command for a remote node sets `EXIT_CODE`, and the status
  of its `scp` is not looked at (110-114): if its log is gone and the result of an earlier
  session lies in its place, that result is given this session's times and is analysed; on
  this machine it is analysed under its own. `pkill sleep` (70) ends every `sleep` of the user; all
  remote sessions share one `wait.sh` in the current directory (53).
- Analysis: the rates are quotients of counters, and none is tested for zero
  (`process_cntrs.py:30-54`): one core that counts no cycles, instructions, branches or
  cache accesses in one bin ends the analysis of all cores and bins in a
  `ZeroDivisionError`. Bins other than of one second end in a `KeyError` (`run_mcpat.py:146`); L3
  and floating point counters, optional by the README, are not (`generate_mcpat.py:85`,
  `process.py:149`, where `FP_AVAIL` is never set); a log of fewer than three samples raises
  `IndexError` (`run_mcpat.py:132`); two events mapped to one statistic overwrite each
  other (`process.py:131`); "<not counted>" is entered as 1 (133), which escapes the division by zero; the fraction of active
  cycles divides by a fixed 2.4e9 (`run_mcpat.py:206`).
- Result cache: the result of `del` is ignored (`io.cc:3452`); when it fails, the `put` with
  `DB_NOOVERWRITE` is refused as well, and every later call of this build solves again.
- Array: "the most aggressive one is left" and "a result with best timing" (`array.cc:140`,
  173) do not hold of a cache: its tag arrays are filtered by the same bound, and a tighter
  search may leave a slower result than one found before. The power-gated leakage of a data array is multiplied by the banks twice
  (`array.cc:287`).
- Parts: heights that the bypasses add up are not assigned for a core out of order
  without a reorder buffer or in order with one thread (`core.cc:619`, 1155).
- Main program: the L2 section takes any component with an "L2" in its name
  (`XML_Parse.cc:875`; the directories' sections look at the id, 644 and 759), an L2
  directory's included, and leaves what that does not set of an L2 as it is. With one core and no other component but controllers, a correct file is
  refused, as the cursor at 0 is not moved on (`XML_Parse.cc:1299`); a chip without
  cores reads on (160); only 64 of the 1024 entries are initialized (1487);
  `ports_of_input_buffer[20]` is set past its array (1807); a misnamed NoC is passed
  over. The areas and powers of heterogeneous first level directories are added to the
  chip unscaled (`processor.cc:217`, 220), and the L2 directories' total is shown
  under the first L1 directory's device type (565).
- Technology: `Vcc_min_default` adds a part of what `Vdd_default` has come to and so
  counts the first node twice (`technology.cc:1767`, 1817, 1990): 44 nm and 60 nm exit with
  "User defined Vdd is too low" at the default voltage. After DVS a user's Vdd is
  forgotten (`Ucache.cc:986`); `update_pg` calculates the tag array in the data array's
  technology; `init_interface` and McPAT's arrays (`array.cc:60`) ignore what
  `error_checking` answers when it does not exit; the sleep transistors read LSTP
  devices at 180 nm, where there are none; DRAM types index the tables of flavors;
  embedded DRAM from 31 down to 22 nm repeats 32 nm's; the static wires stay at the last
  DVS level, and `wire_dvs_update` (`wire.cc:857`) computes their delay and power for each
  level with the sizes and distances of the repeaters chosen before. At 91 nm any device type is accepted (`io.cc:1374`, `F_sz_um > 0.091`,
  though the message says that from 90 to 180 nm only HP is supported), but
  `technology < 91` (`technology.cc:105`) already interpolates with 180 nm, whose table has
  HP only: the values of the other types come from unassigned entries.

## 6. Not modelled, and why

- The arithmetic of cacti's circuits and of McPAT's power formulas: floating point
  without control of its own. Where the control depends on it, it is an input.
- Of the XML file, the single fields of an entry and the third-party parser
  `xmlParser.cc`; of the parts, sizes and the numbers of accesses.
- Wording and layout of outputs, plots and XML paths.
- Two analyses of one user at once: they share the result cache, which has no locks.
- Two measuring scripts at once in one directory, two measurements of one node in one
  script, and workloads with `sleep`s of their own.
- The NUCA search, main memory as a search of its own, and `leakage_feedback`, which has
  no caller.

## 7. Plan

Done, in this order: `NormalizeStats`, `CactiSolve`, `PerfSession`, `PowerPipeline`,
`ArrayOptimize`, `ResultCache` with `ArrayService`, `McpatPart` with `PowerModel`,
`McpatMain`, `Technology`, and proofs of all safety properties that the runs check.

What would add most from here:

1. `CactiSolve` as an implementation of one search over all partitions
   (`PartitionsSharedOut` and `LeastIsPicked` are its two halves), and the pipeline
   as one of a loop over the bins.
2. Control in cacti's circuits: the retries of `Mat` and the repeater search of `Wire`.
