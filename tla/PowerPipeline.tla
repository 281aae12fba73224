--------------------------- MODULE PowerPipeline ---------------------------
(***************************************************************************)
(* process.py from perf's log to the power of each bin: process reads the  *)
(* log, create_total_category sums the logical cores, process_cntrs        *)
(* derives the rates, generate_mcpat.py writes one McPAT input per bin,    *)
(* run_mcpat.py runs McPAT on every input with a pool of threads and files *)
(* the outcome under the bin's time.                                       *)
(*                                                                         *)
(* perf sampled every BinSize, so that bin n of normalize_stats is sample  *)
(* n (its general case is NormalizeStats) and the last two samples give no *)
(* bin.  Of the counters those are kept apart that the program asks for or *)
(* divides by; the value of each is the number of cycles of its core, or   *)
(* zero.  Times are counted in ticks, OneSecond of them to a second.       *)
(***************************************************************************)
EXTENDS Integers, Sequences, FiniteSets, Functions

CONSTANTS Lists,          \* counter lists: the optional statistics they map
          Works,          \* cycles by logical core and sample
          Zeros,          \* counters that are zero, by logical core and sample
          Cuts,           \* statistics missing from the log's last sample
          Samples,        \* number of samples of the log
          BinSize, OneSecond, StartTime,
          CORES, HW_THREADS,
          WORKER_THREADS,
          OldConfigs      \* numbers of config files an earlier session left

Cpus      == 0 .. HW_THREADS - 1
Optional  == {"l3", "fp", "l2 reads and writes"}
\* "busy" are the cycles; "divisors" the other counters divided by before those
\* of the L3: reference cycles, branches, data cache and L2 accesses.
Mandatory == {"busy", "divisors", "instructions"}

\* Mutant of Bins: a bin for the last sample but one.
BinsButLast == 1 .. Samples - 1
Bins        == 1 .. Samples - 2

ASSUME PipelineAssumption ==
    /\ CORES \in Nat \ {0} /\ HW_THREADS \in Nat \ {0, 1} /\ HW_THREADS % CORES = 0
    /\ Samples \in Nat /\ Samples > 2
    /\ WORKER_THREADS \in Nat \ {0}
    /\ BinSize \in Nat \ {0} /\ OneSecond \in Nat \ {0} /\ StartTime \in Nat
    /\ Lists \subseteq SUBSET Optional
    /\ Cuts \subseteq SUBSET (Mandatory \cup Optional)
    /\ Works \subseteq [Cpus -> [1 .. Samples -> Nat]]
    /\ \A O \in OldConfigs : O \subseteq Nat

\* That the cycles are zero is said by Works.
ASSUME ZerosAssumption ==
    Zeros \subseteq SUBSET (Cpus \X (1 .. Samples) \X {"divisors", "instructions", "l3"})

VARIABLES
    list, work, zeros, cut, old,    \* the log and what is left in the output directory
    pc, error,    \* the exception that ended the program
    frame,        \* stats as read: sample -> core -> statistic -> value
    stats, total, \* stats in bins: core -> bin -> value, and stats["TOTAL"]
    L3_AVAIL,
    bin, tree,    \* generate_mcpat: its loop and the element tree
    dir,          \* the config files: number -> content
    onlyfiles, i, pt_results, power_threads,
    power         \* time -> core -> what the power was computed from

input  == <<list, work, zeros, cut, old>>
parse  == <<frame, stats, total, L3_AVAIL>>
config == <<bin, tree, dir>>
pool   == <<onlyfiles, i, pt_results, power_threads>>
vars   == <<input, pc, error, parse, config, pool, power>>

\* The time normalize_stats gives a bin.
Label(n) == StartTime + OneSecond + (n - 1) * BinSize
Labels   == {Label(n) : n \in Bins}

\* The sum of what S counts: the cycles of all, each counted once.
CyclesOf(f, S) == UNION {{x} \X (1 .. f[x]) : x \in S}
SumOver(f, S)  == Cardinality(CyclesOf(f, S))

NoTree  == [k \in 0 .. CORES - 1 |-> 0]
OldFile == [bin |-> 0, core |-> NoTree]    \* of an earlier session

Init ==
    /\ list \in Lists /\ work \in Works /\ zeros \in Zeros /\ cut \in Cuts
    /\ old \in OldConfigs
    /\ pc = "parse" /\ error = "none"
    /\ frame = <<>>
    /\ stats = <<>> /\ total = <<>>
    /\ L3_AVAIL = FALSE
    /\ bin = 1 /\ tree = NoTree
    /\ dir = [n \in old |-> OldFile]
    /\ onlyfiles = <<>> /\ i = 0 /\ pt_results = <<>> /\ power_threads = <<>>
    /\ power = <<>>

Raise(e) == pc' = "error" /\ error' = e
Goto(l)  == pc' = l /\ error' = error
-----------------------------------------------------------------------------
(* process *)

\* The rows of a sample: every mapped statistic of every core, of the last
\* one what perf had written.  RAPL's energy counts go to cpu_rapl.
Rows(s) == (Mandatory \cup list) \ (IF s = Samples THEN cut ELSE {})

\* What perf counted; what it could not count is read as 1, never as zero.
Value(c, s, name) == IF <<c, s, name>> \in zeros THEN 0 ELSE work[c][s]

ParseSample ==
    /\ pc = "parse" /\ Len(frame) < Samples
    /\ LET s == Len(frame) + 1
       IN  frame' = Append(frame, [c \in Cpus |-> [name \in Rows(s) |-> Value(c, s, name)]])
    /\ UNCHANGED <<input, pc, error, stats, total, L3_AVAIL, config, pool, power>>

\* Every statistic of the first core's first sample, of every core and sample.
AllStats == DOMAIN frame[1][0]

\* create_total_category, then the tests for FP and L3 and normalize_stats.
\* energy_cores never is in stats and RAPL_AVAIL stays 0.
Total(n) == SumOver([c \in Cpus |-> frame[n][c]["busy"]], Cpus)

\* Mutant of L3Found: the counter is looked up under another name.
L3NeverFound == "l3 misses" \in AllStats

\* The test for the floating point counter sets L3_AVAIL too.
L3Found == "l3" \in AllStats \/ "fp" \in AllStats

TotalAndBins ==
    /\ pc = "parse" /\ Len(frame) = Samples
    /\ \/ /\ \E s \in 1 .. Samples : \E c \in Cpus : ~ AllStats \subseteq DOMAIN frame[s][c]
          /\ Raise("KeyError") /\ UNCHANGED <<stats, total, L3_AVAIL>>
       \/ /\ \A s \in 1 .. Samples : \A c \in Cpus : AllStats \subseteq DOMAIN frame[s][c]
          /\ L3_AVAIL' = L3Found
          /\ stats' = [c \in Cpus |-> [n \in Bins |-> frame[n][c]["busy"]]]
          /\ total' = [n \in Bins |-> Total(n)]
          /\ Goto("derive")
    /\ UNCHANGED <<input, frame, config, pool, power>>

\* The counters process_cntrs divides by.
Divisors == Mandatory \cup (IF L3_AVAIL THEN {"l3"} ELSE {})

\* process_cntrs of every core and bin.  Counters of an L3 that are not there are
\* missed at the first core's first bin, before the divisions by instructions.
\* A total is zero only if the cores' are.
Derive ==
    /\ pc = "derive"
    /\ IF L3_AVAIL /\ "l3" \notin AllStats
       THEN Raise(IF \E name \in {"busy", "divisors"} : frame[1][0][name] = 0
                  THEN "ZeroDivisionError" ELSE "KeyError")
       ELSE IF \E c \in Cpus : \E n \in Bins : \E name \in Divisors : frame[n][c][name] = 0
       THEN Raise("ZeroDivisionError")
       ELSE Goto("clear")
    /\ UNCHANGED <<input, parse, config, pool, power>>
-----------------------------------------------------------------------------
(* generate_mcpat *)

\* Mutant of Cleared: the files of an earlier session stay.
NotCleared == dir
Cleared == <<>>

\* shutil.rmtree and os.makedirs
ClearDirectory ==
    /\ pc = "clear"
    /\ dir' = Cleared
    /\ Goto("generate")
    /\ UNCHANGED <<input, parse, bin, tree, pool, power>>

\* Mutant of ThreadsOf: range(k, HW_THREADS - 1, CORES).
ThreadsButLast(k) == {j \in Cpus : j >= k /\ j < HW_THREADS - 1 /\ (j - k) % CORES = 0}

\* range(k, HW_THREADS, CORES): the logical cores of a physical one.
ThreadsOf(k) == {j \in Cpus : j >= k /\ (j - k) % CORES = 0}

\* Mutant of SetInTree: only the first core's statistics are set.
LeftAsIs(k) == IF k = 0 THEN SumOver([j \in Cpus |-> stats[j][bin]], ThreadsOf(k)) ELSE tree[k]

\* What the tree, which is the one of the bin before, is given for a core.
SetInTree(k) == SumOver([j \in Cpus |-> stats[j][bin]], ThreadsOf(k))

\* The loop over the bins sets every statistic in the tree and writes it.
Generate ==
    /\ pc = "generate" /\ bin \in Bins
    /\ IF ~ L3_AVAIL /\ "l2 reads and writes" \notin AllStats
       THEN Raise("KeyError") /\ UNCHANGED config
       ELSE /\ tree' = [k \in 0 .. CORES - 1 |-> SetInTree(k)]
            /\ dir' = [n \in DOMAIN dir \cup {bin - 1} |->
                          IF n = bin - 1 THEN [bin |-> bin, core |-> tree'] ELSE dir[n]]
            /\ bin' = bin + 1
            /\ Goto(pc)
    /\ UNCHANGED <<input, parse, pool, power>>
-----------------------------------------------------------------------------
(* run_mcpat *)

\* os.listdir: the files in any order.
ListFiles ==
    /\ pc = "generate" /\ bin \notin Bins
    /\ \E f \in [1 .. Cardinality(DOMAIN dir) -> DOMAIN dir] :
          /\ IsInjective(f)
          /\ onlyfiles' = f
    /\ i' = 0
    /\ Goto("launch")
    /\ UNCHANGED <<input, parse, config, pt_results, power_threads, power>>

Batch == {j \in 0 .. WORKER_THREADS - 1 : i + j < Len(onlyfiles)}

Launch ==
    /\ pc = "launch" /\ i < Len(onlyfiles)
    /\ pt_results' = [j \in Batch |-> [file |-> dir[onlyfiles[i + j + 1]], state |-> "queued"]]
    /\ Goto("collect")
    /\ UNCHANGED <<input, parse, config, onlyfiles, i, power_threads, power>>

\* A thread of the pool runs McPAT to its end.  It may end with a status that
\* makes check_output raise, or, after an error it exits with status 0 from,
\* without a component in its output.
Run(j) ==
    /\ j \in DOMAIN pt_results /\ pt_results[j].state = "queued"
    /\ \E s \in {"finished", "empty", "failed"} :
          pt_results' = [pt_results EXCEPT ![j].state = s]
    /\ UNCHANGED <<input, pc, error, parse, config, onlyfiles, i, power_threads, power>>

\* Mutant of Collected: every result is read where the last one was put.
CollectedLast(j) == pt_results[Cardinality(Batch) - 1]
Collected(j) == pt_results[j]

\* get() of every result of the batch: it waits, and raises what was raised.
Collect ==
    /\ pc = "collect"
    /\ \A j \in Batch : pt_results[j].state # "queued"
    /\ IF \E j \in Batch : pt_results[j].state = "failed"
       THEN Raise("CalledProcessError") /\ UNCHANGED <<i, power_threads>>
       ELSE /\ power_threads' = power_threads
                   \o [j \in 1 .. Cardinality(Batch) |-> Collected(j - 1)]
            /\ i' = i + WORKER_THREADS
            /\ Goto("launch")
    /\ UNCHANGED <<input, parse, config, onlyfiles, pt_results, power>>

\* START_TIME is the first bin's time; it is read before the pool starts.
AllCollected ==
    /\ pc = "launch" /\ i >= Len(onlyfiles)
    /\ i' = 1
    /\ Goto("read")
    /\ UNCHANGED <<input, parse, config, onlyfiles, pt_results, power_threads, power>>

\* Mutant of TimeOf: by the place in the listing, not the number in the name.
TimeOfPlace(n) == Label(1) + (n - 1) * OneSecond

\* float(result[0]) + START_TIME: config_<k>.xml is k seconds after the first bin.
TimeOf(n) == Label(1) + onlyfiles[n] * OneSecond

Max(S) == CHOOSE x \in S : \A y \in S : x >= y
Active(k, n) == Max({stats[c][n] : c \in ThreadsOf(k)})

\* The output of one file: the bin the time stands for gives how active each
\* core was, McPAT's output the dynamic power.
ReadResult ==
    /\ pc = "read" /\ i <= Len(onlyfiles)
    /\ LET time == TimeOf(i)
       IN  IF power_threads[i].state = "empty" \/ time \notin Labels
           THEN Raise("KeyError") /\ UNCHANGED <<i, power>>
           ELSE LET n == CHOOSE m \in Bins : Label(m) = time
                IN  /\ power' = [t \in DOMAIN power \cup {time} |->
                          IF t = time
                          THEN [dynamic |-> power_threads[i].file.core,
                                active |-> [k \in 0 .. CORES - 1 |-> Active(k, n)]]
                          ELSE power[t]]
                    /\ i' = i + 1
                    /\ Goto(pc)
    /\ UNCHANGED <<input, parse, config, onlyfiles, pt_results, power_threads>>

\* The tables of counters and of power are written last.
WriteTables ==
    /\ pc = "read" /\ i > Len(onlyfiles)
    /\ Goto("done")
    /\ UNCHANGED <<input, parse, config, pool, power>>

Ended == pc \in {"done", "error"} /\ UNCHANGED vars

Main ==
    \/ ParseSample \/ TotalAndBins \/ Derive \/ ClearDirectory \/ Generate
    \/ ListFiles \/ Launch \/ Collect \/ AllCollected \/ ReadResult \/ WriteTables
Worker == \E j \in 0 .. WORKER_THREADS - 1 : Run(j)

Next == Main \/ Worker \/ Ended

\* The interpreter runs on, and every McPAT process ends (see CactiSolve).
Spec == Init /\ [][Next]_vars /\ WF_vars(Main) /\ WF_vars(Worker)
-----------------------------------------------------------------------------
Trees   == [0 .. CORES - 1 -> Nat]
Configs == [bin : Nat, core : Trees]
Results == [file : Configs, state : {"queued", "finished", "empty", "failed"}]

TypeOK ==
    /\ pc \in {"parse", "derive", "clear", "generate", "launch", "collect", "read",
               "done", "error"}
    /\ error \in {"none", "KeyError", "ZeroDivisionError", "CalledProcessError"}
    /\ error = "none" <=> pc # "error"
    /\ Len(frame) <= Samples
    /\ L3_AVAIL \in BOOLEAN
    /\ bin \in 1 .. Samples - 1 /\ tree \in Trees
    /\ DOMAIN dir \subseteq Nat /\ \A n \in DOMAIN dir : dir[n] \in Configs
    /\ i \in Nat
    /\ \A j \in DOMAIN pt_results : pt_results[j] \in Results
    /\ \A n \in DOMAIN power_threads : power_threads[n] \in Results
    /\ DOMAIN power \subseteq Labels

\* The cycles of core k in bin n, by the samples alone.
Merged(k, n) == SumOver([c \in Cpus |-> work[c][n]], {c \in Cpus : c % CORES = k})
Busiest(k, n) == Max({work[c][n] : c \in {h \in Cpus : h % CORES = k}})

\* The table when the program is done: a row for each bin, of that bin alone.
PowerTable ==
    [t \in Labels |->
        LET n == CHOOSE m \in Bins : Label(m) = t
        IN  [dynamic |-> [k \in 0 .. CORES - 1 |-> Merged(k, n)],
             active |-> [k \in 0 .. CORES - 1 |-> Busiest(k, n)]]]
TableOfItsBins == pc = "done" => power = PowerTable

(* Every bin has its own power: whatever the order of the listing, of the  *)
(* pool and of what an earlier session left, the table has one row for     *)
(* each bin, computed from McPAT's run on that bin's counters and from     *)
(* that bin's activity.  Merging the logical cores into physical ones      *)
(* loses and repeats nothing: the cores of a config file add up to the     *)
(* machine's total of the bin.                                             *)
PowerOfItsBin ==
    /\ TableOfItsBins
    /\ \A n \in DOMAIN dir :
         dir[n].bin \in Bins =>
             SumOver(dir[n].core, 0 .. CORES - 1) = total[dir[n].bin]

(* McPAT never runs on a config file of an earlier session, and no output  *)
(* is read twice or for another file: when a batch is in, place n of the   *)
(* outputs is of place n of the listing.                                   *)
OutputsOfTheirFiles ==
    /\ \A j \in DOMAIN pt_results : pt_results[j].file.bin \in Bins
    /\ \A n \in 1 .. Len(power_threads) : power_threads[n].file = dir[onlyfiles[n]]

McpatFailed ==
    \/ \E j \in DOMAIN pt_results : pt_results[j].state = "failed"
    \/ \E n \in DOMAIN power_threads : power_threads[n].state = "empty"
Whole       == cut = {}

\* Every core counted something in every bin of all that is divided by.
AllCounted ==
    \A c \in Cpus : \A n \in Bins : \A name \in Mandatory \cup {"l3"} : Value(c, n, name) > 0

(* A whole log with the counters of the L3 cache is analysed, bins of one  *)
(* second, unless McPAT fails or a counter the program divides by is zero  *)
(* for a core in some bin: one core that counts 0 ends the analysis of all.*)
WholeLogAnalysed ==
    (Whole /\ "l3" \in list /\ AllCounted /\ BinSize = OneSecond) =>
        [](pc = "error" => McpatFailed) /\ <>(pc \in {"done", "error"})
=============================================================================
