---------------------------- MODULE PerfSession ----------------------------
(***************************************************************************)
(* cluster_functions.sh: a measuring script calls run_perf, runs the       *)
(* workload, calls stop_perf and then marshal_perf, for this machine       *)
(* (Local) or for the nodes of a cluster.  perf runs beside the script and *)
(* nothing waits for it: it still writes its last sample while the script  *)
(* moves its log, appends the times and cleans it with sed.                *)
(*                                                                         *)
(* perf flushes a sample of all counters in two parts.  A log is the parts *)
(* in it and the times of its START TIME and END TIME lines (0: no line).  *)
(* Its comment and blank lines, which sed deletes, are left out.           *)
(***************************************************************************)
EXTENDS Integers, Sequences, SequencesExt

CONSTANTS Nodes,       \* the machines there are
          Local,       \* this machine: the node called "local"
          Scripts,     \* the sets of nodes a script may measure, once each
          MaxSamples,  \* bound on the samples before perf is stopped
          MaxTime      \* bound on the clock

ASSUME SessionAssumption ==
    /\ Local \in Nodes /\ Scripts \subseteq SUBSET Nodes
    /\ MaxSamples \in Nat \ {0}
    /\ MaxTime \in Nat /\ MaxTime >= 2

OldTime == 1     \* an earlier session ended before this one starts at 2
NoTime  == 0

VARIABLES
    quiet,                      \* "y" is passed as the quiet argument
    EXIT_CODE, QUIET_MODE, PERF_START_TIME, PERF_END_TIME,   \* shell variables
    pc, node,                   \* the step of marshal_perf and its $1
    phase,                      \* the call each node awaits
    counters, results,          \* counters.csv and <name>-counters.csv of a node
    snapshot,                   \* what sed -i has read
    perf, writer, wrote, last,  \* perf: state, the file it writes, parts written, to write
    now,
    began, ended, before, taken, analysed   \* history

shell   == <<EXIT_CODE, QUIET_MODE, PERF_START_TIME, PERF_END_TIME>>
script  == <<pc, node, phase>>
files   == <<counters, results, snapshot>>
process == <<perf, writer, wrote, last>>
history == <<began, ended, before, taken, analysed>>
vars    == <<quiet, shell, script, files, process, now, history>>

Part(run, i) == [run |-> run, sample |-> (i + 1) \div 2, half |-> 2 - (i % 2)]
NoFile    == [lines |-> <<>>, start |-> NoTime, end |-> NoTime, exists |-> FALSE]
EmptyFile == [NoFile EXCEPT !.exists = TRUE]
OldLog    == [EmptyFile EXCEPT !.lines = <<Part("old", 1), Part("old", 2)>>]
OldResult == [OldLog EXCEPT !.start = OldTime, !.end = OldTime]

Init ==
    /\ quiet \in BOOLEAN
    /\ EXIT_CODE = 0 /\ QUIET_MODE = FALSE
    /\ PERF_START_TIME = NoTime /\ PERF_END_TIME = NoTime
    /\ pc = "script" /\ node = (CHOOSE n \in Nodes : TRUE)
    /\ \E S \in Scripts : phase = [n \in Nodes |-> IF n \in S THEN "run" ELSE "done"]
    \* an earlier session may have left its files
    /\ counters \in [Nodes -> {NoFile, OldLog}] /\ results \in [Nodes -> {NoFile, OldResult}]
    /\ \A n \in Nodes : phase[n] = "done" => counters[n] = NoFile /\ results[n] = NoFile
    /\ snapshot = NoFile
    /\ perf = [n \in Nodes |-> "none"]
    /\ writer = [n \in Nodes |-> "none"]
    /\ wrote = [n \in Nodes |-> 0]
    /\ last = [n \in Nodes |-> 2 * MaxSamples]
    /\ now = OldTime + 1
    /\ began = [n \in Nodes |-> NoTime] /\ ended = [n \in Nodes |-> NoTime]
    /\ before = [n \in Nodes |-> 0] /\ taken = [n \in Nodes |-> FALSE]
    /\ analysed = [n \in Nodes |-> NoFile]
-----------------------------------------------------------------------------
(* The script. *)

\* execute: nothing is run in quiet mode, and EXIT_CODE keeps its value.
\* Its mutant runs the command without taking its status.
ExecuteForgetting(q, command, status) ==
    IF q THEN EXIT_CODE' = EXIT_CODE ELSE command /\ EXIT_CODE' = EXIT_CODE
Execute(q, command, status) ==
    IF q THEN EXIT_CODE' = EXIT_CODE ELSE command /\ EXIT_CODE' = status

\* rm counters.csv, and its mutant without it.
LeaveLog(n)  == counters' = counters
RemoveLog(n) == counters' = [counters EXCEPT ![n] = NoFile]

\* A command put in the background has status 0.
RunPerf(n) ==
    /\ pc = "script" /\ phase[n] = "run"
    /\ QUIET_MODE' = quiet
    /\ RemoveLog(n)
    /\ IF n = Local /\ quiet
       THEN perf' = perf
       ELSE perf' = [perf EXCEPT ![n] = "starting"]
    /\ EXIT_CODE' = IF n = Local /\ ~ quiet THEN 0 ELSE EXIT_CODE
    /\ PERF_START_TIME' = now
    /\ phase' = [phase EXCEPT ![n] = "stop"]
    /\ began' = [began EXCEPT ![n] = now]
    /\ UNCHANGED <<quiet, PERF_END_TIME, pc, node, results, snapshot, writer, wrote, last,
                   now, ended, before, taken, analysed>>

\* Mutant of LastPart: a sample begun is not finished.
LastPartWritten(parts) == 2 * (parts \div 2)

\* The samples perf goes on to write once its sleep is gone: the rest of the
\* one begun and one more.
LastPart(parts) == 2 * ((parts + 1) \div 2) + 2

\* Mutant of Kill: the signal is sent but perf's sleep is not among its targets.
KillOthers(n) == UNCHANGED <<perf, last>>

\* pkill sleep: perf ends when the command it measures does.
Kill(n) ==
    IF perf[n] = "running"
    THEN /\ perf' = [perf EXCEPT ![n] = "ending"]
         /\ last' = [last EXCEPT ![n] = LastPart(wrote[n])]
    ELSE UNCHANGED <<perf, last>>

\* The quiet argument goes to QUITE_MODE, which nothing reads: QUIET_MODE is
\* the one of the last run_perf or marshal_perf.
StopPerf(n) ==
    /\ pc = "script" /\ phase[n] = "stop"
    /\ IF n = Local
       THEN /\ Execute(QUIET_MODE, Kill(n), IF perf[n] = "running" THEN 0 ELSE 1)
            /\ QUIET_MODE => UNCHANGED <<perf, last>>
       ELSE Kill(n) /\ EXIT_CODE' = EXIT_CODE
    /\ PERF_END_TIME' = now
    /\ phase' = [phase EXCEPT ![n] = "marshal"]
    /\ ended' = [ended EXCEPT ![n] = now]
    /\ before' = [before EXCEPT ![n] = wrote[n] \div 2]
    /\ UNCHANGED <<quiet, QUIET_MODE, PERF_START_TIME, pc, node, files, writer, wrote, now,
                   began, taken, analysed>>

\* mv within a file system: perf goes on writing to the moved file.  From
\* one file system to another: perf goes on writing to a deleted file.
Move(n) ==
    /\ results' = [results EXCEPT ![n] = IF counters[n].exists THEN counters[n] ELSE @]
    /\ counters' = [counters EXCEPT ![n] = NoFile]
    /\ IF counters[n].exists /\ writer[n] = "counters"
       THEN \E w \in {"results", "deleted"} : writer' = [writer EXCEPT ![n] = w]
       ELSE UNCHANGED writer

\* scp: its status is not looked at.
Fetch(n) ==
    /\ results' = [results EXCEPT ![n] = IF counters[n].exists THEN counters[n] ELSE @]
    /\ EXIT_CODE' = EXIT_CODE
    /\ UNCHANGED <<counters, writer>>

BeginMarshal(n) ==
    /\ pc = "script" /\ phase[n] = "marshal"
    /\ QUIET_MODE' = quiet /\ node' = n
    /\ IF n = Local
       THEN /\ Execute(quiet, Move(n), IF counters[n].exists THEN 0 ELSE 1)
            /\ quiet => UNCHANGED <<results, counters, writer>>
       ELSE Fetch(n)
    /\ pc' = "start"
    /\ taken' = [taken EXCEPT ![n] = counters[n].exists /\ ~ (n = Local /\ quiet)]
    /\ UNCHANGED <<quiet, PERF_START_TIME, PERF_END_TIME, phase, snapshot, perf, wrote, last,
                   now, began, ended, before, analysed>>

\* Mutant of PostTimes: > for >>.
Overwrite(file, start, end) == [EmptyFile EXCEPT !.start = start, !.end = end]

\* Mutant of PostTimes: the two times are swapped.
AppendSwapped(file, start, end) == [file EXCEPT !.start = end, !.end = start, !.exists = TRUE]

\* echo "START TIME,..." >> the log: a file that is not there is created.
PostTimes(file, start, end) == [file EXCEPT !.start = start, !.end = end, !.exists = TRUE]

PostStart ==
    /\ pc = "start"
    /\ results' = IF EXIT_CODE = 0
                  THEN [results EXCEPT ![node] = PostTimes(@, PERF_START_TIME, @.end)]
                  ELSE results
    /\ pc' = IF EXIT_CODE = 0 THEN "end" ELSE "sed"
    /\ UNCHANGED <<quiet, shell, node, phase, counters, snapshot, process, now, history>>

PostEnd ==
    /\ pc = "end"
    /\ results' = [results EXCEPT ![node] = PostTimes(@, @.start, PERF_END_TIME)]
    /\ pc' = "sed"
    /\ UNCHANGED <<quiet, shell, node, phase, counters, snapshot, process, now, history>>

\* sed -i reads the log into a new file ...
SedRead ==
    /\ pc = "sed"
    /\ snapshot' = results[node]
    /\ pc' = "rename"
    /\ UNCHANGED <<quiet, shell, node, phase, counters, results, process, now, history>>

\* ... and renames it over the old one, which perf may still have open.  The
\* three runs of sed after the first find no writer.
SedRename ==
    /\ pc = "rename"
    /\ results' = [results EXCEPT ![node] = snapshot]
    /\ writer' = IF writer[node] = "results"
                 THEN [writer EXCEPT ![node] = "deleted"] ELSE writer
    /\ snapshot' = NoFile
    /\ pc' = "process"
    /\ UNCHANGED <<quiet, shell, node, phase, counters, perf, wrote, last, now, history>>

\* process.py needs a sample, and every counter of every sample.
Analysable(log) ==
    /\ log.lines # <<>>
    /\ log.lines[Len(log.lines)].half = 2

Analyse ==
    /\ pc = "process"
    /\ Execute(QUIET_MODE, analysed' = [analysed EXCEPT ![node] = results[node]],
               IF Analysable(results[node]) THEN 0 ELSE 1)
    /\ QUIET_MODE => UNCHANGED analysed
    /\ phase' = [phase EXCEPT ![node] = "done"]
    /\ pc' = "script"
    /\ UNCHANGED <<quiet, QUIET_MODE, PERF_START_TIME, PERF_END_TIME, node, files, process, now,
                   began, ended, before, taken>>
-----------------------------------------------------------------------------
(* perf, and time. *)

\* perf opens its log and starts its sleep; or it finds no such counter and
\* ends, with or without an empty log.
PerfStarts(n) ==
    /\ perf[n] = "starting"
    /\ \/ /\ perf' = [perf EXCEPT ![n] = "running"]
          /\ counters' = [counters EXCEPT ![n] = IF n = Local THEN EmptyFile
                                                 ELSE [@ EXCEPT !.exists = TRUE]]
          /\ writer' = [writer EXCEPT ![n] = "counters"]
       \/ /\ perf' = [perf EXCEPT ![n] = "gone"]
          /\ counters' \in {counters, [counters EXCEPT ![n].exists = TRUE]}
          /\ UNCHANGED writer
    /\ UNCHANGED <<quiet, shell, script, results, snapshot, wrote, last, now, history>>

WithPart(file, part) == [file EXCEPT !.lines = Append(@, part)]

\* perf writes where it stopped writing: over what was appended after it.
WritePart(n) ==
    /\ perf[n] \in {"running", "ending"} /\ wrote[n] < last[n]
    /\ wrote' = [wrote EXCEPT ![n] = @ + 1]
    /\ LET part == Part("new", wrote[n] + 1)
       IN  \/ /\ writer[n] = "counters"
              /\ counters' = [counters EXCEPT ![n] = WithPart(@, part)]
              /\ UNCHANGED results
           \/ /\ writer[n] = "results"
              /\ results' = [results EXCEPT ![n] =
                    [WithPart(@, part) EXCEPT !.start = NoTime, !.end = NoTime]]
              /\ UNCHANGED counters
           \/ writer[n] = "deleted" /\ UNCHANGED <<counters, results>>
    /\ UNCHANGED <<quiet, shell, script, snapshot, perf, writer, last, now, history>>

PerfExits(n) ==
    /\ perf[n] = "ending" /\ wrote[n] = last[n]
    /\ perf' = [perf EXCEPT ![n] = "gone"]
    /\ writer' = [writer EXCEPT ![n] = "none"]
    /\ UNCHANGED <<quiet, shell, script, files, wrote, last, now, history>>

Tick ==
    /\ pc = "script" /\ now < MaxTime
    /\ now' = now + 1
    /\ UNCHANGED <<quiet, shell, script, files, process, history>>

Call(n)    == RunPerf(n) \/ StopPerf(n) \/ BeginMarshal(n)
Marshal    == PostStart \/ PostEnd \/ SedRead \/ SedRename \/ Analyse
PerfOf(n)  == PerfStarts(n) \/ WritePart(n) \/ PerfExits(n)
Finished   == (\A n \in Nodes : phase[n] = "done") /\ UNCHANGED vars

Next == (\E n \in Nodes : Call(n) \/ PerfOf(n)) \/ Marshal \/ Tick \/ Finished

\* The shell goes on with the script, and the kernel runs perf.
Fairness ==
    /\ WF_vars((\E n \in Nodes : Call(n)) \/ Marshal)
    /\ \A n \in Nodes : WF_vars(PerfOf(n))
Spec == Init /\ [][Next]_vars /\ Fairness
-----------------------------------------------------------------------------
Parts == [run : {"old", "new"}, sample : 1 .. MaxSamples + 2, half : 1 .. 2]
Times == 0 .. MaxTime
Files == [lines : Seq(Parts), start : Times, end : Times, exists : BOOLEAN]

TypeOK ==
    /\ quiet \in BOOLEAN
    /\ EXIT_CODE \in {0, 1} /\ QUIET_MODE \in BOOLEAN
    /\ PERF_START_TIME \in Times /\ PERF_END_TIME \in Times /\ now \in Times
    /\ pc \in {"script", "start", "end", "sed", "rename", "process"} /\ node \in Nodes
    /\ phase \in [Nodes -> {"run", "stop", "marshal", "done"}]
    /\ counters \in [Nodes -> Files] /\ results \in [Nodes -> Files] /\ snapshot \in Files
    /\ perf \in [Nodes -> {"none", "starting", "running", "ending", "gone"}]
    /\ writer \in [Nodes -> {"none", "counters", "results", "deleted"}]
    /\ wrote \in [Nodes -> Nat] /\ last \in [Nodes -> Nat]
    /\ \A n \in Nodes : wrote[n] <= last[n]
    /\ taken \in [Nodes -> BOOLEAN]

NewParts(k) == [i \in 1 .. k |-> Part("new", i)]

(* A log analysed holds one session only: the samples of this one from the *)
(* first on, none missing before another; or an earlier session's, and     *)
(* then only when this session had no log for marshal_perf to take.        *)
(* Samples of two sessions in one log would run time backwards, and        *)
(* normalize_stats would subtract time stamps to negative lengths.         *)
OneSessionALog ==
    \A n \in Nodes :
        LET lines == analysed[n].lines
        IN  \/ lines = NewParts(Len(lines))
            \/ lines = OldLog.lines /\ ~ taken[n]

(* The times a log is analysed under are those of the session that wrote   *)
(* it: the comment "Post the start and end times for this run".  On this   *)
(* machine mv's status guards them, and the log of an earlier session      *)
(* keeps its own.  The exception is the code's: no command for a remote    *)
(* node sets EXIT_CODE, so when its log is gone and an earlier result lies *)
(* in its place, that result is given this session's times and analysed.   *)
TimesOfThisRun ==
    \A n \in Nodes :
        LET log   == analysed[n]
            times == <<log.start, log.end>>
        IN  IF log.lines # OldLog.lines
            THEN log.start \in {NoTime, began[n]} /\ log.end \in {NoTime, ended[n]}
            ELSE \/ times = <<OldTime, OldTime>>
                 \/ n # Local /\ ~ taken[n] /\ times = <<began[n], ended[n]>>

(* The same, of the log analysed after the times were posted: nothing but  *)
(* a failed mv may keep them from being there.                             *)
TimesSurvive ==
    \A n \in Nodes :
        (phase[n] = "done" /\ analysed[n].lines # <<>> /\ analysed[n].lines # OldLog.lines) =>
            analysed[n].start # NoTime /\ analysed[n].end # NoTime

(* Whatever perf still writes while its log is moved, appended to and      *)
(* cleaned, every sample whole when stop_perf was called is analysed,      *)
(* unless perf wrote no log at all.                                        *)
StoppedSamplesAnalysed ==
    \A n \in Nodes :
        (phase[n] = "done" /\ ~ quiet /\ wrote[n] > 0) =>
            IsPrefix(NewParts(2 * before[n]), analysed[n].lines)

(* A perf that sampled when stop_perf was called ends.                     *)
StoppedPerfEnds ==
    \A n \in Nodes :
        [](phase[n] = "stop" /\ perf[n] = "running" =>
             [](phase[n] # "stop" => <>(perf[n] = "gone")))
=============================================================================
