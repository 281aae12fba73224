------------------------- MODULE PowerPipelineProof -------------------------
(***************************************************************************)
(* That outputs are of their files, every row of the power table is of its *)
(* bin and the physical cores have between them the cycles of the logical  *)
(* ones: for any log, cores, logical cores, size of the pool and of a bin, *)
(* and for every order of the listing.                                     *)
(***************************************************************************)
EXTENDS PowerPipeline, FiniteSetTheorems, TLAPS

Cores == 0 .. CORES - 1
Names == Mandatory \cup Optional

FileOf(n) == [bin |-> n, core |-> [k \in Cores |-> Merged(k, n)]]
Files     == {FileOf(n) : n \in Bins}
Outputs   == [file : Files, state : {"queued", "finished", "empty", "failed"}]

(* What was read is the samples' own, the cut one's apart. *)
ReadSoFar ==
    /\ work \in Works /\ zeros \in Zeros /\ list \subseteq Optional
    /\ frame \in Seq([Cpus -> UNION {[S -> Nat] : S \in SUBSET Names}])
    /\ Len(frame) <= Samples
    /\ \A s \in 1 .. Len(frame) : \A c \in Cpus : s < Samples => frame[s][c]["busy"] = work[c][s]
    /\ pc \notin {"parse", "error"} => stats = [c \in Cpus |-> [n \in Bins |-> work[c][n]]]

(* The config files are those of the bins so far, each of its own bin. *)
Written ==
    /\ pc \in {"parse", "derive", "clear"} => bin = 1
    /\ pc = "generate" =>
         /\ bin \in 1 .. Samples - 1
         /\ DOMAIN dir = 0 .. bin - 2
         /\ \A n \in 0 .. bin - 2 : dir[n] = FileOf(n + 1)
    /\ pc \in {"launch", "collect", "read", "done"} =>
         /\ DOMAIN dir = 0 .. Samples - 3
         /\ \A n \in 0 .. Samples - 3 : dir[n] = FileOf(n + 1)

Listed ==
    pc \in {"launch", "collect", "read", "done"} =>
         /\ onlyfiles \in [1 .. Samples - 2 -> 0 .. Samples - 3]
         /\ IsInjective(onlyfiles)
         /\ i \in Nat

(* What the pool has done is kept by place in the listing. *)
Collecting ==
    /\ pc \in {"parse", "derive", "clear", "generate"} => pt_results = <<>> /\ power_threads = <<>>
    /\ \A j \in DOMAIN pt_results : pt_results[j] \in Outputs
    /\ pc = "collect" =>
         /\ i < Samples - 2
         /\ DOMAIN pt_results = Batch
         /\ \A j \in Batch : pt_results[j].file = dir[onlyfiles[i + j + 1]]
    /\ power_threads \in Seq(Outputs)
    /\ \A n \in 1 .. Len(power_threads) : power_threads[n].file = dir[onlyfiles[n]]
    /\ pc \in {"launch", "collect"} =>
         Len(power_threads) = IF i < Samples - 2 THEN i ELSE Samples - 2
    /\ pc \in {"read", "done"} => Len(power_threads) = Samples - 2

BinOf(t) == CHOOSE m \in Bins : Label(m) = t
Row(n) == [dynamic |-> power_threads[n].file.core,
           active |-> [k \in Cores |-> Active(k, BinOf(TimeOf(n)))]]

TimesRead == {TimeOf(n) : n \in 1 .. i - 1}

(* The table has the rows of the outputs read so far. *)
ReadBack ==
    /\ pc \in {"parse", "derive", "clear", "generate", "launch", "collect"} => power = <<>>
    /\ pc = "read" => i \in 1 .. Samples - 1
    /\ pc = "done" => i = Samples - 1
    /\ pc \in {"read", "done"} =>
         /\ \A n \in 1 .. i - 1 : TimeOf(n) \in Labels
         /\ \A n \in 1 .. i - 1 : power[TimeOf(n)] = Row(n)
         /\ DOMAIN power = TimesRead
         /\ i > 1 => power = [t \in TimesRead |-> power[t]]

IInv == ReadSoFar /\ Written /\ Listed /\ Collecting /\ ReadBack

-----------------------------------------------------------------------------
(* The logical cores of a physical one are those it is the remainder of. *)
LEMMA ThreadsByRemainder ==
    ASSUME NEW k \in Cores
    PROVE  ThreadsOf(k) = {c \in Cpus : c % CORES = k}
  <1>1. ASSUME NEW j \in Cpus PROVE (j >= k /\ (j - k) % CORES = 0) <=> j % CORES = k
    BY <1>1, PipelineAssumption DEF Cpus, Cores
  <1> QED
    BY <1>1 DEF ThreadsOf

LEMMA LabelsDiffer ==
    ASSUME NEW m \in Bins, NEW n \in Bins, Label(m) = Label(n)
    PROVE  m = n
  BY PipelineAssumption DEF Label, Bins

-----------------------------------------------------------------------------
LEMMA InitInv == Init => IInv
  <1> SUFFICES ASSUME Init PROVE IInv
    OBVIOUS
  <1>1. ReadSoFar
    <2>1. work \in Works /\ zeros \in Zeros /\ list \subseteq Optional
      BY PipelineAssumption DEF Init
    <2>2. frame = <<>> /\ Len(frame) = 0 /\ pc = "parse"
      BY DEF Init
    <2> QED
      BY <2>1, <2>2, PipelineAssumption DEF ReadSoFar
  <1>2. Written /\ Listed /\ Collecting /\ ReadBack
    BY DEF Init, Written, Listed, Collecting, ReadBack
  <1> QED
    BY <1>1, <1>2 DEF IInv

LEMMA ParseKeeps == ASSUME IInv, ParseSample PROVE IInv'
  <1> DEFINE s == Len(frame) + 1
             row == [c \in Cpus |-> [name \in Rows(s) |-> Value(c, s, name)]]
  <1>0. /\ pc = "parse" /\ s <= Samples /\ frame' = Append(frame, row)
        /\ UNCHANGED <<input, pc, error, stats, total, L3_AVAIL, config, pool, power>>
    <2>1. Len(frame) \in Nat
      BY DEF IInv, ReadSoFar
    <2> QED
      BY <2>1, PipelineAssumption DEF ParseSample
  <1>1. ReadSoFar'
    <2>1. Rows(s) \in SUBSET Names /\ (s < Samples => "busy" \in Rows(s))
      BY DEF IInv, ReadSoFar, Rows, Names, Mandatory
    <2>2. \A c \in Cpus : /\ work[c][s] \in Nat /\ Value(c, s, "busy") = work[c][s]
                          /\ \A name \in Names : Value(c, s, name) \in Nat
      <3>1. \A c \in Cpus : work[c][s] \in Nat
        BY <1>0, PipelineAssumption DEF IInv, ReadSoFar
      <3>2. \A c \in Cpus : <<c, s, "busy">> \notin zeros
        BY ZerosAssumption DEF IInv, ReadSoFar
      <3> QED
        BY <3>1, <3>2 DEF Value
    <2>3. row \in [Cpus -> UNION {[S -> Nat] : S \in SUBSET Names}]
      BY <2>1, <2>2
    <2>4. \A c \in Cpus : s < Samples => row[c]["busy"] = work[c][s]
      BY <2>1, <2>2
    <2> HIDE DEF row
    <2>5. /\ frame' \in Seq([Cpus -> UNION {[S -> Nat] : S \in SUBSET Names}])
          /\ Len(frame') = s
          /\ \A n \in 1 .. Len(frame) : frame'[n] = frame[n]
          /\ frame'[s] = row
      BY <1>0, <2>3 DEF IInv, ReadSoFar
    <2> QED
      BY <1>0, <2>4, <2>5 DEF IInv, ReadSoFar, input
  <1>2. (Written /\ Listed /\ Collecting /\ ReadBack)'
    BY <1>0 DEF IInv, Written, Listed, Collecting, ReadBack, input, config, pool
  <1> QED
    BY <1>1, <1>2 DEF IInv

LEMMA TotalKeeps == ASSUME IInv, TotalAndBins PROVE IInv'
  <1>0. /\ pc = "parse" /\ Len(frame) = Samples
        /\ UNCHANGED <<input, frame, config, pool, power>>
        /\ \/ pc' = "error"
           \/ pc' = "derive" /\ stats' = [c \in Cpus |-> [n \in Bins |-> frame[n][c]["busy"]]]
    BY DEF TotalAndBins, Raise, Goto
  <1>1. ReadSoFar'
    <2>1. \A n \in Bins : \A c \in Cpus : frame[n][c]["busy"] = work[c][n]
      BY <1>0, PipelineAssumption DEF IInv, ReadSoFar, Bins
    <2>2. UNCHANGED <<work, zeros, list, cut, old, frame>>
      BY <1>0 DEF input
    <2>3. CASE pc' = "error"
      BY <2>2, <2>3 DEF IInv, ReadSoFar
    <2>4. CASE pc' = "derive" /\ stats' = [c \in Cpus |-> [n \in Bins |-> frame[n][c]["busy"]]]
      BY <1>0, <2>1, <2>2, <2>4 DEF IInv, ReadSoFar
    <2> QED
      BY <1>0, <2>3, <2>4
  <1>2. (Written /\ Listed /\ Collecting /\ ReadBack)'
    BY <1>0 DEF IInv, Written, Listed, Collecting, ReadBack, input, config, pool
  <1> QED
    BY <1>1, <1>2 DEF IInv

LEMMA DeriveKeeps == ASSUME IInv, Derive PROVE IInv'
  <1>0. pc = "derive" /\ pc' \in {"error", "clear"} /\ UNCHANGED <<input, parse, config, pool, power>>
    BY DEF Derive, Raise, Goto
  <1> QED
    BY <1>0 DEF IInv, ReadSoFar, Written, Listed, Collecting, ReadBack, input, parse, config, pool

LEMMA ClearKeeps == ASSUME IInv, ClearDirectory PROVE IInv'
  <1>0. /\ pc = "clear" /\ pc' = "generate" /\ dir' = <<>>
        /\ UNCHANGED <<input, parse, bin, tree, pool, power>>
    BY DEF ClearDirectory, Goto, Cleared
  <1>1. Written'
    BY <1>0, PipelineAssumption DEF IInv, Written
  <1> QED
    BY <1>0, <1>1 DEF IInv, ReadSoFar, Listed, Collecting, ReadBack, input, parse, pool

(* The logical cores summed in the tree are those of the physical core. *)
LEMMA GenerateKeeps == ASSUME IInv, Generate PROVE IInv'
  <1>0. /\ pc = "generate" /\ bin \in Bins /\ UNCHANGED <<input, parse, pool, power>>
        /\ \/ pc' = "error" /\ UNCHANGED config
           \/ /\ pc' = pc /\ bin' = bin + 1
              /\ tree' = [k \in Cores |-> SumOver([j \in Cpus |-> stats[j][bin]], ThreadsOf(k))]
              /\ dir' = [n \in DOMAIN dir \cup {bin - 1} |->
                            IF n = bin - 1 THEN [bin |-> bin, core |-> tree'] ELSE dir[n]]
    BY DEF Generate, SetInTree, Raise, Goto, Cores
  <1>1. CASE pc' = "error"
    BY <1>0, <1>1 DEF IInv, ReadSoFar, Written, Listed, Collecting, ReadBack, input, parse, config, pool
  <1>2. CASE pc' = pc
    <2>1. [j \in Cpus |-> stats[j][bin]] = [c \in Cpus |-> work[c][bin]]
      BY <1>0 DEF IInv, ReadSoFar
    <2>2. tree' = [k \in Cores |-> Merged(k, bin)]
      BY <1>0, <1>2, <2>1, ThreadsByRemainder DEF Merged
    <2>3. Written'
      <3>1. DOMAIN dir' = 0 .. bin - 1
        BY <1>0, <1>2, PipelineAssumption DEF IInv, Written, Bins
      <3>2. \A n \in 0 .. bin - 1 : dir'[n] = FileOf(n + 1)
        <4>1. [bin |-> bin, core |-> tree'] = FileOf(bin)
          BY <2>2 DEF FileOf
        <4>2. bin \in 1 .. Samples - 1 /\ DOMAIN dir = 0 .. bin - 2
              /\ \A n \in 0 .. bin - 2 : dir[n] = FileOf(n + 1)
          BY <1>0 DEF IInv, Written
        <4> HIDE DEF FileOf
        <4>3. ASSUME NEW n \in 0 .. bin - 1 PROVE dir'[n] = FileOf(n + 1)
          <5>1. CASE n = bin - 1
            BY <1>0, <1>2, <3>1, <4>1, <4>2, <5>1
          <5>2. CASE n # bin - 1
            BY <1>0, <1>2, <3>1, <4>2, <5>2
          <5> QED
            BY <5>1, <5>2
        <4> QED
          BY <4>3
      <3>3. bin' \in 1 .. Samples - 1
        BY <1>0, <1>2, PipelineAssumption DEF Bins
      <3>4. bin' - 2 = bin - 1
        BY <1>0, <1>2, PipelineAssumption DEF Bins
      <3> HIDE DEF FileOf
      <3>5. \A n : FileOf(n)' = FileOf(n)
        BY <1>0 DEF FileOf, Merged, input
      <3> QED
        BY <1>0, <1>2, <3>1, <3>2, <3>3, <3>4, <3>5 DEF Written
    <2> QED
      BY <1>0, <1>2, <2>3 DEF IInv, ReadSoFar, Listed, Collecting, ReadBack, input, parse, pool
  <1> QED
    BY <1>0, <1>1, <1>2

LEMMA ListKeeps == ASSUME IInv, ListFiles PROVE IInv'
  <1>0. /\ pc = "generate" /\ bin \notin Bins /\ pc' = "launch" /\ i' = 0
        /\ onlyfiles' \in [1 .. Cardinality(DOMAIN dir) -> DOMAIN dir] /\ IsInjective(onlyfiles')
        /\ UNCHANGED <<input, parse, config, pt_results, power_threads, power>>
    BY DEF ListFiles, Goto
  <1>1. bin = Samples - 1 /\ DOMAIN dir = 0 .. Samples - 3
    BY <1>0, PipelineAssumption DEF IInv, Written, Bins
  <1>2. Cardinality(DOMAIN dir) = Samples - 2
    BY <1>1, FS_Interval, PipelineAssumption
  <1>3. Written' /\ Listed'
    <2>1. \A n : FileOf(n)' = FileOf(n)
      BY <1>0 DEF FileOf, Merged, input
    <2> QED
      BY <1>0, <1>1, <1>2, <2>1 DEF IInv, Written, Listed, config
  <1>4. Collecting'
    <2>1. pt_results = <<>> /\ power_threads = <<>>
      BY <1>0 DEF IInv, Collecting
    <2> QED
      BY <1>0, <2>1, PipelineAssumption DEF Collecting
  <1> QED
    BY <1>0, <1>3, <1>4 DEF IInv, ReadSoFar, ReadBack, input, parse

LEMMA Joined ==
    ASSUME NEW S, NEW a \in Seq(S), NEW b \in Seq(S)
    PROVE  /\ a \o b \in Seq(S) /\ Len(a \o b) = Len(a) + Len(b)
           /\ \A n \in 1 .. Len(a) : (a \o b)[n] = a[n]
           /\ \A n \in Len(a) + 1 .. Len(a) + Len(b) : (a \o b)[n] = b[n - Len(a)]
  OBVIOUS

(* A batch holds the next files of the listing. *)
LEMMA BatchIsInterval ==
    ASSUME NEW c \in Nat, c = i, onlyfiles \in [1 .. Samples - 2 -> 0 .. Samples - 3], i < Samples - 2
    PROVE  LET b == IF i + WORKER_THREADS < Samples - 2 THEN WORKER_THREADS ELSE Samples - 2 - i
           IN  Batch = 0 .. b - 1 /\ Cardinality(Batch) = b /\ b \in Nat /\ b > 0 /\ i + b <= Samples - 2
  <1> DEFINE b == IF i + WORKER_THREADS < Samples - 2 THEN WORKER_THREADS ELSE Samples - 2 - i
  <1>1. Len(onlyfiles) = Samples - 2
    BY PipelineAssumption
  <1>2. b \in Nat /\ b > 0 /\ i + b <= Samples - 2
    BY PipelineAssumption
  <1>3. Batch = 0 .. b - 1
    BY <1>1, PipelineAssumption DEF Batch
  <1> HIDE DEF b
  <1>4. Cardinality(0 .. b - 1) = b
    BY <1>2, FS_Interval
  <1> QED
    BY <1>2, <1>3, <1>4 DEF b

LEMMA LaunchKeeps == ASSUME IInv, Launch PROVE IInv'
  <1>0. /\ pc = "launch" /\ i < Len(onlyfiles) /\ pc' = "collect"
        /\ pt_results' = [j \in Batch |-> [file |-> dir[onlyfiles[i + j + 1]], state |-> "queued"]]
        /\ UNCHANGED <<input, parse, config, onlyfiles, i, power_threads, power>>
    BY DEF Launch, Goto
  <1>1. /\ onlyfiles \in [1 .. Samples - 2 -> 0 .. Samples - 3] /\ i \in Nat
        /\ Len(onlyfiles) = Samples - 2
    BY <1>0, PipelineAssumption DEF IInv, Listed
  <1>2. \A j \in Batch : dir[onlyfiles[i + j + 1]] \in Files
    <2> SUFFICES ASSUME NEW j \in Batch PROVE dir[onlyfiles[i + j + 1]] \in Files
      OBVIOUS
    <2>1. i + j + 1 \in 1 .. Samples - 2
      BY <1>1, PipelineAssumption DEF Batch
    <2>2. onlyfiles[i + j + 1] \in 0 .. Samples - 3
      BY <1>1, <2>1
    <2>3. onlyfiles[i + j + 1] + 1 \in Bins
      BY <2>2, PipelineAssumption DEF Bins
    <2> QED
      BY <1>0, <2>2, <2>3 DEF IInv, Written, Files
  <1>3. \A j \in Batch : pt_results'[j] \in Outputs /\ pt_results'[j].file = dir[onlyfiles[i + j + 1]]
    BY <1>0, <1>2 DEF Outputs
  <1>4. Batch' = Batch
    BY <1>0 DEF Batch
  <1>5. \A n : FileOf(n)' = FileOf(n)
    BY <1>0 DEF FileOf, Merged, input
  <1>6. Files' = Files /\ Outputs' = Outputs
    BY <1>5 DEF Files, Outputs
  <1>7. Collecting'
    BY <1>0, <1>1, <1>3, <1>4, <1>6 DEF IInv, Collecting, config
  <1>8. Written'
    BY <1>0, <1>5 DEF IInv, Written, config
  <1> QED
    BY <1>0, <1>7, <1>8 DEF IInv, ReadSoFar, Listed, ReadBack, input, parse

LEMMA RunKeeps == ASSUME IInv, NEW j \in 0 .. WORKER_THREADS - 1, Run(j) PROVE IInv'
  <1>0. /\ j \in DOMAIN pt_results
        /\ UNCHANGED <<input, pc, error, parse, config, onlyfiles, i, power_threads, power>>
        /\ \E s \in {"finished", "empty", "failed"} : pt_results' = [pt_results EXCEPT ![j].state = s]
    BY DEF Run
  <1>1. PICK s \in {"finished", "empty", "failed"} : pt_results' = [pt_results EXCEPT ![j].state = s]
    BY <1>0
  <1> DEFINE r == [pt_results[j] EXCEPT !.state = s]
  <1>2. pt_results' = [pt_results EXCEPT ![j] = r]
    BY <1>1
  <1>3. r \in Outputs /\ r.file = pt_results[j].file
    BY <1>0 DEF IInv, Collecting, Outputs
  <1> HIDE DEF r
  <1>4. /\ DOMAIN pt_results' = DOMAIN pt_results
        /\ \A m \in DOMAIN pt_results : pt_results'[m] \in Outputs /\ pt_results'[m].file = pt_results[m].file
    BY <1>0, <1>2, <1>3 DEF IInv, Collecting
  <1>5. \A n : FileOf(n)' = FileOf(n)
    BY <1>0 DEF FileOf, Merged, input
  <1>6. Files' = Files /\ Outputs' = Outputs
    BY <1>5 DEF Files, Outputs
  <1>7. pc \notin {"parse", "derive", "clear", "generate"}
    BY <1>0 DEF IInv, Collecting
  <1>8. Collecting'
    BY <1>0, <1>4, <1>6, <1>7 DEF IInv, Collecting, config, Batch
  <1>9. Written'
    BY <1>0, <1>5 DEF IInv, Written, config
  <1>10. \A n : Row(n)' = Row(n) /\ TimeOf(n)' = TimeOf(n)
    BY <1>0 DEF Row, TimeOf, Active, parse
  <1>11. ReadBack'
    <2>1. TimesRead' = TimesRead
      BY <1>0 DEF TimesRead, TimeOf
    <2> QED
      BY <1>0, <1>10, <2>1 DEF IInv, ReadBack
  <1> QED
    BY <1>0, <1>8, <1>9, <1>11 DEF IInv, ReadSoFar, Listed, input, parse

LEMMA CollectKeeps == ASSUME IInv, Collect PROVE IInv'
  <1>0. /\ pc = "collect" /\ UNCHANGED <<input, parse, config, onlyfiles, pt_results, power>>
        /\ \/ pc' = "error" /\ UNCHANGED <<i, power_threads>>
           \/ /\ pc' = "launch" /\ i' = i + WORKER_THREADS
              /\ power_threads' = power_threads \o [j \in 1 .. Cardinality(Batch) |-> pt_results[j - 1]]
    BY DEF Collect, Raise, Goto, Collected
  <1>1. \A n : FileOf(n)' = FileOf(n)
    BY <1>0 DEF FileOf, Merged, input
  <1>2. Files' = Files /\ Outputs' = Outputs
    BY <1>1 DEF Files, Outputs
  <1>3. Written'
    BY <1>0, <1>1 DEF IInv, Written, config
  <1>4. ReadSoFar' /\ ReadBack'
    BY <1>0 DEF IInv, ReadSoFar, ReadBack, input, parse
  <1>5. CASE pc' = "error"
    <2>1. Collecting'
      BY <1>0, <1>2, <1>5 DEF IInv, Collecting, config
    <2> QED
      BY <1>0, <1>3, <1>4, <1>5, <2>1 DEF IInv, Listed
  <1>6. CASE pc' = "launch"
    <2> DEFINE b == IF i + WORKER_THREADS < Samples - 2 THEN WORKER_THREADS ELSE Samples - 2 - i
               more == [j \in 1 .. b |-> pt_results[j - 1]]
    <2>1. /\ onlyfiles \in [1 .. Samples - 2 -> 0 .. Samples - 3] /\ i \in Nat /\ i < Samples - 2
          /\ power_threads \in Seq(Outputs) /\ Len(power_threads) = i
      BY <1>0 DEF IInv, Listed, Collecting
    <2>2. Batch = 0 .. b - 1 /\ Cardinality(Batch) = b /\ b \in Nat /\ b > 0 /\ i + b <= Samples - 2
      BY <2>1, BatchIsInterval
    <2>3. \A j \in 0 .. b - 1 : pt_results[j] \in Outputs /\ pt_results[j].file = dir[onlyfiles[i + j + 1]]
      BY <1>0, <2>2 DEF IInv, Collecting
    <2>4. power_threads' = power_threads \o more /\ i' = i + WORKER_THREADS
      BY <1>0, <1>6, <2>2
    <2>5. i' \in Nat /\ i + b = IF i' < Samples - 2 THEN i' ELSE Samples - 2
      BY <2>1, <2>4, PipelineAssumption
    <2> HIDE DEF b
    <2>6. /\ more \in Seq(Outputs) /\ Len(more) = b
          /\ \A n \in 1 .. b : more[n].file = dir[onlyfiles[i + n]]
      <3>1. \A n \in 1 .. b : n - 1 \in 0 .. b - 1 /\ i + (n - 1) + 1 = i + n
        BY <2>1, <2>2
      <3>2. more \in [1 .. b -> Outputs]
        BY <2>3, <3>1
      <3>3. \A n \in 1 .. b : more[n].file = dir[onlyfiles[i + n]]
        BY <2>3, <3>1
      <3> QED
        BY <2>2, <3>2, <3>3
    <2> HIDE DEF more
    <2>7. /\ power_threads' \in Seq(Outputs) /\ Len(power_threads') = i + b
          /\ \A n \in 1 .. i : power_threads'[n] = power_threads[n]
          /\ \A n \in i + 1 .. i + b : power_threads'[n] = more[n - i]
      <3>1. power_threads \in Seq(Outputs) /\ more \in Seq(Outputs) /\ Len(power_threads) = i /\ Len(more) = b
        BY <2>1, <2>6
      <3> DEFINE both == power_threads \o more
      <3>2. /\ both \in Seq(Outputs) /\ Len(both) = i + b
            /\ \A n \in 1 .. i : both[n] = power_threads[n]
            /\ \A n \in i + 1 .. i + b : both[n] = more[n - i]
        <4>1. /\ both \in Seq(Outputs) /\ Len(both) = Len(power_threads) + Len(more)
              /\ \A n \in 1 .. Len(power_threads) : both[n] = power_threads[n]
              /\ \A n \in Len(power_threads) + 1 .. Len(power_threads) + Len(more) :
                   both[n] = more[n - Len(power_threads)]
          BY <3>1, Joined, Zenon
        <4> QED
          BY <3>1, <4>1, Zenon
      <3> HIDE DEF both
      <3>3. power_threads' = both
        BY <2>4 DEF both
      <3> QED
        BY <3>2, <3>3
    <2>8. \A n \in 1 .. i + b : power_threads'[n].file = dir[onlyfiles[n]]
      <3>1. ASSUME NEW n \in 1 .. i + b PROVE power_threads'[n].file = dir[onlyfiles[n]]
        <4>1. CASE n <= i
          BY <2>1, <2>2, <2>7, <4>1 DEF IInv, Collecting
        <4>2. CASE n > i
          <5>1. n - i \in 1 .. b /\ i + (n - i) = n /\ n \in i + 1 .. i + b
            BY <2>1, <2>2, <4>2
          <5> QED
            BY <2>6, <2>7, <5>1
        <4> QED
          BY <2>1, <2>2, <4>1, <4>2
      <3> QED
        BY <3>1
    <2>9. Collecting'
      BY <1>0, <1>2, <1>6, <2>5, <2>7, <2>8 DEF IInv, Collecting, config
    <2>10. Listed'
      BY <1>0, <1>6, <2>5 DEF IInv, Listed
    <2> QED
      BY <1>3, <1>4, <2>9, <2>10 DEF IInv
  <1> QED
    BY <1>0, <1>5, <1>6

LEMMA AllKeep == ASSUME IInv, AllCollected PROVE IInv'
  <1>0. /\ pc = "launch" /\ i >= Len(onlyfiles) /\ pc' = "read" /\ i' = 1
        /\ UNCHANGED <<input, parse, config, onlyfiles, pt_results, power_threads, power>>
    BY DEF AllCollected, Goto
  <1>1. Len(onlyfiles) = Samples - 2 /\ i \in Nat
    BY <1>0, PipelineAssumption DEF IInv, Listed
  <1>2. \A n : FileOf(n)' = FileOf(n)
    BY <1>0 DEF FileOf, Merged, input
  <1>3. Files' = Files /\ Outputs' = Outputs
    BY <1>2 DEF Files, Outputs
  <1>4. Collecting'
    BY <1>0, <1>1, <1>3, PipelineAssumption DEF IInv, Collecting, config
  <1>5. Written' /\ Listed'
    BY <1>0, <1>2 DEF IInv, Written, Listed, config
  <1>6. ReadBack'
    <2>1. power = <<>>
      BY <1>0 DEF IInv, ReadBack
    <2>2. 1 .. i' - 1 = {} /\ i' \in 1 .. Samples - 1
      BY <1>0, PipelineAssumption
    <2>3. TimesRead' = {}
      BY <2>2 DEF TimesRead
    <2> QED
      BY <1>0, <2>1, <2>2, <2>3 DEF ReadBack
  <1> QED
    BY <1>0, <1>4, <1>5, <1>6 DEF IInv, ReadSoFar, input, parse

(* No two files are for the same time. *)
LEMMA TimesDiffer ==
    ASSUME NEW m \in 1 .. Samples - 2, NEW n \in 1 .. Samples - 2, TimeOf(m) = TimeOf(n),
           onlyfiles \in [1 .. Samples - 2 -> 0 .. Samples - 3], IsInjective(onlyfiles)
    PROVE  m = n
  <1>1. onlyfiles[m] \in Int /\ onlyfiles[n] \in Int
    BY PipelineAssumption
  <1>2. Label(1) \in Int /\ OneSecond \in Nat \ {0}
    BY PipelineAssumption DEF Label
  <1>3. onlyfiles[m] * OneSecond = onlyfiles[n] * OneSecond
    <2>1. onlyfiles[m] * OneSecond \in Int /\ onlyfiles[n] * OneSecond \in Int
      BY <1>1, <1>2
    <2>2. Label(1) + onlyfiles[m] * OneSecond = Label(1) + onlyfiles[n] * OneSecond
      BY DEF TimeOf
    <2> QED
      BY <1>2, <2>1, <2>2
  <1>4. onlyfiles[m] = onlyfiles[n]
    BY <1>1, <1>2, <1>3
  <1> QED
    BY <1>4 DEF IsInjective

LEMMA ReadKeeps == ASSUME IInv, ReadResult PROVE IInv'
  <1>0. /\ pc = "read" /\ i <= Len(onlyfiles)
        /\ UNCHANGED <<input, parse, config, onlyfiles, pt_results, power_threads>>
        /\ \/ pc' = "error" /\ UNCHANGED <<i, power>>
           \/ /\ pc' = "read" /\ i' = i + 1 /\ TimeOf(i) \in Labels
              /\ power' = [t \in DOMAIN power \cup {TimeOf(i)} |-> IF t = TimeOf(i) THEN Row(i) ELSE power[t]]
    BY DEF ReadResult, Raise, Goto, Row, BinOf, Cores
  <1>1. Len(onlyfiles) = Samples - 2 /\ i \in 1 .. Samples - 2
        /\ onlyfiles \in [1 .. Samples - 2 -> 0 .. Samples - 3] /\ IsInjective(onlyfiles)
    <2>1. onlyfiles \in [1 .. Samples - 2 -> 0 .. Samples - 3] /\ IsInjective(onlyfiles)
      BY <1>0 DEF IInv, Listed
    <2>2. Len(onlyfiles) = Samples - 2
      BY <2>1, PipelineAssumption
    <2>3. i \in 1 .. Samples - 1
      BY <1>0 DEF IInv, ReadBack
    <2> QED
      BY <1>0, <2>1, <2>2, <2>3, PipelineAssumption
  <1>2. \A n : FileOf(n)' = FileOf(n)
    BY <1>0 DEF FileOf, Merged, input
  <1>3. Files' = Files /\ Outputs' = Outputs
    BY <1>2 DEF Files, Outputs
  <1>4. Collecting' /\ Written' /\ ReadSoFar'
    BY <1>0, <1>2, <1>3 DEF IInv, Collecting, Written, ReadSoFar, config, input, parse
  <1>5. Listed'
    BY <1>0, <1>1 DEF IInv, Listed
  <1>6. CASE pc' = "error"
    <2>1. ReadBack'
      BY <1>6 DEF ReadBack
    <2> QED
      BY <1>4, <1>5, <2>1 DEF IInv
  <1>7. CASE pc' = "read"
    <2>1. \A n : TimeOf(n)' = TimeOf(n) /\ Row(n)' = Row(n)
      <3>1. UNCHANGED <<onlyfiles, power_threads, stats>>
        BY <1>0 DEF parse
      <3> QED
        BY <3>1 DEF TimeOf, Row, Active
    <2>2. i' \in 1 .. Samples - 1 /\ 1 .. i' - 1 = (1 .. i - 1) \cup {i} /\ i' > 1
      <3>1. i' = i + 1 /\ Samples \in Nat /\ i \in 1 .. Samples - 2
        BY <1>0, <1>1, <1>7, PipelineAssumption
      <3>2. i' \in 1 .. Samples - 1 /\ i' > 1
        BY <3>1
      <3>3. 1 .. i' - 1 = (1 .. i - 1) \cup {i}
        BY <3>1
      <3> QED
        BY <3>2, <3>3
    <2>3. TimesRead' = TimesRead \cup {TimeOf(i)}
      <3>1. TimesRead' = {TimeOf(n) : n \in 1 .. i' - 1}
        BY <1>0 DEF TimesRead, TimeOf
      <3> QED
        BY <2>2, <3>1 DEF TimesRead
    <2>4. DOMAIN power = TimesRead
      BY <1>0 DEF IInv, ReadBack
    <2>5. power' = [t \in TimesRead' |-> power'[t]] /\ DOMAIN power' = TimesRead'
      BY <1>0, <1>7, <2>3, <2>4
    <2>6. power'[TimeOf(i)] = Row(i)
      BY <1>0, <1>7
    <2>7. \A n \in 1 .. i - 1 : power'[TimeOf(n)] = Row(n)
      <3>1. ASSUME NEW n \in 1 .. i - 1 PROVE TimeOf(n) # TimeOf(i) /\ TimeOf(n) \in TimesRead
        BY <1>1, TimesDiffer DEF TimesRead
      <3>2. \A n \in 1 .. i - 1 : power[TimeOf(n)] = Row(n)
        BY <1>0 DEF IInv, ReadBack
      <3> QED
        BY <1>0, <1>7, <2>4, <3>1, <3>2
    <2>8. \A n \in 1 .. i' - 1 : TimeOf(n) \in Labels
      <3>1. \A n \in 1 .. i - 1 : TimeOf(n) \in Labels
        BY <1>0 DEF IInv, ReadBack
      <3> QED
        BY <1>0, <1>7, <2>2, <3>1
    <2>9. ReadBack'
      BY <1>7, <2>1, <2>2, <2>5, <2>6, <2>7, <2>8 DEF ReadBack
    <2> QED
      BY <1>4, <1>5, <2>9 DEF IInv
  <1> QED
    BY <1>0, <1>6, <1>7

LEMMA TablesKeep == ASSUME IInv, WriteTables PROVE IInv'
  <1>0. /\ pc = "read" /\ i > Len(onlyfiles) /\ pc' = "done"
        /\ UNCHANGED <<input, parse, config, pool, power>>
    BY DEF WriteTables, Goto
  <1>1. i = Samples - 1
    BY <1>0, PipelineAssumption DEF IInv, Listed, ReadBack
  <1>2. \A n : FileOf(n)' = FileOf(n)
    BY <1>0 DEF FileOf, Merged, input
  <1>3. Files' = Files /\ Outputs' = Outputs
    BY <1>2 DEF Files, Outputs
  <1>4. Collecting' /\ Written' /\ ReadSoFar' /\ Listed'
    BY <1>0, <1>2, <1>3 DEF IInv, Collecting, Written, Listed, ReadSoFar, config, input, parse, pool
  <1>5. (\A n : TimeOf(n)' = TimeOf(n) /\ Row(n)' = Row(n)) /\ TimesRead' = TimesRead
    BY <1>0 DEF TimeOf, Row, Active, TimesRead, parse, pool
  <1>6. ReadBack'
    BY <1>0, <1>1, <1>5 DEF IInv, ReadBack, pool
  <1> QED
    BY <1>4, <1>6 DEF IInv

LEMMA StutterKeeps == ASSUME IInv, UNCHANGED vars PROVE IInv'
  <1>0. UNCHANGED <<input, pc, parse, config, pool, power>>
    BY DEF vars
  <1>2. \A n : FileOf(n)' = FileOf(n)
    BY <1>0 DEF FileOf, Merged, input
  <1>3. Files' = Files /\ Outputs' = Outputs
    BY <1>2 DEF Files, Outputs
  <1>4. Collecting' /\ Written' /\ ReadSoFar' /\ Listed'
    BY <1>0, <1>2, <1>3 DEF IInv, Collecting, Written, Listed, ReadSoFar, Batch, config, input, parse, pool
  <1>5. (\A n : TimeOf(n)' = TimeOf(n) /\ Row(n)' = Row(n)) /\ TimesRead' = TimesRead
    BY <1>0 DEF TimeOf, Row, Active, TimesRead, parse, pool
  <1>6. ReadBack'
    BY <1>0, <1>5 DEF IInv, ReadBack, pool
  <1> QED
    BY <1>4, <1>6 DEF IInv

(* Files, outputs and rows keep their places, wherever the analysis is. *)
THEOREM Invariance == Spec => []IInv
  <1>1. ASSUME IInv, [Next]_vars PROVE IInv'
    <2>1. CASE Main
      BY <1>1, <2>1, ParseKeeps, TotalKeeps, DeriveKeeps, ClearKeeps, GenerateKeeps, ListKeeps,
         LaunchKeeps, CollectKeeps, AllKeep, ReadKeeps, TablesKeep DEF Main
    <2>2. CASE Worker
      BY <1>1, <2>2, RunKeeps DEF Worker
    <2>3. CASE UNCHANGED vars
      BY <1>1, <2>3, StutterKeeps
    <2> QED
      BY <1>1, <2>1, <2>2, <2>3 DEF Next, Ended
  <1> QED
    BY InitInv, <1>1, PTL DEF Spec

(* Whatever was left in the directory, in whatever order it is listed and  *)
(* however large the pool: McPAT runs on this session's files only, and    *)
(* place n of the outputs is of place n of the listing.                    *)
THEOREM OutputsAreOfTheirFiles == Spec => []OutputsOfTheirFiles
  <1>1. IInv => OutputsOfTheirFiles
    <2>1. \A f \in Files : f.bin \in Bins
      BY DEF Files, FileOf
    <2> QED
      BY <2>1 DEF IInv, Collecting, Outputs, OutputsOfTheirFiles
  <1> QED
    BY Invariance, <1>1, PTL

-----------------------------------------------------------------------------
(* Every bin's place is listed. *)
LEMMA AllListed ==
    ASSUME NEW f \in [1 .. Samples - 2 -> 0 .. Samples - 3], IsInjective(f),
           NEW x \in 0 .. Samples - 3
    PROVE  \E n \in 1 .. Samples - 2 : f[n] = x
  <1> DEFINE S == 1 .. Samples - 2
             T == 0 .. Samples - 3
  <1>1. IsFiniteSet(T) /\ Cardinality(S) = Cardinality(T)
    BY FS_Interval, PipelineAssumption
  <1>2. f \in Injection(S, T)
    BY DEF Injection
  <1> HIDE DEF S, T
  <1>3. f \in Surjection(S, T)
    BY <1>1, <1>2, FS_Injection
  <1> QED
    BY <1>3 DEF Surjection, S, T

(* When each file's time is the label of a bin, a bin lasts a second, or   *)
(* there is only one.                                                      *)
LEMMA TimesFit ==
    ASSUME \A x \in 0 .. Samples - 3 : Label(1) + x * OneSecond \in Labels
    PROVE  Samples = 3 \/ BinSize = OneSecond
  <1> SUFFICES ASSUME Samples # 3 PROVE BinSize = OneSecond
    OBVIOUS
  <1>0. /\ OneSecond \in Nat \ {0} /\ BinSize \in Nat \ {0} /\ StartTime \in Nat
        /\ Samples \in Nat /\ Samples > 3
    BY PipelineAssumption
  <1>1. \A x \in 0 .. Samples - 3 : \E m \in 0 .. Samples - 3 : x * OneSecond = m * BinSize
    <2> SUFFICES ASSUME NEW x \in 0 .. Samples - 3
                 PROVE  \E m \in 0 .. Samples - 3 : x * OneSecond = m * BinSize
      OBVIOUS
    <2>1. PICK n \in Bins : Label(1) + x * OneSecond = Label(n)
      BY DEF Labels
    <2>2. n \in 1 .. Samples - 2
      BY <2>1 DEF Bins
    <2>3. n - 1 \in 0 .. Samples - 3 /\ n - 1 \in Int /\ x * OneSecond \in Int
      BY <1>0, <2>2
    <2>4. (1 - 1) * BinSize = 0 /\ (n - 1) * BinSize \in Int
      BY <1>0, <2>3
    <2>5. x * OneSecond = (n - 1) * BinSize
      BY <1>0, <2>1, <2>3, <2>4 DEF Label
    <2> QED
      BY <2>3, <2>5
  <1>2. OneSecond >= BinSize
    <2>1. PICK m \in 0 .. Samples - 3 : 1 * OneSecond = m * BinSize
      BY <1>0, <1>1
    <2>2. m \in Nat /\ m # 0
      BY <1>0, <2>1
    <2> QED
      BY <1>0, <2>1, <2>2
  <1>3. OneSecond <= BinSize
    <2> DEFINE F == Samples - 3
    <2>0. F \in Nat \ {0} /\ F \in 0 .. Samples - 3
      BY <1>0
    <2>1. PICK m \in 0 .. F : F * OneSecond = m * BinSize
      BY <1>1, <2>0
    <2> HIDE DEF F
    <2>2. m * BinSize <= F * BinSize
      BY <1>0, <2>0
    <2>3. F * OneSecond <= F * BinSize
      BY <1>0, <2>0, <2>1, <2>2
    <2> QED
      BY <1>0, <2>0, <2>3
  <1> QED
    BY <1>0, <1>2, <1>3

(* Whatever the order of the listing and of the pool, and whatever the     *)
(* size of a bin, a table written has one row for each bin, of that bin's  *)
(* counters: the physical core's power of its logical cores' sum, its      *)
(* activity of the busiest of them.                                        *)
THEOREM TableIsOfItsBins == Spec => []TableOfItsBins
  <1>1. ASSUME IInv, pc = "done" PROVE power = PowerTable
    <2>0. /\ onlyfiles \in [1 .. Samples - 2 -> 0 .. Samples - 3] /\ IsInjective(onlyfiles)
          /\ 1 .. i - 1 = 1 .. Samples - 2 /\ i > 1
      BY <1>1, PipelineAssumption DEF IInv, Listed, ReadBack
    <2>1. /\ \A n \in 1 .. Samples - 2 : TimeOf(n) \in Labels /\ power[TimeOf(n)] = Row(n)
          /\ power = [t \in TimesRead |-> power[t]]
      BY <1>1, <2>0 DEF IInv, ReadBack
    <2>2. \A x \in 0 .. Samples - 3 : Label(1) + x * OneSecond \in Labels
      BY <2>0, <2>1, AllListed DEF TimeOf
    <2>3. \A n \in 1 .. Samples - 2 : TimeOf(n) = Label(onlyfiles[n] + 1)
      <3> SUFFICES ASSUME NEW n \in 1 .. Samples - 2
                   PROVE  TimeOf(n) = Label(onlyfiles[n] + 1)
        OBVIOUS
      <3>1. onlyfiles[n] \in 0 .. Samples - 3
        BY <2>0
      <3>2. CASE Samples = 3
        BY <3>1, <3>2, PipelineAssumption DEF TimeOf, Label
      <3>3. CASE BinSize = OneSecond
        BY <3>1, <3>3, PipelineAssumption DEF TimeOf, Label
      <3> QED
        BY <2>2, <3>2, <3>3, TimesFit
    <2>4. TimesRead = Labels
      <3>1. TimesRead \subseteq Labels
        BY <2>0, <2>1 DEF TimesRead
      <3>2. ASSUME NEW m \in Bins PROVE Label(m) \in TimesRead
        <4>1. m - 1 \in 0 .. Samples - 3 /\ m - 1 + 1 = m
          BY PipelineAssumption DEF Bins
        <4>2. PICK n \in 1 .. Samples - 2 : onlyfiles[n] = m - 1
          BY <2>0, <4>1, AllListed
        <4>3. TimeOf(n) = Label(m)
          BY <2>3, <4>1, <4>2
        <4> QED
          BY <2>0, <4>3 DEF TimesRead
      <3> QED
        BY <3>1, <3>2 DEF Labels
    <2>5. ASSUME NEW m \in Bins
          PROVE  /\ BinOf(Label(m)) = m
                 /\ power[Label(m)] = [dynamic |-> [k \in Cores |-> Merged(k, m)],
                                       active |-> [k \in Cores |-> Busiest(k, m)]]
      <3>1. m - 1 \in 0 .. Samples - 3 /\ m - 1 + 1 = m
        BY PipelineAssumption DEF Bins
      <3>2. PICK n \in 1 .. Samples - 2 : onlyfiles[n] = m - 1
        BY <2>0, <3>1, AllListed
      <3>3. TimeOf(n) = Label(m)
        BY <2>3, <3>1, <3>2
      <3>4. BinOf(Label(m)) = m
        BY LabelsDiffer DEF BinOf
      <3>5. power_threads[n].file = FileOf(m)
        BY <1>1, <3>1, <3>2 DEF IInv, Collecting, Written
      <3>6. \A k \in Cores : Active(k, m) = Busiest(k, m)
        <4> SUFFICES ASSUME NEW k \in Cores PROVE Active(k, m) = Busiest(k, m)
          OBVIOUS
        <4>1. \A c \in Cpus : stats[c][m] = work[c][m]
          BY <1>1 DEF IInv, ReadSoFar
        <4>2. {stats[c][m] : c \in ThreadsOf(k)} = {work[c][m] : c \in {h \in Cpus : h % CORES = k}}
          BY <4>1, ThreadsByRemainder
        <4> QED
          BY <4>2 DEF Active, Busiest
      <3>7. Row(n) = [dynamic |-> [k \in Cores |-> Merged(k, m)],
                      active |-> [k \in Cores |-> Busiest(k, m)]]
        BY <3>3, <3>4, <3>5, <3>6 DEF Row, FileOf
      <3> QED
        BY <2>1, <3>3, <3>4, <3>7
    <2>6. ASSUME NEW t \in Labels PROVE power[t] = PowerTable[t]
      <3>1. PICK m \in Bins : t = Label(m)
        BY DEF Labels
      <3>2. BinOf(t) = m
        BY <2>5, <3>1
      <3> QED
        BY <2>5, <3>1, <3>2 DEF PowerTable, BinOf, Cores
    <2>7. PowerTable = [t \in Labels |-> PowerTable[t]]
      BY DEF PowerTable
    <2> QED
      BY <2>1, <2>4, <2>6, <2>7
  <1>2. IInv => TableOfItsBins
    BY <1>1 DEF TableOfItsBins
  <1> QED
    BY Invariance, <1>2, PTL

-----------------------------------------------------------------------------
(* A sum of counts is a count. *)
LEMMA CyclesFinite ==
    ASSUME NEW S, IsFiniteSet(S), NEW f, \A x \in S : f[x] \in Nat
    PROVE  IsFiniteSet(CyclesOf(f, S)) /\ SumOver(f, S) \in Nat
  <1> DEFINE Own == {{x} \X (1 .. f[x]) : x \in S}
             own == [x \in S |-> {x} \X (1 .. f[x])]
  <1>1. ASSUME NEW x \in S PROVE IsFiniteSet({x} \X (1 .. f[x]))
    <2> DEFINE I == 1 .. f[x]
               X == {x}
    <2>1. IsFiniteSet(X)
      BY FS_Singleton
    <2>2. 1 \in Int /\ f[x] \in Int
      OBVIOUS
    <2>3. IsFiniteSet(I)
      BY ONLY <2>2, FS_Interval
    <2> HIDE DEF I, X
    <2>4. IsFiniteSet(X \X I)
      BY <2>1, <2>3, FS_Product
    <2> QED
      BY <2>4 DEF I, X
  <1>2. \A X \in Own : IsFiniteSet(X)
    BY <1>1
  <1>3. IsFiniteSet(Own)
    <2>1. own \in Surjection(S, Own)
      BY DEF Surjection
    <2> HIDE DEF own, Own
    <2> QED
      BY <2>1, FS_Surjection
  <1> HIDE DEF Own
  <1>4. IsFiniteSet(UNION Own)
    BY <1>2, <1>3, FS_UNION
  <1>5. IsFiniteSet(CyclesOf(f, S))
    BY <1>4 DEF Own, CyclesOf
  <1> QED
    BY <1>5, FS_CardinalityType DEF SumOver

LEMMA CycleOf ==
    \A S, f, e : e \in CyclesOf(f, S) <=> \E x \in S : \E y \in 1 .. f[x] : e = <<x, y>>
  <1>1. \A f, e, x : e \in {x} \X (1 .. f[x]) <=> \E y \in 1 .. f[x] : e = <<x, y>>
    OBVIOUS
  <1> QED
    BY <1>1 DEF CyclesOf

LEMMA CpusFinite == IsFiniteSet(Cpus) /\ IsFiniteSet(Cores)
  BY FS_Interval, PipelineAssumption DEF Cpus, Cores

(* What is counted apart by a key adds up to what there is. *)
LEMMA CountedApart ==
    ASSUME NEW A, IsFiniteSet(A), NEW K, NEW key \in [A -> K],
           NEW N, \A k \in K : N[k] = Cardinality({e \in A : key[e] = k})
    PROVE  SumOver(N, K) = Cardinality(A)
  <1> DEFINE P == [k \in K |-> {e \in A : key[e] = k}]
             b == [k \in K |-> CHOOSE g : g \in Bijection(P[k], 1 .. N[k])]
             B == CyclesOf(N, K)
             m == [e \in A |-> <<key[e], b[key[e]][e]>>]
  <1>1. ASSUME NEW k \in K PROVE b[k] \in Bijection(P[k], 1 .. N[k])
    <2>1. P[k] \subseteq A /\ N[k] = Cardinality(P[k])
      OBVIOUS
    <2> HIDE DEF P
    <2>2. IsFiniteSet(P[k]) /\ N[k] \in Nat
      BY <2>1, FS_Subset, FS_CardinalityType
    <2> DEFINE I == 1 .. N[k]
    <2>3. IsFiniteSet(I) /\ Cardinality(I) = N[k]
      <3>1. 1 \in Int /\ N[k] \in Int
        BY <2>2
      <3>2. IsFiniteSet(I) /\ Cardinality(I) = IF 1 > N[k] THEN 0 ELSE N[k] - 1 + 1
        BY ONLY <3>1, FS_Interval
      <3> QED
        BY <2>2, <3>2
    <2> HIDE DEF I
    <2>4. \E g : g \in Bijection(P[k], I)
      BY <2>1, <2>2, <2>3, FS_SameCardinalityBij DEF ExistsBijection
    <2>5. (CHOOSE g : g \in Bijection(P[k], I)) \in Bijection(P[k], I)
      BY <2>4, Zenon
    <2> QED
      BY <2>5 DEF I
  <1>2. \A k \in K : \A e : e \in P[k] <=> e \in A /\ key[e] = k
    OBVIOUS
  <1> HIDE DEF b, P
  <1>3. \A e \in A : m[e] = <<key[e], b[key[e]][e]>>
    OBVIOUS
  <1>4. m = [e \in A |-> m[e]] /\ DOMAIN m = A
    OBVIOUS
  <1> HIDE DEF m
  <1>5. \A q : q \in B <=> \E k \in K : \E y \in 1 .. N[k] : q = <<k, y>>
    BY CycleOf
  <1> HIDE DEF B
  <1>6. \A k \in K : b[k] \in [P[k] -> 1 .. N[k]]
    BY <1>1 DEF Bijection, Injection
  <1>7. \A k \in K : \A d, e \in P[k] : b[k][d] = b[k][e] => d = e
    BY <1>1, Zenon DEF Bijection, Injection, IsInjective
  <1>8. \A k \in K : \A y \in 1 .. N[k] : \E e \in P[k] : b[k][e] = y
    BY <1>1, Zenon DEF Bijection, Surjection
  <1>9. m \in [A -> B]
    <2>1. ASSUME NEW e \in A PROVE m[e] \in B
      <3>1. PICK k \in K : k = key[e]
        OBVIOUS
      <3>2. b[k][e] \in 1 .. N[k]
        BY <1>2, <1>6, <3>1
      <3>3. m[e] = <<k, b[k][e]>>
        BY <1>3, <3>1
      <3> QED
        BY <1>5, <3>2, <3>3, Zenon
    <2> QED
      BY <1>4, <2>1
  <1>10. ASSUME NEW d \in A, NEW e \in A, m[d] = m[e] PROVE d = e
    <2>1. PICK k \in K : k = key[e]
      OBVIOUS
    <2>2. key[d] = k /\ b[k][d] = b[k][e]
      BY <1>3, <1>10, <2>1
    <2> QED
      BY <1>2, <1>7, <2>1, <2>2
  <1>11. ASSUME NEW q \in B PROVE \E e \in A : m[e] = q
    <2>1. PICK k \in K : \E y \in 1 .. N[k] : q = <<k, y>>
      BY <1>5, <1>11, Zenon
    <2>3. PICK y \in 1 .. N[k] : q = <<k, y>>
      BY <2>1
    <2>2. PICK e \in P[k] : b[k][e] = y
      BY <1>8
    <2> QED
      BY <1>2, <1>3, <2>2, <2>3
  <1>12. m \in Bijection(A, B)
    BY <1>4, <1>9, <1>10, <1>11, Zenon DEF Bijection, Injection, Surjection, IsInjective
  <1>13. Cardinality(A) = Cardinality(B)
    BY <1>12, FS_Bijection DEF ExistsBijection
  <1> QED
    BY <1>13 DEF B, SumOver

(* Merging the logical cores loses and repeats nothing. *)
LEMMA MergedAddUp ==
    ASSUME NEW f \in [Cpus -> Nat]
    PROVE  SumOver([k \in Cores |-> SumOver(f, {c \in Cpus : c % CORES = k})], Cores)
             = SumOver(f, Cpus)
  <1> DEFINE Of(k) == {c \in Cpus : c % CORES = k}
             A == CyclesOf(f, Cpus)
             key == [e \in A |-> e[1] % CORES]
             N == [k \in Cores |-> SumOver(f, Of(k))]
  <1>1. IsFiniteSet(A)
    BY CpusFinite, CyclesFinite
  <1>2. ASSUME NEW c \in Cpus PROVE c % CORES \in Cores
    BY <1>2, PipelineAssumption DEF Cpus, Cores
  <1>3. \A e \in A : e[1] \in Cpus
    BY CycleOf
  <1>4. ASSUME NEW k \in Cores PROVE CyclesOf(f, Of(k)) = {e \in A : key[e] = k}
    <2>1. ASSUME NEW e PROVE e \in CyclesOf(f, Of(k)) <=> e \in A /\ e[1] % CORES = k
      <3>1. e \in CyclesOf(f, Of(k)) <=> \E x \in Of(k) : \E y \in 1 .. f[x] : e = <<x, y>>
        BY CycleOf
      <3>2. e \in A <=> \E x \in Cpus : \E y \in 1 .. f[x] : e = <<x, y>>
        BY CycleOf
      <3> HIDE DEF A
      <3> QED
        BY <3>1, <3>2
    <2> HIDE DEF A, Of
    <2> QED
      BY <2>1
  <1>5. key \in [A -> Cores]
    BY <1>2, <1>3
  <1>6. \A k \in Cores : N[k] = Cardinality({e \in A : key[e] = k})
    BY <1>4, Zenon DEF SumOver
  <1> HIDE DEF N, A, key
  <1>7. SumOver(N, Cores) = Cardinality(A)
    BY <1>1, <1>5, <1>6, CountedApart
  <1> QED
    BY <1>7 DEF A, N, SumOver
-----------------------------------------------------------------------------
Stages == {"parse", "derive", "clear", "generate", "launch", "collect", "read", "done", "error"}
Totals == [n \in Bins |-> SumOver([c \in Cpus |-> work[c][n]], Cpus)]

(* An exception, and nothing else, leaves the analysis in error. *)
StatusInv ==
    /\ pc \in Stages /\ error \in {"none", "KeyError", "ZeroDivisionError", "CalledProcessError"}
    /\ error = "none" <=> pc # "error"

(* A config file is of an earlier session or of a bin, whose total the     *)
(* machine's is; and what the loops count stays in its bounds.             *)
SumsInv ==
    /\ pc \notin {"parse", "error"} => total = Totals
    /\ DOMAIN dir \subseteq Nat
    /\ \A n \in DOMAIN dir : dir[n] = OldFile \/ (dir[n] \in Files /\ total = Totals)
    /\ L3_AVAIL \in BOOLEAN
    /\ bin \in 1 .. Samples - 1 /\ tree \in Trees
    /\ i \in Nat
    /\ DOMAIN power \subseteq Labels

LEMMA StatusInit == Init => StatusInv
  BY DEF Init, StatusInv, Stages

LEMMA StatusKept == ASSUME StatusInv, [Next]_vars PROVE StatusInv'
  <1>1. \/ UNCHANGED <<pc, error>>
        \/ \E l \in Stages \ {"error"} : pc # "error" /\ pc' = l /\ error' = error
        \/ \E e \in {"KeyError", "ZeroDivisionError", "CalledProcessError"} : pc' = "error" /\ error' = e
    <2>1. CASE Main
      <3>0. ParseSample => UNCHANGED <<pc, error>>
        BY DEF ParseSample
      <3>1. ReadResult => UNCHANGED <<pc, error>> \/ (pc' = "error" /\ error' = "KeyError")
        <4>1. ReadResult => \/ Raise("KeyError") /\ UNCHANGED <<i, power>>
                            \/ Goto(pc)
          BY Zenon DEF ReadResult
        <4> QED
          BY <4>1 DEF Raise, Goto
      <3>2. TotalAndBins => \/ pc = "parse" /\ pc' = "derive" /\ error' = error
                            \/ pc' = "error" /\ error' = "KeyError"
        BY Zenon DEF TotalAndBins, Raise, Goto
      <3>3. Derive => \/ pc = "derive" /\ pc' = "clear" /\ error' = error
                      \/ pc' = "error" /\ error' \in {"KeyError", "ZeroDivisionError"}
        <4>1. Derive => \/ Raise("KeyError") \/ Raise("ZeroDivisionError")
                        \/ pc = "derive" /\ Goto("clear")
          BY DEF Derive
        <4> QED
          BY <4>1 DEF Raise, Goto
      <3>4. ClearDirectory => pc = "clear" /\ pc' = "generate" /\ error' = error
        BY Zenon DEF ClearDirectory, Goto
      <3>5. Generate => UNCHANGED <<pc, error>> \/ (pc' = "error" /\ error' = "KeyError")
        BY Zenon DEF Generate, Raise, Goto
      <3>6. ListFiles => pc = "generate" /\ pc' = "launch" /\ error' = error
        BY Zenon DEF ListFiles, Goto
      <3>7. Launch => pc = "launch" /\ pc' = "collect" /\ error' = error
        BY Zenon DEF Launch, Goto
      <3>8. Collect => \/ pc = "collect" /\ pc' = "launch" /\ error' = error
                       \/ pc' = "error" /\ error' = "CalledProcessError"
        BY Zenon DEF Collect, Raise, Goto
      <3>9. AllCollected => pc = "launch" /\ pc' = "read" /\ error' = error
        BY Zenon DEF AllCollected, Goto
      <3>10. WriteTables => pc = "read" /\ pc' = "done" /\ error' = error
        BY Zenon DEF WriteTables, Goto
      <3>11. /\ {"derive", "clear", "generate", "launch", "collect", "read", "done"} \subseteq Stages \ {"error"}
             /\ \A l \in {"parse", "derive", "clear", "generate", "launch", "read"} : l # "error"
        BY DEF Stages
      <3> QED
        BY <2>1, <3>0, <3>1, <3>2, <3>3, <3>4, <3>5, <3>6, <3>7, <3>8, <3>9, <3>10, <3>11 DEF Main
    <2>2. CASE Worker
      BY <2>2 DEF Worker, Run
    <2>3. CASE UNCHANGED vars
      BY <2>3 DEF vars
    <2> QED
      BY <2>1, <2>2, <2>3 DEF Next, Ended
  <1> QED
    BY <1>1 DEF StatusInv, Stages

LEMMA FilesTyped ==
    ASSUME work \in Works
    PROVE  /\ Files \subseteq Configs /\ Outputs \subseteq Results
           /\ \A k \in Cores, n \in Bins : Merged(k, n) \in Nat
  <1>1. ASSUME NEW k \in Cores, NEW n \in Bins PROVE Merged(k, n) \in Nat
    <2> DEFINE f == [c \in Cpus |-> work[c][n]]
               S == {c \in Cpus : c % CORES = k}
    <2>1. \A c \in S : f[c] \in Nat
      BY PipelineAssumption DEF Bins
    <2>2. IsFiniteSet(S)
      BY CpusFinite, FS_Subset
    <2> HIDE DEF f, S
    <2>3. SumOver(f, S) \in Nat
      BY <2>1, <2>2, CyclesFinite
    <2> QED
      BY <2>3 DEF Merged, f, S
  <1>2. \A n \in Bins : n \in Nat
    BY PipelineAssumption DEF Bins
  <1>3. \A n \in Bins : FileOf(n) \in Configs
    BY <1>1, <1>2 DEF FileOf, Configs, Trees, Cores
  <1>4. Files \subseteq Configs
    BY <1>3 DEF Files
  <1> QED
    BY <1>1, <1>4 DEF Outputs, Results

LEMMA SumsInit == Init => SumsInv
  <1> SUFFICES ASSUME Init PROVE SumsInv
    OBVIOUS
  <1>1. /\ pc = "parse" /\ L3_AVAIL = FALSE /\ bin = 1 /\ tree = NoTree /\ i = 0 /\ power = <<>>
        /\ dir = [n \in old |-> OldFile] /\ old \in OldConfigs
    BY DEF Init
  <1>2. NoTree \in Trees /\ 1 \in 1 .. Samples - 1
    BY PipelineAssumption DEF NoTree, Trees
  <1>3. old \subseteq Nat
    BY <1>1, PipelineAssumption
  <1>4. DOMAIN dir = old /\ \A n \in DOMAIN dir : dir[n] = OldFile
    BY <1>1
  <1>5. DOMAIN power = {}
    BY <1>1
  <1>6. pc \in {"parse", "error"} /\ L3_AVAIL \in BOOLEAN /\ i \in Nat
    BY <1>1
  <1> QED
    BY <1>1, <1>2, <1>3, <1>4, <1>5, <1>6 DEF SumsInv

(* Most steps leave the sums, the files and the counts alone. *)
LEMMA SumsLeft ==
    ASSUME SumsInv, UNCHANGED <<input, total, L3_AVAIL, config, power>>, i' \in Nat,
           pc \in {"parse", "error"} => pc' \in {"parse", "error"}
    PROVE  SumsInv'
  <1>1. Files' = Files
    <2>1. \A n : FileOf(n)' = FileOf(n)
      BY DEF FileOf, Merged, input
    <2> QED
      BY <2>1 DEF Files
  <1>2. Totals' = Totals
    BY DEF Totals, input
  <1> QED
    BY <1>1, <1>2 DEF SumsInv, config

LEMMA SumsKept == ASSUME IInv, SumsInv, [Next]_vars PROVE SumsInv'
  <1>1. CASE ParseSample \/ Derive \/ Launch \/ WriteTables \/ Worker \/ UNCHANGED vars
    <2>1. UNCHANGED <<input, total, L3_AVAIL, config, i, power>>
      BY <1>1, Zenon DEF ParseSample, Derive, Launch, WriteTables, Worker, Run, vars, parse, pool
    <2>2. pc \in {"parse", "error"} => pc' = pc
      BY <1>1 DEF ParseSample, Derive, Launch, WriteTables, Worker, Run, vars
    <2> QED
      BY <2>1, <2>2, SumsLeft DEF SumsInv
  <1>2. CASE TotalAndBins
    <2>1. /\ pc = "parse" /\ Len(frame) = Samples
          /\ UNCHANGED <<input, frame, config, pool, power>>
      BY <1>2, Zenon DEF TotalAndBins
    <2>2. \/ pc' = "error" /\ UNCHANGED <<total, L3_AVAIL>>
          \/ L3_AVAIL' = L3Found /\ total' = [n \in Bins |-> Total(n)]
      BY <1>2 DEF TotalAndBins, Raise
    <2>3. CASE pc' = "error" /\ UNCHANGED <<total, L3_AVAIL>>
      BY <2>1, <2>3, SumsLeft DEF SumsInv, pool
    <2>4. CASE L3_AVAIL' = L3Found /\ total' = [n \in Bins |-> Total(n)]
      <3>1. \A n \in Bins : \A c \in Cpus : frame[n][c]["busy"] = work[c][n]
        BY <2>1, PipelineAssumption DEF IInv, ReadSoFar, Bins
      <3>2. \A n \in Bins : Total(n) = SumOver([c \in Cpus |-> work[c][n]], Cpus)
        <4>1. \A n \in Bins : [c \in Cpus |-> frame[n][c]["busy"]] = [c \in Cpus |-> work[c][n]]
          BY <3>1
        <4> QED
          BY <4>1 DEF Total
      <3>3. total' = Totals /\ Totals' = Totals
        BY <2>1, <2>4, <3>2 DEF Totals, input
      <3>4. \A n : FileOf(n)' = FileOf(n)
        BY <2>1 DEF FileOf, Merged, input
      <3>5. Files' = Files
        BY <3>4 DEF Files
      <3>6. L3_AVAIL' \in BOOLEAN
        BY <2>4 DEF L3Found
      <3> QED
        BY <2>1, <3>3, <3>5, <3>6 DEF SumsInv, config, pool
    <2> QED
      BY <2>2, <2>3, <2>4
  <1>3. CASE ClearDirectory
    <2>1. /\ pc = "clear" /\ dir' = <<>> /\ UNCHANGED <<input, parse, bin, tree, pool, power>>
      BY <1>3 DEF ClearDirectory, Cleared
    <2>2. total' = Totals'
      BY <2>1 DEF SumsInv, Totals, input, parse
    <2> QED
      BY <2>1, <2>2 DEF SumsInv, parse, pool
  <1>4. CASE Generate
    <2>1. /\ pc = "generate" /\ bin \in Bins /\ UNCHANGED <<input, parse, pool, power>>
          /\ \/ UNCHANGED config
             \/ /\ bin' = bin + 1
                /\ tree' = [k \in Cores |-> SumOver([j \in Cpus |-> stats[j][bin]], ThreadsOf(k))]
                /\ dir' = [n \in DOMAIN dir \cup {bin - 1} |->
                              IF n = bin - 1 THEN [bin |-> bin, core |-> tree'] ELSE dir[n]]
      BY <1>4 DEF Generate, SetInTree, Cores
    <2>2. CASE UNCHANGED config
      BY <2>1, <2>2, SumsLeft DEF SumsInv, parse, pool
    <2>3. CASE ~ UNCHANGED config
      <3>1. [j \in Cpus |-> stats[j][bin]] = [c \in Cpus |-> work[c][bin]]
        BY <2>1 DEF IInv, ReadSoFar
      <3>2. tree' = [k \in Cores |-> Merged(k, bin)]
        BY <2>1, <2>3, <3>1, ThreadsByRemainder DEF Merged
      <3>3. tree' \in Trees
        BY <2>1, <3>2, FilesTyped DEF IInv, ReadSoFar, Trees, Cores
      <3>4. [bin |-> bin, core |-> tree'] \in Files
        BY <2>1, <3>2 DEF Files, FileOf
      <3>5. total' = Totals /\ Totals' = Totals /\ total = Totals
        BY <2>1 DEF SumsInv, Totals, input, parse
      <3>6. \A n : FileOf(n)' = FileOf(n)
        BY <2>1 DEF FileOf, Merged, input
      <3>7. Files' = Files
        BY <3>6 DEF Files
      <3>8. bin' \in 1 .. Samples - 1 /\ bin - 1 \in Nat
        BY <2>1, <2>3, PipelineAssumption DEF Bins
      <3>9. DOMAIN dir' \subseteq Nat
        BY <2>1, <2>3, <3>8 DEF SumsInv
      <3>10. \A n \in DOMAIN dir' : dir'[n] = OldFile \/ dir'[n] \in Files
        BY <2>1, <2>3, <3>4 DEF SumsInv
      <3>11. OldFile' = OldFile /\ Trees' = Trees /\ Labels' = Labels
        OBVIOUS
      <3> QED
        BY <2>1, <3>3, <3>5, <3>7, <3>8, <3>9, <3>10, <3>11 DEF SumsInv, parse, pool
    <2> QED
      BY <2>2, <2>3
  <1>5. CASE ListFiles \/ Collect \/ AllCollected
    <2>1. /\ UNCHANGED <<input, total, L3_AVAIL, config, power>>
          /\ i' = 0 \/ i' = 1 \/ i' = i + WORKER_THREADS \/ i' = i
      BY <1>5 DEF ListFiles, Collect, AllCollected, parse
    <2>2. pc \notin {"parse", "error"}
      BY <1>5 DEF ListFiles, Collect, AllCollected
    <2>3. i' \in Nat
      BY <2>1, PipelineAssumption DEF SumsInv
    <2> QED
      BY <2>1, <2>2, <2>3, SumsLeft
  <1>6. CASE ReadResult
    <2>1. /\ pc = "read" /\ UNCHANGED <<input, parse, config, onlyfiles, pt_results, power_threads>>
      BY <1>6, Zenon DEF ReadResult
    <2>2. \/ UNCHANGED <<i, power>>
          \/ i' = i + 1 /\ DOMAIN power' = DOMAIN power \cup {TimeOf(i)} /\ TimeOf(i) \in Labels
      BY <1>6 DEF ReadResult
    <2>3. i' \in Nat /\ DOMAIN power' \subseteq Labels
      BY <2>2 DEF SumsInv
    <2>4. \A n : FileOf(n)' = FileOf(n)
      BY <2>1 DEF FileOf, Merged, input
    <2>5. Files' = Files /\ Totals' = Totals
      BY <2>1, <2>4 DEF Files, Totals, input
    <2> QED
      BY <2>1, <2>3, <2>5 DEF SumsInv, parse, config
  <1> QED
    BY <1>1, <1>2, <1>3, <1>4, <1>5, <1>6 DEF Next, Main, Ended

LEMMA AlwaysSums == Spec => [](IInv /\ SumsInv /\ StatusInv)
  <1>1. Init => SumsInv /\ StatusInv
    BY SumsInit, StatusInit
  <1>2. IInv /\ SumsInv /\ StatusInv /\ [Next]_vars => (SumsInv /\ StatusInv)'
    BY SumsKept, StatusKept
  <1> QED
    BY Invariance, <1>1, <1>2, PTL DEF Spec

(* Whatever the log and wherever the analysis ends, an exception is what   *)
(* ends it in error, its loops stay in their bounds, and what is written   *)
(* and read has its form.                                                  *)
THEOREM TypesKept == Spec => []TypeOK
  <1>1. ASSUME IInv, SumsInv, StatusInv PROVE TypeOK
    <2>1. /\ pc \in {"parse", "derive", "clear", "generate", "launch", "collect", "read",
                     "done", "error"}
          /\ error \in {"none", "KeyError", "ZeroDivisionError", "CalledProcessError"}
          /\ error = "none" <=> pc # "error"
      BY <1>1 DEF StatusInv, Stages
    <2>2. Files \subseteq Configs /\ Outputs \subseteq Results /\ Len(frame) <= Samples
      BY <1>1, FilesTyped DEF IInv, ReadSoFar
    <2>3. OldFile \in Configs
      BY DEF OldFile, NoTree, Configs, Trees
    <2>4. DOMAIN dir \subseteq Nat /\ \A n \in DOMAIN dir : dir[n] \in Configs
      BY <1>1, <2>2, <2>3 DEF SumsInv
    <2>5. /\ \A j \in DOMAIN pt_results : pt_results[j] \in Results
          /\ \A n \in DOMAIN power_threads : power_threads[n] \in Results
      BY <1>1, <2>2 DEF IInv, Collecting
    <2> QED
      BY <1>1, <2>1, <2>2, <2>4, <2>5 DEF TypeOK, SumsInv
  <1> QED
    BY AlwaysSums, <1>1, PTL

(* Every row of a table written is of its bin alone, and the physical      *)
(* cores of every config file have, between them, exactly the cycles of    *)
(* all the logical ones in that bin: each core's, once.                    *)
THEOREM PowerIsOfItsBin == Spec => []PowerOfItsBin
  <1>1. ASSUME IInv, SumsInv, NEW n \in DOMAIN dir, dir[n].bin \in Bins
        PROVE  SumOver(dir[n].core, 0 .. CORES - 1) = total[dir[n].bin]
    <2>1. OldFile.bin \notin Bins
      BY DEF OldFile, Bins
    <2>2. dir[n] \in Files /\ total = Totals
      BY <1>1, <2>1 DEF SumsInv
    <2>3. PICK m \in Bins : dir[n] = FileOf(m)
      BY <2>2 DEF Files
    <2> DEFINE f == [c \in Cpus |-> work[c][m]]
    <2>4. f \in [Cpus -> Nat]
      BY <1>1, PipelineAssumption DEF IInv, ReadSoFar, Bins
    <2>5. total[m] = SumOver(f, Cpus)
      BY <2>2 DEF Totals
    <2>6. dir[n].bin = m /\ dir[n].core = [k \in Cores |-> Merged(k, m)]
      BY <2>3 DEF FileOf
    <2>7. [k \in Cores |-> Merged(k, m)]
            = [k \in Cores |-> SumOver(f, {c \in Cpus : c % CORES = k})]
      BY DEF Merged
    <2> HIDE DEF f
    <2>8. SumOver(dir[n].core, Cores) = SumOver(f, Cpus)
      BY <2>4, <2>6, <2>7, MergedAddUp
    <2> QED
      BY <2>5, <2>6, <2>8 DEF Cores
  <1>2. IInv /\ SumsInv /\ TableOfItsBins => PowerOfItsBin
    BY <1>1 DEF PowerOfItsBin
  <1> QED
    BY AlwaysSums, TableIsOfItsBins, <1>2, PTL
=============================================================================
