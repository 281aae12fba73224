-------------------------- MODULE PerfSessionProof --------------------------
(***************************************************************************)
(* That a log holds one session and all samples whole at the stop, and,    *)
(* for scripts that measure one node, is analysed under its own times: for *)
(* any nodes, any number of samples and any clock.                         *)
(***************************************************************************)
EXTENDS PerfSession, TLAPS

LogFile(f) == f.lines \in Seq(Parts) /\ f.start \in Times /\ f.end \in Times /\ f.exists \in BOOLEAN

(* How far perf is, and how far it may still write. *)
PerfInv(n) ==
    /\ last[n] <= 2 * MaxSamples + 2
    /\ perf[n] \in {"none", "starting", "running"} => last[n] = 2 * MaxSamples
    /\ perf[n] \in {"none", "starting"} => wrote[n] = 0 /\ writer[n] = "none"
    /\ phase[n] = "run" => perf[n] = "none"

(* marshal_perf has not begun for the node. *)
Unmarshalled(n) == phase[n] # "done" /\ (pc = "script" \/ node # n)

(* The file perf has open holds what perf wrote; a log is one session's. *)
OneSession(lines) == lines = OldLog.lines \/ lines = NewParts(Len(lines))
LogInv(n) ==
    /\ OneSession(counters[n].lines) /\ OneSession(results[n].lines)
    /\ OneSession(analysed[n].lines)
    /\ writer[n] = "counters" => counters[n].exists /\ counters[n].lines = NewParts(wrote[n])
    /\ writer[n] = "results" => results[n].lines = NewParts(wrote[n]) /\ ~ Unmarshalled(n)
    /\ perf[n] = "starting" => counters[n].lines = <<>>

HistoryType ==
    /\ began \in [Nodes -> Times] /\ ended \in [Nodes -> Times]
    /\ before \in [Nodes -> Nat] /\ analysed \in [Nodes -> Files]

IInv ==
    /\ TypeOK /\ HistoryType
    /\ pc # "script" => phase[node] = "marshal"
    /\ OneSession(snapshot.lines)
    /\ \A n \in Nodes : PerfInv(n) /\ LogInv(n)

-----------------------------------------------------------------------------
LEMMA PartType ==
    ASSUME NEW i \in 1 .. 2 * MaxSamples + 2
    PROVE  Part("new", i) \in Parts
  BY SessionAssumption DEF Part, Parts

LEMMA NewPartsType ==
    ASSUME NEW k \in 0 .. 2 * MaxSamples + 2
    PROVE  /\ NewParts(k) \in Seq(Parts) /\ Len(NewParts(k)) = k
  <1>1. \A i \in 1 .. k : Part("new", i) \in Parts
    BY PartType, SessionAssumption
  <1> QED
    BY <1>1 DEF NewParts

LEMMA Empty == NewParts(0) = <<>> /\ <<>> = NewParts(Len(<<>>))
  BY DEF NewParts

LEMMA OneMore ==
    ASSUME NEW k \in Nat
    PROVE  /\ Append(NewParts(k), Part("new", k + 1)) = NewParts(k + 1)
           /\ Len(NewParts(k)) = k
  <1>1. NewParts(k) \in Seq({Part("new", i) : i \in Nat}) /\ Len(NewParts(k)) = k
    BY DEF NewParts
  <1> DEFINE s == Append(NewParts(k), Part("new", k + 1))
  <1>2. Len(s) = k + 1 /\ DOMAIN s = 1 .. k + 1
    BY <1>1
  <1>3. \A i \in 1 .. k + 1 : s[i] = Part("new", i)
    BY <1>1 DEF NewParts
  <1>4. s = [i \in 1 .. k + 1 |-> s[i]]
    BY <1>1, <1>2
  <1> QED
    BY <1>1, <1>2, <1>3, <1>4 DEF NewParts

LEMMA FileTypes ==
    /\ NoFile \in Files /\ EmptyFile \in Files /\ OldLog \in Files /\ OldResult \in Files
    /\ OldLog.lines = <<Part("old", 1), Part("old", 2)>>
    /\ NoFile.lines = <<>> /\ EmptyFile.lines = <<>> /\ ~ NoFile.exists /\ EmptyFile.exists
    /\ OldResult.lines = OldLog.lines
    /\ OldResult.start = OldTime /\ OldResult.end = OldTime
    /\ NoFile.start = NoTime /\ NoFile.end = NoTime
  <1>1. Part("old", 1) \in Parts /\ Part("old", 2) \in Parts
    BY SessionAssumption DEF Part, Parts
  <1>2. OldTime \in Times /\ NoTime \in Times
    BY SessionAssumption DEF OldTime, NoTime, Times
  <1>3. <<Part("old", 1), Part("old", 2)>> \in Seq(Parts) /\ <<>> \in Seq(Parts)
    BY <1>1
  <1> HIDE DEF OldTime, NoTime
  <1> QED
    BY <1>2, <1>3 DEF NoFile, EmptyFile, OldLog, OldResult, Files

LEMMA NewIsNotOld == \A k \in Nat : NewParts(k) # OldLog.lines /\ <<>> # OldLog.lines
  <1> SUFFICES ASSUME NEW k \in Nat, NewParts(k) = OldLog.lines PROVE FALSE
    BY FileTypes
  <1>3. Len(NewParts(k)) = k
    BY OneMore
  <1>4. \A a, b : Len(<<a, b>>) = 2 /\ <<a, b>>[1] = a /\ <<>> # <<a, b>>
    OBVIOUS
  <1>5. OldLog.lines = <<Part("old", 1), Part("old", 2)>>
    BY FileTypes
  <1>1. Len(NewParts(k)) = k /\ Len(OldLog.lines) = 2 /\ OldLog.lines[1] = Part("old", 1)
    BY <1>3, <1>4, <1>5
  <1>2. NewParts(k)[1] = Part("new", 1)
    BY <1>1 DEF NewParts
  <1> QED
    BY <1>1, <1>2 DEF Part

(* The actions, one lemma each. *)
LEMMA PostedIsFile ==
    ASSUME NEW f \in Files, NEW s \in Times, NEW e \in Times
    PROVE  /\ PostTimes(f, s, e) \in Files /\ PostTimes(f, s, e).lines = f.lines
           /\ PostTimes(f, s, e).start = s /\ PostTimes(f, s, e).end = e
  BY DEF PostTimes, Files

LEMMA WrittenIsFile ==
    ASSUME NEW f \in Files, NEW i \in 1 .. 2 * MaxSamples + 2
    PROVE  /\ WithPart(f, Part("new", i)) \in Files
           /\ WithPart(f, Part("new", i)).lines = Append(f.lines, Part("new", i))
           /\ WithPart(f, Part("new", i)).exists = f.exists
           /\ WithPart(f, Part("new", i)).start = f.start
           /\ WithPart(f, Part("new", i)).end = f.end
  BY PartType DEF WithPart, Files

LEMMA LastPartBounds ==
    ASSUME NEW w \in Nat, w <= 2 * MaxSamples
    PROVE  LastPart(w) \in Nat /\ w <= LastPart(w) /\ LastPart(w) <= 2 * MaxSamples + 2
  BY SessionAssumption DEF LastPart

LEMMA InitInv == Init => IInv
  <1> SUFFICES ASSUME Init PROVE IInv
    OBVIOUS
  <1>1. PICK S \in Scripts : phase = [n \in Nodes |-> IF n \in S THEN "run" ELSE "done"]
    BY DEF Init
  <1>2. (CHOOSE n \in Nodes : TRUE) \in Nodes
    BY SessionAssumption
  <1>3. TypeOK
    <2>1. /\ counters \in [Nodes -> Files] /\ results \in [Nodes -> Files] /\ snapshot \in Files
      BY FileTypes DEF Init
    <2>2. NoTime \in Times /\ now \in Times
      BY SessionAssumption DEF Init, Times, NoTime, OldTime
    <2>3. phase \in [Nodes -> {"run", "stop", "marshal", "done"}]
      BY <1>1
    <2>4. wrote \in [Nodes -> Nat] /\ last \in [Nodes -> Nat] /\ \A n \in Nodes : wrote[n] <= last[n]
      BY SessionAssumption DEF Init
    <2> QED
      BY <1>2, <2>1, <2>2, <2>3, <2>4 DEF Init, TypeOK
  <1>4. ASSUME NEW n \in Nodes PROVE PerfInv(n) /\ LogInv(n)
    <2>1. PerfInv(n)
      BY <1>1, SessionAssumption DEF Init, PerfInv
    <2>2. /\ counters[n] \in {NoFile, OldLog} /\ results[n] \in {NoFile, OldResult}
          /\ analysed[n] = NoFile /\ writer[n] = "none" /\ perf[n] = "none"
      BY DEF Init
    <2> QED
      BY <2>1, <2>2, FileTypes, Empty DEF LogInv, OneSession
  <1>9. HistoryType
    BY <1>3, FileTypes, SessionAssumption DEF Init, HistoryType, TypeOK, Times, NoTime
  <1> QED
    BY <1>9, <1>3, <1>4, FileTypes, Empty DEF Init, IInv, OneSession

LEMMA RunPerfInv == ASSUME IInv, NEW n \in Nodes, RunPerf(n) PROVE IInv'
  <1>1. TypeOK'
    BY FileTypes DEF IInv, TypeOK, RunPerf, RemoveLog
  <1>2. ASSUME NEW m \in Nodes PROVE (PerfInv(m) /\ LogInv(m))'
    <2>1. PerfInv(m)'
      BY DEF IInv, TypeOK, PerfInv, RunPerf
    <2>2. CASE m = n
      <3>1. counters'[n] = NoFile /\ writer'[n] = "none" /\ results' = results /\ analysed' = analysed
        BY DEF IInv, TypeOK, PerfInv, RunPerf, RemoveLog
      <3> QED
        BY <2>1, <2>2, <3>1, FileTypes, Empty DEF IInv, LogInv, OneSession
    <2>3. CASE m # n
      <3>1. /\ counters'[m] = counters[m] /\ perf'[m] = perf[m] /\ phase'[m] = phase[m]
            /\ UNCHANGED <<results, analysed, writer, wrote, pc, node>>
        BY <2>3 DEF IInv, TypeOK, RunPerf, RemoveLog
      <3> QED
        BY <2>1, <3>1 DEF IInv, LogInv, OneSession, Unmarshalled
    <2> QED
      BY <2>1, <2>2, <2>3
  <1>9. HistoryType'
    BY DEF IInv, TypeOK, HistoryType, RunPerf
  <1> QED
    BY <1>9, <1>1, <1>2 DEF IInv, TypeOK, RunPerf, OneSession

LEMMA StopPerfInv == ASSUME IInv, NEW n \in Nodes, StopPerf(n) PROVE IInv'
  <1>0. Kill(n) \/ UNCHANGED <<perf, last>>
    BY DEF StopPerf, Execute
  <1>1. /\ perf' \in [Nodes -> {"none", "starting", "running", "ending", "gone"}]
        /\ last' \in [Nodes -> Nat]
        /\ \A m \in Nodes : wrote[m] <= last'[m] /\ last'[m] <= 2 * MaxSamples + 2
        /\ \A m \in Nodes : \/ perf'[m] = perf[m] /\ last'[m] = last[m]
                            \/ perf'[m] = "ending" /\ perf[m] = "running"
    <2>1. \A m \in Nodes : perf[m] = "running" => /\ LastPart(wrote[m]) \in Nat /\ wrote[m] <= LastPart(wrote[m])
                                                  /\ LastPart(wrote[m]) <= 2 * MaxSamples + 2
      BY LastPartBounds DEF IInv, TypeOK, PerfInv
    <2>4. /\ perf \in [Nodes -> {"none", "starting", "running", "ending", "gone"}]
          /\ last \in [Nodes -> Nat] /\ wrote \in [Nodes -> Nat]
          /\ \A m \in Nodes : wrote[m] <= last[m] /\ last[m] <= 2 * MaxSamples + 2
      BY DEF IInv, TypeOK, PerfInv
    <2>2. CASE UNCHANGED <<perf, last>>
      BY <2>2, <2>4
    <2>3. CASE /\ perf[n] = "running" /\ perf' = [perf EXCEPT ![n] = "ending"]
               /\ last' = [last EXCEPT ![n] = LastPart(wrote[n])]
      BY <2>1, <2>3, <2>4
    <2> QED
      BY <1>0, <2>2, <2>3 DEF Kill
  <1>2. TypeOK'
    <2>1. EXIT_CODE' \in {0, 1}
      BY DEF IInv, TypeOK, StopPerf, Execute
    <2> QED
      BY <1>1, <2>1 DEF IInv, TypeOK, StopPerf, files
  <1>3. ASSUME NEW m \in Nodes PROVE (PerfInv(m) /\ LogInv(m))'
    <2>1. PerfInv(m)'
      BY <1>1 DEF IInv, TypeOK, PerfInv, StopPerf
    <2>2. UNCHANGED <<counters, results, analysed, writer, wrote, pc, node>>
      BY DEF StopPerf, files
    <2>3. phase'[m] = "done" <=> phase[m] = "done"
      BY DEF IInv, TypeOK, StopPerf
    <2> QED
      BY <1>1, <2>1, <2>2, <2>3 DEF IInv, LogInv, OneSession, Unmarshalled
  <1>9. HistoryType'
    BY DEF IInv, TypeOK, HistoryType, StopPerf
  <1> QED
    BY <1>9, <1>2, <1>3 DEF IInv, TypeOK, StopPerf, OneSession, files

LEMMA MarshalBeginsInv == ASSUME IInv, NEW n \in Nodes, BeginMarshal(n) PROVE IInv'
  <1>1. Move(n) \/ Fetch(n) \/ UNCHANGED <<results, counters, writer>>
    BY DEF BeginMarshal, Execute
  <1>2. /\ counters' \in [Nodes -> Files] /\ results' \in [Nodes -> Files]
        /\ writer' \in [Nodes -> {"none", "counters", "results", "deleted"}]
        /\ \A m \in Nodes : m # n => counters'[m] = counters[m] /\ results'[m] = results[m] /\ writer'[m] = writer[m]
    <2>1. CASE Move(n)
      <3>1. writer' = writer \/ \E w \in {"results", "deleted"} : writer' = [writer EXCEPT ![n] = w]
        BY <2>1 DEF Move
      <3>2. counters' = [counters EXCEPT ![n] = NoFile]
            /\ results' \in {[results EXCEPT ![n] = counters[n]], [results EXCEPT ![n] = @]}
        BY <2>1 DEF Move
      <3>3. /\ results' \in [Nodes -> Files]
            /\ \A m \in Nodes : m # n => results'[m] = results[m]
        BY <3>2 DEF IInv, TypeOK
      <3>4. /\ counters' \in [Nodes -> Files]
            /\ \A m \in Nodes : m # n => counters'[m] = counters[m]
        BY <3>2, FileTypes DEF IInv, TypeOK
      <3>5. /\ writer' \in [Nodes -> {"none", "counters", "results", "deleted"}]
            /\ \A m \in Nodes : m # n => writer'[m] = writer[m]
        BY <3>1 DEF IInv, TypeOK
      <3> QED
        BY <3>3, <3>4, <3>5
    <2>2. CASE Fetch(n)
      BY <2>2 DEF IInv, TypeOK, Fetch
    <2> QED
      BY <1>1, <2>1, <2>2 DEF IInv, TypeOK
  <1>3. TypeOK'
    <2>1. EXIT_CODE' \in {0, 1}
      BY DEF IInv, TypeOK, BeginMarshal, Execute, Fetch
    <2> QED
      BY <1>2, <2>1 DEF IInv, TypeOK, BeginMarshal, history
  <1>4. ASSUME NEW m \in Nodes PROVE (PerfInv(m) /\ LogInv(m))'
    <2>0. UNCHANGED <<analysed, wrote, last, perf, phase>> /\ pc = "script" /\ phase[n] = "marshal" /\ node' = n /\ pc' = "start"
      BY DEF BeginMarshal, history
    <2>1. PerfInv(m)'
      <3>1. CASE m = n
        <4>1. perf[n] \in {"none", "starting"} => writer' [n] = "none"
          BY <1>1 DEF IInv, TypeOK, PerfInv, Move, Fetch
        <4> QED
          BY <2>0, <3>1, <4>1 DEF IInv, PerfInv
      <3> QED
        BY <1>2, <2>0, <3>1 DEF IInv, PerfInv
    <2>2. CASE m = n
      <3>1. writer[n] # "results" /\ LogInv(n)
        BY <2>0 DEF IInv, LogInv, Unmarshalled
      <3>2. CASE UNCHANGED <<results, counters, writer>>
        BY <2>0, <2>1, <2>2, <3>1, <3>2 DEF LogInv, OneSession
      <3>3. CASE Fetch(n)
        <4>1. results'[n] \in {counters[n], results[n]} /\ UNCHANGED <<counters, writer>>
          BY <3>3 DEF Fetch, IInv, TypeOK
        <4> QED
          BY <2>0, <2>1, <2>2, <3>1, <4>1 DEF LogInv, OneSession
      <3>4. CASE Move(n)
        <4>1. /\ counters'[n] = NoFile
              /\ counters[n].exists => results'[n] = counters[n]
              /\ ~ counters[n].exists => results'[n] = results[n]
              /\ writer'[n] # "counters"
              /\ writer'[n] = "results" => writer[n] = "counters" /\ counters[n].exists
          BY <3>1, <3>4 DEF Move, IInv, TypeOK, LogInv
        <4>2. ~ Unmarshalled(n)'
          BY <2>0 DEF Unmarshalled
        <4> QED
          BY <2>0, <2>1, <2>2, <3>1, <4>1, <4>2, FileTypes, Empty DEF LogInv, OneSession
      <3> QED
        BY <1>1, <3>2, <3>3, <3>4
    <2>3. CASE m # n
      <3>1. Unmarshalled(m)' <=> Unmarshalled(m)
        BY <2>0, <2>3 DEF Unmarshalled
      <3> QED
        BY <1>2, <2>0, <2>1, <2>3, <3>1 DEF IInv, LogInv, OneSession
    <2> QED
      BY <2>1, <2>2, <2>3
  <1>9. HistoryType'
    BY DEF IInv, HistoryType, BeginMarshal, history
  <1> QED
    BY <1>9, <1>3, <1>4 DEF IInv, BeginMarshal, OneSession

(* The times are appended to the log: its lines and perf are not touched. *)
LEMMA PostInv == ASSUME IInv, PostStart \/ PostEnd PROVE IInv'
  <1>1. PICK s \in Times, e \in Times :
          results' \in {results, [results EXCEPT ![node] = PostTimes(@, s, e)]}
    BY DEF IInv, TypeOK, PostStart, PostEnd, Files
  <1>2. results' \in [Nodes -> Files] /\ \A m \in Nodes : results'[m].lines = results[m].lines
    <2>1. /\ PostTimes(results[node], s, e) \in Files
          /\ PostTimes(results[node], s, e).lines = results[node].lines
      BY PostedIsFile DEF IInv, TypeOK
    <2> QED
      BY <1>1, <2>1 DEF IInv, TypeOK
  <1>3. /\ UNCHANGED <<quiet, shell, node, phase, counters, snapshot, process, now, history>>
        /\ pc # "script" /\ pc' \in {"end", "sed"}
    BY DEF PostStart, PostEnd
  <1>4. TypeOK'
    BY <1>2, <1>3 DEF IInv, TypeOK, shell, process, history
  <1>5. ASSUME NEW m \in Nodes PROVE (PerfInv(m) /\ LogInv(m))'
    <2>1. PerfInv(m)'
      BY <1>3 DEF IInv, PerfInv, process
    <2>2. Unmarshalled(m)' <=> Unmarshalled(m)
      BY <1>3 DEF Unmarshalled
    <2> QED
      BY <1>2, <1>3, <2>1, <2>2 DEF IInv, LogInv, OneSession, process, history
  <1>9. HistoryType'
    BY <1>3 DEF IInv, HistoryType, history
  <1> QED
    BY <1>9, <1>3, <1>4, <1>5 DEF IInv, OneSession

LEMMA SedReadInv == ASSUME IInv, SedRead PROVE IInv'
  <1>1. TypeOK'
    BY DEF IInv, TypeOK, SedRead, shell, process, history
  <1>2. ASSUME NEW m \in Nodes PROVE (PerfInv(m) /\ LogInv(m))'
    <2>1. PerfInv(m)'
      BY DEF IInv, PerfInv, process, SedRead
    <2>2. Unmarshalled(m)' <=> Unmarshalled(m)
      BY DEF Unmarshalled, SedRead
    <2> QED
      BY <2>1, <2>2 DEF IInv, LogInv, OneSession, process, history, SedRead
  <1>3. OneSession(snapshot.lines)'
    BY DEF IInv, TypeOK, LogInv, SedRead, OneSession
  <1>9. HistoryType'
    BY DEF IInv, HistoryType, SedRead, history
  <1> QED
    BY <1>9, <1>1, <1>2, <1>3 DEF IInv, SedRead

LEMMA SedRenameInv == ASSUME IInv, SedRename PROVE IInv'
  <1>1. TypeOK'
    BY FileTypes DEF IInv, TypeOK, SedRename, shell, history
  <1>2. ASSUME NEW m \in Nodes PROVE (PerfInv(m) /\ LogInv(m))'
    <2>0. /\ UNCHANGED <<phase, counters, perf, wrote, last, analysed>>
          /\ results'[m] = IF m = node THEN snapshot ELSE results[m]
          /\ writer'[m] # "results" => writer'[m] \in {writer[m], "deleted"}
          /\ writer[m] # "results" => writer'[m] = writer[m]
          /\ writer'[m] = "results" => writer[m] = "results" /\ m # node
      BY DEF IInv, TypeOK, SedRename, history
    <2>1. PerfInv(m)'
      BY <2>0 DEF IInv, PerfInv
    <2>2. Unmarshalled(m)' <=> Unmarshalled(m)
      BY DEF Unmarshalled, SedRename
    <2> QED
      BY <2>0, <2>1, <2>2 DEF IInv, LogInv, OneSession
  <1>9. HistoryType'
    BY DEF IInv, HistoryType, SedRename, history
  <1> QED
    BY <1>9, <1>1, <1>2, FileTypes, Empty DEF IInv, SedRename, OneSession

LEMMA AnalyseInv == ASSUME IInv, Analyse PROVE IInv'
  <1>1. /\ analysed' \in {analysed, [analysed EXCEPT ![node] = results[node]]} /\ EXIT_CODE' \in {0, 1}
    BY DEF Analyse, Execute, IInv, TypeOK
  <1>2. TypeOK'
    BY <1>1 DEF IInv, TypeOK, Analyse, files, process
  <1>3. ASSUME NEW m \in Nodes PROVE (PerfInv(m) /\ LogInv(m))'
    <2>0. /\ UNCHANGED <<files, process, node>> /\ pc' = "script" /\ pc = "process"
          /\ phase'[m] = IF m = node THEN "done" ELSE phase[m]
      BY DEF IInv, TypeOK, Analyse
    <2>1. PerfInv(m)'
      BY <2>0 DEF IInv, PerfInv, process
    <2>2. Unmarshalled(m)' => Unmarshalled(m)
      BY <2>0 DEF Unmarshalled
    <2>3. OneSession(analysed'[m].lines)
      <3>1. analysed'[m] = analysed[m] \/ analysed'[m] = results[m]
        BY <1>1 DEF IInv, HistoryType
      <3> QED
        BY <3>1 DEF IInv, LogInv
    <2> QED
      BY <2>0, <2>1, <2>2, <2>3 DEF IInv, LogInv, OneSession, files, process
  <1>9. HistoryType'
    BY <1>1 DEF IInv, TypeOK, HistoryType, Analyse
  <1> QED
    BY <1>9, <1>2, <1>3 DEF IInv, Analyse, OneSession, files

LEMMA PerfStartsInv == ASSUME IInv, NEW n \in Nodes, PerfStarts(n) PROVE IInv'
  <1>0. /\ UNCHANGED <<quiet, shell, script, results, snapshot, wrote, last, now, history>>
        /\ perf[n] = "starting" /\ wrote[n] = 0 /\ counters[n].lines = <<>> /\ last[n] = 2 * MaxSamples
    BY DEF PerfStarts, IInv, LogInv, PerfInv
  <1>1. [counters[n] EXCEPT !.exists = TRUE] \in Files /\ [counters[n] EXCEPT !.exists = TRUE].lines = counters[n].lines
        /\ [counters[n] EXCEPT !.exists = TRUE].exists
    BY DEF IInv, TypeOK, Files
  <1>2. /\ counters' \in [Nodes -> Files] /\ counters'[n].lines = <<>>
        /\ \A m \in Nodes : m # n => counters'[m] = counters[m]
        /\ perf' \in {[perf EXCEPT ![n] = "running"], [perf EXCEPT ![n] = "gone"]}
        /\ writer' \in {writer, [writer EXCEPT ![n] = "counters"]}
        /\ writer' = writer \/ counters'[n].exists
    <2> DEFINE opened == [counters[n] EXCEPT !.exists = TRUE]
    <2>1. /\ counters \in [Nodes -> Files] /\ opened \in Files /\ EmptyFile \in Files
          /\ opened.lines = <<>> /\ EmptyFile.lines = <<>> /\ opened.exists /\ EmptyFile.exists
      BY <1>0, <1>1, FileTypes DEF IInv, TypeOK
    <2>2. \/ /\ counters' = [counters EXCEPT ![n] = EmptyFile] \/ counters' = [counters EXCEPT ![n] = opened]
             /\ perf' = [perf EXCEPT ![n] = "running"] /\ writer' = [writer EXCEPT ![n] = "counters"]
          \/ /\ counters' = counters \/ counters' = [counters EXCEPT ![n] = opened]
             /\ perf' = [perf EXCEPT ![n] = "gone"] /\ writer' = writer
      BY DEF PerfStarts
    <2> HIDE DEF opened
    <2> QED
      BY <1>0, <2>1, <2>2
  <1>3. TypeOK'
    BY <1>0, <1>2 DEF IInv, TypeOK, shell, script, history
  <1>4. ASSUME NEW m \in Nodes PROVE (PerfInv(m) /\ LogInv(m))'
    <2>1. PerfInv(m)'
      BY <1>0, <1>2 DEF IInv, TypeOK, PerfInv, script
    <2>2. Unmarshalled(m)' <=> Unmarshalled(m)
      BY <1>0 DEF Unmarshalled, script
    <2>3. CASE m = n
      <3>1. writer[n] = "none" /\ writer'[n] \in {"none", "counters"} /\ perf'[n] # "starting"
        BY <1>0, <1>2 DEF IInv, TypeOK, PerfInv
      <3>2. writer'[n] = "counters" => counters'[n].exists
        BY <1>2, <3>1
      <3> QED
        BY <1>0, <1>2, <2>1, <2>3, <3>1, <3>2, Empty DEF IInv, LogInv, OneSession, history
    <2>4. CASE m # n
      <3>1. writer'[m] = writer[m] /\ perf'[m] = perf[m] /\ counters'[m] = counters[m]
        BY <1>2, <2>4 DEF IInv, TypeOK
      <3> QED
        BY <1>0, <2>1, <2>2, <3>1 DEF IInv, LogInv, OneSession, history
    <2> QED
      BY <2>3, <2>4
  <1>9. HistoryType'
    BY <1>0 DEF IInv, HistoryType, history
  <1> QED
    BY <1>9, <1>0, <1>3, <1>4 DEF IInv, OneSession, script

LEMMA WritePartInv == ASSUME IInv, NEW n \in Nodes, WritePart(n) PROVE IInv'
  <1> DEFINE part == Part("new", wrote[n] + 1)
             cut  == [WithPart(results[n], part) EXCEPT !.start = NoTime, !.end = NoTime]
  <1>0. /\ UNCHANGED <<quiet, shell, script, snapshot, perf, writer, last, now, history>>
        /\ perf[n] \in {"running", "ending"} /\ wrote[n] < last[n]
        /\ wrote' = [wrote EXCEPT ![n] = @ + 1]
        /\ wrote[n] \in Nat /\ last[n] \in Nat /\ last[n] <= 2 * MaxSamples + 2
    BY DEF WritePart, IInv, TypeOK, PerfInv
  <1>1. wrote[n] + 1 \in 1 .. 2 * MaxSamples + 2
    BY <1>0, SessionAssumption
  <1>2. /\ \A f \in Files : /\ WithPart(f, part) \in Files /\ WithPart(f, part).exists = f.exists
                            /\ WithPart(f, part).lines = Append(f.lines, part)
        /\ cut \in Files /\ cut.lines = Append(results[n].lines, part)
    <2>1. NoTime \in Times
      BY SessionAssumption DEF NoTime, Times
    <2>2. ASSUME NEW f \in Files PROVE /\ WithPart(f, part) \in Files /\ WithPart(f, part).exists = f.exists
                                       /\ WithPart(f, part).lines = Append(f.lines, part)
      BY <1>1, <2>2, WrittenIsFile
    <2>3. ASSUME NEW g \in Files PROVE /\ [g EXCEPT !.start = NoTime, !.end = NoTime] \in Files
                                       /\ [g EXCEPT !.start = NoTime, !.end = NoTime].lines = g.lines
      BY <2>1, <2>3 DEF Files
    <2>4. results[n] \in Files /\ WithPart(results[n], part) \in Files
      BY <2>2 DEF IInv, TypeOK
    <2> QED
      BY <2>2, <2>3, <2>4
  <1>3. \/ /\ writer[n] = "counters" /\ counters' = [counters EXCEPT ![n] = WithPart(@, part)] /\ results' = results
        \/ /\ writer[n] = "results" /\ counters' = counters
           /\ results' = [results EXCEPT ![n] = cut]
        \/ writer[n] = "deleted" /\ UNCHANGED <<counters, results>>
    BY DEF WritePart
  <1> HIDE DEF part, cut
  <1>4. counters' \in [Nodes -> Files] /\ results' \in [Nodes -> Files]
    <2>1. counters \in [Nodes -> Files] /\ results \in [Nodes -> Files]
      BY DEF IInv, TypeOK
    <2>2. WithPart(counters[n], part) \in Files
      BY <1>2, <2>1
    <2> QED
      BY <1>2, <1>3, <2>1, <2>2
  <1>5. TypeOK'
    <2>1. wrote' \in [Nodes -> Nat] /\ \A m \in Nodes : wrote'[m] <= last'[m]
      BY <1>0 DEF IInv, TypeOK
    <2> QED
      BY <1>0, <1>4, <2>1 DEF IInv, TypeOK, shell, script, history
  <1>6. ASSUME NEW m \in Nodes PROVE (PerfInv(m) /\ LogInv(m))'
    <2>1. PerfInv(m)'
      BY <1>0 DEF IInv, TypeOK, PerfInv, script
    <2>2. Unmarshalled(m)' <=> Unmarshalled(m)
      BY <1>0 DEF Unmarshalled, script
    <2>3. CASE m # n
      <3>1. wrote'[m] = wrote[m] /\ counters'[m] = counters[m] /\ results'[m] = results[m]
        BY <1>0, <1>3, <2>3 DEF IInv, TypeOK
      <3> QED
        BY <1>0, <2>1, <2>2, <3>1 DEF IInv, LogInv, OneSession, history
    <2>4. CASE m = n
      <3>0. wrote'[n] = wrote[n] + 1 /\ Append(NewParts(wrote[n]), part) = NewParts(wrote[n] + 1)
            /\ Len(NewParts(wrote[n] + 1)) = wrote[n] + 1 /\ counters[n] \in Files /\ results[n] \in Files
        <4>1. wrote'[n] = wrote[n] + 1 /\ counters[n] \in Files /\ results[n] \in Files
          BY <1>0 DEF IInv, TypeOK
        <4>2. Append(NewParts(wrote[n]), part) = NewParts(wrote[n] + 1)
          BY <1>0, OneMore DEF part
        <4>3. wrote[n] + 1 \in Nat
          BY <1>0
        <4>4. Len(NewParts(wrote[n] + 1)) = wrote[n] + 1
          BY <4>3, OneMore
        <4> QED
          BY <4>1, <4>2, <4>4
      <3>1. CASE writer[n] = "counters"
        <4>1. counters'[n].lines = NewParts(wrote[n] + 1) /\ counters'[n].exists /\ results' = results
          <5>1. counters' = [counters EXCEPT ![n] = WithPart(@, part)] /\ results' = results
            BY <1>3, <3>1
          <5>2. counters'[n] = WithPart(counters[n], part)
            BY <5>1 DEF IInv, TypeOK
          <5>3. counters[n].lines = NewParts(wrote[n]) /\ counters[n].exists
            BY <3>1 DEF IInv, LogInv
          <5> QED
            BY <1>2, <3>0, <5>1, <5>2, <5>3
        <4> QED
          BY <1>0, <2>1, <2>4, <3>0, <3>1, <4>1 DEF IInv, LogInv, OneSession, history
      <3>2. CASE writer[n] = "results"
        <4>1. results'[n].lines = NewParts(wrote[n] + 1) /\ counters' = counters
          BY <1>2, <1>3, <3>0, <3>2 DEF IInv, TypeOK, LogInv
        <4> QED
          BY <1>0, <2>1, <2>2, <2>4, <3>0, <3>2, <4>1 DEF IInv, LogInv, OneSession, history
      <3>3. CASE writer[n] = "deleted"
        <4>1. counters' = counters /\ results' = results
          BY <1>3, <3>3
        <4> QED
          BY <1>0, <2>1, <2>4, <3>3, <4>1 DEF IInv, LogInv, OneSession, history
      <3> QED
        BY <1>3, <3>1, <3>2, <3>3
    <2> QED
      BY <2>3, <2>4
  <1>9. HistoryType'
    BY <1>0 DEF IInv, HistoryType, history
  <1> QED
    BY <1>9, <1>0, <1>5, <1>6 DEF IInv, OneSession, script

LEMMA PerfExitsInv == ASSUME IInv, NEW n \in Nodes, PerfExits(n) PROVE IInv'
  <1>1. TypeOK'
    BY DEF IInv, TypeOK, PerfExits, shell, script, files, history
  <1>2. ASSUME NEW m \in Nodes PROVE (PerfInv(m) /\ LogInv(m))'
    <2>0. /\ UNCHANGED <<files, script, wrote, last, analysed>>
          /\ \/ perf'[m] = perf[m] /\ writer'[m] = writer[m]
             \/ perf'[m] = "gone" /\ writer'[m] = "none" /\ perf[m] = "ending"
      BY DEF IInv, TypeOK, PerfExits, history
    <2>1. PerfInv(m)'
      BY <2>0 DEF IInv, PerfInv, script
    <2>2. Unmarshalled(m)' <=> Unmarshalled(m)
      BY <2>0 DEF Unmarshalled, script
    <2> QED
      BY <2>0, <2>1, <2>2 DEF IInv, LogInv, OneSession, files
  <1>9. HistoryType'
    BY DEF IInv, HistoryType, PerfExits, history
  <1> QED
    BY <1>9, <1>1, <1>2 DEF IInv, PerfExits, OneSession, script, files

LEMMA StutterInv == ASSUME IInv, Tick \/ UNCHANGED vars PROVE IInv'
  <1>0. UNCHANGED <<quiet, shell, script, files, process, history>> /\ now' \in Times
    BY SessionAssumption DEF Tick, vars, IInv, TypeOK, Times
  <1>1. TypeOK'
    BY <1>0 DEF IInv, TypeOK, shell, script, files, process, history
  <1>2. ASSUME NEW m \in Nodes PROVE (PerfInv(m) /\ LogInv(m))'
    BY <1>0 DEF IInv, PerfInv, LogInv, OneSession, Unmarshalled, script, files, process, history
  <1>9. HistoryType'
    BY <1>0 DEF IInv, HistoryType, history
  <1> QED
    BY <1>9, <1>0, <1>1, <1>2 DEF IInv, OneSession, script, files

(* What marshal_perf may rely on, whatever perf still does beside it: the  *)
(* types, how far perf is, and what each log holds.                        *)
THEOREM Invariance == Spec => []IInv
  <1>1. IInv /\ [Next]_vars => IInv'
    <2> SUFFICES ASSUME IInv, [Next]_vars PROVE IInv'
      OBVIOUS
    <2>1. ASSUME NEW n \in Nodes, Call(n) PROVE IInv'
      BY <2>1, RunPerfInv, StopPerfInv, MarshalBeginsInv DEF Call
    <2>2. ASSUME NEW n \in Nodes, PerfOf(n) PROVE IInv'
      BY <2>2, PerfStartsInv, WritePartInv, PerfExitsInv DEF PerfOf
    <2>3. CASE Marshal
      BY <2>3, PostInv, SedReadInv, SedRenameInv, AnalyseInv DEF Marshal
    <2>4. CASE Tick \/ UNCHANGED vars
      BY <2>4, StutterInv
    <2> QED
      BY <2>1, <2>2, <2>3, <2>4 DEF Next, Finished
  <1> QED
    BY InitInv, <1>1, PTL DEF Spec

(* Every variable of the shell, of perf and of the files keeps its type,   *)
(* for any nodes, scripts and number of samples.                           *)
THEOREM TypeCorrect == Spec => []TypeOK
  BY Invariance, PTL DEF IInv

-----------------------------------------------------------------------------
(* A log marshal_perf took is not an earlier session's, since run_perf     *)
(* removed that one, and nothing puts an earlier result in its place.      *)
Old(f) == f.lines = OldLog.lines

TakenInv(n) ==
    /\ phase[n] # "run" => ~ Old(counters[n])
    /\ phase[n] # "done" => ~ Old(analysed[n])
    /\ taken[n] => /\ phase[n] \in {"marshal", "done"}
                   /\ ~ Old(results[n]) /\ ~ Old(analysed[n])
                   /\ node = n /\ pc = "rename" => ~ Old(snapshot)

Taken == \A n \in Nodes : TakenInv(n)

LEMMA TakenInit == Init => Taken
  <1> SUFFICES ASSUME Init, NEW n \in Nodes PROVE TakenInv(n)
    BY DEF Taken
  <1>1. PICK S \in Scripts : phase = [m \in Nodes |-> IF m \in S THEN "run" ELSE "done"]
    BY DEF Init
  <1>2. /\ phase[n] = "done" => counters[n] = NoFile
        /\ phase[n] \in {"run", "done"} /\ analysed[n] = NoFile /\ ~ taken[n]
    BY <1>1 DEF Init
  <1> QED
    BY <1>2, FileTypes, NewIsNotOld DEF TakenInv, Old

LEMMA TakenByScript ==
    ASSUME IInv, Taken, NEW n \in Nodes, RunPerf(n) \/ StopPerf(n) \/ BeginMarshal(n)
    PROVE  Taken'
  <1> SUFFICES ASSUME NEW m \in Nodes PROVE TakenInv(m)'
    BY DEF Taken
  <1>1. CASE RunPerf(n)
    <2>1. /\ UNCHANGED <<pc, node, results, snapshot, taken, analysed>> /\ phase[n] = "run"
          /\ phase'[m] = IF m = n THEN "stop" ELSE phase[m]
          /\ counters'[m] = IF m = n THEN NoFile ELSE counters[m]
      BY <1>1 DEF RunPerf, RemoveLog, IInv, TypeOK
    <2> QED
      BY <2>1, FileTypes, NewIsNotOld DEF Taken, TakenInv, Old
  <1>2. CASE StopPerf(n)
    <2>1. /\ UNCHANGED <<pc, node, counters, results, snapshot, taken, analysed>>
          /\ phase[n] = "stop" /\ phase'[m] = IF m = n THEN "marshal" ELSE phase[m]
      BY <1>2 DEF StopPerf, files, IInv, TypeOK
    <2> QED
      BY <2>1 DEF Taken, TakenInv, Old
  <1>3. CASE BeginMarshal(n)
    <2>1. /\ UNCHANGED <<snapshot, phase, analysed>> /\ pc' = "start" /\ phase[n] = "marshal"
          /\ counters'[m] \in {counters[m], NoFile}
          /\ m # n => results'[m] = results[m] /\ taken'[m] = taken[m]
          /\ taken'[n] => results'[n] = counters[n]
      BY <1>3 DEF BeginMarshal, Execute, Move, Fetch, IInv, TypeOK
    <2> QED
      BY <2>1, FileTypes, NewIsNotOld DEF Taken, TakenInv, Old
  <1> QED
    BY <1>1, <1>2, <1>3

LEMMA TakenByMarshal == ASSUME IInv, Taken, Marshal PROVE Taken'
  <1> SUFFICES ASSUME NEW m \in Nodes PROVE TakenInv(m)'
    BY DEF Taken
  <1>1. /\ UNCHANGED <<counters, node, taken>>
    BY DEF Marshal, PostStart, PostEnd, SedRead, SedRename, Analyse, history, files
  <1>2. CASE PostStart \/ PostEnd
    <2>1. PICK s \in Times, e \in Times :
            results' \in {results, [results EXCEPT ![node] = PostTimes(@, s, e)]}
      BY <1>2 DEF IInv, TypeOK, PostStart, PostEnd, Files
    <2>2. PostTimes(results[node], s, e).lines = results[node].lines
      BY PostedIsFile DEF IInv, TypeOK
    <2>3. results'[m].lines = results[m].lines
      BY <2>1, <2>2 DEF IInv, TypeOK
    <2>4. UNCHANGED <<phase, snapshot, analysed>> /\ pc' # "rename"
      BY <1>2 DEF PostStart, PostEnd, history
    <2> QED
      BY <1>1, <2>3, <2>4 DEF Taken, TakenInv, Old
  <1>3. CASE SedRead \/ SedRename
    <2>1. /\ UNCHANGED <<phase, analysed>>
          /\ \/ snapshot' = results[node] /\ results' = results
             \/ /\ pc = "rename" /\ pc' = "process"
                /\ results'[m] = IF m = node THEN snapshot ELSE results[m]
      BY <1>3 DEF SedRead, SedRename, history, IInv, TypeOK
    <2> QED
      BY <1>1, <2>1 DEF Taken, TakenInv, Old
  <1>4. CASE Analyse
    <2>1. /\ UNCHANGED <<results, snapshot>> /\ pc' = "script" /\ phase[node] = "marshal"
          /\ phase'[m] = IF m = node THEN "done" ELSE phase[m]
          /\ analysed'[m] = analysed[m] \/ (m = node /\ analysed'[m] = results[m])
      BY <1>4 DEF Analyse, Execute, files, IInv, TypeOK, HistoryType
    <2> QED
      BY <1>1, <2>1 DEF Taken, TakenInv, Old
  <1> QED
    BY <1>2, <1>3, <1>4 DEF Marshal

LEMMA TakenByPerf == ASSUME IInv, IInv', Taken, NEW n \in Nodes, PerfOf(n) PROVE Taken'
  <1> SUFFICES ASSUME NEW m \in Nodes PROVE TakenInv(m)'
    BY DEF Taken
  <1>1. UNCHANGED <<script, snapshot, history>>
    BY DEF PerfOf, PerfStarts, WritePart, PerfExits, files
  <1>2. /\ results'[m] = results[m] \/ ~ Old(results'[m])
        /\ counters'[m] = counters[m] \/ ~ Old(counters'[m])
    <2>1. CASE PerfStarts(n)
      <3>1. counters'[n].lines = <<>>
        <4>1. counters[n] \in Files /\ counters[n].lines = <<>>
          BY <2>1 DEF PerfStarts, IInv, TypeOK, LogInv
        <4>2. [counters[n] EXCEPT !.exists = TRUE].lines = <<>>
          BY <4>1 DEF Files
        <4>3. counters'[n] \in {counters[n], EmptyFile, [counters[n] EXCEPT !.exists = TRUE]}
          BY <2>1 DEF PerfStarts, IInv, TypeOK
        <4> QED
          BY <4>1, <4>2, <4>3, FileTypes
      <3>2. results' = results /\ (m # n => counters'[m] = counters[m])
        BY <2>1 DEF PerfStarts, IInv, TypeOK
      <3> QED
        BY <3>1, <3>2, NewIsNotOld DEF Old
    <2>2. CASE PerfExits(n)
      BY <2>2 DEF PerfExits, files
    <2>3. CASE WritePart(n)
      <3>1. /\ m # n => counters'[m] = counters[m] /\ results'[m] = results[m]
            /\ writer[n] # "counters" => counters' = counters
            /\ writer[n] # "results" => results' = results
            /\ writer' = writer /\ wrote'[n] \in Nat
        BY <2>3 DEF WritePart, IInv, TypeOK
      <3>2. /\ writer[n] = "counters" => counters'[n].lines = NewParts(wrote'[n])
            /\ writer[n] = "results" => results'[n].lines = NewParts(wrote'[n])
        BY <3>1 DEF IInv, LogInv
      <3> QED
        BY <3>1, <3>2, NewIsNotOld DEF Old
    <2> QED
      BY <2>1, <2>2, <2>3 DEF PerfOf
  <1> QED
    BY <1>1, <1>2 DEF Taken, TakenInv, Old, script, history

(* A log analysed holds the samples of one session only, an earlier one's  *)
(* only when this session had no log to take.                              *)
THEOREM LogsHoldOneSession == Spec => []OneSessionALog
  <1>1. IInv /\ IInv' /\ Taken /\ [Next]_vars => Taken'
    <2> SUFFICES ASSUME IInv, IInv', Taken, [Next]_vars PROVE Taken'
      OBVIOUS
    <2>1. ASSUME NEW n \in Nodes, Call(n) PROVE Taken'
      BY <2>1, TakenByScript DEF Call
    <2>2. ASSUME NEW n \in Nodes, PerfOf(n) PROVE Taken'
      BY <2>2, TakenByPerf
    <2>3. CASE Marshal
      BY <2>3, TakenByMarshal
    <2>4. CASE Tick \/ UNCHANGED vars
      BY <2>4 DEF Tick, vars, Taken, TakenInv, Old, script, files, process, history
    <2> QED
      BY <2>1, <2>2, <2>3, <2>4 DEF Next, Finished
  <1>2. Spec => []Taken
    BY TakenInit, <1>1, Invariance, PTL DEF Spec
  <1>3. IInv /\ Taken => OneSessionALog
    BY DEF IInv, LogInv, OneSession, Taken, TakenInv, Old, OneSessionALog
  <1> QED
    BY <1>2, <1>3, Invariance, PTL

-----------------------------------------------------------------------------
(* What was whole at the stop is in the log until it is moved, then in the *)
(* log moved or what sed has read of it, and at last in what is analysed.  *)
Holds(f, n) == 2 * before[n] <= Len(f.lines) /\ f.lines = NewParts(Len(f.lines))
KeptInv(n) ==
    /\ phase[n] \in {"run", "stop"} => before[n] = 0
    /\ 2 * before[n] <= wrote[n]
    /\ Unmarshalled(n) /\ wrote[n] > 0 => counters[n].exists /\ counters[n].lines = NewParts(wrote[n])
    /\ Unmarshalled(n) /\ perf[n] \in {"running", "ending"} => writer[n] = "counters"
    /\ before[n] > 0 /\ ~ quiet =>
         /\ ~ Unmarshalled(n) /\ phase[n] # "done" =>
              IF pc = "rename" THEN Holds(snapshot, n) ELSE Holds(results[n], n)
         /\ phase[n] = "done" => Holds(analysed[n], n)

Kept == /\ ~ quiet => QUIET_MODE = FALSE
        /\ \A n \in Nodes : KeptInv(n)

LEMMA LongerIsPrefix ==
    ASSUME NEW j \in Nat, NEW k \in Nat, j <= k
    PROVE  IsPrefix(NewParts(j), NewParts(k))
  <1> DEFINE P == {Part("new", i) : i \in Nat}
  <1>1. /\ NewParts(j) \in Seq(P) /\ Len(NewParts(j)) = j
        /\ NewParts(k) \in Seq(P) /\ Len(NewParts(k)) = k
    BY DEF NewParts
  <1>2. \A i \in 1 .. j : NewParts(j)[i] = NewParts(k)[i]
    BY DEF NewParts
  <1>3. SubSeq(NewParts(j), 1, j) = [i \in 1 .. j |-> NewParts(j)[i]]
    BY <1>1
  <1>4. SubSeq(NewParts(k), 1, j) = [i \in 1 .. j |-> NewParts(k)[i]]
    BY <1>1
  <1> QED
    BY <1>1, <1>2, <1>3, <1>4 DEF IsPrefix

LEMMA KeptGivesSamples == IInv /\ Kept => StoppedSamplesAnalysed
  <1> SUFFICES ASSUME IInv, Kept, NEW n \in Nodes, phase[n] = "done", ~ quiet
               PROVE  IsPrefix(NewParts(2 * before[n]), analysed[n].lines)
    BY DEF StoppedSamplesAnalysed
  <1>1. before[n] \in Nat /\ analysed[n].lines \in Seq(Parts)
    BY DEF IInv, HistoryType, Files
  <1>2. CASE before[n] > 0
    <2>1. Holds(analysed[n], n)
      BY <1>2 DEF Kept, KeptInv
    <2>2. Len(analysed[n].lines) \in Nat
      BY <1>1
    <2> QED
      BY <1>1, <2>1, <2>2, LongerIsPrefix DEF Holds
  <1>3. CASE before[n] = 0
    <2>1. 2 * before[n] = 0
      BY <1>3
    <2>2. SubSeq(<<>>, 1, 0) = <<>> /\ Len(<<>>) = 0
      OBVIOUS
    <2>3. SubSeq(analysed[n].lines, 1, 0) = <<>> /\ 0 <= Len(analysed[n].lines)
      BY <1>1
    <2> QED
      BY <2>1, <2>2, <2>3, Empty DEF IsPrefix
  <1> QED
    BY <1>1, <1>2, <1>3

LEMMA KeptInit == Init => Kept
  BY DEF Init, Kept, KeptInv

LEMMA KeptByScript ==
    ASSUME IInv, IInv', Kept, NEW n \in Nodes, RunPerf(n) \/ StopPerf(n) \/ BeginMarshal(n)
    PROVE  Kept'
  <1> USE DEF HistoryType
  <1>1. CASE RunPerf(n)
    <2>1. ASSUME NEW m \in Nodes PROVE KeptInv(m)'
      <3>1. /\ UNCHANGED <<wrote, before, pc, node, results, snapshot, writer, analysed, quiet>>
            /\ m # n => counters'[m] = counters[m] /\ perf'[m] = perf[m] /\ phase'[m] = phase[m]
            /\ m = n => phase[m] = "run" /\ phase'[m] = "stop" /\ perf'[m] \in {"none", "starting"} /\ wrote[m] = 0
        BY <1>1 DEF RunPerf, RemoveLog, IInv, TypeOK, PerfInv
      <3> QED
        BY <3>1 DEF Kept, KeptInv, Unmarshalled, Holds
    <2> QED
      BY <1>1, <2>1 DEF Kept, RunPerf
  <1>2. CASE StopPerf(n)
    <2>0. \A m \in Nodes : perf'[m] \in {"running", "ending"} => perf[m] \in {"running", "ending"}
      <3>1. Kill(n) \/ UNCHANGED <<perf, last>>
        BY <1>2 DEF StopPerf, Execute
      <3> QED
        BY <3>1 DEF Kill, IInv, TypeOK
    <2>1. ASSUME NEW m \in Nodes PROVE KeptInv(m)'
      <3>1. /\ UNCHANGED <<wrote, pc, node, results, counters, snapshot, writer, analysed, quiet>>
            /\ m # n => before'[m] = before[m] /\ phase'[m] = phase[m]
            /\ m = n => /\ phase[m] = "stop" /\ phase'[m] = "marshal" /\ before'[m] = wrote[m] \div 2
                        /\ pc = "script"
        BY <1>2 DEF StopPerf, IInv, TypeOK, files
      <3>2. CASE m = n
        <4>1. wrote[m] \in Nat /\ Unmarshalled(m) /\ Unmarshalled(m)'
          BY <3>1, <3>2 DEF IInv, TypeOK, Unmarshalled
        <4>2. 2 * before'[m] <= wrote'[m]
          BY <3>1, <3>2, <4>1
        <4> QED
          BY <2>0, <3>1, <3>2, <4>1, <4>2 DEF Kept, KeptInv
      <3>3. CASE m # n
        BY <2>0, <3>1, <3>3 DEF Kept, KeptInv, Unmarshalled, Holds
      <3> QED
        BY <3>2, <3>3
    <2> QED
      BY <1>2, <2>1 DEF Kept, StopPerf
  <1>3. CASE BeginMarshal(n)
    <2>0. /\ UNCHANGED <<wrote, before, phase, perf, analysed, quiet, snapshot>>
          /\ phase[n] = "marshal" /\ pc = "script" /\ pc' = "start" /\ node' = n
          /\ Move(n) \/ Fetch(n) \/ quiet
      BY <1>3 DEF BeginMarshal, history, Execute
    <2>1. ASSUME NEW m \in Nodes PROVE KeptInv(m)'
      <3>1. CASE m = n
        <4>1. Unmarshalled(n) /\ ~ Unmarshalled(n)'
          BY <2>0 DEF Unmarshalled
        <4>2. ASSUME before[n] > 0, ~ quiet PROVE Holds(results[n], n)'
          <5>1. counters[n].exists /\ counters[n].lines = NewParts(wrote[n]) /\ wrote[n] \in Nat
                /\ 2 * before[n] <= wrote[n]
            BY <4>1, <4>2 DEF Kept, KeptInv, IInv, TypeOK
          <5>2. results'[n] = counters[n]
            BY <2>0, <4>2, <5>1 DEF Move, Fetch, IInv, TypeOK
          <5>3. Len(NewParts(wrote[n])) = wrote[n]
            BY <5>1, OneMore
          <5> QED
            BY <2>0, <5>1, <5>2, <5>3 DEF Holds
        <4> QED
          BY <2>0, <3>1, <4>1, <4>2 DEF Kept, KeptInv
      <3>2. CASE m # n
        <4>1. /\ counters'[m] = counters[m] /\ results'[m] = results[m] /\ writer'[m] = writer[m]
          BY <1>3, <3>2 DEF BeginMarshal, Execute, Move, Fetch, IInv, TypeOK
        <4>2. Unmarshalled(m) <=> Unmarshalled(m)'
          BY <2>0, <3>2 DEF Unmarshalled
        <4>3. Unmarshalled(m) \/ phase[m] = "done"
          BY <2>0 DEF Unmarshalled
        <4> QED
          BY <2>0, <4>1, <4>2, <4>3 DEF Kept, KeptInv, Holds
      <3> QED
        BY <3>1, <3>2
    <2> QED
      BY <1>3, <2>1 DEF Kept, BeginMarshal
  <1> QED
    BY <1>1, <1>2, <1>3

LEMMA KeptByMarshal == ASSUME IInv, IInv', Kept, Marshal PROVE Kept'
  <1> USE DEF HistoryType
  <1>0. UNCHANGED <<wrote, perf, counters, quiet, before, node>> /\ pc # "script" /\ phase[node] = "marshal"
    BY DEF Marshal, PostStart, PostEnd, SedRead, SedRename, Analyse, process, history, files, IInv
  <1>1. ASSUME NEW m \in Nodes, PostStart \/ PostEnd \/ SedRead \/ SedRename PROVE KeptInv(m)'
    <2>1. /\ UNCHANGED <<phase, analysed>> /\ pc' # "script"
          /\ writer[m] # "results" => writer'[m] = writer[m]
      BY <1>1 DEF PostStart, PostEnd, SedRead, SedRename, process, history, IInv, TypeOK
    <2>2. Unmarshalled(m)' <=> Unmarshalled(m)
      BY <1>0, <2>1 DEF Unmarshalled
    <2>3. ~ Unmarshalled(m) /\ phase[m] # "done" => m = node
      BY DEF Unmarshalled
    <2>4. m = node => \/ pc' = "rename" /\ pc # "rename" /\ snapshot'.lines = results[m].lines
                      \/ pc' # "rename" /\ pc = "rename" /\ results'[m].lines = snapshot.lines
                      \/ pc' # "rename" /\ pc # "rename" /\ results'[m].lines = results[m].lines
      <3>1. CASE PostStart \/ PostEnd
        <4>0. /\ results \in [Nodes -> Files] /\ node \in Nodes
              /\ PERF_START_TIME \in Times /\ PERF_END_TIME \in Times
          BY DEF IInv, TypeOK
        <4>5. results[node].start \in Times /\ results[node].end \in Times
          BY <4>0 DEF Files
        <4>1. PICK s \in Times, e \in Times :
                results' \in {results, [results EXCEPT ![node] = PostTimes(@, s, e)]}
          <5>1. CASE PostStart
            BY <4>0, <4>5, <5>1 DEF PostStart
          <5>2. CASE PostEnd
            BY <4>0, <4>5, <5>2 DEF PostEnd
          <5> QED
            BY <3>1, <5>1, <5>2
        <4>2. PostTimes(results[node], s, e).lines = results[node].lines
          BY PostedIsFile DEF IInv, TypeOK
        <4>3. pc # "rename" /\ pc' # "rename"
          BY <3>1 DEF PostStart, PostEnd
        <4>4. results'[node].lines = results[node].lines
          BY <4>1, <4>2 DEF IInv, TypeOK
        <4> QED
          BY <4>3, <4>4
      <3> QED
        BY <1>1, <3>1 DEF SedRead, SedRename, IInv, TypeOK
    <2> QED
      BY <1>0, <2>1, <2>2, <2>3, <2>4 DEF Kept, KeptInv, Holds
  <1>2. ASSUME NEW m \in Nodes, Analyse PROVE KeptInv(m)'
    <2>1. /\ UNCHANGED <<results, writer>> /\ pc = "process" /\ pc' = "script"
          /\ phase'[m] = IF m = node THEN "done" ELSE phase[m]
          /\ m # node => analysed'[m] = analysed[m]
          /\ m = node /\ ~ quiet => analysed'[m] = results[m]
      BY <1>2 DEF Analyse, Execute, files, process, IInv, TypeOK, Kept
    <2>2. Unmarshalled(m)' <=> Unmarshalled(m)
      BY <1>0, <2>1 DEF Unmarshalled
    <2>3. m = node => ~ Unmarshalled(m) /\ phase[m] # "done"
      BY <1>0 DEF Unmarshalled
    <2>4. m # node => Unmarshalled(m) \/ phase[m] = "done"
      BY DEF Unmarshalled
    <2> QED
      BY <1>0, <2>1, <2>2, <2>3, <2>4 DEF Kept, KeptInv, Holds
  <1>3. QUIET_MODE' = QUIET_MODE
    BY DEF Marshal, PostStart, PostEnd, SedRead, SedRename, Analyse, shell
  <1> QED
    BY <1>0, <1>1, <1>2, <1>3 DEF Kept, Marshal

LEMMA KeptByPerf == ASSUME IInv, IInv', Kept, NEW n \in Nodes, PerfOf(n) PROVE Kept'
  <1> USE DEF HistoryType
  <1>0. UNCHANGED <<quiet, shell, script, snapshot, history>>
    BY DEF PerfOf, PerfStarts, WritePart, PerfExits, files
  <1>1. ASSUME NEW m \in Nodes, m # n PROVE KeptInv(m)'
    <2>1. /\ counters'[m] = counters[m] /\ results'[m] = results[m] /\ writer'[m] = writer[m]
          /\ perf'[m] = perf[m] /\ wrote'[m] = wrote[m]
      BY <1>1 DEF PerfOf, PerfStarts, WritePart, PerfExits, files, IInv, TypeOK
    <2> QED
      BY <1>0, <2>1 DEF Kept, KeptInv, Holds, Unmarshalled, shell, script, history
  <1>2. ASSUME PerfStarts(n) \/ PerfExits(n) PROVE KeptInv(n)'
    <2>1. /\ UNCHANGED <<results, wrote>>
          /\ counters'[n] = counters[n] \/ wrote[n] = 0
          /\ perf'[n] \in {"running", "ending"} => writer'[n] = "counters"
      BY <1>2 DEF PerfStarts, PerfExits, files, IInv, TypeOK, PerfInv
    <2> QED
      BY <1>0, <2>1 DEF Kept, KeptInv, Holds, Unmarshalled, shell, script, history
  <1>3. ASSUME WritePart(n) PROVE KeptInv(n)'
    <2>1. /\ wrote[n] \in Nat /\ wrote'[n] = wrote[n] + 1 /\ UNCHANGED <<perf, writer>>
          /\ perf[n] \in {"running", "ending"} /\ before[n] \in Nat
      BY <1>3 DEF WritePart, IInv, TypeOK
    <2>2. Unmarshalled(n)' <=> Unmarshalled(n)
      BY <1>0 DEF Unmarshalled, script
    <2>3. Unmarshalled(n)' => counters'[n].exists /\ counters'[n].lines = NewParts(wrote'[n])
      BY <2>1, <2>2 DEF Kept, KeptInv, IInv, LogInv
    <2>4. Holds(results[n], n) => Holds(results[n], n)'
      <3>1. CASE writer[n] = "results"
        <4>1. /\ results[n].lines = NewParts(wrote[n]) /\ results'[n].lines = NewParts(wrote[n] + 1)
          BY <2>1, <3>1 DEF IInv, LogInv
        <4>2. wrote[n] + 1 \in Nat
          BY <2>1
        <4>3. Len(NewParts(wrote[n])) = wrote[n] /\ Len(NewParts(wrote[n] + 1)) = wrote[n] + 1
          BY <2>1, <4>2, OneMore
        <4> QED
          BY <1>0, <2>1, <4>1, <4>3 DEF Holds, history
      <3>2. CASE writer[n] # "results"
        <4>1. results' = results
          BY <1>3, <3>2 DEF WritePart
        <4> QED
          BY <1>0, <4>1 DEF Holds, history
      <3> QED
        BY <3>1, <3>2
    <2>5. 2 * before[n] <= wrote'[n]
      BY <2>1 DEF Kept, KeptInv
    <2> QED
      BY <1>0, <2>1, <2>2, <2>3, <2>4, <2>5 DEF Kept, KeptInv, Holds, script, history
  <1>4. KeptInv(n)'
    BY <1>2, <1>3 DEF PerfOf
  <1> QED
    BY <1>0, <1>1, <1>4 DEF Kept, shell

(* Every sample whole when stop_perf was called is analysed, whatever perf *)
(* still writes while its log is moved, appended to and cleaned.           *)
THEOREM StoppedSamplesAreAnalysed == Spec => []StoppedSamplesAnalysed
  <1>1. IInv /\ IInv' /\ Kept /\ [Next]_vars => Kept'
    <2> SUFFICES ASSUME IInv, IInv', Kept, [Next]_vars PROVE Kept'
      OBVIOUS
    <2>1. ASSUME NEW n \in Nodes, Call(n) PROVE Kept'
      BY <2>1, KeptByScript DEF Call
    <2>2. ASSUME NEW n \in Nodes, PerfOf(n) PROVE Kept'
      BY <2>2, KeptByPerf
    <2>3. CASE Marshal
      BY <2>3, KeptByMarshal
    <2>4. CASE Tick \/ UNCHANGED vars
      <3>1. UNCHANGED <<quiet, shell, script, files, process, history>>
        BY <2>4 DEF Tick, vars
      <3> QED
        BY <3>1 DEF Kept, KeptInv, Holds, Unmarshalled, shell, script, files, process, history
    <2> QED
      BY <2>1, <2>2, <2>3, <2>4 DEF Next, Finished
  <1>2. Spec => []Kept
    BY KeptInit, <1>1, Invariance, PTL DEF Spec
  <1> QED
    BY <1>2, Invariance, KeptGivesSamples, PTL
-----------------------------------------------------------------------------
(* Scripts that measure one node: then the shell's times are that node's   *)
(* while it is not done.  On this machine they are posted only to a log    *)
(* that holds no old session, where the status of mv was taken; for a      *)
(* remote node EXIT_CODE stays 0 and they are always posted, both of them. *)
OneNodeScripts == \A S \in Scripts : \A m, n \in S : m = n

Untimed(f)     == f.start = NoTime /\ f.end = NoTime
OwnTimes(f)    == f.start = OldTime /\ f.end = OldTime
NewTimes(f, n) == f.start \in {NoTime, began[n]} /\ f.end \in {NoTime, ended[n]}
RunTimes(f, n) == f.start = began[n] /\ f.end = ended[n]

TimesInv(n) ==
    /\ phase[n] \in {"stop", "marshal"} => PERF_START_TIME = began[n]
    /\ phase[n] = "marshal" => PERF_END_TIME = ended[n]
    /\ phase[n] # "done" \/ quiet => analysed[n] = NoFile
    /\ Untimed(counters[n])
    /\ phase[n] # "run" => ~ Old(counters[n])
    /\ Unmarshalled(n) => IF Old(results[n]) THEN OwnTimes(results[n]) ELSE Untimed(results[n])
    /\ ~ Old(results[n]) => NewTimes(results[n], n)
    /\ ~ Old(analysed[n]) => NewTimes(analysed[n], n)
    /\ node = n /\ pc = "rename" /\ ~ Old(snapshot) => NewTimes(snapshot, n)

(* The times of an earlier session's log that lies where the result goes. *)
OldTimesInv(n) ==
    /\ n # Local /\ phase[n] # "done" => EXIT_CODE = 0
    /\ Old(analysed[n]) =>
          IF n = Local THEN OwnTimes(analysed[n]) ELSE RunTimes(analysed[n], n)
    /\ n = Local /\ node = n /\ pc # "script" /\ ~ quiet =>
          /\ Old(results[n]) => OwnTimes(results[n])
          /\ pc = "rename" /\ Old(snapshot) => OwnTimes(snapshot)
          /\ pc = "end" \/ (pc = "start" /\ EXIT_CODE = 0) => ~ Old(results[n])
    /\ n # Local /\ node = n =>
          /\ pc = "end" /\ Old(results[n]) => results[n].start = began[n]
          /\ pc \in {"sed", "process"} /\ Old(results[n]) => RunTimes(results[n], n)
          /\ pc = "rename" /\ Old(snapshot) => RunTimes(snapshot, n)

Timed ==
    /\ \A m, n \in Nodes : m = n \/ phase[m] = "done" \/ phase[n] = "done"
    /\ pc # "script" => QUIET_MODE = quiet
    /\ \A n \in Nodes : TimesInv(n) /\ OldTimesInv(n)

LEMMA TimedGivesTimes == Timed /\ OneSessionALog => TimesOfThisRun
  <1> SUFFICES ASSUME Timed, OneSessionALog, NEW n \in Nodes
               PROVE  IF ~ Old(analysed[n]) THEN NewTimes(analysed[n], n)
                      ELSE \/ OwnTimes(analysed[n])
                           \/ n # Local /\ ~ taken[n] /\ RunTimes(analysed[n], n)
    BY DEF TimesOfThisRun, Old, NewTimes, OwnTimes, RunTimes
  <1>1. Old(analysed[n]) => ~ taken[n]
    <2>1. \A k \in Nat : NewParts(k) # OldLog.lines
      BY NewIsNotOld
    <2>2. Len(OldLog.lines) \in Nat
      BY FileTypes
    <2> QED
      BY <2>1, <2>2 DEF OneSessionALog, Old
  <1> QED
    BY <1>1 DEF Timed, TimesInv, OldTimesInv

LEMMA TimedInit == ASSUME OneNodeScripts PROVE Init => Timed
  <1> SUFFICES ASSUME Init PROVE Timed
    OBVIOUS
  <1>1. PICK S \in Scripts : phase = [n \in Nodes |-> IF n \in S THEN "run" ELSE "done"]
    BY DEF Init
  <1>2. \A m, n \in Nodes : m = n \/ phase[m] = "done" \/ phase[n] = "done"
    BY <1>1 DEF OneNodeScripts
  <1>3. ASSUME NEW n \in Nodes PROVE TimesInv(n) /\ OldTimesInv(n)
    <2>1. /\ counters[n] \in {NoFile, OldLog} /\ results[n] \in {NoFile, OldResult}
          /\ phase[n] = "done" => counters[n] = NoFile
          /\ phase[n] \in {"run", "done"} /\ pc = "script" /\ analysed[n] = NoFile /\ EXIT_CODE = 0
      BY <1>1 DEF Init
    <2>2. Untimed(OldLog) /\ Untimed(NoFile) /\ OwnTimes(OldResult) /\ Old(OldResult) /\ ~ Old(NoFile)
      BY FileTypes, NewIsNotOld DEF Untimed, OwnTimes, Old, OldLog, EmptyFile, NoFile
    <2>3. NewTimes(NoFile, n)
      BY FileTypes DEF NewTimes
    <2> QED
      BY <2>1, <2>2, <2>3 DEF TimesInv, OldTimesInv
  <1> QED
    BY <1>2, <1>3 DEF Init, Timed

LEMMA TimedByRun == ASSUME IInv, Timed, NEW n \in Nodes, RunPerf(n) PROVE Timed'
  <1> USE DEF HistoryType
  <1>1. /\ UNCHANGED <<quiet, PERF_END_TIME, pc, node, results, snapshot, ended, analysed>>
        /\ pc = "script" /\ phase[n] = "run" /\ phase' = [phase EXCEPT ![n] = "stop"]
        /\ counters' = [counters EXCEPT ![n] = NoFile]
        /\ PERF_START_TIME' = now /\ began' = [began EXCEPT ![n] = now]
        /\ n # Local => EXIT_CODE' = EXIT_CODE
    BY DEF RunPerf, RemoveLog
  <1>2. ASSUME NEW m \in Nodes PROVE (TimesInv(m) /\ OldTimesInv(m))'
    <2>1. CASE m = n
      <3>1. phase'[n] = "stop" /\ counters'[n] = NoFile /\ began'[n] = now
        BY <1>1 DEF IInv, TypeOK
      <3>2. Unmarshalled(n) /\ ~ Old(NoFile) /\ Untimed(NoFile) /\ analysed[n] = NoFile
        BY <1>1, FileTypes, NewIsNotOld DEF Unmarshalled, Old, Untimed, Timed, TimesInv
      <3>3. TimesInv(n)'
        BY <1>1, <3>1, <3>2 DEF Timed, TimesInv, NewTimes, OwnTimes, Untimed, Old, Unmarshalled
      <3>4. OldTimesInv(n)'
        BY <1>1, <3>1, <3>2 DEF Timed, OldTimesInv, Old
      <3> QED
        BY <2>1, <3>3, <3>4
    <2>2. CASE m # n
      <3>1. phase'[m] = "done" /\ phase[m] = "done" /\ counters'[m] = counters[m] /\ began'[m] = began[m]
        BY <1>1, <2>2 DEF IInv, TypeOK, Timed
      <3>2. TimesInv(m)'
        BY <1>1, <3>1 DEF Timed, TimesInv, NewTimes, OwnTimes, Untimed, Old, Unmarshalled
      <3>3. OldTimesInv(m)'
        BY <1>1, <3>1 DEF Timed, OldTimesInv, Old, OwnTimes, RunTimes
      <3> QED
        BY <3>2, <3>3
    <2> QED
      BY <2>1, <2>2
  <1>3. \A k, m \in Nodes : k = m \/ phase'[k] = "done" \/ phase'[m] = "done"
    BY <1>1 DEF IInv, TypeOK, Timed
  <1> QED
    BY <1>1, <1>2, <1>3 DEF Timed

LEMMA TimedByStop == ASSUME IInv, Timed, NEW n \in Nodes, StopPerf(n) PROVE Timed'
  <1> USE DEF HistoryType
  <1>1. /\ UNCHANGED <<quiet, QUIET_MODE, PERF_START_TIME, pc, node, files, began, analysed>>
        /\ pc = "script" /\ phase[n] = "stop" /\ phase' = [phase EXCEPT ![n] = "marshal"]
        /\ PERF_END_TIME' = now /\ ended' = [ended EXCEPT ![n] = now]
        /\ n # Local => EXIT_CODE' = EXIT_CODE
    BY DEF StopPerf
  <1>2. ASSUME NEW m \in Nodes PROVE (TimesInv(m) /\ OldTimesInv(m))'
    <2>1. CASE m = n
      <3>1. phase'[n] = "marshal" /\ ended'[n] = now
        BY <1>1 DEF IInv, TypeOK
      <3>2. Unmarshalled(n) /\ analysed[n] = NoFile /\ ~ Old(NoFile)
        BY <1>1, FileTypes, NewIsNotOld DEF Unmarshalled, Timed, TimesInv, Old
      <3>3. TimesInv(n)'
        BY <1>1, <3>1, <3>2, FileTypes DEF Timed, TimesInv, NewTimes, OwnTimes, Untimed, Old,
                                          Unmarshalled, files
      <3>4. OldTimesInv(n)'
        BY <1>1, <3>1, <3>2 DEF Timed, OldTimesInv, Old
      <3> QED
        BY <2>1, <3>3, <3>4
    <2>2. CASE m # n
      <3>1. phase'[m] = "done" /\ phase[m] = "done" /\ ended'[m] = ended[m]
        BY <1>1, <2>2 DEF IInv, TypeOK, Timed
      <3>2. TimesInv(m)'
        BY <1>1, <3>1 DEF Timed, TimesInv, NewTimes, OwnTimes, Untimed, Old, Unmarshalled, files
      <3>3. OldTimesInv(m)'
        BY <1>1, <3>1 DEF Timed, OldTimesInv, Old, OwnTimes, RunTimes
      <3> QED
        BY <3>2, <3>3
    <2> QED
      BY <2>1, <2>2
  <1>3. \A k, m \in Nodes : k = m \/ phase'[k] = "done" \/ phase'[m] = "done"
    BY <1>1 DEF IInv, TypeOK, Timed
  <1> QED
    BY <1>1, <1>2, <1>3 DEF Timed

LEMMA TimedByMarshalBegin == ASSUME IInv, Timed, NEW n \in Nodes, BeginMarshal(n) PROVE Timed'
  <1> USE DEF HistoryType
  <1>1. /\ UNCHANGED <<quiet, PERF_START_TIME, PERF_END_TIME, phase, snapshot, began, ended, analysed>>
        /\ pc = "script" /\ pc' = "start" /\ node' = n /\ phase[n] = "marshal" /\ QUIET_MODE' = quiet
        /\ n # Local => EXIT_CODE' = EXIT_CODE
    BY DEF BeginMarshal, Fetch
  <1>2. \A m \in Nodes : /\ counters'[m] \in {counters[m], NoFile}
                         /\ results'[m] = results[m] \/ (m = n /\ results'[m] = counters[m])
    BY DEF BeginMarshal, Execute, Move, Fetch, IInv, TypeOK
  <1>3. ~ quiet /\ n = Local /\ EXIT_CODE' = 0 => ~ Old(results'[Local])
    <2>1. ~ quiet /\ n = Local /\ EXIT_CODE' = 0 => Move(n) /\ counters[n].exists
      BY DEF BeginMarshal, Execute
    <2>2. Move(n) /\ counters[n].exists => results'[n] = counters[n]
      BY DEF Move, IInv, TypeOK
    <2>3. ~ Old(counters[n])
      BY <1>1 DEF Timed, TimesInv
    <2> QED
      BY <2>1, <2>2, <2>3
  <1>4. ~ Old(NoFile) /\ Untimed(NoFile)
    BY FileTypes, NewIsNotOld DEF Old, Untimed
  <1>5. ASSUME NEW m \in Nodes PROVE (TimesInv(m) /\ OldTimesInv(m))'
    <2>1. CASE m = n
      <3>1. Unmarshalled(n) /\ ~ Unmarshalled(n)'
        BY <1>1 DEF Unmarshalled
      <3>2. TimesInv(n)'
        BY <1>1, <1>2, <1>4, <3>1 DEF Timed, TimesInv, NewTimes, Untimed, Old
      <3>3. OldTimesInv(n)'
        BY <1>1, <1>2, <1>3, <1>4, <3>1 DEF Timed, TimesInv, OldTimesInv, Old, OwnTimes, RunTimes
      <3> QED
        BY <2>1, <3>2, <3>3
    <2>2. CASE m # n
      <3>1. phase[m] = "done" /\ results'[m] = results[m]
        BY <1>1, <1>2, <2>2 DEF Timed
      <3>2. TimesInv(m)'
        BY <1>1, <1>2, <1>4, <2>2, <3>1 DEF Timed, TimesInv, NewTimes, Untimed, Old, Unmarshalled
      <3>3. OldTimesInv(m)'
        BY <1>1, <2>2, <3>1 DEF Timed, OldTimesInv, Old, OwnTimes, RunTimes
      <3> QED
        BY <3>2, <3>3
    <2> QED
      BY <2>1, <2>2
  <1> QED
    BY <1>1, <1>5 DEF Timed

LEMMA TimedByPost == ASSUME IInv, Timed, PostStart \/ PostEnd PROVE Timed'
  <1> USE DEF HistoryType
  <1>0. /\ UNCHANGED <<quiet, shell, node, phase, counters, snapshot, now, history>>
        /\ pc \in {"start", "end"} /\ pc' \in {"end", "sed"} /\ node \in Nodes /\ phase[node] = "marshal"
        /\ \A m \in Nodes : results[m] \in Files
    BY DEF PostStart, PostEnd, IInv, TypeOK
  <1>1. /\ PERF_START_TIME = began[node] /\ PERF_END_TIME = ended[node]
        /\ \A m \in Nodes : began[m] \in Times /\ ended[m] \in Times
    BY <1>0 DEF Timed, TimesInv, IInv
  <1>2. /\ results'[node].lines = results[node].lines
        /\ results'[node].start \in {results[node].start, began[node]}
        /\ results'[node].end \in {results[node].end, ended[node]}
        /\ results' = results \/ pc = "end" \/ (pc = "start" /\ EXIT_CODE = 0)
        /\ pc = "start" /\ EXIT_CODE # 0 => pc' = "sed" /\ results' = results
        /\ pc = "start" /\ EXIT_CODE = 0 => pc' = "end" /\ results'[node].start = began[node]
        /\ pc = "end" => pc' = "sed" /\ results'[node].start = results[node].start
                                   /\ results'[node].end = ended[node]
        /\ \A m \in Nodes : m # node => results'[m] = results[m]
    <2>0. /\ results[node].start \in Times /\ results[node].end \in Times /\ results[node] \in Files
          /\ results \in [Nodes -> Files]
      BY <1>0 DEF Files, IInv, TypeOK
    <2>5. began[node] \in Times /\ ended[node] \in Times
      BY <1>0, <1>1
    <2>6. \A s, e \in Times : LET p == PostTimes(results[node], s, e) IN
             p.lines = results[node].lines /\ p.start = s /\ p.end = e
      <3>1. results[node] \in Files
        BY <2>0
      <3> QED
        BY <3>1, PostedIsFile
    <2>1. CASE PostStart /\ EXIT_CODE = 0
      <3>1. results' = [results EXCEPT ![node] = PostTimes(results[node], began[node], results[node].end)]
        BY <1>1, <2>1 DEF PostStart
      <3>2. results'[node] = PostTimes(results[node], began[node], results[node].end)
        BY <1>0, <2>0, <3>1
      <3>3. \A m \in Nodes : m # node => results'[m] = results[m]
        BY <2>0, <3>1
      <3>4. pc = "start" /\ EXIT_CODE = 0 /\ pc' = "end"
        BY <2>1 DEF PostStart
      <3> QED
        BY <2>0, <2>5, <2>6, <3>2, <3>3, <3>4
    <2>2. CASE PostStart /\ EXIT_CODE # 0
      BY <2>2 DEF PostStart
    <2>3. CASE PostEnd
      <3>1. results' = [results EXCEPT ![node] = PostTimes(results[node], results[node].start, ended[node])]
        BY <1>1, <2>3 DEF PostEnd
      <3>2. results'[node] = PostTimes(results[node], results[node].start, ended[node])
        BY <1>0, <2>0, <3>1
      <3>3. \A m \in Nodes : m # node => results'[m] = results[m]
        BY <2>0, <3>1
      <3>4. pc = "end" /\ pc' = "sed"
        BY <2>3 DEF PostEnd
      <3> QED
        BY <2>0, <2>5, <2>6, <3>2, <3>3, <3>4
    <2> QED
      BY <2>1, <2>2, <2>3
  <1>3. ASSUME NEW m \in Nodes, m # node PROVE (TimesInv(m) /\ OldTimesInv(m))'
    <2>1. phase[m] = "done" /\ results'[m] = results[m]
      BY <1>0, <1>2, <1>3 DEF Timed
    <2>2. TimesInv(m)'
      BY <1>0, <1>3, <2>1 DEF Timed, TimesInv, NewTimes, Untimed, Old, Unmarshalled, shell, history
    <2>3. OldTimesInv(m)'
      BY <1>0, <1>3, <2>1 DEF Timed, OldTimesInv, Old, OwnTimes, RunTimes, shell, history
    <2> QED
      BY <2>2, <2>3
  <1>4. TimesInv(node)'
    <2>1. ~ Unmarshalled(node)'
      BY <1>0 DEF Unmarshalled
    <2> QED
      BY <1>0, <1>2, <2>1 DEF Timed, TimesInv, NewTimes, Untimed, Old, shell, history
  <1>5. OldTimesInv(node)'
    <2>1. CASE node = Local
      BY <1>0, <1>2, <2>1 DEF Timed, OldTimesInv, Old, OwnTimes, shell, history
    <2>2. CASE node # Local
      <3>1. EXIT_CODE = 0 /\ ~ (pc = "start" /\ pc' = "sed")
        BY <1>0, <1>2, <2>2 DEF Timed, OldTimesInv
      <3> QED
        BY <1>0, <1>2, <2>2, <3>1 DEF Timed, OldTimesInv, Old, RunTimes, shell, history
    <2> QED
      BY <2>1, <2>2
  <1> QED
    BY <1>0, <1>3, <1>4, <1>5 DEF Timed, shell

LEMMA TimedBySed == ASSUME IInv, Timed, SedRead \/ SedRename PROVE Timed'
  <1> USE DEF HistoryType
  <1>0. /\ UNCHANGED <<quiet, shell, node, phase, counters, now, history>> /\ node \in Nodes
        /\ \/ pc = "sed" /\ pc' = "rename" /\ snapshot' = results[node] /\ results' = results
           \/ pc = "rename" /\ pc' = "process" /\ results' = [results EXCEPT ![node] = snapshot]
        /\ phase[node] = "marshal"
    BY DEF SedRead, SedRename, IInv, TypeOK
  <1>1. \A m \in Nodes : results'[m] = IF m = node /\ pc = "rename" THEN snapshot ELSE results[m]
    BY <1>0 DEF IInv, TypeOK
  <1>2. ASSUME NEW m \in Nodes PROVE (TimesInv(m) /\ OldTimesInv(m))'
    <2>1. Unmarshalled(m)' => Unmarshalled(m) /\ m # node
      BY <1>0 DEF Unmarshalled
    <2>2. TimesInv(m)'
      BY <1>0, <1>1, <2>1 DEF Timed, TimesInv, NewTimes, Untimed, Old, shell, history
    <2>3. OldTimesInv(m)'
      BY <1>0, <1>1, SessionAssumption DEF Timed, OldTimesInv, Old, OwnTimes, RunTimes, shell, history
    <2> QED
      BY <2>2, <2>3
  <1> QED
    BY <1>0, <1>2 DEF Timed, shell

LEMMA TimedByAnalyse == ASSUME IInv, Timed, Analyse PROVE Timed'
  <1> USE DEF HistoryType
  <1>0. /\ UNCHANGED <<quiet, QUIET_MODE, PERF_START_TIME, PERF_END_TIME, node, files, began, ended>>
        /\ pc = "process" /\ pc' = "script" /\ node \in Nodes /\ phase[node] = "marshal"
        /\ phase' = [phase EXCEPT ![node] = "done"] /\ phase \in [Nodes -> {"run", "stop", "marshal", "done"}]
        /\ analysed' = analysed \/ (~ QUIET_MODE /\ analysed' = [analysed EXCEPT ![node] = results[node]])
    BY DEF Analyse, Execute, IInv, TypeOK
  <1>1. \A m \in Nodes : analysed'[m] = analysed[m] \/ (m = node /\ ~ quiet /\ analysed'[m] = results[m])
    BY <1>0 DEF IInv, Timed
  <1>2. ASSUME NEW m \in Nodes PROVE (TimesInv(m) /\ OldTimesInv(m))'
    <2>1. phase'[m] = "done" /\ (m # node => phase[m] = "done")
      BY <1>0 DEF Timed
    <2>2. TimesInv(m)'
      BY <1>0, <1>1, <2>1 DEF Timed, TimesInv, NewTimes, Untimed, Old, Unmarshalled, files
    <2>3. OldTimesInv(m)'
      BY <1>0, <1>1, <2>1 DEF Timed, OldTimesInv, Old, OwnTimes, RunTimes, files
    <2> QED
      BY <2>2, <2>3
  <1>4. \A k, m \in Nodes : k = m \/ phase'[k] = "done" \/ phase'[m] = "done"
    BY <1>0 DEF Timed
  <1> QED
    BY <1>0, <1>2, <1>4 DEF Timed

LEMMA TimedByPerf == ASSUME IInv, IInv', Timed, NEW n \in Nodes, PerfOf(n) PROVE Timed'
  <1> USE DEF HistoryType
  <1>0. /\ UNCHANGED <<quiet, shell, script, snapshot, now, history>>
        /\ \A m \in Nodes : counters[m] \in Files /\ results[m] \in Files
    BY DEF PerfOf, PerfStarts, WritePart, PerfExits, files, IInv, TypeOK
  <1>1. \A m \in Nodes : /\ Untimed(counters'[m])
                         /\ results'[m] = results[m] \/ (Untimed(results'[m]) /\ ~ Old(results'[m]))
                         /\ counters'[m] = counters[m] \/ ~ Old(counters'[m])
    <2>0. \A m \in Nodes : Untimed(counters[m])
      BY DEF Timed, TimesInv
    <2>1. CASE PerfStarts(n)
      <3> DEFINE opened == [counters[n] EXCEPT !.exists = TRUE]
      <3>1. /\ opened.start = counters[n].start /\ opened.end = counters[n].end
            /\ opened.lines = counters[n].lines
        BY <1>0 DEF Files
      <3>2. /\ EmptyFile.start = NoTime /\ EmptyFile.end = NoTime /\ EmptyFile.lines = <<>>
        BY DEF EmptyFile, NoFile
      <3>3. counters[n].lines = <<>>
        BY <2>1 DEF PerfStarts, IInv, LogInv
      <3>4. /\ results' = results
            /\ \A m \in Nodes : \/ counters'[m] = counters[m]
                                \/ m = n /\ counters'[m] \in {EmptyFile, opened}
        <4>1. /\ results' = results
              /\ counters' \in {counters, [counters EXCEPT ![n] = EmptyFile], [counters EXCEPT ![n] = opened]}
          BY <2>1 DEF PerfStarts
        <4> HIDE DEF opened
        <4> QED
          BY <4>1 DEF IInv, TypeOK
      <3> QED
        BY <2>0, <3>1, <3>2, <3>3, <3>4, NewIsNotOld DEF Untimed, Old
    <2>2. CASE PerfExits(n)
      BY <2>0, <2>2 DEF PerfExits, files
    <2>3. CASE WritePart(n)
      <3> DEFINE part == Part("new", wrote[n] + 1)
                 cut  == [WithPart(results[n], part) EXCEPT !.start = NoTime, !.end = NoTime]
      <3>1. /\ WithPart(counters[n], part).start = counters[n].start
            /\ WithPart(counters[n], part).end = counters[n].end
            /\ cut.start = NoTime /\ cut.end = NoTime
        BY <1>0 DEF WithPart, Files
      <3>2. \/ /\ writer[n] = "counters" /\ counters' = [counters EXCEPT ![n] = WithPart(counters[n], part)]
               /\ results' = results
            \/ /\ writer[n] = "results" /\ counters' = counters
               /\ results' = [results EXCEPT ![n] = cut]
            \/ UNCHANGED <<counters, results>>
        BY <2>3 DEF WritePart
      <3>3. writer' = writer /\ wrote' [n] \in Nat
        BY <2>3 DEF WritePart, IInv, TypeOK
      <3> HIDE DEF part, cut
      <3>4. CASE writer[n] = "counters" /\ counters' = [counters EXCEPT ![n] = WithPart(counters[n], part)]
                 /\ results' = results
        <4>1. ~ Old(counters'[n])
          BY <3>3, <3>4, NewIsNotOld DEF IInv, LogInv, Old
        <4>2. \A m \in Nodes : counters'[m] = IF m = n THEN WithPart(counters[n], part) ELSE counters[m]
          BY <3>4 DEF IInv, TypeOK
        <4> QED
          BY <2>0, <3>1, <3>4, <4>1, <4>2 DEF Untimed
      <3>5. CASE writer[n] = "results" /\ counters' = counters /\ results' = [results EXCEPT ![n] = cut]
        <4>1. ~ Old(results'[n])
          BY <3>3, <3>5, NewIsNotOld DEF IInv, LogInv, Old
        <4>2. \A m \in Nodes : results'[m] = IF m = n THEN cut ELSE results[m]
          BY <3>5 DEF IInv, TypeOK
        <4> QED
          BY <2>0, <3>1, <3>5, <4>1, <4>2 DEF Untimed
      <3> QED
        BY <2>0, <3>2, <3>4, <3>5
    <2> QED
      BY <2>1, <2>2, <2>3 DEF PerfOf
  <1>2. ASSUME NEW m \in Nodes PROVE (TimesInv(m) /\ OldTimesInv(m))'
    <2>1. Unmarshalled(m)' <=> Unmarshalled(m)
      BY <1>0 DEF Unmarshalled, script
    <2>2. TimesInv(m)'
      BY <1>0, <1>1, <2>1 DEF Timed, TimesInv, NewTimes, OwnTimes, Untimed, shell, script, history, Old
    <2>3. OldTimesInv(m)'
      BY <1>0, <1>1 DEF Timed, OldTimesInv, OwnTimes, RunTimes, shell, script, history, Old
    <2> QED
      BY <2>2, <2>3
  <1> QED
    BY <1>0, <1>2 DEF Timed, shell, script

(* When a script measures one node, a log is analysed under the times of   *)
(* the session that wrote it, or none; an earlier session's under its own, *)
(* unless it is a remote node's for which this session had no log.         *)
THEOREM TimesAreOfThisRun ==
    ASSUME OneNodeScripts
    PROVE  Spec => []TimesOfThisRun
  <1>1. IInv /\ IInv' /\ Timed /\ [Next]_vars => Timed'
    <2> SUFFICES ASSUME IInv, IInv', Timed, [Next]_vars PROVE Timed'
      OBVIOUS
    <2>1. ASSUME NEW n \in Nodes, Call(n) PROVE Timed'
      BY <2>1, TimedByRun, TimedByStop, TimedByMarshalBegin DEF Call
    <2>2. ASSUME NEW n \in Nodes, PerfOf(n) PROVE Timed'
      BY <2>2, TimedByPerf
    <2>3. CASE Marshal
      BY <2>3, TimedByPost, TimedBySed, TimedByAnalyse DEF Marshal
    <2>4. CASE Tick \/ UNCHANGED vars
      <3>1. UNCHANGED <<quiet, shell, script, files, process, history>>
        BY <2>4 DEF Tick, vars
      <3> QED
        BY <3>1 DEF Timed, TimesInv, OldTimesInv, NewTimes, OwnTimes, RunTimes, Old, Untimed,
                    Unmarshalled, shell, script, files, process, history
    <2> QED
      BY <2>1, <2>2, <2>3, <2>4 DEF Next, Finished
  <1>2. Spec => []Timed
    BY TimedInit, <1>1, Invariance, PTL DEF Spec
  <1> QED
    BY <1>2, LogsHoldOneSession, TimedGivesTimes, PTL
=============================================================================
