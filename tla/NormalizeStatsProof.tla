------------------------ MODULE NormalizeStatsProof ------------------------
(***************************************************************************)
(* What normalize_stats keeps, for every log, bin size and set of          *)
(* counters: the types, the conservation of time and of events (IInv),     *)
(* that nothing recorded is rewritten (FInv), and that every bin holds the *)
(* events of its own time and none is missing (GInv).  The events of a     *)
(* span are a set, each with its tick: spans that adjoin add up            *)
(* (EventsSplit), and within one sample they are rate times length         *)
(* (EventsOfSample), which is what the code pours (ShareOfRate).           *)
(***************************************************************************)
EXTENDS NormalizeStats, FiniteSetTheorems, TLAPS

\* The quotient in Share is a number, whatever the value.
LEMMA ShareType ==
    ASSUME NEW left \in Nat, NEW whole \in Nat \ {0}, NEW value \in Int
    PROVE  Share(left, whole, value) \in Int
  <1>1. value * left \in Int OBVIOUS
  <1> QED BY <1>1 DEF Share

\* Time stamps grow, so a sample covers some time.
LEMMA NextTimeStamp ==
    ASSUME TypeOK, next \in 1 .. Len(time_stamps),
           prev_time_stamp = (IF next = 1 THEN 0 ELSE time_stamps[next - 1])
    PROVE  /\ time_stamps[next] \in Nat \ {0}
           /\ time_stamps[next] - prev_time_stamp \in Nat \ {0}
  <1>1. time_stamps \in Seq(Nat \ {0}) /\ Increasing(time_stamps)
    BY DEF TypeOK
  <1>2. next > 1 => /\ next - 1 \in 1 .. Len(time_stamps)
                    /\ time_stamps[next - 1] < time_stamps[next]
    BY <1>1 DEF Increasing
  <1> QED
    BY <1>1, <1>2

\* prev_time_stamp is the time stamp before the one the loop reads next.
Position ==
    pc = "time" =>
        /\ stat \notin todo
        /\ next <= Len(time_stamps) + 1
        /\ prev_time_stamp = IF next = 1 THEN 0 ELSE time_stamps[next - 1]

IInv == TypeOK /\ Position /\ TimeConserved /\ ValueConserved

LEMMA InitIInv == Init => IInv
  <1> SUFFICES ASSUME Init PROVE IInv
    OBVIOUS
  <1>0. Rates \subseteq Int
    BY NormalizeAssumption
  <1> USE NormalizeAssumption DEF Init
  <1>1. time_stamps \in Seq(Nat \ {0}) /\ Increasing(time_stamps)
    OBVIOUS
  <1>2. PICK rate \in [Stats -> [1 .. Len(time_stamps) -> Rates]] :
          samples = [s \in Stats |-> [k \in 1 .. Len(time_stamps) |->
                        rate[s][k] * Covered(time_stamps, k)]]
    OBVIOUS
  <1>3. ASSUME NEW s \in Stats, NEW k \in 1 .. Len(time_stamps)
        PROVE  rate[s][k] * Covered(time_stamps, k) \in Int
    <2>1. rate[s][k] \in Int
      <3>1. rate[s] \in [1 .. Len(time_stamps) -> Rates]
        BY <1>2
      <3>2. rate[s][k] \in Rates
        BY <3>1
      <3> QED BY ONLY <1>0, <3>2
    <2>2. Covered(time_stamps, k) \in Int
      BY <1>1 DEF Covered
    <2> QED BY <2>1, <2>2
  <1>4. samples \in [Stats -> [1 .. Len(time_stamps) -> Int]]
    BY <1>2, <1>3
  <1>5. TypeOK
    BY <1>1, <1>4 DEF TypeOK
  <1> QED BY <1>5 DEF IInv, Position, TimeConserved, ValueConserved

LEMMA StepIInv == IInv /\ [Next]_vars => IInv'
  <1> SUFFICES ASSUME IInv, [Next]_vars PROVE IInv'
    OBVIOUS
  <1>0. OneSecond \in Nat /\ StartTime \in Nat
    BY NormalizeAssumption
  <1> USE <1>0 DEF IInv, TypeOK, Position, TimeConserved, ValueConserved,
          args, loop, evenBin, realBin, history
  <1>1. CASE BeginStat
    BY <1>1 DEF BeginStat, FreshLocals
  <1>2. CASE FillEvenBin
    <2> DEFINE left == real_bin_time_left - even_bin_time_left
               rest == Share(left, real_bin_time_left, real_bin_stat_value)
               value == even_bin_stat_value + (real_bin_stat_value - rest)
    <2>1. left \in Nat \ {0} /\ real_bin_time_left \in Nat \ {0}
      BY <1>2 DEF FillEvenBin, Pouring
    <2>2. rest \in Int
      BY <2>1, ShareType
    <2>3. /\ real_bin_time_left' = left /\ real_bin_stat_value' = rest
          /\ emitted' = emitted + value
          /\ even_bin_time_left' = bin_size /\ even_bin' = even_bin + bin_size
          /\ even_bin_stat_value' = 0
          /\ pc = "time"
          /\ UNCHANGED <<args, loop, prev_time_stamp, loaded>>
      BY <1>2 DEF FillEvenBin, NewEvenBin, Pouring
    <2> HIDE DEF rest
    <2>4. TypeOK'
      BY <2>1, <2>2, <2>3
    <2>5. Position'
      BY <2>3
    <2>6. TimeConserved'
      BY <2>1, <2>3
    <2>7. ValueConserved'
      BY <2>1, <2>2, <2>3
    <2> QED BY <2>4, <2>5, <2>6, <2>7
  <1>3. CASE DrainRealBin
    BY <1>3 DEF DrainRealBin, Pouring
  <1>4. CASE LoadSample
    <2>1. /\ time_stamps[next] \in Nat \ {0}
          /\ time_stamps[next] - prev_time_stamp \in Nat \ {0}
      BY <1>4, NextTimeStamp DEF LoadSample
    <2>2. samples[stat][next] \in Int
      BY <1>4 DEF LoadSample
    <2> DEFINE stamp == time_stamps[next]
               sample == samples[stat][next]
    <2>3. /\ real_bin_stat_value' = sample
          /\ real_bin_time_left' = stamp - prev_time_stamp
          /\ prev_time_stamp' = stamp
          /\ next' = next + 1
          /\ loaded' = loaded + sample
          /\ pc = "time" /\ next <= Len(time_stamps)
          /\ real_bin_time_left = 0
          /\ UNCHANGED <<args, pc, todo, stat, evenBin, scaled_stats, emitted>>
      BY <1>4 DEF LoadSample
    <2>5. Position'
      BY <2>1, <2>3
    <2> HIDE DEF stamp, sample
    <2>4. TypeOK'
      <3>1. stamp \in Nat /\ stamp - prev_time_stamp \in Nat /\ sample \in Int
        BY <2>1, <2>2 DEF stamp, sample
      <3> QED BY <2>3, <3>1
    <2>6. TimeConserved'
      <3>1. stamp \in Nat
        BY <2>1 DEF stamp
      <3> QED BY <2>3, <3>1
    <2>7. ValueConserved'
      <3>1. stamp \in Nat /\ stamp - prev_time_stamp > 0 /\ sample \in Int
        BY <2>1, <2>2 DEF stamp, sample
      <3> QED BY <2>3, <3>1
    <2> QED BY <2>4, <2>5, <2>6, <2>7
  <1>5. CASE EndStat
    BY <1>5 DEF EndStat
  <1>6. CASE UNCHANGED vars
    BY <1>6 DEF vars
  <1> QED BY <1>1, <1>2, <1>3, <1>4, <1>5, <1>6 DEF Next, Terminated

LEMMA InvariantIInv == Spec => []IInv
  BY InitIInv, StepIInv, PTL DEF Spec

(* Type correctness of normalize_stats. *)
THEOREM TypeCorrect == Spec => []TypeOK
  BY InvariantIInv, PTL DEF IInv

(* Pouring samples into even bins loses no time and counts none twice. *)
THEOREM TimeIsConserved == Spec => []TimeConserved
  BY InvariantIInv, PTL DEF IInv

(* Pouring samples into even bins loses no event and counts none twice. *)
THEOREM ValueIsConserved == Spec => []ValueConserved
  BY InvariantIInv, PTL DEF IInv
-----------------------------------------------------------------------------
(* Whatever is recorded belongs to a counter already begun, and, for the   *)
(* counter at hand, to a bin before the open one.                          *)
RecordedBefore ==
    \A label \in DOMAIN scaled_stats :
        \A s \in DOMAIN scaled_stats[label] :
            /\ s \notin todo
            /\ (pc = "time" /\ s = stat) => label < even_bin + StartTime

LabelsAreNumbers == DOMAIN scaled_stats \subseteq Nat

FInv == IInv /\ LabelsAreNumbers /\ RecordedBefore

\* Record adds one value under one label and keeps every other.
LEMMA RecordDomain ==
    ASSUME NEW label, NEW s, NEW value
    PROVE  DOMAIN Record(label, s, value) = DOMAIN scaled_stats \cup {label}
  BY DEF Record

LEMMA RecordAddsOne ==
    ASSUME NEW label, NEW s, NEW value,
           NEW l \in DOMAIN scaled_stats \cup {label},
           NEW t \in DOMAIN Record(label, s, value)[l]
    PROVE  \/ l = label /\ t = s
           \/ l \in DOMAIN scaled_stats /\ t \in DOMAIN scaled_stats[l]
  BY DEF Record

LEMMA RecordKeepsOthers ==
    ASSUME NEW label, NEW s, NEW value,
           NEW l \in DOMAIN scaled_stats, NEW t \in DOMAIN scaled_stats[l],
           ~ (l = label /\ t = s)
    PROVE  /\ t \in DOMAIN Record(label, s, value)[l]
           /\ Record(label, s, value)[l][t] = scaled_stats[l][t]
  BY DEF Record

LEMMA InitFInv == Init => FInv
  BY InitIInv DEF Init, FInv, LabelsAreNumbers, RecordedBefore

LEMMA StepFInv == FInv /\ [Next]_vars => FInv'
  <1> SUFFICES ASSUME FInv, [Next]_vars PROVE LabelsAreNumbers' /\ RecordedBefore'
    BY StepIInv DEF FInv
  <1>0. OneSecond \in Nat /\ StartTime \in Nat
    BY NormalizeAssumption
  <1> USE <1>0 DEF FInv, IInv, TypeOK, LabelsAreNumbers, RecordedBefore,
          args, loop, evenBin, realBin, history
  <1>1. CASE BeginStat
    BY <1>1 DEF BeginStat
  <1>2. CASE FillEvenBin
    <2> DEFINE label == even_bin + StartTime
    <2>1. PICK value : scaled_stats' = Record(label, stat, value)
      BY <1>2 DEF FillEvenBin
    <2>2. label \in Nat /\ even_bin' = even_bin + bin_size /\ bin_size \in Nat \ {0}
          /\ stat \notin todo /\ pc = "time" /\ UNCHANGED <<pc, todo, stat>>
      BY <1>2 DEF FillEvenBin, NewEvenBin, Pouring, Position
    <2> HIDE DEF label
    <2>3. LabelsAreNumbers'
      <3>1. DOMAIN scaled_stats' = DOMAIN scaled_stats \cup {label}
        BY <2>1, RecordDomain DEF label
      <3> QED BY <2>2, <3>1
    <2>4. ASSUME NEW l \in DOMAIN scaled_stats', NEW t \in DOMAIN scaled_stats'[l]
          PROVE  t \notin todo' /\ ((pc' = "time" /\ t = stat') => l < even_bin' + StartTime)
      <3>1. \/ l = label /\ t = stat
            \/ l \in DOMAIN scaled_stats /\ t \in DOMAIN scaled_stats[l]
        <4>0. DOMAIN scaled_stats' = DOMAIN scaled_stats \cup {label}
          BY <2>1, RecordDomain DEF label
        <4>1. l \in DOMAIN scaled_stats \cup {label}
          BY <4>0, <2>4
        <4>2. t \in DOMAIN Record(label, stat, value)[l]
          BY <2>1 DEF label
        <4> QED BY ONLY <4>1, <4>2, RecordAddsOne
      <3>2. CASE l = label /\ t = stat
        BY <2>2, <3>2 DEF label
      <3>3. CASE l \in DOMAIN scaled_stats /\ t \in DOMAIN scaled_stats[l]
        <4>1. l \in Nat /\ t \notin todo /\ (t = stat => l < even_bin + StartTime)
          BY <3>3, <2>2
        <4> QED BY <4>1, <2>2 DEF label
      <3> QED BY <3>1, <3>2, <3>3
    <2> QED BY <2>3, <2>4
  <1>3. CASE DrainRealBin
    BY <1>3 DEF DrainRealBin
  <1>4. CASE LoadSample
    BY <1>4 DEF LoadSample
  <1>5. CASE EndStat
    BY <1>5 DEF EndStat
  <1>6. CASE UNCHANGED vars
    BY <1>6 DEF vars
  <1> QED BY <1>1, <1>2, <1>3, <1>4, <1>5, <1>6 DEF Next, Terminated

(* A recorded value is final, for every log and any number of counters. *)
THEOREM RecordedStaysFinal == Spec => RecordedIsFinal
  <1> DEFINE Kept == \A label \in DOMAIN scaled_stats :
                        /\ label \in DOMAIN scaled_stats'
                        /\ \A s \in DOMAIN scaled_stats[label] :
                             /\ s \in DOMAIN scaled_stats'[label]
                             /\ scaled_stats'[label][s] = scaled_stats[label][s]
  <1>1. FInv /\ [Next]_vars => [Kept]_vars
    <2> SUFFICES ASSUME FInv, Next PROVE Kept
      OBVIOUS
    <2>1. CASE FillEvenBin
      <3> DEFINE at == even_bin + StartTime
      <3>1. PICK value : scaled_stats' = Record(at, stat, value)
        BY <2>1 DEF FillEvenBin
      <3>2. ASSUME NEW l \in DOMAIN scaled_stats, NEW s \in DOMAIN scaled_stats[l]
            PROVE  ~ (l = at /\ s = stat)
        <4>1. pc = "time" /\ even_bin \in Nat /\ StartTime \in Nat
          BY <2>1, NormalizeAssumption DEF FInv, IInv, TypeOK, FillEvenBin, Pouring
        <4>2. s = stat => l < even_bin + StartTime
          BY <4>1 DEF FInv, RecordedBefore
        <4> QED BY <4>1, <4>2
      <3> HIDE DEF at
      <3>0. DOMAIN scaled_stats' = DOMAIN scaled_stats \cup {at}
        BY ONLY <3>1, RecordDomain
      <3>3. ASSUME NEW l \in DOMAIN scaled_stats
            PROVE  l \in DOMAIN scaled_stats'
        BY ONLY <3>0
      <3>4. ASSUME NEW l \in DOMAIN scaled_stats, NEW s \in DOMAIN scaled_stats[l]
            PROVE  /\ s \in DOMAIN scaled_stats'[l]
                   /\ scaled_stats'[l][s] = scaled_stats[l][s]
        <4>1. ~ (l = at /\ s = stat)
          BY <3>2
        <4>2. /\ s \in DOMAIN Record(at, stat, value)[l]
              /\ Record(at, stat, value)[l][s] = scaled_stats[l][s]
          BY ONLY <4>1, <3>4, RecordKeepsOthers
        <4> QED BY ONLY <3>1, <4>2
      <3> QED BY <3>3, <3>4
    <2>2. CASE ~ FillEvenBin
      <3>1. UNCHANGED scaled_stats
        BY <2>2 DEF Next, BeginStat, DrainRealBin, LoadSample, EndStat, Terminated, vars
      <3> QED BY <3>1
    <2> QED BY <2>1, <2>2
  <1>2. Spec => []FInv
    BY InitFInv, StepFInv, PTL DEF Spec
  <1> QED BY <1>1, <1>2, PTL DEF Spec, RecordedIsFinal

-----------------------------------------------------------------------------
(* The rate of sample k, and how far the time stamp at hand is poured. *)
RateOf(s, k) == samples[s][k] \div Covered(time_stamps, k)
Here == prev_time_stamp - real_bin_time_left

LEMMA ExactQuotient ==
    ASSUME NEW r \in Nat, NEW c \in Nat \ {0}
    PROVE  (r * c) \div c = r
  OBVIOUS

(* A share is what the rate gives for the time left. *)
LEMMA ShareOfRate ==
    ASSUME NEW r \in Nat, NEW left \in Nat, NEW whole \in Nat \ {0}
    PROVE  Share(left, whole, r * whole) = r * left
  <1>1. (r * whole) * left = (r * left) * whole /\ r * left \in Nat
    OBVIOUS
  <1> QED
    BY <1>1, ExactQuotient DEF Share

LEMMA CoveredIs ==
    ASSUME TypeOK, NEW k \in 1 .. Len(time_stamps)
    PROVE  /\ Covered(time_stamps, k) \in Nat \ {0}
           /\ time_stamps[k] \in Nat \ {0}
           /\ time_stamps[k] - Covered(time_stamps, k) = IF k = 1 THEN 0 ELSE time_stamps[k - 1]
  <1>1. time_stamps \in Seq(Nat \ {0}) /\ Increasing(time_stamps)
    BY DEF TypeOK
  <1>2. k > 1 => k - 1 \in 1 .. Len(time_stamps) /\ time_stamps[k - 1] < time_stamps[k]
    BY <1>1 DEF Increasing
  <1> QED
    BY <1>1, <1>2 DEF Covered

(* Every sample covers its own ticks. *)
LEMMA SampleOfTick ==
    ASSUME TypeOK, NEW s, NEW k \in 1 .. Len(time_stamps), NEW t \in Int,
           time_stamps[k] - Covered(time_stamps, k) < t, t <= time_stamps[k]
    PROVE  RateAt(s, t) = RateOf(s, k)
  <1> DEFINE P(j) == /\ t <= time_stamps[j]
                     /\ time_stamps[j] - Covered(time_stamps, j) < t
             choice == CHOOSE j \in 1 .. Len(time_stamps) : P(j)
  <1>1. P(k)
    OBVIOUS
  <1>2. choice \in 1 .. Len(time_stamps) /\ P(choice)
    BY <1>1, Zenon
  <1>3. RateAt(s, t) = samples[s][choice] \div Covered(time_stamps, choice)
    BY Zenon DEF RateAt
  <1> HIDE DEF choice
  <1>4. choice = k
    <2>1. Len(time_stamps) \in Nat /\ Increasing(time_stamps)
      BY DEF TypeOK
    <2>2. ASSUME NEW i \in 1 .. Len(time_stamps), NEW j \in 1 .. Len(time_stamps), i < j
          PROVE  time_stamps[i] <= time_stamps[j] - Covered(time_stamps, j)
      <3>1. j - 1 \in 1 .. Len(time_stamps) /\ j # 1 /\ i <= j - 1
        BY <2>1, <2>2
      <3>2. i < j - 1 => time_stamps[i] < time_stamps[j - 1]
        BY <2>1, <3>1 DEF Increasing
      <3>3. time_stamps[i] \in Nat /\ time_stamps[j - 1] \in Nat
        BY <3>1, CoveredIs
      <3>4. time_stamps[i] <= time_stamps[j - 1]
        BY <3>1, <3>2, <3>3
      <3> QED
        BY <3>1, <3>4, CoveredIs
    <2>3. time_stamps[k] \in Nat /\ time_stamps[choice] \in Nat
          /\ Covered(time_stamps, k) \in Nat /\ Covered(time_stamps, choice) \in Nat
      BY <1>2, CoveredIs
    <2>4. ~ (choice < k) /\ ~ (k < choice)
      BY <1>1, <1>2, <2>2, <2>3
    <2> QED
      BY <1>2, <2>1, <2>4
  <1> QED
    BY <1>3, <1>4 DEF RateOf

-----------------------------------------------------------------------------
(* Events of adjoining spans add up. *)
LEMMA EventsSplit ==
    ASSUME NEW s, NEW a \in Int, NEW b \in Int, NEW c \in Int, a <= b, b <= c,
           IsFiniteSet(Events(s, a, b)), IsFiniteSet(Events(s, b, c))
    PROVE  /\ IsFiniteSet(Events(s, a, c))
           /\ Cardinality(Events(s, a, c)) = Cardinality(Events(s, a, b)) + Cardinality(Events(s, b, c))
  <1>1. Events(s, a, c) = Events(s, a, b) \cup Events(s, b, c)
    <2>1. a + 1 .. c = (a + 1 .. b) \cup (b + 1 .. c)
      OBVIOUS
    <2> DEFINE R(t) == {t} \X (1 .. RateAt(s, t))
    <2>2. \A t : Events(s, a, c) = UNION {R(u) : u \in a + 1 .. c}
      BY DEF Events
    <2> QED
      BY <2>1, Zenon DEF Events
  <1>2. Events(s, a, b) \cap Events(s, b, c) = {}
    <2> SUFFICES ASSUME NEW e \in Events(s, a, b), e \in Events(s, b, c) PROVE FALSE
      OBVIOUS
    <2>1. PICK t \in a + 1 .. b : e \in {t} \X (1 .. RateAt(s, t))
      BY DEF Events
    <2>2. PICK u \in b + 1 .. c : e \in {u} \X (1 .. RateAt(s, u))
      BY DEF Events
    <2>3. e[1] = t /\ e[1] = u
      BY <2>1, <2>2
    <2> QED
      BY <2>3
  <1>3. Cardinality(Events(s, a, b) \cap Events(s, b, c)) = 0
    BY <1>2, FS_EmptySet
  <1>4. Cardinality(Events(s, a, b)) \in Nat /\ Cardinality(Events(s, b, c)) \in Nat
    BY FS_CardinalityType
  <1> QED
    BY <1>1, <1>3, <1>4, FS_Union

LEMMA NoEvents ==
    ASSUME NEW s, NEW a \in Int
    PROVE  IsFiniteSet(Events(s, a, a)) /\ Cardinality(Events(s, a, a)) = 0
  <1>1. a + 1 .. a = {}
    OBVIOUS
  <1>2. Events(s, a, a) = {}
    BY <1>1, Zenon DEF Events
  <1> QED
    BY <1>2, FS_EmptySet

(* Within one sample the events are its rate times the span. *)
LEMMA EventsOfSample ==
    ASSUME TypeOK, NEW s, NEW k \in 1 .. Len(time_stamps), NEW r \in Nat, r = RateOf(s, k),
           NEW a \in Int, NEW b \in Int, a <= b,
           time_stamps[k] - Covered(time_stamps, k) <= a, b <= time_stamps[k]
    PROVE  IsFiniteSet(Events(s, a, b)) /\ Cardinality(Events(s, a, b)) = r * (b - a)
  <1>1. \A t \in a + 1 .. b : RateAt(s, t) = r
    <2> SUFFICES ASSUME NEW t \in a + 1 .. b PROVE RateAt(s, t) = r
      OBVIOUS
    <2>1. /\ time_stamps[k] \in Int /\ Covered(time_stamps, k) \in Int
      BY CoveredIs
    <2>2. t \in Int /\ time_stamps[k] - Covered(time_stamps, k) < t /\ t <= time_stamps[k]
      BY <2>1
    <2> QED
      BY <2>2, SampleOfTick
  <1>2. Events(s, a, b) = (a + 1 .. b) \X (1 .. r)
    <2>1. ASSUME NEW e \in Events(s, a, b) PROVE e \in (a + 1 .. b) \X (1 .. r)
      <3>1. PICK t \in a + 1 .. b : e \in {t} \X (1 .. RateAt(s, t))
        BY DEF Events
      <3> QED
        BY <1>1, <3>1
    <2>2. ASSUME NEW e \in (a + 1 .. b) \X (1 .. r) PROVE e \in Events(s, a, b)
      <3>1. PICK t \in a + 1 .. b : t = e[1]
        OBVIOUS
      <3>2. e \in {t} \X (1 .. RateAt(s, t))
        BY <1>1, <3>1
      <3> QED
        BY <3>2 DEF Events
    <2> QED
      BY <2>1, <2>2
  <1>3. IsFiniteSet(a + 1 .. b) /\ Cardinality(a + 1 .. b) = b - a
    <2>1. a + 1 \in Int
      OBVIOUS
    <2>2. /\ IsFiniteSet(a + 1 .. b)
          /\ Cardinality(a + 1 .. b) = IF a + 1 > b THEN 0 ELSE b - (a + 1) + 1
      BY ONLY <2>1, b \in Int, FS_Interval
    <2> QED
      BY <2>2
  <1>4. IsFiniteSet(1 .. r) /\ Cardinality(1 .. r) = r
    <2>1. IsFiniteSet(1 .. r) /\ Cardinality(1 .. r) = IF 1 > r THEN 0 ELSE r - 1 + 1
      BY ONLY r \in Nat, FS_Interval
    <2> QED
      BY <2>1
  <1>5. PICK S, T : S = a + 1 .. b /\ T = 1 .. r
    OBVIOUS
  <1>6. IsFiniteSet(S \X T) /\ Cardinality(S \X T) = Cardinality(S) * Cardinality(T)
    BY <1>3, <1>4, <1>5, FS_Product
  <1> QED
    BY <1>2, <1>3, <1>4, <1>5, <1>6

-----------------------------------------------------------------------------
(* The bins that end before a time: the full ones up to it. *)
LEMMA BinsBefore ==
    ASSUME NEW m \in Nat, NEW size \in Nat \ {0}, NEW filled \in 0 .. size, filled > 0 \/ m = 0,
           NEW time, time = m * size + filled
    PROVE  {n \in 1 .. time : n * size < time} = 1 .. m
  <1>1. m * size \in Nat /\ time \in Nat
    OBVIOUS
  <1>2. ASSUME NEW n \in 1 .. m PROVE n \in 1 .. time /\ n * size < time
    <2>1. n * size <= m * size /\ n <= n * size /\ n * size \in Nat
      BY <1>2
    <2> QED
      BY <1>1, <1>2, <2>1
  <1>3. ASSUME NEW n \in 1 .. time, n * size < time PROVE n \in 1 .. m
    <2> SUFFICES ASSUME n >= m + 1 PROVE FALSE
      BY <1>1
    <2>1. n * size >= (m + 1) * size /\ (m + 1) * size = m * size + size
      BY <1>1
    <2> QED
      BY <1>1, <1>3, <2>1
  <1> QED
    BY <1>2, <1>3

Start == even_bin - OneSecond

(* Each sample holds a whole rate for each of its ticks. *)
WholeRates ==
    \A s \in Stats : \A k \in 1 .. Len(time_stamps) :
        RateOf(s, k) \in Nat /\ samples[s][k] = RateOf(s, k) * Covered(time_stamps, k)

(* The rest of the real bin and the open even bin hold the events of their *)
(* own time, the bins before it are recorded, it is empty only at first or *)
(* while pouring goes on, and the last sample is left untouched.           *)
RealBinRest ==
    real_bin_time_left > 0 =>
        /\ next - 1 \in 1 .. Len(time_stamps)
        /\ real_bin_time_left <= Covered(time_stamps, next - 1)
        /\ real_bin_stat_value = RateOf(stat, next - 1) * real_bin_time_left
OpenBin ==
    /\ IsFiniteSet(Events(stat, Start, Here))
    /\ even_bin_stat_value = Cardinality(Events(stat, Start, Here))
NotEmpty ==
    \/ even_bin_time_left < bin_size \/ even_bin = OneSecond
    \/ real_bin_time_left > 0 /\ next <= Len(time_stamps)
LastUntouched ==
    next > Len(time_stamps) /\ Len(time_stamps) > 0 =>
        real_bin_time_left = Covered(time_stamps, Len(time_stamps))
Labels(m) == {BinLabel(n) : n \in 1 .. m}
FullBins == \E m \in Nat : even_bin = OneSecond + m * bin_size /\ BinsOf(stat) = Labels(m)
AtHand == pc = "time" => RealBinRest /\ OpenBin /\ NotEmpty /\ LastUntouched /\ FullBins

BinsExact ==
    \A label \in DOMAIN scaled_stats :
        \A s \in DOMAIN scaled_stats[label] :
            scaled_stats[label][s] = Cardinality(Events(s, BinStart(label), BinStart(label) + bin_size))

BinsComplete ==
    \A s \in Finished :
        BinsOf(s) = {BinLabel(n) : n \in {m \in 1 .. Poured : m * bin_size < Poured}}

GInv == FInv /\ WholeRates /\ AtHand /\ BinsExact /\ BinsComplete

(* What depends on the arguments alone. *)
LEMMA SameArguments ==
    ASSUME UNCHANGED args
    PROVE  /\ \A s, k : RateOf(s, k)' = RateOf(s, k)
           /\ \A s, a, b : Events(s, a, b)' = Events(s, a, b)
           /\ Poured' = Poured
           /\ \A m : Labels(m)' = Labels(m)
  <1>1. UNCHANGED <<bin_size, time_stamps, samples>>
    BY DEF args
  <1>2. \A s, k : RateOf(s, k)' = RateOf(s, k)
    BY <1>1 DEF RateOf
  <1>3. \A s, t : RateAt(s, t)' = RateAt(s, t)
    BY <1>1 DEF RateAt
  <1>4. \A s, a, b : Events(s, a, b)' = Events(s, a, b)
    BY <1>3 DEF Events
  <1>5. \A m : Labels(m)' = Labels(m)
    BY <1>1 DEF Labels, BinLabel
  <1> QED
    BY <1>1, <1>2, <1>4, <1>5 DEF Poured

LEMMA SameBins ==
    ASSUME UNCHANGED scaled_stats
    PROVE  /\ \A s : BinsOf(s)' = BinsOf(s)
           /\ UNCHANGED args /\ BinsExact => BinsExact'
  <1>1. \A s : BinsOf(s)' = BinsOf(s)
    BY DEF BinsOf
  <1>2. ASSUME UNCHANGED args, BinsExact PROVE BinsExact'
    <2>1. bin_size' = bin_size
      BY <1>2 DEF args
    <2> QED
      BY <1>2, <2>1, SameArguments DEF BinsExact, BinStart
  <1> QED
    BY <1>1, <1>2

(* What is recorded for one counter adds one bin to that counter's. *)
LEMMA RecordBins ==
    ASSUME NEW label, NEW s, NEW value, scaled_stats' = Record(label, s, value)
    PROVE  /\ BinsOf(s)' = BinsOf(s) \cup {label}
           /\ \A t : t # s => BinsOf(t)' = BinsOf(t)
           /\ scaled_stats'[label][s] = value
  BY DEF BinsOf, Record

LEMMA InitGInv == Init => GInv
  <1> SUFFICES ASSUME Init PROVE GInv
    OBVIOUS
  <1>1. FInv
    BY InitFInv
  <1>2. WholeRates
    <2>1. PICK rate \in [Stats -> [1 .. Len(time_stamps) -> Rates]] :
            samples = [s \in Stats |-> [k \in 1 .. Len(time_stamps) |->
                          rate[s][k] * Covered(time_stamps, k)]]
      BY DEF Init
    <2> SUFFICES ASSUME NEW s \in Stats, NEW k \in 1 .. Len(time_stamps)
                 PROVE  RateOf(s, k) \in Nat /\ samples[s][k] = RateOf(s, k) * Covered(time_stamps, k)
      BY DEF WholeRates
    <2>2. PICK c : c = Covered(time_stamps, k)
      OBVIOUS
    <2>3. PICK r : r = rate[s][k]
      OBVIOUS
    <2>4. r \in Nat /\ c \in Nat \ {0}
      <3>1. rate[s] \in [1 .. Len(time_stamps) -> Rates]
        BY <2>1
      <3>2. r \in Rates
        BY <2>3, <3>1
      <3>3. c \in Nat \ {0}
        BY <1>1, <2>2, CoveredIs DEF FInv, IInv
      <3> QED
        BY <3>2, <3>3, NormalizeAssumption
    <2>5. samples[s][k] = r * c
      BY <2>1, <2>2, <2>3
    <2>6. RateOf(s, k) = r
      BY <2>2, <2>4, <2>5, ExactQuotient DEF RateOf
    <2> QED
      BY <2>2, <2>4, <2>5, <2>6
  <1>3. pc = "stat" /\ scaled_stats = <<>> /\ todo = Stats
    BY DEF Init
  <1> QED
    BY <1>1, <1>2, <1>3 DEF GInv, AtHand, BinsExact, BinsComplete, Finished

LEMMA BeginGInv == GInv /\ BeginStat => AtHand' /\ BinsExact' /\ BinsComplete'
  <1> SUFFICES ASSUME GInv, BeginStat PROVE AtHand' /\ BinsExact' /\ BinsComplete'
    OBVIOUS
  <1>1. /\ pc = "stat" /\ pc' = "time" /\ stat' \in todo /\ todo' = todo \ {stat'} /\ next' = 1
        /\ even_bin' = OneSecond /\ even_bin_time_left' = bin_size /\ even_bin_stat_value' = 0
        /\ real_bin_time_left' = 0 /\ prev_time_stamp' = 0
        /\ UNCHANGED args /\ scaled_stats' = scaled_stats /\ bin_size' = bin_size
        /\ time_stamps' = time_stamps
    BY DEF BeginStat, FreshLocals, args
  <1>2. OneSecond \in Nat /\ bin_size \in Nat /\ todo \subseteq Stats /\ Len(time_stamps) \in Nat
    BY NormalizeAssumption DEF GInv, FInv, IInv, TypeOK
  <1>3. BinsOf(stat') = {}
    BY <1>1 DEF GInv, FInv, RecordedBefore, BinsOf
  <1>4. AtHand'
    <2>1. Start' = 0 /\ Here' = 0
      BY <1>1, <1>2 DEF Start, Here
    <2>2. PICK s : s = stat'
      OBVIOUS
    <2>3. Events(stat, Start, Here)' = Events(s, 0, 0)
      BY <1>1, <2>1, <2>2, SameArguments
    <2>4. IsFiniteSet(Events(s, 0, 0)) /\ Cardinality(Events(s, 0, 0)) = 0
      BY NoEvents
    <2>5. FullBins'
      <3>1. BinsOf(stat)' = {}
        BY <1>1, <1>3 DEF BinsOf
      <3>2. Labels(0)' = {}
        BY DEF Labels
      <3>3. even_bin' = OneSecond + 0 * bin_size'
        BY <1>1, <1>2
      <3> QED
        BY <3>1, <3>2, <3>3 DEF FullBins
    <2>6. OpenBin'
      BY <1>1, <2>3, <2>4 DEF OpenBin
    <2>7. RealBinRest' /\ LastUntouched' /\ NotEmpty'
      BY <1>1, <1>2 DEF RealBinRest, LastUntouched, NotEmpty
    <2> QED
      BY <2>5, <2>6, <2>7 DEF AtHand
  <1>5. BinsExact'
    BY <1>1, SameBins DEF GInv
  <1>6. BinsComplete'
    <2>1. Finished' = Finished
      BY <1>1, <1>2 DEF Finished
    <2> QED
      BY <1>1, <2>1, SameBins, SameArguments DEF GInv, BinsComplete, BinLabel
  <1> QED
    BY <1>4, <1>5, <1>6

(* What pouring finds: how far it has come, and the rate it pours. *)
LEMMA PouringIs ==
    ASSUME GInv, Pouring
    PROVE  /\ pc = "time" /\ stat \in Stats /\ bin_size \in Nat \ {0} /\ OneSecond \in Nat /\ StartTime \in Nat
           /\ even_bin \in Nat /\ Start \in Int /\ Here \in Int /\ Start <= Here
           /\ real_bin_time_left \in Nat \ {0} /\ even_bin_time_left \in 0 .. bin_size
           /\ Start + (bin_size - even_bin_time_left) = Here
           /\ \E r \in Nat :
                /\ real_bin_stat_value = r * real_bin_time_left
                /\ \A a, b \in Int :
                     Here <= a /\ a <= b /\ b <= Here + real_bin_time_left =>
                       /\ IsFiniteSet(Events(stat, a, b))
                       /\ Cardinality(Events(stat, a, b)) = r * (b - a)
  <1>1. /\ pc = "time" /\ next <= Len(time_stamps) /\ real_bin_time_left > 0
        /\ TypeOK /\ Position /\ TimeConserved /\ AtHand /\ WholeRates
    BY DEF Pouring, GInv, FInv, IInv
  <1>2. /\ stat \in Stats /\ bin_size \in Nat \ {0} /\ OneSecond \in Nat /\ StartTime \in Nat
        /\ even_bin \in Nat /\ real_bin_time_left \in Nat /\ even_bin_time_left \in 0 .. bin_size
        /\ prev_time_stamp \in Nat /\ next \in Nat \ {0}
    BY <1>1, NormalizeAssumption DEF TypeOK
  <1>3. Start + (bin_size - even_bin_time_left) = Here /\ Start \in Int /\ Here \in Int
    BY <1>1, <1>2 DEF TimeConserved, Start, Here
  <1>4. PICK k : k = next - 1
    OBVIOUS
  <1>5. /\ k \in 1 .. Len(time_stamps) /\ real_bin_time_left <= Covered(time_stamps, k)
        /\ real_bin_stat_value = RateOf(stat, k) * real_bin_time_left
    BY <1>1, <1>4 DEF AtHand, RealBinRest
  <1>6. PICK r : r = RateOf(stat, k)
    OBVIOUS
  <1>7. r \in Nat
    BY <1>1, <1>2, <1>5, <1>6 DEF WholeRates
  <1>8. prev_time_stamp = time_stamps[k]
    BY <1>1, <1>2, <1>4, <1>5 DEF Position
  <1>9. ASSUME NEW a \in Int, NEW b \in Int, Here <= a, a <= b, b <= Here + real_bin_time_left
        PROVE  IsFiniteSet(Events(stat, a, b)) /\ Cardinality(Events(stat, a, b)) = r * (b - a)
    <2>1. Covered(time_stamps, k) \in Nat
      BY <1>1, <1>5, CoveredIs
    <2>2. time_stamps[k] - Covered(time_stamps, k) <= a /\ b <= time_stamps[k]
      BY <1>2, <1>5, <1>8, <1>9, <2>1 DEF Here
    <2> QED
      BY <1>1, <1>5, <1>6, <1>7, <1>9, <2>2, EventsOfSample
  <1>10. Start <= Here
    BY <1>2, <1>3
  <1>11. \A a, b \in Int :
           Here <= a /\ a <= b /\ b <= Here + real_bin_time_left =>
             IsFiniteSet(Events(stat, a, b)) /\ Cardinality(Events(stat, a, b)) = r * (b - a)
    BY <1>9
  <1>12. real_bin_stat_value = r * real_bin_time_left
    BY <1>5, <1>6
  <1>13. real_bin_time_left \in Nat \ {0}
    BY <1>1, <1>2
  <1> QED
    BY <1>1, <1>2, <1>3, <1>7, <1>10, <1>11, <1>12, <1>13, Zenon

LEMMA DrainGInv == GInv /\ DrainRealBin => AtHand' /\ BinsExact' /\ BinsComplete'
  <1> SUFFICES ASSUME GInv, DrainRealBin PROVE AtHand' /\ BinsExact' /\ BinsComplete'
    OBVIOUS
  <1>1. /\ Pouring /\ ~ even_bin_time_left < real_bin_time_left
        /\ even_bin_stat_value' = even_bin_stat_value + real_bin_stat_value
        /\ even_bin_time_left' = even_bin_time_left - real_bin_time_left
        /\ real_bin_time_left' = 0
        /\ UNCHANGED <<pc, todo, stat, next, even_bin, prev_time_stamp, scaled_stats, bin_size, time_stamps>>
        /\ UNCHANGED args
    BY DEF DrainRealBin, loop, args
  <1>2. /\ pc = "time" /\ bin_size \in Nat \ {0} /\ Start \in Int /\ Here \in Int /\ Start <= Here
        /\ even_bin \in Nat /\ OneSecond \in Nat
        /\ real_bin_time_left \in Nat \ {0} /\ even_bin_time_left \in 0 .. bin_size
    BY <1>1, PouringIs
  <1>3. PICK r \in Nat :
          /\ real_bin_stat_value = r * real_bin_time_left
          /\ \A a, b \in Int :
               Here <= a /\ a <= b /\ b <= Here + real_bin_time_left =>
                 /\ IsFiniteSet(Events(stat, a, b))
                 /\ Cardinality(Events(stat, a, b)) = r * (b - a)
    BY <1>1, PouringIs
  <1>4. PICK from, mid, to : from = Start /\ mid = Here /\ to = Here + real_bin_time_left
    OBVIOUS
  <1>5. from \in Int /\ mid \in Int /\ to \in Int /\ from <= mid /\ mid <= to /\ to - mid = real_bin_time_left
    BY <1>2, <1>4
  <1>6. IsFiniteSet(Events(stat, mid, to)) /\ Cardinality(Events(stat, mid, to)) = real_bin_stat_value
    BY <1>3, <1>4, <1>5
  <1>7. IsFiniteSet(Events(stat, from, mid)) /\ Cardinality(Events(stat, from, mid)) = even_bin_stat_value
    BY <1>2, <1>4 DEF GInv, AtHand, OpenBin
  <1>8. IsFiniteSet(Events(stat, from, to)) /\ Cardinality(Events(stat, from, to)) = even_bin_stat_value'
    BY <1>1, <1>5, <1>6, <1>7, EventsSplit
  <1>9. Start' = from /\ Here' = to
    <2>1. prev_time_stamp \in Nat
      BY DEF GInv, FInv, IInv, TypeOK
    <2> QED
      BY <1>1, <1>2, <1>4, <2>1 DEF Start, Here
  <1>10. Events(stat, Start, Here)' = Events(stat, from, to)
    BY <1>1, <1>9, SameArguments
  <1>11. AtHand'
    <2>1. FullBins'
      BY <1>1, <1>2, SameBins, SameArguments DEF GInv, AtHand, FullBins
    <2>2. NotEmpty'
      BY <1>1, <1>2 DEF NotEmpty
    <2>3. ~ real_bin_time_left' > 0 /\ ~ next' > Len(time_stamps')
      BY <1>1, <1>2 DEF Pouring, GInv, FInv, IInv, TypeOK
    <2>4. OpenBin'
      BY <1>8, <1>10 DEF OpenBin
    <2> QED
      BY <2>1, <2>2, <2>3, <2>4 DEF AtHand, RealBinRest, LastUntouched
  <1>12. BinsExact'
    BY <1>1, SameBins DEF GInv
  <1>13. BinsComplete'
    <2>1. Finished' = Finished
      BY <1>1 DEF Finished
    <2> QED
      BY <1>1, <2>1, SameBins, SameArguments DEF GInv, BinsComplete, BinLabel
  <1> QED
    BY <1>11, <1>12, <1>13

LEMMA LoadGInv == GInv /\ LoadSample => AtHand' /\ BinsExact' /\ BinsComplete'
  <1> SUFFICES ASSUME GInv, LoadSample PROVE AtHand' /\ BinsExact' /\ BinsComplete'
    OBVIOUS
  <1>1. /\ pc = "time" /\ next <= Len(time_stamps) /\ ~ real_bin_time_left > 0
        /\ real_bin_stat_value' = samples[stat][next]
        /\ real_bin_time_left' = time_stamps[next] - prev_time_stamp
        /\ prev_time_stamp' = time_stamps[next]
        /\ next' = next + 1
        /\ UNCHANGED <<pc, todo, stat, even_bin, even_bin_time_left, even_bin_stat_value,
                       scaled_stats, bin_size, time_stamps>>
        /\ UNCHANGED args
    BY DEF LoadSample, evenBin, args
  <1>2. /\ TypeOK /\ Position /\ WholeRates /\ AtHand /\ BinsExact /\ BinsComplete
    BY DEF GInv, FInv, IInv
  <1>3. /\ stat \in Stats /\ next \in 1 .. Len(time_stamps) /\ Len(time_stamps) \in Nat
        /\ prev_time_stamp \in Nat /\ real_bin_time_left = 0
    BY <1>1, <1>2 DEF TypeOK
  <1>4. PICK c : c = Covered(time_stamps, next)
    OBVIOUS
  <1>5. c \in Nat \ {0} /\ time_stamps[next] \in Nat \ {0} /\ time_stamps[next] - c = prev_time_stamp
    BY <1>1, <1>2, <1>3, <1>4, CoveredIs DEF Position
  <1>6. real_bin_time_left' = c /\ Here' = Here /\ Start' = Start
    BY <1>1, <1>3, <1>5 DEF Here, Start
  <1>7. RealBinRest'
    <2>1. PICK k : k = next
      OBVIOUS
    <2>2. next' - 1 = k /\ k \in 1 .. Len(time_stamps') /\ Covered(time_stamps', k) = c
      BY <1>1, <1>3, <1>4, <2>1
    <2>3. RateOf(stat, k)' = RateOf(stat, k)
      BY <1>1, SameArguments
    <2>4. real_bin_stat_value' = RateOf(stat, k)' * c
      BY <1>1, <1>2, <1>3, <1>4, <2>1, <2>3 DEF WholeRates
    <2> QED
      BY <1>5, <1>6, <2>2, <2>4 DEF RealBinRest
  <1>8. OpenBin'
    <2>1. Events(stat, Start, Here)' = Events(stat, Start, Here)
      BY <1>1, <1>6, SameArguments
    <2> QED
      BY <1>1, <1>2, <2>1 DEF AtHand, OpenBin
  <1>9. NotEmpty'
    <2>1. even_bin_time_left < bin_size \/ even_bin = OneSecond
      BY <1>1, <1>2 DEF AtHand, NotEmpty
    <2> QED
      BY <1>1, <2>1 DEF NotEmpty
  <1>10. LastUntouched'
    <2>1. next' > Len(time_stamps) => next = Len(time_stamps)
      BY <1>1, <1>3
    <2> QED
      BY <1>1, <1>4, <1>6, <2>1 DEF LastUntouched
  <1>11. FullBins'
    BY <1>1, <1>2, SameBins, SameArguments DEF AtHand, FullBins
  <1>12. BinsComplete'
    <2>1. Finished' = Finished
      BY <1>1 DEF Finished
    <2> QED
      BY <1>1, <1>2, <2>1, SameBins, SameArguments DEF BinsComplete, BinLabel
  <1> QED
    BY <1>1, <1>2, <1>7, <1>8, <1>9, <1>10, <1>11, <1>12, SameBins DEF AtHand

(* A full bin is recorded with the events of its own span. *)
LEMMA FillGInv == GInv /\ FillEvenBin => AtHand' /\ BinsExact' /\ BinsComplete'
  <1> SUFFICES ASSUME GInv, FillEvenBin PROVE AtHand' /\ BinsExact' /\ BinsComplete'
    OBVIOUS
  <1> DEFINE left == real_bin_time_left - even_bin_time_left
             rest == Share(left, real_bin_time_left, real_bin_stat_value)
             value == even_bin_stat_value + (real_bin_stat_value - rest)
             label == even_bin + StartTime
  <1>1. /\ Pouring /\ even_bin_time_left < real_bin_time_left
        /\ scaled_stats' = Record(label, stat, value)
        /\ real_bin_time_left' = left /\ real_bin_stat_value' = rest
        /\ even_bin' = even_bin + bin_size /\ even_bin_time_left' = bin_size /\ even_bin_stat_value' = 0
        /\ UNCHANGED <<pc, todo, stat, next, prev_time_stamp, bin_size, time_stamps>>
        /\ UNCHANGED args
    BY DEF FillEvenBin, NewEvenBin, loop, args
  <1>2. /\ pc = "time" /\ stat \in Stats /\ bin_size \in Nat \ {0} /\ OneSecond \in Nat /\ StartTime \in Nat
        /\ even_bin \in Nat /\ Start \in Int /\ Here \in Int /\ Start <= Here
        /\ real_bin_time_left \in Nat \ {0} /\ even_bin_time_left \in 0 .. bin_size
        /\ Start + (bin_size - even_bin_time_left) = Here
    BY <1>1, PouringIs
  <1>3. /\ TypeOK /\ AtHand /\ BinsExact /\ BinsComplete /\ FInv
    BY DEF GInv, FInv, IInv
  <1>4. PICK r \in Nat :
          /\ real_bin_stat_value = r * real_bin_time_left
          /\ \A a, b \in Int :
               Here <= a /\ a <= b /\ b <= Here + real_bin_time_left =>
                 /\ IsFiniteSet(Events(stat, a, b))
                 /\ Cardinality(Events(stat, a, b)) = r * (b - a)
    BY <1>1, PouringIs
  <1>5. left \in Nat \ {0} /\ rest = r * left /\ real_bin_stat_value - rest = r * even_bin_time_left
    <2>1. left \in Nat \ {0}
      BY <1>1, <1>2
    <2>2. rest = r * left
      BY <1>2, <1>4, <2>1, ShareOfRate
    <2>3. r * real_bin_time_left - r * left = r * even_bin_time_left
      BY <1>2
    <2> QED
      BY <1>4, <2>1, <2>2, <2>3
  <1>6. PICK from, mid, to : from = Start /\ mid = Here /\ to = Start + bin_size
    OBVIOUS
  <1>7. /\ from \in Int /\ mid \in Int /\ to \in Int /\ from <= mid /\ mid <= to
        /\ to - mid = even_bin_time_left
    BY <1>2, <1>6
  <1>8. value = Cardinality(Events(stat, from, to))
    <2>1. IsFiniteSet(Events(stat, mid, to)) /\ Cardinality(Events(stat, mid, to)) = r * even_bin_time_left
      <3>1. to <= Here + real_bin_time_left
        BY <1>1, <1>2, <1>6, <1>7
      <3> QED
        BY <1>4, <1>6, <1>7, <3>1
    <2>2. IsFiniteSet(Events(stat, from, mid)) /\ Cardinality(Events(stat, from, mid)) = even_bin_stat_value
      BY <1>2, <1>3, <1>6 DEF AtHand, OpenBin
    <2> QED
      BY <1>5, <1>7, <2>1, <2>2, EventsSplit
  <1>9. BinStart(label) = from /\ BinStart(label) + bin_size = to /\ label \in Nat
    BY <1>2, <1>6 DEF BinStart, Start
  <1>10. Start' = to /\ Here' = to
    <2>1. prev_time_stamp \in Nat
      BY <1>3 DEF TypeOK
    <2>2. Here' = Here + even_bin_time_left
      BY <1>1, <1>2, <2>1 DEF Here
    <2> QED
      BY <1>1, <1>2, <1>6, <1>7, <2>2 DEF Start
  <1> HIDE DEF left, rest, value, label
  <1>11. RealBinRest'
    <2>1. /\ next - 1 \in 1 .. Len(time_stamps)
          /\ real_bin_time_left <= Covered(time_stamps, next - 1)
          /\ real_bin_stat_value = RateOf(stat, next - 1) * real_bin_time_left
      BY <1>2, <1>3 DEF AtHand, RealBinRest
    <2>2. RateOf(stat, next - 1) = r
      <3>1. RateOf(stat, next - 1) \in Nat
        BY <1>2, <2>1 DEF GInv, WholeRates
      <3>2. PICK q : q = RateOf(stat, next - 1)
        OBVIOUS
      <3>3. q \in Nat /\ q * real_bin_time_left = r * real_bin_time_left
        BY <1>4, <2>1, <3>1, <3>2
      <3>4. q = r
        <4>1. q < r => q * real_bin_time_left < r * real_bin_time_left
          BY <1>2, <3>3
        <4>2. r < q => r * real_bin_time_left < q * real_bin_time_left
          BY <1>2, <3>3
        <4> QED
          BY <1>2, <3>3, <4>1, <4>2
      <3> QED
        BY <3>2, <3>4
    <2>3. RateOf(stat, next - 1)' = r
      BY <1>1, <2>2, SameArguments
    <2>4. left <= Covered(time_stamps, next - 1)
      <3>1. Covered(time_stamps, next - 1) \in Nat
        BY <1>3, <2>1, CoveredIs
      <3> QED
        BY <1>2, <2>1, <3>1 DEF left
    <2>5. /\ real_bin_stat_value' = r * left /\ real_bin_time_left' = left /\ next' = next
          /\ time_stamps' = time_stamps
      BY <1>1, <1>5
    <2> QED
      BY <2>1, <2>3, <2>4, <2>5 DEF RealBinRest
  <1>12. OpenBin'
    <2>1. Events(stat, Start, Here)' = Events(stat, to, to)
      BY <1>1, <1>10, SameArguments
    <2>2. IsFiniteSet(Events(stat, to, to)) /\ Cardinality(Events(stat, to, to)) = 0
      BY <1>7, NoEvents
    <2> QED
      BY <1>1, <2>1, <2>2 DEF OpenBin
  <1>13. PICK m \in Nat : even_bin = OneSecond + m * bin_size /\ BinsOf(stat) = Labels(m)
    BY <1>2, <1>3 DEF AtHand, FullBins
  <1>14. label = BinLabel(m + 1) /\ even_bin' = OneSecond + (m + 1) * bin_size
    <2>1. (m + 1) * bin_size = m * bin_size + bin_size /\ m * bin_size \in Nat /\ m + 1 - 1 = m
      BY <1>2
    <2> QED
      BY <1>1, <1>2, <1>13, <2>1 DEF BinLabel, label
  <1>15. FullBins'
    <2>1. BinsOf(stat)' = Labels(m) \cup {label}
      <3>1. PICK s : s = stat
        OBVIOUS
      <3>2. BinsOf(s)' = BinsOf(s) \cup {label}
        BY <1>1, <3>1, RecordBins
      <3>3. BinsOf(stat)' = BinsOf(s)'
        BY <1>1, <3>1 DEF BinsOf
      <3> QED
        BY <1>13, <3>1, <3>2, <3>3
    <2>2. Labels(m + 1) = Labels(m) \cup {BinLabel(m + 1)}
      <3>1. 1 .. m + 1 = (1 .. m) \cup {m + 1}
        OBVIOUS
      <3> QED
        BY <3>1, Zenon DEF Labels
    <2>3. Labels(m + 1)' = Labels(m + 1)
      BY <1>1, SameArguments
    <2> QED
      BY <1>1, <1>14, <2>1, <2>2, <2>3 DEF FullBins
  <1>16. NotEmpty'
    BY <1>1, <1>5 DEF NotEmpty, Pouring
  <1>17. LastUntouched'
    BY <1>1, <1>3 DEF Pouring, TypeOK, LastUntouched
  <1>18. BinsExact'
    <2> SUFFICES ASSUME NEW l \in DOMAIN scaled_stats', NEW s \in DOMAIN scaled_stats'[l]
                 PROVE  scaled_stats'[l][s] = Cardinality(Events(s, BinStart(l), BinStart(l) + bin_size))
      <3>1. \A a, b, c : Events(a, b, c)' = Events(a, b, c)
        BY <1>1, SameArguments
      <3>2. bin_size' = bin_size
        BY <1>1
      <3> QED
        BY <3>1, <3>2 DEF BinsExact, BinStart
    <2>1. CASE l = label /\ s = stat
      <3>1. scaled_stats'[l][s] = value
        BY <1>1, <2>1, RecordBins
      <3> QED
        BY <1>8, <1>9, <2>1, <3>1
    <2>2. CASE ~ (l = label /\ s = stat)
      <3>1. DOMAIN scaled_stats' = DOMAIN scaled_stats \cup {label}
        BY <1>1, RecordDomain
      <3>2. l \in DOMAIN scaled_stats \cup {label} /\ s \in DOMAIN Record(label, stat, value)[l]
        BY <1>1, <3>1
      <3>3. l \in DOMAIN scaled_stats /\ s \in DOMAIN scaled_stats[l]
        BY ONLY <2>2, <3>2, RecordAddsOne
      <3>4. scaled_stats'[l][s] = scaled_stats[l][s]
        BY <1>1, <2>2, <3>3, RecordKeepsOthers
      <3> QED
        BY <1>3, <3>3, <3>4 DEF BinsExact
    <2> QED
      BY <2>1, <2>2
  <1>19. BinsComplete'
    <2>1. Finished' = Finished /\ stat \notin Finished
      BY <1>1, <1>2 DEF Finished
    <2>2. \A s : s # stat => BinsOf(s)' = BinsOf(s)
      BY <1>1, RecordBins
    <2> QED
      BY <1>1, <1>3, <2>1, <2>2, SameArguments DEF BinsComplete, BinLabel
  <1> QED
    BY <1>11, <1>12, <1>15, <1>16, <1>17, <1>18, <1>19 DEF AtHand

(* At the end, the bins recorded are those that end before the last sample. *)
LEMMA EndGInv == GInv /\ EndStat => AtHand' /\ BinsExact' /\ BinsComplete'
  <1> SUFFICES ASSUME GInv, EndStat PROVE AtHand' /\ BinsExact' /\ BinsComplete'
    OBVIOUS
  <1>1. /\ pc = "time" /\ next > Len(time_stamps) /\ pc' \in {"stat", "done"}
        /\ UNCHANGED <<todo, stat, next, even_bin, scaled_stats, bin_size, time_stamps>>
        /\ UNCHANGED args
    BY DEF EndStat, evenBin, args
  <1>2. TypeOK /\ Position /\ TimeConserved /\ AtHand /\ BinsExact /\ BinsComplete
    BY DEF GInv, FInv, IInv
  <1>3. /\ bin_size \in Nat \ {0} /\ OneSecond \in Nat /\ even_bin \in Nat /\ prev_time_stamp \in Nat
        /\ even_bin_time_left \in 0 .. bin_size /\ real_bin_time_left \in Nat
        /\ next \in Nat \ {0} /\ Len(time_stamps) \in Nat /\ next = Len(time_stamps) + 1
    BY <1>1, <1>2, NormalizeAssumption DEF TypeOK, Position
  <1>4. Here = Poured
    <2>1. CASE Len(time_stamps) = 0
      <3>1. prev_time_stamp = 0 /\ real_bin_time_left = 0
        BY <1>1, <1>2, <1>3, <2>1 DEF Position, AtHand, RealBinRest
      <3> QED
        BY <2>1, <3>1 DEF Here, Poured
    <2>2. CASE Len(time_stamps) > 0
      <3>1. PICK k : k = Len(time_stamps)
        OBVIOUS
      <3>2. k \in 1 .. Len(time_stamps) /\ next - 1 = k /\ next # 1
        BY <1>3, <2>2, <3>1
      <3>3. prev_time_stamp = time_stamps[k] /\ real_bin_time_left = Covered(time_stamps, k)
        BY <1>1, <1>2, <2>2, <3>1, <3>2 DEF Position, AtHand, LastUntouched
      <3>4. Here = IF k = 1 THEN 0 ELSE time_stamps[k - 1]
        BY <1>2, <3>2, <3>3, CoveredIs DEF Here
      <3> QED
        BY <1>3, <2>2, <3>1, <3>4 DEF Poured
    <2> QED
      BY <1>3, <2>1, <2>2
  <1>5. PICK m \in Nat : even_bin = OneSecond + m * bin_size /\ BinsOf(stat) = Labels(m)
    BY <1>1, <1>2 DEF AtHand, FullBins
  <1>6. PICK filled : filled = bin_size - even_bin_time_left
    OBVIOUS
  <1>7. filled \in 0 .. bin_size /\ (filled > 0 \/ m = 0) /\ Poured = m * bin_size + filled
    <2>1. m * bin_size \in Nat
      BY <1>3
    <2>2. filled > 0 \/ even_bin = OneSecond
      BY <1>1, <1>2, <1>3, <1>6 DEF AtHand, NotEmpty
    <2>3. even_bin = OneSecond => m = 0
      <3>1. m # 0 => m * bin_size > 0
        BY <1>3
      <3> QED
        BY <1>3, <1>5, <2>1, <3>1
    <2>4. Here = m * bin_size + filled
      BY <1>1, <1>2, <1>3, <1>5, <1>6, <2>1 DEF TimeConserved, Here
    <2> QED
      BY <1>3, <1>4, <1>6, <2>2, <2>3, <2>4
  <1>8. BinsOf(stat) = {BinLabel(n) : n \in {i \in 1 .. Poured : i * bin_size < Poured}}
    <2>1. PICK P : P = Poured
      OBVIOUS
    <2>2. {i \in 1 .. P : i * bin_size < P} = 1 .. m
      BY <1>3, <1>7, <2>1, BinsBefore
    <2> QED
      BY <1>5, <2>1, <2>2, Zenon DEF Labels
  <1>9. BinsComplete'
    <2>1. Finished' \subseteq Finished \cup {stat}
      BY <1>1 DEF Finished
    <2> QED
      BY <1>1, <1>2, <1>8, <2>1, SameBins, SameArguments DEF BinsComplete, BinLabel
  <1> QED
    BY <1>1, <1>2, <1>9, SameBins DEF AtHand

LEMMA StepGInv == GInv /\ [Next]_vars => GInv'
  <1> SUFFICES ASSUME GInv, [Next]_vars PROVE WholeRates' /\ AtHand' /\ BinsExact' /\ BinsComplete'
    BY StepFInv DEF GInv
  <1>1. WholeRates'
    <2>1. UNCHANGED args
      BY DEF Next, vars, BeginStat, FillEvenBin, DrainRealBin, LoadSample, EndStat, Terminated
    <2>2. samples' = samples /\ time_stamps' = time_stamps
      BY <2>1 DEF args
    <2> QED
      BY <2>1, <2>2, SameArguments DEF GInv, WholeRates
  <1>2. CASE UNCHANGED vars
    <2>1. /\ UNCHANGED <<pc, todo, stat, next, even_bin, even_bin_time_left, even_bin_stat_value,
                         real_bin_time_left, real_bin_stat_value, prev_time_stamp, scaled_stats,
                         bin_size, time_stamps>>
          /\ UNCHANGED args
      BY <1>2 DEF vars, args, loop, evenBin, realBin
    <2>2. AtHand'
      <3>1. RealBinRest => RealBinRest'
        BY <2>1, SameArguments DEF RealBinRest
      <3>2. OpenBin => OpenBin'
        <4>1. Start' = Start /\ Here' = Here
          BY <2>1 DEF Start, Here
        <4>2. Events(stat, Start, Here)' = Events(stat, Start, Here)
          BY <2>1, <4>1, SameArguments
        <4> QED
          BY <2>1, <4>2 DEF OpenBin
      <3>3. (NotEmpty => NotEmpty') /\ (LastUntouched => LastUntouched')
        BY <2>1 DEF NotEmpty, LastUntouched
      <3>4. FullBins => FullBins'
        BY <2>1, SameBins, SameArguments DEF FullBins
      <3> QED
        BY <2>1, <3>1, <3>2, <3>3, <3>4 DEF GInv, AtHand
    <2>3. BinsExact'
      BY <2>1, SameBins DEF GInv
    <2>4. BinsComplete'
      <3>1. Finished' = Finished
        BY <2>1 DEF Finished
      <3> QED
        BY <2>1, <3>1, SameBins, SameArguments DEF GInv, BinsComplete, BinLabel
    <2> QED
      BY <1>1, <2>2, <2>3, <2>4
  <1>3. CASE BeginStat
    BY <1>1, <1>3, BeginGInv
  <1>4. CASE FillEvenBin
    BY <1>1, <1>4, FillGInv
  <1>5. CASE DrainRealBin
    BY <1>1, <1>5, DrainGInv
  <1>6. CASE LoadSample
    BY <1>1, <1>6, LoadGInv
  <1>7. CASE EndStat
    BY <1>1, <1>7, EndGInv
  <1>8. CASE Terminated
    BY <1>2, <1>8 DEF Terminated
  <1> QED
    BY <1>2, <1>3, <1>4, <1>5, <1>6, <1>7, <1>8 DEF Next

(* Every bin recorded holds exactly the events of its own time, and every  *)
(* finished counter has exactly the bins that end before the last sample:  *)
(* for every log, bin size, rate and set of counters.                      *)
THEOREM BinsAreExact == Spec => []BinsHoldTheirEvents
  <1>1. GInv => BinsHoldTheirEvents
    BY DEF GInv, BinsExact, BinsComplete, BinsHoldTheirEvents
  <1> QED
    BY <1>1, InitGInv, StepGInv, PTL DEF Spec
=============================================================================
