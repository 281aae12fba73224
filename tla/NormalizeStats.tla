--------------------------- MODULE NormalizeStats ---------------------------
(***************************************************************************)
(* normalize_stats of process.py: the samples perf took of one core, each  *)
(* covering the time since the sample before it, are redistributed into    *)
(* bins of one length.  The function walks every counter ("stat") of the   *)
(* core over the same time stamps: it pours the last real bin into even    *)
(* bins until it is empty, then reads the next sample.                     *)
(*                                                                         *)
(* Model time is counted in ticks, OneSecond of them to a second.  A       *)
(* sample's value is a whole rate times the sample's length, so that every *)
(* division of the code is exact here and the floating point of the code   *)
(* is abstracted to exact numbers.                                         *)
(***************************************************************************)
EXTENDS Integers, Sequences, FiniteSets

CONSTANTS Stats,       \* the counters of the core
          OneSecond,   \* ticks in a second, the constant 1 of "even_bin = 1"
          StartTime,   \* START_TIME
          BinSizes,    \* the bin sizes a user may ask for
          TimeStamps,  \* sequences of time stamps perf may log
          Rates        \* events per tick between two time stamps

Increasing(ts) == \A i, j \in 1 .. Len(ts) : i < j => ts[i] < ts[j]

ASSUME NormalizeAssumption ==
    /\ Stats # {}
    /\ OneSecond \in Nat \ {0}
    /\ StartTime \in Nat
    /\ BinSizes \subseteq Nat \ {0}
    /\ Rates \subseteq Nat
    /\ \A ts \in TimeStamps : ts \in Seq(Nat \ {0}) /\ Increasing(ts)

VARIABLES
    bin_size, time_stamps, samples,             \* the arguments
    pc, todo, stat, next,                       \* the two for loops
    even_bin, even_bin_time_left, even_bin_stat_value,
    real_bin_time_left, real_bin_stat_value, prev_time_stamp,
    scaled_stats,                               \* time stamp -> stat -> value
    loaded, emitted     \* history: of this stat, the value read and binned

args    == <<bin_size, time_stamps, samples>>
loop    == <<pc, todo, stat, next>>
evenBin == <<even_bin, even_bin_time_left, even_bin_stat_value>>
realBin == <<real_bin_time_left, real_bin_stat_value, prev_time_stamp>>
history == <<loaded, emitted>>
vars    == <<args, loop, evenBin, realBin, scaled_stats, history>>

\* The time a sample covers: since the time stamp before it, or since 0.
Covered(ts, k) == ts[k] - (IF k = 1 THEN 0 ELSE ts[k - 1])

\* Mutant of Share: the part already poured instead of the part left.
SharePoured(left, whole, value) == (value * (whole - left)) \div whole

\* ( next_real_bin_time_left / real_bin_time_left) * real_bin_stat_value
Share(left, whole, value) == (value * left) \div whole

\* scaled_stats.setdefault(label, {})[s] = value
Record(label, s, value) ==
    [l \in DOMAIN scaled_stats \cup {label} |->
        LET old == IF l \in DOMAIN scaled_stats THEN scaled_stats[l] ELSE <<>>
        IN  IF l = label
            THEN [t \in DOMAIN old \cup {s} |-> IF t = s THEN value ELSE old[t]]
            ELSE old]

Init ==
    /\ bin_size \in BinSizes
    /\ time_stamps \in TimeStamps
    /\ \E rate \in [Stats -> [1 .. Len(time_stamps) -> Rates]] :
         samples = [s \in Stats |-> [k \in 1 .. Len(time_stamps) |->
                       rate[s][k] * Covered(time_stamps, k)]]
    /\ pc = "stat" /\ todo = Stats /\ stat = (CHOOSE s \in Stats : TRUE) /\ next = 1
    /\ even_bin = OneSecond
    /\ even_bin_time_left = bin_size
    /\ even_bin_stat_value = 0
    /\ real_bin_time_left = 0
    /\ real_bin_stat_value = 0
    /\ prev_time_stamp = 0
    /\ scaled_stats = <<>>
    /\ loaded = 0 /\ emitted = 0

\* Mutant of FreshLocals: the bins of a counter go on from the last counter's.
FreshLocalsButBin ==
    /\ even_bin' = even_bin
    /\ even_bin_time_left' = bin_size /\ even_bin_stat_value' = 0
    /\ real_bin_time_left' = 0 /\ prev_time_stamp' = 0

\* Mutant of FreshLocals: the first bin lasts a second, whatever bin_size.
FreshLocalsASecondLong ==
    /\ even_bin' = OneSecond
    /\ even_bin_time_left' = OneSecond /\ even_bin_stat_value' = 0
    /\ real_bin_time_left' = 0 /\ prev_time_stamp' = 0

FreshLocals ==
    /\ even_bin' = OneSecond
    /\ even_bin_time_left' = bin_size /\ even_bin_stat_value' = 0
    /\ real_bin_time_left' = 0 /\ prev_time_stamp' = 0

\* for stat in ...: the locals are set afresh for each counter.  Only
\* real_bin_stat_value keeps what the counter before left in it.
BeginStat ==
    /\ pc = "stat"
    /\ stat' \in todo
    /\ todo' = todo \ {stat'}
    /\ pc' = "time"
    /\ next' = 1
    /\ FreshLocals
    /\ loaded' = 0 /\ emitted' = 0
    /\ UNCHANGED <<args, real_bin_stat_value, scaled_stats>>

\* The while loop runs at the top of an iteration of "for time_stamp in ...",
\* so nothing is poured once the last sample has been read.
Pouring == pc = "time" /\ next <= Len(time_stamps) /\ real_bin_time_left > 0

\* Mutants of NewEvenBin: the next label is always a second on; the value is
\* carried into the next bin; the label stays.
NewEvenBinASecondOn ==
    /\ even_bin' = even_bin + OneSecond
    /\ even_bin_time_left' = bin_size /\ even_bin_stat_value' = 0
NewEvenBinKeepingValue ==
    /\ even_bin' = even_bin + bin_size /\ even_bin_time_left' = bin_size
    /\ even_bin_stat_value' = even_bin_stat_value
NewEvenBinSameLabel ==
    /\ even_bin' = even_bin
    /\ even_bin_time_left' = bin_size /\ even_bin_stat_value' = 0

NewEvenBin ==
    /\ even_bin' = even_bin + bin_size
    /\ even_bin_time_left' = bin_size /\ even_bin_stat_value' = 0

\* The real bin outlasts the even bin: the even bin is filled and recorded.
FillEvenBin ==
    /\ Pouring
    /\ even_bin_time_left < real_bin_time_left
    /\ LET left  == real_bin_time_left - even_bin_time_left
           rest  == Share(left, real_bin_time_left, real_bin_stat_value)
           value == even_bin_stat_value + (real_bin_stat_value - rest)
       IN  /\ scaled_stats' = Record(even_bin + StartTime, stat, value)
           /\ real_bin_time_left' = left
           /\ real_bin_stat_value' = rest
           /\ emitted' = emitted + value
    /\ NewEvenBin
    /\ UNCHANGED <<args, loop, prev_time_stamp, loaded>>

\* The even bin has room for what is left of the real bin.
DrainRealBin ==
    /\ Pouring
    /\ ~ even_bin_time_left < real_bin_time_left
    /\ even_bin_stat_value' = even_bin_stat_value + real_bin_stat_value
    /\ even_bin_time_left' = even_bin_time_left - real_bin_time_left
    /\ real_bin_time_left' = 0
    /\ UNCHANGED <<args, loop, even_bin, real_bin_stat_value, prev_time_stamp,
                   scaled_stats, history>>

\* The real bin is empty: the sample of this time stamp becomes the real bin.
LoadSample ==
    /\ pc = "time" /\ next <= Len(time_stamps)
    /\ ~ real_bin_time_left > 0
    /\ real_bin_stat_value' = samples[stat][next]
    /\ real_bin_time_left' = time_stamps[next] - prev_time_stamp
    /\ prev_time_stamp' = time_stamps[next]
    /\ next' = next + 1
    /\ loaded' = loaded + samples[stat][next]
    /\ UNCHANGED <<args, pc, todo, stat, evenBin, scaled_stats, emitted>>

\* The time stamps are used up; the next counter, or the end.
EndStat ==
    /\ pc = "time" /\ next > Len(time_stamps)
    /\ pc' = IF todo = {} THEN "done" ELSE "stat"
    /\ UNCHANGED <<args, todo, stat, next, evenBin, realBin, scaled_stats, history>>

Terminated == pc = "done" /\ UNCHANGED vars

Next ==
    \/ BeginStat \/ FillEvenBin \/ DrainRealBin \/ LoadSample \/ EndStat
    \/ Terminated

Spec == Init /\ [][Next]_vars
-----------------------------------------------------------------------------
TypeOK ==
    /\ bin_size \in Nat \ {0}
    /\ time_stamps \in Seq(Nat \ {0}) /\ Increasing(time_stamps)
    /\ samples \in [Stats -> [1 .. Len(time_stamps) -> Int]]
    /\ pc \in {"stat", "time", "done"}
    /\ todo \subseteq Stats
    /\ stat \in Stats
    /\ next \in Nat \ {0}
    /\ even_bin \in Nat
    /\ even_bin_time_left \in 0 .. bin_size
    /\ even_bin_stat_value \in Int
    /\ real_bin_time_left \in Nat
    /\ real_bin_stat_value \in Int
    /\ prev_time_stamp \in Nat
    /\ loaded \in Int
    /\ emitted \in Int

(* No time is lost or counted twice: the bins recorded, the part of the    *)
(* open even bin that is filled and the rest of the real bin add up to the *)
(* time stamp read last.                                                   *)
TimeConserved ==
    pc = "time" =>
        (even_bin - OneSecond) + (bin_size - even_bin_time_left)
            + real_bin_time_left = prev_time_stamp

(* No event is lost or counted twice: what the bins recorded, the open     *)
(* even bin and the rest of the real bin hold add up to the samples read.  *)
(* real_bin_stat_value counts only while its bin has time left: the code   *)
(* leaves the value behind when it empties the bin.                        *)
ValueConserved ==
    pc = "time" =>
        emitted + even_bin_stat_value
            + (IF real_bin_time_left > 0 THEN real_bin_stat_value ELSE 0) = loaded

\* The rate of s in tick t (the time from t - 1 to t), by the time stamps alone.
RateAt(s, t) ==
    LET k == CHOOSE j \in 1 .. Len(time_stamps) :
                /\ t <= time_stamps[j]
                /\ time_stamps[j] - Covered(time_stamps, j) < t
    IN  samples[s][k] \div Covered(time_stamps, k)

\* The events of s between two times, each tick's apart.
Events(s, from, to) == UNION {{t} \X (1 .. RateAt(s, t)) : t \in from + 1 .. to}

BinStart(label) == label - StartTime - OneSecond

\* The label of bin n, the labels of s, and how far the samples are poured.
BinLabel(n) == StartTime + OneSecond + (n - 1) * bin_size
BinsOf(s) == {label \in DOMAIN scaled_stats : s \in DOMAIN scaled_stats[label]}
Poured == IF Len(time_stamps) > 1 THEN time_stamps[Len(time_stamps) - 1] ELSE 0

Finished == (Stats \ todo) \ (IF pc = "time" THEN {stat} ELSE {})

(* Every bin recorded holds exactly the events of its own time span,       *)
(* however the samples straddle it: the property the histogram is for.     *)
(* And which bins a finished counter has: bin n, the one that ends at      *)
(* n * bin_size, is there exactly when the last sample but one was taken   *)
(* after its end.  The time stamps decide it, not the counter, so every    *)
(* counter has the same bins, which process_cntrs and generate_mcpat       *)
(* rely on when they index stats[core][time_stamp][stat].  The last sample *)
(* and a bin that ends exactly with the last sample but one never show.    *)
BinsHoldTheirEvents ==
    /\ \A label \in DOMAIN scaled_stats :
         \A s \in DOMAIN scaled_stats[label] :
            scaled_stats[label][s] =
                Cardinality(Events(s, BinStart(label), BinStart(label) + bin_size))
    /\ \A s \in Finished :
        BinsOf(s) = {BinLabel(n) : n \in {m \in 1 .. Poured : m * bin_size < Poured}}

(* A recorded value is final: no later sample, bin or counter rewrites it. *)
RecordedIsFinal ==
    [][ \A label \in DOMAIN scaled_stats :
            /\ label \in DOMAIN scaled_stats'
            /\ \A s \in DOMAIN scaled_stats[label] :
                 /\ s \in DOMAIN scaled_stats'[label]
                 /\ scaled_stats'[label][s] = scaled_stats[label][s] ]_vars
=============================================================================
