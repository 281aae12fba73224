--------------------------- MODULE ArrayOptimize ---------------------------
(***************************************************************************)
(* ArrayST::optimize_array of fast_mcpat/array.cc: McPAT asks cacti for an *)
(* array that meets a throughput and a latency.  The first search is for   *)
(* the energy-delay product; if it misses, searches for timing follow with *)
(* an ever tighter bound on the cycle time (cycle_time_dev), until one     *)
(* meets both constraints or the bound is used up.  Of the solutions kept  *)
(* the one with the least dynamic energy becomes the result.               *)
(*                                                                         *)
(* A search is what solve promises (CactiSolve's FirstLeastPicked): the    *)
(* first least costly organization within the deviation.  For a            *)
(* set-associative cache the same deviation filters the tag arrays first,  *)
(* and the organizations are the data arrays with the one that is left:    *)
(* others, with other minima, in each search.  Leakage and area, which the *)
(* cost weighs like the dynamic energy, and the other deviations, which    *)
(* are a million percent here, are left out.  With power gating a result   *)
(* owns memory, its uca_pg_reference (a handle here), which only cleanup   *)
(* frees.                                                                  *)
(***************************************************************************)
EXTENDS Integers, Sequences, FiniteSets

CONSTANTS Arrays,      \* data and tag arrays cacti may find, sorted
          throughput, latency,
          Big          \* BIGNUM

cycle_time_dev_start == 100
optimization_end     == 20
area_efficiency_threshold == 20

\* mem_array, and uca_org_t with the efficiency of its data array
Organization == [cycle : Nat \ {0}, access : Nat \ {0}, dynamic : 1 .. Big - 1,
                 efficiency : Nat]

ASSUME ArrayAssumption ==
    /\ throughput \in Nat \ {0} /\ latency \in Nat \ {0}
    /\ Big \in Nat \ {0}
    /\ \A a \in Arrays :
          /\ a.data \in Seq(Organization) /\ a.data # <<>>
          /\ a.tag \in Seq(Organization)
          /\ \A m \in DOMAIN a.tag, n \in DOMAIN a.data :
                a.tag[m].dynamic + a.data[n].dynamic < Big

VARIABLES
    list, tags,       \* its data and tag arrays; tags = <<>> if it needs no tag array
    access_mode,      \* of a cache: 0 normal, 1 sequential, 2 fast
    first,            \* what its first search picks
    assoc,            \* 0 for a content-addressable or fully associative array
    power_gating, opt, \* opt: opt_for_clk, opt_local and an array large enough
    pc, cycle_time_dev,
    throughput_overflow, latency_overflow,
    local_result, valid,
    candidate_solutions, candidate, min_dynamic_energy,
    warned,           \* the constraints warned of
    live, twice,      \* memory not freed; something was freed twice
    found             \* history: the organizations found in the loop

input  == <<list, tags, access_mode, first, assoc, power_gating, opt>>
flags  == <<throughput_overflow, latency_overflow>>
choice == <<candidate_solutions, candidate, min_dynamic_energy>>
memory == <<live, twice>>
vars   == <<input, pc, cycle_time_dev, flags, local_result, valid, choice, warned,
            memory, found>>

NoHandle == 0

LeastOf(S)    == CHOOSE x \in S : \A y \in S : x <= y
GreatestOf(S) == CHOOSE x \in S : \A y \in S : y <= x
Max2(a, b)    == IF a > b THEN a ELSE b

\* find_cyc, find_delay and find_energy of a tag and a data array.  In a normal
\* access one unit of the data array's delay follows its output driver and the
\* way select costs one unit after the tag.
Combined(tag, data) ==
    [cycle |-> Max2(tag.cycle, data.cycle),
     access |-> CASE access_mode = 2 -> Max2(tag.access, data.access)
                  [] access_mode = 1 -> tag.access + data.access
                  [] OTHER -> Max2(tag.access + 1, data.access - 1) + 1,
     dynamic |-> tag.dynamic + data.dynamic,
     efficiency |-> data.efficiency]

\* The energy-delay search may pick any.
Firsts ==
    IF tags = <<>> THEN {list[i] : i \in DOMAIN list}
    ELSE {Combined(tags[t], list[i]) : t \in DOMAIN tags, i \in DOMAIN list}

Init ==
    /\ \E a \in Arrays : list = a.data /\ tags = a.tag
    /\ access_mode \in 0 .. 2 /\ (tags = <<>> => access_mode = 0)
    /\ first \in Firsts
    /\ assoc \in {0, 1} /\ opt \in BOOLEAN
    /\ (tags # <<>> => assoc # 0)
    \* the constructor turns power gating off for these arrays
    /\ power_gating \in BOOLEAN /\ (assoc = 0 => ~ power_gating)
    /\ pc = "first" /\ cycle_time_dev = cycle_time_dev_start
    /\ throughput_overflow = TRUE /\ latency_overflow = TRUE
    /\ local_result = [org |-> first, handle |-> NoHandle] /\ valid = FALSE
    /\ candidate_solutions = <<>> /\ candidate = 1 /\ min_dynamic_energy = Big
    /\ warned = {}
    /\ live = {} /\ twice = FALSE
    /\ found = {}
-----------------------------------------------------------------------------
(* The search for timing. *)

Least(l, metric) == LeastOf({l[i][metric] : i \in DOMAIN l})

\* (cycle_time - min_cyc) * 100 / min_cyc <= dev
WithinDev(l, i, dev) == (l[i].cycle - Least(l, "cycle")) * 100 <= dev * Least(l, "cycle")

\* 100 * delay + 1000 * cycle time + 10 * dynamic energy, each over its least
\* value; times the three least values.
Cost(l, i) ==
    LET d == Least(l, "access")  c == Least(l, "cycle")  e == Least(l, "dynamic")
    IN  100 * l[i].access * c * e + 1000 * l[i].cycle * d * e
          + 10 * l[i].dynamic * d * c

\* The least costly within the deviation.
Within(l, dev) == {i \in DOMAIN l : WithinDev(l, i, dev)}
Picks(l, dev)  == {i \in Within(l, dev) : \A j \in Within(l, dev) : Cost(l, i) <= Cost(l, j)}

\* filter_tag_arr walks the list from its back and keeps the last of them.
TagArray(dev) == tags[GreatestOf(Picks(tags, dev))]

Organizations(dev) ==
    IF tags = <<>> THEN list
    ELSE LET tag == TagArray(dev) IN [i \in DOMAIN list |-> Combined(tag, list[i])]

\* find_optimal_uca keeps the first.
PickOf(l, dev) == l[LeastOf(Picks(l, dev))]
Search(dev)    == PickOf(Organizations(dev), dev)

MeetsThroughput(o) == o.cycle <= throughput
MeetsLatency(o)    == o.access <= latency
Meets(o)           == MeetsThroughput(o) /\ MeetsLatency(o)

\* compute_base_power: with power gating update_pg allocates the reference.
\* Its number is that of the search: 1, then cycle_time_dev.
Handle(n) == IF power_gating THEN n ELSE NoHandle
Allocated(h) == IF h = NoHandle THEN {} ELSE {h}

\* cleanup frees what the result owns; its mutant forgets to.
KeepHandle(h, old) == live' = old /\ twice' = twice
Cleanup(h, old) ==
    /\ live' = old \ {h}
    /\ twice' = (twice \/ (h # NoHandle /\ h \notin old))
-----------------------------------------------------------------------------
(* optimize_array *)

First ==
    /\ pc = "first"
    /\ LET h == Handle(1)
       IN  local_result' = [org |-> first, handle |-> h] /\ live' = live \cup Allocated(h)
    /\ throughput_overflow' = ~ MeetsThroughput(first)
    /\ latency_overflow' = ~ MeetsLatency(first)
    /\ pc' = IF opt THEN "prepare" ELSE "done"
    /\ UNCHANGED <<input, cycle_time_dev, valid, choice, warned, twice, found>>

\* A miss: the first result is cleaned up and both flags are set again.
Prepare ==
    /\ pc = "prepare"
    /\ IF throughput_overflow \/ latency_overflow
       THEN /\ throughput_overflow' = TRUE /\ latency_overflow' = TRUE
            /\ Cleanup(local_result.handle, live)
            /\ local_result' = [local_result EXCEPT !.handle = NoHandle]
       ELSE UNCHANGED <<flags, local_result, memory>>
    /\ pc' = "loop"
    /\ UNCHANGED <<input, cycle_time_dev, valid, choice, warned, found>>

\* Mutant of Looping: one search more.
LoopingToTheEnd ==
    (throughput_overflow \/ latency_overflow) /\ cycle_time_dev >= optimization_end
Looping == (throughput_overflow \/ latency_overflow) /\ cycle_time_dev > optimization_end

\* A solution is kept if it meets both constraints, or for its low area
\* efficiency if the array is content-addressable.  The mutant of Kept keeps
\* what meets one of them.
KeptForEither(o) == MeetsThroughput(o) \/ MeetsLatency(o)
Kept(o) ==
    \/ Meets(o)
    \/ o.efficiency < area_efficiency_threshold /\ assoc = 0

Tighter(dev) == dev - 10

\* cycle_time_dev > optimization_end, and its mutant with >=.
NotLastButOne(dev) == dev >= optimization_end
NotLast(dev)       == dev > optimization_end

\* One iteration.  A solution not kept may clear one of the two flags, and
\* is cleaned up unless it is the last.
Iterate ==
    /\ pc = "loop" /\ Looping
    /\ cycle_time_dev' = Tighter(cycle_time_dev)
    /\ LET o   == Search(cycle_time_dev)
           h   == Handle(cycle_time_dev)
           res == [org |-> o, handle |-> h]
           all == live \cup Allocated(h)
       IN  /\ found' = found \cup {o}
           /\ IF Kept(o)
              THEN /\ candidate_solutions' = Append(candidate_solutions, res)
                   /\ throughput_overflow' = (throughput_overflow /\ ~ Meets(o))
                   /\ latency_overflow' = (latency_overflow /\ ~ Meets(o))
                   /\ local_result' = res
                   /\ live' = all /\ twice' = twice
              ELSE /\ throughput_overflow' = (throughput_overflow /\ ~ MeetsThroughput(o))
                   /\ latency_overflow' = (latency_overflow /\ ~ MeetsLatency(o))
                   /\ IF NotLast(Tighter(cycle_time_dev))
                      THEN Cleanup(h, all) /\ local_result' = [res EXCEPT !.handle = NoHandle]
                      ELSE live' = all /\ twice' = twice /\ local_result' = res
                   /\ UNCHANGED candidate_solutions
    /\ UNCHANGED <<input, pc, valid, candidate, min_dynamic_energy, warned>>

\* The warnings; then valid is set if there are candidates to choose from.
Warn ==
    /\ pc = "loop" /\ ~ Looping
    /\ warned' = IF assoc = 0 THEN {}
                 ELSE {c \in {"throughput", "latency"} :
                         \/ c = "throughput" /\ throughput_overflow
                         \/ c = "latency" /\ latency_overflow}
    /\ valid' = (candidate_solutions # <<>>)
    /\ pc' = "choose"
    /\ UNCHANGED <<input, cycle_time_dev, flags, local_result, choice, memory, found>>

Candidate == candidate_solutions[candidate]

\* min_dynamic_energy > dynamic
Cheaper(o) == min_dynamic_energy > o.dynamic

Choose ==
    /\ pc = "choose" /\ candidate <= Len(candidate_solutions)
    /\ IF Cheaper(Candidate.org)
       THEN /\ min_dynamic_energy' = Candidate.org.dynamic
            /\ local_result' = Candidate
            /\ UNCHANGED <<candidate_solutions, memory>>
       ELSE /\ Cleanup(Candidate.handle, live)
            /\ candidate_solutions' =
                 [candidate_solutions EXCEPT ![candidate].handle = NoHandle]
            /\ UNCHANGED <<min_dynamic_energy, local_result>>
    /\ candidate' = candidate + 1
    /\ UNCHANGED <<input, pc, cycle_time_dev, flags, valid, warned, found>>

\* The list is cleared, which frees nothing, and the result is scaled.
Finish ==
    /\ pc = "choose" /\ candidate > Len(candidate_solutions)
    /\ candidate_solutions' = <<>>
    /\ pc' = "done"
    /\ UNCHANGED <<input, cycle_time_dev, flags, local_result, valid, candidate,
                   min_dynamic_energy, warned, memory, found>>

Terminated == pc = "done" /\ UNCHANGED vars

Next == First \/ Prepare \/ Iterate \/ Warn \/ Choose \/ Finish \/ Terminated

Spec == Init /\ [][Next]_vars
-----------------------------------------------------------------------------
Results == [org : Organization, handle : Nat]

TypeOK ==
    /\ list \in Seq(Organization) /\ list # <<>> /\ tags \in Seq(Organization)
    /\ access_mode \in 0 .. 2 /\ first \in Organization
    /\ assoc \in {0, 1} /\ power_gating \in BOOLEAN /\ opt \in BOOLEAN
    /\ pc \in {"first", "prepare", "loop", "choose", "done"}
    /\ cycle_time_dev \in optimization_end .. cycle_time_dev_start
    /\ throughput_overflow \in BOOLEAN /\ latency_overflow \in BOOLEAN
    /\ local_result \in Results /\ valid \in BOOLEAN
    /\ candidate_solutions \in Seq(Results)
    /\ candidate \in Nat \ {0} /\ min_dynamic_energy \in 1 .. Big
    /\ warned \subseteq {"throughput", "latency"}
    /\ live \subseteq Nat /\ twice \in BOOLEAN
    /\ found \subseteq Organization

(* A solution found is not lost: if a search met both constraints, the     *)
(* result of a set-associative array meets them, it is valid, and nothing  *)
(* is warned of; a content-addressable array gets the one with the least   *)
(* dynamic energy of all its solutions kept.                               *)
FoundIsReturned ==
    (pc = "done" /\ \E o \in found : Meets(o)) =>
        /\ valid /\ warned = {}
        /\ assoc # 0 => Meets(local_result.org)
        /\ assoc = 0 => /\ local_result.org \in found
                        /\ \A o \in found : Kept(o) =>
                             local_result.org.dynamic <= o.dynamic

(* "if no satisfiable solution is found, the most aggressive one is left", *)
(* "a result with best timing found": when every search was made in vain,  *)
(* the result of an array without a tag array has the least cycle time of  *)
(* them all, for each tightening of the bound can only make it found       *)
(* faster.  Of a cache this is not so: the bound filters its tag arrays    *)
(* too, so the last search may leave a slower result.  In either case the  *)
(* result left is whole.                                                   *)
BestTimingLeft ==
    (pc = "done" /\ found # {} /\ ~ valid /\ cycle_time_dev = optimization_end) =>
        /\ tags = <<>> => \A o \in found : local_result.org.cycle <= o.cycle
        /\ local_result.handle # NoHandle <=> power_gating

(* Each result's memory is freed once and in time: what is not freed       *)
(* belongs to the result or to a candidate, and the result's own is not    *)
(* freed.                                                                  *)
MemoryOwned ==
    /\ ~ twice
    /\ live = (Allocated(local_result.handle) \cup
                 UNION {Allocated(candidate_solutions[n].handle) :
                          n \in DOMAIN candidate_solutions})

(* "For array structures except CAM and FA, Give warning but still provide *)
(* a result with best timing found": a result of the optimization that     *)
(* misses a constraint is warned of.                                       *)
MissIsWarned ==
    (pc = "done" /\ opt /\ assoc # 0 /\ ~ Meets(local_result.org)) => warned # {}
=============================================================================
