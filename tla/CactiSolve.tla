----------------------------- MODULE CactiSolve -----------------------------
(***************************************************************************)
(* solve of fast_mcpat/cacti/Ucache.cc: the search for the organization of *)
(* one memory array.  For a cache the tag array is searched first, then,   *)
(* for every memory, the data array.  Each search hands the partitions to  *)
(* the NThreads threads of calc_time_mt_wrapper, thread t taking the       *)
(* iterations t, t + NThreads, ...; the main thread joins them, merges     *)
(* their lists and their minima, filters the lists, combines tag and data  *)
(* arrays and lets find_optimal_uca walk the combinations.                 *)
(*                                                                         *)
(* An array has a delay and a dynamic energy; the code treats leakage,     *)
(* cycle time and area the way it treats these.  What calculate_time       *)
(* computes for a partition is an input (table).  The two Ndsam levels are *)
(* one loop, Nspd runs over 1 .. NSpd.  Costs are compared after           *)
(* multiplying by the minima they are divided by, so they stay integers.   *)
(***************************************************************************)
EXTENDS Integers, Sequences, FiniteSets, SequencesExt

CONSTANTS NThreads,      \* NTHREADS of the build
          NSpd, NIter, NSam,     \* sizes of the loops over Nspd, iter and Ndsam
          WtMin, WtMax,  \* the wire types searched: wt_min .. wt_max
          Big,           \* BIGNUM: above every delay, energy and cost
          TagTables, DataTables, \* what calculate_time may find
          Configs,       \* the memories asked for
          Forced,        \* the partition of force_cache_config
          DelayWt, DynWt, DelayDev, DynDev   \* weights and allowed deviations

NoResult == [delay |-> Big, dyn |-> Big]
Invalid  == [delay |-> 0, dyn |-> 0]       \* dyn_p.is_valid == false

Threads    == 0 .. NThreads - 1
Partitions == [spd : 1 .. NSpd, iter : 0 .. NIter - 1, sam : 1 .. NSam]
Metrics    == [delay : 1 .. Big - 1, dyn : 1 .. Big - 1]

ASSUME SolveAssumption ==
    /\ NThreads \in Nat \ {0} /\ NSpd \in Nat \ {0} /\ NSam \in Nat \ {0}
    /\ NIter \in Nat /\ NThreads <= NIter
    /\ WtMin \in Nat /\ WtMax \in Nat /\ WtMin <= WtMax
    /\ Big \in Nat \ {0, 1}
    /\ TagTables \subseteq [Partitions -> Metrics \cup {Invalid}]
    /\ DataTables \subseteq [Partitions -> Metrics \cup {Invalid}]
    /\ Forced \in Partitions
    /\ Configs \subseteq [is_cache : BOOLEAN, ed : 0 .. 2, force : BOOLEAN,
                          access : {"fast", "sequential", "normal"}]
    /\ DelayWt \in Nat /\ DynWt \in Nat /\ DelayDev \in Nat /\ DynDev \in Nat

VARIABLES
    cfg, table,             \* g_ip, and table[is_tag][partition]
    pc, is_tag,             \* the main thread and the phase it is in
    created, joined,        \* its loops over pthread_create and pthread_join
    tpc, pos, arr, res,     \* threads: state, loop variables, list, minima
    tag_arr, data_arr,      \* the merged lists
    d_min, t_min,           \* the merged minima
    ulist, niter, min_cost, cache_min, fin_res   \* find_optimal_uca

input    == <<cfg, table>>
main     == <<pc, is_tag, created, joined>>
threads  == <<tpc, pos, arr, res>>
lists    == <<tag_arr, data_arr>>
minima   == <<d_min, t_min>>
choice   == <<ulist, niter, min_cost, cache_min, fin_res>>
vars     == <<input, main, threads, lists, minima, choice>>

\* pos of a thread outside its loops, and fin_res before there is a result.
Place(spd, wr, iter, sam) == [spd |-> spd, wr |-> wr, iter |-> iter, sam |-> sam]
NoPos == Place(0, 0, 0, 0)
None  == [tag |-> NoPos, data |-> NoPos, delay |-> 0, dyn |-> 0]

Partition(e) == [spd |-> e.spd, iter |-> e.iter, sam |-> e.sam]

Lesser(a, b) == IF a > b THEN b ELSE a

\* Mutant of Update: the energy is left out.
UpdateDelayOnly(min, m) == [min EXCEPT !.delay = Lesser(min.delay, m.delay)]

\* min_values_t::update_min_values, all four overloads.
Update(min, m) == [delay |-> Lesser(min.delay, m.delay), dyn |-> Lesser(min.dyn, m.dyn)]

\* The entry a thread's list gets: its place in the loops and its metrics.
Entry(t, p, m) == [tid |-> t, spd |-> p.spd, wr |-> p.wr, iter |-> p.iter,
                   sam |-> p.sam, delay |-> m.delay, dyn |-> m.dyn]

Init ==
    /\ cfg \in Configs
    /\ \E tt \in TagTables, dt \in DataTables :
          /\ table = [b \in BOOLEAN |-> IF b THEN tt ELSE dt]
          \* without a tag array its table does not matter
          /\ cfg.is_cache \/ tt = CHOOSE u \in TagTables : TRUE
    /\ pc = "start" /\ is_tag = FALSE /\ created = 0 /\ joined = 0
    /\ tpc = [t \in Threads |-> "none"]
    /\ pos = [t \in Threads |-> NoPos]
    /\ arr = [t \in Threads |-> {}]
    /\ res = [b \in BOOLEAN |-> [t \in Threads |-> NoResult]]
    /\ tag_arr = {} /\ data_arr = {}
    /\ d_min = NoResult /\ t_min = NoResult
    /\ ulist = <<>> /\ niter = 1 /\ min_cost = Big /\ cache_min = NoResult /\ fin_res = None
-----------------------------------------------------------------------------
(* The main thread up to the merged minima. *)

BeginPhase ==
    /\ pc = "start"
    /\ is_tag' = cfg.is_cache
    /\ pc' = "create" /\ created' = 0 /\ joined' = 0
    /\ UNCHANGED <<input, threads, lists, minima, choice>>

\* pthread_create; the thread clears its lists and enters its loops.
Create ==
    /\ pc = "create" /\ created < NThreads
    /\ created' = created + 1
    /\ tpc' = [tpc EXCEPT ![created] = "run"]
    /\ arr' = [arr EXCEPT ![created] = {}]
    /\ pos' = [pos EXCEPT ![created] = Place(1, WtMin, created, 1)]
    /\ UNCHANGED <<input, pc, is_tag, joined, res, lists, minima, choice>>

AllCreated ==
    /\ pc = "create" /\ created = NThreads
    /\ pc' = "join"
    /\ UNCHANGED <<input, is_tag, created, joined, threads, lists, minima, choice>>

\* pthread_join, in the order of the threads.
Join ==
    /\ pc = "join" /\ joined < NThreads
    /\ tpc[joined] = "exited"
    /\ joined' = joined + 1
    /\ UNCHANGED <<input, pc, is_tag, created, threads, lists, minima, choice>>

Merged == UNION {arr[t] : t \in Threads}

\* list::merge moves the elements over and leaves the threads' lists empty.
Emptied == arr' = [t \in Threads |-> {}]

\* After the tag phase: merge the lists and begin the data phase.
MergeTags ==
    /\ pc = "join" /\ joined = NThreads /\ is_tag
    /\ tag_arr' = Merged /\ Emptied
    /\ is_tag' = FALSE
    /\ pc' = "create" /\ created' = 0 /\ joined' = 0
    /\ UNCHANGED <<input, tpc, pos, res, data_arr, minima, choice>>

\* After the data phase: merge the lists; joined counts the next loop too.
MergeData ==
    /\ pc = "join" /\ joined = NThreads /\ ~ is_tag
    /\ data_arr' = Merged /\ Emptied
    /\ pc' = "minima" /\ joined' = 0
    /\ UNCHANGED <<input, is_tag, created, tpc, pos, res, tag_arr, minima, choice>>

\* d_min and t_min take in the minima of one thread after another.
MergeMinima ==
    /\ pc = "minima" /\ joined < NThreads
    /\ d_min' = Update(d_min, res[FALSE][joined])
    /\ t_min' = Update(t_min, res[TRUE][joined])
    /\ joined' = joined + 1
    /\ UNCHANGED <<input, pc, is_tag, created, threads, lists, choice>>
-----------------------------------------------------------------------------
(* calc_time_mt_wrapper. *)

ForcedHere == cfg.force /\ ~ is_tag

\* iter += nthreads, and its mutants iter += tid and iter++.
StrideOfTid(t) == t
StrideOne(t)   == 1
Stride(t) == NThreads

\* iter < niter after the stride, and its mutant with <=.
OneIterationMore(t, p) == p.iter + Stride(t) <= NIter
MoreIterations(t, p)   == p.iter + Stride(t) < NIter

\* The five nested loops: the next place, or NoPos after the last.  A forced
\* configuration sets every loop variable to its end after one evaluation.
NextPos(t, p) ==
    IF ForcedHere THEN NoPos
    ELSE IF p.sam < NSam         THEN Place(p.spd, p.wr, p.iter, p.sam + 1)
    ELSE IF MoreIterations(t, p) THEN Place(p.spd, p.wr, p.iter + Stride(t), 1)
    ELSE IF p.wr < WtMax         THEN Place(p.spd, p.wr + 1, t, 1)
    ELSE IF p.spd < NSpd         THEN Place(p.spd + 1, WtMin, t, 1)
    ELSE NoPos

\* The place evaluated: the loop variables, or the forced ones over them.
\* The wire type labels the entry and never reaches calculate_time.
Labelled(p, wr) == Place(p.spd, wr, p.iter, p.sam)
Evaluated(p) == IF ForcedHere THEN Labelled(Forced, WtMin) ELSE p

Evaluate(t) ==
    /\ tpc[t] = "run" /\ pos[t] # NoPos
    /\ LET p == Evaluated(pos[t])
           m == table[is_tag][Partition(p)]
       IN  IF m = Invalid THEN UNCHANGED <<arr, res>>
           ELSE /\ arr' = [arr EXCEPT ![t] = @ \cup {Entry(t, p, m)}]
                /\ res' = [res EXCEPT ![is_tag][t] = Update(@, m)]
    /\ pos' = [pos EXCEPT ![t] = NextPos(t, pos[t])]
    /\ UNCHANGED <<input, main, tpc, lists, minima, choice>>

\* pthread_exit, after the list's unused last element is taken off.
Exit(t) ==
    /\ tpc[t] = "run" /\ pos[t] = NoPos
    /\ tpc' = [tpc EXCEPT ![t] = "exited"]
    /\ UNCHANGED <<input, main, pos, arr, res, lists, minima, choice>>
-----------------------------------------------------------------------------
(* Filters, combinations and choice. *)

\* (metric - min) * 100 / min > dev
Exceeds(metric, min, dev) == (metric - min) * 100 > dev * min

\* check_mem_org and check_uca_org.
Within(m, min) ==
    /\ ~ Exceeds(m.delay, min.delay, DelayDev)
    /\ ~ Exceeds(m.dyn, min.dyn, DynDev)

\* The weighted cost, times min.delay * min.dyn.
Weighted(m, min) == DelayWt * m.delay * min.dyn + DynWt * m.dyn * min.delay

\* The energy-delay product for ed = 1, with the delay squared for ed = 2,
\* times the minima; the weighted cost otherwise.
Cost(m, min) ==
    CASE cfg.ed = 1 -> m.delay * m.dyn
      [] cfg.ed = 2 -> m.delay * m.delay * m.dyn
      [] OTHER -> Weighted(m, min)

\* mem_array::lt after a stable sort: copies for the wire types stay in order.
Before(a, b) ==
    \/ a.spd < b.spd
    \/ a.spd = b.spd /\ a.iter < b.iter
    \/ a.spd = b.spd /\ a.iter = b.iter /\ a.sam < b.sam
    \/ Partition(a) = Partition(b) /\ (a.wr < b.wr \/ (a.wr = b.wr /\ a.tid < b.tid))
Sorted(S) ==
    [i \in 1 .. Cardinality(S) |->
        CHOOSE e \in S : Cardinality({f \in S : Before(f, e)}) = i - 1]

\* filter_data_arr: drop what is more than half above both minima.
FilteredData(datas) ==
    {e \in datas : ~ ( /\ 2 * (e.delay - d_min.delay) > d_min.delay
                       /\ 2 * (e.dyn - d_min.dyn) > d_min.dyn )}

\* filter_tag_arr: from the back of the list, the strictly cheapest.
CheapTags(tags) ==
    LET within == {e \in tags : Within(e, t_min)}
    IN  {e \in within : \A f \in within : Weighted(e, t_min) <= Weighted(f, t_min)}
FilteredTag(tags) ==
    CHOOSE e \in CheapTags(tags) : \A f \in CheapTags(tags) : f = e \/ Before(f, e)

Max2(a, b) == IF a > b THEN a ELSE b

\* find_delay and find_energy of a tag and a data array.  In a normal access
\* one unit of the data array's delay follows its output driver and the way
\* select costs one unit after the tag.
Combined(tag, data) ==
    [tag |-> tag, data |-> data, dyn |-> data.dyn + tag.dyn,
     delay |-> CASE cfg.access = "fast" -> Max2(tag.delay, data.delay)
                 [] cfg.access = "sequential" -> tag.delay + data.delay
                 [] OTHER -> Max2(tag.delay + 1, data.delay - 1) + 1]
Alone(data) == [tag |-> NoPos, data |-> data, dyn |-> data.dyn, delay |-> data.delay]

\* exit(0) or exit(1) with a message on standard output.
Fail == pc' = "exit" /\ UNCHANGED <<lists, choice>>

LeastOf(S) == CHOOSE x \in S : \A y \in S : x <= y

\* The combinations in the order of data_arr, and the minima over them.
Combine ==
    LET datas == Sorted(FilteredData(data_arr))
        list  == [i \in DOMAIN datas |->
                    IF cfg.is_cache THEN Combined(FilteredTag(tag_arr), datas[i])
                                    ELSE Alone(datas[i])]
    IN  /\ ulist' = list
        /\ cache_min' = [delay |-> LeastOf({list[i].delay : i \in DOMAIN list}),
                          dyn |-> LeastOf({list[i].dyn : i \in DOMAIN list})]
        /\ data_arr' = FilteredData(data_arr)
        /\ tag_arr' = {}

FilterAndCombine ==
    /\ pc = "minima" /\ joined = NThreads
    /\ \/ data_arr = {} /\ Fail
       \/ /\ data_arr # {} /\ cfg.is_cache /\ CheapTags(tag_arr) = {} /\ Fail
       \/ /\ data_arr # {} /\ (cfg.is_cache => CheapTags(tag_arr) # {})
          /\ IF FilteredData(data_arr) = {} THEN Fail
             ELSE /\ Combine
                  /\ pc' = "choose"
                  /\ UNCHANGED <<niter, min_cost, fin_res>>
    /\ UNCHANGED <<input, is_tag, created, joined, threads, minima>>

\* min_cost > cost, and its mutant with >=.
NotDearer(u) == min_cost >= Cost(u, cache_min)
Cheaper(u)   == min_cost > Cost(u, cache_min)

AtEnd == niter > Len(ulist)

Take == min_cost' = Cost(ulist[niter], cache_min) /\ fin_res' = ulist[niter]

\* niter = ulist.erase(niter); if (niter != ulist.begin()) niter--; niter++.
\* After the first element is erased the iterator stands on the new first one
\* and the loop's ++ passes over it.
EraseAndStep ==
    /\ ulist' = RemoveAt(ulist, niter)
    /\ niter' = IF niter = 1 THEN 2 ELSE niter

Examine ==
    /\ pc = "choose" /\ ~ AtEnd
    /\ LET u == ulist[niter]
       IN  IF cfg.ed \in {1, 2}
           THEN /\ IF Cheaper(u) THEN Take ELSE UNCHANGED <<min_cost, fin_res>>
                /\ niter' = niter + 1 /\ UNCHANGED ulist
           ELSE \/ /\ Within(u, cache_min) /\ Cheaper(u)
                   /\ Take /\ EraseAndStep
                \/ /\ Within(u, cache_min) /\ ~ Cheaper(u)
                   /\ niter' = niter + 1 /\ UNCHANGED <<ulist, min_cost, fin_res>>
                \/ /\ ~ Within(u, cache_min)
                   /\ EraseAndStep /\ UNCHANGED <<min_cost, fin_res>>
    /\ UNCHANGED <<input, main, threads, lists, minima, cache_min>>

Return ==
    /\ pc = "choose" /\ AtEnd
    /\ pc' = IF min_cost = Big THEN "exit" ELSE "done"
    /\ UNCHANGED <<input, is_tag, created, joined, threads, lists, minima, choice>>

Terminated == pc \in {"done", "exit"} /\ UNCHANGED vars

Main ==
    \/ BeginPhase \/ Create \/ AllCreated \/ Join \/ MergeTags \/ MergeData
    \/ MergeMinima \/ FilterAndCombine \/ Examine \/ Return

Next == Main \/ (\E t \in Threads : Evaluate(t) \/ Exit(t)) \/ Terminated

\* The scheduler runs every thread that can run.
Fairness == WF_vars(Main) /\ \A t \in Threads : WF_vars(Evaluate(t) \/ Exit(t))
Spec == Init /\ [][Next]_vars /\ Fairness
-----------------------------------------------------------------------------
Entries == [tid : Threads, spd : 1 .. NSpd, wr : WtMin .. WtMax, iter : 0 .. NIter - 1,
            sam : 1 .. NSam, delay : 1 .. Big - 1, dyn : 1 .. Big - 1]
Places  == [spd : 1 .. NSpd, wr : WtMin .. WtMax, iter : 0 .. NIter - 1, sam : 1 .. NSam]
Minima  == [delay : 1 .. Big, dyn : 1 .. Big]

TypeOK ==
    /\ cfg \in Configs
    /\ table[TRUE] \in TagTables /\ table[FALSE] \in DataTables
    /\ pc \in {"start", "create", "join", "minima", "choose", "done", "exit"}
    /\ is_tag \in BOOLEAN
    /\ created \in 0 .. NThreads /\ joined \in 0 .. NThreads
    /\ tpc \in [Threads -> {"none", "run", "exited"}]
    /\ pos \in [Threads -> Places \cup {NoPos}]
    /\ arr \in [Threads -> SUBSET Entries]
    /\ res \in [BOOLEAN -> [Threads -> Minima]]
    /\ tag_arr \subseteq Entries /\ data_arr \subseteq Entries
    /\ d_min \in Minima /\ t_min \in Minima

\* The arrays there are, read off the table: what the search is to find.
Arrays(b) ==
    LET valid == {p \in Partitions : table[b][p] # Invalid}
    IN  IF cfg.force /\ ~ b
        THEN {Entry(t, Labelled(Forced, WtMin), table[b][Forced]) :
                t \in {u \in Threads : Forced \in valid}}
        ELSE {Entry(p.iter % NThreads, Labelled(p, w), table[b][p]) :
                p \in valid, w \in WtMin .. WtMax}

(* The threads share the partitions out: once they are joined, the merged  *)
(* lists hold every valid partition once for each wire type, with its own  *)
(* metrics, and nothing else.  (A forced configuration is computed by      *)
(* every thread.)                                                          *)
EveryPartitionOnce ==
    pc = "minima" =>
        data_arr = Arrays(FALSE) /\ (cfg.is_cache => tag_arr = Arrays(TRUE))

\* min is the least delay and the least energy of the arrays of a list.
HasMinima(list, min) ==
    list # {} =>
        /\ \A e \in list : min.delay <= e.delay /\ min.dyn <= e.dyn
        /\ \E e \in list : e.delay = min.delay
        /\ \E e \in list : e.dyn = min.dyn

(* The minima the filters and the costs divide by are those of the arrays  *)
(* found: no array lies below them and, in each metric, some array has     *)
(* them.  Per-thread minima that missed an array would let a deviation be  *)
(* negative and pass any bound.                                            *)
MinimaAreOfTheArrays ==
    (pc = "minima" /\ joined = NThreads) =>
        HasMinima(data_arr, d_min) /\ HasMinima(tag_arr, t_min)

\* The organizations there are to choose from: the one tag array the filter
\* keeps with every data array it keeps, or the data array alone.
Organizations ==
    {IF cfg.is_cache THEN Combined(FilteredTag(Arrays(TRUE)), e) ELSE Alone(e) :
        e \in FilteredData(Arrays(FALSE))}

Allowed(u) == cfg.ed = 0 => Within(u, cache_min)

(* Step 4 of the comment above solve: "Cache model with least cost is      *)
(* picked from sol_list", among those within the deviations asked for.  Of *)
(* equally cheap organizations the first in the order of the partitions is *)
(* picked: the result depends neither on the schedule nor on the number of *)
(* threads, so that it can be stored and reused under its parameters.  The *)
(* search gives up only if there is nothing to return: no data array, no   *)
(* tag array within the deviations, or no organization within them.        *)
FirstLeastPicked ==
    /\ pc = "done" =>
         /\ fin_res \in Organizations /\ Allowed(fin_res)
         /\ \A u \in Organizations : Allowed(u) =>
              \/ Cost(fin_res, cache_min) < Cost(u, cache_min)
              \/ Cost(fin_res, cache_min) = Cost(u, cache_min)
                    /\ (u = fin_res \/ Before(fin_res.data, u.data))
    /\ pc = "exit" =>
         \/ Arrays(FALSE) = {}
         \/ cfg.is_cache /\ CheapTags(Arrays(TRUE)) = {}
         \/ \A u \in Organizations : ~ Allowed(u)

(* The search ends: every thread leaves its loops and is joined.           *)
Terminates == <>(pc \in {"done", "exit"})
=============================================================================
