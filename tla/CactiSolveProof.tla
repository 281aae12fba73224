-------------------------- MODULE CactiSolveProof --------------------------
(***************************************************************************)
(* What the search of solve keeps for any number of threads, any sizes of  *)
(* its loops and any outcome of calculate_time: the types, that the merged *)
(* minima are those of the merged lists, that the threads share out the    *)
(* partitions, and that the organization returned is the first of the      *)
(* cheapest.                                                               *)
(***************************************************************************)
EXTENDS CactiSolve, TLAPS, FiniteSetTheorems, SequenceTheorems

Outcomes == Metrics \cup {Invalid}

\* The assumption in the parts the proofs use.
LEMMA Sizes ==
    /\ NThreads \in Nat \ {0} /\ NSpd \in Nat \ {0} /\ NSam \in Nat \ {0}
    /\ NIter \in Nat /\ NThreads <= NIter
    /\ WtMin \in Nat /\ WtMax \in Nat /\ WtMin <= WtMax
  BY SolveAssumption

LEMMA BigSize == Big \in Nat /\ Big > 1
  BY SolveAssumption

LEMMA Inputs ==
    /\ TagTables \subseteq [Partitions -> Outcomes]
    /\ DataTables \subseteq [Partitions -> Outcomes]
    /\ Forced \in Partitions
    /\ Configs \subseteq [is_cache : BOOLEAN, ed : 0 .. 2, force : BOOLEAN,
                          access : {"fast", "sequential", "normal"}]
  BY SolveAssumption DEF Outcomes

LEMMA PlaceType ==
    ASSUME NEW sp \in 1 .. NSpd, NEW w \in WtMin .. WtMax,
           NEW i \in 0 .. NIter - 1, NEW sm \in 1 .. NSam
    PROVE  Place(sp, w, i, sm) \in Places
  BY DEF Places, Place

\* The loops never leave the partitions they run over.
LEMMA NextPosType ==
    ASSUME NEW t \in Threads, NEW p \in Places
    PROVE  NextPos(t, p) \in Places \cup {NoPos}
  <1>1. /\ p.spd \in 1 .. NSpd /\ p.wr \in WtMin .. WtMax
        /\ p.iter \in 0 .. NIter - 1 /\ p.sam \in 1 .. NSam
    BY DEF Places
  <1>2. /\ t \in 0 .. NIter - 1 /\ 1 \in 1 .. NSam /\ WtMin \in WtMin .. WtMax
    BY Sizes DEF Threads
  <1>3. p.sam < NSam => p.sam + 1 \in 1 .. NSam
    BY Sizes, <1>1
  <1>4. MoreIterations(t, p) => p.iter + Stride(t) \in 0 .. NIter - 1
    BY Sizes, <1>1 DEF MoreIterations, Stride
  <1>5. p.wr < WtMax => p.wr + 1 \in WtMin .. WtMax
    BY Sizes, <1>1
  <1>6. p.spd < NSpd => p.spd + 1 \in 1 .. NSpd
    BY Sizes, <1>1
  <1>7. CASE ForcedHere
    BY <1>7 DEF NextPos
  <1>8. CASE ~ ForcedHere /\ p.sam < NSam
    BY <1>1, <1>3, <1>8, PlaceType DEF NextPos
  <1>9. CASE ~ ForcedHere /\ ~ p.sam < NSam /\ MoreIterations(t, p)
    BY <1>1, <1>2, <1>4, <1>9, PlaceType DEF NextPos
  <1>10. CASE ~ ForcedHere /\ ~ p.sam < NSam /\ ~ MoreIterations(t, p)
    <2>1. CASE p.wr < WtMax
      BY <1>1, <1>2, <1>5, <1>10, <2>1, PlaceType DEF NextPos
    <2>2. CASE ~ p.wr < WtMax /\ p.spd < NSpd
      BY <1>1, <1>2, <1>6, <1>10, <2>2, PlaceType DEF NextPos
    <2>3. CASE ~ p.wr < WtMax /\ ~ p.spd < NSpd
      BY <1>10, <2>3 DEF NextPos
    <2> QED BY <2>1, <2>2, <2>3
  <1> QED BY <1>7, <1>8, <1>9, <1>10

\* Update returns minima.
LEMMA UpdateType ==
    ASSUME NEW min \in Minima, NEW m, m.delay \in 1 .. Big, m.dyn \in 1 .. Big
    PROVE  Update(min, m) \in Minima
  BY BigSize DEF Update, Lesser, Minima

LEMMA NoResultType == NoResult \in Minima
  BY BigSize DEF NoResult, Minima

\* What a thread evaluates: a partition, its outcome and the entry made of it.
Found(q) == table[is_tag][Partition(Evaluated(q))]

LEMMA EvaluatedType ==
    ASSUME TypeOK, NEW t \in Threads, NEW q \in Places
    PROVE  /\ Found(q) \in Outcomes
           /\ Found(q) # Invalid =>
                 Found(q) \in Metrics /\ Entry(t, Evaluated(q), Found(q)) \in Entries
  <1> DEFINE p == Evaluated(q)
             m == Found(q)
  <1>2. /\ p.spd \in 1 .. NSpd /\ p.iter \in 0 .. NIter - 1 /\ p.sam \in 1 .. NSam
        /\ p.wr \in WtMin .. WtMax
    <2>1. CASE ForcedHere
      BY Inputs, Sizes, <2>1 DEF Evaluated, Labelled, Place, Partitions
    <2>2. CASE ~ ForcedHere
      BY <2>2 DEF Evaluated, Places
    <2> QED BY <2>1, <2>2
  <1>3. Partition(p) \in Partitions
    BY <1>2 DEF Partition, Partitions
  <1>4. table[is_tag] \in [Partitions -> Outcomes]
    BY Inputs DEF TypeOK
  <1>5. m \in Outcomes
    BY <1>3, <1>4 DEF Found
  <1>6. ASSUME m \in Metrics PROVE Entry(t, p, m) \in Entries
    <2>1. m.delay \in 1 .. Big - 1 /\ m.dyn \in 1 .. Big - 1
      BY <1>6 DEF Metrics
    <2> QED BY <1>2, <2>1 DEF Entry, Entries
  <1> QED BY <1>5, <1>6 DEF Outcomes
-----------------------------------------------------------------------------
LEMMA TypeInit == Init => TypeOK
  <1> SUFFICES ASSUME Init PROVE TypeOK
    OBVIOUS
  <1>1. PICK tt \in TagTables, dt \in DataTables :
           table = [b \in BOOLEAN |-> IF b THEN tt ELSE dt]
    BY DEF Init
  <1>2. table[TRUE] \in TagTables /\ table[FALSE] \in DataTables
    BY <1>1
  <1>3. created \in 0 .. NThreads /\ joined \in 0 .. NThreads
    BY Sizes DEF Init
  <1>4. /\ res \in [BOOLEAN -> [Threads -> Minima]]
        /\ d_min \in Minima /\ t_min \in Minima
    BY NoResultType DEF Init
  <1>5. /\ tpc \in [Threads -> {"none", "run", "exited"}]
        /\ pos \in [Threads -> Places \cup {NoPos}]
        /\ arr \in [Threads -> SUBSET Entries]
    BY DEF Init
  <1> QED BY <1>2, <1>3, <1>4, <1>5 DEF Init, TypeOK

\* What Evaluate does, with the outcome named.
LEMMA EvaluateStep ==
    ASSUME NEW t \in Threads, TypeOK, Evaluate(t)
    PROVE  LET q == pos[t]
               m == Found(q)
           IN  /\ q \in Places
               /\ m = Invalid => UNCHANGED <<arr, res>>
               /\ m # Invalid =>
                     /\ arr' = [arr EXCEPT ![t] = arr[t] \cup {Entry(t, Evaluated(q), m)}]
                     /\ res' = [res EXCEPT ![is_tag] =
                                  [res[is_tag] EXCEPT ![t] = Update(res[is_tag][t], m)]]
               /\ pos' = [pos EXCEPT ![t] = NextPos(t, q)]
               /\ UNCHANGED <<input, main, tpc, lists, minima, choice>>
  <1>1. pos[t] \in Places
    BY DEF Evaluate, TypeOK
  <1>2. Found(pos[t]) = table[is_tag][Partition(Evaluated(pos[t]))]
    BY DEF Found
  <1> QED BY <1>1, <1>2 DEF Evaluate

LEMMA TypeEvaluate ==
    ASSUME NEW t \in Threads, TypeOK, Evaluate(t)
    PROVE  TypeOK'
  <1> DEFINE q == pos[t]
             m == Found(q)
  <1>1. /\ q \in Places
        /\ m = Invalid => UNCHANGED <<arr, res>>
        /\ m # Invalid =>
              /\ arr' = [arr EXCEPT ![t] = arr[t] \cup {Entry(t, Evaluated(q), m)}]
              /\ res' = [res EXCEPT ![is_tag] =
                           [res[is_tag] EXCEPT ![t] = Update(res[is_tag][t], m)]]
        /\ pos' = [pos EXCEPT ![t] = NextPos(t, q)]
        /\ UNCHANGED <<input, main, tpc, lists, minima, choice>>
    BY EvaluateStep
  <1>2. NextPos(t, q) \in Places \cup {NoPos}
    BY <1>1, NextPosType
  <1>3. m # Invalid => m \in Metrics /\ Entry(t, Evaluated(q), m) \in Entries
    BY <1>1, EvaluatedType
  <1> HIDE DEF q, m
  <1>4. pos' \in [Threads -> Places \cup {NoPos}]
    BY <1>1, <1>2 DEF TypeOK
  <1>5. arr' \in [Threads -> SUBSET Entries]
    BY <1>1, <1>3 DEF TypeOK
  <1>6. res' \in [BOOLEAN -> [Threads -> Minima]]
    <2>1. CASE m = Invalid
      BY <1>1, <2>1 DEF TypeOK
    <2>2. CASE m # Invalid
      <3>1. res[is_tag] \in [Threads -> Minima] /\ res[is_tag][t] \in Minima
        BY DEF TypeOK
      <3>2. m.delay \in 1 .. Big /\ m.dyn \in 1 .. Big
        BY <1>3, <2>2, BigSize DEF Metrics
      <3>3. Update(res[is_tag][t], m) \in Minima
        BY <3>1, <3>2, UpdateType
      <3>4. [res[is_tag] EXCEPT ![t] = Update(res[is_tag][t], m)] \in [Threads -> Minima]
        BY <3>1, <3>3
      <3> QED BY <1>1, <2>2, <3>4 DEF TypeOK
    <2> QED BY <2>1, <2>2
  <1> QED BY <1>1, <1>4, <1>5, <1>6 DEF TypeOK, input, main, lists, minima

LEMMA MergedType == TypeOK => Merged \subseteq Entries
  BY DEF TypeOK, Merged

LEMMA TypeNext == TypeOK /\ [Next]_vars => TypeOK'
  <1> SUFFICES ASSUME TypeOK, [Next]_vars PROVE TypeOK'
    OBVIOUS
  <1>1. CASE BeginPhase
    <2>1. 0 \in 0 .. NThreads /\ cfg.is_cache \in BOOLEAN
      BY Sizes, Inputs DEF TypeOK
    <2> QED BY <1>1, <2>1 DEF BeginPhase, TypeOK, input, threads, lists, minima
  <1>2. CASE Create
    <2>1. created \in Threads /\ created + 1 \in 0 .. NThreads
      BY <1>2, Sizes DEF Create, TypeOK, Threads
    <2>2. Place(1, WtMin, created, 1) \in Places
      <3>1. 1 \in 1 .. NSpd /\ WtMin \in WtMin .. WtMax /\ created \in 0 .. NIter - 1
              /\ 1 \in 1 .. NSam
        BY <2>1, Sizes DEF Threads
      <3> QED BY <3>1, PlaceType
    <2>3. /\ tpc' \in [Threads -> {"none", "run", "exited"}]
          /\ arr' \in [Threads -> SUBSET Entries]
      BY <1>2, <2>1 DEF Create, TypeOK
    <2>4. pos' \in [Threads -> Places \cup {NoPos}]
      BY <1>2, <2>1, <2>2 DEF Create, TypeOK
    <2> QED BY <1>2, <2>1, <2>3, <2>4 DEF Create, TypeOK, input, lists, minima
  <1>3. CASE AllCreated
    BY <1>3 DEF AllCreated, TypeOK, input, threads, lists, minima
  <1>4. CASE Join
    <2>1. joined + 1 \in 0 .. NThreads
      BY <1>4, Sizes DEF Join, TypeOK
    <2> QED BY <1>4, <2>1 DEF Join, TypeOK, input, threads, lists, minima
  <1>5. CASE MergeTags
    <2>1. /\ Merged \subseteq Entries /\ 0 \in 0 .. NThreads
          /\ [t \in Threads |-> {}] \in [Threads -> SUBSET Entries]
      BY Sizes, MergedType
    <2>2. arr' = [t \in Threads |-> {}]
      BY <1>5 DEF MergeTags, Emptied
    <2>3. arr' \in [Threads -> SUBSET Entries]
      BY <2>1, <2>2
    <2> QED BY <1>5, <2>1, <2>3 DEF MergeTags, TypeOK, input, minima
  <1>6. CASE MergeData
    <2>1. /\ Merged \subseteq Entries /\ 0 \in 0 .. NThreads
          /\ [t \in Threads |-> {}] \in [Threads -> SUBSET Entries]
      BY Sizes, MergedType
    <2>2. arr' = [t \in Threads |-> {}]
      BY <1>6 DEF MergeData, Emptied
    <2>3. arr' \in [Threads -> SUBSET Entries]
      BY <2>1, <2>2
    <2> QED BY <1>6, <2>1, <2>3 DEF MergeData, TypeOK, input, minima
  <1>7. CASE MergeMinima
    <2>1. joined \in Threads /\ joined + 1 \in 0 .. NThreads
      BY <1>7, Sizes DEF MergeMinima, TypeOK, Threads
    <2>2. \A b \in BOOLEAN : res[b][joined].delay \in 1 .. Big /\ res[b][joined].dyn \in 1 .. Big
      BY <2>1 DEF TypeOK, Minima
    <2>3. d_min' \in Minima /\ t_min' \in Minima
      BY <1>7, <2>2, UpdateType DEF MergeMinima, TypeOK
    <2> QED BY <1>7, <2>1, <2>3 DEF MergeMinima, TypeOK, input, threads, lists
  <1>8. CASE FilterAndCombine
    <2>1. /\ pc' \in {"choose", "exit"}
          /\ tag_arr' \subseteq Entries /\ data_arr' \subseteq Entries
      BY <1>8 DEF FilterAndCombine, Fail, Combine, FilteredData, TypeOK, lists
    <2> QED BY <1>8, <2>1 DEF FilterAndCombine, TypeOK, input, threads, minima
  <1>9. CASE Examine
    BY <1>9 DEF Examine, TypeOK, input, main, threads, lists, minima
  <1>10. CASE Return
    BY <1>10 DEF Return, TypeOK, input, threads, lists, minima
  <1>11. ASSUME NEW t \in Threads, Evaluate(t) PROVE TypeOK'
    BY <1>11, TypeEvaluate
  <1>12. ASSUME NEW t \in Threads, Exit(t) PROVE TypeOK'
    BY <1>12 DEF Exit, TypeOK, input, main, lists, minima
  <1>13. CASE UNCHANGED vars
    BY <1>13 DEF TypeOK, vars, input, main, threads, lists, minima
  <1> QED
    BY <1>1, <1>2, <1>3, <1>4, <1>5, <1>6, <1>7, <1>8, <1>9, <1>10, <1>11, <1>12, <1>13
    DEF Next, Main, Terminated

(* The types of the search's state, for every number of threads and every  *)
(* outcome of calculate_time.                                              *)
THEOREM TypeCorrect == Spec => []TypeOK
  BY TypeInit, TypeNext, PTL DEF Spec
-----------------------------------------------------------------------------
(* The minima.  Of(min, S): min holds, in each metric, the least of the    *)
(* arrays of S, or Big where there are none.                               *)

IsLeast(n, V) == n \in V /\ \A v \in V : n <= v
Delays(S) == {e.delay : e \in S} \cup {Big}
Dyns(S)   == {e.dyn : e \in S} \cup {Big}
Of(min, S) == IsLeast(min.delay, Delays(S)) /\ IsLeast(min.dyn, Dyns(S))

LEMMA LesserOfUnion ==
    ASSUME NEW V, NEW W, V \subseteq Nat, W \subseteq Nat,
           NEW a, NEW b, IsLeast(a, V), IsLeast(b, W)
    PROVE  IsLeast(Lesser(a, b), V \cup W)
  <1>1. a \in Nat /\ b \in Nat
    BY DEF IsLeast
  <1>2. CASE a > b
    <2>1. \A v \in V : b <= v
      BY <1>1, <1>2 DEF IsLeast
    <2> QED BY <1>2, <2>1 DEF IsLeast, Lesser
  <1>3. CASE ~ a > b
    <2>1. \A w \in W : a <= w
      BY <1>1, <1>3 DEF IsLeast
    <2> QED BY <1>3, <2>1 DEF IsLeast, Lesser
  <1> QED BY <1>2, <1>3

LEMMA DelaysAreNat ==
    ASSUME NEW S, S \subseteq Entries
    PROVE  Delays(S) \subseteq Nat /\ Dyns(S) \subseteq Nat
  BY BigSize DEF Delays, Dyns, Entries

\* The minima of two sets of arrays give those of their union.
LEMMA UpdateOfUnion ==
    ASSUME NEW S, NEW T, S \subseteq Entries, T \subseteq Entries,
           NEW a, NEW b, Of(a, S), Of(b, T)
    PROVE  Of(Update(a, b), S \cup T)
  <1>1. /\ Delays(S \cup T) = Delays(S) \cup Delays(T)
        /\ Dyns(S \cup T) = Dyns(S) \cup Dyns(T)
    BY DEF Delays, Dyns
  <1>2. /\ IsLeast(Lesser(a.delay, b.delay), Delays(S) \cup Delays(T))
        /\ IsLeast(Lesser(a.dyn, b.dyn), Dyns(S) \cup Dyns(T))
    BY DelaysAreNat, LesserOfUnion DEF Of
  <1> QED BY <1>1, <1>2 DEF Of, Update

\* One array more.
LEMMA UpdateOfEntry ==
    ASSUME NEW S, S \subseteq Entries, NEW a, Of(a, S), NEW e \in Entries,
           NEW m, m.delay = e.delay, m.dyn = e.dyn
    PROVE  Of(Update(a, m), S \cup {e})
  <1>1. e.delay \in Nat /\ e.dyn \in Nat /\ e.delay <= Big /\ e.dyn <= Big
    BY BigSize DEF Entries
  <1>2. Of(m, {e})
    <2>1. Delays({e}) = {e.delay, Big} /\ Dyns({e}) = {e.dyn, Big}
      BY DEF Delays, Dyns
    <2> QED BY <1>1, <2>1 DEF Of, IsLeast
  <1> QED BY <1>2, UpdateOfUnion

LEMMA NoResultOfNone == Of(NoResult, {})
  BY BigSize DEF Of, NoResult, IsLeast, Delays, Dyns

List(b) == IF b THEN tag_arr ELSE data_arr
Minimum(b) == IF b THEN t_min ELSE d_min

\* What thread t found of phase b, in its list or already merged.
FoundBy(b, t) ==
    {e \in (IF is_tag = b THEN arr[t] ELSE {}) \cup List(b) : e.tid = t}
FoundBelow(b, n) == {e \in List(b) : e.tid < n}

\* A thread's list holds its own arrays and is empty outside the phase.
ListsInv ==
    /\ \A t \in Threads : \A e \in arr[t] : e.tid = t
    /\ pc \in {"start", "minima"} => \A t \in Threads : arr[t] = {}
    /\ pc \in {"start", "create", "join"} => data_arr = {}
    /\ pc = "start" \/ is_tag => tag_arr = {}
    /\ pc \in {"start", "minima"} => ~ is_tag

\* Where the threads are while the main thread creates and joins them.
ThreadsInv ==
    /\ pc \notin {"create", "join"} => \A t \in Threads : tpc[t] # "run"
    /\ pc = "create" => joined = 0
    /\ pc = "create" => \A t \in Threads : t >= created => tpc[t] # "run" /\ arr[t] = {}
    /\ pc = "join" => \A t \in Threads : t < joined => tpc[t] = "exited"

MinimaInv ==
    /\ \A b \in BOOLEAN, t \in Threads : Of(res[b][t], FoundBy(b, t))
    /\ pc \in {"start", "create", "join"} => d_min = NoResult /\ t_min = NoResult
    /\ pc = "minima" => \A b \in BOOLEAN : Of(Minimum(b), FoundBelow(b, joined))

Searching == pc \in {"start", "create", "join", "minima"}
IInv == TypeOK /\ (Searching => ListsInv /\ ThreadsInv /\ MinimaInv)

LEMMA IInvInit == Init => IInv
  <1> SUFFICES ASSUME Init PROVE ListsInv /\ ThreadsInv /\ MinimaInv
    BY TypeInit DEF IInv
  <1>1. ListsInv /\ ThreadsInv
    BY DEF Init, ListsInv, ThreadsInv
  <1>2. \A b \in BOOLEAN, t \in Threads : FoundBy(b, t) = {} /\ res[b][t] = NoResult
    BY DEF Init, FoundBy, List
  <1> QED BY <1>1, <1>2, NoResultOfNone DEF Init, MinimaInv
\* A step that leaves the lists, the minima and the phase alone.
LEMMA MinimaInvKept ==
    ASSUME MinimaInv, UNCHANGED <<arr, res, is_tag, lists, minima, joined>>,
           Searching, pc' \in {"create", "join"} => pc \in {"start", "create", "join"},
           pc' = "minima" => pc = "minima", pc' # "start"
    PROVE  MinimaInv'
  <1>1. \A b \in BOOLEAN, t \in Threads : FoundBy(b, t)' = FoundBy(b, t) /\ res'[b][t] = res[b][t]
    BY DEF FoundBy, List, lists
  <1>2. \A b \in BOOLEAN : FoundBelow(b, joined)' = FoundBelow(b, joined) /\ Minimum(b)' = Minimum(b)
    BY DEF FoundBelow, List, Minimum, lists, minima
  <1> QED BY <1>1, <1>2 DEF MinimaInv, minima

LEMMA InvEvaluate ==
    ASSUME IInv, NEW t \in Threads, Evaluate(t), Searching
    PROVE  ListsInv' /\ ThreadsInv' /\ MinimaInv'
  <1> DEFINE q == pos[t]
             m == Found(q)
             e == Entry(t, Evaluated(q), m)
  <1>0. /\ TypeOK /\ ListsInv /\ ThreadsInv /\ MinimaInv
        /\ tpc[t] = "run"
    BY DEF IInv, Evaluate
  <1>1. /\ q \in Places
        /\ m = Invalid => UNCHANGED <<arr, res>>
        /\ m # Invalid =>
              /\ arr' = [arr EXCEPT ![t] = arr[t] \cup {e}]
              /\ res' = [res EXCEPT ![is_tag] =
                           [res[is_tag] EXCEPT ![t] = Update(res[is_tag][t], m)]]
        /\ UNCHANGED <<input, main, tpc, lists, minima, choice>>
    BY <1>0, EvaluateStep
  <1>2. m # Invalid => m \in Metrics /\ e \in Entries
    BY <1>0, <1>1, EvaluatedType
  <1>3. e.tid = t /\ e.delay = m.delay /\ e.dyn = m.dyn
    BY DEF Entry
  <1>4. pc \in {"create", "join"} /\ (pc = "create" => ~ t >= created)
    BY <1>0 DEF ThreadsInv, Searching
  <1> HIDE DEF q, m, e
  <1>5. CASE m = Invalid
    <2>1. MinimaInv'
      BY <1>0, <1>1, <1>4, <1>5, MinimaInvKept DEF main
    <2> QED BY <1>0, <1>1, <1>5, <2>1 DEF ListsInv, ThreadsInv, main, lists
  <1>6. CASE m # Invalid
    <2>1. /\ arr'[t] = arr[t] \cup {e} /\ \A u \in Threads \ {t} : arr'[u] = arr[u]
          /\ res'[is_tag][t] = Update(res[is_tag][t], m)
          /\ \A u \in Threads \ {t} : res'[is_tag][u] = res[is_tag][u]
          /\ \A u \in Threads : res'[~ is_tag][u] = res[~ is_tag][u]
      <3> DEFINE new == Update(res[is_tag][t], m)
                 row == [res[is_tag] EXCEPT ![t] = new]
      <3>1. arr' = [arr EXCEPT ![t] = arr[t] \cup {e}] /\ res' = [res EXCEPT ![is_tag] = row]
        BY <1>1, <1>6
      <3>2. /\ arr \in [Threads -> SUBSET Entries] /\ is_tag \in BOOLEAN
            /\ res \in [BOOLEAN -> [Threads -> Minima]]
        BY <1>0 DEF TypeOK
      <3> HIDE DEF new
      <3>3. row[t] = new /\ \A u \in Threads \ {t} : row[u] = res[is_tag][u]
        BY <3>2
      <3> HIDE DEF row
      <3>4. res'[is_tag] = row /\ res'[~ is_tag] = res[~ is_tag]
        BY <3>1, <3>2
      <3>5. arr'[t] = arr[t] \cup {e} /\ \A u \in Threads \ {t} : arr'[u] = arr[u]
        BY <3>1, <3>2
      <3> QED BY <3>3, <3>4, <3>5 DEF new
    <2>2. ListsInv'
      BY <1>0, <1>1, <1>3, <1>4, <2>1 DEF ListsInv, main, lists
    <2>3. ThreadsInv'
      BY <1>0, <1>1, <1>4, <2>1 DEF ThreadsInv, main
    <2>4. FoundBy(is_tag, t)' = FoundBy(is_tag, t) \cup {e}
      BY <1>1, <1>3, <2>1 DEF FoundBy, List, main, lists
    <2>5. \A b \in BOOLEAN, u \in Threads :
             (b # is_tag \/ u # t) => FoundBy(b, u)' = FoundBy(b, u)
      BY <1>1, <1>3, <2>1 DEF FoundBy, List, main, lists
    <2>6. FoundBy(is_tag, t) \subseteq Entries
      BY <1>0 DEF FoundBy, List, TypeOK
    <2>7. Of(Update(res[is_tag][t], m), FoundBy(is_tag, t) \cup {e})
      BY <1>0, <1>2, <1>3, <1>6, <2>6, UpdateOfEntry DEF MinimaInv, TypeOK
    <2>8. is_tag \in BOOLEAN
      BY <1>0 DEF TypeOK
    <2>9. \A b \in BOOLEAN, u \in Threads :
             (b # is_tag \/ u # t) => res'[b][u] = res[b][u]
      BY <2>1, <2>8
    <2>10. \A b \in BOOLEAN, u \in Threads : Of(res'[b][u], FoundBy(b, u)')
      <3> TAKE b \in BOOLEAN, u \in Threads
      <3>1. CASE b = is_tag /\ u = t
        <4>1. is_tag' = is_tag
          BY <1>1 DEF main
        <4>2. FoundBy(b, u)' = FoundBy(is_tag, t) \cup {e}
          BY <2>4, <3>1, <4>1
        <4> QED BY <2>1, <2>7, <3>1, <4>2
      <3>2. CASE b # is_tag \/ u # t
        BY <1>0, <2>5, <2>9, <3>2 DEF MinimaInv
      <3> QED BY <3>1, <3>2
    <2>11. MinimaInv'
      BY <1>0, <1>1, <1>4, <2>10 DEF MinimaInv, main, minima
    <2> QED BY <2>2, <2>3, <2>11
  <1> QED BY <1>5, <1>6

\* When every thread is joined none is in its loops.
LEMMA AllExited ==
    ASSUME TypeOK, ThreadsInv, pc = "join", joined = NThreads
    PROVE  \A t \in Threads : tpc[t] # "run"
  BY Sizes DEF ThreadsInv, Threads

\* Merging moves what each thread found from its list to the merged one.
LEMMA MergeMoves ==
    ASSUME ListsInv, NEW t \in Threads
    PROVE  {e \in Merged : e.tid = t} = arr[t]
  BY DEF ListsInv, Merged

LEMMA InvMergeTags ==
    ASSUME IInv, MergeTags
    PROVE  ListsInv' /\ ThreadsInv' /\ MinimaInv'
  <1>0. /\ TypeOK /\ ListsInv /\ ThreadsInv /\ MinimaInv
        /\ pc = "join" /\ is_tag = TRUE /\ tag_arr = {} /\ data_arr = {}
        /\ \A t \in Threads : tpc[t] # "run"
    BY AllExited DEF IInv, MergeTags, Searching, ListsInv, TypeOK
  <1>1. /\ tag_arr' = Merged /\ data_arr' = data_arr /\ is_tag' = FALSE
        /\ arr' = [t \in Threads |-> {}] /\ res' = res /\ pc' = "create" /\ created' = 0
        /\ joined' = 0
        /\ tpc' = tpc /\ d_min' = d_min /\ t_min' = t_min
    BY DEF MergeTags, Emptied, minima
  <1>2. ListsInv'
    BY <1>0, <1>1 DEF ListsInv
  <1>3. ThreadsInv'
    BY <1>0, <1>1 DEF ThreadsInv
  <1>4. ASSUME NEW t \in Threads
        PROVE  FoundBy(TRUE, t)' = FoundBy(TRUE, t) /\ FoundBy(FALSE, t)' = FoundBy(FALSE, t)
    <2>1. FoundBy(TRUE, t) = arr[t] /\ FoundBy(FALSE, t) = {}
      BY <1>0 DEF FoundBy, List, ListsInv
    <2>2. FoundBy(FALSE, t)' = {}
      BY <1>0, <1>1 DEF FoundBy, List
    <2>3. FoundBy(TRUE, t)' = {e \in Merged : e.tid = t}
      BY <1>1 DEF FoundBy, List
    <2> QED BY <1>0, <2>1, <2>2, <2>3, MergeMoves
  <1>5. \A b \in BOOLEAN, t \in Threads : FoundBy(b, t)' = FoundBy(b, t)
    BY <1>4
  <1>6. MinimaInv'
    BY <1>0, <1>1, <1>5 DEF MinimaInv
  <1> QED BY <1>2, <1>3, <1>6

LEMMA InvMergeData ==
    ASSUME IInv, MergeData
    PROVE  ListsInv' /\ ThreadsInv' /\ MinimaInv'
  <1>0. /\ TypeOK /\ ListsInv /\ ThreadsInv /\ MinimaInv
        /\ pc = "join" /\ is_tag = FALSE /\ data_arr = {}
        /\ \A t \in Threads : tpc[t] # "run"
    BY AllExited DEF IInv, MergeData, Searching, ListsInv, TypeOK
  <1>1. /\ data_arr' = Merged /\ tag_arr' = tag_arr /\ is_tag' = FALSE
        /\ arr' = [t \in Threads |-> {}] /\ res' = res /\ pc' = "minima" /\ joined' = 0
        /\ tpc' = tpc /\ d_min' = d_min /\ t_min' = t_min
    BY <1>0 DEF MergeData, Emptied, minima
  <1>2. ListsInv'
    BY <1>0, <1>1 DEF ListsInv
  <1>3. ThreadsInv'
    BY <1>0, <1>1 DEF ThreadsInv
  <1>4. ASSUME NEW t \in Threads
        PROVE  FoundBy(TRUE, t)' = FoundBy(TRUE, t) /\ FoundBy(FALSE, t)' = FoundBy(FALSE, t)
    <2>1. FoundBy(FALSE, t) = arr[t]
      BY <1>0 DEF FoundBy, List, ListsInv
    <2>2. FoundBy(FALSE, t)' = {e \in Merged : e.tid = t}
      BY <1>0, <1>1 DEF FoundBy, List
    <2>3. FoundBy(TRUE, t)' = FoundBy(TRUE, t)
      BY <1>0, <1>1 DEF FoundBy, List
    <2> QED BY <1>0, <2>1, <2>2, <2>3, MergeMoves
  <1>5. \A b \in BOOLEAN, t \in Threads : FoundBy(b, t)' = FoundBy(b, t)
    BY <1>4
  <1>6. \A b \in BOOLEAN : FoundBelow(b, joined)' = {} /\ Minimum(b)' = NoResult
    <2>1. \A b \in BOOLEAN : List(b)' \subseteq Entries
      BY <1>0, <1>1, MergedType DEF List, TypeOK
    <2>2. \A e \in Entries : ~ e.tid < 0
      BY DEF Entries, Threads
    <2> QED BY <1>0, <1>1, <2>1, <2>2 DEF FoundBelow, Minimum, MinimaInv
  <1>7. MinimaInv'
    BY <1>0, <1>1, <1>5, <1>6, NoResultOfNone DEF MinimaInv
  <1> QED BY <1>2, <1>3, <1>7

LEMMA InvMergeMinima ==
    ASSUME IInv, MergeMinima
    PROVE  ListsInv' /\ ThreadsInv' /\ MinimaInv'
  <1>00. pc = "minima" /\ pc' = "minima" /\ joined < NThreads
    BY DEF MergeMinima
  <1>0. /\ TypeOK /\ ListsInv /\ ThreadsInv /\ MinimaInv /\ pc = "minima" /\ pc' = "minima"
        /\ joined \in Threads
    <2>1. TypeOK /\ ListsInv /\ ThreadsInv /\ MinimaInv
      BY <1>00 DEF IInv, Searching
    <2>2. joined \in Threads
      BY <1>00, <2>1, Sizes DEF TypeOK, Threads
    <2> QED BY <1>00, <2>1, <2>2
  <1>1. /\ UNCHANGED <<is_tag, created, threads, lists>>
        /\ joined' = joined + 1
        /\ d_min' = Update(d_min, res[FALSE][joined])
        /\ t_min' = Update(t_min, res[TRUE][joined])
    BY DEF MergeMinima
  <1>2. ListsInv' /\ ThreadsInv'
    BY <1>0, <1>1 DEF ListsInv, ThreadsInv, threads, lists
  <1>3. \A b \in BOOLEAN, t \in Threads : FoundBy(b, t)' = FoundBy(b, t)
    BY <1>1 DEF FoundBy, List, threads, lists
  <1>4. ASSUME NEW b \in BOOLEAN
        PROVE  Of(Minimum(b), FoundBelow(b, joined))'
    <2>1. Minimum(b)' = Update(Minimum(b), res[b][joined])
      BY <1>1 DEF Minimum
    <2>2. FoundBy(b, joined) = {e \in List(b) : e.tid = joined}
      BY <1>0 DEF FoundBy, ListsInv
    <2>3. List(b) \subseteq Entries
      BY <1>0 DEF List, TypeOK
    <2>4. FoundBelow(b, joined)' = FoundBelow(b, joined) \cup FoundBy(b, joined)
      <3>1. \A e \in List(b) : e.tid < joined + 1 <=> e.tid < joined \/ e.tid = joined
        BY <1>0, <2>3 DEF Entries, Threads
      <3>2. List(b)' = List(b)
        BY <1>1 DEF List, lists
      <3> QED BY <1>1, <2>2, <3>1, <3>2 DEF FoundBelow
    <2>5. FoundBelow(b, joined) \subseteq Entries /\ FoundBy(b, joined) \subseteq Entries
      BY <2>2, <2>3 DEF FoundBelow
    <2>6. Of(Minimum(b), FoundBelow(b, joined)) /\ Of(res[b][joined], FoundBy(b, joined))
      BY <1>0 DEF MinimaInv
    <2>7. Of(Update(Minimum(b), res[b][joined]), FoundBelow(b, joined) \cup FoundBy(b, joined))
      BY <2>5, <2>6, UpdateOfUnion
    <2> QED BY <2>1, <2>4, <2>7
  <1>5. MinimaInv'
    BY <1>0, <1>1, <1>3, <1>4 DEF MinimaInv, threads
  <1> QED BY <1>2, <1>5
LEMMA InvNext == IInv /\ [Next]_vars => IInv'
  <1> SUFFICES ASSUME IInv, [Next]_vars, Searching'
               PROVE  ListsInv' /\ ThreadsInv' /\ MinimaInv'
    BY TypeNext DEF IInv
  <1>0. TypeOK
    BY DEF IInv
  <1>1. CASE BeginPhase
    <2>1. /\ pc = "start" /\ pc' = "create" /\ created' = 0 /\ joined' = 0
          /\ UNCHANGED <<threads, lists, minima>>
      BY <1>1 DEF BeginPhase
    <2>2. ListsInv /\ ThreadsInv /\ MinimaInv
      BY <2>1 DEF IInv, Searching
    <2>3. ListsInv'
      BY <2>1, <2>2 DEF ListsInv, threads, lists
    <2>4. ThreadsInv'
      BY <2>1, <2>2 DEF ThreadsInv, ListsInv, threads
    <2>5. \A b \in BOOLEAN, t \in Threads : FoundBy(b, t)' = FoundBy(b, t)
      BY <2>1, <2>2 DEF FoundBy, List, ListsInv, threads, lists
    <2>6. MinimaInv'
      BY <2>1, <2>2, <2>5 DEF MinimaInv, threads, minima
    <2> QED BY <2>3, <2>4, <2>6
  <1>2. CASE Create
    <2>1. /\ pc = "create" /\ pc' = "create" /\ created' = created + 1
          /\ created \in Threads
          /\ tpc' = [tpc EXCEPT ![created] = "run"]
          /\ arr' = [arr EXCEPT ![created] = {}]
          /\ UNCHANGED <<is_tag, joined, res, lists, minima>>
      BY <1>0, <1>2, Sizes DEF Create, TypeOK, Threads
    <2>2. ListsInv /\ ThreadsInv /\ MinimaInv
      BY <2>1 DEF IInv, Searching
    <2>3. arr[created] = {}
      BY <2>1, <2>2 DEF ThreadsInv, Threads
    <2>4. arr' = arr
      BY <1>0, <2>1, <2>3 DEF TypeOK
    <2>5. ListsInv'
      BY <2>1, <2>2, <2>4 DEF ListsInv, lists
    <2>6. ThreadsInv'
      <3>1. ASSUME NEW t \in Threads, t >= created + 1 PROVE t >= created /\ t # created
        BY <2>1, <3>1 DEF Threads
      <3>2. \A t \in Threads : t # created => tpc'[t] = tpc[t]
        BY <1>0, <2>1 DEF TypeOK
      <3> QED BY <2>1, <2>2, <2>4, <3>1, <3>2 DEF ThreadsInv
    <2>7. \A b \in BOOLEAN, t \in Threads : FoundBy(b, t)' = FoundBy(b, t)
      BY <2>1, <2>4 DEF FoundBy, List, lists
    <2>8. MinimaInv'
      BY <2>1, <2>2, <2>7 DEF MinimaInv, minima
    <2> QED BY <2>5, <2>6, <2>8
  <1>3. CASE AllCreated
    <2>1. /\ pc = "create" /\ pc' = "join" /\ joined' = joined
          /\ UNCHANGED <<is_tag, created, threads, lists, minima>>
      BY <1>3 DEF AllCreated
    <2>2. ListsInv /\ ThreadsInv /\ MinimaInv
      BY <2>1 DEF IInv, Searching
    <2>3. ListsInv'
      BY <2>1, <2>2 DEF ListsInv, threads, lists
    <2>4. \A t \in Threads : ~ t < joined
      BY <2>1, <2>2 DEF ThreadsInv, Threads
    <2>5. ThreadsInv'
      BY <2>1, <2>2, <2>4 DEF ThreadsInv, threads
    <2>6. MinimaInv'
      BY <2>1, <2>2, MinimaInvKept DEF Searching, threads
    <2> QED BY <2>3, <2>5, <2>6
  <1>4. CASE Join
    <2>1. /\ pc = "join" /\ pc' = "join" /\ joined' = joined + 1 /\ tpc[joined] = "exited"
          /\ UNCHANGED <<is_tag, created, threads, lists, minima>>
      BY <1>4 DEF Join
    <2>2. ListsInv /\ ThreadsInv /\ MinimaInv
      BY <2>1 DEF IInv, Searching
    <2>3. ListsInv'
      BY <2>1, <2>2 DEF ListsInv, threads, lists
    <2>4. \A t \in Threads : t < joined + 1 => t < joined \/ t = joined
      BY <1>0 DEF TypeOK, Threads
    <2>5. ThreadsInv'
      BY <2>1, <2>2, <2>4 DEF ThreadsInv, threads
    <2>6. \A b \in BOOLEAN, t \in Threads : FoundBy(b, t)' = FoundBy(b, t)
      BY <2>1 DEF FoundBy, List, lists, threads
    <2>7. MinimaInv'
      BY <2>1, <2>2, <2>6 DEF MinimaInv, threads, minima
    <2> QED BY <2>3, <2>5, <2>7
  <1>5. CASE MergeTags
    BY <1>5, InvMergeTags
  <1>6. CASE MergeData
    BY <1>6, InvMergeData
  <1>7. CASE MergeMinima
    BY <1>7, InvMergeMinima
  <1>8. CASE FilterAndCombine
    BY <1>8 DEF FilterAndCombine, Fail, Combine, Searching
  <1>9. CASE Examine
    BY <1>9 DEF Examine, Searching, main
  <1>10. CASE Return
    BY <1>10 DEF Return, Searching
  <1>11. ASSUME NEW t \in Threads, Evaluate(t) PROVE ListsInv' /\ ThreadsInv' /\ MinimaInv'
    <2>1. Searching
      BY <1>11 DEF Evaluate, Searching, main
    <2> QED BY <1>11, <2>1, InvEvaluate
  <1>12. ASSUME NEW t \in Threads, Exit(t) PROVE ListsInv' /\ ThreadsInv' /\ MinimaInv'
    <2>1. /\ UNCHANGED <<main, arr, res, lists, minima>> /\ Searching
          /\ tpc' = [tpc EXCEPT ![t] = "exited"]
      BY <1>12 DEF Exit, Searching, main
    <2>2. ListsInv /\ ThreadsInv /\ MinimaInv
      BY <2>1 DEF IInv
    <2>3. ListsInv'
      BY <2>1, <2>2 DEF ListsInv, main, lists
    <2>4. tpc'[t] = "exited" /\ \A u \in Threads \ {t} : tpc'[u] = tpc[u]
      BY <1>0, <2>1 DEF TypeOK
    <2>5. ThreadsInv'
      BY <2>1, <2>2, <2>4 DEF ThreadsInv, main
    <2>6. \A b \in BOOLEAN, u \in Threads : FoundBy(b, u)' = FoundBy(b, u)
      BY <2>1 DEF FoundBy, List, lists, main
    <2>7. \A b \in BOOLEAN : FoundBelow(b, joined)' = FoundBelow(b, joined)
                               /\ Minimum(b)' = Minimum(b)
      BY <2>1 DEF FoundBelow, Minimum, List, main, lists, minima
    <2>8. MinimaInv'
      BY <2>1, <2>2, <2>6, <2>7 DEF MinimaInv, main, minima
    <2> QED BY <2>3, <2>5, <2>8
  <1>13. CASE UNCHANGED vars
    <2>1. ListsInv /\ ThreadsInv /\ MinimaInv
      BY <1>13 DEF IInv, Searching, vars, main
    <2>2. ListsInv' /\ ThreadsInv'
      BY <1>13, <2>1 DEF ListsInv, ThreadsInv, vars, main, threads, lists
    <2>3. \A b \in BOOLEAN, u \in Threads : FoundBy(b, u)' = FoundBy(b, u)
      BY <1>13 DEF FoundBy, List, vars, lists, main, threads
    <2>4. \A b \in BOOLEAN : FoundBelow(b, joined)' = FoundBelow(b, joined)
                               /\ Minimum(b)' = Minimum(b)
      BY <1>13 DEF FoundBelow, Minimum, List, vars, main, lists, minima
    <2>5. MinimaInv'
      BY <1>13, <2>1, <2>3, <2>4 DEF MinimaInv, vars, main, threads, minima
    <2> QED BY <2>2, <2>5
  <1> QED
    BY <1>1, <1>2, <1>3, <1>4, <1>5, <1>6, <1>7, <1>8, <1>9, <1>10, <1>11, <1>12, <1>13
    DEF Next, Main, Terminated

LEMMA OfNonempty ==
    ASSUME NEW S, S \subseteq Entries, S # {}, NEW min, Of(min, S)
    PROVE  /\ \A e \in S : min.delay <= e.delay /\ min.dyn <= e.dyn
           /\ \E e \in S : e.delay = min.delay
           /\ \E e \in S : e.dyn = min.dyn
  <1>1. \A e \in S : /\ e.delay \in Nat /\ e.dyn \in Nat /\ e.delay < Big /\ e.dyn < Big
                     /\ min.delay <= e.delay /\ min.dyn <= e.dyn
    BY BigSize DEF Entries, Of, IsLeast, Delays, Dyns
  <1>2. min.delay \in Delays(S) /\ min.dyn \in Dyns(S)
    BY DEF Of, IsLeast
  <1>3. min.delay # Big /\ min.dyn # Big
    BY <1>1, BigSize
  <1> QED BY <1>1, <1>2, <1>3 DEF Delays, Dyns

LEMMA MinimaFromInv == IInv => MinimaAreOfTheArrays
  <1> SUFFICES ASSUME IInv, pc = "minima", joined = NThreads
               PROVE  \A b \in BOOLEAN : HasMinima(List(b), Minimum(b))
    BY DEF MinimaAreOfTheArrays, List, Minimum
  <1> TAKE b \in BOOLEAN
  <1>1. TypeOK /\ Of(Minimum(b), FoundBelow(b, joined))
    <2>1. TypeOK /\ MinimaInv
      BY DEF IInv, Searching
    <2> QED BY <2>1 DEF MinimaInv
  <1>2. List(b) \subseteq Entries
    BY <1>1 DEF List, TypeOK
  <1>3. FoundBelow(b, joined) = List(b)
    BY <1>2, Sizes DEF FoundBelow, Entries, Threads
  <1> QED BY <1>1, <1>2, <1>3, OfNonempty DEF HasMinima

(* The minima the filters and costs divide by are those of the arrays      *)
(* found by all threads, under every schedule (Ucache.cc:838-846).         *)
THEOREM MinimaCorrect == Spec => []MinimaAreOfTheArrays
  BY IInvInit, InvNext, MinimaFromInv, PTL DEF Spec
-----------------------------------------------------------------------------
\* A factor more is a whole N more.
LEMMA Multiples ==
    ASSUME NEW N \in Nat, NEW a \in Int, NEW b \in Int, a < b
    PROVE  N * a + N <= N * b
  <1>1. N * (b - a - 1) >= 0
    <2>1. \A c \in Nat : N * c >= 0
      OBVIOUS
    <2> QED BY <2>1
  <1>2. N * (b - a - 1) = N * b - N * a - N
    OBVIOUS
  <1>3. N * a \in Int /\ N * b \in Int
    OBVIOUS
  <1> QED BY <1>1, <1>2, <1>3

LEMMA Division ==
    ASSUME NEW N \in Nat \ {0}, NEW i \in Nat
    PROVE  /\ i \div N \in Int /\ N * (i \div N) \in Int /\ (i % N) \in 0 .. N - 1
           /\ i = N * (i \div N) + (i % N)
  OBVIOUS

LEMMA DivisionUnique ==
    ASSUME NEW N \in Nat \ {0}, NEW i \in Nat, NEW q \in Int, NEW r \in 0 .. N - 1, i = N * q + r
    PROVE  i % N = r
  BY Z3

LEMMA Remainders ==
    ASSUME NEW N \in Nat \ {0}, NEW i \in Nat
    PROVE  /\ (i % N) \in 0 .. N - 1 /\ (i % N) <= i
           /\ (i + N) % N = i % N
           /\ i < N => i % N = i
           /\ \A j \in Nat : i % N = j % N /\ i < j => i + N <= j
  <1>1. (i % N) \in 0 .. N - 1 /\ (i % N) <= i
    OBVIOUS
  <1>2. (i + N) % N = i % N
    <2> DEFINE q == i \div N
               r == i % N
    <2>1. q \in Int /\ r \in 0 .. N - 1 /\ i = N * q + r
      BY Division
    <2>2. q + 1 \in Int /\ i + N \in Nat
      BY <2>1
    <2> HIDE DEF q, r
    <2>3. i + N = N * (q + 1) + r
      BY <2>1
    <2>4. (i + N) % N = r
      BY <2>1, <2>2, <2>3, DivisionUnique
    <2> QED BY <2>4 DEF r
  <1>3. i < N => i % N = i
    OBVIOUS
  <1>4. ASSUME NEW j \in Nat, i % N = j % N, i < j PROVE i + N <= j
    <2> DEFINE p == i \div N
               q == j \div N
               r == i % N
    <2>1. /\ p \in Int /\ q \in Int /\ r \in Int
          /\ N * p \in Int /\ N * q \in Int
          /\ i = N * p + r /\ j = N * q + r
      BY <1>4, Division
    <2> HIDE DEF p, q, r
    <2>2. CASE p < q
      BY <1>4, <2>1, <2>2, Multiples
    <2>3. CASE q < p
      BY <1>4, <2>1, <2>3, Multiples
    <2>4. CASE p = q
      BY <1>4, <2>1, <2>4
    <2> QED BY <2>1, <2>2, <2>3, <2>4
  <1> QED BY <1>1, <1>2, <1>3, <1>4

-----------------------------------------------------------------------------
(* Every partition once.  A thread's places are those of its remainder; it *)
(* has passed the ones earlier, in the order of its loops, than where it   *)
(* is, and its list holds their entries.                                   *)
PlacesOf(t) == {q \in Places : q.iter % NThreads = t}
Earlier(q, p) ==
    \/ q.spd < p.spd
    \/ q.spd = p.spd /\ q.wr < p.wr
    \/ q.spd = p.spd /\ q.wr = p.wr /\ q.iter < p.iter
    \/ q.spd = p.spd /\ q.wr = p.wr /\ q.iter = p.iter /\ q.sam < p.sam
PassedAt(t, p) == IF p = NoPos THEN PlacesOf(t) ELSE {q \in PlacesOf(t) : Earlier(q, p)}
EntriesOf(t, Q) ==
    {Entry(t, q, table[is_tag][Partition(q)]) : q \in {r \in Q : table[is_tag][Partition(r)] # Invalid}}

ForcedEntries(t) == EntriesOf(t, {Labelled(Forced, WtMin)})

\* The share of a thread that has been created in this phase.
Share(t) ==
    IF ForcedHere THEN arr[t] = IF pos[t] = NoPos THEN ForcedEntries(t) ELSE {}
    ELSE /\ pos[t] # NoPos => pos[t] \in PlacesOf(t)
         /\ arr[t] = EntriesOf(t, PassedAt(t, pos[t]))

SharesInv ==
    /\ \A t \in Threads : tpc[t] = "exited" => pos[t] = NoPos
    /\ pc = "create" => \A t \in Threads : t < created => Share(t)
    /\ pc = "join" => \A t \in Threads : Share(t)
    /\ pc \in {"create", "join"} /\ is_tag => cfg.is_cache
    /\ pc \in {"create", "join", "minima"} /\ ~ is_tag /\ cfg.is_cache => tag_arr = Arrays(TRUE)
    /\ pc = "minima" => data_arr = Arrays(FALSE)

\* Places differ if their fields do.
LEMMA PlaceFields ==
    ASSUME NEW p \in Places
    PROVE  /\ p = Place(p.spd, p.wr, p.iter, p.sam)
           /\ p.spd \in Int /\ p.wr \in Int /\ p.iter \in Nat /\ p.sam \in Int
           /\ 1 <= p.spd /\ p.spd <= NSpd /\ WtMin <= p.wr /\ p.wr <= WtMax
           /\ p.iter < NIter /\ 1 <= p.sam /\ p.sam <= NSam
           /\ p # NoPos
  <1>1. p \in [spd : 1 .. NSpd, wr : WtMin .. WtMax, iter : 0 .. NIter - 1, sam : 1 .. NSam]
    BY DEF Places
  <1>2. NoPos.spd = 0
    BY DEF NoPos, Place
  <1> QED BY <1>1, <1>2, Sizes DEF Place

\* A thread begins at the first of its places.
LEMMA FirstPlace ==
    ASSUME NEW t \in Threads
    PROVE  /\ Place(1, WtMin, t, 1) \in PlacesOf(t)
           /\ PassedAt(t, Place(1, WtMin, t, 1)) = {}
  <1> DEFINE p == Place(1, WtMin, t, 1)
  <1>1. t \in Nat /\ t < NThreads /\ t \in 0 .. NIter - 1
    BY Sizes DEF Threads
  <1>2. p \in PlacesOf(t)
    <2>1. 1 \in 1 .. NSpd /\ WtMin \in WtMin .. WtMax /\ 1 \in 1 .. NSam
      BY Sizes
    <2>2. p \in Places
      BY <1>1, <2>1, PlaceType
    <2>3. t % NThreads = t /\ p.iter = t
      BY <1>1, Sizes, Remainders DEF Place
    <2> QED BY <2>2, <2>3 DEF PlacesOf
  <1>3. ASSUME NEW q \in PlacesOf(t) PROVE ~ Earlier(q, p)
    <2>1. q \in Places /\ q.iter % NThreads = t
      BY DEF PlacesOf
    <2>2. t <= q.iter
      BY <2>1, PlaceFields, Remainders, Sizes
    <2> QED BY <2>1, <2>2, PlaceFields, <1>1, Sizes DEF Earlier, Place
  <1>4. p # NoPos
    BY <1>2, PlaceFields DEF PlacesOf
  <1> QED BY <1>2, <1>3, <1>4 DEF PassedAt

\* A step of the loops passes the place it leaves and nothing else.
LEMMA StepPasses ==
    ASSUME ~ ForcedHere, NEW t \in Threads, NEW p \in PlacesOf(t)
    PROVE  /\ NextPos(t, p) # NoPos => NextPos(t, p) \in PlacesOf(t)
           /\ PassedAt(t, NextPos(t, p)) = PassedAt(t, p) \cup {p}
  <1> DEFINE n == NextPos(t, p)
  <1>0. /\ p \in Places /\ p.iter % NThreads = t /\ t \in Nat /\ t < NThreads
        /\ p.spd \in Int /\ p.wr \in Int /\ p.iter \in Nat /\ p.sam \in Int
        /\ NThreads \in Nat \ {0} /\ p # NoPos
    BY Sizes, PlaceFields DEF PlacesOf, Threads
  <1>1. n # NoPos => n \in Places
    BY <1>0, NextPosType
  <1>2. \/ p.sam < NSam /\ n = Place(p.spd, p.wr, p.iter, p.sam + 1)
        \/ ~ p.sam < NSam /\ p.iter + NThreads < NIter /\ n = Place(p.spd, p.wr, p.iter + NThreads, 1)
        \/ ~ p.sam < NSam /\ ~ p.iter + NThreads < NIter /\ p.wr < WtMax /\ n = Place(p.spd, p.wr + 1, t, 1)
        \/ ~ p.sam < NSam /\ ~ p.iter + NThreads < NIter /\ ~ p.wr < WtMax /\ p.spd < NSpd
             /\ n = Place(p.spd + 1, WtMin, t, 1)
        \/ ~ p.sam < NSam /\ ~ p.iter + NThreads < NIter /\ ~ p.wr < WtMax /\ ~ p.spd < NSpd /\ n = NoPos
    BY DEF NextPos, MoreIterations, Stride
  <1> HIDE DEF n
  <1>3. n # NoPos => n.iter \in {p.iter, p.iter + NThreads, t}
    BY <1>2 DEF Place
  <1>4. n # NoPos => n \in PlacesOf(t)
    <2>1. (p.iter + NThreads) % NThreads = t /\ t % NThreads = t
      BY <1>0, Remainders
    <2> QED BY <1>0, <1>1, <1>3, <2>1 DEF PlacesOf
  <1>5. ASSUME NEW q \in PlacesOf(t)
        PROVE  (IF n = NoPos THEN TRUE ELSE Earlier(q, n)) <=> (Earlier(q, p) \/ q = p)
    <2>0. /\ q \in Places /\ q.iter % NThreads = t
          /\ q.spd \in Int /\ q.wr \in Int /\ q.iter \in Nat /\ q.sam \in Int
          /\ 1 <= q.spd /\ q.spd <= NSpd /\ WtMin <= q.wr /\ q.wr <= WtMax
          /\ q.iter < NIter /\ 1 <= q.sam /\ q.sam <= NSam
      BY PlaceFields DEF PlacesOf
    <2>1. /\ t <= q.iter
          /\ p.iter < q.iter => p.iter + NThreads <= q.iter
          /\ q.iter < p.iter => q.iter + NThreads <= p.iter
      BY <1>0, <2>0, Remainders
    <2>2. q = p <=> q.spd = p.spd /\ q.wr = p.wr /\ q.iter = p.iter /\ q.sam = p.sam
      BY <1>0, <2>0, PlaceFields
    <2>3. /\ 1 <= p.spd /\ p.spd <= NSpd /\ WtMin <= p.wr /\ p.wr <= WtMax
          /\ p.iter < NIter /\ 1 <= p.sam /\ p.sam <= NSam
          /\ NSpd \in Int /\ WtMin \in Int /\ WtMax \in Int /\ NIter \in Int /\ NSam \in Int
      BY <1>0, PlaceFields, Sizes
    <2>4. n = NoPos \/ n # NoPos
      OBVIOUS
    <2>5. CASE n = NoPos
      <3>1. ~ p.sam < NSam /\ ~ p.iter + NThreads < NIter /\ ~ p.wr < WtMax /\ ~ p.spd < NSpd
        <4>1. n.spd = 0
          BY <2>5 DEF NoPos, Place
        <4>2. p.spd # 0 /\ p.spd + 1 # 0
          BY <1>0, <2>3
        <4> QED BY <1>2, <4>1, <4>2 DEF Place
      <3>2. p.sam = NSam /\ p.wr = WtMax /\ p.spd = NSpd
        <4>1. p.sam \in Int /\ p.wr \in Int /\ p.spd \in Int
          BY <1>0
        <4> QED BY <2>3, <3>1, <4>1
      <3>3. q.spd <= p.spd /\ q.wr <= p.wr /\ q.sam <= p.sam /\ q.iter <= p.iter
        BY <1>0, <2>0, <2>1, <2>3, <3>1, <3>2
      <3>4. Earlier(q, p) \/ q = p
        BY <1>0, <2>0, <2>2, <3>3 DEF Earlier
      <3> QED BY <2>5, <3>4
    <2>6. CASE n # NoPos
      BY <1>0, <1>2, <2>0, <2>1, <2>2, <2>3, <2>6 DEF Earlier, Place
    <2> QED BY <2>5, <2>6
  <1>6. PassedAt(t, n) = PassedAt(t, p) \cup {p}
    BY <1>0, <1>5 DEF PassedAt
  <1> QED BY <1>4, <1>6 DEF n

\* What a share depends on.
LEMMA ShareKept ==
    ASSUME UNCHANGED <<input, is_tag>>, NEW t \in Threads, arr'[t] = arr[t], pos'[t] = pos[t]
    PROVE  Share(t)' <=> Share(t)
  <1>1. /\ ForcedHere' = ForcedHere /\ PassedAt(t, pos[t])' = PassedAt(t, pos[t])
        /\ ForcedEntries(t)' = ForcedEntries(t)
        /\ \A Q : EntriesOf(t, Q)' = EntriesOf(t, Q)
    BY DEF ForcedHere, PassedAt, EntriesOf, ForcedEntries, input, PlacesOf
  <1>2. PassedAt(t, pos[t])' = PassedAt(t, pos'[t])
    BY DEF PassedAt
  <1> QED BY <1>1, <1>2 DEF Share

\* The entries of one place more.
LEMMA EntriesOfMore ==
    ASSUME NEW t, NEW Q, NEW q
    PROVE  EntriesOf(t, Q \cup {q}) =
             IF table[is_tag][Partition(q)] = Invalid THEN EntriesOf(t, Q)
             ELSE EntriesOf(t, Q) \cup {Entry(t, q, table[is_tag][Partition(q)])}
  BY DEF EntriesOf

LEMMA ShareEvaluated ==
    ASSUME TypeOK, NEW t \in Threads, Evaluate(t), Share(t)
    PROVE  Share(t)'
  <1> DEFINE q == pos[t]
             m == Found(q)
  <1>1. /\ q \in Places
        /\ m = Invalid => arr' = arr
        /\ m # Invalid => arr' = [arr EXCEPT ![t] = arr[t] \cup {Entry(t, Evaluated(q), m)}]
        /\ pos' = [pos EXCEPT ![t] = NextPos(t, q)]
        /\ UNCHANGED <<input, is_tag>> /\ q # NoPos
    BY EvaluateStep, PlaceFields DEF main
  <1>2. /\ pos'[t] = NextPos(t, q)
        /\ arr'[t] = IF m = Invalid THEN arr[t] ELSE arr[t] \cup {Entry(t, Evaluated(q), m)}
    BY <1>1 DEF TypeOK
  <1>3. m = table[is_tag][Partition(Evaluated(q))]
    BY DEF Found
  <1>4. ForcedHere' = ForcedHere
    BY <1>1 DEF ForcedHere, input
  <1>5. \A Q : EntriesOf(t, Q)' = EntriesOf(t, Q)
    BY <1>1 DEF EntriesOf, input
  <1>6. CASE ForcedHere
    <2>1. arr[t] = {} /\ NextPos(t, q) = NoPos /\ Evaluated(q) = Labelled(Forced, WtMin)
      BY <1>1, <1>6 DEF Share, NextPos, Evaluated
    <2>2. arr'[t] = ForcedEntries(t)
      BY <1>2, <1>3, <2>1 DEF ForcedEntries, EntriesOf
    <2> QED BY <1>2, <1>4, <1>5, <1>6, <2>1, <2>2 DEF Share, ForcedEntries
  <1>7. CASE ~ ForcedHere
    <2>1. q \in PlacesOf(t) /\ arr[t] = EntriesOf(t, PassedAt(t, q)) /\ Evaluated(q) = q
      BY <1>1, <1>7 DEF Share, Evaluated
    <2>2. arr'[t] = EntriesOf(t, PassedAt(t, q) \cup {q})
      BY <1>2, <1>3, <2>1, EntriesOfMore
    <2>3. /\ pos'[t] # NoPos => pos'[t] \in PlacesOf(t)
          /\ arr'[t] = EntriesOf(t, PassedAt(t, pos'[t]))
      BY <1>2, <1>7, <2>1, <2>2, StepPasses
    <2>4. PassedAt(t, pos[t])' = PassedAt(t, pos'[t]) /\ PlacesOf(t)' = PlacesOf(t)
      BY DEF PassedAt, PlacesOf
    <2> QED BY <1>4, <1>5, <1>7, <2>3, <2>4 DEF Share
  <1> QED BY <1>6, <1>7

\* Joined, the threads' lists are all the arrays there are.
LEMMA MergedIsAll ==
    ASSUME TypeOK, \A t \in Threads : Share(t) /\ pos[t] = NoPos
    PROVE  Merged = Arrays(is_tag)
  <1> DEFINE valid == {p \in Partitions : table[is_tag][p] # Invalid}
  <1>0. is_tag \in BOOLEAN
    BY DEF TypeOK
  <1>1. CASE ForcedHere
    <2>1. Partition(Labelled(Forced, WtMin)) = Forced /\ Forced \in Partitions
      BY Inputs DEF Partition, Labelled, Place, Partitions
    <2>2. \A t \in Threads : arr[t] = IF Forced \in valid
            THEN {Entry(t, Labelled(Forced, WtMin), table[is_tag][Forced])} ELSE {}
      BY <1>1, <2>1 DEF Share, ForcedEntries, EntriesOf
    <2>3. cfg.force /\ ~ is_tag
      BY <1>1 DEF ForcedHere
    <2>4. Arrays(is_tag) = {Entry(t, Labelled(Forced, WtMin), table[is_tag][Forced]) :
                               t \in {u \in Threads : Forced \in valid}}
      BY <2>3 DEF Arrays
    <2> DEFINE e(t) == Entry(t, Labelled(Forced, WtMin), table[is_tag][Forced])
    <2> HIDE DEF e, valid
    <2>5. CASE Forced \in valid
      <3>1. Arrays(is_tag) = {e(t) : t \in Threads}
        BY <2>4, <2>5 DEF e
      <3>2. \A t \in Threads : arr[t] = {e(t)}
        BY <2>2, <2>5 DEF e
      <3> QED BY <3>1, <3>2 DEF Merged
    <2>6. CASE Forced \notin valid
      <3>1. Arrays(is_tag) = {}
        BY <2>4, <2>6 DEF e
      <3>2. \A t \in Threads : arr[t] = {}
        BY <2>2, <2>6 DEF e
      <3> QED BY <3>1, <3>2 DEF Merged
    <2> QED BY <2>5, <2>6
  <1>2. CASE ~ ForcedHere
    <2>1. Arrays(is_tag) = {Entry(p.iter % NThreads, Labelled(p, w), table[is_tag][p]) :
                               p \in valid, w \in WtMin .. WtMax}
      BY <1>2 DEF Arrays, ForcedHere
    <2>2. \A t \in Threads : arr[t] = EntriesOf(t, PlacesOf(t))
      BY <1>2 DEF Share, PassedAt
    <2>3. ASSUME NEW t \in Threads, NEW q \in PlacesOf(t), table[is_tag][Partition(q)] # Invalid
          PROVE  Entry(t, q, table[is_tag][Partition(q)]) \in Arrays(is_tag)
      <3>1. q \in Places /\ q.iter % NThreads = t
        BY DEF PlacesOf
      <3>2. Partition(q) \in valid /\ q.wr \in WtMin .. WtMax
        BY <2>3, <3>1 DEF Places, Partition, Partitions
      <3>3. Labelled(Partition(q), q.wr) = q /\ Partition(q).iter = q.iter
        BY <3>1, PlaceFields DEF Labelled, Partition
      <3> QED BY <2>1, <3>1, <3>2, <3>3
    <2>4. ASSUME NEW p \in valid, NEW wt \in WtMin .. WtMax
          PROVE  Entry(p.iter % NThreads, Labelled(p, wt), table[is_tag][p]) \in Merged
      <3> DEFINE t == p.iter % NThreads
                 q == Labelled(p, wt)
      <3>1. /\ p.spd \in 1 .. NSpd /\ p.iter \in 0 .. NIter - 1 /\ p.sam \in 1 .. NSam
            /\ p = [spd |-> p.spd, iter |-> p.iter, sam |-> p.sam]
        BY DEF Partitions
      <3>2. t \in Threads
        BY <3>1, Sizes, Remainders DEF Threads
      <3>3. q \in Places /\ q.iter = p.iter
        BY <3>1, PlaceType DEF Labelled, Place
      <3>4. Partition(q) = p
        BY <3>1 DEF Partition, Labelled, Place
      <3>5. q \in PlacesOf(t)
        BY <3>3 DEF PlacesOf
      <3>6. Entry(t, q, table[is_tag][p]) \in EntriesOf(t, PlacesOf(t))
        BY <3>4, <3>5 DEF EntriesOf
      <3> QED BY <2>2, <3>2, <3>6 DEF Merged
    <2>5. Merged \subseteq Arrays(is_tag)
      BY <2>2, <2>3 DEF Merged, EntriesOf
    <2>6. Arrays(is_tag) \subseteq Merged
      BY <2>1, <2>4
    <2> QED BY <2>5, <2>6
  <1> QED BY <1>1, <1>2

-----------------------------------------------------------------------------
Combining == Searching => SharesInv

LEMMA SharesInit == Init => Combining
  BY Sizes DEF Init, Combining, SharesInv

\* The arrays there are do not change.
LEMMA ArraysKept ==
    ASSUME UNCHANGED input, NEW b \in BOOLEAN
    PROVE  Arrays(b)' = Arrays(b)
  BY DEF Arrays, input

LEMMA SharesCreate == ASSUME IInv, Combining, Create PROVE SharesInv'
  <1>1. /\ pc = "create" /\ pc' = "create" /\ created' = created + 1
        /\ created \in Threads /\ created < NThreads
        /\ tpc' = [tpc EXCEPT ![created] = "run"]
        /\ arr' = [arr EXCEPT ![created] = {}]
        /\ pos' = [pos EXCEPT ![created] = Place(1, WtMin, created, 1)]
        /\ UNCHANGED <<input, is_tag, tag_arr, data_arr>>
    BY Sizes DEF Create, IInv, TypeOK, Threads, lists
  <1>2. /\ SharesInv /\ TypeOK
    BY <1>1 DEF Combining, Searching, IInv
  <1>3. \A t \in Threads : t # created => tpc'[t] = tpc[t] /\ arr'[t] = arr[t] /\ pos'[t] = pos[t]
    BY <1>1, <1>2 DEF TypeOK
  <1>4. tpc'[created] = "run" /\ arr'[created] = {} /\ pos'[created] = Place(1, WtMin, created, 1)
    BY <1>1, <1>2 DEF TypeOK
  <1>5. \A t \in Threads : tpc'[t] = "exited" => pos'[t] = NoPos
    BY <1>2, <1>3, <1>4 DEF SharesInv
  <1>6. \A t \in Threads : t < created' => Share(t)'
    <2>1. ASSUME NEW t \in Threads, t < created', t # created PROVE Share(t)'
      <3>1. t < created
        BY <1>1, <2>1 DEF Threads
      <3> QED BY <1>1, <1>2, <1>3, <2>1, <3>1, ShareKept DEF SharesInv
    <2>2. ASSUME NEW t \in Threads, t = created PROVE Share(t)'
      <3> DEFINE p == Place(1, WtMin, t, 1)
      <3>1. p \in PlacesOf(t) /\ PassedAt(t, p) = {} /\ p # NoPos
        BY FirstPlace, PlaceFields DEF PlacesOf
      <3>2. pos'[t] = p /\ arr'[t] = {}
        BY <1>4, <2>2
      <3> HIDE DEF p
      <3>3. PassedAt(t, pos[t])' = {} /\ PlacesOf(t)' = PlacesOf(t)
        BY <3>1, <3>2 DEF PassedAt, PlacesOf
      <3>4. EntriesOf(t, {})' = {}
        BY DEF EntriesOf
      <3> QED BY <3>1, <3>2, <3>3, <3>4 DEF Share
    <2> QED BY <2>1, <2>2
  <1> QED BY <1>1, <1>2, <1>5, <1>6, ArraysKept DEF SharesInv, input

LEMMA SharesEvaluate ==
    ASSUME IInv, Combining, Searching, NEW t \in Threads, Evaluate(t)
    PROVE  SharesInv'
  <1>1. /\ TypeOK /\ tpc[t] = "run" /\ pos[t] # NoPos
        /\ UNCHANGED <<input, pc, is_tag, created, joined, tpc, tag_arr, data_arr>>
    <2>1. TypeOK
      BY DEF IInv
    <2>2. tpc[t] = "run" /\ pos[t] # NoPos
      BY DEF Evaluate
    <2>3. UNCHANGED <<input, main, tpc, lists, minima, choice>>
      BY DEF Evaluate
    <2> QED BY <2>1, <2>2, <2>3 DEF main, lists
  <1>2. pc \in {"create", "join"} /\ (pc = "create" => t < created) /\ SharesInv
    <2>1. ThreadsInv /\ SharesInv
      BY DEF IInv, Combining
    <2> QED BY <1>1, <2>1 DEF ThreadsInv, TypeOK, Threads
  <1>3. Share(t)
    BY <1>2 DEF SharesInv
  <1>4. Share(t)'
    BY <1>1, <1>3, ShareEvaluated
  <1>5. \A u \in Threads : u # t => arr'[u] = arr[u] /\ pos'[u] = pos[u]
    BY <1>1 DEF Evaluate, TypeOK
  <1>6. \A u \in Threads : u # t => (Share(u)' <=> Share(u))
    BY <1>1, <1>5, ShareKept
  <1>7. \A u \in Threads : tpc'[u] = "exited" => pos'[u] = NoPos
    BY <1>1, <1>2, <1>5 DEF SharesInv
  <1> QED BY <1>1, <1>2, <1>4, <1>6, <1>7, ArraysKept DEF SharesInv, input

\* When all are joined, all have passed all of their places.
LEMMA AllShared ==
    ASSUME IInv, Combining, pc = "join", joined = NThreads
    PROVE  Merged = Arrays(is_tag)
  <1>1. TypeOK /\ ThreadsInv /\ SharesInv
    BY DEF IInv, Combining, Searching
  <1>2. \A t \in Threads : t < joined
    BY Sizes DEF Threads
  <1>3. \A t \in Threads : Share(t) /\ pos[t] = NoPos
    BY <1>1, <1>2 DEF ThreadsInv, SharesInv
  <1> QED BY <1>1, <1>3, MergedIsAll

LEMMA SharesNext == IInv /\ Combining /\ [Next]_vars => Combining'
  <1> SUFFICES ASSUME IInv, Combining, [Next]_vars, Searching' PROVE SharesInv'
    BY DEF Combining
  <1>0. TypeOK
    BY DEF IInv
  <1>1. CASE BeginPhase
    <2>1. /\ pc = "start" /\ pc' = "create" /\ created' = 0 /\ is_tag' = cfg.is_cache
          /\ UNCHANGED <<input, tpc, pos, arr, lists>>
      BY <1>1 DEF BeginPhase, threads
    <2>2. SharesInv /\ (\A t \in Threads : ~ t < 0)
      BY <2>1 DEF Combining, Searching, Threads
    <2> QED BY <2>1, <2>2 DEF SharesInv, input
  <1>2. CASE Create
    BY <1>2, SharesCreate
  <1>3. CASE AllCreated
    <2>1. /\ pc = "create" /\ pc' = "join" /\ created = NThreads
          /\ UNCHANGED <<input, is_tag, tpc, pos, arr, tag_arr, data_arr>>
      BY <1>3 DEF AllCreated, threads, lists
    <2>2. SharesInv /\ (\A t \in Threads : t < created)
      BY <2>1, Sizes DEF Combining, Searching, Threads
    <2>3. \A t \in Threads : Share(t)'
      BY <2>1, <2>2, ShareKept DEF SharesInv
    <2> QED BY <2>1, <2>2, <2>3, ArraysKept DEF SharesInv, input
  <1>4. CASE Join
    <2>1. /\ pc = "join" /\ pc' = "join"
          /\ UNCHANGED <<input, is_tag, tpc, pos, arr, tag_arr, data_arr>>
      BY <1>4 DEF Join, threads, lists
    <2>2. SharesInv
      BY <2>1 DEF Combining, Searching
    <2>3. \A t \in Threads : Share(t)'
      BY <2>1, <2>2, ShareKept DEF SharesInv
    <2> QED BY <2>1, <2>2, <2>3, ArraysKept DEF SharesInv, input
  <1>5. CASE MergeTags
    <2>1. /\ pc = "join" /\ joined = NThreads /\ is_tag = TRUE /\ pc' = "create" /\ created' = 0
          /\ is_tag' = FALSE /\ tag_arr' = Merged
          /\ UNCHANGED <<input, tpc, pos>>
      BY <1>0, <1>5 DEF MergeTags, TypeOK
    <2>2. tag_arr' = Arrays(TRUE)'
      BY <2>1, AllShared, ArraysKept
    <2>3. SharesInv /\ (\A t \in Threads : ~ t < 0)
      BY <2>1 DEF Combining, Searching, Threads
    <2> QED BY <2>1, <2>2, <2>3 DEF SharesInv
  <1>6. CASE MergeData
    <2>1. /\ pc = "join" /\ joined = NThreads /\ is_tag = FALSE /\ pc' = "minima"
          /\ data_arr' = Merged
          /\ UNCHANGED <<input, is_tag, tpc, pos, tag_arr>>
      BY <1>0, <1>6 DEF MergeData, TypeOK
    <2>2. data_arr' = Arrays(FALSE)'
      BY <2>1, AllShared, ArraysKept
    <2>3. SharesInv
      BY <2>1 DEF Combining, Searching
    <2> QED BY <2>1, <2>2, <2>3, ArraysKept DEF SharesInv, input
  <1>7. CASE MergeMinima
    <2>1. /\ pc = "minima" /\ pc' = "minima"
          /\ UNCHANGED <<input, is_tag, tpc, pos, arr, tag_arr, data_arr>>
      BY <1>7 DEF MergeMinima, threads, lists
    <2>2. SharesInv
      BY <2>1 DEF Combining, Searching
    <2> QED BY <2>1, <2>2, ArraysKept DEF SharesInv, input
  <1>8. CASE FilterAndCombine
    BY <1>8 DEF FilterAndCombine, Fail, Combine, Searching
  <1>9. CASE Examine
    BY <1>9 DEF Examine, Searching, main
  <1>10. CASE Return
    BY <1>10 DEF Return, Searching
  <1>11. ASSUME NEW t \in Threads, Evaluate(t) PROVE SharesInv'
    <2>1. Searching
      BY <1>11 DEF Evaluate, Searching, main
    <2> QED BY <1>11, <2>1, SharesEvaluate
  <1>12. ASSUME NEW t \in Threads, Exit(t) PROVE SharesInv'
    <2>1. /\ UNCHANGED <<input, pc, is_tag, created, pos, arr, tag_arr, data_arr>> /\ Searching
          /\ tpc' = [tpc EXCEPT ![t] = "exited"] /\ pos[t] = NoPos
      BY <1>12 DEF Exit, Searching, main, lists
    <2>2. SharesInv
      BY <2>1 DEF Combining
    <2>3. \A u \in Threads : Share(u)' <=> Share(u)
      BY <2>1, ShareKept
    <2>4. \A u \in Threads : tpc'[u] = "exited" => pos'[u] = NoPos
      BY <1>0, <2>1, <2>2 DEF SharesInv, TypeOK
    <2> QED BY <2>1, <2>2, <2>3, <2>4, ArraysKept DEF SharesInv, input
  <1>13. CASE UNCHANGED vars
    <2>1. /\ UNCHANGED <<input, pc, is_tag, created, tpc, pos, arr, tag_arr, data_arr>> /\ Searching
      BY <1>13 DEF vars, Searching, main, threads, lists
    <2>2. SharesInv
      BY <2>1 DEF Combining
    <2>3. \A u \in Threads : Share(u)' <=> Share(u)
      BY <2>1, ShareKept
    <2> QED BY <2>1, <2>2, <2>3, ArraysKept DEF SharesInv, input
  <1> QED
    BY <1>1, <1>2, <1>3, <1>4, <1>5, <1>6, <1>7, <1>8, <1>9, <1>10, <1>11, <1>12, <1>13
    DEF Next, Main, Terminated

LEMMA OnceFromInv == IInv /\ Combining => EveryPartitionOnce
  <1> SUFFICES ASSUME IInv, Combining, pc = "minima"
               PROVE  data_arr = Arrays(FALSE) /\ (cfg.is_cache => tag_arr = Arrays(TRUE))
    BY DEF EveryPartitionOnce
  <1>1. SharesInv /\ ListsInv /\ is_tag = FALSE
    BY DEF Combining, Searching, IInv, ListsInv, TypeOK
  <1> QED BY <1>1 DEF SharesInv

(* The strides of the threads share out the partitions: for any number of  *)
(* threads, sizes of the loops and wire types, and under every schedule,   *)
(* the merged lists are exactly the arrays there are (Ucache.cc:98-171).   *)
THEOREM PartitionsSharedOut == Spec => []EveryPartitionOnce
  BY IInvInit, InvNext, SharesInit, SharesNext, OnceFromInv, PTL DEF Spec
-----------------------------------------------------------------------------
(* The order of mem_array::lt, and a list sorted by it. *)

Total(S) == \A e, f \in S : e = f \/ Before(e, f) \/ Before(f, e)

LEMMA EntryFields ==
    ASSUME NEW e \in Entries
    PROVE  /\ e.spd \in Int /\ e.iter \in Int /\ e.sam \in Int /\ e.wr \in Int /\ e.tid \in Int
           /\ e.delay \in 1 .. Big - 1 /\ e.dyn \in 1 .. Big - 1
           /\ e = [tid |-> e.tid, spd |-> e.spd, wr |-> e.wr, iter |-> e.iter,
                   sam |-> e.sam, delay |-> e.delay, dyn |-> e.dyn]
  BY Sizes DEF Entries, Threads

LEMMA BeforeParts ==
    ASSUME NEW a, NEW b
    PROVE  Before(a, b) <=>
             \/ a.spd < b.spd
             \/ a.spd = b.spd /\ a.iter < b.iter
             \/ a.spd = b.spd /\ a.iter = b.iter /\ a.sam < b.sam
             \/ /\ a.spd = b.spd /\ a.iter = b.iter /\ a.sam = b.sam
                /\ a.wr < b.wr \/ (a.wr = b.wr /\ a.tid < b.tid)
  BY DEF Before, Partition

LEMMA BeforeOrder ==
    ASSUME NEW a \in Entries, NEW b \in Entries, NEW c \in Entries
    PROVE  /\ ~ Before(a, a)
           /\ Before(a, b) /\ Before(b, c) => Before(a, c)
           /\ Before(a, b) /\ Before(b, c) /\ Partition(a) = Partition(c)
                => Partition(a) = Partition(b)
  <1> DEFINE Fields(e) == e.spd \in Int /\ e.iter \in Int /\ e.sam \in Int
                            /\ e.wr \in Int /\ e.tid \in Int
  <1>1. Fields(a) /\ Fields(b) /\ Fields(c)
    BY EntryFields
  <1>2. \A e, f : Partition(e) = Partition(f) <=>
           e.spd = f.spd /\ e.iter = f.iter /\ e.sam = f.sam
    BY DEF Partition
  <1>3. ~ Before(a, a)
    BY <1>1, BeforeParts
  <1>4. Before(a, b) /\ Before(b, c) => Before(a, c)
    BY <1>1, BeforeParts
  <1>5. Before(a, b) /\ Before(b, c) /\ Partition(a) = Partition(c) => Partition(a) = Partition(b)
    BY <1>1, <1>2, BeforeParts
  <1> QED BY <1>3, <1>4, <1>5

\* Arrays at different places of the loops or of different threads are in order.
LEMMA BeforeTotal ==
    ASSUME NEW a \in Entries, NEW b \in Entries
    PROVE  \/ Before(a, b) \/ Before(b, a)
           \/ /\ Partition(a) = Partition(b)
              /\ a.wr = b.wr /\ a.tid = b.tid
  <1>1. /\ a.spd \in Int /\ a.iter \in Int /\ a.sam \in Int /\ a.wr \in Int /\ a.tid \in Int
        /\ b.spd \in Int /\ b.iter \in Int /\ b.sam \in Int /\ b.wr \in Int /\ b.tid \in Int
    BY EntryFields
  <1>2. Partition(a) = Partition(b) <=> a.spd = b.spd /\ a.iter = b.iter /\ a.sam = b.sam
    BY DEF Partition
  <1> QED BY <1>1, <1>2, BeforeParts

\* Sorted lists a finite set once, in order.
LEMMA SortedIs ==
    ASSUME NEW S, S \subseteq Entries, IsFiniteSet(S), Total(S)
    PROVE  /\ Cardinality(S) \in Nat
           /\ Sorted(S) \in [1 .. Cardinality(S) -> S]
           /\ \A e \in S : \E i \in 1 .. Cardinality(S) : Sorted(S)[i] = e
           /\ \A i, j \in 1 .. Cardinality(S) : i < j => Before(Sorted(S)[i], Sorted(S)[j])
  <1> DEFINE n == Cardinality(S)
             Below(e) == {f \in S : Before(f, e)}
             rank == [e \in S |-> Cardinality(Below(e))]
  <1>0. n \in Nat
    BY FS_CardinalityType
  <1>1. ASSUME NEW e \in S PROVE IsFiniteSet(Below(e)) /\ rank[e] \in 0 .. n - 1
    <2>1. Below(e) \in SUBSET S /\ Below(e) # S
      BY BeforeOrder
    <2>2. IsFiniteSet(Below(e)) /\ Cardinality(Below(e)) <= n /\ Cardinality(Below(e)) # n
      BY <2>1, FS_Subset
    <2>3. Cardinality(Below(e)) \in Nat
      BY <2>2, FS_CardinalityType
    <2> HIDE DEF n, Below
    <2> QED BY <1>0, <2>2, <2>3
  <1>2. ASSUME NEW e \in S, NEW f \in S, Before(e, f) PROVE rank[e] < rank[f]
    <2>1. Below(e) \in SUBSET Below(f) /\ e \in Below(f) /\ e \notin Below(e)
      BY <1>2, BeforeOrder
    <2>2. Below(e) # Below(f)
      BY <2>1
    <2>3. Cardinality(Below(e)) <= Cardinality(Below(f)) /\ Cardinality(Below(e)) # Cardinality(Below(f))
      BY <1>1, <2>1, <2>2, FS_Subset
    <2>4. rank[e] \in 0 .. n - 1 /\ rank[f] \in 0 .. n - 1
      BY <1>1
    <2>5. rank[e] <= rank[f] /\ rank[e] # rank[f]
      BY <2>3
    <2> HIDE DEF rank, n
    <2> QED BY <1>0, <2>4, <2>5
  <1>3. rank \in [S -> 0 .. n - 1]
    BY <1>1
  <1>4. \A e, f \in S : rank[e] = rank[f] => e = f
    <2> HIDE DEF rank, n
    <2>1. \A e, f \in S : ~ (Before(e, f) /\ rank[e] = rank[f])
      BY <1>0, <1>2, <1>3
    <2> QED BY <2>1 DEF Total
  <1>5. rank \in Injection(S, 0 .. n - 1)
    <2> HIDE DEF rank
    <2> QED BY <1>3, <1>4 DEF Injection, IsInjective
  <1>6. rank \in Surjection(S, 0 .. n - 1)
    <2>1. IsFiniteSet(0 .. n - 1) /\ Cardinality(0 .. n - 1) = n
      BY <1>0, FS_Interval
    <2> HIDE DEF rank
    <2> QED BY <1>5, <2>1, FS_Injection
  <1>7. \A i \in 1 .. n : \E e \in S : rank[e] = i - 1
    <2> HIDE DEF rank, n
    <2>1. \A i \in 1 .. n : i - 1 \in 0 .. n - 1
      BY <1>0
    <2> QED BY <1>6, <2>1 DEF Surjection
  <1>8. ASSUME NEW i \in 1 .. n PROVE Sorted(S)[i] \in S /\ rank[Sorted(S)[i]] = i - 1
    <2>1. Sorted(S)[i] = CHOOSE e \in S : Cardinality(Below(e)) = i - 1
      BY DEF Sorted
    <2>2. \E e \in S : Cardinality(Below(e)) = i - 1
      BY <1>7
    <2> DEFINE x == CHOOSE e \in S : Cardinality(Below(e)) = i - 1
    <2> HIDE DEF Below
    <2>3. x \in S /\ Cardinality(Below(x)) = i - 1
      BY <2>2
    <2> HIDE DEF x
    <2> QED BY <2>1, <2>3 DEF x
  <1>9. Sorted(S) \in [1 .. n -> S]
    <2> DEFINE F(i) == CHOOSE e \in S : Cardinality({f \in S : Before(f, e)}) = i - 1
    <2>1. Sorted(S) = [i \in 1 .. n |-> F(i)]
      BY DEF Sorted
    <2> HIDE DEF F, n, rank
    <2>2. \A i \in 1 .. n : Sorted(S)[i] = F(i)
      BY <2>1
    <2> QED BY <1>8, <2>1, <2>2
  <1>10. \A e \in S : \E i \in 1 .. n : Sorted(S)[i] = e
    <2> TAKE e \in S
    <2>1. PICK k \in 1 .. n : k - 1 = rank[e]
      <3>1. rank[e] \in 0 .. n - 1
        BY <1>1
      <3> HIDE DEF rank, n
      <3>2. rank[e] + 1 \in 1 .. n /\ (rank[e] + 1) - 1 = rank[e]
        BY <1>0, <3>1
      <3> QED BY <3>2
    <2>2. Sorted(S)[k] \in S /\ rank[Sorted(S)[k]] = k - 1
      BY <1>8
    <2> HIDE DEF rank, n
    <2> QED BY <1>4, <2>1, <2>2
  <1>11. ASSUME NEW i \in 1 .. n, NEW j \in 1 .. n, i < j
         PROVE  Before(Sorted(S)[i], Sorted(S)[j])
    <2> DEFINE a == Sorted(S)[i]
               b == Sorted(S)[j]
    <2>1. a \in S /\ b \in S /\ rank[a] = i - 1 /\ rank[b] = j - 1
      BY <1>8
    <2>2. rank[a] < rank[b]
      <3> HIDE DEF rank, a, b, n
      <3> QED BY <1>0, <1>11, <2>1
    <2>3. a # b /\ ~ Before(b, a)
      <3> HIDE DEF rank, a, b, n
      <3>1. rank[a] \in Int /\ rank[b] \in Int
        BY <1>0, <1>11, <2>1
      <3> QED BY <1>2, <2>1, <2>2, <3>1
    <2> QED BY <2>1, <2>3 DEF Total
  <1> HIDE DEF n
  <1> QED BY <1>0, <1>9, <1>10, <1>11 DEF n

\* A finite set that is not empty has a last element.
LEMMA LastExists ==
    ASSUME NEW S, S \subseteq Entries, IsFiniteSet(S), Total(S), S # {}
    PROVE  \E e \in S : \A f \in S : f = e \/ Before(f, e)
  <1> DEFINE n == Cardinality(S)
  <1>1. /\ n \in Nat /\ Sorted(S) \in [1 .. n -> S]
        /\ \A e \in S : \E i \in 1 .. n : Sorted(S)[i] = e
        /\ \A i, j \in 1 .. n : i < j => Before(Sorted(S)[i], Sorted(S)[j])
    BY SortedIs
  <1> HIDE DEF n
  <1>2. n \in 1 .. n
    BY <1>1
  <1>3. \A i \in 1 .. n : i = n \/ i < n
    BY <1>1
  <1>4. Sorted(S)[n] \in S
    BY <1>1, <1>2
  <1>5. \A f \in S : f = Sorted(S)[n] \/ Before(f, Sorted(S)[n])
    BY <1>1, <1>2, <1>3
  <1> QED BY <1>4, <1>5
-----------------------------------------------------------------------------
\* The arrays of a phase: their place, and their metrics off the table.
LEMMA ArraysAre ==
    ASSUME TypeOK, NEW b \in BOOLEAN
    PROVE  /\ Arrays(b) \subseteq Entries
           /\ \A e \in Arrays(b) : /\ Partition(e) \in Partitions
                                   /\ table[b][Partition(e)] # Invalid
                                   /\ e.delay = table[b][Partition(e)].delay
                                   /\ e.dyn = table[b][Partition(e)].dyn
  <1> DEFINE valid == {p \in Partitions : table[b][p] # Invalid}
  <1>1. table[b] \in [Partitions -> Outcomes]
    BY Inputs DEF TypeOK
  <1>2. ASSUME NEW p \in valid, NEW w \in WtMin .. WtMax, NEW t \in Threads
        PROVE  LET e == Entry(t, Labelled(p, w), table[b][p])
               IN  e \in Entries /\ Partition(e) = p
                     /\ e.delay = table[b][p].delay /\ e.dyn = table[b][p].dyn
    <2>1. table[b][p] \in Metrics
      BY <1>1 DEF Outcomes
    <2>2. /\ p.spd \in 1 .. NSpd /\ p.iter \in 0 .. NIter - 1 /\ p.sam \in 1 .. NSam
          /\ p = [spd |-> p.spd, iter |-> p.iter, sam |-> p.sam]
      BY DEF Partitions
    <2>3. table[b][p].delay \in 1 .. Big - 1 /\ table[b][p].dyn \in 1 .. Big - 1
      BY <2>1 DEF Metrics
    <2> QED BY <2>2, <2>3 DEF Entry, Labelled, Place, Entries, Partition
  <1>3. WtMin \in WtMin .. WtMax /\ Forced \in Partitions
    BY Sizes, Inputs
  <1>4. \A p \in Partitions : (p.iter % NThreads) \in Threads
    <2>1. \A p \in Partitions : p.iter \in Nat
      BY Sizes DEF Partitions
    <2> QED BY <2>1, Sizes, Remainders DEF Threads
  <1>5. ASSUME NEW e \in Arrays(b)
        PROVE  \E p \in valid, w \in WtMin .. WtMax, t \in Threads :
                  e = Entry(t, Labelled(p, w), table[b][p])
    <2>1. CASE cfg.force /\ ~ b
      <3>1. PICK t \in {u \in Threads : Forced \in valid} :
               e = Entry(t, Labelled(Forced, WtMin), table[b][Forced])
        BY <2>1 DEF Arrays
      <3> QED BY <1>3, <3>1
    <2>2. CASE ~ (cfg.force /\ ~ b)
      <3>1. PICK p \in valid, w \in WtMin .. WtMax :
               e = Entry(p.iter % NThreads, Labelled(p, w), table[b][p])
        BY <2>2 DEF Arrays
      <3> QED BY <1>4, <3>1
    <2> QED BY <2>1, <2>2
  <1> HIDE DEF valid
  <1>6. ASSUME NEW e \in Arrays(b)
        PROVE  /\ e \in Entries /\ Partition(e) \in valid
               /\ e.delay = table[b][Partition(e)].delay
               /\ e.dyn = table[b][Partition(e)].dyn
    BY <1>2, <1>5, <1>6
  <1> QED BY <1>6 DEF valid

LEMMA ArraysInOrder ==
    ASSUME TypeOK, NEW b \in BOOLEAN
    PROVE  Total(Arrays(b)) /\ IsFiniteSet(Arrays(b))
  <1> DEFINE A == Arrays(b)
             S1 == Threads
             S2 == S1 \X (1 .. NSpd)
             S3 == S2 \X (WtMin .. WtMax)
             S4 == S3 \X (0 .. NIter - 1)
             S5 == S4 \X (1 .. NSam)
             key == [e \in A |-> << << << <<e.tid, e.spd>>, e.wr>>, e.iter>>, e.sam>>]
  <1>1. ASSUME NEW e \in A, NEW f \in A, Partition(e) = Partition(f), e.wr = f.wr, e.tid = f.tid
        PROVE  e = f
    <2>1. e.delay = f.delay /\ e.dyn = f.dyn /\ e \in Entries /\ f \in Entries
      BY <1>1, ArraysAre
    <2>2. e.spd = f.spd /\ e.iter = f.iter /\ e.sam = f.sam
      BY <1>1 DEF Partition
    <2> HIDE DEF A
    <2> QED BY <1>1, <2>1, <2>2 DEF Entries
  <1>2. Total(A)
    BY <1>1, ArraysAre, BeforeTotal DEF Total
  <1>3. IsFiniteSet(S5)
    <2>1. /\ IsFiniteSet(Threads) /\ IsFiniteSet(1 .. NSpd) /\ IsFiniteSet(WtMin .. WtMax)
          /\ IsFiniteSet(0 .. NIter - 1) /\ IsFiniteSet(1 .. NSam)
      BY Sizes, FS_Interval DEF Threads
    <2>2. IsFiniteSet(S2)
      BY <2>1, FS_Product
    <2>3. IsFiniteSet(S3)
      BY <2>1, <2>2, FS_Product
    <2>4. IsFiniteSet(S4)
      BY <2>1, <2>3, FS_Product
    <2> QED BY <2>1, <2>4, FS_Product
  <1>4. ASSUME NEW e \in A
        PROVE  /\ e.tid \in Threads /\ e.spd \in 1 .. NSpd /\ e.wr \in WtMin .. WtMax
               /\ e.iter \in 0 .. NIter - 1 /\ e.sam \in 1 .. NSam
    BY ArraysAre DEF Entries
  <1>5. key \in [A -> S5]
    <2> HIDE DEF A
    <2> QED BY <1>4
  <1>6. ASSUME NEW e \in A, NEW f \in A, key[e] = key[f] PROVE e = f
    <2>1. e.tid = f.tid /\ e.spd = f.spd /\ e.wr = f.wr /\ e.iter = f.iter /\ e.sam = f.sam
      BY <1>6
    <2> QED BY <1>1, <2>1 DEF Partition
  <1>7. key \in Injection(A, S5)
    <2> HIDE DEF key, A, S5
    <2> QED BY <1>5, <1>6 DEF Injection, IsInjective
  <1>8. IsFiniteSet(A)
    <2> HIDE DEF key, A, S5
    <2> QED BY <1>3, <1>7, FS_Injection
  <1> QED BY <1>2, <1>8
-----------------------------------------------------------------------------
(* The organizations offered and what they cost. *)

\* Largest: what no table and no organization made of it exceeds.
Largest(Top) == 2 * Top + 1

(* Big is above every cost: no delay or energy of the tables is above Top  *)
(* and the products of the costs stay below it (BIGNUM of cacti/const.h).  *)
CostsBelowBig(Top) ==
    LET M == Largest(Top)
    IN  /\ \A f \in TagTables \cup DataTables : \A p \in Partitions :
              f[p].delay <= Top /\ f[p].dyn <= Top
        /\ M * M * M < Big
        /\ (DelayWt + DynWt) * (M * M) < Big

Org(e) == IF cfg.is_cache THEN Combined(FilteredTag(Arrays(TRUE)), e) ELSE Alone(e)

\* The list Combine hands to find_optimal_uca.
Kept == FilteredData(Arrays(FALSE))
Offered == [i \in DOMAIN Sorted(Kept) |-> Org(Sorted(Kept)[i])]
Offers == Cardinality(Kept)

\* The costs of m over the minima min, all within 1 .. M.
LEMMA ProductBelow ==
    ASSUME NEW M \in Nat, NEW a \in 0 .. M, NEW K \in Nat, NEW b \in 0 .. K
    PROVE  a * b \in 0 .. M * K
  <1>1. a * b \in Nat /\ M * K \in Nat
    OBVIOUS
  <1>2. a * b <= M * b
    BY Z3
  <1>3. M * b <= M * K
    BY Z3
  <1>4. M * b \in Int
    OBVIOUS
  <1> QED BY <1>1, <1>2, <1>3, <1>4

LEMMA Weights == DelayWt \in Nat /\ DynWt \in Nat /\ DelayDev \in Nat /\ DynDev \in Nat
  BY SolveAssumption

LEMMA CostBelowBig ==
    ASSUME NEW Top \in Nat, CostsBelowBig(Top),
           NEW m, m.delay \in 1 .. Largest(Top), m.dyn \in 1 .. Largest(Top),
           NEW min, min.delay \in 1 .. Largest(Top), min.dyn \in 1 .. Largest(Top)
    PROVE  Cost(m, min) \in Nat /\ Cost(m, min) < Big
  <1> DEFINE M == Largest(Top)
  <1>0. M \in Nat /\ M * M \in Nat /\ M * M * M \in Nat /\ M * M * M = M * (M * M)
    BY DEF Largest
  <1>1. /\ M * M * M < Big /\ (DelayWt + DynWt) * (M * M) < Big
    BY DEF CostsBelowBig
  <1> DEFINE d == m.delay
             y == m.dyn
             dd == min.delay
             dy == min.dyn
  <1>2. d \in 0 .. M /\ y \in 0 .. M /\ dd \in 0 .. M /\ dy \in 0 .. M
    BY <1>0
  <1>3. Cost(m, min) = CASE cfg.ed = 1 -> d * y
                         [] cfg.ed = 2 -> d * d * y
                         [] OTHER -> DelayWt * d * dy + DynWt * y * dd
    BY DEF Cost, Weighted
  <1> HIDE DEF M, d, y, dd, dy
  <1>4. d * y \in 0 .. M * M /\ d * d \in 0 .. M * M /\ d * dy \in 0 .. M * M /\ y * dd \in 0 .. M * M
    BY <1>0, <1>2, ProductBelow
  <1>5. d * d * y \in 0 .. M * M * M
    <2>1. y * (d * d) \in 0 .. M * (M * M)
      BY <1>0, <1>2, <1>4, ProductBelow
    <2>2. d * d * y = y * (d * d)
      BY <1>0, <1>2
    <2> QED BY <1>0, <2>1, <2>2
  <1>6. M * M <= M * M * M
    <2>1. CASE M = 0
      BY <2>1
    <2>2. CASE M # 0
      <3> DEFINE P == M * M
      <3>1. P \in Nat /\ M >= 1 /\ M * M * M = P * M
        BY <1>0, <2>2
      <3> HIDE DEF P
      <3>2. P <= P * M
        BY <1>0, <3>1, Z3
      <3> QED BY <3>1, <3>2 DEF P
    <2> QED BY <2>1, <2>2
  <1>7. DelayWt * d * dy + DynWt * y * dd \in Nat
          /\ DelayWt * d * dy + DynWt * y * dd <= (DelayWt + DynWt) * (M * M)
    <2> DEFINE P == M * M
               u == d * dy
               v == y * dd
    <2>1. P \in Nat /\ u \in 0 .. P /\ v \in 0 .. P
      BY <1>0, <1>4
    <2>2. DelayWt * d * dy = DelayWt * u /\ DynWt * y * dd = DynWt * v
      BY <1>0, <1>2, Weights
    <2> HIDE DEF P, u, v
    <2>3. DelayWt * u \in 0 .. DelayWt * P /\ DynWt * v \in 0 .. DynWt * P
      BY <2>1, Weights, ProductBelow
    <2>4. (DelayWt + DynWt) * P = DelayWt * P + DynWt * P
            /\ DelayWt * P \in Nat /\ DynWt * P \in Nat
      BY <2>1, Weights
    <2>5. (DelayWt + DynWt) * P = (DelayWt + DynWt) * (M * M)
      BY DEF P
    <2> HIDE DEF P
    <2> QED BY <2>2, <2>3, <2>4, <2>5
  <1>8. /\ d * y \in Nat /\ d * y < Big
        /\ d * d * y \in Nat /\ d * d * y < Big
    <2> DEFINE u == d * y
               v == d * d * y
               P == M * M
               Q == M * M * M
    <2>1. /\ u \in 0 .. P /\ v \in 0 .. Q /\ P \in Nat /\ Q \in Nat /\ P <= Q /\ Q < Big
      BY <1>0, <1>1, <1>4, <1>5, <1>6
    <2> HIDE DEF u, v, P, Q
    <2>2. u \in Nat /\ u < Big /\ v \in Nat /\ v < Big
      BY <2>1, BigSize
    <2> QED BY <2>2 DEF u, v
  <1>9. DelayWt * d * dy + DynWt * y * dd < Big
    <2> DEFINE u == DelayWt * d * dy + DynWt * y * dd
               v == (DelayWt + DynWt) * (M * M)
    <2>1. u \in Nat /\ u <= v /\ v < Big /\ v \in Int
      BY <1>0, <1>1, <1>7, Weights
    <2> HIDE DEF u, v
    <2>2. u < Big
      BY <2>1, BigSize
    <2> QED BY <2>2 DEF u
  <1>10. CASE cfg.ed = 1
    BY <1>3, <1>8, <1>10
  <1>11. CASE cfg.ed = 2
    BY <1>3, <1>8, <1>11
  <1>12. CASE cfg.ed # 1 /\ cfg.ed # 2
    BY <1>3, <1>7, <1>9, <1>12
  <1> QED BY <1>10, <1>11, <1>12

\* The metrics of the arrays and of what they combine to.
LEMMA OrgMetrics ==
    ASSUME NEW Top \in Nat, CostsBelowBig(Top), TypeOK,
           cfg.is_cache => CheapTags(Arrays(TRUE)) # {},
           NEW e \in Arrays(FALSE)
    PROVE  Org(e).delay \in 1 .. Largest(Top) /\ Org(e).dyn \in 1 .. Largest(Top)
  <1>1. ASSUME NEW b \in BOOLEAN, NEW f \in Arrays(b)
        PROVE  f.delay \in 1 .. Top /\ f.dyn \in 1 .. Top
    <2>1. /\ f \in Entries /\ Partition(f) \in Partitions
          /\ f.delay = table[b][Partition(f)].delay /\ f.dyn = table[b][Partition(f)].dyn
      BY ArraysAre
    <2>2. table[b] \in TagTables \cup DataTables
      BY DEF TypeOK
    <2>3. f.delay <= Top /\ f.dyn <= Top
      BY <2>1, <2>2 DEF CostsBelowBig
    <2>4. f.delay \in 1 .. Big - 1 /\ f.dyn \in 1 .. Big - 1
      BY <2>1, EntryFields
    <2> QED BY <2>3, <2>4, BigSize
  <1>2. e.delay \in 1 .. Top /\ e.dyn \in 1 .. Top
    BY <1>1
  <1>3. CASE cfg.is_cache
    <2> DEFINE T == CheapTags(Arrays(TRUE))
               tag == FilteredTag(Arrays(TRUE))
    <2>1. T \subseteq Arrays(TRUE) /\ T # {}
      BY <1>3 DEF CheapTags
    <2>2. T \subseteq Entries /\ IsFiniteSet(T) /\ Total(T)
      BY <2>1, ArraysAre, ArraysInOrder, FS_Subset DEF Total
    <2>3. tag \in T
      <3> HIDE DEF T
      <3>1. \E x \in T : \A f \in T : f = x \/ Before(f, x)
        BY <2>1, <2>2, LastExists
      <3> QED BY <3>1 DEF FilteredTag, T
    <2>4. tag.delay \in 1 .. Top /\ tag.dyn \in 1 .. Top
      BY <1>1, <2>1, <2>3
    <2>5. /\ Org(e).dyn = e.dyn + tag.dyn
          /\ Org(e).delay = CASE cfg.access = "fast" -> Max2(tag.delay, e.delay)
                             [] cfg.access = "sequential" -> tag.delay + e.delay
                             [] OTHER -> Max2(tag.delay + 1, e.delay - 1) + 1
      BY <1>3 DEF Org, Combined
    <2> HIDE DEF tag, T
    <2> QED BY <1>2, <2>4, <2>5 DEF Largest, Max2
  <1>4. CASE ~ cfg.is_cache
    <2>1. Org(e).dyn = e.dyn /\ Org(e).delay = e.delay
      BY <1>4 DEF Org, Alone
    <2> QED BY <1>2, <2>1 DEF Largest
  <1> QED BY <1>3, <1>4
-----------------------------------------------------------------------------
\* What the list handed over holds: every organization, in the order of the
\* data arrays.
LEMMA OfferedIs ==
    ASSUME TypeOK
    PROVE  /\ Offers \in Nat /\ DOMAIN Offered = 1 .. Offers
           /\ Organizations = {Offered[j] : j \in 1 .. Offers}
           /\ \A j \in 1 .. Offers : /\ Sorted(Kept)[j] \in Kept
                                     /\ Offered[j] = Org(Sorted(Kept)[j])
           /\ \A i, j \in 1 .. Offers : i < j => Before(Offered[i].data, Offered[j].data)
           /\ Kept = {} <=> Offers = 0
  <1>1. Kept \subseteq Arrays(FALSE)
    BY DEF Kept, FilteredData
  <1>2. Kept \subseteq Entries /\ IsFiniteSet(Kept) /\ Total(Kept)
    BY <1>1, ArraysAre, ArraysInOrder, FS_Subset DEF Total
  <1>3. /\ Offers \in Nat /\ Sorted(Kept) \in [1 .. Offers -> Kept]
        /\ \A e \in Kept : \E i \in 1 .. Offers : Sorted(Kept)[i] = e
        /\ \A i, j \in 1 .. Offers : i < j => Before(Sorted(Kept)[i], Sorted(Kept)[j])
    BY <1>2, SortedIs DEF Offers
  <1>4. DOMAIN Offered = 1 .. Offers /\ \A j \in 1 .. Offers : Offered[j] = Org(Sorted(Kept)[j])
    BY <1>3 DEF Offered
  <1>5. \A e : Org(e).data = e
    BY DEF Org, Combined, Alone
  <1>6. Organizations = {Org(e) : e \in Kept}
    BY DEF Organizations, Org, Kept
  <1>7. Organizations = {Offered[j] : j \in 1 .. Offers}
    BY <1>3, <1>4, <1>6
  <1>8. \A i, j \in 1 .. Offers : i < j => Before(Offered[i].data, Offered[j].data)
    BY <1>3, <1>4, <1>5
  <1>9. Kept = {} <=> Offers = 0
    BY <1>2, FS_EmptySet DEF Offers
  <1> QED BY <1>3, <1>4, <1>7, <1>8, <1>9

LEMMA OfferedMetrics ==
    ASSUME NEW Top \in Nat, CostsBelowBig(Top), TypeOK,
           cfg.is_cache => CheapTags(Arrays(TRUE)) # {},
           NEW j \in 1 .. Offers
    PROVE  Offered[j].delay \in 1 .. Largest(Top) /\ Offered[j].dyn \in 1 .. Largest(Top)
  <1>1. Sorted(Kept)[j] \in Kept /\ Offered[j] = Org(Sorted(Kept)[j])
    BY OfferedIs
  <1>2. Sorted(Kept)[j] \in Arrays(FALSE)
    BY <1>1 DEF Kept, FilteredData
  <1> QED BY <1>1, <1>2, OrgMetrics

LEMMA Unforced ==
    ASSUME NEW b \in BOOLEAN, ~ (cfg.force /\ ~ b),
           NEW p \in Partitions, table[b][p] # Invalid, NEW w \in WtMin .. WtMax
    PROVE  Entry(p.iter % NThreads, Labelled(p, w), table[b][p]) \in Arrays(b)
  <1>1. Arrays(b) = {Entry(q.iter % NThreads, Labelled(q, v), table[b][q]) :
                q \in {q \in Partitions : table[b][q] # Invalid}, v \in WtMin .. WtMax}
    BY DEF Arrays
  <1> QED BY <1>1

\* An array comes with a copy: for the other wire type, or of another thread.
LEMMA CopyOf ==
    ASSUME TypeOK, WtMin < WtMax, NEW e \in Kept, NEW g \in Kept, g # e
    PROVE  \E f \in Kept : f # e /\ Partition(f) = Partition(e)
  <1>1. /\ e \in Entries /\ e \in Arrays(FALSE) /\ g \in Arrays(FALSE)
        /\ Partition(e) \in Partitions /\ table[FALSE][Partition(e)] # Invalid
        /\ e.delay = table[FALSE][Partition(e)].delay
        /\ e.dyn = table[FALSE][Partition(e)].dyn
    BY ArraysAre DEF Kept, FilteredData
  <1>2. CASE cfg.force
    <2>1. \A f \in Arrays(FALSE) : Partition(f) = Forced
      <3>1. Partition(Labelled(Forced, WtMin)) = Forced
        BY Inputs DEF Partition, Labelled, Place, Partitions
      <3>2. \A f \in Arrays(FALSE) : Partition(f) = Partition(Labelled(Forced, WtMin))
        <4> DEFINE L == Labelled(Forced, WtMin)
                   m == table[FALSE][Forced]
        <4>1. Arrays(FALSE) = {Entry(t, L, m) : t \in {u \in Threads :
                                 Forced \in {p \in Partitions : table[FALSE][p] # Invalid}}}
          BY <1>2 DEF Arrays
        <4> HIDE DEF L, m
        <4>2. \A t : Partition(Entry(t, L, m)) = Partition(L)
          BY DEF Entry, Partition
        <4> QED BY <4>1, <4>2 DEF L
      <3> QED BY <3>1, <3>2
    <2> QED BY <1>1, <2>1
  <1>3. CASE ~ cfg.force
    <2> DEFINE p == Partition(e)
    <2>1. PICK w \in WtMin .. WtMax : w # e.wr
      <3>1. WtMin \in WtMin .. WtMax /\ WtMax \in WtMin .. WtMax /\ WtMin # WtMax
        BY Sizes
      <3> QED BY <3>1
    <2> DEFINE f == Entry(p.iter % NThreads, Labelled(p, w), table[FALSE][p])
    <2>2. f \in Arrays(FALSE)
      <3>1. ~ (cfg.force /\ ~ FALSE) /\ FALSE \in BOOLEAN
        BY <1>3
      <3> HIDE DEF p
      <3> QED BY <1>1, <3>1, Unforced DEF p
    <2>3. Partition(f) = p /\ f.wr = w /\ f.delay = e.delay /\ f.dyn = e.dyn
      BY <1>1 DEF Entry, Labelled, Place, Partition
    <2>4. f \in Kept
      BY <2>2, <2>3 DEF Kept, FilteredData
    <2> QED BY <2>1, <2>3, <2>4
  <1> QED BY <1>2, <1>3

\* So the first two organizations offered are alike: the one passed over when
\* the first is erased is a copy of it.
LEMMA Twins ==
    ASSUME TypeOK, WtMin < WtMax, Offers > 1
    PROVE  Offered[1].delay = Offered[2].delay /\ Offered[1].dyn = Offered[2].dyn
  <1> DEFINE e == Sorted(Kept)[1]
             g == Sorted(Kept)[2]
  <1>0. /\ Kept \subseteq Entries /\ IsFiniteSet(Kept) /\ Total(Kept)
        /\ Kept \subseteq Arrays(FALSE)
    <2>1. Kept \subseteq Arrays(FALSE)
      BY DEF Kept, FilteredData
    <2> QED BY <2>1, ArraysAre, ArraysInOrder, FS_Subset DEF Total
  <1>1. /\ Offers \in Nat
        /\ Sorted(Kept) \in [1 .. Offers -> Kept]
        /\ \A x \in Kept : \E i \in 1 .. Offers : Sorted(Kept)[i] = x
        /\ \A i, j \in 1 .. Offers : i < j => Before(Sorted(Kept)[i], Sorted(Kept)[j])
    BY <1>0, SortedIs DEF Offers
  <1>2. 1 \in 1 .. Offers /\ 2 \in 1 .. Offers /\ \A i \in 1 .. Offers : i = 1 \/ i = 2 \/ 2 < i
    BY <1>1
  <1>3. e \in Kept /\ g \in Kept /\ Before(e, g)
    BY <1>1, <1>2
  <1>4. g # e
    BY <1>0, <1>3, BeforeOrder
  <1>5. PICK f \in Kept : f # e /\ Partition(f) = Partition(e)
    BY <1>3, <1>4, CopyOf
  <1>6. PICK i \in 1 .. Offers : Sorted(Kept)[i] = f
    BY <1>1
  <1>7. f = g \/ Before(g, f)
    <2>1. i # 1
      BY <1>5, <1>6
    <2>2. i = 2 \/ 2 < i
      BY <1>2, <2>1
    <2> QED BY <1>1, <1>2, <1>6, <2>2
  <1>8. Partition(g) = Partition(e)
    BY <1>0, <1>3, <1>5, <1>7, BeforeOrder
  <1>9. g.delay = e.delay /\ g.dyn = e.dyn
    <2>1. \A x \in Kept : /\ x.delay = table[FALSE][Partition(x)].delay
                           /\ x.dyn = table[FALSE][Partition(x)].dyn
      BY <1>0, ArraysAre
    <2> HIDE DEF e, g
    <2> QED BY <1>3, <1>8, <2>1
  <1>10. Offered[1] = Org(e) /\ Offered[2] = Org(g)
    BY <1>2, OfferedIs
  <1> QED BY <1>9, <1>10 DEF Org, Combined, Alone
-----------------------------------------------------------------------------
(* find_optimal_uca over the list offered.  Best(k, c, r): r with cost c   *)
(* is the first least among the first k organizations.  Left(k, l, n): the *)
(* iterator n stands, in the list l, on the one after them.                *)

CostOf(j) == Cost(Offered[j], cache_min)

FirstLeast(m, k) ==
    /\ Allowed(Offered[m])
    /\ \A j \in 1 .. k : Allowed(Offered[j]) =>
          CostOf(m) < CostOf(j) \/ (CostOf(m) = CostOf(j) /\ m <= j)

Best(k, c, r) ==
    IF c = Big THEN \A j \in 1 .. k : ~ Allowed(Offered[j])
               ELSE \E m \in 1 .. k : r = Offered[m] /\ c = CostOf(m) /\ FirstLeast(m, k)

Left(k, l, n) ==
    /\ l \in Seq({Offered[j] : j \in 1 .. Offers})
    /\ n \in Nat \ {0} /\ (n = 1 => k = 0)
    /\ k < Offers => /\ Len(l) = n + Offers - k - 1
                     /\ \A j \in 0 .. Offers - k - 1 : l[n + j] = Offered[k + 1 + j]
    /\ k = Offers => n > Len(l)

CostsOK == \A j \in 1 .. Offers : CostOf(j) \in Nat /\ CostOf(j) < Big

\* One more organization examined: taken, or not.
LEMMA BestNext ==
    ASSUME CostsOK, Offers \in Nat, NEW k \in 0 .. Offers - 1, NEW c, NEW r, Best(k, c, r)
    PROVE  /\ Allowed(Offered[k + 1]) /\ c > CostOf(k + 1)
                => Best(k + 1, CostOf(k + 1), Offered[k + 1])
           /\ ~ (Allowed(Offered[k + 1]) /\ c > CostOf(k + 1)) => Best(k + 1, c, r)
  <1> DEFINE u == Offered[k + 1]
  <1>1. /\ k + 1 \in 1 .. Offers /\ k + 1 \in 1 .. k + 1
        /\ \A j \in 1 .. k + 1 : (j \in 1 .. k /\ j < k + 1) \/ j = k + 1
        /\ \A j \in 1 .. k : j \in 1 .. Offers /\ j \in 1 .. k + 1 /\ j <= k + 1
    OBVIOUS
  <1>2. CostOf(k + 1) \in Nat /\ CostOf(k + 1) < Big /\ CostOf(k + 1) # Big
    BY <1>1, BigSize DEF CostsOK
  <1>3. CASE c = Big
    <2>1. \A j \in 1 .. k : ~ Allowed(Offered[j])
      BY <1>3 DEF Best
    <2>2. c > CostOf(k + 1)
      BY <1>2, <1>3, BigSize
    <2>3. ASSUME Allowed(u) PROVE Best(k + 1, CostOf(k + 1), u)
      <3>1. FirstLeast(k + 1, k + 1)
        BY <1>1, <1>2, <2>1, <2>3 DEF FirstLeast
      <3> QED BY <1>1, <1>2, <3>1 DEF Best
    <2>4. ASSUME ~ Allowed(u) PROVE Best(k + 1, c, r)
      BY <1>1, <1>3, <2>1, <2>4 DEF Best
    <2> QED BY <2>2, <2>3, <2>4
  <1>4. CASE c # Big
    <2>1. PICK m \in 1 .. k : r = Offered[m] /\ c = CostOf(m) /\ FirstLeast(m, k)
      BY <1>4 DEF Best
    <2>2. CostOf(m) \in Nat /\ \A j \in 1 .. k : CostOf(j) \in Nat
      BY <1>1 DEF CostsOK
    <2>3. ASSUME Allowed(u), c > CostOf(k + 1) PROVE Best(k + 1, CostOf(k + 1), u)
      <3>1. \A j \in 1 .. k : Allowed(Offered[j]) => CostOf(k + 1) < CostOf(j)
        BY <1>2, <2>1, <2>2, <2>3 DEF FirstLeast
      <3>2. FirstLeast(k + 1, k + 1)
        BY <1>1, <1>2, <2>3, <3>1 DEF FirstLeast
      <3> QED BY <1>1, <1>2, <3>2 DEF Best
    <2>4. ASSUME ~ (Allowed(u) /\ c > CostOf(k + 1)) PROVE Best(k + 1, c, r)
      <3>1. Allowed(u) => CostOf(m) < CostOf(k + 1) \/ CostOf(m) = CostOf(k + 1)
        BY <1>2, <2>1, <2>2, <2>4
      <3>2. FirstLeast(m, k + 1)
        BY <1>1, <2>1, <3>1 DEF FirstLeast
      <3> QED BY <1>1, <1>4, <2>1, <3>2 DEF Best
    <2> QED BY <2>3, <2>4
  <1> QED BY <1>3, <1>4
-----------------------------------------------------------------------------
LEMMA RemoveAtIs ==
    ASSUME NEW S, NEW l \in Seq(S), NEW n \in 1 .. Len(l)
    PROVE  /\ RemoveAt(l, n) \in Seq(S)
           /\ Len(RemoveAt(l, n)) = Len(l) - 1
           /\ \A i \in 1 .. Len(l) - 1 : RemoveAt(l, n)[i] = IF i < n THEN l[i] ELSE l[i + 1]
  <1> DEFINE a == SubSeq(l, 1, n - 1)
             b == SubSeq(l, n + 1, Len(l))
  <1>0. Len(l) \in Nat /\ \A i \in 1 .. Len(l) : l[i] \in S
    OBVIOUS
  <1>1. a \in Seq(S) /\ Len(a) = n - 1 /\ \A i \in 1 .. n - 1 : a[i] = l[i]
    <2>1. \A i \in 1 .. n - 1 : l[i] \in S
      BY <1>0
    <2>2. /\ a \in Seq(S) /\ Len(a) = IF 1 <= n - 1 THEN n - 1 - 1 + 1 ELSE 0
          /\ \A i \in 1 .. n - 1 - 1 + 1 : a[i] = l[1 + i - 1]
      BY <2>1, SubSeqProperties
    <2> HIDE DEF a
    <2> QED BY <1>0, <2>2
  <1>2. b \in Seq(S) /\ Len(b) = Len(l) - n /\ \A i \in 1 .. Len(l) - n : b[i] = l[n + i]
    <2>1. \A i \in n + 1 .. Len(l) : l[i] \in S
      BY <1>0
    <2>2. /\ b \in Seq(S) /\ Len(b) = IF n + 1 <= Len(l) THEN Len(l) - (n + 1) + 1 ELSE 0
          /\ \A i \in 1 .. Len(l) - (n + 1) + 1 : b[i] = l[n + 1 + i - 1]
      BY <1>0, <2>1, SubSeqProperties
    <2> HIDE DEF b
    <2> QED BY <1>0, <2>2
  <1>3. RemoveAt(l, n) = a \o b
    BY DEF RemoveAt
  <1> HIDE DEF a, b
  <1>4. /\ a \o b \in Seq(S) /\ Len(a \o b) = Len(a) + Len(b)
        /\ \A i \in 1 .. Len(a) + Len(b) : (a \o b)[i] = IF i <= Len(a) THEN a[i] ELSE b[i - Len(a)]
    BY <1>1, <1>2, ConcatProperties
  <1>5. ASSUME NEW i \in 1 .. Len(l) - 1
        PROVE  (a \o b)[i] = IF i < n THEN l[i] ELSE l[i + 1]
    <2>1. i \in 1 .. Len(a) + Len(b)
      BY <1>0, <1>1, <1>2
    <2>2. CASE i < n
      <3>1. i \in 1 .. n - 1 /\ i <= Len(a)
        BY <1>1, <2>2
      <3> QED BY <1>1, <1>4, <2>1, <2>2, <3>1
    <2>3. CASE ~ i < n
      <3>1. i - Len(a) \in 1 .. Len(l) - n /\ ~ i <= Len(a) /\ n + (i - Len(a)) = i + 1
        BY <1>0, <1>1, <2>3
      <3>2. (a \o b)[i] = b[i - Len(a)]
        BY <1>4, <2>1, <3>1
      <3>3. b[i - Len(a)] = l[n + (i - Len(a))]
        BY <1>2, <3>1
      <3> QED BY <2>3, <3>1, <3>2, <3>3
    <2> QED BY <2>2, <2>3
  <1> QED BY <1>0, <1>1, <1>2, <1>3, <1>4, <1>5

\* The iterator stands on the next organization.
LEMMA LeftHere ==
    ASSUME Offers \in Nat, NEW k \in 0 .. Offers, NEW l, NEW n, Left(k, l, n)
    PROVE  /\ n > Len(l) <=> k = Offers
           /\ k < Offers => n \in 1 .. Len(l) /\ l[n] = Offered[k + 1]
  <1>1. n \in Nat \ {0} /\ Len(l) \in Nat
    BY DEF Left
  <1>2. CASE k = Offers
    BY <1>2 DEF Left
  <1>3. CASE k < Offers
    <2>1. /\ Len(l) = n + Offers - k - 1
          /\ \A j \in 0 .. Offers - k - 1 : l[n + j] = Offered[k + 1 + j]
      BY <1>3 DEF Left
    <2>2. 0 \in 0 .. Offers - k - 1 /\ n + 0 = n /\ k + 1 + 0 = k + 1
      BY <1>1, <1>3
    <2>3. l[n + 0] = Offered[k + 1 + 0]
      BY <2>1, <2>2
    <2> QED BY <1>1, <1>3, <2>1, <2>2, <2>3
  <1> QED BY <1>2, <1>3

LEMMA LeftStep ==
    ASSUME Offers \in Nat, NEW k \in 0 .. Offers - 1, NEW l, NEW n, Left(k, l, n)
    PROVE  Left(k + 1, l, n + 1)
  <1>1. /\ l \in Seq({Offered[j] : j \in 1 .. Offers}) /\ n \in Nat \ {0}
        /\ Len(l) = n + Offers - k - 1
        /\ \A j \in 0 .. Offers - k - 1 : l[n + j] = Offered[k + 1 + j]
    BY DEF Left
  <1>2. n + 1 \in Nat \ {0} /\ n + 1 # 1
    BY <1>1
  <1>3. ASSUME k + 1 < Offers
        PROVE  /\ Len(l) = n + 1 + Offers - (k + 1) - 1
               /\ \A j \in 0 .. Offers - (k + 1) - 1 : l[n + 1 + j] = Offered[k + 1 + 1 + j]
    <2>1. Len(l) = n + 1 + Offers - (k + 1) - 1
      BY <1>1
    <2>2. ASSUME NEW j \in 0 .. Offers - (k + 1) - 1
          PROVE  l[n + 1 + j] = Offered[k + 1 + 1 + j]
      <3>1. j + 1 \in 0 .. Offers - k - 1 /\ n + (j + 1) = n + 1 + j /\ k + 1 + (j + 1) = k + 1 + 1 + j
        BY <1>1
      <3>2. l[n + (j + 1)] = Offered[k + 1 + (j + 1)]
        BY <1>1, <3>1
      <3> QED BY <3>1, <3>2
    <2> QED BY <2>1, <2>2
  <1>4. k + 1 = Offers => n + 1 > Len(l)
    BY <1>1
  <1> QED BY <1>1, <1>2, <1>3, <1>4 DEF Left

LEMMA LeftErase ==
    ASSUME Offers \in Nat, NEW k \in 0 .. Offers - 1, NEW l, NEW n, Left(k, l, n), n # 1
    PROVE  Left(k + 1, RemoveAt(l, n), n)
  <1> DEFINE U == {Offered[j] : j \in 1 .. Offers}
             q == RemoveAt(l, n)
  <1>1. /\ l \in Seq(U) /\ n \in Nat \ {0}
        /\ Len(l) = n + Offers - k - 1
        /\ \A j \in 0 .. Offers - k - 1 : l[n + j] = Offered[k + 1 + j]
    BY DEF Left
  <1> HIDE DEF U
  <1>2. n \in 1 .. Len(l)
    BY <1>1
  <1>3. /\ q \in Seq(U) /\ Len(q) = Len(l) - 1
        /\ \A i \in 1 .. Len(l) - 1 : q[i] = IF i < n THEN l[i] ELSE l[i + 1]
    BY <1>1, <1>2, RemoveAtIs
  <1> HIDE DEF q
  <1>4. ASSUME NEW j \in 0 .. Offers - (k + 1) - 1
        PROVE  q[n + j] = Offered[k + 1 + 1 + j]
    <2>1. /\ n + j \in 1 .. Len(l) - 1 /\ ~ n + j < n /\ j + 1 \in 0 .. Offers - k - 1
          /\ n + j + 1 = n + (j + 1) /\ k + 1 + (j + 1) = k + 1 + 1 + j
      BY <1>1
    <2>2. q[n + j] = l[n + j + 1]
      BY <1>3, <2>1
    <2>3. l[n + (j + 1)] = Offered[k + 1 + (j + 1)]
      BY <1>1, <2>1
    <2> QED BY <2>1, <2>2, <2>3
  <1>5. /\ k + 1 < Offers => Len(q) = n + Offers - (k + 1) - 1
        /\ k + 1 = Offers => n > Len(q)
    BY <1>1, <1>3
  <1> QED BY <1>1, <1>3, <1>4, <1>5 DEF Left, U, q

\* Erasing the first organization passes over the second.
LEMMA LeftEraseFirst ==
    ASSUME Offers \in Nat \ {0}, NEW l, Left(0, l, 1)
    PROVE  Left(IF Offers = 1 THEN 1 ELSE 2, RemoveAt(l, 1), 2)
  <1> DEFINE U == {Offered[j] : j \in 1 .. Offers}
             q == RemoveAt(l, 1)
  <1>1. /\ l \in Seq(U) /\ Len(l) = Offers
        /\ \A j \in 0 .. Offers - 1 : l[1 + j] = Offered[1 + j]
    BY DEF Left
  <1> HIDE DEF U
  <1>2. 1 \in 1 .. Len(l)
    BY <1>1
  <1>3. /\ q \in Seq(U) /\ Len(q) = Offers - 1
        /\ \A i \in 1 .. Offers - 1 : q[i] = IF i < 1 THEN l[i] ELSE l[i + 1]
    BY <1>1, <1>2, RemoveAtIs
  <1> HIDE DEF q
  <1>4. ASSUME Offers # 1, NEW j \in 0 .. Offers - 2 - 1
        PROVE  q[2 + j] = Offered[2 + 1 + j]
    <2>1. /\ 2 + j \in 1 .. Offers - 1 /\ ~ 2 + j < 1 /\ j + 2 \in 0 .. Offers - 1
          /\ 2 + j + 1 = 1 + (j + 2) /\ 2 + 1 + j = 1 + (j + 2)
      BY <1>4
    <2>2. q[2 + j] = l[2 + j + 1]
      BY <1>3, <2>1
    <2>3. l[1 + (j + 2)] = Offered[1 + (j + 2)]
      BY <1>1, <2>1
    <2> QED BY <2>1, <2>2, <2>3
  <1>5. CASE Offers = 1
    BY <1>3, <1>5 DEF Left, U, q
  <1>6. CASE Offers # 1
    <2>1. 2 < Offers => Len(q) = 2 + Offers - 2 - 1
      BY <1>3
    <2>2. 2 = Offers => 2 > Len(q)
      BY <1>3
    <2> QED BY <1>3, <1>4, <1>6, <2>1, <2>2 DEF Left, U, q
  <1> QED BY <1>5, <1>6

\* The organization passed over so is no better than the first.
LEMMA BestOfTwins ==
    ASSUME TypeOK, WtMin < WtMax, CostsOK, Offers \in Nat, Offers > 1,
           NEW c, NEW r, Best(1, c, r)
    PROVE  Best(2, c, r)
  <1>1. /\ Allowed(Offered[1]) <=> Allowed(Offered[2])
        /\ CostOf(1) = CostOf(2)
    BY Twins DEF Allowed, Within, CostOf, Cost, Weighted
  <1>2. 1 \in 0 .. Offers - 1 /\ 1 \in 1 .. 1 /\ 1 \in 1 .. Offers /\ 1 + 1 = 2 /\ \A m \in 1 .. 1 : m = 1
    OBVIOUS
  <1>3. CostOf(1) \in Nat
    BY <1>2 DEF CostsOK
  <1>4. ~ (Allowed(Offered[2]) /\ c > CostOf(2))
    <2>1. CASE c = Big
      BY <1>1, <1>2, <2>1 DEF Best
    <2>2. CASE c # Big
      <3>1. c = CostOf(1)
        BY <1>2, <2>2 DEF Best
      <3> QED BY <1>1, <1>3, <3>1
    <2> QED BY <2>1, <2>2
  <1>5. Best(1 + 1, c, r)
    BY <1>2, <1>4, BestNext
  <1> QED BY <1>2, <1>5
-----------------------------------------------------------------------------
(* The invariant of the choice. *)

Choosing ==
    /\ CostsOK
    /\ \E k \in 0 .. Offers : Left(k, ulist, niter) /\ Best(k, min_cost, fin_res)

\* What FirstLeastPicked says of a search that ends well, and of one that does not.
Picked ==
    /\ fin_res \in Organizations /\ Allowed(fin_res)
    /\ \A u \in Organizations : Allowed(u) =>
         \/ Cost(fin_res, cache_min) < Cost(u, cache_min)
         \/ Cost(fin_res, cache_min) = Cost(u, cache_min)
               /\ (u = fin_res \/ Before(fin_res.data, u.data))
NothingToPick ==
    \/ Arrays(FALSE) = {}
    \/ cfg.is_cache /\ CheapTags(Arrays(TRUE)) = {}
    \/ \A u \in Organizations : ~ Allowed(u)

PickInv ==
    /\ Searching => niter = 1 /\ min_cost = Big
    /\ pc = "choose" => Choosing
    /\ pc = "done" => Picked
    /\ pc = "exit" => NothingToPick

LEMMA OffersKept ==
    ASSUME UNCHANGED <<input, minima>>
    PROVE  /\ Offered' = Offered /\ Offers' = Offers /\ Organizations' = Organizations
           /\ Kept' = Kept
           /\ \A b \in BOOLEAN : Arrays(b)' = Arrays(b) /\ CheapTags(Arrays(b))' = CheapTags(Arrays(b))
           /\ \A m, min : Cost(m, min)' = Cost(m, min)
  <1>1. cfg' = cfg /\ table' = table /\ d_min' = d_min /\ t_min' = t_min
    BY DEF input, minima
  <1>2. \A b \in BOOLEAN : Arrays(b)' = Arrays(b)
    BY <1>1 DEF Arrays
  <1>3. Arrays(TRUE)' = Arrays(TRUE) /\ Arrays(FALSE)' = Arrays(FALSE)
    BY <1>2
  <1>4. \A S : CheapTags(S)' = CheapTags(S) /\ FilteredTag(S)' = FilteredTag(S)
    BY <1>1 DEF CheapTags, FilteredTag
  <1>5. CheapTags(Arrays(TRUE))' = CheapTags(Arrays(TRUE))
          /\ CheapTags(Arrays(FALSE))' = CheapTags(Arrays(FALSE))
    BY <1>1, <1>3 DEF CheapTags
  <1>6. FilteredTag(Arrays(TRUE))' = FilteredTag(Arrays(TRUE))
    BY <1>5 DEF FilteredTag
  <1>7. Kept' = Kept
    BY <1>1, <1>3 DEF Kept, FilteredData
  <1>8. \A e : Org(e)' = Org(e)
    BY <1>1, <1>6 DEF Org, Combined, Alone
  <1>9. Offers' = Offers /\ Sorted(Kept)' = Sorted(Kept)
    BY <1>7 DEF Offers, Sorted
  <1>10. Offered' = Offered
    BY <1>8, <1>9 DEF Offered
  <1>11. Organizations' = Organizations
    <2>1. Organizations = {Org(e) : e \in Kept}
      BY DEF Organizations, Org, Kept
    <2>2. Organizations' = {Org(e)' : e \in Kept'}
      BY DEF Organizations, Org, Kept
    <2> QED BY <1>7, <1>8, <2>1, <2>2
  <1>12. \A m, min : Cost(m, min)' = Cost(m, min)
    BY <1>1 DEF Cost, Weighted
  <1> QED BY <1>2, <1>3, <1>5, <1>7, <1>9, <1>10, <1>11, <1>12

\* A step that leaves the inputs, the minima and the choice alone.
LEMMA PickKept ==
    ASSUME PickInv, UNCHANGED <<input, minima, choice>>,
           pc' = pc \/ (Searching /\ Searching')
    PROVE  PickInv'
  <1>1. /\ Offered' = Offered /\ Offers' = Offers /\ Organizations' = Organizations
        /\ Arrays(FALSE)' = Arrays(FALSE)
        /\ CheapTags(Arrays(TRUE))' = CheapTags(Arrays(TRUE))
        /\ \A m, min : Cost(m, min)' = Cost(m, min)
    BY OffersKept
  <1>2. /\ cfg' = cfg /\ ulist' = ulist /\ niter' = niter /\ min_cost' = min_cost
        /\ cache_min' = cache_min /\ fin_res' = fin_res
    BY DEF input, choice
  <1>3. \A u : Cost(u, cache_min)' = Cost(u, cache_min) /\ Allowed(u)' = Allowed(u)
    BY <1>1, <1>2 DEF Allowed, Within, Cost, Weighted
  <1>4. Cost(fin_res, cache_min)' = Cost(fin_res, cache_min) /\ Allowed(fin_res)' = Allowed(fin_res)
    BY <1>2 DEF Allowed, Within, Cost, Weighted
  <1>5. Picked' <=> Picked
    BY <1>1, <1>2, <1>3, <1>4 DEF Picked
  <1>6. NothingToPick' <=> NothingToPick
    BY <1>1, <1>2, <1>3 DEF NothingToPick
  <1>7. \A j : CostOf(j)' = CostOf(j)
    BY <1>1, <1>2 DEF CostOf, Cost, Weighted
  <1>8. \A j : Allowed(Offered[j])' <=> Allowed(Offered[j])
    BY <1>1, <1>2 DEF Allowed, Within
  <1>9. CostsOK' <=> CostsOK
    BY <1>1, <1>7 DEF CostsOK
  <1>10. \A k, c, r : Best(k, c, r)' <=> Best(k, c, r)
    BY <1>1, <1>7, <1>8 DEF Best, FirstLeast
  <1>11. \A k, l, n : Left(k, l, n)' <=> Left(k, l, n)
    BY <1>1 DEF Left
  <1>12. Choosing => Choosing'
    <2> SUFFICES ASSUME Choosing PROVE Choosing'
      OBVIOUS
    <2>1. PICK k \in 0 .. Offers : Left(k, ulist, niter) /\ Best(k, min_cost, fin_res)
      BY DEF Choosing
    <2>2. Left(k, ulist, niter)' /\ Best(k, min_cost, fin_res)'
      <3>1. Left(k, ulist, niter)' <=> Left(k, ulist, niter)
        BY <1>1, <1>2 DEF Left
      <3>2. Best(k, min_cost, fin_res)' <=> Best(k, min_cost, fin_res)
        BY <1>1, <1>2, <1>7, <1>8 DEF Best, FirstLeast
      <3> QED BY <2>1, <3>1, <3>2
    <2>3. k \in 0 .. Offers'
      BY <1>1
    <2> QED BY <1>9, <2>2, <2>3 DEF Choosing
  <1>13. Searching => niter = 1 /\ min_cost = Big
    BY DEF PickInv
  <1>14. Searching' => Searching
    BY DEF Searching
  <1>15. pc' \in {"choose", "done", "exit"} => pc' = pc
    BY DEF Searching
  <1> QED BY <1>2, <1>5, <1>6, <1>12, <1>13, <1>14, <1>15 DEF PickInv
-----------------------------------------------------------------------------
\* One step of the loop: a further organization is examined, and with the first
\* erased its copy is passed over.
LEMMA PickExamine ==
    ASSUME TypeOK, Choosing, Examine, WtMin < WtMax
    PROVE  \E k \in 0 .. Offers : \E l, n, c, r :
              /\ ulist' = l /\ niter' = n /\ min_cost' = c /\ fin_res' = r
              /\ Left(k, l, n) /\ Best(k, c, r)
  <1>1. PICK k \in 0 .. Offers : Left(k, ulist, niter) /\ Best(k, min_cost, fin_res)
    BY DEF Choosing
  <1>2. Offers \in Nat /\ CostsOK
    BY OfferedIs DEF Choosing
  <1>3. k \in 0 .. Offers - 1 /\ ulist[niter] = Offered[k + 1]
    <2>1. niter > Len(ulist) <=> k = Offers
      BY <1>1, <1>2, LeftHere
    <2>2. k # Offers
      BY <2>1 DEF Examine, AtEnd
    <2>3. k < Offers
      BY <1>2, <2>2
    <2> QED BY <1>1, <1>2, <2>3, LeftHere
  <1> DEFINE u == Offered[k + 1]
             better == Allowed(u) /\ min_cost > CostOf(k + 1)
  <1>4. /\ better => Best(k + 1, CostOf(k + 1), u)
        /\ ~ better => Best(k + 1, min_cost, fin_res)
    BY <1>1, <1>2, <1>3, BestNext
  <1>5. k + 1 \in 1 .. Offers /\ k + 1 \in 0 .. Offers
    BY <1>2, <1>3
  <1>6. Cheaper(u) <=> min_cost > CostOf(k + 1)
    BY DEF Cheaper, CostOf
  <1>7. cfg.ed \in {0, 1, 2}
    BY Inputs DEF TypeOK
  <1>8. Allowed(u) <=> (cfg.ed = 0 => Within(u, cache_min))
    BY DEF Allowed
  \* What the step does with the minimum and with the list.
  <1>9. /\ better => min_cost' = CostOf(k + 1) /\ fin_res' = u
        /\ ~ better => min_cost' = min_cost /\ fin_res' = fin_res
        /\ \/ ulist' = ulist /\ niter' = niter + 1
           \/ cfg.ed = 0 /\ EraseAndStep
    <2>1. CASE cfg.ed \in {1, 2}
      <3>1. /\ IF Cheaper(u) THEN Take ELSE UNCHANGED <<min_cost, fin_res>>
            /\ niter' = niter + 1 /\ UNCHANGED ulist
        BY <1>3, <2>1 DEF Examine
      <3> QED BY <1>3, <1>6, <1>8, <2>1, <3>1 DEF Take, CostOf
    <2>2. CASE cfg.ed \notin {1, 2}
      <3>1. \/ Within(u, cache_min) /\ Cheaper(u) /\ Take /\ EraseAndStep
            \/ /\ Within(u, cache_min) /\ ~ Cheaper(u)
               /\ niter' = niter + 1 /\ UNCHANGED <<ulist, min_cost, fin_res>>
            \/ ~ Within(u, cache_min) /\ EraseAndStep /\ UNCHANGED <<min_cost, fin_res>>
        BY <1>3, <2>2 DEF Examine
      <3>2. cfg.ed = 0
        BY <1>7, <2>2
      <3>3. Take => min_cost' = CostOf(k + 1) /\ fin_res' = u
        BY <1>3 DEF Take, CostOf
      <3>4. better <=> Within(u, cache_min) /\ Cheaper(u)
        BY <1>6, <1>8, <3>2
      <3> HIDE DEF better, u
      <3> QED BY <3>1, <3>2, <3>3, <3>4
    <2> QED BY <2>1, <2>2
  <1>10. \E c, r : min_cost' = c /\ fin_res' = r /\ Best(k + 1, c, r)
    <2> HIDE DEF better, u
    <2> QED BY <1>4, <1>9
  <1>11. PICK c, r : min_cost' = c /\ fin_res' = r /\ Best(k + 1, c, r)
    BY <1>10
  <1>12. CASE ulist' = ulist /\ niter' = niter + 1
    <2>1. Left(k + 1, ulist, niter + 1)
      BY <1>1, <1>2, <1>3, LeftStep
    <2> QED BY <1>5, <1>11, <1>12, <2>1
  <1>13. CASE EraseAndStep /\ niter # 1
    <2>1. Left(k + 1, RemoveAt(ulist, niter), niter)
      BY <1>1, <1>2, <1>3, <1>13, LeftErase
    <2>2. ulist' = RemoveAt(ulist, niter) /\ niter' = niter
      BY <1>13 DEF EraseAndStep
    <2> QED BY <1>5, <1>11, <2>1, <2>2
  <1>14. CASE EraseAndStep /\ niter = 1
    <2> DEFINE h == IF Offers = 1 THEN 1 ELSE 2
    <2>1. k = 0 /\ Left(0, ulist, 1) /\ Offers \in Nat \ {0}
      BY <1>1, <1>2, <1>3, <1>14 DEF Left
    <2>2. Left(h, RemoveAt(ulist, 1), 2)
      BY <2>1, LeftEraseFirst
    <2>3. ulist' = RemoveAt(ulist, 1) /\ niter' = 2
      BY <1>14 DEF EraseAndStep
    <2>4. Best(1, c, r)
      BY <1>11, <2>1
    <2>5. Best(h, c, r)
      <3>1. CASE Offers = 1
        BY <2>4, <3>1
      <3>2. CASE Offers # 1
        <4>1. Offers > 1
          BY <2>1, <3>2
        <4>2. Best(2, c, r)
          BY <1>2, <2>4, <4>1, BestOfTwins
        <4> QED BY <3>2, <4>2
      <3> QED BY <3>1, <3>2
    <2>6. h \in 0 .. Offers
      BY <2>1
    <2> HIDE DEF h
    <2> QED BY <1>11, <2>2, <2>3, <2>5, <2>6
  <1> QED BY <1>9, <1>12, <1>13, <1>14

LEMMA PickedFromBest ==
    ASSUME TypeOK, CostsOK, NEW k \in 0 .. Offers, Left(k, ulist, niter),
           Best(k, min_cost, fin_res), AtEnd
    PROVE  (min_cost = Big => NothingToPick) /\ (min_cost # Big => Picked)
  <1>1. /\ Offers \in Nat /\ Organizations = {Offered[j] : j \in 1 .. Offers}
        /\ \A i, j \in 1 .. Offers : i < j => Before(Offered[i].data, Offered[j].data)
    BY OfferedIs
  <1>2. k = Offers
    BY <1>1, LeftHere DEF AtEnd
  <1>3. ASSUME min_cost = Big PROVE NothingToPick
    <2>1. \A j \in 1 .. Offers : ~ Allowed(Offered[j])
      BY <1>2, <1>3 DEF Best
    <2> QED BY <1>1, <2>1 DEF NothingToPick
  <1>4. ASSUME min_cost # Big PROVE Picked
    <2>1. PICK m \in 1 .. Offers : fin_res = Offered[m] /\ FirstLeast(m, Offers)
      BY <1>2, <1>4 DEF Best
    <2>2. fin_res \in Organizations /\ Allowed(fin_res)
      BY <1>1, <2>1 DEF FirstLeast
    <2>3. ASSUME NEW j \in 1 .. Offers, Allowed(Offered[j])
          PROVE  \/ Cost(fin_res, cache_min) < Cost(Offered[j], cache_min)
                 \/ /\ Cost(fin_res, cache_min) = Cost(Offered[j], cache_min)
                    /\ Offered[j] = fin_res \/ Before(fin_res.data, Offered[j].data)
      <3>1. CostOf(m) < CostOf(j) \/ (CostOf(m) = CostOf(j) /\ m <= j)
        BY <2>1, <2>3 DEF FirstLeast
      <3>2. m <= j => m = j \/ m < j
        BY <1>1
      <3>3. CostOf(m) = Cost(fin_res, cache_min) /\ CostOf(j) = Cost(Offered[j], cache_min)
        BY <2>1 DEF CostOf
      <3>4. m < j => Before(fin_res.data, Offered[j].data)
        BY <1>1, <2>1
      <3> QED BY <2>1, <3>1, <3>2, <3>3, <3>4
    <2> QED BY <1>1, <2>2, <2>3 DEF Picked
  <1> QED BY <1>3, <1>4
-----------------------------------------------------------------------------
(* A set of numbers that is not empty has a least one. *)
LEMMA LeastExists ==
    ASSUME NEW S, S \subseteq Nat, S # {}
    PROVE  LeastOf(S) \in S
  <1>1. PICK x \in S : \A y \in S : ~ (<<y, x>> \in OpToRel(<, Nat))
    BY NatLessThanWellFounded, WFMin, Zenon
  <1>2. \A y \in S : ~ (y < x)
    BY <1>1 DEF OpToRel
  <1>3. \A y \in S : x <= y
    BY <1>2
  <1> QED
    BY <1>3 DEF LeastOf

LEMMA CombineMinima ==
    ASSUME NEW Top \in Nat, CostsBelowBig(Top), TypeOK,
           cfg.is_cache => CheapTags(Arrays(TRUE)) # {}, Offers \in Nat \ {0},
           NEW min, min.delay = LeastOf({Offered[j].delay : j \in DOMAIN Offered}),
           min.dyn = LeastOf({Offered[j].dyn : j \in DOMAIN Offered})
    PROVE  \A j \in 1 .. Offers : Cost(Offered[j], min) \in Nat /\ Cost(Offered[j], min) < Big
  <1> DEFINE Ds == {Offered[j].delay : j \in DOMAIN Offered}
             Es == {Offered[j].dyn : j \in DOMAIN Offered}
  <1>1. DOMAIN Offered = 1 .. Offers /\ 1 \in 1 .. Offers
    BY OfferedIs
  <1>2. \A j \in 1 .. Offers : /\ Offered[j].delay \in 1 .. Largest(Top)
                               /\ Offered[j].dyn \in 1 .. Largest(Top)
    BY OfferedMetrics
  <1>3. Ds \subseteq 1 .. Largest(Top) /\ Es \subseteq 1 .. Largest(Top) /\ Ds # {} /\ Es # {}
    BY <1>1, <1>2
  <1>4. Ds \subseteq Nat /\ Es \subseteq Nat
    BY <1>3
  <1> HIDE DEF Ds, Es
  <1>5. LeastOf(Ds) \in Ds /\ LeastOf(Es) \in Es
    BY <1>3, <1>4, LeastExists
  <1>6. min.delay = LeastOf(Ds) /\ min.dyn = LeastOf(Es)
    BY DEF Ds, Es
  <1>7. min.delay \in 1 .. Largest(Top) /\ min.dyn \in 1 .. Largest(Top)
    BY <1>3, <1>5, <1>6
  <1> QED BY <1>2, <1>7, CostBelowBig

LEMMA PickCombine ==
    ASSUME NEW Top \in Nat, CostsBelowBig(Top), TypeOK, EveryPartitionOnce, PickInv,
           FilterAndCombine
    PROVE  PickInv'
  <1>1. /\ pc = "minima" /\ UNCHANGED <<input, minima>>
        /\ niter = 1 /\ min_cost = Big
        /\ data_arr = Arrays(FALSE) /\ (cfg.is_cache => tag_arr = Arrays(TRUE))
    BY DEF FilterAndCombine, EveryPartitionOnce, PickInv, Searching
  <1>2. /\ Offered' = Offered /\ Offers' = Offers /\ Organizations' = Organizations
        /\ Arrays(FALSE)' = Arrays(FALSE)
        /\ CheapTags(Arrays(TRUE))' = CheapTags(Arrays(TRUE))
        /\ \A m, min : Cost(m, min)' = Cost(m, min)
        /\ cfg' = cfg
    BY <1>1, OffersKept DEF input
  <1>3. /\ Offers \in Nat /\ DOMAIN Offered = 1 .. Offers
        /\ Organizations = {Offered[j] : j \in 1 .. Offers}
        /\ Kept = {} <=> Offers = 0
    BY OfferedIs
  <1>4. FilteredData(data_arr) = Kept
    BY <1>1 DEF Kept
  <1>5. ASSUME Fail, \/ data_arr = {}
                     \/ cfg.is_cache /\ CheapTags(tag_arr) = {}
                     \/ FilteredData(data_arr) = {}
        PROVE  PickInv'
    <2>1. NothingToPick
      <3>1. CASE data_arr = {}
        BY <1>1, <3>1 DEF NothingToPick
      <3>2. CASE cfg.is_cache /\ CheapTags(tag_arr) = {}
        BY <1>1, <3>2 DEF NothingToPick
      <3>3. CASE FilteredData(data_arr) = {}
        <4>1. Organizations = {}
          BY <1>3, <1>4, <3>3
        <4> QED BY <4>1 DEF NothingToPick
      <3> QED BY <1>5, <3>1, <3>2, <3>3
    <2>2. pc' = "exit" /\ cache_min' = cache_min
      BY <1>5 DEF Fail, choice
    <2>3. \A u : Allowed(u)' <=> Allowed(u)
      BY <1>2, <2>2 DEF Allowed, Within
    <2>4. NothingToPick'
      BY <1>2, <2>1, <2>3 DEF NothingToPick
    <2> QED BY <2>2, <2>4 DEF PickInv, Searching
  <1>6. ASSUME Combine, pc' = "choose", UNCHANGED <<niter, min_cost, fin_res>>,
               cfg.is_cache => CheapTags(tag_arr) # {}, FilteredData(data_arr) # {}
        PROVE  PickInv'
    <2>1. Offers \in Nat \ {0} /\ (cfg.is_cache => CheapTags(Arrays(TRUE)) # {})
      BY <1>1, <1>3, <1>4, <1>6
    <2> DEFINE datas == Sorted(FilteredData(data_arr))
               list == [i \in DOMAIN datas |->
                          IF cfg.is_cache THEN Combined(FilteredTag(tag_arr), datas[i])
                                          ELSE Alone(datas[i])]
    <2>2. /\ ulist' = list
          /\ cache_min' = [delay |-> LeastOf({list[i].delay : i \in DOMAIN list}),
                            dyn |-> LeastOf({list[i].dyn : i \in DOMAIN list})]
      BY <1>6, Zenon DEF Combine
    <2>3. list = Offered
      <3>1. datas = Sorted(Kept)
        BY <1>4
      <3>2. cfg.is_cache => FilteredTag(tag_arr) = FilteredTag(Arrays(TRUE))
        BY <1>1
      <3> HIDE DEF datas
      <3>3. \A i \in DOMAIN datas :
               (IF cfg.is_cache THEN Combined(FilteredTag(tag_arr), datas[i]) ELSE Alone(datas[i]))
                 = Org(datas[i])
        BY <3>2 DEF Org
      <3>4. list = [i \in DOMAIN datas |-> Org(datas[i])]
        BY <3>3
      <3> QED BY <3>1, <3>4 DEF Offered
    <2> HIDE DEF list
    <2>4. PICK min : cache_min' = min
      OBVIOUS
    <2>5. /\ min.delay = LeastOf({Offered[j].delay : j \in DOMAIN Offered})
          /\ min.dyn = LeastOf({Offered[j].dyn : j \in DOMAIN Offered})
      BY <2>2, <2>3, <2>4
    <2>6. \A j \in 1 .. Offers : Cost(Offered[j], min) \in Nat /\ Cost(Offered[j], min) < Big
      BY <2>1, <2>5, CombineMinima
    <2>7. CostsOK'
      <3>1. \A j : CostOf(j)' = Cost(Offered[j], min)
        BY <1>2, <2>4 DEF CostOf, Cost, Weighted
      <3> QED BY <1>2, <2>6, <3>1 DEF CostsOK
    <2>8. Left(0, Offered, 1)
      <3>1. Offered \in Seq({Offered[j] : j \in 1 .. Offers}) /\ Len(Offered) = Offers
        <4>1. Offered \in [1 .. Offers -> {Offered[j] : j \in 1 .. Offers}]
          BY <1>3 DEF Offered
        <4> QED BY <1>3, <4>1
      <3>2. \A j \in 0 .. Offers - 0 - 1 : Offered[1 + j] = Offered[0 + 1 + j]
        BY <1>3
      <3>3. Offers = 1 + Offers - 0 - 1 /\ 0 # Offers
        BY <2>1
      <3> QED BY <3>1, <3>2, <3>3 DEF Left
    <2>9. ulist' = Offered /\ niter' = 1 /\ min_cost' = Big
      BY <1>1, <1>6, <2>2, <2>3
    <2>10. Left(0, ulist, niter)'
      BY <1>2, <2>8, <2>9 DEF Left
    <2>11. Best(0, min_cost, fin_res)'
      BY <2>9 DEF Best
    <2>12. Choosing'
      <3>1. 0 \in 0 .. Offers'
        BY <1>2, <1>3
      <3> QED BY <2>7, <2>10, <2>11, <3>1 DEF Choosing
    <2> QED BY <1>6, <2>12 DEF PickInv, Searching
  <1>7. \/ Fail /\ ( \/ data_arr = {}
                     \/ cfg.is_cache /\ CheapTags(tag_arr) = {}
                     \/ FilteredData(data_arr) = {} )
        \/ /\ Combine /\ pc' = "choose" /\ UNCHANGED <<niter, min_cost, fin_res>>
           /\ (cfg.is_cache => CheapTags(tag_arr) # {}) /\ FilteredData(data_arr) # {}
    BY Zenon DEF FilterAndCombine
  <1> QED BY <1>5, <1>6, <1>7

LEMMA PickNext ==
    ASSUME NEW Top \in Nat, CostsBelowBig(Top), WtMin < WtMax
    PROVE  IInv /\ Combining /\ PickInv /\ [Next]_vars => PickInv'
  <1> SUFFICES ASSUME IInv, Combining, PickInv, [Next]_vars PROVE PickInv'
    OBVIOUS
  <1>0. TypeOK /\ EveryPartitionOnce
    BY OnceFromInv DEF IInv
  <1>1. ASSUME Searching, Searching', UNCHANGED <<input, choice>>
        PROVE  PickInv'
    BY <1>1 DEF PickInv, Searching, choice
  <1>2. CASE BeginPhase
    BY <1>1, <1>2 DEF BeginPhase, Searching
  <1>3. CASE Create
    BY <1>1, <1>3 DEF Create, Searching
  <1>4. CASE AllCreated
    BY <1>1, <1>4 DEF AllCreated, Searching
  <1>5. CASE Join
    BY <1>1, <1>5 DEF Join, Searching
  <1>6. CASE MergeTags
    BY <1>1, <1>6 DEF MergeTags, Searching
  <1>7. CASE MergeData
    BY <1>1, <1>7 DEF MergeData, Searching
  <1>8. CASE MergeMinima
    BY <1>1, <1>8 DEF MergeMinima, Searching
  <1>9. CASE FilterAndCombine
    BY <1>0, <1>9, PickCombine
  <1>10. CASE Examine
    <2>1. pc = "choose" /\ UNCHANGED <<input, pc, minima, cache_min>>
      BY <1>10 DEF Examine, main
    <2>2. Choosing
      BY <2>1 DEF PickInv
    <2>10. PICK k \in 0 .. Offers : \E l, n, c, r :
              /\ ulist' = l /\ niter' = n /\ min_cost' = c /\ fin_res' = r
              /\ Left(k, l, n) /\ Best(k, c, r)
      BY <1>0, <1>10, <2>2, PickExamine
    <2>3. PICK l, n, c, r :
              /\ ulist' = l /\ niter' = n /\ min_cost' = c /\ fin_res' = r
              /\ Left(k, l, n) /\ Best(k, c, r)
      BY <2>10
    <2>4. /\ Offered' = Offered /\ Offers' = Offers /\ cfg' = cfg /\ cache_min' = cache_min
          /\ \A m, min : Cost(m, min)' = Cost(m, min)
      BY <2>1, OffersKept DEF input
    <2>5. \A j : CostOf(j)' = CostOf(j) /\ (Allowed(Offered[j])' <=> Allowed(Offered[j]))
      BY <2>4 DEF CostOf, Cost, Weighted, Allowed, Within
    <2>6. CostsOK'
      BY <2>2, <2>4, <2>5 DEF Choosing, CostsOK
    <2>7. Left(k, ulist, niter)'
      BY <2>3, <2>4 DEF Left
    <2>8. Best(k, min_cost, fin_res)'
      BY <2>3, <2>4, <2>5 DEF Best, FirstLeast
    <2>9. Choosing'
      BY <2>4, <2>6, <2>7, <2>8 DEF Choosing
    <2> QED BY <2>1, <2>9 DEF PickInv, Searching
  <1>11. CASE Return
    <2>1. /\ pc = "choose" /\ AtEnd /\ pc' = IF min_cost = Big THEN "exit" ELSE "done"
          /\ UNCHANGED <<input, minima, choice>>
      BY <1>11 DEF Return
    <2>2. (min_cost = Big => NothingToPick) /\ (min_cost # Big => Picked)
      <3>1. PICK k \in 0 .. Offers : Left(k, ulist, niter) /\ Best(k, min_cost, fin_res)
        BY <2>1 DEF PickInv, Choosing
      <3> QED BY <1>0, <2>1, <3>1, PickedFromBest DEF PickInv, Choosing
    <2>3. /\ Organizations' = Organizations /\ Arrays(FALSE)' = Arrays(FALSE)
          /\ CheapTags(Arrays(TRUE))' = CheapTags(Arrays(TRUE))
      BY <2>1, OffersKept
    <2>4. cfg' = cfg /\ cache_min' = cache_min /\ fin_res' = fin_res
      BY <2>1 DEF input, choice
    <2>5. /\ \A u : Cost(u, cache_min)' = Cost(u, cache_min) /\ (Allowed(u)' <=> Allowed(u))
          /\ Cost(fin_res, cache_min)' = Cost(fin_res, cache_min)
          /\ Allowed(fin_res)' <=> Allowed(fin_res)
      BY <2>4 DEF Allowed, Within, Cost, Weighted
    <2>6. Picked => Picked'
      BY <2>3, <2>4, <2>5 DEF Picked
    <2>7. NothingToPick => NothingToPick'
      BY <2>3, <2>4, <2>5 DEF NothingToPick
    <2> QED BY <2>1, <2>2, <2>6, <2>7 DEF PickInv, Searching
  <1>12. ASSUME NEW t \in Threads, Evaluate(t) PROVE PickInv'
    BY <1>12, PickKept DEF Evaluate, main
  <1>13. ASSUME NEW t \in Threads, Exit(t) PROVE PickInv'
    BY <1>13, PickKept DEF Exit, main
  <1>14. CASE UNCHANGED vars
    BY <1>14, PickKept DEF vars, main
  <1> QED
    BY <1>2, <1>3, <1>4, <1>5, <1>6, <1>7, <1>8, <1>9, <1>10, <1>11, <1>12, <1>13, <1>14
    DEF Next, Main, Terminated

(* The organization returned is the first of the cheapest allowed, under   *)
(* every schedule and for every number of threads, and the search gives up *)
(* only with nothing to return (Ucache.cc:537-614).  It needs BIGNUM above *)
(* every cost and a second wire type: the loop passes over the second      *)
(* organization when it erases the first, and with one wire type that is   *)
(* another organization, not a copy of the first.                          *)
THEOREM LeastIsPicked ==
    ASSUME NEW CONSTANT Top \in Nat, CostsBelowBig(Top), WtMin < WtMax
    PROVE  Spec => []FirstLeastPicked
  <1>1. Init => PickInv
    BY DEF Init, PickInv, Searching
  <1>2. IInv /\ Combining /\ PickInv /\ [Next]_vars => PickInv'
    BY PickNext
  <1>3. PickInv => FirstLeastPicked
    BY DEF PickInv, FirstLeastPicked, Picked, NothingToPick
  <1> QED BY <1>1, <1>2, <1>3, IInvInit, InvNext, SharesInit, SharesNext, PTL DEF Spec
=============================================================================
