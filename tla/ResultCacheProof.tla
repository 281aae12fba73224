------------------------- MODULE ResultCacheProof -------------------------
(***************************************************************************)
(* What the result cache keeps for any number of builds, parameters and    *)
(* processes, one of which runs at a time: the types, that an answer is    *)
(* the array asked for, that a result saved stays, and that cacti_interface *)
(* does what ArrayService promises.                                        *)
(***************************************************************************)
EXTENDS ResultCache, TLAPS

(* The pool runs one McPAT at a time, so nobody corrupts the file. *)
OneAtATime ==
    /\ \A p, q \in Processes : pc[p] # "off" /\ pc[q] # "off" => p = q
    /\ corrupt = FALSE

(* A call that goes on has not seen a result of this build's size. *)
MissSeen ==
    \A p \in Processes :
        pc[p] \in {"solve", "del"} /\ dbp[p] = "open" /\ Seen(p, key[p]) # None
          => Size[Seen(p, key[p]).build] # Size[build[p]]

(* So a page changed and not written hides none of this build's size. *)
DirtyHidesOthers ==
    \A p \in Processes : \A k \in dirty[p] :
        file[k] # None => Size[file[k].build] # Size[build[p]]

(* A call has a result of its own when it puts one, and the file open      *)
(* when it is under way.                                                   *)
CallHasResult ==
    \A p \in Processes :
        /\ pc[p] \in {"del", "put", "sync"} => fin_res[p] # None
        /\ pc[p] \in {"get", "solve", "del", "put", "sync"} => dbp[p] # "NULL"
        /\ pc[p] \in {"off", "get", "solve"} => fin_res[p] = None

IInv == TypeOK /\ OneAtATime /\ CallHasResult /\ AnswersMatch
          /\ MissSeen /\ DirtyHidesOthers

LEMMA Facts == Size \in [Builds -> Nat] /\ None \notin Results
  BY CacheAssumption

(* While the process sees no result of its size, what it does to its page  *)
(* is seen; a page written is seen as before.                              *)
LEMMA SeenAfterWrite ==
    ASSUME TypeOK, NEW p \in Processes, NEW ks \in SUBSET Keys, ks \subseteq dirty[p],
           Write(p, ks), NEW k \in Keys
    PROVE  Seen(p, k)' = Seen(p, k)
  BY DEF TypeOK, Write, Seen

-----------------------------------------------------------------------------
(* Each action keeps the invariant. *)

LEMMA LaunchKeeps ==
    ASSUME IInv, NEW p \in Processes, Launch(p)
    PROVE  IInv'
  <1> USE Facts DEF IInv, TypeOK
  <1>1. TypeOK'
    BY DEF Launch, MayLaunch, handles
  <1>2. OneAtATime'
    BY DEF Launch, MayLaunch, handles, OneAtATime
  <1>3. CallHasResult'
    BY DEF Launch, MayLaunch, handles, CallHasResult
  <1>4. AnswersMatch'
    <2>1. \A q \in Processes : fin_res'[q] = None
      BY DEF Launch, MayLaunch, CallHasResult
    <2> QED
      BY <2>1 DEF Launch, handles, AnswersMatch
  <1>5. MissSeen'
    BY DEF Launch, MayLaunch, handles, MissSeen, Seen
  <1>6. DirtyHidesOthers'
    BY DEF Launch, MayLaunch, handles, DirtyHidesOthers
  <1> QED
    BY <1>1, <1>2, <1>3, <1>4, <1>5, <1>6

LEMMA CallKeeps ==
    ASSUME IInv, NEW p \in Processes, Call(p)
    PROVE  IInv'
  <1> USE Facts DEF IInv, TypeOK
  <1>1. TypeOK'
    BY DEF Call, handles
  <1>2. OneAtATime'
    BY DEF Call, handles, OneAtATime
  <1>3. CallHasResult'
    BY DEF Call, handles, CallHasResult
  <1>4. AnswersMatch'
    BY DEF Call, handles, AnswersMatch, Results
  <1>5. MissSeen'
    BY DEF Call, handles, MissSeen, Seen, OneAtATime
  <1>6. DirtyHidesOthers'
    BY DEF Call, handles, DirtyHidesOthers, Seen, OneAtATime
  <1> QED
    BY <1>1, <1>2, <1>3, <1>4, <1>5, <1>6

LEMMA LookUpKeeps ==
    ASSUME IInv, NEW p \in Processes, LookUp(p)
    PROVE  IInv'
  <1> USE Facts DEF IInv
  <1>u. UNCHANGED <<file, corrupt, dbp, view, dirty, build, key>> /\ pc[p] = "get"
    BY DEF LookUp, handles, calls
  <1>t. dirty' = dirty /\ (\A q \in Processes, k \in Keys : Seen(q, k)' = Seen(q, k))
    BY <1>u DEF Seen
  <1>1. PICK found \in Get(p) :
          IF Hit(p, found)
          THEN /\ pc' = [pc EXCEPT ![p] = "idle"]
               /\ fin_res' = [fin_res EXCEPT ![p] = found]
          ELSE pc' = [pc EXCEPT ![p] = "solve"] /\ UNCHANGED fin_res
    BY DEF LookUp
  <1>2. found # None => found = Seen(p, key[p]) /\ found \in Results /\ found.key = key[p]
    <2>1. key[p] \in Keys /\ Seen(p, key[p]) \in Results \cup {None}
      BY DEF TypeOK, Seen
    <2>2. Seen(p, key[p]) # None => Seen(p, key[p]).key = key[p]
      BY <2>1 DEF Seen, AnswersMatch
    <2>3. found # None => found = Seen(p, key[p])
      BY <1>1 DEF Get, OneAtATime
    <2> QED
      BY <2>1, <2>2, <2>3
  <1>3. dbp[p] = "open" => found = Seen(p, key[p])
    BY <1>1 DEF Get, OneAtATime
  <1>4. CASE Hit(p, found)
    <2>1. TypeOK'
      <3>1. /\ fin_res' = [fin_res EXCEPT ![p] = found] /\ pc' = [pc EXCEPT ![p] = "idle"]
            /\ found \in Results
        BY <1>1, <1>2, <1>4 DEF Hit
      <3>2. fin_res' \in [Processes -> Results \cup {None}]
        BY <3>1 DEF TypeOK
      <3> QED
        BY <3>1, <3>2, <1>u DEF TypeOK
    <2>2. OneAtATime'
      BY <1>1, <1>4, <1>u DEF TypeOK, OneAtATime
    <2>3. CallHasResult'
      BY <1>1, <1>4, <1>u DEF TypeOK, CallHasResult
    <2>4. AnswersMatch'
      BY <1>1, <1>2, <1>4, <1>u DEF TypeOK, AnswersMatch, Hit
    <2>5. MissSeen' /\ DirtyHidesOthers'
      BY <1>1, <1>4, <1>u, <1>t DEF TypeOK, MissSeen, DirtyHidesOthers
    <2> QED
      BY <2>1, <2>2, <2>3, <2>4, <2>5
  <1>5. CASE ~ Hit(p, found)
    <2>1. TypeOK'
      BY <1>1, <1>5, <1>u DEF TypeOK
    <2>2. OneAtATime'
      BY <1>1, <1>5, <1>u DEF TypeOK, OneAtATime
    <2>3. CallHasResult'
      BY <1>1, <1>5, <1>u DEF TypeOK, CallHasResult
    <2>4. AnswersMatch'
      BY <1>1, <1>5, <1>u DEF TypeOK, AnswersMatch
    <2>5. DirtyHidesOthers'
      BY <1>1, <1>5, <1>u, <1>t DEF TypeOK, DirtyHidesOthers
    <2>6. MissSeen'
      BY <1>1, <1>3, <1>5, <1>u, <1>t DEF TypeOK, MissSeen, Hit
    <2> QED
      BY <2>1, <2>2, <2>3, <2>4, <2>5, <2>6
  <1> QED
    BY <1>4, <1>5

LEMMA SolveKeeps ==
    ASSUME IInv, NEW p \in Processes, Solve(p)
    PROVE  IInv'
  <1> DEFINE r == [build |-> build[p], key |-> key[p]]
  <1> USE Facts DEF IInv
  <1>u. UNCHANGED <<file, corrupt, dbp, view, dirty, build, key>> /\ pc[p] = "solve"
    BY DEF Solve, handles, calls
  <1>t. \A q \in Processes, k \in Keys : Seen(q, k)' = Seen(q, k)
    BY <1>u DEF Seen
  <1>r. r \in Results /\ r # None /\ r.build = build[p] /\ r.key = key[p]
    BY DEF TypeOK, Results
  <1>p. pc' = [pc EXCEPT ![p] = "del"] /\ fin_res' = [fin_res EXCEPT ![p] = r]
    BY DEF Solve
  <1> HIDE DEF r
  <1>1. TypeOK'
    BY <1>u, <1>r, <1>p DEF TypeOK
  <1>2. OneAtATime'
    BY <1>u, <1>p DEF TypeOK, OneAtATime
  <1>3. CallHasResult'
    BY <1>u, <1>r, <1>p DEF TypeOK, CallHasResult
  <1>4. AnswersMatch'
    BY <1>u, <1>r, <1>p DEF TypeOK, AnswersMatch
  <1>5. MissSeen' /\ DirtyHidesOthers'
    BY <1>u, <1>t, <1>p DEF TypeOK, MissSeen, DirtyHidesOthers
  <1> QED
    BY <1>1, <1>2, <1>3, <1>4, <1>5

LEMMA DeleteOldKeeps ==
    ASSUME IInv, NEW p \in Processes, DeleteOld(p)
    PROVE  IInv'
  <1> USE Facts DEF IInv
  <1>u. /\ UNCHANGED <<file, corrupt, dbp, build, key, fin_res>>
        /\ pc[p] = "del" /\ pc' = [pc EXCEPT ![p] = "put"]
    BY DEF DeleteOld, handles, calls, Change
  <1>o. \A q \in Processes \ {p} : pc[q] = "off" /\ pc'[q] = "off"
    BY <1>u DEF OneAtATime, TypeOK
  <1>1. PICK found \in Get(p) : (found # None /\ Change(p, None)) \/ UNCHANGED handles
    BY DEF DeleteOld
  <1>3. OneAtATime' /\ CallHasResult'
    BY <1>u DEF TypeOK, OneAtATime, CallHasResult
  <1>4. CASE found # None /\ Change(p, None)
    <2>1. /\ view' = [view EXCEPT ![p][key[p]] = None]
          /\ dirty' = [dirty EXCEPT ![p] = @ \cup {key[p]}]
      BY <1>1, <1>4 DEF Change
    <2>2. dbp[p] = "open"
      BY <1>1, <1>4, <1>u DEF Get, TypeOK, CallHasResult
    <2>3. TypeOK'
      BY <2>1, <1>u DEF TypeOK
    <2>4. AnswersMatch'
      BY <2>1, <1>u DEF TypeOK, AnswersMatch
    <2>5. MissSeen'
      BY <2>1, <1>u, <1>o DEF TypeOK, MissSeen, Seen
    <2>6. DirtyHidesOthers'
      <3>1. file[key[p]] # None => Size[file[key[p]].build] # Size[build[p]]
        BY <1>u, <2>2 DEF TypeOK, MissSeen, DirtyHidesOthers, Seen
      <3> QED
        BY <2>1, <3>1, <1>u DEF TypeOK, DirtyHidesOthers
    <2> QED
      BY <1>3, <2>3, <2>4, <2>5, <2>6
  <1>5. CASE UNCHANGED handles
    <2>1. UNCHANGED <<view, dirty>>
      BY <1>5 DEF handles
    <2>2. TypeOK' /\ AnswersMatch' /\ DirtyHidesOthers'
      BY <2>1, <1>u DEF TypeOK, AnswersMatch, DirtyHidesOthers
    <2>3. MissSeen'
      BY <2>1, <1>u, <1>o DEF TypeOK, MissSeen, Seen
    <2> QED
      BY <1>3, <2>2, <2>3
  <1> QED
    BY <1>1, <1>4, <1>5

LEMMA PutKeeps ==
    ASSUME IInv, NEW p \in Processes, Put(p)
    PROVE  IInv'
  <1> USE Facts DEF IInv
  <1>u. /\ UNCHANGED <<file, corrupt, dbp, build, key, fin_res>>
        /\ pc[p] = "put" /\ pc' = [pc EXCEPT ![p] = "sync"]
    BY DEF Put, handles, calls, Change
  <1>o. \A q \in Processes \ {p} : pc[q] = "off" /\ pc'[q] = "off"
    BY <1>u DEF OneAtATime, TypeOK
  <1>1. OneAtATime' /\ CallHasResult'
    BY <1>u DEF TypeOK, OneAtATime, CallHasResult
  <1>2. MissSeen'
    BY <1>u, <1>o DEF TypeOK, MissSeen
  <1>3. CASE dbp[p] = "open" /\ Seen(p, key[p]) = None /\ Change(p, fin_res[p])
    <2>1. /\ view' = [view EXCEPT ![p][key[p]] = fin_res[p]]
          /\ dirty' = [dirty EXCEPT ![p] = @ \cup {key[p]}]
      BY <1>3 DEF Change
    <2>2. fin_res[p] \in Results /\ fin_res[p].key = key[p]
      BY <1>u DEF TypeOK, CallHasResult, AnswersMatch
    <2>3. TypeOK'
      BY <2>1, <2>2, <1>u DEF TypeOK
    <2>4. AnswersMatch'
      BY <2>1, <2>2, <1>u DEF TypeOK, AnswersMatch
    <2>5. DirtyHidesOthers'
      <3>1. file[key[p]] # None => Size[file[key[p]].build] # Size[build[p]]
        BY <1>3 DEF TypeOK, DirtyHidesOthers, Seen
      <3> QED
        BY <2>1, <3>1, <1>u DEF TypeOK, DirtyHidesOthers
    <2> QED
      BY <1>1, <1>2, <2>3, <2>4, <2>5
  <1>4. CASE UNCHANGED handles
    <2>1. UNCHANGED <<view, dirty>>
      BY <1>4 DEF handles
    <2>2. TypeOK' /\ AnswersMatch' /\ DirtyHidesOthers'
      BY <2>1, <1>u DEF TypeOK, AnswersMatch, DirtyHidesOthers
    <2> QED
      BY <1>1, <1>2, <2>2
  <1> QED
    BY <1>3, <1>4 DEF Put

(* Pages written by the only process that runs. *)
LEMMA WriteKeeps ==
    ASSUME IInv, NEW p \in Processes, NEW ks \in SUBSET Keys, ks \subseteq dirty[p],
           pc[p] # "off", Write(p, ks), UNCHANGED <<dbp, build, key, fin_res>>,
           pc' = pc \/ pc' = [pc EXCEPT ![p] = "idle"]
    PROVE  TypeOK' /\ OneAtATime' /\ AnswersMatch' /\ DirtyHidesOthers'
  <1> USE Facts DEF IInv
  <1>1. /\ file' = [k \in Keys |-> IF k \in ks THEN view[p][k] ELSE file[k]]
        /\ view' = [view EXCEPT ![p] = [k \in Keys |-> IF k \in ks THEN None ELSE view[p][k]]]
        /\ dirty' = [dirty EXCEPT ![p] = dirty[p] \ ks]
        /\ corrupt' = (corrupt \/ (ks # {} /\ \E q \in Processes \ {p} : dbp[q] = "open"))
    BY DEF Write
  <1>o. \A q \in Processes \ {p} : pc[q] = "off" /\ dbp[q] = "NULL" /\ dirty[q] = {}
    BY DEF OneAtATime, TypeOK
  <1>2. TypeOK'
    <2>1. file' \in [Keys -> Results \cup {None}] /\ view' \in [Processes -> [Keys -> Results \cup {None}]]
      BY <1>1 DEF TypeOK
    <2>2. dirty' \in [Processes -> SUBSET Keys] /\ corrupt' \in BOOLEAN
      BY <1>1 DEF TypeOK
    <2> QED
      BY <2>1, <2>2, <1>1 DEF TypeOK
  <1>3. OneAtATime'
    BY <1>1, <1>o DEF TypeOK, OneAtATime
  <1>4. AnswersMatch'
    <2>1. \A k \in Keys : file'[k] # None => file'[k].key = k
      BY <1>1 DEF TypeOK, AnswersMatch
    <2>2. \A q \in Processes : \A k \in dirty'[q] : view'[q][k] # None => view'[q][k].key = k
      BY <1>1, <1>o DEF TypeOK, AnswersMatch
    <2> QED
      BY <2>1, <2>2 DEF AnswersMatch
  <1>5. DirtyHidesOthers'
    BY <1>1, <1>o DEF TypeOK, DirtyHidesOthers
  <1> QED
    BY <1>2, <1>3, <1>4, <1>5

LEMMA SyncKeeps ==
    ASSUME IInv, NEW p \in Processes, Sync(p)
    PROVE  IInv'
  <1> USE Facts DEF IInv
  <1>u. UNCHANGED <<dbp, build, key, fin_res>> /\ pc[p] = "sync"
          /\ pc' = [pc EXCEPT ![p] = "idle"]
    BY DEF Sync, Write, handles, calls
  <1>o. \A q \in Processes \ {p} : pc[q] = "off" /\ pc'[q] = "off"
    BY <1>u DEF OneAtATime, TypeOK
  <1>1. CallHasResult' /\ MissSeen'
    BY <1>u, <1>o DEF TypeOK, CallHasResult, MissSeen
  <1>2. CASE Write(p, dirty[p])
    <2>1. dirty[p] \in SUBSET Keys
      BY DEF TypeOK
    <2>2. TypeOK' /\ OneAtATime' /\ AnswersMatch' /\ DirtyHidesOthers'
      BY <1>u, <1>2, <2>1, WriteKeeps
    <2> QED
      BY <1>1, <2>2
  <1>3. CASE UNCHANGED <<file, corrupt, handles>>
    BY <1>1, <1>u, <1>3 DEF TypeOK, OneAtATime, AnswersMatch, DirtyHidesOthers, handles
  <1> QED
    BY <1>2, <1>3 DEF Sync

LEMMA EvictKeeps ==
    ASSUME IInv, NEW p \in Processes, Evict(p)
    PROVE  IInv'
  <1> USE Facts DEF IInv
  <1>1. PICK k \in dirty[p] : Write(p, {k})
    BY DEF Evict
  <1>u. UNCHANGED <<dbp, pc, build, key, fin_res>>
    BY DEF Evict, calls, Write
  <1>2. {k} \in SUBSET Keys /\ {k} \subseteq dirty[p] /\ pc[p] # "off"
    BY DEF TypeOK
  <1>o. \A q \in Processes \ {p} : pc[q] = "off"
    BY <1>2 DEF OneAtATime
  <1>3. TypeOK' /\ OneAtATime' /\ AnswersMatch' /\ DirtyHidesOthers'
    BY <1>u, <1>1, <1>2, WriteKeeps
  <1>4. key[p] \in Keys /\ Seen(p, key[p])' = Seen(p, key[p])
    BY <1>u, <1>1, <1>2, SeenAfterWrite DEF TypeOK, Seen
  <1>5. CallHasResult' /\ MissSeen'
    BY <1>u, <1>o, <1>4 DEF CallHasResult, MissSeen
  <1> QED
    BY <1>3, <1>5

LEMMA LeaveKeeps ==
    ASSUME IInv, NEW p \in Processes, Leave(p)
    PROVE  IInv'
  <1> USE Facts DEF IInv, TypeOK
  <1>1. TypeOK'
    BY DEF Leave, calls
  <1>2. OneAtATime'
    BY DEF Leave, calls, OneAtATime
  <1>3. CallHasResult'
    BY DEF Leave, calls, CallHasResult
  <1>4. AnswersMatch'
    BY DEF Leave, calls, AnswersMatch, Results
  <1>5. MissSeen'
    BY DEF Leave, calls, MissSeen, Seen, OneAtATime
  <1>6. DirtyHidesOthers'
    BY DEF Leave, calls, DirtyHidesOthers, Seen, OneAtATime
  <1> QED
    BY <1>1, <1>2, <1>3, <1>4, <1>5, <1>6

LEMMA InitIInv ==
    ASSUME Init
    PROVE  IInv
  BY Facts DEF Init, IInv, TypeOK, OneAtATime, CallHasResult, AnswersMatch,
     MissSeen, DirtyHidesOthers

LEMMA StepIInv ==
    ASSUME IInv, [Next]_vars
    PROVE  IInv'
  <1>1. CASE UNCHANGED vars
    BY <1>1 DEF vars, handles, calls, IInv, TypeOK, OneAtATime, CallHasResult, AnswersMatch,
       MissSeen, DirtyHidesOthers, Seen
  <1>2. ASSUME NEW p \in Processes,
               Launch(p) \/ Call(p) \/ Step(p) \/ Evict(p) \/ Leave(p)
        PROVE  IInv'
    BY <1>2, LaunchKeeps, CallKeeps, LookUpKeeps, SolveKeeps, DeleteOldKeeps, PutKeeps,
       SyncKeeps, EvictKeeps, LeaveKeeps DEF Step
  <1> QED
    BY <1>1, <1>2 DEF Next

LEMMA AlwaysIInv == Spec => []IInv
  <1>1. Init => IInv
    BY InitIInv
  <1>2. IInv /\ [Next]_vars => IInv'
    BY StepIInv
  <1> QED
    BY <1>1, <1>2, PTL DEF Spec

(* Types; and a process that has ended leaves no handle and no page behind *)
(* (io.cc:3417-3471).                                                      *)
THEOREM TypeCorrect == Spec => []TypeOK
  <1>1. IInv => TypeOK
    BY DEF IInv
  <1> QED
    BY <1>1, AlwaysIInv, PTL

(* Whatever builds have used the database, whatever failed and whoever was *)
(* killed: an answer is the array asked for, of this build's size          *)
(* (io.cc:3444-3471).                                                      *)
THEOREM AnswersAlwaysMatch == Spec => []AnswersMatch
  <1>1. IInv => AnswersMatch
    BY DEF IInv
  <1> QED
    BY <1>1, AlwaysIInv, PTL

LEMMA WriteHidesNothing ==
    ASSUME IInv, NEW p \in Processes, NEW ks \in SUBSET Keys, ks \subseteq dirty[p],
           Write(p, ks), NEW k \in Keys, file[k] # None, file'[k] # file[k]
    PROVE  pc[p] # "off" /\ Size[build[p]] # Size[file[k].build]
  <1>1. k \in dirty[p]
    BY DEF Write
  <1> QED
    BY <1>1 DEF IInv, TypeOK, DirtyHidesOthers

(* A result in the file stays there until a process of a build with        *)
(* another size runs (io.cc:3444-3461).                                    *)
THEOREM SavedAlwaysStays == Spec => SavedStays
  <1> DEFINE Stays == \A k \in Keys : file[k] # None /\ file'[k] # file[k] =>
         \E p \in Processes : pc[p] # "off" /\ Size[build[p]] # Size[file[k].build]
  <1>1. IInv /\ [Next]_vars => [Stays]_vars
    <2> SUFFICES ASSUME IInv, Next, NEW k \in Keys, file[k] # None, file'[k] # file[k]
                 PROVE  \E p \in Processes :
                          pc[p] # "off" /\ Size[build[p]] # Size[file[k].build]
      OBVIOUS
    <2>1. ASSUME NEW p \in Processes, Sync(p)
          PROVE  pc[p] # "off" /\ Size[build[p]] # Size[file[k].build]
      <3>1. Write(p, dirty[p]) /\ dirty[p] \in SUBSET Keys
        BY <2>1 DEF Sync, IInv, TypeOK
      <3> QED
        BY <3>1, WriteHidesNothing
    <2>2. ASSUME NEW p \in Processes, Evict(p)
          PROVE  pc[p] # "off" /\ Size[build[p]] # Size[file[k].build]
      <3>1. PICK j \in dirty[p] : Write(p, {j})
        BY <2>2 DEF Evict
      <3>2. {j} \in SUBSET Keys /\ {j} \subseteq dirty[p]
        BY DEF IInv, TypeOK
      <3> QED
        BY <3>1, <3>2, WriteHidesNothing
    <2>3. ASSUME NEW p \in Processes, Launch(p) \/ Call(p) \/ LookUp(p) \/ Solve(p)
                                       \/ DeleteOld(p) \/ Put(p) \/ Leave(p)
          PROVE  FALSE
      BY <2>3 DEF Launch, Call, LookUp, Solve, DeleteOld, Put, Leave
    <2> QED
      BY <2>1, <2>2, <2>3 DEF Next, Step
  <1>2. Spec => [][Stays]_vars
    BY <1>1, AlwaysIInv, PTL DEF Spec
  <1> QED
    BY <1>2 DEF SavedStays

-----------------------------------------------------------------------------
(* Refinement: the caller's view of each action. *)

LEMMA InitServes ==
    ASSUME Init
    PROVE  Service!Init
  BY Facts DEF Init, Service!Init, phase, answer

(* Inside a call nothing is seen of it. *)
LEMMA InsideIsUnseen ==
    ASSUME IInv, NEW p \in Processes, NEW at \in {"get", "solve", "del", "put", "sync"},
           pc[p] \notin {"off", "idle"}, pc' = [pc EXCEPT ![p] = at],
           \A q \in Processes \ {p} : fin_res'[q] = fin_res[q], UNCHANGED <<build, key>>
    PROVE  UNCHANGED Service!service
  <1>1. phase' = phase
    BY DEF phase, IInv, TypeOK
  <1>2. answer' = answer
    BY DEF answer, IInv, TypeOK
  <1> QED
    BY <1>1, <1>2 DEF Service!service

(* A call that returns, with what it has then for a result, answers. *)
LEMMA ReturnAnswers ==
    ASSUME IInv, IInv', NEW p \in Processes,
           pc[p] \notin {"off", "idle"}, pc' = [pc EXCEPT ![p] = "idle"],
           fin_res'[p] # None, \A q \in Processes \ {p} : fin_res'[q] = fin_res[q],
           UNCHANGED <<build, key>>
    PROVE  Service!Answer(p)
  <1>1. phase[p] = "asked"
    BY DEF phase, IInv, TypeOK
  <1>2. phase' = [phase EXCEPT ![p] = "idle"]
    BY DEF phase, IInv, TypeOK
  <1>3. answer' = [answer EXCEPT ![p] = fin_res'[p]]
    BY DEF answer, IInv, TypeOK
  <1>4. /\ fin_res'[p] \in Results
        /\ fin_res'[p].key = key[p] /\ Size[fin_res'[p].build] = Size[build[p]]
    BY DEF IInv, TypeOK, AnswersMatch
  <1>5. fin_res'[p] \in Service!Fits(p)
    BY <1>4 DEF Service!Fits, Service!Results, Results
  <1> QED
    BY <1>1, <1>2, <1>3, <1>5 DEF Service!Answer

LEMMA StepServes ==
    ASSUME IInv, IInv', [Next]_vars
    PROVE  [Service!Next]_Service!service
  <1>1. CASE UNCHANGED vars
    BY <1>1 DEF vars, calls, Service!service, phase, answer
  <1>2. ASSUME NEW p \in Processes, Launch(p)
        PROVE  Service!Launch(p)
    <2>1. phase[p] = "off" /\ phase' = [phase EXCEPT ![p] = "idle"]
      BY <1>2 DEF Launch, phase, IInv, TypeOK
    <2>2. answer' = answer
      BY <1>2 DEF Launch, MayLaunch, answer, IInv, TypeOK, CallHasResult
    <2> QED
      BY <1>2, <2>1, <2>2 DEF Launch, Service!Launch
  <1>3. ASSUME NEW p \in Processes, Call(p)
        PROVE  Service!Ask(p)
    <2>1. phase[p] = "idle" /\ phase' = [phase EXCEPT ![p] = "asked"]
      BY <1>3 DEF Call, phase, IInv, TypeOK
    <2>2. answer' = [answer EXCEPT ![p] = None]
      BY <1>3 DEF Call, answer, IInv, TypeOK
    <2> QED
      BY <1>3, <2>1, <2>2 DEF Call, Service!Ask
  <1>4. ASSUME NEW p \in Processes, LookUp(p)
        PROVE  Service!Answer(p) \/ UNCHANGED Service!service
    <2>1. PICK found \in Get(p) :
            IF Hit(p, found)
            THEN /\ pc' = [pc EXCEPT ![p] = "idle"]
                 /\ fin_res' = [fin_res EXCEPT ![p] = found]
            ELSE pc' = [pc EXCEPT ![p] = "solve"] /\ UNCHANGED fin_res
      BY <1>4 DEF LookUp
    <2>2. UNCHANGED <<build, key>> /\ pc[p] = "get"
      BY <1>4 DEF LookUp, calls
    <2>3. CASE Hit(p, found)
      <3>1. fin_res'[p] # None /\ \A q \in Processes \ {p} : fin_res'[q] = fin_res[q]
        BY <2>1, <2>3 DEF Hit, IInv, TypeOK
      <3> QED
        BY <2>1, <2>2, <2>3, <3>1, ReturnAnswers
    <2>4. CASE ~ Hit(p, found)
      BY <2>1, <2>2, <2>4, InsideIsUnseen
    <2> QED
      BY <2>3, <2>4
  <1>5. ASSUME NEW p \in Processes, Solve(p)
        PROVE  UNCHANGED Service!service
    <2>1. /\ UNCHANGED <<build, key>> /\ pc[p] = "solve" /\ pc' = [pc EXCEPT ![p] = "del"]
          /\ \A q \in Processes \ {p} : fin_res'[q] = fin_res[q]
      BY <1>5 DEF Solve, calls, IInv, TypeOK
    <2> QED
      BY <2>1, InsideIsUnseen
  <1>6. ASSUME NEW p \in Processes, DeleteOld(p) \/ Put(p)
        PROVE  UNCHANGED Service!service
    <2>1. CASE DeleteOld(p)
      <3>1. /\ UNCHANGED <<build, key, fin_res>> /\ pc[p] = "del"
            /\ pc' = [pc EXCEPT ![p] = "put"]
        BY <2>1 DEF DeleteOld, calls
      <3> QED
        BY <3>1, InsideIsUnseen
    <2>2. CASE Put(p)
      <3>1. /\ UNCHANGED <<build, key, fin_res>> /\ pc[p] = "put"
            /\ pc' = [pc EXCEPT ![p] = "sync"]
        BY <2>2 DEF Put, calls
      <3> QED
        BY <3>1, InsideIsUnseen
    <2> QED
      BY <1>6, <2>1, <2>2
  <1>7. ASSUME NEW p \in Processes, Sync(p)
        PROVE  Service!Answer(p)
    <2>1. UNCHANGED <<build, key, fin_res>> /\ pc[p] = "sync" /\ pc' = [pc EXCEPT ![p] = "idle"]
      BY <1>7 DEF Sync, calls
    <2>2. fin_res[p] # None
      BY <2>1 DEF IInv, CallHasResult
    <2> QED
      BY <2>1, <2>2, ReturnAnswers
  <1>8. ASSUME NEW p \in Processes, Evict(p)
        PROVE  UNCHANGED Service!service
    BY <1>8 DEF Evict, calls, Service!service, phase, answer
  <1>9. ASSUME NEW p \in Processes, Leave(p)
        PROVE  Service!Leave(p)
    <2>1. phase[p] # "off" /\ phase' = [phase EXCEPT ![p] = "off"]
      <3>1. /\ pc[p] # "off" /\ pc' = [pc EXCEPT ![p] = "off"]
            /\ pc \in [Processes -> {"off", "idle", "get", "solve", "del", "put", "sync"}]
        BY <1>9 DEF Leave, IInv, TypeOK
      <3>2. phase[p] # "off"
        BY <3>1 DEF phase
      <3>3. \A q \in Processes : phase'[q] = IF q = p THEN "off" ELSE phase[q]
        BY <3>1 DEF phase
      <3> QED
        BY <3>2, <3>3 DEF phase
    <2>2. answer' = [answer EXCEPT ![p] = None]
      BY <1>9 DEF Leave, answer, IInv, TypeOK
    <2> QED
      BY <1>9, <2>1, <2>2 DEF Leave, calls, Service!Leave
  <1> QED
    BY <1>1, <1>2, <1>3, <1>4, <1>5, <1>6, <1>7, <1>8, <1>9
    DEF Next, Step, Service!Next

(* Every call of cacti_interface is answered, if it is, as ArrayService    *)
(* promises (io.cc:3289-3486).                                             *)
THEOREM CacheServes == Spec => Service!Safe
  <1>1. Init => Service!Init
    BY InitServes
  <1>2. IInv /\ IInv' /\ [Next]_vars => [Service!Next]_Service!service
    BY StepServes
  <1> QED
    BY <1>1, <1>2, AlwaysIInv, PTL DEF Spec, Service!Safe

=============================================================================
