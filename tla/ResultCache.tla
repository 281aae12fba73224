---------------------------- MODULE ResultCache ----------------------------
(***************************************************************************)
(* cacti_interface of fast_mcpat/cacti/io.cc: the results of cacti are     *)
(* kept in a Berkeley DB file in the temporary directory, which all McPAT  *)
(* processes of a user share.  A call looks its parameters up; if there is *)
(* no result, or one of another size than uca_org_t has in this build, it  *)
(* solves, deletes what is there, puts its result and syncs.               *)
(*                                                                         *)
(* The database is external.  A process works on pages of its own and      *)
(* writes them back when it syncs, or earlier; a process that ends loses   *)
(* what it has not written.  Opening and writing may fail, which the code  *)
(* ignores.  The file has no locks (no environment is passed to            *)
(* db_create), so a write while another process has it open may leave      *)
(* anything in it: that is the corruption of run_mcpat.py's comment on     *)
(* more than one McPAT at a time.  Keys are whole: the parameters lie      *)
(* between first and last, and the constructor has zeroed their padding.   *)
(***************************************************************************)
EXTENDS Naturals

CONSTANTS Processes, Builds, Keys, Size, None

Results == [build : Builds, key : Keys]

ASSUME CacheAssumption ==
    /\ Size \in [Builds -> Nat]
    /\ None \notin Results

VARIABLES
    file,       \* what the database file holds of each key
    corrupt,    \* it was written by one process while another had it open
    dbp,        \* the handle of each process: "NULL", "open", "failed"
    view,       \* the pages it has changed and
    dirty,      \*   not written yet, by key
    pc, build, key,
    fin_res     \* the result of the call under way or the last one

handles == <<dbp, view, dirty>>
calls   == <<build, key>>
vars    == <<file, corrupt, handles, pc, calls, fin_res>>

Init ==
    /\ file = [k \in Keys |-> None]
    /\ corrupt = FALSE
    /\ dbp = [p \in Processes |-> "NULL"]
    /\ view = [p \in Processes |-> [k \in Keys |-> None]]
    /\ dirty = [p \in Processes |-> {}]
    /\ pc = [p \in Processes |-> "off"]
    /\ build \in [Processes -> Builds]
    /\ key \in [Processes -> Keys]
    /\ fin_res = [p \in Processes |-> None]

-----------------------------------------------------------------------------
(* The database. *)

(* What a process that has opened the file finds under a key. *)
Seen(p, k) == IF k \in dirty[p] THEN view[p][k] ELSE file[k]

(* dbp->get.  It fails when the file could not be opened; as nothing can   *)
(* be deleted then either, that comes to the same as no entry.             *)
Get(p) ==
    IF dbp[p] = "failed" THEN {None}
    ELSE IF corrupt THEN Results \cup {None}
    ELSE {Seen(p, key[p])}

(* dbp->del and dbp->put change the process's own page. *)
Change(p, entry) ==
    /\ view' = [view EXCEPT ![p][key[p]] = entry]
    /\ dirty' = [dirty EXCEPT ![p] = @ \cup {key[p]}]
    /\ UNCHANGED dbp

(* Pages go to the file. *)
Write(p, keys) ==
    /\ file' = [k \in Keys |-> IF k \in keys THEN view[p][k] ELSE file[k]]
    /\ view' = [view EXCEPT ![p] = [k \in Keys |-> IF k \in keys THEN None ELSE @[k]]]
    /\ dirty' = [dirty EXCEPT ![p] = @ \ keys]
    /\ corrupt' = (corrupt \/ (keys # {} /\ \E q \in Processes \ {p} : dbp[q] = "open"))
    /\ UNCHANGED dbp

(* The database writes a page before it is told to, to make room. *)
Evict(p) ==
    /\ \E k \in dirty[p] : Write(p, {k})
    /\ UNCHANGED <<pc, calls, fin_res>>

-----------------------------------------------------------------------------
(* The processes. *)

(* Mutant of MayLaunch: a pool of more workers. *)
MayLaunchMore == \E q \in Processes : pc[q] = "off"

(* WORKER_THREADS is 1 and each result is waited for. *)
MayLaunch == \A q \in Processes : pc[q] = "off"

Launch(p) ==
    /\ pc[p] = "off" /\ MayLaunch
    /\ pc' = [pc EXCEPT ![p] = "idle"]
    /\ \E b \in Builds : build' = [build EXCEPT ![p] = b]
    /\ UNCHANGED <<file, corrupt, handles, key, fin_res>>

(* compute_base_power asks for an array; the first call opens the file. *)
Call(p) ==
    /\ pc[p] = "idle"
    /\ pc' = [pc EXCEPT ![p] = "get"]
    /\ \E k \in Keys : key' = [key EXCEPT ![p] = k]
    /\ fin_res' = [fin_res EXCEPT ![p] = None]
    /\ IF dbp[p] = "NULL"
       THEN \E opened \in {"open", "failed"} : dbp' = [dbp EXCEPT ![p] = opened]
       ELSE UNCHANGED dbp
    /\ UNCHANGED <<file, corrupt, view, dirty, build>>

(* Mutants of Hit: any result will do; one of another size is taken. *)
HitWhatever(p, found) == found # None
HitLarger(p, found) == found # None /\ Size[found.build] > Size[build[p]]

Hit(p, found) == found # None /\ Size[found.build] = Size[build[p]]

(* The first get and, if it has found a result, the copy of it. *)
LookUp(p) ==
    /\ pc[p] = "get"
    /\ \E found \in Get(p) :
         IF Hit(p, found)
         THEN /\ pc' = [pc EXCEPT ![p] = "idle"]
              /\ fin_res' = [fin_res EXCEPT ![p] = found]
         ELSE pc' = [pc EXCEPT ![p] = "solve"] /\ UNCHANGED fin_res
    /\ UNCHANGED <<file, corrupt, handles, calls>>

Solve(p) ==
    /\ pc[p] = "solve"
    /\ pc' = [pc EXCEPT ![p] = "del"]
    /\ fin_res' = [fin_res EXCEPT ![p] = [build |-> build[p], key |-> key[p]]]
    /\ UNCHANGED <<file, corrupt, handles, calls>>

(* The second get, and a delete of what is there, which may fail unseen:   *)
(* the old entry then stays and put will refuse the new one.               *)
DeleteOld(p) ==
    /\ pc[p] = "del"
    /\ pc' = [pc EXCEPT ![p] = "put"]
    /\ \E found \in Get(p) :
         (found # None /\ Change(p, None)) \/ UNCHANGED handles
    /\ UNCHANGED <<file, corrupt, calls, fin_res>>

(* put with DB_NOOVERWRITE; when it fails a message is printed. *)
Put(p) ==
    /\ pc[p] = "put"
    /\ pc' = [pc EXCEPT ![p] = "sync"]
    /\ \/ dbp[p] = "open" /\ Seen(p, key[p]) = None /\ Change(p, fin_res[p])
       \/ UNCHANGED handles
    /\ UNCHANGED <<file, corrupt, calls, fin_res>>

(* sync writes what there is to write, or fails; then the call returns. *)
Sync(p) ==
    /\ pc[p] = "sync"
    /\ pc' = [pc EXCEPT ![p] = "idle"]
    /\ Write(p, dirty[p]) \/ UNCHANGED <<file, corrupt, handles>>
    /\ UNCHANGED <<calls, fin_res>>

(* Mutant of Leave: changed pages outlive their process. *)
LeaveWithPages(p) ==
    /\ pc[p] # "off"
    /\ pc' = [pc EXCEPT ![p] = "off"]
    /\ fin_res' = [fin_res EXCEPT ![p] = None]
    /\ dbp' = [dbp EXCEPT ![p] = "NULL"]
    /\ UNCHANGED <<file, corrupt, view, dirty, calls>>

(* McPAT ends or is killed.  The handle is never closed. *)
Leave(p) ==
    /\ pc[p] # "off"
    /\ pc' = [pc EXCEPT ![p] = "off"]
    /\ fin_res' = [fin_res EXCEPT ![p] = None]
    /\ dbp' = [dbp EXCEPT ![p] = "NULL"]
    /\ view' = [view EXCEPT ![p] = [k \in Keys |-> None]]
    /\ dirty' = [dirty EXCEPT ![p] = {}]
    /\ UNCHANGED <<file, corrupt, calls>>

Step(p) == LookUp(p) \/ Solve(p) \/ DeleteOld(p) \/ Put(p) \/ Sync(p)
Next == \E p \in Processes : Launch(p) \/ Call(p) \/ Step(p) \/ Evict(p) \/ Leave(p)

(* A process that runs goes on running; nothing in a call blocks. *)
Spec == Init /\ [][Next]_vars /\ \A p \in Processes : WF_vars(Step(p))

-----------------------------------------------------------------------------
(* Types, and: a process that has ended leaves no handle and no page.  *)
(* io.cc:3417-3471.                                                    *)
TypeOK ==
    /\ file \in [Keys -> Results \cup {None}]
    /\ corrupt \in BOOLEAN
    /\ dbp \in [Processes -> {"NULL", "open", "failed"}]
    /\ view \in [Processes -> [Keys -> Results \cup {None}]]
    /\ dirty \in [Processes -> SUBSET Keys]
    /\ pc \in [Processes -> {"off", "idle", "get", "solve", "del", "put", "sync"}]
    /\ build \in [Processes -> Builds]
    /\ key \in [Processes -> Keys]
    /\ fin_res \in [Processes -> Results \cup {None}]
    /\ \A p \in Processes : pc[p] = "off" => dbp[p] = "NULL" /\ dirty[p] = {}

(* What is saved under some parameters, in the file or on a page on its    *)
(* way there, is a result for those parameters, whoever saved it; so is    *)
(* what a call has for an answer, which is moreover of this build's size   *)
(* ("Or from a different version", io.cc:3445).                            *)
AnswersMatch ==
    /\ \A k \in Keys : file[k] # None => file[k].key = k
    /\ \A p \in Processes : \A k \in dirty[p] : view[p][k] # None => view[p][k].key = k
    /\ \A p \in Processes : fin_res[p] # None =>
         fin_res[p].key = key[p] /\ Size[fin_res[p].build] = Size[build[p]]

(* A result in the file stays there, through failed deletes and writes and *)
(* processes that are killed, until a process of a build with another size runs: for *)
(* one and the same program nothing is computed again.  io.cc:3444-3461.   *)
SavedStays ==
    [][\A k \in Keys : file[k] # None /\ file'[k] # file[k] =>
         \E p \in Processes : pc[p] # "off" /\ Size[build[p]] # Size[file[k].build]]_vars

(* What the caller sees of the call. *)
phase  == [p \in Processes |-> IF pc[p] \in {"off", "idle"} THEN pc[p] ELSE "asked"]
answer == [p \in Processes |-> IF pc[p] = "idle" THEN fin_res[p] ELSE None]

Service == INSTANCE ArrayService WITH phase <- phase, answer <- answer

(* Each call of cacti_interface returns, with the array of its parameters  *)
(* as this program would compute it or one of the same layout, or its      *)
(* process ends.  io.cc:3289-3486.                                         *)
ImplementsService == Service!Spec
=============================================================================
