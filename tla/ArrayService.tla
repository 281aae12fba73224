---------------------------- MODULE ArrayService ----------------------------
(***************************************************************************)
(* What cacti_interface (fast_mcpat/cacti/io.cc) promises McPAT, whatever  *)
(* stands between the question and the answer: a process that asks for the *)
(* array of some parameters gets the array of those parameters, computed   *)
(* by a build of the program whose result has the layout of its own.       *)
(***************************************************************************)
EXTENDS Naturals

CONSTANTS Processes,   \* McPAT processes
          Builds,      \* builds of the program
          Keys,        \* parameters of an array
          Size,        \* Size[b]: sizeof(uca_org_t) in build b
          None

Results == [build : Builds, key : Keys]

VARIABLES phase, build, key, answer

service == <<phase, build, key, answer>>

Init ==
    /\ phase = [p \in Processes |-> "off"]
    /\ build \in [Processes -> Builds]
    /\ key \in [Processes -> Keys]
    /\ answer = [p \in Processes |-> None]

Launch(p) ==
    /\ phase[p] = "off"
    /\ phase' = [phase EXCEPT ![p] = "idle"]
    /\ \E b \in Builds : build' = [build EXCEPT ![p] = b]
    /\ UNCHANGED <<key, answer>>

Ask(p) ==
    /\ phase[p] = "idle"
    /\ phase' = [phase EXCEPT ![p] = "asked"]
    /\ \E k \in Keys : key' = [key EXCEPT ![p] = k]
    /\ answer' = [answer EXCEPT ![p] = None]
    /\ UNCHANGED build

(* The results a process may take for the answer. *)
Fits(p) == {r \in Results : r.key = key[p] /\ Size[r.build] = Size[build[p]]}

Answer(p) ==
    /\ phase[p] = "asked"
    /\ phase' = [phase EXCEPT ![p] = "idle"]
    /\ \E r \in Fits(p) : answer' = [answer EXCEPT ![p] = r]
    /\ UNCHANGED <<build, key>>

(* A process may end at any time. *)
Leave(p) ==
    /\ phase[p] # "off"
    /\ phase' = [phase EXCEPT ![p] = "off"]
    /\ answer' = [answer EXCEPT ![p] = None]
    /\ UNCHANGED <<build, key>>

Next == \E p \in Processes : Launch(p) \/ Ask(p) \/ Answer(p) \/ Leave(p)

Safe == Init /\ [][Next]_service

Spec == Safe /\ \A p \in Processes : WF_service(Answer(p))
=============================================================================
