----------------------------- MODULE PowerModel -----------------------------
(***************************************************************************)
(* What a part of the chip promises to the Processor that adds it up.  It  *)
(* goes once through its stages: it is built, computes its peak power,     *)
(* then its run-time power, is shown and destroyed.  A total grows only in *)
(* its stage, is whole at the end of it, and stays so.                     *)
(***************************************************************************)
EXTENDS Integers

Stages == <<"construct", "TDP", "RTP", "display", "destroy", "gone">>
Gone   == 6
Totals == {"area", "dynamic", "leakage", "runtime"}
Due(s) == CASE s = 1 -> {"area"}
            [] s = 2 -> {"dynamic", "leakage"}
            [] s = 3 -> {"runtime"}
            [] OTHER -> {}

VARIABLES stage, whole
vars == <<stage, whole>>

Init == stage = 1 /\ whole = {}

(* A total becomes whole in its stage, at the latest with the stage's end. *)
Work == /\ stage < Gone
        /\ UNCHANGED stage
        /\ whole' \in {whole \cup done : done \in SUBSET Due(stage)}
Advance == /\ stage < Gone
           /\ stage' = stage + 1
           /\ whole' = whole \cup Due(stage)

Next == Work \/ Advance
Spec == Init /\ [][Next]_vars
=============================================================================
