----------------------------- MODULE McpatMain ------------------------------
(***************************************************************************)
(* McPAT's main program (fast_mcpat/main.cc, XML_Parse.cc, processor.cc):  *)
(* the XML file is read section by section, a cursor counting the          *)
(* components of the system; the Processor constructs each part of the     *)
(* chip, has it compute its peak and its run-time power and adds it to the *)
(* total of its kind and of the chip; totals and parts are displayed, the  *)
(* XML data and then the parts deleted.                                    *)
(*                                                                         *)
(* A part is a pair of a kind and an index, whose entry of the XML data it *)
(* reads.  What it does inside is McpatPart's; here it is in one of the    *)
(* stages of PowerModel.  A total is the sequence of what was added to it. *)
(***************************************************************************)
EXTENDS Integers, SequencesExt

CONSTANTS MAX_NUM_CORES,  \* entries of each kind in the XML data
          Inputs          \* command lines and files considered

Arrays   == <<"core", "L1Directory", "L2Directory", "L2", "L3", "NoC">>
Singles  == <<"mc", "niu", "pcie", "flash">>
Building == <<"core", "L2", "L3", "L1Directory", "L2Directory", "mc", "flash", "niu", "pcie">>
Deleting == <<"core", "L2", "L3", "NoC", "L1Directory", "L2Directory", "mc", "niu", "pcie", "flash">>
\* Mutant of Phases: the links before the routers of all networks.
LinksFirst == <<"build", "links", "routers", "energy", "display">>
Phases   == <<"build", "routers", "links", "energy", "display">>

ArrayKinds  == {Arrays[n] : n \in DOMAIN Arrays}
SingleKinds == {Singles[n] : n \in DOMAIN Singles}
Kinds  == ArrayKinds \cup SingleKinds
Totals == {"area", "power", "rt_power"}

(* infile: a file was named.  number: number_of_* and, of the controllers, *)
(* number_mcs or number_units, with channels those of mc and pcie.  homo:  *)
(* homogeneous_*.  bus and linked: the NoCs of type 0 and those with       *)
(* has_global_link.  components: the kinds of the system's components.     *)
Input == [infile : BOOLEAN,
          number : [Kinds -> 0 .. MAX_NUM_CORES + 1], homo : [ArrayKinds -> BOOLEAN],
          Private_L2 : BOOLEAN, channels : [{"mc", "pcie"} -> {0, 1}], flash_type : {0, 1},
          bus : SUBSET Nat, linked : SUBSET Nat, components : Seq(Kinds)]

ASSUME InputsAssumption == MAX_NUM_CORES \in Nat \ {0} /\ Inputs \subseteq Input

VARIABLES
    input,        \* the command line and the file
    pc, section, i,   \* the phase, the kind it is at and the index within
    w, cursor,    \* the component to read next; OrderofComponents_3layer
    given,        \* the entries of the XML data that a component filled in
    misread,      \* the L2 entries that an L2 directory's component did
    stage,        \* the stage of PowerModel each part is in
    kind_total, chip_total,   \* what has been added to each total
    xml,          \* the XML data exist
    status        \* how the program ended
vars == <<input, pc, section, i, w, cursor, given, misread, stage, kind_total, chip_total, xml, status>>

Entries == Kinds \X (0 .. MAX_NUM_CORES - 1)

Exit(code) == pc' = "ended" /\ status' = code
Keep == UNCHANGED <<input, misread, xml>>

Init ==
    /\ input \in Inputs
    /\ pc = "check" /\ section = 1 /\ i = 0 /\ w = 0 /\ cursor = 0
    /\ given = {} /\ misread = {}
    /\ stage = [p \in Entries |-> 1]
    /\ kind_total = [k \in Kinds |-> [t \in Totals |-> <<>>]]
    /\ chip_total = [t \in Totals |-> <<>>]
    /\ xml = TRUE /\ status = "running"

----------------------------------------------------------------------------
(* The file: first the numbers, then a component for each entry.           *)
\* Mutant of TooMany: one more than there are entries.
OneTooMany == \E k \in ArrayKinds : input.number[k] > MAX_NUM_CORES + 1
TooMany == \E k \in ArrayKinds : input.number[k] > MAX_NUM_CORES
CheckNumbers ==
    /\ pc = "check"
    /\ IF ~input.infile \/ TooMany THEN Exit("exit 1")
       ELSE /\ pc' = IF input.components = <<>> THEN "private" ELSE "arrays"
            /\ UNCHANGED status
    /\ Keep /\ UNCHANGED <<section, i, w, cursor, given, stage, kind_total, chip_total>>

Component(n) == IF n + 1 \in DOMAIN input.components THEN input.components[n + 1] ELSE "none"
Wanted(k)    == IF input.homo[k] THEN 1 ELSE input.number[k]
(* No core at all: number_of_cores - 1 is the greatest unsigned number.    *)
Unbounded(k) == k = "core" /\ Wanted(k) = 0

\* Mutant of PassOver: the loop over the networks does not go on.
StayHere == UNCHANGED <<i, pc, status, given, w>>
PassOver == i' = i + 1 /\ UNCHANGED <<pc, status, given, w>>

(* A section knows its components by a part of the name, the directories   *)
(* by one of the id: an L2Directory0 passes for an L2, and what it lacks of *)
(* an L2 stays unset.                                                      *)
Recognised(kind, c) == c = kind \/ (kind = "L2" /\ c = "L2Directory")
(* A section that does not hold the components it should ends the program, *)
(* except that of the NoC, which passes over the same wrong component.     *)
ReadEntry ==
    LET kind == Arrays[section] here == Component(w) IN
    /\ pc = "arrays"
    /\ i < Wanted(kind) \/ Unbounded(kind)
    /\ CASE Recognised(kind, here) ->
                /\ IF here = kind THEN given' = given \cup {<<kind, i>>} /\ UNCHANGED misread
                   ELSE misread' = misread \cup {i} /\ UNCHANGED given
                /\ i' = i + 1 /\ w' = w + 1
                /\ UNCHANGED <<pc, status>>
         [] here \notin {kind, "none"} /\ kind = "NoC" -> PassOver /\ UNCHANGED misread
         [] OTHER -> Exit("exit 0") /\ UNCHANGED <<given, misread, i, w>>
    /\ UNCHANGED <<input, xml, section, cursor, stage, kind_total, chip_total>>

EndSection ==
    LET kind == Arrays[section] IN
    /\ pc = "arrays"
    /\ i = Wanted(kind) /\ ~Unbounded(kind)
    /\ cursor' = IF kind = "core" THEN Wanted(kind) - 1 ELSE cursor + Wanted(kind)
    /\ w' = cursor' + 1 /\ i' = 0
    /\ IF section < Len(Arrays) THEN section' = section + 1 /\ UNCHANGED pc
       ELSE section' = 1 /\ pc' = "singles"
    /\ Keep /\ UNCHANGED <<given, stage, kind_total, chip_total, status>>

(* The controllers' components; the cursor is not moved on from 0.         *)
ReadSingle ==
    LET kind == Singles[section]
        here == IF cursor > 0 THEN cursor + 1 ELSE cursor IN
    /\ pc = "singles"
    /\ cursor' = here
    /\ IF Component(here) # kind THEN Exit("exit 0") /\ UNCHANGED <<given, section>>
       ELSE /\ given' = given \cup {<<kind, 0>>}
            /\ IF section < Len(Singles) THEN section' = section + 1 /\ UNCHANGED pc
               ELSE section' = 1 /\ pc' = "private"
            /\ UNCHANGED status
    /\ Keep /\ UNCHANGED <<i, w, stage, kind_total, chip_total>>

----------------------------------------------------------------------------
(* The parts: numCore, numL2, ... of them, one standing for all that are   *)
(* homogeneous.                                                            *)
NumParts(k) ==
    CASE k \in ArrayKinds /\ input.homo[k]  -> IF input.number[k] = 0 THEN 0 ELSE 1
      [] k \in ArrayKinds /\ ~input.homo[k] -> input.number[k]
      [] k \in {"mc", "pcie"} -> IF input.number[k] > 0 /\ input.channels[k] > 0 THEN 1 ELSE 0
      [] OTHER                -> IF input.number[k] > 0 THEN 1 ELSE 0
NumBuilt(k) == IF k = "L2" /\ input.Private_L2 THEN 0 ELSE NumParts(k)
Parts == UNION {{k} \X (0 .. NumBuilt(k) - 1) : k \in Kinds}

\* Mutant of L2sMissing: the numbers of the file, not of the parts.
L2NumbersDiffer == input.Private_L2 /\ input.number["core"] # input.number["L2"]
L2sMissing == input.Private_L2 /\ NumParts("core") # NumParts("L2")
CheckPrivateL2 ==
    /\ pc = "private"
    /\ IF L2sMissing THEN Exit("exit 0")
       ELSE pc' = Phases[1] /\ UNCHANGED status
    /\ section' = 1 /\ i' = 0
    /\ Keep /\ UNCHANGED <<w, cursor, given, stage, kind_total, chip_total>>

NextPhase == Phases[1 + CHOOSE n \in DOMAIN Phases : Phases[n] = pc]
Advance(p) == stage' = [stage EXCEPT ![p] = @ + 1]

(* Powers are formulas per cycle: the peak is scaled by the clock rate and *)
(* the run-time power by the execution time.                               *)
Scale(kind, total) ==
    IF total = "area" \/ kind = "flash" THEN "one"
    ELSE IF total = "power" \/ kind \in {"niu", "pcie"} THEN "clock rate"
    ELSE "1 / execution time"
Copies(k) == IF k \in ArrayKinds /\ ~input.homo[k] THEN 1 ELSE input.number[k]
Term(kind, item, total) == [kind |-> kind, item |-> item, copies |-> Copies(kind), scale |-> Scale(kind, total)]

(* One standing for all, the kind's total goes to the chip's; the first    *)
(* level directories of a heterogeneous chip go there unscaled.            *)
Whole(kind) == kind \notin ArrayKinds \/ input.homo[kind]
ChipTerm(x) == IF x.kind = "L1Directory" THEN [x EXCEPT !.scale = "one"] ELSE x
\* Mutant of ToChip: the kind's total is added each time.
ToChipWhole(kind, x, sum) == sum
ToChip(kind, x, sum) == IF Whole(kind) THEN sum ELSE <<ChipTerm(x)>>
AddTo(kind, item, totals) ==
    LET x(t)   == Term(kind, item, t)
        sum(t) == Append(kind_total[kind][t], x(t)) IN
    /\ kind_total' = [kind_total EXCEPT ![kind] =
                        [t \in Totals |-> IF t \in totals THEN sum(t) ELSE @[t]]]
    /\ chip_total' = [t \in Totals |-> IF t \in totals
                        THEN chip_total[t] \o ToChip(kind, x(t), sum(t)) ELSE chip_total[t]]

(* Construct, computeEnergy(), computeEnergy(false), add up.               *)
Construct(p) ==
    /\ stage[p] = 1
    /\ IF p[1] = "flash" /\ input.flash_type = 0 THEN Exit("exit 0") /\ UNCHANGED stage
       ELSE Advance(p) /\ UNCHANGED <<pc, status>>
    /\ UNCHANGED <<i, kind_total, chip_total>>
ComputeEnergy(p) ==
    /\ stage[p] \in {2, 3}
    /\ Advance(p)
    /\ UNCHANGED <<pc, i, kind_total, chip_total, status>>
AddPart(p, totals) ==
    /\ stage[p] = 4
    /\ i' = i + 1
    /\ AddTo(p[1], p, totals)
    /\ UNCHANGED <<pc, stage, status>>

BuildPart ==
    LET kind == Building[section] p == <<kind, i>> IN
    /\ pc = "build"
    /\ i < NumBuilt(kind)
    /\ Construct(p) \/ ComputeEnergy(p) \/ AddPart(p, Totals)
    /\ Keep /\ UNCHANGED <<section, w, cursor, given>>
EndKind ==
    /\ pc = "build"
    /\ i = NumBuilt(Building[section])
    /\ i' = 0
    /\ IF section < Len(Building) THEN section' = section + 1 /\ UNCHANGED pc
       ELSE section' = 1 /\ pc' = NextPhase
    /\ Keep /\ UNCHANGED <<w, cursor, given, stage, kind_total, chip_total, status>>

(* The networks come last, in three loops: a global link is sized by the   *)
(* area of the chip, so all routers and buses are added before.            *)
AddRouter ==
    /\ pc = "routers"
    /\ i < NumParts("NoC")
    /\ Advance(<<"NoC", i>>)
    /\ AddTo("NoC", <<"NoC", i>>, {"area"})
    /\ i' = i + 1
    /\ Keep /\ UNCHANGED <<pc, section, w, cursor, given, status>>
HasLinks(n) == n \in input.linked /\ n \notin input.bus
Links(n)    == <<"links", n>>
AddLinks ==
    /\ pc = "links"
    /\ i < NumParts("NoC")
    /\ i' = i + 1
    /\ IF HasLinks(i)
       THEN LET x == Term("NoC", Links(i), "area") IN
            /\ kind_total' = [kind_total EXCEPT !["NoC"].area = Append(@, x)]
            /\ chip_total' = [chip_total EXCEPT !.area = Append(@, x)]
       ELSE UNCHANGED <<kind_total, chip_total>>
    /\ Keep /\ UNCHANGED <<pc, section, w, cursor, given, stage, status>>
AddEnergy ==
    LET p == <<"NoC", i>> IN
    /\ pc = "energy"
    /\ i < NumParts("NoC")
    /\ ComputeEnergy(p) \/ AddPart(p, {"power", "rt_power"})
    /\ Keep /\ UNCHANGED <<section, w, cursor, given>>
EndNetworks ==
    /\ pc \in {"routers", "links", "energy"}
    /\ i = NumParts("NoC")
    /\ i' = 0 /\ pc' = NextPhase
    /\ Keep /\ UNCHANGED <<section, w, cursor, given, stage, kind_total, chip_total, status>>

----------------------------------------------------------------------------
DisplayEnergy ==
    /\ pc = "display"
    /\ stage' = [p \in Entries |-> IF p \in Parts THEN stage[p] + 1 ELSE stage[p]]
    /\ pc' = "delete"
    /\ Keep /\ UNCHANGED <<section, i, w, cursor, given, kind_total, chip_total, status>>
DeleteXML ==
    /\ pc = "delete" /\ xml
    /\ xml' = FALSE
    /\ UNCHANGED <<input, pc, section, i, w, cursor, given, misread, stage, kind_total, chip_total, status>>
(* The Processor's destructor, when main returns.                          *)
DeleteParts ==
    LET kind == Deleting[section] IN
    /\ pc = "delete" /\ ~xml
    /\ stage' = [p \in Entries |-> IF p \in Parts /\ p[1] = kind THEN stage[p] + 1 ELSE stage[p]]
    /\ IF section < Len(Deleting) THEN section' = section + 1 /\ UNCHANGED <<pc, status>>
       ELSE section' = 1 /\ Exit("return 0")
    /\ Keep /\ UNCHANGED <<i, w, cursor, given, kind_total, chip_total>>

Ended == pc = "ended" /\ UNCHANGED vars
Next == \/ CheckNumbers \/ ReadEntry \/ EndSection \/ ReadSingle \/ CheckPrivateL2
        \/ BuildPart \/ EndKind \/ AddRouter \/ AddLinks \/ AddEnergy \/ EndNetworks
        \/ DisplayEnergy \/ DeleteXML \/ DeleteParts \/ Ended
(* A program alone on its thread, without a call that waits.               *)
Spec == Init /\ [][Next]_vars /\ WF_vars(Next)
----------------------------------------------------------------------------
(* Every variable keeps its type: above all no section and no part reaches *)
(* past the MAX_NUM_CORES entries of the XML data, and what is not a part  *)
(* of this chip is never constructed.                                      *)
TypeOK ==
    /\ input \in Inputs
    /\ pc \in {"check", "arrays", "singles", "private", "delete", "ended"} \cup {Phases[n] : n \in DOMAIN Phases}
    /\ section \in 1 .. Len(Deleting) /\ i \in 0 .. MAX_NUM_CORES
    /\ given \subseteq Entries /\ misread \subseteq 0 .. MAX_NUM_CORES - 1
    /\ stage \in [Entries -> 1 .. 6]
    /\ \A p \in Entries : stage[p] > 1 => p \in Parts
    /\ status \in {"running", "exit 0", "exit 1", "return 0"}

(* A part reads the entry with its own index of its own kind, a core with  *)
(* a private L2 also that L2's.  A component of that kind has filled these *)
(* in, though sections and parts are counted by different rules, in        *)
(* different orders, and a cursor alone tells sections apart; but in L2    *)
(* entries a directory's component may have done so.  Left out are a file  *)
(* without components and the NoCs, whose section may be passed over.      *)
ReadsOf(p) == {p} \cup (IF p[1] = "core" /\ input.Private_L2 THEN {<<"L2", p[2]>>} ELSE {})
FilledIn   == given \cup {"L2"} \X misread
ReadsFilledEntries ==
    input.components # <<>> =>
        \A p \in Entries : stage[p] > 1 /\ p[1] # "NoC" => ReadsOf(p) \subseteq FilledIn /\ (stage[p] < 5 => xml)

(* The chip as it is displayed: of each kind, the copies in each of its    *)
(* totals and the chip's are as many as the file says, each part and each  *)
(* global link once, scaled alike.  "The total chip area must be obtain to *)
(* decide the link routing": in the order the areas are added, the links   *)
(* come after all parts.                                                   *)
CopiesOf(total, kind) ==
    UNION {{n} \X (1 .. total[n].copies) :
           n \in {m \in DOMAIN total : total[m].kind = kind /\ total[m].item[1] = kind}}
NumCopies(total, kind) == Cardinality(CopiesOf(total, kind))
Distinct(total) == \A m, n \in DOMAIN total : total[m].item = total[n].item => m = n
Expected(kind) == IF NumBuilt(kind) = 0 THEN 0 ELSE input.number[kind]
SameScale(t, x) == x.scale = Scale(x.kind, t) \/ (x.kind = "L1Directory" /\ ~input.homo[x.kind])
AllLinks == {Links(n) : n \in 0 .. MAX_NUM_CORES}
LinksOf(total) == {n \in 0 .. MAX_NUM_CORES : \E m \in DOMAIN total : total[m].item = Links(n)}
LinksLast(total) ==
    \A m, n \in DOMAIN total : total[m].item \in AllLinks /\ total[n].item \in Parts => n < m
ChipWhole ==
    pc \in {"display", "delete"} => \A t \in Totals :
        /\ \A kind \in Kinds :
             /\ NumCopies(chip_total[t], kind) = Expected(kind)
             /\ NumCopies(kind_total[kind][t], kind) = Expected(kind)
        /\ Distinct(chip_total[t])
        /\ \A n \in DOMAIN chip_total[t] : SameScale(t, chip_total[t][n])
        /\ t = "area" => /\ LinksOf(chip_total[t]) = {n \in 0 .. NumParts("NoC") - 1 : HasLinks(n)}
                         /\ LinksLast(chip_total[t])

(* Every file is read, or refused, and every chip computed: the program    *)
(* ends, even for a file that promises no core at all.                     *)
Terminates == <>(pc = "ended")
=============================================================================
