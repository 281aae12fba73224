----------------------------- MODULE Technology -----------------------------
(***************************************************************************)
(* How cacti's globals are used from request to request: g_ip, the input;  *)
(* g_tp, the technology; and the static wires.  A request is one call of   *)
(*   "file"   cacti_interface(infile_name), the stand-alone program,       *)
(*   "array"  the constructor of McPAT's ArrayST, which checks the input   *)
(*            and then calls cacti_interface(&l_ip), or                    *)
(*   "unit"   init_interface(&l_ip), by McPAT's logic, links, routers and  *)
(*            controllers, which then read g_tp.                           *)
(* The first two end the program if error_checking refuses the input, the  *)
(* third goes on; "array" and "unit" may follow each other.  Then          *)
(* init_tech_params interpolates g_tp between the tables of two nodes, the *)
(* tag and the data array are searched (CactiSolve), and updates calculate *)
(* them again at other voltages and without power gating.                  *)
(*                                                                         *)
(* g_tp is a sum of shares, kept times `den'.  What is added from a local  *)
(* that nothing assigned, or past its array, makes a group `bad'.          *)
(***************************************************************************)
EXTENDS TechTables

CONSTANTS Requests,     \* the requests considered
          MaxRequests,  \* requests of one run of McPAT
          None          \* nothing calculated

DevGroups  == {"peri_global", "sleep_tx", "sram_cell", "cam_cell"}
WireGroups == {"wire_local", "wire_inside_mat", "wire_outside_mat"}

(* F: the feature size in tenths of nm.  vdd: by flavor, 0 the default.    *)
(* sound: ports, banks, block, sets and such, which error_checking checks. *)
Input == [F : Nat, temp : Nat, sound : BOOLEAN,
          type : {"cache", "ram", "cam", "main memory"}, assoc : Nat,
          ram : [BOOLEAN -> 0 .. 4], peri : [BOOLEAN -> 0 .. 4],   \* of is_tag
          vdd : [ItrsFlavors -> Nat], vcc_min : Nat, dvs : Seq(Nat \ {0}),
          proj : {0, 1}, in_mat : WireTypes, out_mat : WireTypes,
          power_gating : BOOLEAN, long_channel : BOOLEAN]
Request == [caller : {"file", "array", "unit"}, ip : Input]

(* McPAT's inputs: one device type of three, no DRAM, no DVS.              *)
McpatInput(ip) == /\ \A t \in BOOLEAN : ip.ram[t] \in ItrsFlavors /\ ip.peri[t] = ip.ram[t]
                  /\ ip.dvs = <<>> /\ ip.type # "main memory"
                  /\ ip.vdd[HP] = ip.vdd[LSTP] /\ ip.vdd[HP] = ip.vdd[LOP]

ASSUME RequestsAssumption ==
    /\ MaxRequests \in Nat \ {0}
    /\ \A r \in Requests : r \in Request /\ (r.caller # "file" => McpatInput(r.ip))

VARIABLES
    caller, ip,   \* the request; ip is g_ip
    user,     \* the input as the caller gave it
    pc, level,    \* where the call is, and at which of the DVS voltages
    tp,       \* g_tp
    wires,    \* what the static wires were calculated from
    fin,      \* what the arrays of fin_res were calculated from
    status, count   \* how the program ended; requests begun
vars == <<caller, ip, user, pc, level, tp, wires, fin, status, count>>

----------------------------------------------------------------------------
(* error_checking(): what it refuses, in its order.                        *)
FullyAssoc(x) == x.type = "cache" /\ x.assoc = 0
Cam(x)  == x.type = "cam" \/ FullyAssoc(x)
Types(x) == {x.ram[t] : t \in BOOLEAN} \cup {x.peri[t] : t \in BOOLEAN}
Dram(x) == x.type = "main memory" \/ Types(x) \cap DramFlavors # {}

\* Mutant of NodeRefused: any device type at any node.
AnyTypeAnyNode(x) == x.F = 0 \/ x.F > 1810
NodeRefused(x) == x.F = 0 \/ x.F > 1810 \/ (x.F > 910 /\ Types(x) # {HP})
CamRefused(x) ==
    \/ x.type = "cam" /\ x.assoc # 0
    \/ x.assoc = 0 /\ x.type \notin {"cam", "cache"}
    \/ Cam(x) /\ (x.ram[TRUE] # x.ram[FALSE] \/ x.peri[TRUE] # x.peri[FALSE])
    \/ Cam(x) /\ x.ram[FALSE] \in DramFlavors
TempRefused(x) == x.temp < 300 \/ x.temp > 400 \/ x.temp % 10 # 0
GatingRefused(x) == x.power_gating /\ (Cam(x) \/ Dram(x))
\* Mutant of DvsRefused: tag and data may differ.
DvsOfAnyTypes(x) == x.dvs # <<>> /\ (Dram(x) \/ \E t \in BOOLEAN : x.ram[t] # x.peri[t])
DvsRefused(x) ==
    x.dvs # <<>> /\ (Dram(x) \/ x.ram[TRUE] # x.ram[FALSE] \/ \E t \in BOOLEAN : x.ram[t] # x.peri[t])
Refused(x) ==
    \/ x.type = "main memory" /\ x.proj = 0
    \/ ~x.sound
    \/ NodeRefused(x) \/ CamRefused(x) \/ TempRefused(x)
    \/ GatingRefused(x)
    \/ x.long_channel /\ Dram(x)
    \/ DvsRefused(x)

----------------------------------------------------------------------------
(* The nodes to interpolate between: one alone within a nanometre of it.   *)
Nodes == {180, 90, 65, 45, 32, 22}
Near(F, n)  == F - 10 * n < 10 /\ 10 * n - F < 10
Between(F, lo, hi) == hi * 10 < F /\ F < lo * 10
Neighbours == {<<180, 90>>, <<90, 65>>, <<65, 45>>, <<45, 32>>, <<32, 22>>}
Spans(F) == IF \E n \in Nodes : Near(F, n) THEN {<<n, n>> : n \in {m \in Nodes : Near(F, m)}}
            ELSE {s \in Neighbours : Between(F, s[1], s[2])}
SpanOf(F) == CHOOSE s \in Spans(F) : TRUE

(* curr_alpha of each iteration and what they are parts of.                *)
Den(F, s) == IF s[1] = s[2] THEN 1 ELSE 10 * (s[1] - s[2])
\* Mutant of Alpha: the weights of the two nodes exchanged.
AlphaOfOther(F, s, iter) ==
    IF s[1] = s[2] THEN 1 ELSE IF iter = 1 THEN 10 * s[1] - F ELSE F - 10 * s[2]
Alpha(F, s, iter) ==
    IF s[1] = s[2] THEN 1 ELSE IF iter = 1 THEN F - 10 * s[2] ELSE 10 * s[1] - F
\* Mutant of Iterations: without the break, a node alone counts twice.
BothIterations(s) == 1 .. 2
Iterations(s) == IF s[1] = s[2] THEN 1 .. 1 ELSE 1 .. 2

(* The local arrays: for each flavor and for the DRAM cell the node whose  *)
(* table they hold, 0 if none.  A DRAM flavor assigns no vdd and there is  *)
(* no fifth flavor, so that indexing by a DRAM type reads neither.         *)
NoLocals == [dev |-> [f \in 0 .. 4 |-> 0], dram |-> 0]
\* Mutant of Load: LOP devices of the first node only.
LoadNotLOP(loc, node, ram) ==
    [dev |-> [f \in 0 .. 4 |-> IF f \in {HP, LSTP} /\ HasFlavor(node, f) THEN node ELSE loc.dev[f]],
     dram |-> IF HasDram(node, ram) THEN node ELSE loc.dram]
Load(loc, node, ram) ==
    [dev |-> [f \in 0 .. 4 |-> IF f \in ItrsFlavors /\ HasFlavor(node, f) THEN node ELSE loc.dev[f]],
     dram |-> IF HasDram(node, ram) THEN node ELSE loc.dram]

FlavorOf(g, x, is_tag) ==
    CASE g = "peri_global" -> x.peri[is_tag]
      [] g = "sleep_tx"    -> LSTP
      [] OTHER             -> x.ram[is_tag]
(* Vcc_min_default adds a part of what Vdd_default has come to: in 20ths.  *)
VccShare(g, vdd, vdd_default) ==
    CASE g = "peri_global" -> 9 * vdd_default
      [] g = "sram_cell"   -> 12 * vdd_default
      [] g = "sleep_tx"    -> 20 * vdd
      [] OTHER             -> 0
AddDevice(acc, g, alpha, loc, f, x) ==
    LET unset == acc.unset \cup (IF x.temp \in TableTemps THEN {} ELSE {"I_off"}) IN
    IF loc.dev[f] = 0 THEN [acc EXCEPT !.unset = unset \cup {"Vdd"}]
    ELSE LET d       == DeviceOf(loc.dev[f], f)
             vdd     == acc.Vdd + alpha * (IF x.vdd[f] = 0 THEN d.vdd ELSE x.vdd[f])
             default == acc.Vdd_default + alpha * d.vdd IN
         [share |-> acc.share + alpha, node |-> acc.node + alpha * loc.dev[f],
          Vdd |-> vdd, Vdd_default |-> default, Vth |-> acc.Vth + alpha * d.v_th,
          Vcc_min_default |-> acc.Vcc_min_default + VccShare(g, vdd, default),
          unset |-> unset]
AddDram(acc, alpha, loc, ram) ==
    IF loc.dram = 0 THEN [acc EXCEPT !.unset = {"Vdd"}]
    ELSE [share |-> acc.share + alpha, node |-> acc.node + alpha * loc.dram,
          Vdd |-> acc.Vdd + alpha * DramVdd(loc.dram, ram), unset |-> acc.unset]
AddWire(acc, alpha, node, type, x) ==
    IF type \notin WireTypes THEN [acc EXCEPT !.unset = {"ild_thickness"}]
    ELSE [share |-> acc.share + alpha, node |-> acc.node + alpha * node,
          ild_thickness |-> acc.ild_thickness + alpha * WireOf(node, x.proj, type),
          unset |-> acc.unset]
AddLogic(acc, alpha, node) ==
    [share |-> acc.share + alpha, node |-> acc.node + alpha * node, co_eff |-> acc.co_eff + alpha * Logic(node)]

TypeOfWire(g, x, is_tag) ==
    CASE g = "wire_local"      -> IF x.ram[is_tag] = CommDram THEN 3 ELSE 0
      [] g = "wire_inside_mat" -> x.in_mat
      [] OTHER                 -> x.out_mat

(* g_tp.reset().                                                           *)
ZeroDevice == [share |-> 0, node |-> 0, Vdd |-> 0, Vdd_default |-> 0, Vth |-> 0,
               Vcc_min_default |-> 0, unset |-> {}]
Zero == [dev   |-> [g \in DevGroups |-> ZeroDevice],
         dram  |-> [share |-> 0, node |-> 0, Vdd |-> 0, unset |-> {}],
         wire  |-> [g \in WireGroups |-> [share |-> 0, node |-> 0, ild_thickness |-> 0, unset |-> {}]],
         logic |-> [share |-> 0, node |-> 0, co_eff |-> 0]]
\* Mutant of Reset: the wires keep what they have.
ResetNotWires(t) == [Zero EXCEPT !.wire = t.wire]
Reset(t) == Zero

(* One iteration: load the node's tables, then add its shares.             *)
Devices1(t, alpha, loc, x, is_tag) ==
    [t EXCEPT !.dev = [g \in DevGroups |->
                         AddDevice(@[g], g, alpha, loc, FlavorOf(g, x, is_tag), x)],
              !.dram = AddDram(@, alpha, loc, x.ram[is_tag])]
Others1(t, alpha, node, x, is_tag) ==
    [t EXCEPT !.logic = AddLogic(@, alpha, node),
              !.wire = [g \in WireGroups |-> AddWire(@[g], alpha, node, TypeOfWire(g, x, is_tag), x)]]
Interpolated(t, x, is_tag) ==
    LET s     == SpanOf(x.F)
        ram   == x.ram[is_tag]
        loc1  == Load(NoLocals, s[1], ram)
        loc2  == Load(loc1, s[2], ram)
        first == Others1(Devices1(Reset(t), Alpha(x.F, s, 1), loc1, x, is_tag),
                         Alpha(x.F, s, 1), s[1], x, is_tag)
    IN  IF 2 \in Iterations(s)
        THEN Others1(Devices1(first, Alpha(x.F, s, 2), loc2, x, is_tag), Alpha(x.F, s, 2), s[2], x, is_tag)
        ELSE first

(* The finalization of voltages: Vcc_min is the user's or the default.     *)
VddTooLow(t) ==
    LET ram == t.dev.sram_cell  peri == t.dev.peri_global IN
    \/ ram.Vcc_min_default > 20 * ram.Vdd
    \/ 4 * peri.Vdd < 3 * peri.Vdd_default
    \/ 4 * ram.Vdd < 3 * ram.Vdd_default
VccMin(d, x) == IF x.vcc_min = 0 THEN d.Vcc_min_default ELSE 20 * d.share * x.vcc_min
VccTooHigh(t, x) ==
    \E g \in {"sram_cell", "peri_global"} : VccMin(t.dev[g], x) > 20 * t.dev[g].Vdd
Garbage(t) == \E g \in {"sram_cell", "peri_global"} : "Vdd" \in t.dev[g].unset

(* What the result depends on.                                             *)
Of(x, is_tag) == [F |-> x.F, temp |-> x.temp, ram |-> x.ram[is_tag], peri |-> x.peri[is_tag],
                  vdd |-> x.vdd, vcc_min |-> x.vcc_min]

(* init_tech_params(F, is_tag): the outcomes.  Comparing a value that was  *)
(* never assigned may go either way.                                       *)
InvalidNode(x, is_tag) == Spans(x.F) = {} \/ (Near(x.F, 22) /\ x.ram[is_tag] = LPDram)
Outcomes(g_tp, x, is_tag) ==
    IF InvalidNode(x, is_tag) THEN {[status |-> "invalid node", tp |-> g_tp]}
    ELSE LET t    == Interpolated(g_tp.sum, x, is_tag)
             done == [sum |-> t, den |-> Den(x.F, SpanOf(x.F)), of |-> Of(x, is_tag)] IN
         {[status |-> s, tp |-> done] :
            s \in IF Garbage(t) THEN {"Vdd too low", "Vcc_min too high", "running"}
                  ELSE IF VddTooLow(t) THEN {"Vdd too low"}
                  ELSE IF VccTooHigh(t, x) THEN {"Vcc_min too high"} ELSE {"running"}}

----------------------------------------------------------------------------
NoResult == [tag |-> None, data |-> None, dvs |-> <<>>, reference |-> None, wires |-> None]
Init ==
    /\ \E q \in Requests : caller = q.caller /\ ip = q.ip
    /\ user = ip
    /\ pc = "begin" /\ level = 1
    /\ tp = [sum |-> Zero, den |-> 1, of |-> None] /\ wires = None
    /\ fin = NoResult
    /\ status = "running" /\ count = 1

Exit(s) == pc' = "ended" /\ status' = s
Exits == pc' = "ended"
Request0 == UNCHANGED <<caller, user, count>>
\* init_tech_params, which may end the program.
InitTech(x, is_tag, next) ==
    \E o \in Outcomes(tp, x, is_tag) :
        /\ tp' = o.tp
        /\ IF o.status = "running" THEN pc' = next /\ UNCHANGED status ELSE Exit(o.status)

(* ArrayST and cacti_interface give up on what error_checking refuses,     *)
(* init_interface and reconfigure do not look at its answer.               *)
Checks(x) == IF caller = "array" /\ x.assoc = 0 THEN [x EXCEPT !.power_gating = FALSE] ELSE x
Check ==
    /\ pc = "begin"
    /\ ip' = Checks(ip) /\ user' = Checks(user)
    /\ IF caller # "unit" /\ Refused(ip') THEN Exit("refused")
       ELSE pc' = "init" /\ UNCHANGED status
    /\ UNCHANGED <<caller, level, tp, wires, fin, count>>

(* "Do not delete this line. It initializes wires."                        *)
\* Mutant of WireInit: the line deleted.
WireNotInit == wires' = IF Exits \/ wires # None THEN wires ELSE tp'.of
WireInit == wires' = IF Exits THEN wires ELSE tp'.of
InitInterface ==
    /\ pc = "init"
    /\ InitTech(ip, FALSE, IF caller = "unit" THEN "return" ELSE "lookup")
    /\ WireInit
    /\ Request0 /\ UNCHANGED <<ip, level, fin>>

HasTag(x) == x.type = "cache" /\ ~FullyAssoc(x)
(* The result cache may hold what the search would find.                   *)
CacheHit ==
    /\ pc = "lookup" /\ caller = "array"
    /\ fin' = [NoResult EXCEPT !.tag = IF HasTag(ip) THEN Of(ip, TRUE) ELSE None,
                               !.data = Of(ip, FALSE), !.wires = wires]
    /\ pc' = "updates"
    /\ Request0 /\ UNCHANGED <<ip, level, tp, wires, status>>
(* solve(): the tag array under its technology, then the data array.       *)
SearchTag ==
    /\ pc = "lookup"
    /\ IF HasTag(ip) THEN /\ InitTech(ip, TRUE, "data")
                          /\ fin' = IF Exits THEN fin ELSE [fin EXCEPT !.tag = tp'.of, !.wires = wires]
       ELSE pc' = "data" /\ fin' = [fin EXCEPT !.wires = wires] /\ UNCHANGED <<tp, status>>
    /\ Request0 /\ UNCHANGED <<ip, level, wires>>
SearchData ==
    /\ pc = "data"
    /\ InitTech(ip, FALSE, "updates")
    /\ fin' = IF Exits THEN fin ELSE [fin EXCEPT !.data = tp'.of]
    /\ Request0 /\ UNCHANGED <<ip, level, wires>>

(* update_dvs: tag and data array once more at each voltage, which becomes *)
(* that of every device type; then the defaults.                           *)
AllAt(v) == [f \in ItrsFlavors |-> v]
DvsLevel ==
    /\ pc = "updates" /\ level \in DOMAIN ip.dvs
    /\ ip' = [ip EXCEPT !.vdd = AllAt(ip.dvs[level])]
    /\ InitTech(ip', TRUE, "updates")
    /\ wires' = IF Exits THEN wires ELSE tp'.of
    /\ fin' = IF Exits THEN fin ELSE [fin EXCEPT !.dvs = Append(@, [in |-> tp'.of, wires |-> wires'])]
    /\ level' = level + 1
    /\ Request0
EndDvs ==
    /\ pc = "updates" /\ level \notin DOMAIN ip.dvs
    /\ IF ip.dvs = <<>> THEN pc' = "gating" /\ UNCHANGED <<ip, tp, status>>
       ELSE ip' = [ip EXCEPT !.vdd = AllAt(0)] /\ InitTech(ip', TRUE, "gating")
    /\ Request0 /\ UNCHANGED <<level, wires, fin>>

(* update_pg: a reference without power gating, with the technology as it  *)
(* was left.  The five flags are off meanwhile.                            *)
UpdateGating ==
    /\ pc = "gating"
    /\ IF ip.power_gating
       THEN /\ wires' = tp.of
            /\ fin' = [fin EXCEPT !.reference = [in |-> tp.of, wires |-> wires']]
       ELSE UNCHANGED <<wires, fin>>
    /\ pc' = "return"
    /\ Request0 /\ UNCHANGED <<ip, level, tp, status>>

(* The stand-alone program ends; McPAT goes on to its next array or unit.  *)
Return ==
    /\ pc = "return"
    /\ IF caller = "file" \/ count = MaxRequests
       THEN Exit("return") /\ UNCHANGED <<caller, ip, user, level, fin, count>>
       ELSE /\ \E q \in Requests : q.caller # "file" /\ caller' = q.caller /\ ip' = q.ip /\ user' = q.ip
            /\ pc' = "begin" /\ level' = 1 /\ fin' = NoResult /\ count' = count + 1
            /\ UNCHANGED status
    /\ wires' = IF caller = "file" THEN tp.of ELSE wires
    /\ UNCHANGED tp

Ended == pc = "ended" /\ UNCHANGED vars
Next == \/ Check \/ InitInterface \/ CacheHit \/ SearchTag \/ SearchData
        \/ DvsLevel \/ EndDvs \/ UpdateGating \/ Return \/ Ended
Spec == Init /\ [][Next]_vars
----------------------------------------------------------------------------
(* Every variable keeps its type; no share of a group is counted twice.    *)
Shares(t) == {t.dev[g].share : g \in DevGroups} \cup {t.wire[g].share : g \in WireGroups}
             \cup {t.dram.share, t.logic.share}
TypeOK ==
    /\ caller \in {"file", "array", "unit"} /\ ip \in Input /\ user \in Input
    /\ pc \in {"begin", "init", "lookup", "data", "updates", "gating", "return", "ended"}
    /\ level \in 1 .. Len(ip.dvs) + 1
    /\ tp.den \in Nat \ {0} /\ Shares(tp.sum) \subseteq 0 .. tp.den
    /\ Len(fin.dvs) < level
    /\ status \in {"running", "refused", "invalid node", "Vdd too low", "Vcc_min too high", "return"}
    /\ count \in 1 .. MaxRequests

(* "linear interpolation": whatever was calculated before, each group of   *)
(* g_tp is made of one whole of the node or the two nodes, in shares that  *)
(* average to the feature size, and so its values lie between theirs.  The *)
(* groups left out have unassigned parts; Vcc_min_default is not linear    *)
(* and embedded DRAM below 32 nm repeats 32 nm's.  And "User defined Vdd   *)
(* is too low" is not said of a node's own default voltages.               *)
Calculated == tp.of # None
OneWhole(g) ==
    LET s == SpanOf(tp.of.F) IN
    g.unset = {} => /\ g.share = tp.den
                    /\ g.node = IF s[1] = s[2] THEN s[1] ELSE g.node
                    /\ s[1] # s[2] => g.node * 10 = tp.of.F * tp.den
Within(value, a, b) == \/ a * tp.den <= value /\ value <= b * tp.den
                       \/ b * tp.den <= value /\ value <= a * tp.den
DeviceBetween(d, f) ==
    LET s == SpanOf(tp.of.F) IN
    d.unset = {} => /\ Within(d.Vdd_default, DeviceOf(s[1], f).vdd, DeviceOf(s[2], f).vdd)
                    /\ Within(d.Vth, DeviceOf(s[1], f).v_th, DeviceOf(s[2], f).v_th)
                    /\ d.Vdd = IF tp.of.vdd[f] = 0 THEN d.Vdd_default ELSE tp.of.vdd[f] * tp.den
EmbeddedBelow32 == tp.of.ram = LPDram /\ tp.of.F <= 310
InterpolatedOnce ==
    Calculated =>
      /\ \A g \in DevGroups : OneWhole(tp.sum.dev[g])
      /\ \A g \in WireGroups : OneWhole(tp.sum.wire[g])
      /\ EmbeddedBelow32 \/ OneWhole(tp.sum.dram)
      /\ DeviceBetween(tp.sum.dev.peri_global, tp.of.peri)
      /\ DeviceBetween(tp.sum.dev.sram_cell, tp.of.ram)
      /\ DeviceBetween(tp.sum.dev.cam_cell, tp.of.ram)
      /\ DeviceBetween(tp.sum.dev.sleep_tx, LSTP)
      /\ status = "Vdd too low" /\ ~Garbage(tp.sum) /\ tp.of.vdd = AllAt(0)
           => SpanOf(tp.of.F)[1] # SpanOf(tp.of.F)[2]

(* Of an input that error_checking accepted, nothing unassigned enters     *)
(* g_tp: every device is of a type that both nodes have, at a temperature  *)
(* of the tables.  Left out are the sleep transistors above 90 nm, where   *)
(* no LSTP devices are; the DRAM values when there is no DRAM; what a DRAM *)
(* type, indexing the device tables, reads; and 91 nm itself, at which     *)
(* error_checking still takes any device type, as at 90 nm, and            *)
(* init_tech_params already needs those of 180 nm.                         *)
Accepted == caller # "unit" /\ status = "running" /\ pc \notin {"begin", "init"}
NothingUnassigned ==
    Accepted /\ Calculated /\ tp.of.F # 910 =>
      /\ tp.sum.dev.peri_global.unset = {} \/ tp.of.peri \in DramFlavors
      /\ \A g \in {"sram_cell", "cam_cell"} : tp.sum.dev[g].unset = {} \/ tp.of.ram \in DramFlavors
      /\ tp.sum.dev.sleep_tx.unset = {} \/ tp.of.F > 910
      /\ tp.sum.dram.unset = {} \/ tp.of.ram \notin DramFlavors
      /\ \A g \in WireGroups : tp.sum.wire[g].unset = {} \/ (g = "wire_local" /\ tp.of.ram = CommDram)

(* However the global technology changes hands, each array is calculated   *)
(* in that of its own kind, input and voltage, with the wires of the same  *)
(* input: the tag and the data array found, both at every DVS voltage, and *)
(* the reference.  The reference is left out where the code does not       *)
(* restore the technology: other types of tag and data, or a user's Vdd    *)
(* forgotten after DVS.                                                    *)
Restored == /\ Of(user, TRUE) = Of(user, FALSE)
            /\ user.dvs = <<>> \/ user.vdd = AllAt(0)
AtVoltage(v) == [user EXCEPT !.vdd = AllAt(v)]
ArraysOfTheirTechnology ==
    /\ fin.tag # None => fin.tag = Of(user, TRUE)
    /\ fin.data # None => fin.data = Of(user, FALSE)
    /\ fin.wires # None => fin.wires = Of(user, FALSE)
    /\ \A n \in DOMAIN fin.dvs :
         /\ \A t \in BOOLEAN : fin.dvs[n].in = Of(AtVoltage(user.dvs[n]), t)
         /\ fin.dvs[n].wires = fin.dvs[n].in
    /\ fin.reference # None /\ Restored =>
         fin.reference = [in |-> Of(user, FALSE), wires |-> Of(user, FALSE)]
=============================================================================
