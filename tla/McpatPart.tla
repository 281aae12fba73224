----------------------------- MODULE McpatPart ------------------------------
(***************************************************************************)
(* The life of one part of McPAT's chip: a core, a shared cache, a         *)
(* directory, the memory controller, a network or an I/O controller.  The  *)
(* Processor constructs it, calls computeEnergy for the peak (TDP) and     *)
(* then for the run-time pass (RTP), displays it and deletes it.  Each     *)
(* phase visits the units of the part in the order the code calls them; a  *)
(* step is what one unit's function does for itself, taken from the tables *)
(* of McpatCore and McpatUncore.                                           *)
(*                                                                         *)
(* A unit multiplies the statistics of its leaves (stats_t) into power_t   *)
(* and adds the leaves and the units below it to its totals.  stats_t and  *)
(* power_t are used by both passes, so a pass may meet what the other left *)
(* there; heights and peak powers travel between units and passes.         *)
(*                                                                         *)
(* What McpatMain has a name for as well is named for the part or the unit *)
(* here, so that McpatMainProof can speak of both.                         *)
(***************************************************************************)
EXTENDS McpatCore, McpatUncore, Sequences

CONSTANT Configs      \* the configurations considered

Phase      == <<"construct", "TDP", "RTP", "display", "destroy", "gone">>
Gone       == 6
Passes     == {"TDP", "RTP"}
PartTotals == {"area", "dynamic", "leakage", "runtime"}
Due(p)     == CASE Phase[p] = "construct" -> {"area"}
                [] Phase[p] = "TDP"       -> {"dynamic", "leakage"}
                [] Phase[p] = "RTP"       -> {"runtime"}
                [] OTHER                  -> {}

(* What set_*_param of a part makes of the XML file: home nodes are caches *)
(* or directories, and a flash controller of type 0 ends the program.      *)
ValidConfig(c) ==
    /\ c.part \in {"core", "L2", "L3"} => c.dir_ty \in {"NonDir", "SBT"}
    /\ c.part \in {"L1Directory", "L2Directory"} => c.dir_ty # "NonDir"
    /\ c.part = "flash" => c.type = 1

ASSUME ConfigsAssumption == \A c \in Configs : c \in Config /\ ValidConfig(c)

VARIABLES
    c,            \* the configuration of the part
    phase, at,    \* the phase and the position in its order of units
    live,         \* the units and leaves that exist
    known,        \* the heights and peak powers assigned
    stats,        \* of each pass the fields of stats_t it set last
    power_t,      \* leaves with the passes whose statistics their power_t holds
    counted,      \* <<total, unit, item>>: added to the unit's total
    twice         \* added more than once

partVars == <<c, phase, at, live, known, stats, power_t, counted, twice>>

----------------------------------------------------------------------------
(* The units of each part, in the order of the calls of each phase.        *)
CoreOrder(p) ==
    CASE p = 1 -> <<"l2cache", "BPT", "ifu", "lsu", "mmu", "rfu", "scheu", "exeu",
                    "fp_u", "mul", "exu", "rnu", "core">>
      [] p \in {2, 3} -> <<"BPT", "ifu", "lsu", "mmu", "rfu", "scheu", "exeu", "fp_u",
                           "mul", "exu", "rnu", "l2cache", "core">>
      [] p = 4 -> <<"BPT", "ifu", "rnu", "lsu", "mmu", "rfu", "scheu", "exeu", "fp_u",
                    "mul", "exu", "l2cache", "core">>
      [] p = 5 -> <<"BPT", "ifu", "lsu", "rnu", "mmu", "fp_u", "exeu", "mul", "rfu",
                    "scheu", "exu", "l2cache", "core">>
Order(part, p) ==
    CASE part = "core" -> CoreOrder(p)
      [] part = "mc"   -> <<"frontend", "transecEngine", "PHY", "mc">>
      [] part = "noc"  -> <<"router", "link_bus", "noc">>
      [] OTHER         -> <<part>>

Units(part)  == {Order(part, 1)[i] : i \in DOMAIN Order(part, 1)}
Done         == IF phase = Gone THEN Units(c.part)
                ELSE {Order(c.part, phase)[i] : i \in 1 .. at - 1}

(* The units below a unit.                                                 *)
Below(u) == CASE u = "core" -> CoreUnits(c)
              [] u = "exu"  -> ExuUnits(c)
              [] u = "ifu"  -> If(c.prediction, {"BPT"})
              [] u = "mc"   -> McUnits(c)
              [] OTHER      -> {}
Exists(u) == u = c.part \/ \E v \in Units(c.part) : u \in Below(v)

----------------------------------------------------------------------------
(* The tables of a unit, empty for one that does not exist: what it builds,*)
(* the fields of stats_t its peak and its run-time pass set, the power_t   *)
(* it resets, the fields it multiplies into power_t, what it adds to each  *)
(* total, what it shows and what its destructor frees.                     *)
Columns(built, peak, runtime, resets, uses, sums, shows, frees) ==
    [built |-> built, stats |-> [TDP |-> peak, RTP |-> runtime], resets |-> resets,
     uses |-> uses, sums |-> sums, shows |-> shows, frees |-> frees]
Every(S) == [total \in PartTotals |-> S]
Blocks(S, sums, shows) == Columns(S, {}, {}, {}, {}, sums, shows, S)

CacheTable == Columns(CacheBuilt(c), CachePeakStats(c), CacheRuntimeStats(c), CacheResets(c),
                      CacheUses(c), Every(CacheSums(c)), CacheShows(c), CacheFrees(c))
Table(u) ==
    CASE u = "ifu" ->
           Columns(IfuBuilt(c), IfuStats(c), IfuStats(c), IfuResets(c), IfuUses(c),
                   Every(IfuSums(c)), IfuShows(c), IfuFrees(c))
      [] u = "BPT" ->
           Columns(BptBuilt(c), BptStats(c), BptStats(c), BptResets(c), BptUses(c),
                   Every(BptSums(c)), BptShows(c), BptFrees(c))
      [] u = "lsu" ->
           Columns(LsuBuilt(c), LsuStats(c), LsuStats(c), LsuResets(c), LsuUses(c),
                   Every(LsuSums(c)), LsuShows(c), LsuFrees(c))
      [] u = "mmu" ->
           Columns(MmuBuilt, MmuStats, MmuStats, MmuResets, MmuUses, Every(MmuSums),
                   MmuShows, MmuFrees)
      [] u = "rfu" ->
           Columns(RfuBuilt(c), RfuStats(c), RfuStats(c), RfuResets(c), RfuUses(c),
                   Every(RfuSums(c)), RfuShows(c), RfuFrees(c))
      [] u = "scheu" ->
           Columns(ScheuBuilt(c), ScheuStats(c), ScheuStats(c), ScheuResets(c), ScheuUses(c),
                   [total \in PartTotals |-> ScheuSums(c, total)], ScheuShows(c), ScheuFrees(c))
      [] u \in {"exeu", "fp_u", "mul"} ->
           Columns(FuBuilt(u, c), FuStats(u, c), FuStats(u, c), FuResets(u, c), FuUses(u, c),
                   Every(FuBuilt(u, c)), FuShows(u, c), {})
      [] u = "exu" ->
           Columns(Bypasses(c), {}, {}, {}, {}, Every(ExuSums(c)), ExuShows(c), ExuFrees(c))
      [] u = "rnu" ->
           Columns(RnuBuilt(c), RnuPeakStats(c), RnuRuntimeStats(c), RnuResets(c), RnuUses(c),
                   [total \in PartTotals |-> RnuSums(c, total)], RnuShows(c), RnuFrees(c))
      [] u = "core" ->
           Columns(CoreBuilt, {}, {}, {}, {}, [total \in PartTotals |-> CoreSums(c, total)],
                   CoreShows(c), CoreFrees(c))
      [] u = "l2cache" -> IF c.Private_L2 THEN CacheTable ELSE Blocks({}, Every({}), {})
      [] u \in {"L2", "L3", "L1Directory", "L2Directory"} -> CacheTable
      [] u = "frontend" ->
           Columns(FrontEndBuilt, FrontEndStats, FrontEndStats, FrontEndResets, FrontEndUses,
                   Every(FrontEndSums), FrontEndShows, FrontEndFrees)
      [] u = "transecEngine" ->
           Columns({u}, BackendStats, BackendStats, {u}, BackendUses, Every({u}), {u}, {})
      [] u = "PHY" ->
           Columns(Phy(c), PhyStats(c), PhyStats(c), Phy(c), PhyUses(c), Every(Phy(c)), Phy(c), {})
      [] u = "mc" ->
           Columns({}, {}, {}, {}, {}, Every(McSums(c)), McShows(c), McFrees(c))
      [] u = "router"   -> Blocks(Router(c), Every(RouterSums(c)), RouterShows(c))
      [] u = "link_bus" -> Blocks(LinkBus(c), Every(LinkBusSums(c)), LinkBusShows(c))
      [] u = "noc"      -> Blocks({}, Every({}), {})
      [] u = "niu"      -> Blocks(NiuBlocks, [total \in PartTotals |-> NiuSums(total)], NiuShows)
      [] u = "pcie"     -> Blocks(PcieBlocks(c), Every(PcieSums(c)), PcieShows(c))
      [] u = "flash"    -> Blocks(FlashBlocks(c), Every(FlashSums(c)), FlashShows(c))

Again(u, total) == CASE u = "scheu" -> ScheuAgain(c, total)
                     [] u = "niu"   -> NiuAgain(total)
                     [] OTHER       -> {}

(* Numbers one unit leaves for another, or the peak pass for the run-time  *)
(* pass: the heights the bypasses are as long as; the decoders' power_t;   *)
(* the peak power of which a tenth, or the leakage, is added at run time.  *)
PeakPower(u) == If(u \in {"ifu", "frontend", "transecEngine", "PHY", "router"}, {<<u, "power">>})
Gives(u) ==
    CASE phase = 1 /\ u = "scheu" -> ScheuHeights(c)
      [] phase = 1 /\ u = "rfu" -> {<<u, "int_regfile_height">>, <<u, "fp_regfile_height">>}
      [] phase = 1 /\ u = "lsu" -> {<<u, "lsq_height">>}
      [] phase = 1 /\ u \in {"exeu", "fp_u", "mul"} -> FuHeight(u, c)
      [] phase = 2 -> PeakPower(u)
      [] OTHER -> {}
NeededNumbers(u) == CASE phase = 1 /\ u = "exu" -> ExuHeights(c)
                      [] phase = 3 -> PeakPower(u)
                      [] OTHER -> {}

Leaves(fields) == {f[1] : f \in fields}
Summed(u)      == UNION {Table(u).sums[total] \cup Again(u, total) : total \in PartTotals}
(* The objects a step follows pointers to.                                 *)
Needed(u) ==
    CASE phase = 1 -> Below(u)
      [] phase \in {2, 3} -> Leaves(Table(u).stats[Phase[phase]]) \cup Leaves(Table(u).uses)
                             \cup (Summed(u) \ PipeShares(5)) \cup If(u = "core", {"corepipe"})
      [] phase = 4 -> Table(u).shows
      [] phase = 5 -> Table(u).frees
      [] OTHER -> {}

----------------------------------------------------------------------------
PartInit ==
    /\ c \in Configs
    /\ phase = 1 /\ at = 1
    /\ live = {} /\ known = {}
    /\ stats = [pass \in Passes |-> {}]
    /\ power_t = {}
    /\ counted = {} /\ twice = {}

Unit == Order(c.part, phase)[at]
Step == IF at < Len(Order(c.part, phase))
        THEN at' = at + 1 /\ UNCHANGED phase
        ELSE at' = 1 /\ phase' = phase + 1

(* What a unit adds to the totals of this phase.                           *)
Adds(u) == UNION {{total} \X {u} \X Table(u).sums[total] : total \in Due(phase)}
AddsAgain(u) == UNION {{total} \X {u} \X Again(u, total) : total \in Due(phase)}
Accumulate(u) == /\ counted' = counted \cup Adds(u)
                 /\ twice' = twice \cup (Adds(u) \cap counted) \cup AddsAgain(u)

(* A constructor: new for each leaf and unit, whose areas are added up.    *)
ConstructUnit ==
    /\ phase = 1
    /\ live' = live \cup Table(Unit).built \cup If(Exists(Unit), {Unit})
    /\ known' = known \cup Gives(Unit)
    /\ Accumulate(Unit)
    /\ Step
    /\ UNCHANGED <<c, stats, power_t>>

(* computeEnergy: set the statistics, reset power_t, multiply, add up.     *)
\* Mutant of Set: a field written again keeps its first writer.
SetBoth(fields, pass) == [q \in Passes |-> IF q = pass THEN stats[q] \cup fields ELSE stats[q]]
Set(fields, pass) == [q \in Passes |-> IF q = pass THEN stats[q] \cup fields
                                       ELSE stats[q] \ fields]
Origins(field) == {q \in Passes : field \in stats'[q]}
Product(fields) == UNION {{f[1]} \X (IF Origins(f) = {} THEN {"never"} ELSE Origins(f)) :
                          f \in fields}
ComputeUnitEnergy ==
    /\ phase \in {2, 3}
    /\ stats' = Set(Table(Unit).stats[Phase[phase]], Phase[phase])
    /\ power_t' = {x \in power_t : x[1] \notin Table(Unit).resets}
                  \cup Product(Table(Unit).uses)
    /\ known' = known \cup Gives(Unit)
    /\ Accumulate(Unit)
    /\ Step
    /\ UNCHANGED <<c, live>>

DisplayUnitEnergy ==
    /\ phase = 4
    /\ Step
    /\ UNCHANGED <<c, live, known, stats, power_t, counted, twice>>

(* A destructor frees its leaves and the units below; the Processor        *)
(* deletes the part.                                                       *)
DestroyUnit ==
    /\ phase = 5
    /\ live' = live \ (Table(Unit).frees \cup If(Unit = c.part, {Unit}))
    /\ Step
    /\ UNCHANGED <<c, known, stats, power_t, counted, twice>>

Terminated == phase = Gone /\ UNCHANGED partVars
PartNext == ConstructUnit \/ ComputeUnitEnergy \/ DisplayUnitEnergy \/ DestroyUnit \/ Terminated
PartSpec == PartInit /\ [][PartNext]_partVars

----------------------------------------------------------------------------
(* Every variable keeps its type: above all the parts' walk stays within   *)
(* the order of calls, and a field of stats_t has one last writer.         *)
PartTypeOK ==
    /\ c \in Configs
    /\ phase \in 1 .. Gone
    /\ at \in 1 .. 13
    /\ phase # Gone => at \in DOMAIN Order(c.part, phase)
    /\ stats["TDP"] \cap stats["RTP"] = {}

(* No function of a part follows a pointer to a leaf or a unit that is not *)
(* built, or is freed already, under any configuration; none frees what    *)
(* another has freed, and when the part is deleted nothing is left.        *)
NoDanglingPointer == IF phase = Gone THEN live = {} ELSE Needed(Unit) \subseteq live

(* The heights and peak powers a function reads have been assigned before: *)
(* the order of the constructors and of the passes provides them.  For the *)
(* heights this takes a scheduler with its windows and reorder buffer.     *)
HasHeights == IF OOO(c) THEN c.ROB ELSE c.multithreaded
NumbersAssigned == (phase # Gone /\ (HasHeights \/ phase # 1))
                   => NeededNumbers(Unit) \subseteq known

(* The power of a leaf is made of this pass's statistics only: neither an  *)
(* unreset power_t nor a field that only the other pass sets lets the peak *)
(* numbers into the run-time power.  A home node's cache is left out.      *)
PassOf(u) == IF phase > 3 \/ (phase = 3 /\ u \in Done) THEN "RTP" ELSE "TDP"
Computed(u) == phase > 2 \/ (phase = 2 /\ u \in Done)
MadeOfThisPass(u, leaves) == Computed(u) =>
    \A x \in power_t : x[1] \in leaves => x[2] = PassOf(u)
OwnNumbers ==
    \A u \in Units(c.part) :
        MadeOfThisPass(u, Table(u).built \ If(HomeNode(c), UniArray))

(* The same of home nodes: sharedcache.cc:658, "init stats for runtime     *)
(* power (RTP)".                                                           *)
HomeNodeNumbers == \A u \in Units(c.part) : MadeOfThisPass(u, Table(u).built)

(* Every leaf and unit a unit owns, and each of the num_units shares of    *)
(* the pipeline, is counted once in each total; the four kinds of logic    *)
(* block the code leaves out of a total or adds twice are named.           *)
Uncounted(total) ==
    {"MC_arb"} \cup If(total \in {"area", "leakage"}, {"instruction_selection", "idcl", "fdcl"})
    \cup If(total = "leakage", {"frontend_gates", "niu.SerDer"})
Owed(u, total) == ((Table(u).built \cup Below(u)) \ ({"corepipe"} \cup Uncounted(total)))
                  \cup If(u = "core", PipeShares(num_units(c)))
PartWhole(total) == \A u \in Units(c.part) : \A item \in Owed(u, total) :
    /\ <<total, u, item>> \in counted
    /\ <<total, u, item>> \notin twice

(* A part keeps the promise of PowerModel: its totals are whole when their *)
(* phase ends, and never lose or gain a part afterwards.                   *)
Model == INSTANCE PowerModel
             WITH stage <- phase, whole <- {total \in PartTotals : PartWhole(total)}
ImplementsModel == Model!Spec
=============================================================================
