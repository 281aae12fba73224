----------------------------- MODULE McpatCore ------------------------------
(***************************************************************************)
(* The tables of a McPAT core (fast_mcpat/core.cc, logic.cc): for every    *)
(* unit what its constructor builds, what computeEnergy sets (Stats),      *)
(* multiplies (Uses, Needs) and adds up (Sums), what displayEnergy shows   *)
(* and what the destructor frees.                                          *)
(***************************************************************************)
EXTENDS McpatTypes

----------------------------------------------------------------------------
(* InstFetchU *)
ICacheBuilt == {"icache.caches", "icache.missb", "icache.ifb", "icache.prefetchb"}
Decoders    == {"ID_inst", "ID_operand", "ID_misc"}
IfuBuffers  == {"icache.missb", "icache.ifb", "icache.prefetchb", "IB"}

IfuBuilt(c) == ICacheBuilt \cup {"IB"} \cup If(c.prediction, {"BTB"}) \cup Decoders
IfuStats(c) == On({"icache.caches"}, CacheReads) \cup On(IfuBuffers, RW)
               \cup If(c.prediction, On({"BTB"}, RW)) \cup On(Decoders, {"read"})
IfuUses(c)  == On({"icache.caches"}, {"readHit", "readMiss"}) \cup On(IfuBuffers, RW)
               \cup If(c.prediction, On({"BTB"}, RW)) \cup On(Decoders, {"read"})
\* Mutant of IfuResets: the miss buffer keeps the peak pass's power.
IfuResetsButMissBuffer(c) == (ICacheBuilt \ {"icache.missb"}) \cup {"IB"} \cup If(c.prediction, {"BTB"}) \cup Decoders
IfuResets(c) == ICacheBuilt \cup {"IB"} \cup If(c.prediction, {"BTB"}) \cup Decoders
IfuSums(c)  == ICacheBuilt \cup {"IB"} \cup If(c.prediction, {"BTB", "BPT"}) \cup Decoders
IfuShows(c) == ICacheBuilt \cup {"IB"} \cup If(c.prediction, {"BTB"}) \cup Decoders
IfuFrees(c) == ICacheBuilt \cup {"IB"} \cup Decoders \cup If(c.prediction, {"BTB", "BPT"})

(* BranchPredictor; a local predictor is declared but never built.         *)
Predictors   == {"globalBPT", "L1_localBPT", "L2_localBPT", "chooser", "RAS"}
BptBuilt(c)  == If(c.prediction, Predictors)
BptStats(c)  == If(c.prediction, On(Predictors, RW))
BptResets(c) == If(c.prediction, Predictors)
BptUses(c)   == If(c.prediction, On(Predictors, RW))
BptSums(c)   == If(c.prediction, Predictors)
BptShows(c)  == If(c.prediction, Predictors)
BptFrees(c)  == If(c.prediction, Predictors)

----------------------------------------------------------------------------
(* SchedulerU: the windows exist out of order, or in order with threads.   *)
Windows(c)    == If(OOO(c), {"int_inst_window", "fp_inst_window"})
                 \cup If(~OOO(c) /\ c.multithreaded, {"int_inst_window"})
ReorderBuffer(c) == If(OOO(c) /\ c.ROB, {"ROB"})
Selection(c)  == If(Windows(c) # {}, {"instruction_selection"})

ScheuBuilt(c) == Windows(c) \cup ReorderBuffer(c) \cup Selection(c)
ScheuHeights(c) ==
    If("int_inst_window" \in Windows(c), {<<"scheu", "Iw_height">>})
    \cup If("fp_inst_window" \in Windows(c), {<<"scheu", "fp_Iw_height">>})
    \cup If(ReorderBuffer(c) # {}, {<<"scheu", "ROB_height">>})
ScheuStats(c) == On(Windows(c), RWS) \cup On(ReorderBuffer(c), RW)
ScheuUses(c)  == On(Windows(c), RWS) \cup On(ReorderBuffer(c), RW)
ScheuResets(c) == Windows(c) \cup ReorderBuffer(c)
(* The selection logic's power is multiplied and its leakage added with    *)
(* every window; its area is not added.                                    *)
ScheuSums(c, total) == Windows(c) \cup ReorderBuffer(c)
                       \cup If(total # "area", Selection(c))
ScheuAgain(c, total) == If(OOO(c) /\ total = "leakage", Selection(c))
ScheuShows(c) == Windows(c) \cup ReorderBuffer(c)
ScheuFrees(c) == Windows(c) \cup ReorderBuffer(c) \cup Selection(c)

----------------------------------------------------------------------------
(* LoadStoreU *)
DCacheBuilt(c) == {"dcache.caches", "dcache.missb", "dcache.ifb", "dcache.prefetchb"}
                  \cup If(c.cache_p = "Write_back", {"dcache.wbb"})
LoadQueue(c)   == If(OOO(c) /\ c.load_buffer, {"LoadQ"})
LsuBuffers(c)  == (DCacheBuilt(c) \ {"dcache.caches"}) \cup {"LSQ"} \cup LoadQueue(c)

LsuBuilt(c)  == DCacheBuilt(c) \cup {"LSQ"} \cup LoadQueue(c)
LsuStats(c)  == On({"dcache.caches"}, CacheReads \cup CacheWrites) \cup On(LsuBuffers(c), RW)
LsuUses(c)   == On({"dcache.caches"}, {"readHit", "readMiss", "write", "writeMiss"})
                \cup On(LsuBuffers(c), RW)
LsuResets(c) == DCacheBuilt(c) \cup {"LSQ"} \cup LoadQueue(c)
LsuSums(c)   == DCacheBuilt(c) \cup {"LSQ"} \cup LoadQueue(c)
LsuShows(c)  == DCacheBuilt(c) \cup {"LSQ"} \cup LoadQueue(c)
LsuFrees(c)  == DCacheBuilt(c) \cup {"LSQ"} \cup LoadQueue(c)

(* MemManU *)
Tlbs      == {"itlb", "dtlb"}
MmuBuilt  == Tlbs
MmuStats  == On(Tlbs, CacheReads)
MmuUses   == On(Tlbs, {"read", "readMiss"})
MmuResets == Tlbs
MmuSums   == Tlbs
MmuShows  == Tlbs
MmuFrees  == Tlbs

(* RegFU; a windowed register file in order only (set_core_param).         *)
RegFiles(c)  == {"IRF", "FRF"} \cup If(c.regWindowing /\ ~OOO(c), {"RFWIN"})
RfuBuilt(c)  == RegFiles(c)
RfuStats(c)  == On(RegFiles(c), RW)
RfuUses(c)   == On(RegFiles(c), RW)
RfuResets(c) == RegFiles(c)
RfuSums(c)   == RegFiles(c)
RfuShows(c)  == RegFiles(c)
RfuFrees(c)  == RegFiles(c)

----------------------------------------------------------------------------
(* FunctionalUnit: the ALUs, and the FPUs and the multipliers if any.  It  *)
(* is a unit and its only leaf; its power is assigned, not accumulated.    *)
Fu(fu, c) == If(fu = "exeu" \/ (fu = "fp_u" /\ c.fpus) \/ (fu = "mul" /\ c.muls), {fu})
FuBuilt(fu, c)  == Fu(fu, c)
FuHeight(fu, c) == If(fu \in Fu(fu, c), {<<fu, "FU_height">>})
FuStats(fu, c)  == On(Fu(fu, c), {"read"})
FuUses(fu, c)   == On(Fu(fu, c), {"read"})
FuResets(fu, c) == Fu(fu, c)
FuShows(fu, c)  == Fu(fu, c)

(* EXECU: its units come first, then the bypasses, whose length adds up    *)
(* the heights of what they pass; a height is a number of a unit.          *)
IntBypasses    == {"int_bypass", "intTagBypass"}
MulBypasses(c) == If(c.muls, {"int_mul_bypass", "intTag_mul_Bypass"})
FpBypasses(c)  == If(c.fpus, {"fp_bypass", "fpTagBypass"})
Bypasses(c)    == IntBypasses \cup MulBypasses(c) \cup FpBypasses(c)

BypassHeights(c) ==
    {<<"rfu", "int_regfile_height">>, <<"exeu", "FU_height">>, <<"lsu", "lsq_height">>,
     <<"scheu", "Iw_height">>}
    \cup If(c.muls, {<<"mul", "FU_height">>})
    \cup If(c.fpus, {<<"fp_u", "FU_height">>, <<"rfu", "fp_regfile_height">>})
InorderHeights(c) == BypassHeights(c) \cup If(c.muls, {<<"rfu", "fp_regfile_height">>})
OOOHeights(c) == BypassHeights(c) \cup {<<"scheu", "ROB_height">>}
                 \cup If(c.fpus, {<<"scheu", "fp_Iw_height">>})
\* Mutant of ExuHeights: the bypasses of any core pass a reorder buffer.
ExuHeightsOOO(c) == OOOHeights(c)
ExuHeights(c) == IF OOO(c) THEN OOOHeights(c) ELSE InorderHeights(c)

ExuUnits(c) == {"rfu", "scheu", "exeu"} \cup If(c.fpus, {"fp_u"}) \cup If(c.muls, {"mul"})
ExuSums(c)  == ExuUnits(c) \cup Bypasses(c)
ExuShows(c) == Bypasses(c)
ExuFrees(c) == Bypasses(c) \cup ExuUnits(c)

----------------------------------------------------------------------------
(* RENAMINGU, out of order only: front end and retirement tables, free     *)
(* lists and the dependency check, which the front end's power includes.   *)
FRATs         == {"iFRAT", "fFRAT"}
Checks        == {"idcl", "fdcl"}
RRATs(c)      == If(PRF(c), {"iRRAT", "fRRAT"})
FreeLists(c)  == If(OOO(c), {"ifreeL"}) \cup If(PRF(c), {"ffreeL"})
FrontTables(c) == If(OOO(c), FRATs)
RenameArrays(c) == FrontTables(c) \cup RRATs(c) \cup FreeLists(c)
Searched(c)   == If(RS(c) /\ c.rm_ty = "RAMbased", On(FRATs, {"search"}))

FrontBuiltPRF(c) == If(PRF(c), FRATs)
FrontBuiltRS(c)  == If(RS(c), FRATs)
RnuBuilt(c)  == FrontBuiltPRF(c) \cup FrontBuiltRS(c) \cup RRATs(c) \cup FreeLists(c)
                \cup If(OOO(c), Checks)
RnuPeakStats(c)    == On(RenameArrays(c), RW) \cup Searched(c) \cup If(OOO(c), On(Checks, {"read"}))
RnuRuntimeStats(c) == On(RenameArrays(c), RW) \cup Searched(c) \cup If(OOO(c), On(Checks, {"read"}))
\* Mutant of RnuUses: retirement tables with reservation stations, too.
RnuUsesRRATs(c) == On(RenameArrays(c) \cup If(OOO(c), {"iRRAT", "fRRAT"}), RW) \cup Searched(c)
RnuUses(c)   == On(RenameArrays(c), RW) \cup Searched(c)
RnuResets(c) == RenameArrays(c)
RnuSums(c, total) == RenameArrays(c) \cup If(OOO(c) /\ total \in {"dynamic", "runtime"}, Checks)
RnuShows(c)  == RenameArrays(c)
RnuFrees(c)  == RenameArrays(c) \cup If(OOO(c), Checks)

----------------------------------------------------------------------------
(* Core: the pipeline's latches are shared out equally among num_units     *)
(* units, each share added to its unit's total and with it to the core's.  *)
CoreBuilt == {"undiffCore", "corepipe"}
CoreUnits(c) == {"ifu", "lsu", "mmu", "exu"} \cup If(OOO(c), {"rnu"})
                \cup If(c.Private_L2, {"l2cache"})
\* Mutant of num_units: every core has a renaming unit.
five_units(c) == 5
num_units(c) == IF OOO(c) THEN 5 ELSE 4
PipeShares(n) == {"ifu.pipe", "lsu.pipe", "mmu.pipe", "exu.pipe"} \cup If(n = 5, {"rnu.pipe"})
AddedShares(c) == {"ifu.pipe", "lsu.pipe", "mmu.pipe", "exu.pipe"} \cup If(OOO(c), {"rnu.pipe"})
CoreArea(c)    == CoreUnits(c) \cup {"undiffCore"} \cup AddedShares(c)
CorePeak(c)    == CoreUnits(c) \cup {"undiffCore"} \cup AddedShares(c)
CoreRuntime(c) == CoreUnits(c) \cup {"undiffCore"} \cup AddedShares(c)
CoreSums(c, total) == CASE total = "area" -> CoreArea(c)
                        [] total \in {"dynamic", "leakage"} -> CorePeak(c)
                        [] total = "runtime" -> CoreRuntime(c)
CoreShows(c) == CoreUnits(c)
CoreFrees(c) == CoreUnits(c) \cup {"undiffCore", "corepipe"}
=============================================================================
