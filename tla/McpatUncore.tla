---------------------------- MODULE McpatUncore -----------------------------
(***************************************************************************)
(* The tables of the parts outside a McPAT core: shared caches and their   *)
(* directories (sharedcache.cc), the memory controller (memoryctrl.cc),    *)
(* the network (noc.cc) and the I/O controllers (iocontrollers.cc).        *)
(***************************************************************************)
EXTENDS McpatTypes

----------------------------------------------------------------------------
(* SharedCache: L2, L3 and the directories.  A shadow-tag directory has no *)
(* buffers.  With dir_ty SBT the cache is also a home node: the peak pass  *)
(* sets homenode_stats_t, the run-time pass of L2 and L3 sets              *)
(* homenode_rtp_stats, and the power is made from homenode_stats_t.        *)
HomePorts    == {"homeReadHit", "homeReadMiss", "homeWriteHit", "homeWriteMiss"}
HomeRtpPorts == {"homeRtpReadHit", "homeRtpReadMiss", "homeRtpWriteHit", "homeRtpWriteMiss"}
UniArray     == {"unicache.caches"}
UniBuffers   == {"unicache.missb", "unicache.ifb", "unicache.prefetchb", "unicache.wbb"}

ShadowTags(c) == c.dir_ty = "ST"
IsDirectory(c) == c.part \in {"L1Directory", "L2Directory"}
HomeNode(c)    == c.dir_ty = "SBT"
CacheArrays(c) == UniArray \cup If(~ShadowTags(c), UniBuffers)

CacheBuilt(c) == CacheArrays(c)
CachePeakStats(c) == On(UniArray, CacheReads \cup CacheWrites)
                     \cup If(HomeNode(c), On(UniArray, HomePorts))
                     \cup If(~ShadowTags(c), On(UniBuffers, RW))
CacheRuntimeStats(c) == On(UniArray, CacheReads \cup CacheWrites)
                        \cup If(HomeNode(c) /\ ~IsDirectory(c), On(UniArray, HomeRtpPorts))
                        \cup If(~ShadowTags(c), On(UniBuffers, RW))
CacheUses(c) == (IF ShadowTags(c)
                 THEN On(UniArray, RW)
                 ELSE On(UniArray, {"readHit", "readMiss", "write", "writeMiss"})
                      \cup On(UniBuffers, RW))
                \cup If(HomeNode(c), On(UniArray, HomePorts))
CacheResets(c) == CacheArrays(c)
CacheSums(c)   == CacheArrays(c)
CacheShows(c)  == CacheArrays(c)
CacheFrees(c)  == CacheArrays(c)

----------------------------------------------------------------------------
(* MemoryController: front end, MCBackend (transecEngine) and, on chip or  *)
(* asked for, MCPHY.  Each run-time pass adds a tenth of the peak power.   *)
FrontEndBuffers == {"frontendBuffer", "readBuffer", "writeBuffer"}
FrontEndBuilt   == FrontEndBuffers \cup {"MC_arb"}
FrontEndStats   == On(FrontEndBuffers, RW)
FrontEndResets  == FrontEndBuffers
FrontEndUses    == On(FrontEndBuffers, RW)
FrontEndSums    == FrontEndBuffers
FrontEndShows   == FrontEndBuffers
FrontEndFrees   == FrontEndBuffers \cup {"MC_arb"}

HasPHY(c)   == c.type = 0 \/ c.withPHY
Phy(c)      == If(HasPHY(c), {"PHY"})

BackendStats == On({"transecEngine"}, RW)
BackendUses  == On({"transecEngine"}, RW)
PhyStats(c)  == On(Phy(c), RW)
PhyUses(c)   == On(Phy(c), RW)

McUnits(c)  == {"frontend", "transecEngine"} \cup Phy(c)
McSums(c)   == {"frontend", "transecEngine"} \cup Phy(c)
McShows(c)  == {"frontend", "transecEngine"} \cup Phy(c)
McFrees(c)  == {"frontend", "transecEngine"} \cup Phy(c)

----------------------------------------------------------------------------
(* NoC: type 0 is a bus, built at once; otherwise a router, and links that *)
(* the Processor adds when the areas of all other parts are known.         *)
Router(c)  == If(c.type # 0, {"router"})
Bus(c)     == If(c.type = 0, {"link_bus"})
GlobalLinks(c) == If(c.type # 0 /\ c.has_global_link, {"link_bus"})
LinkBus(c) == Bus(c) \cup GlobalLinks(c)
RouterSums(c)  == Router(c)
LinkBusSums(c) == LinkBus(c)
RouterShows(c)  == Router(c)
LinkBusShows(c) == LinkBus(c)

----------------------------------------------------------------------------
(* The I/O controllers are formulas of their blocks; the passes only scale *)
(* power_t.  The leakage of the NIU takes the front end's gates twice.     *)
NiuBlocks         == {"mac", "frontend_gates", "niu.SerDer"}
NiuSums(total)    == IF total = "leakage" THEN {"mac", "frontend_gates"} ELSE NiuBlocks
NiuAgain(total)   == If(total = "leakage", {"frontend_gates"})
NiuShows          == NiuBlocks
PcieBlocks(c)     == {"ctrl"} \cup If(c.withPHY, {"SerDer"})
PcieSums(c)       == {"ctrl"} \cup If(c.withPHY, {"SerDer"})
PcieShows(c)      == {"ctrl"} \cup If(c.withPHY, {"SerDer"})
FlashBlocks(c)    == {"ctrl"} \cup If(c.withPHY, {"SerDer"})
FlashSums(c)      == {"ctrl"} \cup If(c.withPHY, {"SerDer"})
FlashShows(c)     == {"ctrl"} \cup If(c.withPHY, {"SerDer"})
=============================================================================
