----------------------------- MODULE McpatTypes -----------------------------
(***************************************************************************)
(* What the tables of McPAT's parts share (McpatCore, McpatUncore).  A     *)
(* part of the chip is a tree of units (objects of McPAT's classes) whose  *)
(* leaves are arrays and logic blocks.  A table tells of one function of a *)
(* unit's class which leaves it builds, sets, multiplies, adds up, shows   *)
(* or frees, as sets that depend on the configuration c of the part; how   *)
(* large the numbers are is left out.                                      *)
(***************************************************************************)
EXTENDS Integers

(* The kinds of access a leaf counts (statsDef: readAc, writeAc, searchAc, *)
(* each with access, hit and miss).                                        *)
Ports == {"read", "readHit", "readMiss", "write", "writeHit", "writeMiss", "search"}
RW    == {"read", "write"}
RWS   == RW \cup {"search"}
CacheReads  == {"read", "readHit", "readMiss"}
CacheWrites == {"write", "writeHit", "writeMiss"}

(* The choices of the XML file and of set_*_param the parts depend on.     *)
Config == [part         : {"core", "L2", "L3", "L1Directory", "L2Directory",
                           "mc", "noc", "niu", "pcie", "flash"},
           core_ty      : {"Inorder", "OOO"},
           scheu_ty     : {"PhysicalRegFile", "ReservationStation"},
           rm_ty        : {"RAMbased", "CAMbased"},
           cache_p      : {"Write_back", "Write_through"},
           dir_ty       : {"NonDir", "ST", "DC", "SBT"},
           type         : {0, 1},
           multithreaded : BOOLEAN, prediction : BOOLEAN, ROB : BOOLEAN,
           load_buffer  : BOOLEAN, muls : BOOLEAN, fpus : BOOLEAN,
           regWindowing : BOOLEAN, Private_L2 : BOOLEAN,
           withPHY      : BOOLEAN, has_global_link : BOOLEAN]

OOO(c) == c.core_ty = "OOO"
PRF(c) == OOO(c) /\ c.scheu_ty = "PhysicalRegFile"
RS(c)  == OOO(c) /\ c.scheu_ty = "ReservationStation"

If(b, S) == IF b THEN S ELSE {}
On(leaves, ports) == leaves \X ports
=============================================================================
