----------------------------- MODULE TechTables -----------------------------
(***************************************************************************)
(* The tables of cacti/technology.cc: what init_tech_params assigns to its *)
(* local arrays at each technology node.  Of a table the model keeps the   *)
(* columns its decisions and properties need: of a device the default Vdd  *)
(* and v_th, of a DRAM cell its Vdd, of a wire its ild_thickness.  The     *)
(* other columns are assigned beside them for the same node and flavor.    *)
(* Voltages are in mV (v_th rounded), thickness in nm.  The node 16 has    *)
(* tables too, but the code that would choose it is commented out.         *)
(***************************************************************************)
EXTENDS Integers, Sequences

(* Device flavors: itrs_hp, itrs_lstp, itrs_lop; lp_dram; comm_dram.       *)
HP       == 0
LSTP     == 1
LOP      == 2
LPDram   == 3
CommDram == 4
ItrsFlavors == {HP, LSTP, LOP}
DramFlavors == {LPDram, CommDram}

(* I_off_n and I_g_on_n hold currents for every tenth kelvin from 300 K.   *)
TableTemps == {300 + 10 * n : n \in 0 .. 10}

Device(vdd, v_th) == [vdd |-> vdd, v_th |-> v_th]

HP180 == Device(1500, 441)

HP90   == Device(1200, 237)
LSTP90 == Device(1300, 482)
LOP90  == Device(900, 308)

HP65   == Device(1100, 195)
LSTP65 == Device(1200, 524)
LOP65  == Device(800, 285)

HP45   == Device(1000, 180)
LSTP45 == Device(1100, 502)
LOP45  == Device(700, 226)

HP32   == Device(900, 218)
LSTP32 == Device(1000, 513)
LOP32  == Device(600, 242)

HP22   == Device(800, 140)
LSTP22 == Device(800, 401)
LOP22  == Device(600, 232)

(* The flavors a node has: at 180 nm only high performance devices.        *)
Devices(node) ==
    CASE node = 180 -> << HP180 >>
      [] node = 90  -> << HP90, LSTP90, LOP90 >>
      [] node = 65  -> << HP65, LSTP65, LOP65 >>
      [] node = 45  -> << HP45, LSTP45, LOP45 >>
      [] node = 32  -> << HP32, LSTP32, LOP32 >>
      [] node = 22  -> << HP22, LSTP22, LOP22 >>
HasFlavor(node, f) == f + 1 \in DOMAIN Devices(node)
DeviceOf(node, f)  == Devices(node)[f + 1]

(* The DRAM cells: embedded and commodity.                                 *)
LPDram90 == 1200
CommDram90 == 1600
LPDram65 == 1200
CommDram65 == 1300
LPDram45 == 1100
CommDram45 == 1100
LPDram32 == 1000
CommDram32 == 1000
CommDram22 == 900

HasDram(node, f) ==
    f \in DramFlavors /\ node # 180 /\ ~(node = 22 /\ f = LPDram)
DramVdd(node, f) ==
    CASE node = 90 -> IF f = LPDram THEN LPDram90 ELSE CommDram90
      [] node = 65 -> IF f = LPDram THEN LPDram65 ELSE CommDram65
      [] node = 45 -> IF f = LPDram THEN LPDram45 ELSE CommDram45
      [] node = 32 -> IF f = LPDram THEN LPDram32 ELSE CommDram32
      [] node = 22 -> CommDram22

(* Logic of the node: curr_logic_scaling_co_eff, in thousandths.           *)
Logic(node) ==
    CASE node = 180 -> 1500  [] node = 90 -> 1000  [] node = 65 -> 700
      [] node = 45  -> 490   [] node = 32 -> 343   [] node = 22 -> 240

(* Wires by projection (aggressive, conservative) and type (local, semi-   *)
(* global, global).  Type 3, a DRAM's word and bit lines, has no more than *)
(* a pitch, a resistance and a capacitance, conservative ones.             *)
Wires180 == << <<750, 750, 1500>>, <<750, 750, 1980>> >>
Wires90  == << <<480, 480, 960>>,  <<480, 480, 1100>> >>
Wires65  == << <<405, 405, 810>>,  <<405, 405, 770>> >>
Wires45  == << <<315, 315, 630>>,  <<315, 315, 550>> >>
Wires32  == << <<210, 210, 420>>,  <<210, 210, 385>> >>
Wires22  == << <<150, 150, 300>>,  <<150, 150, 275>> >>

WireTypes == 0 .. 2
WireOf(node, projection, type) ==
    (CASE node = 180 -> Wires180 [] node = 90 -> Wires90 [] node = 65 -> Wires65
       [] node = 45  -> Wires45  [] node = 32 -> Wires32 [] node = 22 -> Wires22)
    [projection + 1][type + 1]
=============================================================================
