------------------------------- MODULE MCPart -------------------------------
(***************************************************************************)
(* All parts of a chip, each in every configuration its code looks at: the *)
(* choices of one unit are combined fully with those it depends on, the    *)
(* remaining fields keep a default.                                        *)
(***************************************************************************)
EXTENDS McpatPart

Default == [part |-> "core", core_ty |-> "OOO", scheu_ty |-> "PhysicalRegFile",
            rm_ty |-> "RAMbased", cache_p |-> "Write_back", dir_ty |-> "NonDir", type |-> 0,
            multithreaded |-> FALSE, prediction |-> TRUE, ROB |-> TRUE, load_buffer |-> TRUE,
            muls |-> TRUE, fpus |-> TRUE, regWindowing |-> FALSE, Private_L2 |-> FALSE,
            withPHY |-> TRUE, has_global_link |-> TRUE]

OutOfOrder == {[Default EXCEPT !.scheu_ty = s, !.rm_ty = r, !.ROB = rob, !.load_buffer = lq,
                               !.muls = m, !.fpus = f] :
               s \in {"PhysicalRegFile", "ReservationStation"}, r \in {"RAMbased", "CAMbased"},
               rob, lq, m, f \in BOOLEAN}
InOrder == {[Default EXCEPT !.core_ty = "Inorder", !.multithreaded = t, !.muls = m, !.fpus = f,
                            !.regWindowing = w] : t, m, f, w \in BOOLEAN}
FrontAndCaches == {[Default EXCEPT !.core_ty = o, !.multithreaded = TRUE, !.prediction = p, !.cache_p = w,
                                   !.Private_L2 = l, !.dir_ty = d] :
                   o \in {"OOO", "Inorder"}, p, l \in BOOLEAN,
                   w \in {"Write_back", "Write_through"}, d \in {"NonDir", "SBT"}}
Caches == {[Default EXCEPT !.part = p, !.dir_ty = d] :
           p \in {"L2", "L3", "L1Directory", "L2Directory"}, d \in {"NonDir", "ST", "DC", "SBT"}}
Uncore == {[Default EXCEPT !.part = p, !.type = t, !.withPHY = w, !.has_global_link = g] :
           p \in {"mc", "noc", "niu", "pcie", "flash"}, t \in {0, 1}, w, g \in BOOLEAN}

AllConfigs == {x \in OutOfOrder \cup InOrder \cup FrontAndCaches \cup Caches \cup Uncore :
               ValidConfig(x)}
=============================================================================
