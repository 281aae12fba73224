------------------------------- MODULE MCMain -------------------------------
(***************************************************************************)
(* Files of chips of up to two parts of a kind, one too many among them:   *)
(* the choices of one or two kinds are combined fully, the others keep a   *)
(* default; the components are those the numbers ask for, or lack one,     *)
(* hold one twice, give a directory for an L2, or are none.                *)
(***************************************************************************)
EXTENDS McpatMain

Default == [infile |-> TRUE,
            number |-> [k \in Kinds |-> 1], homo |-> [k \in ArrayKinds |-> TRUE],
            Private_L2 |-> FALSE, channels |-> [k \in {"mc", "pcie"} |-> 1], flash_type |-> 1,
            bus |-> {}, linked |-> {0, 1}, components |-> <<>>]

Same(n, kind) == [m \in 1 .. n |-> kind]
Complete(x) ==
    FlattenSeq([n \in DOMAIN Arrays |->
                  Same(IF x.homo[Arrays[n]] THEN 1 ELSE x.number[Arrays[n]], Arrays[n])]) \o Singles
Filled(S) == {[x EXCEPT !.components = Complete(x)] : x \in S}

Counts(k)  == {[Default EXCEPT !.number[k] = n, !.homo[k] = h] : n \in 0 .. 3, h \in BOOLEAN}
L2s        == {[x EXCEPT !.number["L2"] = n, !.homo["L2"] = h, !.Private_L2 = TRUE] :
               x \in Counts("core"), n \in 0 .. 2, h \in BOOLEAN}
Networks   == {[x EXCEPT !.bus = b, !.linked = l] :
               x \in Counts("NoC"), b \in SUBSET {0, 1}, l \in SUBSET {0, 1}}
Controllers == {[Default EXCEPT !.number[k] = n, !.channels = [c \in {"mc", "pcie"} |-> ch], !.flash_type = t] :
                k \in SingleKinds, n \in 0 .. 2, ch, t \in {0, 1}}
Heterogeneous == {[Default EXCEPT !.number = [k \in Kinds |-> n], !.homo = [k \in ArrayKinds |-> FALSE]] : n \in 0 .. 2}
Files == UNION {Counts(k) : k \in ArrayKinds} \cup L2s \cup Networks \cup Controllers \cup Heterogeneous

(* The component of an L2 directory where that of the nth L2 belongs.      *)
Directory(x, n) == [x EXCEPT !.components = [m \in DOMAIN @ |-> IF m = n THEN "L2Directory" ELSE @[m]]]
Mistaken(S) == UNION {{Directory(x, n) : n \in {m \in DOMAIN x.components : x.components[m] = "L2"}} : x \in S}

Broken(x) == UNION {{[x EXCEPT !.components = RemoveAt(@, n)], [x EXCEPT !.components = InsertAt(@, n, @[n])]} :
                    n \in DOMAIN x.components}
OneCore  == [Default EXCEPT !.number = [k \in Kinds |-> IF k \in {"core"} \cup SingleKinds THEN 1 ELSE 0],
                            !.homo = [k \in ArrayKinds |-> k = "core"]]
(* Cores that the file does not promise.                                   *)
Unpromised == {[x EXCEPT !.number["core"] = 0] : x \in Filled(Heterogeneous)}
AllInputs == Filled(Files) \cup UNION {Broken(x) : x \in Filled({Default, OneCore} \cup Heterogeneous)}
             \cup Mistaken(Filled({Default} \cup L2s \cup Heterogeneous)) \cup Filled({OneCore}) \cup Unpromised \cup {Default, [Default EXCEPT !.infile = FALSE]}
=============================================================================
