---------------------------- MODULE MCTechnology ----------------------------
(***************************************************************************)
(* Inputs around a plain HP cache at 45 nm: one or two fields at a time    *)
(* take the values at which error_checking or init_tech_params decide.     *)
(* Feature sizes are those of the tables, one between each two neighbours, *)
(* the ends of a node's window, and invalid ones.                          *)
(***************************************************************************)
EXTENDS Technology

Both(a) == [t \in BOOLEAN |-> a]
Tag(a, b) == [t \in BOOLEAN |-> IF t THEN a ELSE b]
Plain == [F |-> 450, temp |-> 360, sound |-> TRUE, type |-> "cache", assoc |-> 2,
          ram |-> Both(HP), peri |-> Both(HP), vdd |-> [f \in ItrsFlavors |-> 0], vcc_min |-> 0,
          dvs |-> <<>>, proj |-> 1, in_mat |-> 2, out_mat |-> 0,
          power_gating |-> FALSE, long_channel |-> FALSE]

Sizes    == {0, 180, 220, 240, 270, 310, 320, 380, 450, 550, 650, 780, 900, 910, 950, 1350, 1800, 1820}
WithSizes(S)  == {[x EXCEPT !.F = F] : x \in S, F \in Sizes}
WithTypes(S)  == {[x EXCEPT !.ram = Both(f), !.peri = Both(f)] : x \in S, f \in ItrsFlavors}
WithVdd(S)    == {[x EXCEPT !.vdd = [f \in ItrsFlavors |-> v]] : x \in S, v \in {0, 500, 1150}}
WithGating(S) == {[x EXCEPT !.power_gating = b, !.vcc_min = v] : x \in S, b \in BOOLEAN, v \in {0, 400, 1300}}
WithKinds(S)  == {[x EXCEPT !.type = y, !.assoc = a] : x \in S, y \in {"cache", "ram", "cam"}, a \in {0, 1}}
Unchecked     == {[Plain EXCEPT !.temp = t] : t \in {290, 365, 410}} \cup {[Plain EXCEPT !.sound = FALSE]}

McpatInputs == WithTypes(WithSizes({Plain})) \cup WithVdd({Plain, [Plain EXCEPT !.F = 380]})
               \cup WithGating({Plain}) \cup WithKinds({Plain}) \cup Unchecked

DramInputs == {[x EXCEPT !.ram = Tag(t, d), !.peri = Both(p), !.type = y, !.proj = j] :
                 x \in {Plain, [Plain EXCEPT !.F = 220], [Plain EXCEPT !.F = 270],
                       [Plain EXCEPT !.F = 310], [Plain EXCEPT !.F = 1350]},
                 t \in {HP, LPDram}, d \in {LPDram, CommDram}, p \in {HP, LSTP},
                 y \in {"cache", "main memory"}, j \in {0, 1}}
MixedInputs == {[x EXCEPT !.ram = Tag(a, b), !.peri = Tag(a, c)] :
                  x \in {Plain, [Plain EXCEPT !.assoc = 0]}, a, b, c \in {HP, LOP}}
DvsInputs == {[x EXCEPT !.dvs = d] : x \in WithVdd(MixedInputs) \cup WithTypes({Plain}) \cup DramInputs,
                d \in {<<900, 1000>>, <<1100>>}}
FileInputs == McpatInputs \cup DramInputs \cup MixedInputs \cup DvsInputs
              \cup {[x EXCEPT !.power_gating = TRUE] : x \in DvsInputs \cup MixedInputs}
              \cup {[x EXCEPT !.long_channel = TRUE] : x \in DramInputs}

AllRequests == {[caller |-> "file", ip |-> x] : x \in FileInputs}
               \cup {[caller |-> c, ip |-> x] : c \in {"array", "unit"}, x \in McpatInputs}
=============================================================================
