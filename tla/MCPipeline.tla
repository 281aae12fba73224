----------------------------- MODULE MCPipeline -----------------------------
(* Four logical cores on two physical ones, three bins. *)
EXTENDS PowerPipeline

\* Every logical core has its own cycles in every bin; two cores have the same in
\* all bins; or one core is idle in a bin.
MCWorks ==
    {[c \in Cpus |-> [s \in 1 .. Samples |-> 10 * c + s]],
     [c \in Cpus |-> [s \in 1 .. Samples |-> IF c < 2 THEN 2 ELSE s]],
     [c \in Cpus |-> [s \in 1 .. Samples |-> IF c = 1 /\ s = 2 THEN 0 ELSE s]]}

\* No counter is zero, or one: of the first core in the first bin, of another in
\* the last, of the L3, or in a sample that gives no bin.
MCZeros ==
    {{}} \cup {{z} : z \in {<<0, 1, "instructions">>, <<3, 3, "divisors">>, <<1, 2, "l3">>,
                             <<3, Samples, "divisors">>}}
AnyList    == SUBSET {"l3", "fp"}
WithOrNoL3 == AnyList \cup {{"l2 reads and writes"}}
MCCuts     == {{}, {"divisors"}}
=============================================================================
