------------------------------ MODULE MCSolve ------------------------------
(* Two threads, four partitions; a fast, a frugal and a poor array. *)
EXTENDS CactiSolve

Found == {[delay |-> 2, dyn |-> 5], [delay |-> 3, dyn |-> 2], [delay |-> 4, dyn |-> 4]}
\* At least one partition is invalid.
MCDataTables ==
    {f \in [Partitions -> Found \cup {Invalid}] : \E p \in Partitions : f[p] = Invalid}

\* No tag array; one; a fast one against a frugal one of equal cost.
TagAt(f) == [p \in Partitions |-> IF <<p.spd, p.iter>> \in DOMAIN f
                                  THEN f[<<p.spd, p.iter>>] ELSE Invalid]
MCTagTables ==
    {TagAt(<<>>),
     TagAt(<<1, 0>> :> [delay |-> 2, dyn |-> 2]),
     TagAt(<<1, 1>> :> [delay |-> 1, dyn |-> 4] @@ <<2, 0>> :> [delay |-> 2, dyn |-> 2])}

\* A plain memory by each objective, and forced; a cache by each access mode.
Ram(ed, force)   == [is_cache |-> FALSE, ed |-> ed, force |-> force, access |-> "fast"]
Cache(ed, access) == [is_cache |-> TRUE, ed |-> ed, force |-> FALSE, access |-> access]
MCConfigs ==
    {Ram(0, FALSE), Ram(0, TRUE), Ram(1, FALSE), Ram(2, FALSE),
     Cache(2, "fast"), Cache(0, "sequential"), Cache(0, "normal")}
MCForced == [spd |-> 1, iter |-> 1, sam |-> 1]
=============================================================================
