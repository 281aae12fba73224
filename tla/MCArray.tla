------------------------------ MODULE MCArray ------------------------------
(* Up to three organizations: slow to fast cycles against near and far     *)
(* accesses; the far one loses the cost to the slow one while it may, and  *)
(* so does the fast and near one that takes much energy.                   *)
EXTENDS ArrayOptimize

Org(c, a, d, e) == [cycle |-> c, access |-> a, dynamic |-> d, efficiency |-> e]
MCOrganizations ==
    {Org(c, a, 1, 30) : c \in {10, 14, 21}, a \in {10, 90}}
      \cup {Org(10, 10, 200, 10), Org(18, 10, 2, 10), Org(18, 90, 3, 10)}
NoTag == {[data |-> l, tag |-> <<>>] : l \in UNION {[1 .. n -> MCOrganizations] : n \in 1 .. 3}}

\* A slow cheap tag array before or after a fast dear one.
MCTags  == {Org(20, 5, 1, 0), Org(10, 5, 40, 0), Org(12, 12, 2, 0)}
MCDatas == {Org(10, 10, 1, 30), Org(14, 10, 1, 30), Org(18, 90, 1, 30), Org(10, 90, 9, 30)}
Tagged  == {[data |-> l, tag |-> t] : l \in UNION {[1 .. n -> MCDatas] : n \in 1 .. 2},
                                      t \in UNION {[1 .. n -> MCTags] : n \in 1 .. 2}}

\* A tag array near enough for the access to weigh more than the cycle: what its
\* tighter searches find is slower.
Slowing == [data |-> <<Org(100, 15, 1, 30), Org(101, 10, 1, 30)>>,
            tag |-> <<Org(90, 50, 1, 0), Org(50, 5, 300, 0)>>]
MCArrays == NoTag \cup Tagged \cup {Slowing}
=============================================================================
